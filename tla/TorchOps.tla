------------------------------ MODULE TorchOps ------------------------------
(***************************************************************************)
(* gguf_prepass_ops.cpp, routes.py: from raw GGUF blocks through the torch *)
(* ops of a route to the rows, or the weights, a caller gets. An op checks *)
(* its shapes, may return early when there are no rows, asks the loader,   *)
(* refuses or falls back on the host when the library or one of its        *)
(* optional symbols is not there, and calls the library, whose calls may   *)
(* fail. What is kept of an artifact is whose codes and scales each expert *)
(* has, the arrangement of the codes and two integers: a stored code is    *)
(* the official one plus bias, the stored zero plane is the official one   *)
(* plus zero times the scale.                                              *)
(***************************************************************************)
EXTENDS BackendLoader, KQuantLayout

CONSTANTS
  Work,        \* thread -> the calls it may make: records [route, req]
  MaxJobs,     \* bound: calls of one thread
  RowLimit,    \* kCpuReferenceRowLimit
  AllowCpu     \* QUACTLIZE_ALLOW_CPU_REFERENCE is set

VARIABLES
  at,          \* thread -> where its op is: idle, op, load, decide, call
  job,         \* thread -> the call it serves
  jobs,        \* thread -> calls made so far
  out          \* thread -> what its last call gave

opVars == <<at, job, jobs, out>>
vars == <<loaderVars, opVars>>

Grouped(r) == r.grouped
Experts(r) == 1 .. Len(r.rows)
CountTo(r, e) ==
  LET count[i \in 0 .. Len(r.rows)] == IF i = 0 THEN 0 ELSE count[i - 1] + r.rows[i]
  IN  count[e]
Total(r) == CountTo(r, Len(r.rows))
-----------------------------------------------------------------------------
(* The corrections of a stored code.                                       *)
Low4(q) == Quant[q].low = 4
(* gguf_prepare_gemv: signed codes are stored in offset binary.            *)
CodeBias(q) == CASE q = "Q3_K" -> 4 [] q = "Q6_K" -> 32 [] OTHER -> 0
(* The converter of a four-bit low plane emits code - 8.                   *)
LowShift(q) == IF Low4(q) THEN 8 ELSE 0
(* formats.py, PLACED_CODE_ZMUL.                                           *)
PlacedZmulOfConverter(q) == LowShift(q)           \* mutant: the offset binary is forgotten
PlacedZmul(q) ==
  CASE q = "Q2_K" -> 0 [] q = "Q3_K" -> -4 [] q \in {"Q4_K", "Q5_K"} -> 8 [] q = "Q6_K" -> -24
(* kPackedZMul of the two collectives that decode units in the kernel.     *)
PackedZMulOne(q) == IF Low4(q) THEN 8 ELSE 0
PackedZMulTwo(q) == CASE q = "Q5_K" -> 8 [] q = "Q3_K" -> -4 [] q = "Q6_K" -> -24
PackedZMul(q) == IF Quant[q].high = 0 THEN PackedZMulOne(q) ELSE PackedZMulTwo(q)
-----------------------------------------------------------------------------
(* Arrangements of the placed code planes.                                 *)
TileAccepted(r) == TileCase(r.q, r.tile) /\ (r.k % r.tile) = 0
TileOf(r) == IF r.tile = 0 THEN FixedTile(r.q) ELSE r.tile
-----------------------------------------------------------------------------
(* Artifacts. Whose expert e's codes (scales) are; 0 is never written.     *)
Own(r) == [e \in Experts(r) |-> e]
Unwritten(r) == [e \in Experts(r) |-> 0]
Blocks(r) == [form |-> "blocks", tile |-> 0, codes |-> Own(r), bias |-> 0,
              scale |-> "blocks", scales |-> Own(r), zero |-> 0]
Native(r) == [form |-> "native", tile |-> 0, codes |-> Own(r), bias |-> CodeBias(r.q),
              scale |-> "planes", scales |-> Own(r), zero |-> -CodeBias(r.q)]
NoArtifact == [form |-> "none", tile |-> 0, codes |-> <<>>, bias |-> 0,
               scale |-> "none", scales |-> <<>>, zero |-> 0]

(* The base of expert e in a grouped plane is e * (low|high)_expert_bytes. *)
FirstBase(e) == 1                                  \* mutant: the base is not advanced
ExpertBase(e) == e
-----------------------------------------------------------------------------
(* The contract of an op: ok, its checks before anything is called; empty, *)
(* whether no rows return at once, only after the loader was asked, or are *)
(* no case of their own; host, what happens without the library (refuse,   *)
(* compute, or compute while under the row limit); and its stages of       *)
(* library calls: does it ask the loader (again), which optional symbols   *)
(* does it check, which does it call, and how often.                       *)
Stage(needs, calls, times) == [loads |-> TRUE, needs |-> needs, calls |-> calls, times |-> times]
OnHost(ok) == [ok |-> ok, empty |-> "no case", host |-> "compute", stages |-> <<>>]
OnLibrary(ok, empty, host, needs, calls) ==
  [ok |-> ok, empty |-> empty, host |-> host, stages |-> <<Stage(needs, calls, 1)>>]

BlocksFit(r) == (r.k % 256) = 0 /\ r.blocks = Len(r.rows) * r.n * (r.k \div 256)
WholeTiles(r) == r.n > 0 /\ (r.n % 256) = 0 /\ r.k > 0 /\ (r.k % 256) = 0
WholeUnits(r) == WholeTiles(r) /\ (r.k % (256 * SbPerUnit(r.q))) = 0
WholeBlocks(r) == r.n > 0 /\ r.k > 0 /\ (r.k % 256) = 0
RowsSpanUnchecked(r) == TRUE        \* mutant: the counts are not summed against the rows
RowsSpan(r) == Grouped(r) => Total(r) = r.act
(* _row_offsets, and the ops that are handed its offsets.                  *)
OffsetsSpan(r) == RowsSpan(r) /\ (Grouped(r) => \A e \in Experts(r) : r.rows[e] >= 0)

ScalePrepass(r) == OnLibrary(r.zmul \in {0, 8}, "no case", "compute", {}, {"prepass"})
PackedScalePrepass(r) ==
  OnLibrary(PlacedZmul(r.q) \in {-32, -24, -4, 0, 8}, "no case", "compute",
            {"prepass_unit"}, {"prepass_unit"})
VecdotBlocks(r) == OnLibrary(TRUE, "no case", "limited", {}, {"vecdot"})
VecdotDense(r) ==
  OnLibrary(r.act = 1 /\ WholeBlocks(r), "no case", "limited", {"vecdot_dense"}, {"vecdot_dense"})
VecdotMoe(r) == OnLibrary(OffsetsSpan(r) /\ WholeBlocks(r), "late", "refuse", {}, {"vecdot_moe"})
GemvScaleFirst(r) ==
  OnLibrary(OffsetsSpan(r) /\ WholeBlocks(r), "late", "refuse", {}, {"gemv_lowbit"})
GemvBc(r) ==
  OnLibrary(/\ WholeUnits(r)
            /\ IF Grouped(r) THEN OffsetsSpan(r) ELSE r.act = 1,
            "early", "refuse", {"bc_gemv"}, {"bc_gemv"})
DenseScaleFirstUnchecked(r) ==                     \* mutant: the pointer is not looked at
  OnLibrary(WholeTiles(r), "early", "refuse", {}, {"dense_lowbit"})
DenseScaleFirst(r) ==
  OnLibrary(WholeTiles(r), "early", "refuse", {"dense_lowbit"}, {"dense_lowbit"})
DenseFullyQuantized(r) ==
  OnLibrary(WholeUnits(r), "early", "refuse", {"dense_fully_quantized"}, {"dense_fully_quantized"})
GroupedFullyQuantized(r) ==
  OnLibrary(/\ WholeUnits(r) /\ Total(r) = r.act
            /\ \A e \in Experts(r) : r.rows[e] >= 0,
            "early", "refuse", {"grouped_fully_quantized"}, {"grouped_fully_quantized"})

Dequantize(r) == OnHost(TRUE)
PrepareGemv(r) == OnHost(WholeBlocks(r) /\ BlocksFit(r))
(* The tile-aware producer insists on the fixed one first.                 *)
Placement(r) ==
  IF r.tile = 0 THEN Stage({"prepare_dense"}, {"prepare_dense"}, Len(r.rows))
  ELSE Stage({"prepare_dense", "prepare_dense_for_tile"}, {"prepare_dense_for_tile"}, Len(r.rows))
PrepareDense(r) ==
  [ok |-> WholeTiles(r) /\ BlocksFit(r), empty |-> "no case", host |-> "refuse",
   stages |-> <<Placement(r)>>]
PrepareFullyQuantizedDense(r) ==
  [ok |-> WholeUnits(r) /\ BlocksFit(r), empty |-> "no case", host |-> "refuse",
   stages |-> <<Placement(r), Stage({"units_bytes", "prepare_units"},
                                    {"units_bytes", "prepare_units"}, 1)>>]
(* One placement per expert; the loader is not asked again for the units.  *)
PrepareFullyQuantizedGrouped(r) ==
  [ok |-> WholeUnits(r) /\ BlocksFit(r), empty |-> "no case", host |-> "refuse",
   stages |-> <<Placement(r),
                [Stage({"units_bytes", "prepare_units_grouped"},
                       {"units_bytes", "prepare_units_grouped"}, 1) EXCEPT !.loads = FALSE]>>]
ReadsTile(r, tiled) == IF tiled THEN r.tile ELSE 0
(* gguf_artifact_dequantize_impl<true>; the fixed inverse when no TileK.   *)
PlacedDequantize(r, tiled) ==
  LET inverse == IF ReadsTile(r, tiled) = 0 THEN "recover_dense" ELSE "recover_dense_for_tile"
  IN  [ok |-> WholeTiles(r) /\ (ReadsTile(r, tiled) # 0 => (r.k % r.tile) = 0),
       empty |-> "no case", host |-> "refuse",
       stages |-> <<Stage({inverse}, {inverse}, Len(r.rows))>>]
GemvDequantize(r) == OnHost(TRUE)
(* The two ends of the portable Q4 chain, and the unit packer between.     *)
UnpackAndPreprocess(r) == OnHost(r.q = "Q4_K" /\ (r.n % 64) = 0)
PackUnit(r) == OnHost(((r.k \div 256) % SbPerUnit(r.q)) = 0)
Q4ArtifactDequantize(r) == OnHost((r.k % 256) = 0 /\ (r.k % 64) = 0 /\ (r.n % 64) = 0)

Op(o, r) ==
  CASE o = "gguf_scale_prepass" -> ScalePrepass(r)
    [] o = "gguf_packed_scale_prepass" -> PackedScalePrepass(r)
    [] o = "gguf_vecdot" -> VecdotBlocks(r)
    [] o = "gguf_vecdot_dense" -> VecdotDense(r)
    [] o = "gguf_vecdot_moe" -> VecdotMoe(r)
    [] o = "gguf_gemv_scale_first" -> GemvScaleFirst(r)
    [] o = "gguf_gemv_bc" -> GemvBc(r)
    [] o = "gguf_dense_scale_first" -> DenseScaleFirst(r)
    [] o = "gguf_dense_fully_quantized" -> DenseFullyQuantized(r)
    [] o = "gguf_grouped_fully_quantized" -> GroupedFullyQuantized(r)
    [] o = "gguf_dequantize" -> Dequantize(r)
    [] o = "gguf_prepare_gemv" -> PrepareGemv(r)
    [] o = "gguf_prepare_dense" -> PrepareDense(r)
    [] o = "gguf_prepare_fully_quantized_dense" -> PrepareFullyQuantizedDense(r)
    [] o = "gguf_prepare_fully_quantized_grouped" -> PrepareFullyQuantizedGrouped(r)
    [] o = "gguf_artifact_dequantize" -> PlacedDequantize(r, FALSE)
    [] o = "gguf_artifact_dequantize_for_tile" -> PlacedDequantize(r, TRUE)
    [] o = "gguf_gemv_artifact_dequantize" -> GemvDequantize(r)
    [] o = "gguf_unpack" -> UnpackAndPreprocess(r)
    [] o = "gguf_pack_unit" -> PackUnit(r)
    [] o = "gguf_q4_artifact_dequantize" -> Q4ArtifactDequantize(r)
-----------------------------------------------------------------------------
(* What an op reads of the artifact: the arrangement it takes the codes to *)
(* have, what it subtracts from a code, where its scales come from and, if *)
(* it decodes units itself, the multiple it adds to the zero.              *)
Reader(o, r) ==
  LET q == r.q
      Placed(tile, scale, zero) ==
        [form |-> "placed", tile |-> tile, shift |-> LowShift(q), scale |-> scale, zero |-> zero]
  IN  CASE o \in {"gguf_vecdot", "gguf_vecdot_dense", "gguf_vecdot_moe", "gguf_dequantize"} ->
             [form |-> "blocks", tile |-> 0, shift |-> 0, scale |-> "blocks", zero |-> 0]
        [] o \in {"gguf_gemv_scale_first", "gguf_gemv_artifact_dequantize"} ->
             [form |-> "native", tile |-> 0, shift |-> 0, scale |-> "planes", zero |-> 0]
        [] o = "gguf_gemv_bc" ->
             [Placed(FixedTile(q), "units", 0) EXCEPT !.shift = CodeBias(q)]
        [] o = "gguf_dense_scale_first" -> Placed(FixedTile(q), "planes", 0)
        [] o \in {"gguf_dense_fully_quantized", "gguf_grouped_fully_quantized"} ->
             Placed(FixedTile(q), "units", PackedZMul(q))
        [] o = "gguf_artifact_dequantize" -> Placed(FixedTile(q), "planes", 0)
        [] o = "gguf_artifact_dequantize_for_tile" -> Placed(TileOf(r), "planes", 0)
        [] o = "gguf_q4_artifact_dequantize" ->
             [form |-> "mixed", tile |-> 0, shift |-> 8, scale |-> "units", zero |-> 8]

Weights(o, r, a) ==
  LET d == Reader(o, r)
      arranged == /\ a.form = d.form /\ a.scale = d.scale
                  /\ d.form = "placed" => SameBytes(r.q, a.tile, d.tile)
  IN  [e \in Experts(r) |->
         [codes |-> a.codes[e], scales |-> a.scales[e], arranged |-> arranged,
          off |-> a.bias - d.shift + (IF d.scale = "planes" THEN a.zero ELSE d.zero)]]

(* Which expert's weights each activation row meets. The kernels take the  *)
(* row offsets, matmul_dequant_first_grouped walks the counts.             *)
RowOffsets(r) == [e \in 1 .. Len(r.rows) + 1 |-> CountTo(r, e - 1)]
ByOffsets(r) ==
  LET off == RowOffsets(r)
  IN  [i \in 1 .. r.act |-> CHOOSE e \in Experts(r) : off[e] < i /\ i <= off[e + 1]]
Turn(r, s, e) ==
  IF r.rows[e] = 0 THEN s
  ELSE [start |-> s.start + r.rows[e],
        row |-> [i \in 1 .. r.act |->
                   IF s.start < i /\ i <= s.start + r.rows[e] THEN e ELSE s.row[i]]]
ByLoop(r) ==
  LET walked[e \in 0 .. Len(r.rows)] ==
        IF e = 0 THEN [start |-> 0, row |-> [i \in 1 .. r.act |-> 0]]
        ELSE Turn(r, walked[e - 1], e)
  IN  walked[Len(r.rows)].row
RowsMet(o, r) ==
  IF ~Grouped(r) THEN [i \in 1 .. r.act |-> 1]
  ELSE IF o = "gguf_dequantize" THEN ByLoop(r) ELSE ByOffsets(r)

Multiplies(o) ==
  o \in {"gguf_vecdot", "gguf_vecdot_dense", "gguf_vecdot_moe", "gguf_gemv_scale_first",
         "gguf_gemv_bc", "gguf_dense_scale_first", "gguf_dense_fully_quantized",
         "gguf_grouped_fully_quantized", "gguf_dequantize"}
Expands(o) ==
  o \in {"gguf_artifact_dequantize", "gguf_artifact_dequantize_for_tile",
         "gguf_gemv_artifact_dequantize", "gguf_q4_artifact_dequantize"}
Places(o) ==
  o \in {"gguf_prepare_dense", "gguf_prepare_fully_quantized_dense",
         "gguf_prepare_fully_quantized_grouped"}
Recovers(o) == o \in {"gguf_artifact_dequantize", "gguf_artifact_dequantize_for_tile"}

(* What an op has made when all its calls of stage i are back; dst is what *)
(* the calls of a moving stage wrote, expert by expert.                    *)
Made(o, r, a, i, dst) ==
  CASE Places(o) /\ i = 1 ->
         [Native(r) EXCEPT !.form = "placed", !.tile = TileOf(r), !.codes = dst,
                           !.zero = @ + LowShift(r.q)]
    [] Places(o) /\ i = 2 -> [a EXCEPT !.scale = "units", !.scales = Own(r), !.zero = 0]
    [] Recovers(o) -> [a EXCEPT !.codes = dst]
    [] o = "gguf_scale_prepass" -> [a EXCEPT !.scale = "planes", !.zero = r.zmul]
    [] o = "gguf_packed_scale_prepass" ->
         [a EXCEPT !.scale = "planes", !.zero = PlacedZmul(r.q)]
    [] o = "gguf_prepare_gemv" -> Native(r)
    [] o = "gguf_unpack" -> [Native(r) EXCEPT !.form = "mixed", !.zero = 0]
    [] o = "gguf_pack_unit" -> [a EXCEPT !.scale = "units"]
    [] OTHER -> a
-----------------------------------------------------------------------------
(* routes.py: the checks Python makes, and the ops it then goes through.   *)
Through(ok, ops) == [ok |-> ok, ops |-> ops]
(* From the raw blocks.                                                    *)
RawRoute(name, r) ==
  CASE name = "dequant_first" -> Through(BlocksFit(r) /\ RowsSpan(r), <<"gguf_dequantize">>)
    [] name = "native_gemv" -> Through(BlocksFit(r) /\ r.act = 1, <<"gguf_vecdot_dense">>)
    [] name = "native_gemv_moe" -> Through(BlocksFit(r) /\ OffsetsSpan(r), <<"gguf_vecdot_moe">>)
(* Through split code planes and group scales.                             *)
ScaleFirstRoute(name, r) ==
  CASE name = "scale_first_gemv" ->
         Through(OffsetsSpan(r), <<"gguf_prepare_gemv", "gguf_gemv_scale_first">>)
    [] name = "dequantize_scale_first" ->
         Through(TRUE, <<"gguf_prepare_gemv", "gguf_gemv_artifact_dequantize">>)
    [] name = "scale_first_dense" ->
         Through(BlocksFit(r), <<"gguf_prepare_fully_quantized_dense", "gguf_packed_scale_prepass",
                                 "gguf_dense_scale_first">>)
    [] name = "scale_first_dense_raw" ->
         Through(BlocksFit(r), <<"gguf_prepare_dense", "gguf_dense_scale_first">>)
(* Through placed planes and packed units.                                 *)
FullyQuantizedRoute(name, r) ==
  LET prepare == IF Grouped(r) THEN "gguf_prepare_fully_quantized_grouped"
                 ELSE "gguf_prepare_fully_quantized_dense"
  IN  CASE name \in {"fully_quantized_dense", "fully_quantized_grouped"} ->
             Through(BlocksFit(r), <<prepare, IF Grouped(r) THEN "gguf_grouped_fully_quantized"
                                              ELSE "gguf_dense_fully_quantized">>)
        [] name = "bc_gemv" -> Through(BlocksFit(r) /\ OffsetsSpan(r), <<prepare, "gguf_gemv_bc">>)
        [] name = "dequantize_fully_quantized" ->
             Through(BlocksFit(r), <<prepare, "gguf_packed_scale_prepass", "gguf_artifact_dequantize">>)
        [] name = "dequantize_for_tile" ->
             Through(BlocksFit(r), <<prepare, "gguf_packed_scale_prepass",
                                     "gguf_artifact_dequantize_for_tile">>)
(* The public ops no route goes through, and all of the above.             *)
PublicOp(name) ==
  CASE name = "vecdot" -> Through(TRUE, <<"gguf_vecdot">>)
    [] name = "scale_prepass" -> Through(TRUE, <<"gguf_scale_prepass">>)
    [] name = "q4_artifact" ->
         Through(TRUE, <<"gguf_unpack", "gguf_pack_unit", "gguf_q4_artifact_dequantize">>)
RawRoutes == {"dequant_first", "native_gemv", "native_gemv_moe"}
ScaleFirstRoutes ==
  {"scale_first_gemv", "dequantize_scale_first", "scale_first_dense", "scale_first_dense_raw"}
FullyQuantizedRoutes ==
  {"fully_quantized_dense", "fully_quantized_grouped", "bc_gemv", "dequantize_fully_quantized",
   "dequantize_for_tile"}
PublicOps == {"vecdot", "scale_prepass", "q4_artifact"}
Route(name, r) ==
  CASE name \in RawRoutes -> RawRoute(name, r)
    [] name \in ScaleFirstRoutes -> ScaleFirstRoute(name, r)
    [] name \in FullyQuantizedRoutes -> FullyQuantizedRoute(name, r)
    [] name \in PublicOps -> PublicOp(name)
Routes == RawRoutes \cup ScaleFirstRoutes \cup FullyQuantizedRoutes \cup PublicOps
(* Those without a rows_per_expert parameter.                              *)
UngroupedRoutes == {"native_gemv", "scale_first_dense", "scale_first_dense_raw"} \cup PublicOps

(* The shapes, the row counts per expert and the options a caller passes.  *)
Request ==
  [q : Formats, n : Int, k : Int, grouped : BOOLEAN, rows : Seq(Int), act : Nat, blocks : Nat,
   tile : Int, zmul : Int]
ASSUME WorkAssumption ==
  /\ MaxJobs \in Nat /\ RowLimit \in Nat /\ AllowCpu \in BOOLEAN
  /\ \A t \in Threads : \A w \in Work[t] :
       IF w.route = "load_format" THEN w.format \in AllFormats
       ELSE /\ w.route \in Routes /\ w.req \in Request
            /\ w.route \in UngroupedRoutes => ~Grouped(w.req)
-----------------------------------------------------------------------------
NoRequest == [q |-> "Q4_K", n |-> 0, k |-> 0, grouped |-> FALSE, rows |-> <<0>>, act |-> 0,
              blocks |-> 0, tile |-> 0, zmul |-> 0]
NoJob == [route |-> "none", req |-> NoRequest, ops |-> <<>>, stage |-> 1, e |-> 0,
          art |-> NoArtifact, dst |-> <<>>]
Nothing == [kind |-> "none", req |-> NoRequest, rows |-> <<>>, weights |-> <<>>]
Threw == [Nothing EXCEPT !.kind = "threw"]
Rows(r, rows, weights) == [kind |-> "rows", req |-> r, rows |-> rows, weights |-> weights]

TypeOK ==
  /\ LoaderTypeOK
  /\ at \in [Threads -> {"idle", "op", "load", "decide", "call"}]
  /\ jobs \in [Threads -> 0 .. MaxJobs]
  /\ \A t \in Threads :
       /\ at[t] = "load" <=> step[t] # "out"
       /\ at[t] = "idle" => job[t] = NoJob
       /\ at[t] \in {"decide", "call"} => job[t].stage \in DOMAIN Op(Head(job[t].ops), job[t].req).stages

Init ==
  /\ LoaderInit
  /\ at = [t \in Threads |-> "idle"] /\ job = [t \in Threads |-> NoJob]
  /\ jobs = [t \in Threads |-> 0] /\ out = [t \in Threads |-> Nothing]

Now(t) == Head(job[t].ops)
Req(t) == job[t].req
Spec1(t) == Op(Now(t), Req(t))
StageOf(t) == Spec1(t).stages[job[t].stage]
Library(t) == seen[t][Default]

Goes(t, where) == at' = [at EXCEPT ![t] = where]
Serves(t, j) == job' = [job EXCEPT ![t] = j]
Return(t, result) ==
  /\ Goes(t, "idle") /\ Serves(t, NoJob) /\ out' = [out EXCEPT ![t] = result]
  /\ UNCHANGED jobs
Throw(t) == Return(t, Threw)

Start(t) ==
  /\ at[t] = "idle" /\ jobs[t] < MaxJobs
  /\ jobs' = [jobs EXCEPT ![t] = @ + 1]
  /\ \E w \in Work[t] :
       \/ /\ w.route = "load_format"
          /\ Ask(t, w.format) /\ Goes(t, "load")
          /\ Serves(t, [NoJob EXCEPT !.route = w.route])
          /\ out' = [out EXCEPT ![t] = Nothing]
       \/ /\ w.route # "load_format" /\ Route(w.route, w.req).ok
          /\ Goes(t, "op")
          /\ Serves(t, [NoJob EXCEPT !.route = w.route, !.req = w.req, !.art = Blocks(w.req),
                                     !.ops = Route(w.route, w.req).ops])
          /\ out' = [out EXCEPT ![t] = Nothing] /\ UNCHANGED loaderVars
       \/ /\ w.route # "load_format" /\ ~Route(w.route, w.req).ok    \* ValueError
          /\ out' = [out EXCEPT ![t] = Threw] /\ UNCHANGED <<loaderVars, at, job>>

(* The op has its result: the route goes on with it, or the caller has it. *)
OpReturns(t, art) ==
  LET o == Now(t)
      w == Weights(o, Req(t), art)
  IN  IF Multiplies(o) THEN Return(t, Rows(Req(t), RowsMet(o, Req(t)), w))
      ELSE IF Expands(o) THEN Return(t, [Nothing EXCEPT !.kind = "weights", !.weights = w])
      ELSE IF Len(job[t].ops) = 1
           THEN Return(t, [Nothing EXCEPT !.kind = "scales", !.weights = <<art>>])
      ELSE /\ Goes(t, "op")
           /\ Serves(t, [job[t] EXCEPT !.ops = Tail(@), !.stage = 1, !.art = art])
           /\ UNCHANGED <<jobs, out>>
(* The host loops write every expert.                                      *)
ComputesOnHost(t) == OpReturns(t, Made(Now(t), Req(t), job[t].art, 1, job[t].art.codes))

Refuses(t) ==
  /\ at[t] = "op" /\ ~Spec1(t).ok
  /\ Throw(t) /\ UNCHANGED loaderVars
ReturnsEmpty(t) ==
  /\ at[t] = "op" /\ Spec1(t).ok
  /\ Spec1(t).empty = "early" /\ Req(t).act = 0
  /\ Return(t, Rows(Req(t), <<>>, <<>>)) /\ UNCHANGED loaderVars
RunsPortable(t) ==
  /\ at[t] = "op" /\ Spec1(t).ok /\ Spec1(t).stages = <<>>
  /\ ComputesOnHost(t) /\ UNCHANGED loaderVars
AsksLoader(t) ==
  /\ at[t] = "op" /\ Spec1(t).ok /\ Spec1(t).stages # <<>>
  /\ ~(Spec1(t).empty = "early" /\ Req(t).act = 0)
  /\ Ask(t, Default) /\ Goes(t, "load")
  /\ Serves(t, [job[t] EXCEPT !.dst = Unwritten(Req(t))]) /\ UNCHANGED <<jobs, out>>

InLoader(t) == at[t] = "load" /\ Inside(t) /\ UNCHANGED opVars
Answered(t) ==
  /\ at[t] = "load" /\ ReadVerdict(t)
  /\ IF job[t].route = "load_format"
     THEN Return(t, [Nothing EXCEPT !.kind = "answer"])
     ELSE Goes(t, "decide") /\ UNCHANGED <<job, jobs, out>>

(* The CPU arm of an inference op is a reference, with a limit on rows.    *)
HostAllowed(t) ==
  \/ Spec1(t).host = "compute"
  \/ /\ Spec1(t).host = "limited"
     /\ AllowCpu \/ (IF Now(t) = "gguf_vecdot" THEN Req(t).act ELSE Req(t).n) <= RowLimit
WithoutLibrary(t) ==
  /\ at[t] = "decide" /\ ~Library(t).ok
  /\ IF HostAllowed(t) THEN ComputesOnHost(t) ELSE Throw(t)
  /\ UNCHANGED loaderVars
WithoutSymbol(t) ==
  /\ at[t] = "decide" /\ Library(t).ok /\ ~(StageOf(t).needs \subseteq Library(t).api)
  /\ IF Spec1(t).host = "compute" THEN ComputesOnHost(t) ELSE Throw(t)
  /\ UNCHANGED loaderVars
ReturnsEmptyLate(t) ==
  /\ at[t] = "decide" /\ Library(t).ok /\ Spec1(t).empty = "late" /\ Req(t).act = 0
  /\ Return(t, Rows(Req(t), <<>>, <<>>)) /\ UNCHANGED loaderVars
WithLibrary(t) ==
  /\ at[t] = "decide" /\ Library(t).ok /\ StageOf(t).needs \subseteq Library(t).api
  /\ ~(Spec1(t).empty = "late" /\ Req(t).act = 0)
  /\ Goes(t, "call") /\ Serves(t, [job[t] EXCEPT !.e = 1])
  /\ UNCHANGED <<loaderVars, jobs, out>>

Accepted(t) ==
  StageOf(t).calls \cap {"prepare_dense_for_tile", "recover_dense_for_tile"} # {}
    => TileAccepted(Req(t))
RcAtTheEnd(rc, last) == rc # 0 /\ last              \* mutant: only the last rc is looked at
RcChecked(rc, last) == rc # 0
CallReturns(t) ==
  LET last == job[t].e = StageOf(t).times
      more == job[t].stage < Len(Spec1(t).stages)
      src == IF Recovers(Now(t)) THEN job[t].art.codes ELSE Own(Req(t))
      made(dst) == Made(Now(t), Req(t), job[t].art, job[t].stage, dst)
  IN  /\ at[t] = "call"
      /\ \E rc \in (IF Accepted(t) THEN {0, 1} ELSE {23}) :
           LET dst == IF rc = 0 /\ StageOf(t).times = Len(job[t].dst)
                      THEN [job[t].dst EXCEPT ![job[t].e] = src[ExpertBase(job[t].e)]]
                      ELSE job[t].dst
          IN  IF RcChecked(rc, last) THEN Throw(t) /\ UNCHANGED loaderVars
              ELSE IF ~last
              THEN /\ Serves(t, [job[t] EXCEPT !.e = @ + 1, !.dst = dst])
                   /\ UNCHANGED <<loaderVars, at, jobs, out>>
              ELSE IF ~more THEN OpReturns(t, made(dst)) /\ UNCHANGED loaderVars
              ELSE /\ Serves(t, [job[t] EXCEPT !.stage = @ + 1, !.art = made(dst)])
                   /\ IF Spec1(t).stages[job[t].stage + 1].loads
                      THEN Ask(t, Default) /\ Goes(t, "load")
                      ELSE Goes(t, "decide") /\ UNCHANGED loaderVars
                   /\ UNCHANGED <<jobs, out>>

Works(t) ==
  \/ Refuses(t) \/ ReturnsEmpty(t) \/ RunsPortable(t) \/ AsksLoader(t)
  \/ InLoader(t) \/ Answered(t)
  \/ WithoutLibrary(t) \/ WithoutSymbol(t) \/ ReturnsEmptyLate(t) \/ WithLibrary(t)
  \/ CallReturns(t)
AllDone == \A t \in Threads : at[t] = "idle" /\ jobs[t] = MaxJobs
Next ==
  \/ Install /\ UNCHANGED opVars
  \/ \E t \in Threads : Start(t) \/ Works(t)
Spec == Init /\ [][Next]_vars /\ \A t \in Threads : WF_vars(Works(t))
-----------------------------------------------------------------------------
(* A grouped route that returns gives every activation row the weights of  *)
(* the expert it was routed to, whether it walks the counts or offsets.    *)
GatheredRows(r) ==
  IF Grouped(r) THEN FlattenSeq([e \in Experts(r) |-> [i \in 1 .. r.rows[e] |-> e]])
  ELSE [i \in 1 .. r.act |-> 1]
RowsMeetTheirExpert ==
  \A t \in Threads : out[t].kind = "rows" => out[t].rows = GatheredRows(out[t].req)

(* What a route multiplies by, or expands, is what the checkpoint says:    *)
(* every expert has its own codes and scales in the arrangement the reader *)
(* assumes, and the shifts of the producer, of the converter and of the    *)
(* zero plane cancel.                                                      *)
WeightsAreTheExperts ==
  \A t \in Threads : out[t].kind \in {"rows", "weights"} =>
    \A e \in DOMAIN out[t].weights :
      /\ out[t].weights[e].codes = e /\ out[t].weights[e].scales = e
      /\ out[t].weights[e].arranged /\ out[t].weights[e].off = 0

(* routes.dequantize_fully_quantized is the inverse of the producer of the *)
(* artifact it is given (its docstring: the other half of this format's    *)
(* inverse), also of one prepared for a TileK.                             *)
DequantizeInvertsPrepare ==
  \A t \in Threads : out[t].kind = "weights" =>
    \A e \in DOMAIN out[t].weights : out[t].weights[e].arranged /\ out[t].weights[e].off = 0

(* No thread is about to jump through a pointer the library has left null. *)
NoUnresolvedCall ==
  \A t \in Threads : at[t] = "call" => Library(t).ok /\ StageOf(t).calls \subseteq Library(t).api

(* Every call comes back: with a result, or by throwing; no way out of the *)
(* loader keeps its mutex.                                                 *)
CallsReturn == \A t \in Threads : at[t] # "idle" ~> at[t] = "idle"
=============================================================================
