-------------------------- MODULE TorchOpsProofs --------------------------
(***************************************************************************)
(* Proofs about TorchOps, for every set of threads, formats, library files *)
(* and calls. First the loader: what it has settled for a format never     *)
(* changes. Then the contracts of the ops, and what each is owed of the    *)
(* artifact: an op makes what the next one of its route is owed. Then the  *)
(* threads: a job is always at an op of its route, with the artifact owed, *)
(* and a library call is only made of a library that has its symbols. Last *)
(* the results: their weights are the experts' own, and the rows of a      *)
(* grouped call meet the experts they were gathered for.                   *)
(***************************************************************************)
EXTENDS TorchOps, TLAPS, ProofArithmetic

(* Nobody is still attempting the format, and an attempt was made.         *)
Settled(f) == Known(entry[f]) /\ \A u \in Threads : ~(step[u] = "opened" /\ asked[u] = f)

Inner == {"locked", "opened", "found"}

(* The mutex is held from Acquire to Release.                              *)
MutexHeld == \A t \in Threads : owner = t <=> step[t] \in Inner
(* What is being attempted is in the map already, but not settled.         *)
AttemptMarked == \A t \in Threads : step[t] = "opened" => entry[asked[t]] = NotAttempted
(* Whoever has left the critical section is about to read a settled entry. *)
LeaversSettled == \A t \in Threads : step[t] \in {"found", "returned"} => Settled(asked[t])
(* Whatever a thread was told is settled, and what the entry still says.   *)
SeenSettled ==
  \A t \in Threads, f \in AllFormats :
    seen[t][f] # NotAsked => Settled(f) /\ seen[t][f] = entry[f]

LoaderInv == LoaderTypeOK /\ MutexHeld /\ AttemptMarked /\ LeaversSettled /\ SeenSettled

LoaderNext ==
  \/ Install
  \/ \E t \in Threads : Inside(t) \/ ReadVerdict(t) \/ \E f \in AllFormats : Ask(t, f)
-----------------------------------------------------------------------------
(* A library that is said to be loaded has every required symbol, and what *)
(* a look-up leaves is never mistaken for a format nobody asked for.       *)
LEMMA ResolveSound ==
  ASSUME NEW lib
  PROVE  /\ Resolve(lib).ok => Required \subseteq Resolve(lib).api
         /\ Resolve(lib) # Untried
         /\ NotAttempted # Untried
<1>1. Resolve(lib).ok => Required \subseteq Resolve(lib).api
  <2> SUFFICES ASSUME Required \subseteq lib, NEW s \in Required
               PROVE  s \in Resolve(lib).api
    BY DEF Resolve
  <2>1. PICK i \in 1 .. Len(Resolution) : Resolution[i] = s
    <3>1. /\ Resolution[1] = "vecdot" /\ Resolution[3] = "vecdot_moe"
          /\ Resolution[4] = "dequantize" /\ Resolution[5] = "prepass"
          /\ Resolution[11] = "gemv_lowbit" /\ Len(Resolution) = 18
      BY DEF Resolution
    <3> QED BY <3>1 DEF Required
  <2>2. \A j \in 1 .. i : Resolution[j] \in Required => Resolution[j] \in lib
    OBVIOUS
  <2> QED BY <2>1, <2>2 DEF Resolve
<1>2. "untried" \notin Resolve(lib).api
  BY DEF Resolve, Resolution
<1> QED BY <1>1, <1>2 DEF Untried, NotAttempted

(* A verdict that says loaded names every required symbol.                 *)
LEMMA VerdictSound ==
  ASSUME NEW v \in Verdicts, v.ok
  PROVE  Required \subseteq v.api
BY ResolveSound DEF Verdicts, NotAsked, NotAttempted, Untried

(* Nobody holds the mutex, and nothing has been attempted.                 *)
LEMMA LoaderInitially == LoaderInit => LoaderInv
<1> SUFFICES ASSUME LoaderInit PROVE LoaderInv
  OBVIOUS
<1>1. LoaderTypeOK
  BY LoaderAssumption DEF LoaderInit, LoaderTypeOK, Verdicts, NotAsked
<1> QED BY <1>1, LoaderAssumption
     DEF LoaderInv, LoaderInit, Inner, MutexHeld, AttemptMarked, LeaversSettled, SeenSettled

(* The loader's steps keep its variables in their sets.                    *)
LEMMA LoaderTypeStep ==
  ASSUME LoaderTypeOK, LoaderNext
  PROVE  LoaderTypeOK'
<1> USE DEF LoaderTypeOK, In, To
<1>1. CASE Install
  BY <1>1, LoaderAssumption DEF Install
<1>2. ASSUME NEW t \in Threads, Inside(t) PROVE LoaderTypeOK'
  <2>1. CASE Acquire(t)
    BY <2>1 DEF Acquire
  <2>2. CASE Find(t)
    BY <2>2 DEF Find
  <2>3. CASE Open(t)
    <3>1. LibraryPath(asked[t]) \in Paths
      BY DEF Paths
    <3>2. entry' \in [AllFormats -> Verdicts]
      BY <2>3 DEF Open, Verdicts
    <3>3. handle' \in [Threads -> Builds \cup {Symbols, NoFile}]
      BY <2>3, <3>1 DEF Open
    <3> QED BY <2>3, <3>2, <3>3 DEF Open
  <2>4. CASE LookUp(t)
    <3>1. handle[t] # NoFile => Resolve(handle[t]) \in Verdicts
      BY DEF Verdicts
    <3>2. entry' \in [AllFormats -> Verdicts]
      BY <2>4, <3>1 DEF LookUp
    <3> QED BY <2>4, <3>2 DEF LookUp
  <2>5. CASE Release(t)
    BY <2>5 DEF Release, OwnerAfter
  <2> QED BY <1>2, <2>1, <2>2, <2>3, <2>4, <2>5 DEF Inside
<1>3. ASSUME NEW t \in Threads, ReadVerdict(t) PROVE LoaderTypeOK'
  <2>1. seen' \in [Threads -> [AllFormats -> Verdicts]]
    BY <1>3 DEF ReadVerdict
  <2> QED BY <1>3, <2>1 DEF ReadVerdict
<1>4. ASSUME NEW t \in Threads, NEW f \in AllFormats, Ask(t, f) PROVE LoaderTypeOK'
  BY <1>4 DEF Ask
<1> QED BY <1>1, <1>2, <1>3, <1>4 DEF LoaderNext

(* An entry that is settled stays as it is, and settled.                   *)
LEMMA SettledStays ==
  ASSUME LoaderInv, LoaderNext, NEW f \in AllFormats, Settled(f)
  PROVE  entry'[f] = entry[f] /\ Settled(f)'
<1> USE DEF LoaderInv, LoaderTypeOK, AttemptMarked, MutexHeld, In, To, Settled
<1>1. CASE Install
  BY <1>1 DEF Install
<1>2. ASSUME NEW t \in Threads, Inside(t) PROVE entry'[f] = entry[f] /\ Settled(f)'
  <2>1. CASE Acquire(t)
    BY <2>1 DEF Acquire
  <2>2. CASE Find(t)
    BY <2>2 DEF Find
  <2>3. CASE Open(t)
    <3>1. asked[t] # f /\ asked' = asked
      BY <2>3 DEF Open
    <3>2. entry'[f] = entry[f]
      BY <2>3, <3>1 DEF Open
    <3>3. \A u \in Threads : step'[u] = "opened" => u = t \/ step[u] = "opened"
      BY <2>3 DEF Open
    <3> QED BY <3>1, <3>2, <3>3
  <2>4. CASE LookUp(t)
    <3>1. asked[t] # f /\ asked' = asked
      BY <2>4 DEF LookUp
    <3>2. entry'[f] = entry[f]
      BY <2>4, <3>1 DEF LookUp
    <3>3. \A u \in Threads : step'[u] = "opened" => step[u] = "opened"
      BY <2>4 DEF LookUp
    <3> QED BY <3>1, <3>2, <3>3
  <2>5. CASE Release(t)
    BY <2>5 DEF Release
  <2> QED BY <1>2, <2>1, <2>2, <2>3, <2>4, <2>5 DEF Inside
<1>3. ASSUME NEW t \in Threads, ReadVerdict(t) PROVE entry'[f] = entry[f] /\ Settled(f)'
  BY <1>3 DEF ReadVerdict
<1>4. ASSUME NEW t \in Threads, NEW g \in AllFormats, Ask(t, g)
      PROVE  entry'[f] = entry[f] /\ Settled(f)'
  BY <1>4 DEF Ask
<1> QED BY <1>1, <1>2, <1>3, <1>4 DEF LoaderNext

(* One step of the loader: the mutex, the attempt in progress, and what a  *)
(* thread that leaves finds.                                               *)
LEMMA LoaderStep ==
  ASSUME LoaderInv, LoaderNext
  PROVE  LoaderInv'
<1> USE DEF In, To
<1>1. LoaderTypeOK /\ LoaderTypeOK'
  BY LoaderTypeStep DEF LoaderInv
<1>2. \A f \in AllFormats : Settled(f) => entry'[f] = entry[f] /\ Settled(f)'
  BY SettledStays
<1> USE DEF LoaderTypeOK, Inner
<1>3. MutexHeld' /\ AttemptMarked'
  <2>1. MutexHeld /\ AttemptMarked
    BY DEF LoaderInv
  <2>2. CASE Install
    BY <1>1, <2>1, <2>2 DEF Install, MutexHeld, AttemptMarked
  <2>3. ASSUME NEW u \in Threads, Inside(u) PROVE MutexHeld' /\ AttemptMarked'
    <3>1. MutexHeld'
      BY <1>1, <2>1, <2>3, LoaderAssumption
         DEF Inside, Acquire, MutexFree, Find, Open, LookUp, Release, OwnerAfter, MutexHeld
    <3>2. AttemptMarked'
      BY <1>1, <2>1, <2>3, LoaderAssumption
         DEF Inside, Acquire, MutexFree, Find, Open, LookUp, Release, MutexHeld, AttemptMarked
    <3> QED BY <3>1, <3>2
  <2>4. ASSUME NEW u \in Threads, ReadVerdict(u) \/ \E f \in AllFormats : Ask(u, f)
        PROVE  MutexHeld' /\ AttemptMarked'
    <3>1. UNCHANGED <<entry, owner>>
      BY <1>1, <2>4 DEF ReadVerdict, Ask
    <3>2. \A t \in Threads : /\ step'[t] \in Inner <=> step[t] \in Inner
                             /\ step'[t] = "opened" => step[t] = "opened" /\ asked'[t] = asked[t]
      BY <1>1, <2>1, <2>4 DEF ReadVerdict, Ask
    <3> QED BY <3>1, <3>2 DEF LoaderInv, MutexHeld, AttemptMarked
  <2> QED BY <2>2, <2>3, <2>4 DEF LoaderNext
<1>4. LeaversSettled'
  <2> SUFFICES ASSUME NEW t \in Threads, step'[t] \in {"found", "returned"}
               PROVE  Settled(asked[t])' /\ asked'[t] = asked[t]
    BY <1>1 DEF LeaversSettled
  <2>1. asked'[t] = asked[t]
    BY <1>1 DEF LoaderNext, Install, Inside, Acquire, Find, Open, LookUp, Release, ReadVerdict, Ask
  <2>2. CASE step[t] \in {"found", "returned"}
    BY <1>1, <1>2, <2>1, <2>2 DEF LoaderInv, LeaversSettled, Settled
  <2>3. ASSUME step[t] \notin {"found", "returned"} PROVE Find(t) \/ LookUp(t)
    BY <1>1, <2>3
       DEF LoaderNext, Install, Inside, Acquire, Find, Open, LookUp, Release, ReadVerdict, Ask
  <2>4. \A u \in Threads : u # t => step[u] # "opened" \/ step[t] \notin {"locked", "opened"}
    BY DEF LoaderInv, MutexHeld
  <2>5. CASE Find(t)
    BY <1>1, <2>1, <2>4, <2>5 DEF Find, Settled
  <2>6. CASE LookUp(t)
    <3>1. entry'[asked[t]] = NotAttempted \/ entry'[asked[t]] = Resolve(handle[t])
      BY <1>1, <2>6 DEF LookUp, LoaderInv, AttemptMarked
    <3>2. Known(entry'[asked[t]])
      BY <3>1, ResolveSound DEF Known
    <3>3. \A u \in Threads : step'[u] # "opened"
      BY <1>1, <2>4, <2>6 DEF LookUp
    <3> QED BY <2>1, <3>2, <3>3 DEF Settled
  <2> QED BY <2>1, <2>2, <2>3, <2>5, <2>6
<1>5. SeenSettled'
  <2> SUFFICES ASSUME NEW t \in Threads, NEW f \in AllFormats, seen'[t][f] # NotAsked
               PROVE  Settled(f)' /\ seen'[t][f] = entry'[f]
    BY DEF SeenSettled
  <2>1. CASE seen'[t][f] = seen[t][f]
    BY <1>2, <2>1 DEF LoaderInv, SeenSettled
  <2>2. CASE seen'[t][f] # seen[t][f]
    <3>0. seen' # seen
      BY <2>2
    <3>4. PICK u \in Threads : ReadVerdict(u)
      BY <1>1, <3>0 DEF LoaderNext, Install, Inside, Acquire, Find, Open, LookUp, Release, Ask
    <3>5. seen' = [seen EXCEPT ![u][asked[u]] = entry[asked[u]]]
      BY <3>4 DEF ReadVerdict
    <3>6. u = t /\ asked[u] = f
      BY <2>2, <3>5
    <3>1. ReadVerdict(t) /\ asked[t] = f
      BY <3>4, <3>6
    <3>2. Settled(f)
      BY <3>1 DEF ReadVerdict, LoaderInv, LeaversSettled
    <3>3. seen'[t][f] = entry[f]
      BY <1>1, <3>1 DEF ReadVerdict
    <3> QED BY <1>2, <3>2, <3>3
  <2> QED BY <2>1, <2>2
<1> QED BY <1>1, <1>3, <1>4, <1>5 DEF LoaderInv

(* What a thread was told about a format is what every thread is told.     *)
LEMMA OneVerdictStep ==
  ASSUME LoaderInv, LoaderNext,
         NEW t \in Threads, NEW u \in Threads, NEW f \in AllFormats
  PROVE  /\ seen[t][f] # NotAsked => seen'[u][f] \in {NotAsked, seen[t][f]}
         /\ seen'[t][f].ok => Required \subseteq seen'[t][f].api
<1>1. LoaderInv'
  BY LoaderStep
<1>2. seen'[t][f] \in Verdicts
  BY <1>1 DEF LoaderInv, LoaderTypeOK
<1>3. ASSUME seen[t][f] # NotAsked PROVE seen'[u][f] \in {NotAsked, seen[t][f]}
  BY <1>1, <1>3, SettledStays DEF LoaderInv, SeenSettled
<1> QED BY <1>2, <1>3, VerdictSound

(* Every step of an op is a step of the loader, or leaves it alone.        *)
LEMMA LoaderSeesOps ==
  ASSUME [Next]_vars
  PROVE  LoaderNext \/ UNCHANGED loaderVars
<1>1. ASSUME NEW t \in Threads, Start(t) PROVE LoaderNext \/ UNCHANGED loaderVars
  <2>1. PICK w \in Work[t] :
          (w.route = "load_format" /\ Ask(t, w.format)) \/ UNCHANGED loaderVars
    BY <1>1 DEF Start
  <2> QED BY <2>1, WorkAssumption DEF LoaderNext
<1>2. ASSUME NEW t \in Threads, Works(t) PROVE LoaderNext \/ UNCHANGED loaderVars
  <2>1. Default \in AllFormats
    BY LoaderAssumption
  <2>2. CASE CallReturns(t)
    <3>1. UNCHANGED loaderVars \/ Ask(t, Default)
      BY <2>2 DEF CallReturns, Throw
    <3> QED BY <2>1, <3>1 DEF LoaderNext
  <2>3. CASE AsksLoader(t)
    BY <2>1, <2>3 DEF AsksLoader, LoaderNext
  <2>4. CASE InLoader(t) \/ Answered(t)
    BY <2>4 DEF InLoader, Answered, LoaderNext
  <2> QED BY <1>2, <2>2, <2>3, <2>4
        DEF Works, Refuses, ReturnsEmpty, RunsPortable, WithoutLibrary, WithoutSymbol,
            ReturnsEmptyLate, WithLibrary
<1> QED BY <1>1, <1>2 DEF Next, vars, LoaderNext

(* state() keeps its mutex, the attempt it has marked and the verdicts it  *)
(* gave in step with one another.                                          *)
THEOREM LoaderCorrect == Spec => []LoaderInv
<1>1. Init => LoaderInv
  BY LoaderInitially DEF Init
<1>2. LoaderInv /\ [Next]_vars => LoaderInv'
  <2> SUFFICES ASSUME LoaderInv, [Next]_vars PROVE LoaderInv'
    OBVIOUS
  <2>1. CASE UNCHANGED loaderVars
    BY <2>1 DEF LoaderInv, LoaderTypeOK, MutexHeld, AttemptMarked, LeaversSettled, SeenSettled,
                Settled, loaderVars
  <2> QED BY <2>1, LoaderStep, LoaderSeesOps
<1> QED BY <1>1, <1>2, PTL DEF Spec

(* All callers get one answer about a format for the life of the process,  *)
(* and "loaded" is only said of a library with every required symbol.      *)
THEOREM VerdictsAgree == Spec => OneVerdict
<1>1. LoaderInv /\ [Next]_vars =>
        [\A t, u \in Threads, f \in AllFormats :
           /\ seen[t][f] # NotAsked => seen'[u][f] \in {NotAsked, seen[t][f]}
           /\ seen'[t][f].ok => Required \subseteq seen'[t][f].api]_loaderVars
  BY LoaderSeesOps, OneVerdictStep
<1> QED BY <1>1, LoaderCorrect, PTL DEF Spec, OneVerdict
-----------------------------------------------------------------------------
OpNames ==
  {"gguf_scale_prepass", "gguf_packed_scale_prepass", "gguf_vecdot", "gguf_vecdot_dense",
   "gguf_vecdot_moe", "gguf_gemv_scale_first", "gguf_gemv_bc", "gguf_dense_scale_first",
   "gguf_dense_fully_quantized", "gguf_grouped_fully_quantized", "gguf_dequantize",
   "gguf_prepare_gemv", "gguf_prepare_dense", "gguf_prepare_fully_quantized_dense",
   "gguf_prepare_fully_quantized_grouped", "gguf_artifact_dequantize",
   "gguf_artifact_dequantize_for_tile", "gguf_gemv_artifact_dequantize", "gguf_unpack",
   "gguf_pack_unit", "gguf_q4_artifact_dequantize"}

(* Ops by what they take: split planes, placed planes with expanded scales *)
(* or with units, the two stages of the portable Q4 chain, or raw blocks.  *)
FromNative == {"gguf_gemv_scale_first", "gguf_gemv_artifact_dequantize"}
FromPlanes ==
  {"gguf_dense_scale_first", "gguf_artifact_dequantize", "gguf_artifact_dequantize_for_tile"}
FromUnits ==
  {"gguf_packed_scale_prepass", "gguf_gemv_bc", "gguf_dense_fully_quantized",
   "gguf_grouped_fully_quantized"}
FromBlocks ==
  OpNames \ (FromNative \cup FromPlanes \cup FromUnits
               \cup {"gguf_pack_unit", "gguf_q4_artifact_dequantize"})

PlacedArtifact(r, scale, zero) ==
  [form |-> "placed", tile |-> TileOf(r), codes |-> Own(r), bias |-> CodeBias(r.q),
   scale |-> scale, scales |-> Own(r), zero |-> zero]
PlacedPlanes(r) == PlacedArtifact(r, "planes", PlacedZmul(r.q))
PlacedUnits(r) == PlacedArtifact(r, "units", 0)
Mixed(r, scale) ==
  [form |-> "mixed", tile |-> 0, codes |-> Own(r), bias |-> 0,
   scale |-> scale, scales |-> Own(r), zero |-> 0]

(* The artifact an op is owed, and which op may follow which in a route.   *)
Owed(o, r) ==
  IF o \in FromNative THEN Native(r)
  ELSE IF o \in FromPlanes THEN PlacedPlanes(r)
  ELSE IF o \in FromUnits THEN PlacedUnits(r)
  ELSE IF o = "gguf_pack_unit" THEN Mixed(r, "planes")
  ELSE IF o = "gguf_q4_artifact_dequantize" THEN Mixed(r, "units")
  ELSE Blocks(r)
Follows(o, p) ==
  \/ o = "gguf_prepare_gemv" /\ p \in FromNative
  \/ o \in {"gguf_prepare_dense", "gguf_packed_scale_prepass"} /\ p \in FromPlanes
  \/ /\ o \in {"gguf_prepare_fully_quantized_dense", "gguf_prepare_fully_quantized_grouped"}
     /\ p \in FromUnits
  \/ o = "gguf_unpack" /\ p = "gguf_pack_unit"
  \/ o = "gguf_pack_unit" /\ p = "gguf_q4_artifact_dequantize"
Moves(o) == Places(o) \/ Recovers(o)
-----------------------------------------------------------------------------
(* The shifts of a code: what the two collectives and formats.py keep is   *)
(* the converter's shift less the offset binary of the producer.           *)
LEMMA ShiftsAgree ==
  ASSUME NEW q \in Formats
  PROVE  /\ PlacedZmul(q) = LowShift(q) - CodeBias(q)
         /\ PackedZMul(q) = PlacedZmul(q)
         /\ CodeBias(q) \in Int /\ LowShift(q) \in Int
<1> USE DEF PlacedZmul, PackedZMul, PackedZMulOne, PackedZMulTwo, LowShift, CodeBias, Low4, Quant
<1>1. CASE q = "Q2_K"
  BY <1>1
<1>2. CASE q = "Q3_K"
  BY <1>2
<1>3. CASE q = "Q4_K"
  BY <1>3
<1>4. CASE q = "Q5_K"
  BY <1>4
<1>5. CASE q = "Q6_K"
  BY <1>5
<1> QED BY <1>1, <1>2, <1>3, <1>4, <1>5 DEF Formats

(* A stage calls the symbols it has checked, and the required ones.        *)
StageSound(s) == s.calls \subseteq s.needs \cup Required

StagesSound(s) ==
  /\ DOMAIN s = 1 .. Len(s) /\ Len(s) \in 0 .. 2 /\ (Len(s) = 0 => s = <<>>)
  /\ \A i \in DOMAIN s : StageSound(s[i])

(* A contract with one stage.                                              *)
LEMMA OneStageSound ==
  ASSUME NEW s, StageSound(s)
  PROVE  StagesSound(<<s>>) /\ Len(<<s>>) = 1
BY DEF StagesSound

(* A contract with two stages.                                             *)
LEMMA TwoStagesSound ==
  ASSUME NEW s, NEW u, StageSound(s), StageSound(u)
  PROVE  StagesSound(<<s, u>>) /\ Len(<<s, u>>) = 2 /\ <<s, u>>[1] = s
<1>1. \A i \in DOMAIN <<s, u>> : <<s, u>>[i] \in {s, u}
  OBVIOUS
<1> QED BY <1>1 DEF StagesSound

(* A contract that calls nothing.                                          *)
LEMMA NoStageSound == StagesSound(<<>>) /\ Len(<<>>) = 0
BY DEF StagesSound

Stages(o, r) == Op(o, r).stages
TwoStaged == {"gguf_prepare_fully_quantized_dense", "gguf_prepare_fully_quantized_grouped"}

(* The ops that move no codes have one stage, or none, and check the       *)
(* symbols they call.                                                      *)
LEMMA LibraryContracts ==
  ASSUME NEW o \in OpNames, NEW r, ~Moves(o)
  PROVE  StagesSound(Stages(o, r)) /\ Len(Stages(o, r)) \in {0, 1} /\ o \notin TwoStaged
<1> USE DEF StageSound, Required, Stages, Op, OnLibrary, Stage, OnHost
<1>0. o \notin TwoStaged
  BY DEF TwoStaged, Moves, Places
<1>1. CASE o = "gguf_scale_prepass"
  <2>1. Stages(o, r) = <<Stages(o, r)[1]>> /\ StageSound(Stages(o, r)[1])
    BY <1>1 DEF ScalePrepass
  <2> QED BY <1>0, <2>1, OneStageSound
<1>2. CASE o = "gguf_packed_scale_prepass"
  <2>1. Stages(o, r) = <<Stages(o, r)[1]>> /\ StageSound(Stages(o, r)[1])
    BY <1>2 DEF PackedScalePrepass
  <2> QED BY <1>0, <2>1, OneStageSound
<1>3. CASE o = "gguf_vecdot"
  <2>1. Stages(o, r) = <<Stages(o, r)[1]>> /\ StageSound(Stages(o, r)[1])
    BY <1>3 DEF VecdotBlocks
  <2> QED BY <1>0, <2>1, OneStageSound
<1>4. CASE o = "gguf_vecdot_dense"
  <2>1. Stages(o, r) = <<Stages(o, r)[1]>> /\ StageSound(Stages(o, r)[1])
    BY <1>4 DEF VecdotDense
  <2> QED BY <1>0, <2>1, OneStageSound
<1>5. CASE o = "gguf_vecdot_moe"
  <2>1. Stages(o, r) = <<Stages(o, r)[1]>> /\ StageSound(Stages(o, r)[1])
    BY <1>5 DEF VecdotMoe
  <2> QED BY <1>0, <2>1, OneStageSound
<1>6. CASE o = "gguf_gemv_scale_first"
  <2>1. Stages(o, r) = <<Stages(o, r)[1]>> /\ StageSound(Stages(o, r)[1])
    BY <1>6 DEF GemvScaleFirst
  <2> QED BY <1>0, <2>1, OneStageSound
<1>7. CASE o = "gguf_gemv_bc"
  <2>1. Stages(o, r) = <<Stages(o, r)[1]>> /\ StageSound(Stages(o, r)[1])
    BY <1>7 DEF GemvBc
  <2> QED BY <1>0, <2>1, OneStageSound
<1>8. CASE o = "gguf_dense_scale_first"
  <2>1. Stages(o, r) = <<Stages(o, r)[1]>> /\ StageSound(Stages(o, r)[1])
    BY <1>8 DEF DenseScaleFirst
  <2> QED BY <1>0, <2>1, OneStageSound
<1>9. CASE o = "gguf_dense_fully_quantized"
  <2>1. Stages(o, r) = <<Stages(o, r)[1]>> /\ StageSound(Stages(o, r)[1])
    BY <1>9 DEF DenseFullyQuantized
  <2> QED BY <1>0, <2>1, OneStageSound
<1>10. CASE o = "gguf_grouped_fully_quantized"
  <2>1. Stages(o, r) = <<Stages(o, r)[1]>> /\ StageSound(Stages(o, r)[1])
    BY <1>10 DEF GroupedFullyQuantized
  <2> QED BY <1>0, <2>1, OneStageSound
<1>11. CASE o = "gguf_dequantize"
  BY <1>0, NoStageSound, <1>11 DEF Dequantize
<1>12. CASE o = "gguf_prepare_gemv"
  BY <1>0, NoStageSound, <1>12 DEF PrepareGemv
<1>13. CASE o = "gguf_gemv_artifact_dequantize"
  BY <1>0, NoStageSound, <1>13 DEF GemvDequantize
<1>14. CASE o = "gguf_unpack"
  BY <1>0, NoStageSound, <1>14 DEF UnpackAndPreprocess
<1>15. CASE o = "gguf_pack_unit"
  BY <1>0, NoStageSound, <1>15 DEF PackUnit
<1>16. CASE o = "gguf_q4_artifact_dequantize"
  BY <1>0, NoStageSound, <1>16 DEF Q4ArtifactDequantize
<1> QED BY <1>1, <1>2, <1>3, <1>4, <1>5, <1>6, <1>7, <1>8, <1>9, <1>10,
          <1>11, <1>12, <1>13, <1>14, <1>15, <1>16 DEF OpNames, Moves, Places, Recovers

(* The producers and inverses: a call per expert first, no fallback on the *)
(* host.                                                                   *)
LEMMA MovingContracts ==
  ASSUME NEW o \in OpNames, NEW r, Moves(o)
  PROVE  /\ StagesSound(Stages(o, r)) /\ Stages(o, r)[1].times = Len(r.rows)
         /\ Op(o, r).host = "refuse"
         /\ Len(Stages(o, r)) = IF o \in TwoStaged THEN 2 ELSE 1
<1>1. Placement(r).times = Len(r.rows) /\ StageSound(Placement(r))
  BY DEF Placement, Stage, StageSound
<1>2. CASE o = "gguf_prepare_dense"
  <2>1. Stages(o, r) = <<Placement(r)>> /\ Op(o, r).host = "refuse"
    BY <1>2 DEF Op, PrepareDense, Stages
  <2> QED BY <1>1, <1>2, <2>1, OneStageSound DEF TwoStaged
<1>3. CASE o = "gguf_prepare_fully_quantized_dense"
  <2> DEFINE u == Stage({"units_bytes", "prepare_units"}, {"units_bytes", "prepare_units"}, 1)
  <2>1. Stages(o, r) = <<Placement(r), u>> /\ Op(o, r).host = "refuse"
    BY <1>3 DEF Op, PrepareFullyQuantizedDense, Stages
  <2>2. StageSound(u)
    BY DEF Stage, StageSound
  <2> HIDE DEF u
  <2> QED BY <1>1, <1>3, <2>1, <2>2, TwoStagesSound DEF TwoStaged
<1>4. CASE o = "gguf_prepare_fully_quantized_grouped"
  <2> DEFINE u == [Stage({"units_bytes", "prepare_units_grouped"},
                         {"units_bytes", "prepare_units_grouped"}, 1) EXCEPT !.loads = FALSE]
  <2>1. Stages(o, r) = <<Placement(r), u>> /\ Op(o, r).host = "refuse"
    BY <1>4 DEF Op, PrepareFullyQuantizedGrouped, Stages
  <2>2. StageSound(u)
    BY DEF Stage, StageSound
  <2> HIDE DEF u
  <2> QED BY <1>1, <1>4, <2>1, <2>2, TwoStagesSound DEF TwoStaged
<1>5. CASE Recovers(o)
  <2> DEFINE inverse(tile) == IF tile = 0 THEN "recover_dense" ELSE "recover_dense_for_tile"
             stages(s) == <<Stage({s}, {s}, Len(r.rows))>>
  <2>1. /\ PlacedDequantize(r, FALSE).host = "refuse" /\ PlacedDequantize(r, TRUE).host = "refuse"
        /\ PlacedDequantize(r, FALSE).stages = stages(inverse(0))
        /\ PlacedDequantize(r, TRUE).stages = stages(inverse(r.tile))
    BY DEF PlacedDequantize, ReadsTile
  <2>2. Op(o, r).host = "refuse"
    BY <1>5, <2>1 DEF Recovers, Op
  <2>3. PICK s : Stages(o, r) = <<Stage({s}, {s}, Len(r.rows))>>
    BY <1>5, <2>1 DEF Recovers, Op, Stages
  <2>4. StageSound(Stage({s}, {s}, Len(r.rows)))
        /\ Stage({s}, {s}, Len(r.rows)).times = Len(r.rows)
    BY DEF Stage, StageSound
  <2> QED BY <1>5, <2>2, <2>3, <2>4, OneStageSound DEF TwoStaged, Recovers
<1> QED BY <1>2, <1>3, <1>4, <1>5 DEF Moves, Places

(* What an op makes of what it is owed is what the op after it is owed; an *)
(* op whose calls move codes has moved every expert's.                     *)
LEMMA PlacementMakes ==
  ASSUME NEW o \in OpNames, NEW r \in Request, NEW a, Places(o)
  PROVE  Made(o, r, a, 1, Own(r)) = PlacedPlanes(r)
<1>1. /\ -CodeBias(r.q) + LowShift(r.q) = PlacedZmul(r.q)
      /\ r.q \in Formats
  BY ShiftsAgree DEF Request
<1>2. Made(o, r, a, 1, Own(r)) =
        [Native(r) EXCEPT !.form = "placed", !.tile = TileOf(r), !.codes = Own(r),
                          !.zero = @ + LowShift(r.q)]
  BY DEF Made, Places, Recovers
<1> QED BY <1>1, <1>2 DEF Native, PlacedPlanes, PlacedArtifact

(* The second stage swaps the scales for units and nothing else.           *)
LEMMA UnitsMade ==
  ASSUME NEW o \in OpNames, NEW r, NEW dst, Places(o)
  PROVE  Made(o, r, PlacedPlanes(r), 2, dst) = PlacedUnits(r)
<1>1. Made(o, r, PlacedPlanes(r), 2, dst) =
        [PlacedPlanes(r) EXCEPT !.scale = "units", !.scales = Own(r), !.zero = 0]
  BY DEF Made, Places, Recovers
<1> QED BY <1>1 DEF PlacedUnits, PlacedPlanes, PlacedArtifact

(* An op of one stage makes what the op after it is owed.                  *)
LEMMA HandsOver ==
  ASSUME NEW o \in OpNames, NEW p \in OpNames, NEW r \in Request, NEW dst,
         Op(o, r).ok, Follows(o, p), o \notin TwoStaged, Moves(o) => dst = Own(r)
  PROVE  Made(o, r, Owed(o, r), 1, dst) = Owed(p, r)
<1>1. CASE o = "gguf_prepare_gemv"
  BY <1>1 DEF Follows, Made, Places, Recovers, Owed
<1>2. CASE o = "gguf_prepare_dense"
  <2>1. Places(o) /\ dst = Own(r)
    BY <1>2 DEF Places, Moves
  <2>2. Made(o, r, Owed(o, r), 1, dst) = PlacedPlanes(r)
    BY <2>1, PlacementMakes
  <2> QED BY <1>2, <2>2 DEF Follows, Owed, FromNative, FromPlanes
<1>3. CASE o = "gguf_packed_scale_prepass"
  <2>1. Made(o, r, PlacedUnits(r), 1, dst) =
          [PlacedUnits(r) EXCEPT !.scale = "planes", !.zero = PlacedZmul(r.q)]
    BY <1>3 DEF Made, Places, Recovers
  <2>2. Owed(o, r) = PlacedUnits(r) /\ Owed(p, r) = PlacedPlanes(r)
    BY <1>3 DEF Follows, Owed, FromNative, FromPlanes, FromUnits
  <2>3. [PlacedUnits(r) EXCEPT !.scale = "planes", !.zero = PlacedZmul(r.q)] = PlacedPlanes(r)
    <3>1. [PlacedUnits(r) EXCEPT !.scale = "planes"] = PlacedArtifact(r, "planes", 0)
      BY DEF PlacedUnits, PlacedArtifact
    <3>2. [PlacedArtifact(r, "planes", 0) EXCEPT !.zero = PlacedZmul(r.q)] = PlacedPlanes(r)
      BY DEF PlacedPlanes, PlacedArtifact
    <3>3. [PlacedUnits(r) EXCEPT !.scale = "planes", !.zero = PlacedZmul(r.q)]
            = [[PlacedUnits(r) EXCEPT !.scale = "planes"] EXCEPT !.zero = PlacedZmul(r.q)]
      OBVIOUS
    <3> QED BY <3>1, <3>2, <3>3
  <2> QED BY <2>1, <2>2, <2>3
<1>4. CASE o = "gguf_unpack"
  <2>1. r.q = "Q4_K"
    BY <1>4 DEF Op, UnpackAndPreprocess, OnHost
  <2>2. Made(o, r, Owed(o, r), 1, dst) = [Native(r) EXCEPT !.form = "mixed", !.zero = 0]
    BY <1>4 DEF Made, Places, Recovers
  <2>3. Owed(p, r) = Mixed(r, "planes")
    BY <1>4 DEF Follows, Owed, FromNative, FromPlanes, FromUnits
  <2>4. [Native(r) EXCEPT !.form = "mixed", !.zero = 0] = Mixed(r, "planes")
    <3>1. [Native(r) EXCEPT !.form = "mixed"] = Mixed(r, "planes")
      BY <2>1 DEF Native, Mixed, CodeBias
    <3>2. [Mixed(r, "planes") EXCEPT !.zero = 0] = Mixed(r, "planes")
      BY DEF Mixed
    <3>3. [Native(r) EXCEPT !.form = "mixed", !.zero = 0]
            = [[Native(r) EXCEPT !.form = "mixed"] EXCEPT !.zero = 0]
      OBVIOUS
    <3> QED BY <3>1, <3>2, <3>3
  <2> QED BY <2>2, <2>3, <2>4
<1>5. CASE o = "gguf_pack_unit"
  <2>1. Made(o, r, Mixed(r, "planes"), 1, dst) = [Mixed(r, "planes") EXCEPT !.scale = "units"]
    BY <1>5 DEF Made, Places, Recovers
  <2>2. Owed(o, r) = Mixed(r, "planes") /\ Owed(p, r) = Mixed(r, "units")
    BY <1>5 DEF Follows, Owed, FromNative, FromPlanes, FromUnits
  <2> QED BY <2>1, <2>2 DEF Mixed
<1> QED BY <1>1, <1>2, <1>3, <1>4, <1>5 DEF Follows, TwoStaged

(* An op that multiplies or expands reads the artifact it was owed.        *)
LEMMA LastOpKeeps ==
  ASSUME NEW o \in OpNames, NEW r, NEW dst,
         Multiplies(o) \/ Expands(o), Moves(o) => dst = Own(r)
  PROVE  Made(o, r, Owed(o, r), 1, dst) = Owed(o, r)
<1>1. CASE Recovers(o)
  <2>1. Made(o, r, Owed(o, r), 1, dst) = [Owed(o, r) EXCEPT !.codes = Own(r)]
    BY <1>1 DEF Made, Recovers, Places, Moves
  <2>2. Owed(o, r) = PlacedPlanes(r)
    BY <1>1 DEF Owed, Recovers, FromNative, FromPlanes
  <2> QED BY <2>1, <2>2 DEF PlacedPlanes, PlacedArtifact
<1>2. CASE ~Recovers(o)
  BY <1>2 DEF Made, Recovers, Places, Multiplies, Expands
<1> QED BY <1>1, <1>2

(* Ops that take the fixed arrangement whatever tile the request names.    *)
FixedReaders ==
  {"gguf_gemv_bc", "gguf_dense_scale_first", "gguf_dense_fully_quantized",
   "gguf_grouped_fully_quantized", "gguf_artifact_dequantize"}

(* What an op is owed is what it reads: each expert's codes and scales,    *)
(* arranged as its reader assumes, and the shifts cancel.                  *)
LEMMA OwedIsRight ==
  ASSUME NEW o \in OpNames, NEW r \in Request,
         Multiplies(o) \/ Expands(o), r.tile # 0 => o \notin FixedReaders
  PROVE  /\ DOMAIN Weights(o, r, Owed(o, r)) = Experts(r)
         /\ \A e \in Experts(r) :
              LET w == Weights(o, r, Owed(o, r))[e]
              IN  w.codes = e /\ w.scales = e /\ w.arranged /\ w.off = 0
<1> DEFINE a == Owed(o, r)
           d == Reader(o, r)
           arranged == /\ a.form = d.form /\ a.scale = d.scale
                       /\ d.form = "placed" => SameBytes(r.q, a.tile, d.tile)
           off == a.bias - d.shift + (IF d.scale = "planes" THEN a.zero ELSE d.zero)
<1>1. /\ r.q \in Formats /\ CodeBias(r.q) \in Int /\ LowShift(r.q) \in Int
      /\ PlacedZmul(r.q) = LowShift(r.q) - CodeBias(r.q) /\ PackedZMul(r.q) = PlacedZmul(r.q)
  BY ShiftsAgree DEF Request
<1>2. a.codes = Own(r) /\ a.scales = Own(r)
  BY DEF Owed, Blocks, Native, PlacedPlanes, PlacedUnits, PlacedArtifact, Mixed
<1>3. arranged /\ off = 0
  <2>1. CASE o \in {"gguf_vecdot", "gguf_vecdot_dense", "gguf_vecdot_moe", "gguf_dequantize"}
    BY <2>1 DEF Owed, Blocks, Reader, FromNative, FromPlanes, FromUnits
  <2>2. CASE o \in FromNative
    BY <1>1, <2>2 DEF Owed, Native, Reader, FromNative
  <2>3. CASE o \in FixedReaders
    <3>1. TileOf(r) = FixedTile(r.q)
      BY <2>3 DEF TileOf
    <3>2. CASE o = "gguf_gemv_bc"
      BY <1>1, <3>1, <3>2
         DEF Owed, PlacedUnits, PlacedPlanes, PlacedArtifact, Reader, FromNative, FromPlanes,
              FromUnits, SameBytes
    <3>3. CASE o \in {"gguf_dense_fully_quantized", "gguf_grouped_fully_quantized"}
      BY <1>1, <3>1, <3>3
         DEF Owed, PlacedUnits, PlacedPlanes, PlacedArtifact, Reader, FromNative, FromPlanes,
              FromUnits, SameBytes
    <3>4. CASE o \in {"gguf_dense_scale_first", "gguf_artifact_dequantize"}
      BY <1>1, <3>1, <3>4
         DEF Owed, PlacedPlanes, PlacedArtifact, Reader, FromNative, FromPlanes,
              FromUnits, SameBytes
    <3> QED BY <2>3, <3>2, <3>3, <3>4 DEF FixedReaders
  <2>4. CASE o = "gguf_artifact_dequantize_for_tile"
    BY <1>1, <2>4 DEF Owed, PlacedPlanes, PlacedArtifact, Reader, FromNative, FromPlanes,
              FromUnits, SameBytes
  <2>5. CASE o = "gguf_q4_artifact_dequantize"
    BY <1>1, <2>5 DEF Owed, Mixed, Reader, FromNative, FromPlanes, FromUnits
  <2> QED BY <2>1, <2>2, <2>3, <2>4, <2>5 DEF Multiplies, Expands, FromNative, FixedReaders
<1>4. Weights(o, r, a) =
        [e \in Experts(r) |-> [codes |-> a.codes[e], scales |-> a.scales[e],
                               arranged |-> arranged, off |-> off]]
  BY DEF Weights
<1> HIDE DEF a, d, arranged, off
<1>5. \A e \in Experts(r) : Own(r)[e] = e
  BY DEF Own
<1>6. ASSUME NEW e \in Experts(r)
      PROVE  Weights(o, r, a)[e] = [codes |-> e, scales |-> e, arranged |-> arranged, off |-> off]
  BY <1>2, <1>4, <1>5
<1>7. DOMAIN Weights(o, r, a) = Experts(r)
  BY <1>4
<1> QED BY <1>3, <1>6, <1>7 DEF a
-----------------------------------------------------------------------------
(* A route's ops, each following the one before it.                        *)
Chain(ops) ==
  /\ ops \in Seq(OpNames) /\ Len(ops) > 0
  /\ \A i \in 1 .. Len(ops) - 1 : Follows(ops[i], ops[i + 1])

JobFields == {"route", "req", "ops", "stage", "e", "art", "dst"}

(* A call in progress: the library has the symbols of the stage, and the   *)
(* experts before this one are moved.                                      *)
Calling(j, lib) ==
  /\ lib.ok /\ Stages(Head(j.ops), j.req)[j.stage].needs \subseteq lib.api
  /\ j.e \in Nat \ {0}
  /\ Moves(Head(j.ops)) /\ j.stage = 1 =>
       \A x \in Experts(j.req) : x < j.e => j.dst[x] = x

(* An op of a route: it holds the artifact it is owed.                     *)
Serving(a, j, f, lib) ==
  LET o == Head(j.ops)
      r == j.req
  IN  /\ r \in Request /\ Chain(j.ops)
      /\ j.stage \in {1, 2} /\ (j.stage = 2 => o \in TwoStaged)
      /\ j.art = IF j.stage = 1 THEN Owed(o, r) ELSE PlacedPlanes(r)
      /\ a = "op" => j.stage = 1
      /\ a # "op" => /\ Op(o, r).ok /\ j.stage \in DOMAIN Stages(o, r)
                     /\ j.dst \in [Experts(r) -> Nat]
      /\ a = "load" => f = Default
      /\ a = "call" => Calling(j, lib)

(* The thread at a with job j, inside the loader at s asking for f, told   *)
(* lib about the default format.                                           *)
JobOK(a, j, s, f, lib) ==
  /\ DOMAIN j = JobFields
  /\ a = "load" <=> s # "out"
  /\ a = "idle" => j = NoJob
  /\ a # "idle" /\ j.route = "load_format" => a = "load"
  /\ a # "idle" /\ j.route # "load_format" => Serving(a, j, f, lib)

Stations == {"idle", "op", "load", "decide", "call"}
JobInv(t) == JobOK(at[t], job[t], step[t], asked[t], seen[t][Default])
OpsInv ==
  /\ LoaderInv
  /\ at \in [Threads -> Stations]
  /\ jobs \in [Threads -> 0 .. MaxJobs]
  /\ DOMAIN job = Threads /\ DOMAIN out = Threads
  /\ \A t \in Threads : JobInv(t)
-----------------------------------------------------------------------------
(* The rest of a route is a route, and its first op follows the one that   *)
(* is done.                                                                *)
LEMMA ChainTail ==
  ASSUME NEW ops, Chain(ops)
  PROVE  /\ Head(ops) \in OpNames
         /\ Len(ops) # 1 => /\ Chain(Tail(ops)) /\ Head(Tail(ops)) \in OpNames
                            /\ Follows(Head(ops), Head(Tail(ops)))
<1>1. Len(ops) \in Nat /\ Len(ops) > 0 /\ Head(ops) = ops[1] /\ Head(ops) \in OpNames
  BY DEF Chain
<1>2. ASSUME Len(ops) # 1 PROVE Chain(Tail(ops)) /\ Head(Tail(ops)) = ops[2]
  <2>1. /\ Tail(ops) \in Seq(OpNames) /\ Len(Tail(ops)) = Len(ops) - 1
        /\ \A i \in 1 .. Len(ops) - 1 : Tail(ops)[i] = ops[i + 1]
    BY <1>1, <1>2 DEF Chain
  <2> QED BY <1>1, <1>2, <2>1 DEF Chain
<1> QED BY SMTT(30), <1>1, <1>2 DEF Chain

(* The op of a job, its stages and the expert table it fills.              *)
LEMMA OpFacts ==
  ASSUME NEW o \in OpNames, NEW r
  PROVE  /\ StagesSound(Stages(o, r))
         /\ o \in TwoStaged => Len(Stages(o, r)) = 2
         /\ o \notin TwoStaged => Len(Stages(o, r)) < 2
         /\ Moves(o) => /\ Len(Stages(o, r)) > 0
                        /\ Stages(o, r)[1].times = Len(r.rows)
                        /\ Op(o, r).host = "refuse"
<1>1. CASE Moves(o)
  <2>1. /\ StagesSound(Stages(o, r)) /\ Stages(o, r)[1].times = Len(r.rows)
        /\ Op(o, r).host = "refuse"
    BY <1>1, MovingContracts
  <2>2. Len(Stages(o, r)) = IF o \in TwoStaged THEN 2 ELSE 1
    BY <1>1, MovingContracts
  <2> QED BY <2>1, <2>2
<1>2. CASE ~Moves(o)
  <2>1. StagesSound(Stages(o, r)) /\ Len(Stages(o, r)) \in {0, 1} /\ o \notin TwoStaged
    BY <1>2, LibraryContracts
  <2> QED BY <1>2, <2>1
<1> QED BY <1>1, <1>2

(* HandsOver for both kinds of op, after their last stage.                 *)
LEMMA MadeIsOwed ==
  ASSUME NEW o \in OpNames, NEW p \in OpNames, NEW r \in Request, NEW dst, NEW art, NEW stage,
         Op(o, r).ok, Follows(o, p), stage \in {1, 2}, stage = 2 <=> o \in TwoStaged,
         Moves(o) /\ stage = 1 => dst = Own(r),
         art = IF stage = 1 THEN Owed(o, r) ELSE PlacedPlanes(r)
  PROVE  Made(o, r, art, stage, dst) = Owed(p, r)
<1>1. CASE o \in TwoStaged
  <2>1. Places(o)
    BY <1>1 DEF TwoStaged, Places
  <2>2. p \in FromUnits
    BY <1>1 DEF Follows, TwoStaged
  <2>3. Owed(p, r) = PlacedUnits(r)
    BY <2>2 DEF Owed, FromUnits, FromNative, FromPlanes
  <2>4. Made(o, r, PlacedPlanes(r), 2, dst) = PlacedUnits(r)
    BY <2>1, UnitsMade
  <2> QED BY <1>1, <2>3, <2>4
<1>2. CASE o \notin TwoStaged
  <2>1. stage = 1 /\ art = Owed(o, r) /\ (Moves(o) => dst = Own(r))
    BY <1>2
  <2>2. Made(o, r, Owed(o, r), 1, dst) = Owed(p, r)
    BY <1>2, <2>1, HandsOver
  <2> QED BY <2>1, <2>2
<1> QED BY <1>1, <1>2

(* The first op of the rest of a route is ready to be served.              *)
LEMMA ServingAtOp ==
  ASSUME NEW k, NEW f, NEW lib, k.req \in Request, Chain(k.ops), k.stage = 1,
         k.art = Owed(Head(k.ops), k.req)
  PROVE  Serving("op", k, f, lib)
BY DEF Serving

(* The route goes on: what the op has made is what the next one is owed.   *)
LEMMA GoesOn ==
  ASSUME NEW a, NEW j, NEW f, NEW lib, NEW dst, NEW k,
         Serving(a, j, f, lib),
         Op(Head(j.ops), j.req).ok, Head(j.ops) \in TwoStaged => j.stage = 2,
         Moves(Head(j.ops)) /\ j.stage = 1 => dst = Own(j.req), Len(j.ops) # 1,
         k.req = j.req, k.ops = Tail(j.ops), k.stage = 1,
         k.art = Made(Head(j.ops), j.req, j.art, j.stage, dst)
  PROVE  Serving("op", k, f, lib)
<1>1. Head(j.ops) \in OpNames /\ Head(Tail(j.ops)) \in OpNames /\ j.req \in Request
  BY ChainTail DEF Serving
<1>2. PICK o \in OpNames : o = Head(j.ops)
  BY <1>1
<1>3. PICK p \in OpNames : p = Head(Tail(j.ops))
  BY <1>1
<1>4. PICK r \in Request : r = j.req
  BY <1>1
<1>5. k.req = r /\ k.art = Made(o, r, j.art, j.stage, dst)
  BY <1>2, <1>4
<1>6. Chain(k.ops) /\ Follows(o, p)
  BY <1>2, <1>3, <1>5, ChainTail DEF Serving
<1>7. /\ j.stage \in {1, 2} /\ (j.stage = 2 <=> o \in TwoStaged) /\ Op(o, r).ok
      /\ j.art = IF j.stage = 1 THEN Owed(o, r) ELSE PlacedPlanes(r)
      /\ Moves(o) /\ j.stage = 1 => dst = Own(r)
  BY <1>2, <1>4 DEF Serving
<1>8. Made(o, r, j.art, j.stage, dst) = Owed(p, r)
  BY <1>6, <1>7, MadeIsOwed
<1>9. Serving("op", k, f, lib)
  BY <1>3, <1>5, <1>6, <1>8, ServingAtOp
<1> QED BY <1>9

(* What a route's first op is owed is the checkpoint's blocks.             *)
LEMMA RoutesChain ==
  ASSUME NEW name \in Routes, NEW r
  PROVE  Chain(Route(name, r).ops) /\ Head(Route(name, r).ops) \in FromBlocks
<1> DEFINE ops == Route(name, r).ops
<1> USE DEF Route, Through, RawRoutes, ScaleFirstRoutes, FullyQuantizedRoutes, PublicOps
<1>1. ASSUME NEW o \in OpNames PROVE Chain(<<o>>) /\ Head(<<o>>) = o
  BY DEF Chain
<1>2. ASSUME NEW o \in OpNames, NEW p \in OpNames, Follows(o, p)
      PROVE  Chain(<<o, p>>) /\ Head(<<o, p>>) = o
  BY <1>2 DEF Chain
<1>3. ASSUME NEW o \in OpNames, NEW p \in OpNames, NEW q \in OpNames, Follows(o, p), Follows(p, q)
      PROVE  Chain(<<o, p, q>>) /\ Head(<<o, p, q>>) = o
  BY <1>3 DEF Chain
<1>4. ASSUME name \in RawRoutes \cup {"vecdot", "scale_prepass"}
      PROVE  \E o \in FromBlocks : ops = <<o>>
  BY <1>4 DEF RawRoute, PublicOp, FromBlocks, FromNative, FromPlanes, FromUnits, OpNames
<1>5. ASSUME name \in {"scale_first_gemv", "dequantize_scale_first", "scale_first_dense_raw",
                       "fully_quantized_dense", "fully_quantized_grouped", "bc_gemv"}
      PROVE  \E o \in FromBlocks, p \in OpNames : ops = <<o, p>> /\ Follows(o, p)
  BY SMTT(30), <1>5 DEF ScaleFirstRoute, FullyQuantizedRoute, FromBlocks, FromNative, FromPlanes, FromUnits,
              OpNames, Follows
<1>6. ASSUME name \in {"scale_first_dense", "dequantize_fully_quantized", "dequantize_for_tile",
                       "q4_artifact"}
      PROVE  \E o \in FromBlocks, p \in OpNames, q \in OpNames :
               ops = <<o, p, q>> /\ Follows(o, p) /\ Follows(p, q)
  <2> USE DEF FromBlocks, FromNative, FromPlanes, FromUnits, OpNames, Follows
  <2>1. CASE name = "scale_first_dense"
    <3>1. ops = <<"gguf_prepare_fully_quantized_dense", "gguf_packed_scale_prepass",
                  "gguf_dense_scale_first">>
      BY <2>1 DEF ScaleFirstRoute
    <3> HIDE DEF ops
    <3> QED BY <3>1
  <2>2. CASE name = "q4_artifact"
    <3>1. ops = <<"gguf_unpack", "gguf_pack_unit", "gguf_q4_artifact_dequantize">>
      BY <2>2 DEF PublicOp
    <3> HIDE DEF ops
    <3> QED BY <3>1
  <2>3. CASE name \in {"dequantize_fully_quantized", "dequantize_for_tile"}
    <3> DEFINE o == IF Grouped(r) THEN "gguf_prepare_fully_quantized_grouped"
                    ELSE "gguf_prepare_fully_quantized_dense"
               q == IF name = "dequantize_for_tile" THEN "gguf_artifact_dequantize_for_tile"
                    ELSE "gguf_artifact_dequantize"
    <3>1. ops = <<o, "gguf_packed_scale_prepass", q>>
      BY <2>3 DEF FullyQuantizedRoute
    <3> HIDE DEF ops
    <3>2. /\ o \in FromBlocks /\ "gguf_packed_scale_prepass" \in OpNames /\ q \in OpNames
          /\ Follows(o, "gguf_packed_scale_prepass") /\ Follows("gguf_packed_scale_prepass", q)
      OBVIOUS
    <3> QED BY <3>1, <3>2
  <2> QED BY <1>6, <2>1, <2>2, <2>3
<1>7. FromBlocks \subseteq OpNames
  BY DEF FromBlocks
<1>8. \E o \in FromBlocks : Chain(ops) /\ Head(ops) = o
  <2> HIDE DEF ops
  <2>1. ASSUME NEW o \in FromBlocks, ops = <<o>> PROVE Chain(ops) /\ Head(ops) = o
    BY <1>1, <1>7, <2>1
  <2>2. ASSUME NEW o \in FromBlocks, NEW p \in OpNames, ops = <<o, p>>, Follows(o, p)
        PROVE  Chain(ops) /\ Head(ops) = o
    BY <1>2, <1>7, <2>2
  <2>3. ASSUME NEW o \in FromBlocks, NEW p \in OpNames, NEW q \in OpNames,
               ops = <<o, p, q>>, Follows(o, p), Follows(p, q)
        PROVE  Chain(ops) /\ Head(ops) = o
    BY <1>3, <1>7, <2>3
  <2> QED BY <1>4, <1>5, <1>6, <2>1, <2>2, <2>3 DEF Routes
<1> QED BY <1>8
-----------------------------------------------------------------------------
(* What a step of thread t leaves: its own job is in order, and no other   *)
(* thread's place, job or answers have changed.                            *)
Stepped(t) ==
  /\ at' \in [Threads -> Stations] /\ jobs' \in [Threads -> 0 .. MaxJobs]
  /\ DOMAIN job' = Threads /\ DOMAIN out' = Threads
  /\ JobInv(t)'
  /\ \A u \in Threads \ {t} : at'[u] = at[u] /\ job'[u] = job[u]

(* The op has its result and the route goes on with it: every call of a    *)
(* moving stage has written its expert.                                    *)
OpEnds(t) ==
  \E dst :
    /\ at[t] \in {"op", "decide", "call"} /\ UNCHANGED loaderVars /\ Spec1(t).ok
    /\ Now(t) \in TwoStaged => job[t].stage = 2
    /\ Moves(Now(t)) /\ job[t].stage = 1 => dst = Own(Req(t))
    /\ OpReturns(t, Made(Now(t), Req(t), job[t].art, job[t].stage, dst))

Elsewhere(t) ==
  \A u \in Threads \ {t} : step'[u] = step[u] /\ asked'[u] = asked[u] /\ seen'[u] = seen[u]

(* A thread without a call.                                                *)
LEMMA IdleOK ==
  ASSUME NEW f, NEW lib
  PROVE  JobOK("idle", NoJob, "out", f, lib)
BY DEF JobOK, NoJob, JobFields

(* A return leaves the thread without a call.                              *)
LEMMA ReturnOK ==
  ASSUME OpsInv, NEW t \in Threads, NEW result, Return(t, result), step'[t] = "out"
  PROVE  Stepped(t)
<1>1. at'[t] = "idle" /\ job'[t] = NoJob /\ at' \in [Threads -> Stations] /\ jobs' = jobs
  BY DEF Return, Goes, Serves, OpsInv, Stations
<1>2. JobInv(t)'
  BY <1>1, IdleOK DEF JobInv
<1> QED BY <1>1, <1>2 DEF Return, Goes, Serves, OpsInv, Stepped

(* A thread at work outside the loader.                                    *)
LEMMA AtWork ==
  ASSUME OpsInv, NEW t \in Threads, at[t] \in {"op", "decide", "call"}
  PROVE  /\ Serving(at[t], job[t], asked[t], seen[t][Default])
         /\ DOMAIN job[t] = JobFields /\ step[t] = "out" /\ job[t].route # "load_format"
BY DEF OpsInv, JobInv, JobOK

(* An op that ends leaves its thread with the rest of the route, or        *)
(* without a call.                                                         *)
LEMMA OpReturnsOK ==
  ASSUME OpsInv, NEW t \in Threads, OpEnds(t)
  PROVE  Stepped(t)
<1> PICK dst :
      /\ at[t] \in {"op", "decide", "call"} /\ UNCHANGED loaderVars /\ Spec1(t).ok
      /\ Now(t) \in TwoStaged => job[t].stage = 2
      /\ Moves(Now(t)) /\ job[t].stage = 1 => dst = Own(Req(t))
      /\ OpReturns(t, Made(Now(t), Req(t), job[t].art, job[t].stage, dst))
  BY DEF OpEnds
<1>1. /\ Serving(at[t], job[t], asked[t], seen[t][Default]) /\ DOMAIN job[t] = JobFields
      /\ step[t] = "out" /\ job[t].route # "load_format"
  BY AtWork
<1>2. step'[t] = "out" /\ asked'[t] = asked[t] /\ seen'[t] = seen[t]
  BY <1>1 DEF loaderVars
<1>3. ASSUME NEW result, Return(t, result) PROVE Stepped(t)
  BY <1>2, <1>3, ReturnOK
<1>4. ASSUME /\ Len(job[t].ops) # 1 /\ Goes(t, "op") /\ UNCHANGED <<jobs, out>>
             /\ Serves(t, [job[t] EXCEPT !.ops = Tail(@), !.stage = 1,
                             !.art = Made(Now(t), Req(t), job[t].art, job[t].stage, dst)])
      PROVE  Stepped(t)
  <2>1. at'[t] = "op" /\ at' \in [Threads -> Stations]
    BY <1>4 DEF Goes, OpsInv, Stations
  <2>2. job'[t] = [job[t] EXCEPT !.ops = Tail(@), !.stage = 1,
                     !.art = Made(Head(job[t].ops), job[t].req, job[t].art, job[t].stage, dst)]
    BY <1>4 DEF Serves, OpsInv, Now, Req
  <2>3. /\ Serving("op", job'[t], asked[t], seen[t][Default]) /\ DOMAIN job'[t] = JobFields
        /\ job'[t].route = job[t].route
    <3>1. PICK j : j = job[t]
      OBVIOUS
    <3>2. PICK a, f, lib : a = at[t] /\ f = asked[t] /\ lib = seen[t][Default]
      OBVIOUS
    <3>3. PICK k : k = job'[t]
      OBVIOUS
    <3>4. /\ Serving(a, j, f, lib)
          /\ Op(Head(j.ops), j.req).ok /\ (Head(j.ops) \in TwoStaged => j.stage = 2)
          /\ Moves(Head(j.ops)) /\ j.stage = 1 => dst = Own(j.req)
          /\ Len(j.ops) # 1
      BY <1>1, <1>4, <3>1, <3>2 DEF Spec1, Now, Req
    <3>5. /\ DOMAIN k = JobFields /\ k.route = j.route
          /\ k.req = j.req /\ k.ops = Tail(j.ops) /\ k.stage = 1
          /\ k.art = Made(Head(j.ops), j.req, j.art, j.stage, dst)
      BY <1>1, <2>2, <3>1, <3>3 DEF JobFields
    <3>6. Serving("op", k, f, lib)
      BY <3>4, <3>5, GoesOn
    <3> QED BY <3>1, <3>2, <3>3, <3>5, <3>6
  <2>4. JobInv(t)'
    BY <1>1, <1>2, <2>1, <2>3 DEF JobInv, JobOK
  <2> QED BY <1>4, <2>1, <2>4 DEF Goes, Serves, OpsInv, Stepped
<1> QED BY <1>3, <1>4 DEF OpReturns
-----------------------------------------------------------------------------
(* A call starts at its route's first op, or inside the loader, or is      *)
(* refused.                                                                *)
LEMMA StartOK ==
  ASSUME OpsInv, NEW t \in Threads, Start(t)
  PROVE  Stepped(t) /\ Elsewhere(t)
<1>1. at[t] = "idle" /\ job[t] = NoJob /\ step[t] = "out" /\ DOMAIN NoJob = JobFields
  BY DEF Start, OpsInv, JobInv, JobOK, NoJob, JobFields
<1>2. PICK w \in Work[t] :
        \/ /\ w.route = "load_format" /\ Ask(t, w.format) /\ Goes(t, "load")
           /\ Serves(t, [NoJob EXCEPT !.route = w.route])
           /\ out' = [out EXCEPT ![t] = Nothing]
        \/ /\ w.route # "load_format" /\ Goes(t, "op") /\ UNCHANGED loaderVars
           /\ Serves(t, [NoJob EXCEPT !.route = w.route, !.req = w.req, !.art = Blocks(w.req),
                                      !.ops = Route(w.route, w.req).ops])
           /\ out' = [out EXCEPT ![t] = Nothing]
        \/ UNCHANGED <<loaderVars, at, job>> /\ out' = [out EXCEPT ![t] = Threw]
  BY DEF Start
<1>3. jobs' \in [Threads -> 0 .. MaxJobs]
  <2>1. jobs' = [jobs EXCEPT ![t] = @ + 1] /\ jobs[t] < MaxJobs
        /\ jobs \in [Threads -> 0 .. MaxJobs]
    BY DEF Start, OpsInv
  <2>2. jobs[t] + 1 \in 0 .. MaxJobs
    BY <2>1, WorkAssumption
  <2> QED BY <2>1, <2>2
<1>4. CASE /\ w.route = "load_format" /\ Ask(t, w.format) /\ Goes(t, "load")
           /\ Serves(t, [NoJob EXCEPT !.route = w.route])
           /\ out' = [out EXCEPT ![t] = Nothing]
  <2>1. /\ at'[t] = "load" /\ at' \in [Threads -> Stations]
        /\ \A u \in Threads \ {t} : at'[u] = at[u] /\ job'[u] = job[u]
        /\ DOMAIN job' = Threads /\ DOMAIN out' = Threads
    BY <1>4 DEF Goes, Serves, OpsInv, Stations
  <2>2. DOMAIN job'[t] = JobFields /\ job'[t].route = "load_format"
    BY <1>1, <1>4 DEF Serves, OpsInv, JobFields
  <2>3. step'[t] = "waits" /\ Elsewhere(t)
    BY <1>4 DEF Ask, To, OpsInv, LoaderInv, LoaderTypeOK, Elsewhere
  <2>4. JobInv(t)'
    BY <2>1, <2>2, <2>3 DEF JobInv, JobOK
  <2> QED BY <1>3, <2>1, <2>3, <2>4 DEF Stepped
<1>5. CASE /\ w.route # "load_format" /\ Goes(t, "op") /\ UNCHANGED loaderVars
           /\ Serves(t, [NoJob EXCEPT !.route = w.route, !.req = w.req, !.art = Blocks(w.req),
                                      !.ops = Route(w.route, w.req).ops])
           /\ out' = [out EXCEPT ![t] = Nothing]
  <2>1. /\ at'[t] = "op" /\ at' \in [Threads -> Stations]
        /\ \A u \in Threads \ {t} : at'[u] = at[u] /\ job'[u] = job[u]
        /\ DOMAIN job' = Threads /\ DOMAIN out' = Threads
    BY <1>5 DEF Goes, Serves, OpsInv, Stations
  <2>2. job'[t] = [NoJob EXCEPT !.route = w.route, !.req = w.req, !.art = Blocks(w.req),
                                !.ops = Route(w.route, w.req).ops]
    BY <1>5 DEF Serves, OpsInv
  <2>3. PICK k : k = job'[t]
    OBVIOUS
  <2>4. /\ DOMAIN k = JobFields /\ k.route = w.route /\ k.req = w.req /\ k.stage = 1
        /\ k.art = Blocks(w.req) /\ k.ops = Route(w.route, w.req).ops
    <3>1. NoJob.stage = 1
      BY DEF NoJob
    <3> QED BY <1>1, <2>2, <2>3, <3>1 DEF JobFields
  <2>5. PICK name \in Routes, r \in Request : name = w.route /\ r = w.req
    BY <1>5, WorkAssumption
  <2>6. Chain(Route(name, r).ops) /\ Head(Route(name, r).ops) \in FromBlocks
    BY RoutesChain
  <2>7. Owed(Head(Route(name, r).ops), r) = Blocks(r)
    BY <2>6 DEF Owed, FromBlocks
  <2>8. Serving("op", k, asked[t], seen[t][Default])
    BY <2>4, <2>5, <2>6, <2>7, ServingAtOp
  <2>9. step'[t] = "out" /\ asked'[t] = asked[t] /\ seen'[t] = seen[t] /\ Elsewhere(t)
    BY <1>1, <1>5 DEF loaderVars, Elsewhere
  <2>10. JobInv(t)'
    BY <1>5, <2>1, <2>3, <2>4, <2>8, <2>9 DEF JobInv, JobOK
  <2> QED BY <1>3, <2>1, <2>9, <2>10 DEF Stepped
<1>6. CASE UNCHANGED <<loaderVars, at, job>> /\ out' = [out EXCEPT ![t] = Threw]
  BY <1>3, <1>6 DEF Stepped, Elsewhere, OpsInv, JobInv, loaderVars
<1> QED BY <1>2, <1>4, <1>5, <1>6

(* Refusals and early returns.                                             *)
LEMMA GivesUpOK ==
  ASSUME OpsInv, NEW t \in Threads,
         Refuses(t) \/ ReturnsEmpty(t) \/ ReturnsEmptyLate(t)
  PROVE  Stepped(t) /\ Elsewhere(t)
<1>1. step'[t] = "out" /\ Elsewhere(t)
  BY AtWork DEF Refuses, ReturnsEmpty, ReturnsEmptyLate, loaderVars, Elsewhere
<1> QED BY <1>1, ReturnOK DEF Refuses, ReturnsEmpty, ReturnsEmptyLate, Throw

(* What the host computes is not a move, and not the second of two stages. *)
LEMMA HostIsLast ==
  ASSUME OpsInv, NEW t \in Threads, at[t] \in {"op", "decide"}, UNCHANGED loaderVars,
         Spec1(t).ok, ~Moves(Now(t)), ComputesOnHost(t)
  PROVE  OpEnds(t)
<1>1. Serving(at[t], job[t], asked[t], seen[t][Default])
  BY AtWork
<1>2. Now(t) \notin TwoStaged /\ job[t].stage = 1
  <2>1. Now(t) \notin TwoStaged
    BY DEF TwoStaged, Moves, Places
  <2> QED BY <1>1, <2>1 DEF Serving, Now
<1>3. OpReturns(t, Made(Now(t), Req(t), job[t].art, job[t].stage, job[t].art.codes))
  BY <1>2 DEF ComputesOnHost
<1> QED BY <1>2, <1>3 DEF OpEnds

(* The host throws, or ends an op that moves nothing.                      *)
LEMMA HostEnds ==
  ASSUME OpsInv, NEW t \in Threads,
         RunsPortable(t) \/ WithoutLibrary(t) \/ WithoutSymbol(t)
  PROVE  (Throw(t) \/ OpEnds(t)) /\ UNCHANGED loaderVars
<1>1. /\ Serving(at[t], job[t], asked[t], seen[t][Default]) /\ step[t] = "out"
      /\ at[t] \in {"op", "decide"} /\ UNCHANGED loaderVars
  BY AtWork DEF RunsPortable, WithoutLibrary, WithoutSymbol
<1>3. PICK o \in OpNames : o = Now(t)
  BY <1>1, ChainTail DEF Serving, Now
<1>4. PICK r : r = Req(t)
  OBVIOUS
<1>5. Spec1(t).ok
  BY <1>1 DEF RunsPortable, WithoutLibrary, WithoutSymbol, Serving, Spec1, Now, Req
<1>6. Throw(t) \/ (ComputesOnHost(t) /\ ~Moves(Now(t)))
  <2>1. CASE RunsPortable(t)
    <3>1. Stages(o, r) = <<>> /\ ComputesOnHost(t)
      BY <1>3, <1>4, <2>1 DEF RunsPortable, Stages, Spec1
    <3>2. ~Moves(o)
      BY <3>1, OpFacts
    <3> QED BY <1>3, <3>1, <3>2
  <2>2. CASE ~RunsPortable(t)
    <3>1. Throw(t) \/ (ComputesOnHost(t) /\ Op(o, r).host \in {"compute", "limited"})
      BY <1>3, <1>4, <2>2 DEF WithoutLibrary, WithoutSymbol, HostAllowed, Spec1
    <3>2. Op(o, r).host \in {"compute", "limited"} => ~Moves(o)
      BY OpFacts
    <3> QED BY <1>3, <3>1, <3>2
  <2> QED BY <2>1, <2>2
<1> QED BY <1>1, <1>5, <1>6, HostIsLast

(* The host arms leave the thread's job in order.                          *)
LEMMA HostOK ==
  ASSUME OpsInv, NEW t \in Threads,
         RunsPortable(t) \/ WithoutLibrary(t) \/ WithoutSymbol(t)
  PROVE  Stepped(t) /\ Elsewhere(t)
<1>1. (Throw(t) \/ OpEnds(t)) /\ UNCHANGED loaderVars
  BY HostEnds
<1>2. step'[t] = "out" /\ Elsewhere(t)
  BY <1>1, AtWork DEF RunsPortable, WithoutLibrary, WithoutSymbol, Elsewhere, loaderVars
<1> QED BY <1>1, <1>2, ReturnOK, OpReturnsOK DEF Throw
-----------------------------------------------------------------------------
(* The tables with an entry per expert.                                    *)
LEMMA UnwrittenType ==
  ASSUME NEW r \in Request
  PROVE  /\ Len(r.rows) \in Nat /\ Experts(r) = 1 .. Len(r.rows)
         /\ Unwritten(r) \in [Experts(r) -> Nat] /\ Own(r) \in [Experts(r) -> Nat]
BY DEF Request, Experts, Unwritten, Own

(* An op goes into the loader, with nothing written yet.                   *)
LEMMA AsksOK ==
  ASSUME OpsInv, NEW t \in Threads, AsksLoader(t)
  PROVE  Stepped(t) /\ Elsewhere(t)
<1>1. /\ Serving(at[t], job[t], asked[t], seen[t][Default]) /\ DOMAIN job[t] = JobFields
      /\ job[t].route # "load_format" /\ at[t] = "op"
  BY AtWork DEF AsksLoader
<1>2. /\ at'[t] = "load" /\ at' \in [Threads -> Stations] /\ jobs' = jobs /\ out' = out
      /\ \A u \in Threads \ {t} : at'[u] = at[u] /\ job'[u] = job[u]
      /\ DOMAIN job' = Threads
  BY DEF AsksLoader, Goes, Serves, OpsInv, Stations
<1>3. step'[t] = "waits" /\ asked'[t] = Default /\ Elsewhere(t)
  BY DEF AsksLoader, Ask, To, OpsInv, LoaderInv, LoaderTypeOK, Elsewhere
<1>4. PICK j, k : j = job[t] /\ k = job'[t]
  OBVIOUS
<1>5. /\ DOMAIN k = JobFields /\ k.route = j.route /\ k.req = j.req /\ k.ops = j.ops
      /\ k.stage = j.stage /\ k.art = j.art /\ k.dst = Unwritten(j.req)
  BY <1>1, <1>4 DEF AsksLoader, Serves, OpsInv, JobFields, Req
<1>6. /\ Op(Head(j.ops), j.req).ok /\ Stages(Head(j.ops), j.req) # <<>>
  BY <1>4 DEF AsksLoader, Spec1, Now, Req, Stages
<1>7. j.stage = 1 /\ 1 \in DOMAIN Stages(Head(j.ops), j.req)
  <2>1. PICK o \in OpNames, r \in Request : o = Head(j.ops) /\ r = j.req
    BY <1>1, <1>4, ChainTail DEF Serving
  <2>2. /\ DOMAIN Stages(o, r) = 1 .. Len(Stages(o, r)) /\ Len(Stages(o, r)) \in 0 .. 2
        /\ Stages(o, r) # <<>> => Len(Stages(o, r)) # 0
    BY OpFacts DEF StagesSound
  <2>3. Stages(o, r) # <<>>
    BY <1>6, <2>1
  <2> QED BY <1>1, <1>4, <2>1, <2>2, <2>3 DEF Serving
<1>8. Serving("load", k, Default, seen'[t][Default])
  <2>1. PICK lib : lib = seen'[t][Default]
    OBVIOUS
  <2>2. j.req \in Request /\ k.dst \in [Experts(k.req) -> Nat]
    BY <1>1, <1>4, <1>5, UnwrittenType DEF Serving
  <2>3. Serving("load", k, Default, lib)
    BY <1>1, <1>4, <1>5, <1>6, <1>7, <2>2 DEF Serving
  <2> QED BY <2>1, <2>3
<1>9. JobInv(t)'
  BY <1>1, <1>2, <1>3, <1>4, <1>5, <1>8 DEF JobInv, JobOK
<1> QED BY <1>2, <1>3, <1>9 DEF Stepped, OpsInv

(* Inside the loader no job changes.                                       *)
LEMMA InLoaderOK ==
  ASSUME OpsInv, NEW t \in Threads, InLoader(t)
  PROVE  Stepped(t) /\ Elsewhere(t)
<1>1. /\ at[t] = "load" /\ UNCHANGED opVars /\ Inside(t) /\ JobInv(t)
  BY DEF InLoader, OpsInv
<1>2. /\ step'[t] # "out" /\ asked' = asked /\ seen' = seen
      /\ \A u \in Threads \ {t} : step'[u] = step[u]
  BY <1>1 DEF Inside, Acquire, Find, Open, LookUp, Release, To, OpsInv, LoaderInv, LoaderTypeOK
<1>3. JobInv(t)'
  BY <1>1, <1>2 DEF JobInv, JobOK, opVars
<1> QED BY <1>1, <1>2, <1>3 DEF Stepped, Elsewhere, OpsInv, opVars

(* The loader's answer is what the op decides by.                          *)
LEMMA AnsweredOK ==
  ASSUME OpsInv, NEW t \in Threads, Answered(t)
  PROVE  Stepped(t) /\ Elsewhere(t)
<1>1. /\ step'[t] = "out" /\ asked' = asked
      /\ \A u \in Threads \ {t} : step'[u] = step[u] /\ seen'[u] = seen[u]
      /\ at[t] = "load"
  BY DEF Answered, ReadVerdict, To, OpsInv, LoaderInv, LoaderTypeOK
<1>2. CASE job[t].route = "load_format"
  BY <1>1, <1>2, ReturnOK DEF Answered, Elsewhere
<1>3. CASE job[t].route # "load_format"
  <2>1. /\ at'[t] = "decide" /\ at' \in [Threads -> Stations] /\ UNCHANGED <<job, jobs, out>>
        /\ \A u \in Threads \ {t} : at'[u] = at[u]
    BY <1>3 DEF Answered, Goes, OpsInv, Stations
  <2>2. Serving("load", job[t], asked[t], seen[t][Default]) /\ DOMAIN job[t] = JobFields
    BY <1>1, <1>3 DEF OpsInv, JobInv, JobOK
  <2>3. Serving("decide", job[t], asked[t], seen'[t][Default])
    BY <2>2 DEF Serving
  <2>4. JobInv(t)'
    BY <1>1, <1>3, <2>1, <2>2, <2>3 DEF JobInv, JobOK
  <2> QED BY <1>1, <2>1, <2>4 DEF Stepped, Elsewhere, OpsInv
<1> QED BY <1>2, <1>3

(* The first call of a stage: the symbols it needs are there.              *)
LEMMA WithLibraryOK ==
  ASSUME OpsInv, NEW t \in Threads, WithLibrary(t)
  PROVE  Stepped(t) /\ Elsewhere(t)
<1>1. /\ Serving("decide", job[t], asked[t], seen[t][Default]) /\ DOMAIN job[t] = JobFields
      /\ step[t] = "out" /\ job[t].route # "load_format"
  BY AtWork DEF WithLibrary
<1>2. /\ at'[t] = "call" /\ at' \in [Threads -> Stations] /\ UNCHANGED <<loaderVars, jobs, out>>
      /\ \A u \in Threads \ {t} : at'[u] = at[u] /\ job'[u] = job[u]
      /\ DOMAIN job' = Threads
  BY DEF WithLibrary, Goes, Serves, OpsInv, Stations
<1>3. PICK j, k, lib : j = job[t] /\ k = job'[t] /\ lib = seen[t][Default]
  OBVIOUS
<1>4. /\ DOMAIN k = JobFields /\ k.route = j.route /\ k.req = j.req /\ k.ops = j.ops
      /\ k.stage = j.stage /\ k.art = j.art /\ k.dst = j.dst /\ k.e = 1
  BY <1>1, <1>3 DEF WithLibrary, Serves, OpsInv, JobFields
<1>5. Calling(k, lib)
  <2>1. lib.ok /\ Stages(Head(k.ops), k.req)[k.stage].needs \subseteq lib.api
    BY <1>3, <1>4 DEF WithLibrary, StageOf, Library, Spec1, Now, Req, Stages
  <2>2. \A x \in Experts(k.req) : ~(x < 1)
    BY <1>1, <1>3, <1>4, UnwrittenType DEF Serving
  <2> QED BY <1>4, <2>1, <2>2 DEF Calling
<1>6. Serving("call", k, asked[t], lib)
  BY <1>1, <1>3, <1>4, <1>5 DEF Serving
<1>7. JobInv(t)'
  BY <1>1, <1>2, <1>3, <1>4, <1>6 DEF JobInv, JobOK, loaderVars
<1> QED BY <1>2, <1>7 DEF Stepped, Elsewhere, OpsInv, loaderVars
-----------------------------------------------------------------------------
(* The calls of the stage so far, this one included, wrote these codes.    *)
Source(j) == IF Recovers(Head(j.ops)) THEN j.art.codes ELSE Own(j.req)
Times(j) == Stages(Head(j.ops), j.req)[j.stage].times
Written(j) ==
  IF Times(j) = Len(j.dst) THEN [j.dst EXCEPT ![j.e] = Source(j)[j.e]] ELSE j.dst
MadeBy(j) == Made(Head(j.ops), j.req, j.art, j.stage, Written(j))

(* How a library call ends: it throws, it is followed by the call for the  *)
(* next expert, the op returns, or its second stage begins.                *)
LEMMA CallEnds ==
  ASSUME NEW t \in Threads, CallReturns(t)
  PROVE  \/ Throw(t) /\ UNCHANGED loaderVars
         \/ /\ Serves(t, [job[t] EXCEPT !.e = @ + 1, !.dst = Written(job[t])])
            /\ UNCHANGED <<loaderVars, at, jobs, out>>
         \/ /\ job[t].e = Times(job[t])
            /\ ~(job[t].stage < Len(Stages(Now(t), Req(t))))
            /\ OpReturns(t, MadeBy(job[t])) /\ UNCHANGED loaderVars
         \/ /\ job[t].e = Times(job[t]) /\ job[t].stage < Len(Stages(Now(t), Req(t)))
            /\ Serves(t, [job[t] EXCEPT !.stage = @ + 1, !.art = MadeBy(job[t])])
            /\ \/ Ask(t, Default) /\ Goes(t, "load")
               \/ Goes(t, "decide") /\ UNCHANGED loaderVars
            /\ UNCHANGED <<jobs, out>>
BY DEF CallReturns, RcChecked, ExpertBase, Written, Times, Source, MadeBy, Now, Req, Spec1, StageOf,
       Stages

(* One more expert of a moving stage is written, with its own codes.       *)
LEMMA WrittenOK ==
  ASSUME NEW j, NEW f, NEW lib, Serving("call", j, f, lib)
  PROVE  /\ Written(j) \in [Experts(j.req) -> Nat]
         /\ Moves(Head(j.ops)) /\ j.stage = 1 =>
              /\ \A x \in Experts(j.req) : x < j.e + 1 => Written(j)[x] = x
              /\ j.e = Times(j) => Written(j) = Own(j.req)
<1>1. PICK o \in OpNames, r \in Request : o = Head(j.ops) /\ r = j.req
  BY ChainTail DEF Serving
<1>2. PICK src, times, dst : src = Source(j) /\ times = Times(j) /\ dst = Written(j)
  OBVIOUS
<1>3. /\ src = IF Recovers(o) THEN j.art.codes ELSE Own(r)
      /\ times = Stages(o, r)[j.stage].times
      /\ dst = IF times = Len(j.dst) THEN [j.dst EXCEPT ![j.e] = src[j.e]] ELSE j.dst
  BY <1>1, <1>2 DEF Source, Times, Written
<1>4. /\ j.dst \in [Experts(r) -> Nat] /\ j.e \in Nat
      /\ Moves(o) /\ j.stage = 1 => \A x \in Experts(r) : x < j.e => j.dst[x] = x
  BY <1>1 DEF Serving, Calling
<1>5. Len(r.rows) \in Nat /\ Experts(r) = 1 .. Len(r.rows) /\ Own(r) \in [Experts(r) -> Nat]
  BY UnwrittenType
<1>6. src = Own(r)
  <2>1. ASSUME Recovers(o) PROVE j.art.codes = Own(r)
    <3>1. o \in FromPlanes /\ o \notin FromNative /\ o \notin TwoStaged
      BY <2>1 DEF Recovers, FromPlanes, FromNative, TwoStaged
    <3>2. j.art = PlacedPlanes(r)
      BY <1>1, <3>1 DEF Serving, Owed
    <3> QED BY <3>2 DEF PlacedPlanes, PlacedArtifact
  <2> QED BY <1>3, <2>1
<1>7. \A x \in Experts(r) : src[x] = x
  BY <1>6 DEF Own
<1>8. dst \in [Experts(r) -> Nat]
  BY <1>3, <1>4, <1>5, <1>7
<1>9. ASSUME Moves(o), j.stage = 1
      PROVE  /\ \A x \in Experts(r) : x < j.e + 1 => dst[x] = x
             /\ j.e = times => dst = Own(r)
  <2>1. times = Len(r.rows)
    BY <1>3, <1>9, OpFacts
  <2>2. Len(j.dst) = Len(r.rows)
    BY <1>4, <1>5
  <2>3. dst = [j.dst EXCEPT ![j.e] = src[j.e]]
    BY <1>3, <2>1, <2>2
  <2>4. \A x \in Experts(r) : x < j.e + 1 => dst[x] = x
    BY <1>4, <1>5, <1>7, <1>9, <2>3
  <2>5. ASSUME j.e = times PROVE dst = Own(r)
    <3>1. \A x \in Experts(r) : dst[x] = x
      BY <1>4, <1>5, <2>1, <2>4, <2>5
    <3> QED BY <1>8, <3>1 DEF Own
  <2> QED BY <2>4, <2>5
<1>10. /\ dst \in [Experts(j.req) -> Nat]
       /\ Moves(Head(j.ops)) /\ j.stage = 1 =>
            /\ \A x \in Experts(j.req) : x < j.e + 1 => dst[x] = x
            /\ j.e = times => dst = Own(j.req)
  BY <1>1, <1>8, <1>9
<1> QED BY <1>2, <1>10
-----------------------------------------------------------------------------
(* The thread goes on with the op it is at.                                *)
SameOp(t) == out' = out /\ job'[t].req = job[t].req /\ job'[t].ops = job[t].ops

(* The next expert's call: one more is written, the op goes on calling.    *)
LEMMA NextExpertOK ==
  ASSUME OpsInv, NEW t \in Threads, at[t] = "call",
         Serves(t, [job[t] EXCEPT !.e = @ + 1, !.dst = Written(job[t])]),
         UNCHANGED <<loaderVars, at, jobs, out>>
  PROVE  Stepped(t) /\ Elsewhere(t) /\ SameOp(t)
<1>1. /\ Serving("call", job[t], asked[t], seen[t][Default]) /\ DOMAIN job[t] = JobFields
      /\ step[t] = "out" /\ job[t].route # "load_format"
  BY AtWork
<1>2. PICK j, k, lib, f : j = job[t] /\ k = job'[t] /\ lib = seen[t][Default] /\ f = asked[t]
  OBVIOUS
<1>3. /\ DOMAIN k = JobFields /\ k.route = j.route /\ k.req = j.req /\ k.ops = j.ops
      /\ k.stage = j.stage /\ k.art = j.art /\ k.dst = Written(j) /\ k.e = j.e + 1
  BY <1>1, <1>2 DEF Serves, OpsInv, JobFields
<1>4. Serving("call", j, f, lib)
  BY <1>1, <1>2
<1>5. /\ Written(j) \in [Experts(j.req) -> Nat] /\ j.e \in Nat
      /\ Moves(Head(j.ops)) /\ j.stage = 1 =>
           \A x \in Experts(j.req) : x < j.e + 1 => Written(j)[x] = x
  BY <1>4, WrittenOK DEF Serving, Calling
<1>6. Calling(k, lib)
  BY <1>3, <1>4, <1>5 DEF Serving, Calling
<1>7. Serving("call", k, f, lib)
  BY <1>3, <1>4, <1>5, <1>6 DEF Serving
<1>8. JobInv(t)'
  BY <1>1, <1>2, <1>3, <1>7 DEF JobInv, JobOK, loaderVars
<1>9. DOMAIN job' = Threads /\ \A u \in Threads \ {t} : job'[u] = job[u]
  BY DEF Serves, OpsInv
<1> QED BY <1>2, <1>3, <1>8, <1>9 DEF Stepped, Elsewhere, SameOp, OpsInv, loaderVars

(* The second stage: the placed planes are what its calls read.            *)
LEMMA SecondStageOK ==
  ASSUME OpsInv, NEW t \in Threads, at[t] = "call",
         job[t].e = Times(job[t]), job[t].stage < Len(Stages(Now(t), Req(t))),
         Serves(t, [job[t] EXCEPT !.stage = @ + 1, !.art = MadeBy(job[t])]),
         \/ Ask(t, Default) /\ Goes(t, "load")
         \/ Goes(t, "decide") /\ UNCHANGED loaderVars,
         UNCHANGED <<jobs, out>>
  PROVE  Stepped(t) /\ Elsewhere(t) /\ SameOp(t)
<1>1. /\ Serving("call", job[t], asked[t], seen[t][Default]) /\ DOMAIN job[t] = JobFields
      /\ step[t] = "out" /\ job[t].route # "load_format"
  BY AtWork
<1>2. PICK j, k, lib, f : j = job[t] /\ k = job'[t] /\ lib = seen[t][Default] /\ f = asked[t]
  OBVIOUS
<1>3. PICK o \in OpNames, r \in Request : o = Head(j.ops) /\ r = j.req
  BY <1>1, <1>2, ChainTail DEF Serving
<1>4. /\ DOMAIN k = JobFields /\ k.route = j.route /\ k.req = j.req /\ k.ops = j.ops
      /\ k.stage = j.stage + 1 /\ k.art = MadeBy(j) /\ k.dst = j.dst
  BY <1>1, <1>2 DEF Serves, OpsInv, JobFields
<1>5. Serving("call", j, f, lib) /\ j.e = Times(j) /\ j.stage < Len(Stages(o, r))
  BY <1>1, <1>2, <1>3 DEF Now, Req
<1>6. o \in TwoStaged /\ j.stage = 1 /\ Len(Stages(o, r)) = 2 /\ DOMAIN Stages(o, r) = 1 .. 2
  <2>1. StagesSound(Stages(o, r)) /\ (o \notin TwoStaged => Len(Stages(o, r)) < 2)
        /\ (o \in TwoStaged => Len(Stages(o, r)) = 2)
    BY OpFacts
  <2>2. j.stage \in {1, 2}
    BY <1>5 DEF Serving
  <2> QED BY <1>5, <2>1, <2>2 DEF StagesSound
<1>7. k.art = PlacedPlanes(r)
  <2>1. Places(o) /\ Moves(o)
    BY <1>6 DEF TwoStaged, Places, Moves
  <2>2. Written(j) = Own(r)
    BY <1>3, <1>5, <1>6, <2>1, WrittenOK
  <2>3. k.art = Made(o, r, j.art, 1, Own(r))
    BY <1>3, <1>4, <1>6, <2>2 DEF MadeBy
  <2> QED BY <2>1, <2>3, PlacementMakes
<1>8. ASSUME NEW g, NEW l, NEW a \in {"load", "decide"}, a = "load" => g = Default
      PROVE  Serving(a, k, g, l)
  BY <1>3, <1>4, <1>5, <1>6, <1>7, <1>8 DEF Serving
<1>9. /\ DOMAIN job' = Threads /\ \A u \in Threads \ {t} : job'[u] = job[u] /\ at'[u] = at[u]
      /\ at' \in [Threads -> Stations] /\ at'[t] \in {"load", "decide"}
  BY DEF Serves, Goes, OpsInv, Stations
<1>10. CASE Ask(t, Default) /\ Goes(t, "load")
  <2>1. step'[t] = "waits" /\ asked'[t] = Default /\ Elsewhere(t) /\ at'[t] = "load"
    BY <1>10 DEF Ask, To, Goes, OpsInv, LoaderInv, LoaderTypeOK, Elsewhere
  <2>2. Serving("load", k, Default, seen'[t][Default])
    BY <1>8
  <2>3. JobInv(t)'
    BY <1>1, <1>2, <1>4, <2>1, <2>2 DEF JobInv, JobOK
  <2> QED BY <1>2, <1>4, <1>9, <2>1, <2>3 DEF Stepped, SameOp, OpsInv
<1>11. CASE Goes(t, "decide") /\ UNCHANGED loaderVars
  <2>1. step'[t] = "out" /\ Elsewhere(t) /\ at'[t] = "decide"
    BY <1>1, <1>11 DEF Goes, OpsInv, loaderVars, Elsewhere
  <2>2. Serving("decide", k, asked'[t], seen'[t][Default])
    BY <1>8
  <2>3. JobInv(t)'
    BY <1>1, <1>2, <1>4, <2>1, <2>2 DEF JobInv, JobOK
  <2> QED BY <1>2, <1>4, <1>9, <2>1, <2>3 DEF Stepped, SameOp, OpsInv
<1> QED BY <1>10, <1>11

(* The last call of the last stage.                                        *)
LEMMA CallsDone ==
  ASSUME OpsInv, NEW t \in Threads, at[t] = "call", job[t].e = Times(job[t]),
         ~(job[t].stage < Len(Stages(Now(t), Req(t)))),
         OpReturns(t, MadeBy(job[t])), UNCHANGED loaderVars
  PROVE  OpEnds(t)
<1>1. PICK j, lib, f : j = job[t] /\ lib = seen[t][Default] /\ f = asked[t]
  OBVIOUS
<1>2. Serving("call", j, f, lib)
  BY <1>1, AtWork
<1>3. PICK o \in OpNames : o = Now(t)
  BY <1>1, <1>2, ChainTail DEF Serving, Now
<1>4. o \in TwoStaged => j.stage = 2
  <2>1. PICK r : r = Req(t)
    OBVIOUS
  <2>2. o \in TwoStaged => Len(Stages(o, r)) = 2
    BY OpFacts
  <2>3. j.stage \in {1, 2}
    BY <1>2 DEF Serving
  <2>4. ~(j.stage < Len(Stages(o, r)))
    BY <1>1, <1>3, <2>1
  <2> QED BY SMTT(30), <2>2, <2>3, <2>4
<1>5. Moves(o) /\ j.stage = 1 => Written(j) = Own(j.req)
  <2>1. o = Head(j.ops) /\ j.e = Times(j)
    BY <1>1, <1>3 DEF Now
  <2> QED BY <1>2, <2>1, WrittenOK
<1>6. OpReturns(t, Made(Now(t), Req(t), job[t].art, job[t].stage, Written(j)))
  BY <1>1 DEF MadeBy, Now, Req
<1>7. Spec1(t).ok
  BY <1>1, <1>2 DEF Serving, Spec1, Now, Req
<1>8. Req(t) = j.req
  BY <1>1 DEF Req
<1> QED BY <1>1, <1>3, <1>4, <1>5, <1>6, <1>7, <1>8 DEF OpEnds

(* How a library call comes back, with what is left of the op.             *)
LEMMA CallReturnsAs ==
  ASSUME OpsInv, NEW t \in Threads, CallReturns(t)
  PROVE  \/ (Throw(t) \/ OpEnds(t)) /\ UNCHANGED loaderVars
         \/ Stepped(t) /\ Elsewhere(t) /\ SameOp(t)
<1>1. at[t] = "call"
  BY DEF CallReturns
<1>2. CASE Throw(t) /\ UNCHANGED loaderVars
  BY <1>2
<1>3. CASE /\ Serves(t, [job[t] EXCEPT !.e = @ + 1, !.dst = Written(job[t])])
           /\ UNCHANGED <<loaderVars, at, jobs, out>>
  BY <1>1, <1>3, NextExpertOK
<1>4. CASE /\ job[t].e = Times(job[t])
           /\ ~(job[t].stage < Len(Stages(Now(t), Req(t))))
           /\ OpReturns(t, MadeBy(job[t])) /\ UNCHANGED loaderVars
  BY <1>1, <1>4, CallsDone
<1>5. CASE /\ job[t].e = Times(job[t]) /\ job[t].stage < Len(Stages(Now(t), Req(t)))
           /\ Serves(t, [job[t] EXCEPT !.stage = @ + 1, !.art = MadeBy(job[t])])
           /\ \/ Ask(t, Default) /\ Goes(t, "load")
              \/ Goes(t, "decide") /\ UNCHANGED loaderVars
           /\ UNCHANGED <<jobs, out>>
  BY <1>1, <1>5, SecondStageOK
<1> QED BY <1>2, <1>3, <1>4, <1>5, CallEnds

(* Every way a library call comes back leaves the job in order.            *)
LEMMA CallReturnsOK ==
  ASSUME OpsInv, NEW t \in Threads, CallReturns(t)
  PROVE  Stepped(t) /\ Elsewhere(t)
<1>1. step[t] = "out"
  BY AtWork DEF CallReturns
<1>2. CASE (Throw(t) \/ OpEnds(t)) /\ UNCHANGED loaderVars
  <2>1. step'[t] = "out" /\ Elsewhere(t)
    BY <1>1, <1>2 DEF loaderVars, Elsewhere
  <2> QED BY <1>2, <2>1, ReturnOK, OpReturnsOK DEF Throw
<1> QED BY <1>2, CallReturnsAs
-----------------------------------------------------------------------------
(* At first no thread has a call.                                          *)
LEMMA OpsInitially == Init => OpsInv
<1> SUFFICES ASSUME Init PROVE OpsInv
  OBVIOUS
<1>1. LoaderInv
  BY LoaderInitially DEF Init
<1>2. \A t \in Threads : at[t] = "idle" /\ job[t] = NoJob /\ step[t] = "out"
  BY DEF Init, LoaderInit
<1>3. \A t \in Threads : JobInv(t)
  BY <1>2, IdleOK DEF JobInv
<1> QED BY <1>1, <1>3, WorkAssumption DEF Init, OpsInv, Stations

(* Whatever a thread does, its own job stays in order and the others' are  *)
(* not touched.                                                            *)
LEMMA WorksOK ==
  ASSUME OpsInv, NEW t \in Threads, Start(t) \/ Works(t)
  PROVE  Stepped(t) /\ Elsewhere(t)
BY StartOK, GivesUpOK, HostOK, AsksOK, InLoaderOK, AnsweredOK, WithLibraryOK, CallReturnsOK
   DEF Works

(* OpsInv is inductive: the loader's part by LoaderStep, the acting thread *)
(* by WorksOK.                                                             *)
LEMMA OpsStep ==
  ASSUME OpsInv, [Next]_vars
  PROVE  OpsInv'
<1>1. LoaderInv'
  <2>1. CASE UNCHANGED loaderVars
    BY <2>1 DEF OpsInv, LoaderInv, LoaderTypeOK, MutexHeld, AttemptMarked, LeaversSettled,
                SeenSettled, Settled, loaderVars
  <2> QED BY <2>1, LoaderStep, LoaderSeesOps DEF OpsInv
<1>2. CASE UNCHANGED vars
  BY <1>1, <1>2 DEF vars, opVars, loaderVars, OpsInv, JobInv
<1>3. CASE Install /\ UNCHANGED opVars
  BY <1>1, <1>3 DEF Install, opVars, OpsInv, JobInv
<1>4. ASSUME NEW t \in Threads, Start(t) \/ Works(t) PROVE OpsInv'
  <2>1. Stepped(t) /\ Elsewhere(t)
    BY <1>4, WorksOK
  <2>2. ASSUME NEW u \in Threads \ {t} PROVE JobInv(u)'
    <3>1. JobInv(u)
      BY DEF OpsInv
    <3> QED BY <2>1, <3>1 DEF Stepped, Elsewhere, JobInv
  <2> QED BY <1>1, <2>1, <2>2 DEF Stepped, OpsInv
<1> QED BY <1>2, <1>3, <1>4 DEF Next

(* A job in progress is always one of its route's, at one of its ops, with *)
(* the artifact that op is owed; a thread that is not serving has no job.  *)
THEOREM OpsCorrect == Spec => []OpsInv
<1>1. Init => OpsInv
  BY OpsInitially
<1>2. OpsInv /\ [Next]_vars => OpsInv'
  BY OpsStep
<1> QED BY <1>1, <1>2, PTL DEF Spec

(* The variables keep to their types: no op is ever at a stage it does not *)
(* have.                                                                   *)
THEOREM OpsTypeCorrect == Spec => []TypeOK
<1>1. OpsInv => TypeOK
  <2> SUFFICES ASSUME OpsInv PROVE TypeOK
    OBVIOUS
  <2>1. ASSUME NEW t \in Threads, at[t] \in {"decide", "call"}
        PROVE  job[t].stage \in DOMAIN Op(Head(job[t].ops), job[t].req).stages
    BY <2>1, AtWork DEF Serving, Stages
  <2> QED BY <2>1 DEF OpsInv, LoaderInv, JobInv, JobOK, TypeOK, Stations
<1> QED BY <1>1, OpsCorrect, PTL

(* No thread calls through a pointer the library has left null.            *)
THEOREM CallsAreResolved == Spec => []NoUnresolvedCall
<1>1. OpsInv => NoUnresolvedCall
  <2> SUFFICES ASSUME OpsInv, NEW t \in Threads, at[t] = "call"
               PROVE  Library(t).ok /\ StageOf(t).calls \subseteq Library(t).api
    BY DEF NoUnresolvedCall
  <2>1. PICK j, f, lib : j = job[t] /\ f = asked[t] /\ lib = seen[t][Default]
    OBVIOUS
  <2>2. Serving("call", j, f, lib)
    BY <2>1, AtWork
  <2>3. PICK o \in OpNames, r \in Request : o = Head(j.ops) /\ r = j.req
    BY <2>2, ChainTail DEF Serving
  <2>4. PICK s : s = Stages(o, r)[j.stage]
    OBVIOUS
  <2>5. lib.ok /\ s.needs \subseteq lib.api
    BY <2>2, <2>3, <2>4 DEF Serving, Calling
  <2>6. s.calls \subseteq s.needs \cup Required
    <3>1. StagesSound(Stages(o, r))
      BY OpFacts
    <3>2. j.stage \in DOMAIN Stages(o, r)
      BY <2>2, <2>3 DEF Serving
    <3> QED BY <2>4, <3>1, <3>2 DEF StagesSound, StageSound
  <2>7. Required \subseteq lib.api
    <3>1. lib \in Verdicts
      BY <2>1, LoaderAssumption DEF OpsInv, LoaderInv, LoaderTypeOK
    <3> QED BY <2>5, <3>1, VerdictSound
  <2>8. Library(t) = lib /\ StageOf(t) = s
    BY <2>1, <2>3, <2>4 DEF Library, StageOf, Spec1, Now, Req, Stages
  <2> QED BY <2>5, <2>6, <2>7, <2>8
<1> QED BY <1>1, OpsCorrect, PTL
-----------------------------------------------------------------------------
(* A request that names a TileK goes through no op that takes the codes to *)
(* be in the fixed arrangement. The caller's to see to: the artifact does  *)
(* not carry its tile, and no op can check it.                             *)
TilesReachTheirReader ==
  \A t \in Threads : \A w \in Work[t] :
    w.route # "load_format" /\ w.req.tile # 0 =>
      \A i \in DOMAIN Route(w.route, w.req).ops : Route(w.route, w.req).ops[i] \notin FixedReaders

ReadsItsTile(j) == j.req.tile # 0 => \A i \in DOMAIN j.ops : j.ops[i] \notin FixedReaders
TilesRead == \A t \in Threads : ReadsItsTile(job[t])

(* What a caller gets is made of every expert's own codes and scales.      *)
OwnWeights(result) ==
  result.kind \in {"rows", "weights"} =>
    \A e \in DOMAIN result.weights :
      /\ result.weights[e].codes = e /\ result.weights[e].scales = e
      /\ result.weights[e].arranged /\ result.weights[e].off = 0

WeightsInv == TilesRead /\ \A t \in Threads : OwnWeights(out[t])

(* Results that hold no weights.                                           *)
LEMMA PlainResults ==
  /\ OwnWeights(Nothing) /\ OwnWeights(Threw)
  /\ OwnWeights([Nothing EXCEPT !.kind = "answer"])
  /\ \A r : OwnWeights(Rows(r, <<>>, <<>>))
  /\ \A w : OwnWeights([Nothing EXCEPT !.kind = "scales", !.weights = w])
BY DEF OwnWeights, Nothing, Threw, Rows

(* What holds of a route's ops holds of the rest of them.                  *)
LEMMA TileTail ==
  ASSUME NEW j, NEW k, Chain(j.ops), ReadsItsTile(j),
         k.req = j.req, k.ops = j.ops \/ (Len(j.ops) # 1 /\ k.ops = Tail(j.ops))
  PROVE  ReadsItsTile(k)
<1>1. CASE k.ops = j.ops
  BY <1>1 DEF ReadsItsTile
<1>2. CASE Len(j.ops) # 1 /\ k.ops = Tail(j.ops)
  <2>1. /\ Len(j.ops) \in Nat /\ DOMAIN j.ops = 1 .. Len(j.ops)
        /\ DOMAIN Tail(j.ops) = 1 .. Len(j.ops) - 1
        /\ \A i \in 1 .. Len(j.ops) - 1 : Tail(j.ops)[i] = j.ops[i + 1]
    BY <1>2 DEF Chain
  <2> QED BY <1>2, <2>1 DEF ReadsItsTile
<1> QED BY <1>1, <1>2

(* What an op that multiplies or expands gives is right.                   *)
LEMMA OpGives ==
  ASSUME OpsInv, WeightsInv, NEW t \in Threads, OpEnds(t)
  PROVE  OwnWeights(out'[t]) /\ ReadsItsTile(job'[t])
<1>1. PICK dst :
        /\ at[t] \in {"op", "decide", "call"} /\ UNCHANGED loaderVars /\ Spec1(t).ok
        /\ Now(t) \in TwoStaged => job[t].stage = 2
        /\ Moves(Now(t)) /\ job[t].stage = 1 => dst = Own(Req(t))
        /\ OpReturns(t, Made(Now(t), Req(t), job[t].art, job[t].stage, dst))
  BY DEF OpEnds
<1>2. PICK j, f, lib : j = job[t] /\ f = asked[t] /\ lib = seen[t][Default]
  OBVIOUS
<1>3. PICK a : a = at[t]
  OBVIOUS
<1>4. Serving(a, j, f, lib) /\ DOMAIN j = JobFields
  BY <1>1, <1>2, <1>3, AtWork
<1>5. PICK o \in OpNames, r \in Request : o = Head(j.ops) /\ r = j.req
  BY <1>4, ChainTail DEF Serving
<1>6. Now(t) = o /\ Req(t) = r
  BY <1>2, <1>5 DEF Now, Req
<1>7. PICK art : art = Made(o, r, j.art, j.stage, dst)
  OBVIOUS
<1>8. OpReturns(t, art)
  BY <1>1, <1>2, <1>6, <1>7
<1>9. ReadsItsTile(j) /\ OwnWeights(out[t]) /\ Chain(j.ops)
  BY <1>2, <1>4 DEF WeightsInv, TilesRead, Serving
<1>10. ASSUME Multiplies(o) \/ Expands(o)
       PROVE  DOMAIN Weights(o, r, art) = Experts(r) /\
              \A e \in Experts(r) :
                 /\ Weights(o, r, art)[e].codes = e /\ Weights(o, r, art)[e].scales = e
                 /\ Weights(o, r, art)[e].arranged /\ Weights(o, r, art)[e].off = 0
  <2>1. o \notin TwoStaged
    BY <1>10 DEF TwoStaged, Multiplies, Expands
  <2>2. j.stage = 1 /\ j.art = Owed(o, r) /\ (Moves(o) => dst = Own(r))
    BY <1>1, <1>2, <1>4, <1>5, <1>6, <2>1 DEF Serving
  <2>3. art = Owed(o, r)
    BY <1>7, <1>10, <2>2, LastOpKeeps
  <2>4. r.tile # 0 => o \notin FixedReaders
    BY <1>5, <1>9 DEF ReadsItsTile, Chain
  <2> QED BY <1>10, <2>3, <2>4, OwedIsRight
<1>11. ReadsItsTile(NoJob)
  BY DEF ReadsItsTile, NoJob, NoRequest
<1>12. CASE Multiplies(o)
  <2>1. out'[t] = Rows(r, RowsMet(o, r), Weights(o, r, art)) /\ job'[t] = NoJob
    BY <1>6, <1>8, <1>12 DEF OpReturns, Return, Serves, OpsInv
  <2>2. out'[t].weights = Weights(o, r, art)
    BY <2>1 DEF Rows
  <2> QED BY <1>10, <1>11, <1>12, <2>1, <2>2 DEF OwnWeights
<1>13. CASE ~Multiplies(o) /\ Expands(o)
  <2>1. /\ out'[t] = [Nothing EXCEPT !.kind = "weights", !.weights = Weights(o, r, art)]
        /\ job'[t] = NoJob
    BY <1>6, <1>8, <1>13 DEF OpReturns, Return, Serves, OpsInv
  <2>2. out'[t].weights = Weights(o, r, art)
    BY <2>1 DEF Nothing
  <2> QED BY <1>10, <1>11, <1>13, <2>1, <2>2 DEF OwnWeights
<1>14. CASE ~Multiplies(o) /\ ~Expands(o)
  <2>1. \/ Return(t, [Nothing EXCEPT !.kind = "scales", !.weights = <<art>>])
        \/ /\ Len(j.ops) # 1 /\ UNCHANGED out
           /\ Serves(t, [job[t] EXCEPT !.ops = Tail(@), !.stage = 1, !.art = art])
    BY <1>2, <1>6, <1>8, <1>14 DEF OpReturns
  <2>2. CASE Return(t, [Nothing EXCEPT !.kind = "scales", !.weights = <<art>>])
    BY <1>11, <2>2, PlainResults DEF Return, Serves, OpsInv
  <2>3. CASE /\ Len(j.ops) # 1 /\ UNCHANGED out
             /\ Serves(t, [job[t] EXCEPT !.ops = Tail(@), !.stage = 1, !.art = art])
    <3>1. PICK k : k = job'[t]
      OBVIOUS
    <3>2. k.req = j.req /\ k.ops = Tail(j.ops)
      BY <1>2, <1>4, <2>3, <3>1 DEF Serves, OpsInv, JobFields
    <3>3. ReadsItsTile(k)
      BY <1>9, <2>3, <3>2, TileTail
    <3> QED BY <1>9, <2>3, <3>1, <3>3
  <2> QED BY <2>1, <2>2, <2>3
<1> QED BY <1>12, <1>13, <1>14

(* A step that leaves the op, its request and the result as they are.      *)
LEMMA SameOpGives ==
  ASSUME OpsInv, WeightsInv, NEW t \in Threads, SameOp(t)
  PROVE  OwnWeights(out'[t]) /\ ReadsItsTile(job'[t])
BY DEF SameOp, WeightsInv, TilesRead, ReadsItsTile

(* A call that starts goes through ops that know its tile.                 *)
LEMMA StartGives ==
  ASSUME TilesReachTheirReader, OpsInv, WeightsInv, NEW t \in Threads, Start(t)
  PROVE  OwnWeights(out'[t]) /\ ReadsItsTile(job'[t])
<1>1. job[t] = NoJob /\ DOMAIN NoJob = JobFields
  BY DEF Start, OpsInv, JobInv, JobOK, NoJob, JobFields
<1>2. out'[t] \in {Nothing, Threw}
  BY DEF Start, OpsInv
<1>3. PICK w \in Work[t] :
        \/ w.route = "load_format" /\ job'[t] = [NoJob EXCEPT !.route = w.route]
        \/ /\ w.route # "load_format"
           /\ job'[t] = [NoJob EXCEPT !.route = w.route, !.req = w.req, !.art = Blocks(w.req),
                                      !.ops = Route(w.route, w.req).ops]
        \/ job'[t] = job[t]
  BY DEF Start, Serves, OpsInv
<1>4. NoJob.req.tile = 0
  BY DEF NoJob, NoRequest
<1>5. ReadsItsTile(job'[t])
  <2>1. CASE w.route = "load_format" /\ job'[t] = [NoJob EXCEPT !.route = w.route]
    BY <1>4, <2>1 DEF ReadsItsTile
  <2>2. CASE /\ w.route # "load_format"
             /\ job'[t] = [NoJob EXCEPT !.route = w.route, !.req = w.req, !.art = Blocks(w.req),
                                        !.ops = Route(w.route, w.req).ops]
    <3>1. job'[t].req = w.req /\ job'[t].ops = Route(w.route, w.req).ops
      BY <1>1, <2>2 DEF JobFields
    <3> QED BY <2>2, <3>1 DEF ReadsItsTile, TilesReachTheirReader
  <2>3. CASE job'[t] = job[t]
    BY <1>1, <1>4, <2>3 DEF ReadsItsTile
  <2> QED BY <1>3, <2>1, <2>2, <2>3
<1> QED BY <1>2, <1>5, PlainResults

(* Whatever a thread hands back is made of the experts' own weights.       *)
LEMMA WorksGives ==
  ASSUME OpsInv, WeightsInv, NEW t \in Threads, Works(t)
  PROVE  OwnWeights(out'[t]) /\ ReadsItsTile(job'[t])
<1>1. ReadsItsTile(NoJob)
  BY DEF ReadsItsTile, NoJob, NoRequest
<1>2. ASSUME NEW result, Return(t, result), OwnWeights(result)
      PROVE  OwnWeights(out'[t]) /\ ReadsItsTile(job'[t])
  BY <1>1, <1>2 DEF Return, Serves, OpsInv
<1>3. CASE Throw(t)
  BY <1>2, <1>3, PlainResults DEF Throw
<1>4. CASE Refuses(t) \/ ReturnsEmpty(t) \/ ReturnsEmptyLate(t)
  BY <1>2, <1>3, <1>4, PlainResults DEF Refuses, ReturnsEmpty, ReturnsEmptyLate
<1>5. CASE RunsPortable(t) \/ WithoutLibrary(t) \/ WithoutSymbol(t)
  BY <1>3, <1>5, HostEnds, OpGives
<1>6. CASE AsksLoader(t) \/ WithLibrary(t) \/ InLoader(t)
  <2>1. at[t] \in {"op", "decide"} => DOMAIN job[t] = JobFields
    BY AtWork
  <2>2. SameOp(t)
    BY <1>6, <2>1 DEF AsksLoader, WithLibrary, InLoader, opVars, Serves, SameOp, OpsInv, JobFields
  <2> QED BY <2>2, SameOpGives
<1>7. CASE Answered(t)
  <2>1. Return(t, [Nothing EXCEPT !.kind = "answer"]) \/ SameOp(t)
    BY <1>7 DEF Answered, SameOp
  <2> QED BY <1>2, <2>1, PlainResults, SameOpGives
<1>8. CASE CallReturns(t)
  BY <1>3, <1>8, CallReturnsAs, OpGives, SameOpGives
<1> QED BY <1>4, <1>5, <1>6, <1>7, <1>8 DEF Works

(* A step of one thread leaves the jobs and results of the others alone.   *)
LEMMA OnlyItsOwn ==
  ASSUME OpsInv, NEW t \in Threads, Start(t) \/ Works(t)
  PROVE  \A u \in Threads \ {t} : job'[u] = job[u] /\ out'[u] = out[u]
<1>1. Stepped(t)
  BY WorksOK
<1>2. \A u \in Threads \ {t} : out'[u] = out[u]
  BY DEF Start, Works, Refuses, ReturnsEmpty, RunsPortable, AsksLoader, InLoader, Answered,
         WithoutLibrary, WithoutSymbol, ReturnsEmptyLate, WithLibrary, CallReturns, ComputesOnHost,
         OpReturns, Throw, Return, opVars, OpsInv
<1> QED BY <1>1, <1>2 DEF Stepped

(* WeightsInv is inductive relative to OpsInv.                             *)
LEMMA WeightsStep ==
  ASSUME TilesReachTheirReader, OpsInv, WeightsInv, [Next]_vars
  PROVE  WeightsInv'
<1>1. CASE UNCHANGED opVars
  BY <1>1 DEF opVars, WeightsInv, TilesRead
<1>2. ASSUME NEW t \in Threads, Start(t) \/ Works(t) PROVE WeightsInv'
  <2>1. \A u \in Threads \ {t} : job'[u] = job[u] /\ out'[u] = out[u]
    BY <1>2, OnlyItsOwn
  <2>2. OwnWeights(out'[t]) /\ ReadsItsTile(job'[t])
    BY <1>2, StartGives, WorksGives
  <2> QED BY <2>1, <2>2 DEF WeightsInv, TilesRead
<1> QED BY <1>1, <1>2 DEF Next, vars

(* Whatever is multiplied by, or expanded, is every expert's own codes and *)
(* scales in the arrangement its reader assumes, with all shifts cancelled.*)
THEOREM ExpertsKeepTheirWeights ==
  ASSUME TilesReachTheirReader
  PROVE  Spec => []WeightsAreTheExperts
<1>1. Init => WeightsInv
  <2>1. ReadsItsTile(NoJob)
    BY DEF ReadsItsTile, NoJob, NoRequest
  <2> QED BY <2>1, PlainResults DEF Init, WeightsInv, TilesRead
<1>2. OpsInv /\ WeightsInv /\ [Next]_vars => WeightsInv'
  BY WeightsStep
<1>3. WeightsInv => WeightsAreTheExperts
  BY DEF WeightsInv, OwnWeights, WeightsAreTheExperts
<1> QED BY <1>1, <1>2, <1>3, OpsCorrect, PTL DEF Spec
-----------------------------------------------------------------------------
(* CountTo adds up the counts.                                             *)
LEMMA CountsAddUp ==
  ASSUME NEW r, r.rows \in Seq(Int)
  PROVE  /\ CountTo(r, 0) = 0 /\ \A e \in 0 .. Len(r.rows) : CountTo(r, e) \in Int
         /\ \A e \in 1 .. Len(r.rows) : CountTo(r, e) = CountTo(r, e - 1) + r.rows[e]
<1> DEFINE n == Len(r.rows)
           Def(u) == [i \in 0 .. n |-> IF i = 0 THEN 0 ELSE u[i - 1] + r.rows[i]]
           count == CHOOSE u : u = Def(u)
           turn == [i \in 1 .. n |-> [x \in Int |-> x + r.rows[i]]]
<1>1. PICK w : Iterates(w, Int, 0, turn, n)
  <2>1. turn \in [1 .. n -> [Int -> Int]] /\ n \in Nat /\ 0 \in Int
    OBVIOUS
  <2> HIDE DEF turn, n
  <2> QED BY <2>1, StepsRecur
<1>2. w \in [0 .. n -> Int] /\ w[0] = 0 /\ \A i \in 1 .. n : w[i] = turn[i][w[i - 1]]
  BY <1>1 DEF Iterates
<1>3. ASSUME NEW i \in 1 .. n PROVE w[i] = w[i - 1] + r.rows[i]
  <2>1. w[i - 1] \in Int
    BY <1>2
  <2> QED BY <1>2, <2>1
<1>4. w = Def(w)
  BY <1>2, <1>3
<1>5. count = Def(count)
  <2> HIDE DEF Def
  <2> QED BY <1>4
<1>6. \A e : CountTo(r, e) = count[e]
  BY DEF CountTo
<1>7. \A i \in 0 .. n : count[i] = IF i = 0 THEN 0 ELSE count[i - 1] + r.rows[i]
  <2> HIDE DEF count
  <2> QED BY <1>5
<1> HIDE DEF count
<1> DEFINE Sums == {i \in 0 .. n : count[i] \in Int}
<1>8. 0 .. n \subseteq Sums
  <2>1. 0 \in Sums
    <3>1. 0 \in 0 .. n
      OBVIOUS
    <3>2. count[0] = 0
      BY <1>7, <3>1
    <3> QED BY <3>1, <3>2
  <2>2. ASSUME NEW i \in 0 .. n - 1, i \in Sums PROVE i + 1 \in Sums
    <3>1. i + 1 \in 1 .. n /\ i + 1 \in 0 .. n /\ (i + 1) - 1 = i /\ i + 1 # 0
      OBVIOUS
    <3>2. count[i + 1] = count[i] + r.rows[i + 1]
      BY <1>7, <3>1
    <3> QED BY <2>2, <3>1, <3>2
  <2>3. n \in Nat
    OBVIOUS
  <2> HIDE DEF Sums, n
  <2> QED BY <2>1, <2>2, <2>3, CountUp
<1> QED BY <1>6, <1>7, <1>8

(* The row counts a grouped route may be given.                            *)
RowsGiven(r) == (\A e \in Experts(r) : r.rows[e] >= 0) /\ Total(r) = r.act

(* Row i is one of expert e's.                                             *)
Met(r, i, e) == e \in Experts(r) /\ CountTo(r, e - 1) < i /\ i <= CountTo(r, e)

(* The offsets never go down.                                              *)
LEMMA OffsetsRise ==
  ASSUME NEW r, r.rows \in Seq(Int), \A e \in Experts(r) : r.rows[e] >= 0,
         NEW f \in 0 .. Len(r.rows), NEW e \in 0 .. f
  PROVE  CountTo(r, e) <= CountTo(r, f)
<1> DEFINE c == [i \in 0 .. Len(r.rows) |-> CountTo(r, i)]
<1>1. PICK n \in Nat : n = Len(r.rows)
  OBVIOUS
<1>2. c \in [0 .. n -> Int] /\ \A i \in 0 .. n : c[i] = CountTo(r, i)
  BY <1>1, CountsAddUp
<1>3. ASSUME NEW i \in 0 .. n - 1 PROVE c[i] <= c[i + 1]
  <2>1. i + 1 \in 1 .. n /\ (i + 1) - 1 = i /\ i \in 0 .. n /\ i + 1 \in 0 .. n
    BY <1>1
  <2>2. CountTo(r, i + 1) = CountTo(r, i) + r.rows[i + 1]
    BY <1>1, <2>1, CountsAddUp
  <2>3. r.rows[i + 1] >= 0 /\ r.rows[i + 1] \in Int
    BY <1>1, <2>1 DEF Experts
  <2>4. CountTo(r, i) \in Int
    BY <1>1, <2>1, CountsAddUp
  <2>5. CountTo(r, i) <= CountTo(r, i + 1)
    BY <2>2, <2>3, <2>4
  <2> QED BY <1>2, <2>1, <2>5
<1>4. f \in 0 .. n /\ e \in 0 .. n
  BY <1>1
<1> HIDE DEF c
<1>5. c[e] <= c[f]
  BY <1>1, <1>2, <1>3, <1>4, Climbs
<1> QED BY <1>2, <1>4, <1>5

(* Every row is some expert's,                                             *)
LEMMA RowHasExpert ==
  ASSUME NEW r, r.rows \in Seq(Int), Total(r) = r.act, r.act \in Nat, NEW i \in 1 .. r.act
  PROVE  \E e : Met(r, i, e)
<1> DEFINE c == [j \in 0 .. Len(r.rows) |-> CountTo(r, j)]
<1>1. PICK n \in Nat : n = Len(r.rows)
  OBVIOUS
<1>2. c \in [0 .. n -> Int] /\ \A j \in 0 .. n : c[j] = CountTo(r, j)
  BY <1>1, CountsAddUp
<1>3. c[0] <= i - 1 /\ i - 1 < c[n] /\ i - 1 \in Int
  <2>1. CountTo(r, 0) = 0 /\ CountTo(r, n) = r.act
    BY <1>1, CountsAddUp DEF Total
  <2>2. 0 \in 0 .. n /\ n \in 0 .. n
    BY <1>1
  <2> QED BY <1>2, <2>1, <2>2
<1> HIDE DEF c
<1>4. PICK j \in 0 .. n - 1 : c[j] <= i - 1 /\ i - 1 < c[j + 1]
  BY <1>1, <1>2, <1>3, Passes
<1>5. j \in 0 .. n /\ j + 1 \in 0 .. n /\ j + 1 \in 1 .. n /\ (j + 1) - 1 = j
  BY <1>1, <1>4
<1>6. CountTo(r, j) \in Int /\ CountTo(r, j + 1) \in Int
  BY <1>1, <1>5, CountsAddUp
<1>7. CountTo(r, j) < i /\ i <= CountTo(r, j + 1)
  BY <1>2, <1>4, <1>5, <1>6
<1> QED BY <1>1, <1>5, <1>7 DEF Met, Experts

(* ... and of one only.                                                    *)
LEMMA RowHasOneExpert ==
  ASSUME NEW r, r.rows \in Seq(Int), \A x \in Experts(r) : r.rows[x] >= 0, NEW i \in Int,
         NEW e, Met(r, i, e), NEW f, Met(r, i, f)
  PROVE  e = f
<1>1. PICK n \in Nat : n = Len(r.rows)
  OBVIOUS
<1>2. ASSUME NEW a \in 1 .. n, NEW b \in 1 .. n, Met(r, i, a), Met(r, i, b), a < b
      PROVE  FALSE
  <2>1. b - 1 \in 0 .. n /\ a \in 0 .. b - 1 /\ a \in 0 .. n
    BY <1>2
  <2>2. CountTo(r, a) <= CountTo(r, b - 1)
    BY <1>1, <2>1, OffsetsRise
  <2>3. i <= CountTo(r, a) /\ CountTo(r, b - 1) < i
    BY <1>2 DEF Met
  <2>4. CountTo(r, a) \in Int /\ CountTo(r, b - 1) \in Int
    BY <1>1, <2>1, CountsAddUp
  <2> QED BY <2>2, <2>3, <2>4
<1>3. e \in 1 .. n /\ f \in 1 .. n
  BY <1>1 DEF Met, Experts
<1> QED BY <1>2, <1>3

(* The kernels' reading of the offsets.                                    *)
LEMMA OffsetsMeet ==
  ASSUME NEW r, r.rows \in Seq(Int), Total(r) = r.act, r.act \in Nat
  PROVE  /\ DOMAIN ByOffsets(r) = 1 .. r.act /\ ByOffsets(r) = [i \in 1 .. r.act |-> ByOffsets(r)[i]]
         /\ \A i \in 1 .. r.act : Met(r, i, ByOffsets(r)[i])
<1> DEFINE Between(i, e) == RowOffsets(r)[e] < i /\ i <= RowOffsets(r)[e + 1]
<1>1. ASSUME NEW e \in Experts(r)
      PROVE  RowOffsets(r)[e] = CountTo(r, e - 1) /\ RowOffsets(r)[e + 1] = CountTo(r, e)
  <2>1. PICK n \in Nat : n = Len(r.rows)
    OBVIOUS
  <2>2. e \in 1 .. n + 1 /\ e + 1 \in 1 .. n + 1 /\ (e + 1) - 1 = e
    BY <2>1 DEF Experts
  <2> QED BY <2>1, <2>2 DEF RowOffsets
<1>2. ByOffsets(r) = [i \in 1 .. r.act |-> CHOOSE e \in Experts(r) : Between(i, e)]
  BY DEF ByOffsets
<1>3. \A i, e : e \in Experts(r) => (Between(i, e) <=> Met(r, i, e))
  BY <1>1 DEF Met
<1>4. ASSUME NEW i \in 1 .. r.act PROVE Met(r, i, ByOffsets(r)[i])
  <2>1. \E e \in Experts(r) : Between(i, e)
    <3>1. PICK e : Met(r, i, e)
      BY RowHasExpert
    <3>2. e \in Experts(r)
      BY <3>1 DEF Met
    <3> HIDE DEF Between
    <3> QED BY <1>3, <3>1, <3>2
  <2> HIDE DEF Between
  <2>2. PICK x : x = CHOOSE e \in Experts(r) : Between(i, e)
    OBVIOUS
  <2>3. x \in Experts(r) /\ Between(i, x)
    BY <2>1, <2>2
  <2> QED BY <1>2, <1>3, <2>2, <2>3
<1> QED BY <1>2, <1>4
-----------------------------------------------------------------------------
(* What the loop has done when it is at expert e.                          *)
Walked(r) == [start : Int, row : [1 .. r.act -> Nat]]
WalkedTo(r, s, e) ==
  s \in Walked(r) /\ s.start = CountTo(r, e) /\ \A i \in 1 .. r.act : i <= s.start => Met(r, i, s.row[i])

(* One turn keeps the rows of the experts before, and gives e its own.     *)
LEMMA TurnMeets ==
  ASSUME NEW r, r.rows \in Seq(Int), r.act \in Nat, NEW e \in Experts(r), r.rows[e] >= 0, NEW s \in Walked(r)
  PROVE  /\ Turn(r, s, e) \in Walked(r)
         /\ WalkedTo(r, s, e - 1) => WalkedTo(r, Turn(r, s, e), e)
<1>1. PICK n \in Nat : n = Len(r.rows)
  OBVIOUS
<1>2. e \in 1 .. n /\ e \in Nat /\ r.rows[e] \in Int
  BY <1>1 DEF Experts
<1>3. PICK c \in Int : c = r.rows[e] /\ c >= 0
  BY <1>2
<1>4. s.start \in Int /\ s.row \in [1 .. r.act -> Nat]
  BY DEF Walked
<1> DEFINE row == [i \in 1 .. r.act |-> IF s.start < i /\ i <= s.start + c THEN e ELSE s.row[i]]
<1>5. row \in [1 .. r.act -> Nat]
  BY <1>2, <1>4
<1>6. Turn(r, s, e) = IF c = 0 THEN s ELSE [start |-> s.start + c, row |-> row]
  BY <1>3 DEF Turn
<1>7. \A i \in 1 .. r.act : row[i] = IF s.start < i /\ i <= s.start + c THEN e ELSE s.row[i]
  OBVIOUS
<1> HIDE DEF row
<1>8. Turn(r, s, e) \in Walked(r)
  BY <1>3, <1>4, <1>5, <1>6 DEF Walked
<1>9. ASSUME WalkedTo(r, s, e - 1) PROVE WalkedTo(r, Turn(r, s, e), e)
  <2>1. CountTo(r, e) = CountTo(r, e - 1) + c /\ CountTo(r, e - 1) \in Int
    <3>1. e - 1 \in 0 .. n
      BY <1>2
    <3> QED BY <1>1, <1>2, <1>3, <3>1, CountsAddUp
  <2>2. s.start = CountTo(r, e - 1) /\ \A i \in 1 .. r.act : i <= s.start => Met(r, i, s.row[i])
    BY <1>9 DEF WalkedTo
  <2>3. CASE c = 0
    <3>1. Turn(r, s, e) = s /\ CountTo(r, e) = CountTo(r, e - 1)
      BY <1>6, <2>1, <2>3
    <3> QED BY <1>8, <2>2, <3>1 DEF WalkedTo
  <2>4. CASE c # 0
    <3>1. Turn(r, s, e) = [start |-> s.start + c, row |-> row]
      BY <1>6, <2>4
    <3>2. Turn(r, s, e).start = CountTo(r, e) /\ Turn(r, s, e).row = row
      BY <2>1, <2>2, <3>1
    <3>3. ASSUME NEW i \in 1 .. r.act, i <= CountTo(r, e) PROVE Met(r, i, row[i])
      <4>1. CASE i <= CountTo(r, e - 1)
        <5>1. row[i] = s.row[i]
          BY <1>4, <1>7, <2>1, <2>2, <4>1
        <5> QED BY <2>2, <4>1, <5>1
      <4>2. CASE ~(i <= CountTo(r, e - 1))
        <5>1. CountTo(r, e - 1) < i /\ i <= CountTo(r, e - 1) + c
          BY <2>1, <3>3, <4>2
        <5>2. row[i] = e
          BY <1>7, <2>2, <5>1
        <5> QED BY <3>3, <5>1, <5>2 DEF Met
      <4> QED BY <4>1, <4>2
    <3> QED BY <1>8, <3>2, <3>3 DEF WalkedTo
  <2> QED BY <2>3, <2>4
<1> QED BY <1>8, <1>9

(* The loop of the route that expands the weights first.                   *)
LEMMA LoopMeets ==
  ASSUME NEW r, r.rows \in Seq(Int), r.act \in Nat, RowsGiven(r)
  PROVE  /\ ByLoop(r) = [i \in 1 .. r.act |-> ByLoop(r)[i]]
         /\ \A i \in 1 .. r.act : Met(r, i, ByLoop(r)[i])
<1> DEFINE base == [start |-> 0, row |-> [i \in 1 .. r.act |-> 0]]
           Def(u) == [e \in 0 .. Len(r.rows) |-> IF e = 0 THEN base ELSE Turn(r, u[e - 1], e)]
           walked == CHOOSE u : u = Def(u)
           turn == [e \in 1 .. Len(r.rows) |-> [s \in Walked(r) |-> Turn(r, s, e)]]
<1>1. PICK n \in Nat : n = Len(r.rows)
  OBVIOUS
<1>2. base \in Walked(r) /\ base.start = 0
  BY DEF Walked
<1>3. \A e \in 1 .. n : e \in Experts(r) /\ r.rows[e] >= 0
  BY <1>1 DEF RowsGiven, Experts
<1>4. \A e \in 1 .. n, s \in Walked(r) : Turn(r, s, e) \in Walked(r)
  BY <1>3, TurnMeets
<1>5. /\ turn \in [1 .. n -> [Walked(r) -> Walked(r)]]
      /\ \A e \in 1 .. n, s \in Walked(r) : turn[e][s] = Turn(r, s, e)
  BY <1>1, <1>4
<1>6. ByLoop(r) = walked[n].row
  BY <1>1 DEF ByLoop
<1>7. PICK w : Iterates(w, Walked(r), base, turn, n)
  <2> HIDE DEF turn, base
  <2> QED BY <1>1, <1>2, <1>5, StepsRecur
<1>8. w \in [0 .. n -> Walked(r)] /\ w[0] = base /\ \A e \in 1 .. n : w[e] = turn[e][w[e - 1]]
  BY <1>7 DEF Iterates
<1> HIDE DEF base, turn
<1>9. \A e \in 1 .. n : w[e] = Turn(r, w[e - 1], e)
  <2>1. \A e \in 1 .. n : e - 1 \in 0 .. n
    OBVIOUS
  <2> QED BY <1>5, <1>8, <2>1
<1>10. w = Def(w)
  <2>1. \A e \in 0 .. n : w[e] = IF e = 0 THEN base ELSE Turn(r, w[e - 1], e)
    BY <1>8, <1>9
  <2>2. w = [e \in 0 .. n |-> w[e]]
    BY <1>8
  <2> QED BY <1>1, <2>1, <2>2
<1>11. walked = Def(walked)
  <2> HIDE DEF Def
  <2> QED BY <1>10
<1>12. \A e \in 0 .. n : walked[e] = IF e = 0 THEN base ELSE Turn(r, walked[e - 1], e)
  <2> HIDE DEF walked
  <2> QED BY <1>1, <1>11
<1> HIDE DEF walked, Def
<1> DEFINE Good == {e \in 0 .. n : WalkedTo(r, walked[e], e)}
<1>13. 0 \in Good
  <2>1. walked[0] = base /\ 0 \in 0 .. n /\ CountTo(r, 0) = 0
    BY <1>12, CountsAddUp
  <2> QED BY <1>2, <2>1 DEF WalkedTo
<1>14. ASSUME NEW e \in 0 .. n - 1, e \in Good PROVE e + 1 \in Good
  <2>1. e + 1 \in 1 .. n /\ e + 1 \in 0 .. n /\ (e + 1) - 1 = e /\ e + 1 # 0
    OBVIOUS
  <2>2. walked[e + 1] = Turn(r, walked[e], e + 1)
    BY <1>12, <2>1
  <2>3. WalkedTo(r, walked[e], (e + 1) - 1) /\ walked[e] \in Walked(r)
    BY <1>14, <2>1 DEF WalkedTo
  <2>4. e + 1 \in Experts(r) /\ r.rows[e + 1] >= 0
    BY <1>3, <2>1
  <2>5. WalkedTo(r, Turn(r, walked[e], e + 1), e + 1)
    BY <2>3, <2>4, TurnMeets
  <2> QED BY <2>1, <2>2, <2>5
<1>15. 0 .. n \subseteq Good
  <2> HIDE DEF Good
  <2> QED BY <1>13, <1>14, CountUp
<1>16. WalkedTo(r, walked[n], n) /\ CountTo(r, n) = r.act
  BY <1>1, <1>15 DEF RowsGiven, Total
<1>17. /\ walked[n].start = r.act /\ walked[n].row \in [1 .. r.act -> Nat]
       /\ \A i \in 1 .. r.act : i <= walked[n].start => Met(r, i, walked[n].row[i])
  BY <1>16 DEF WalkedTo, Walked
<1>18. \A i \in 1 .. r.act : i <= walked[n].start
  BY <1>17
<1> QED BY <1>6, <1>17, <1>18
-----------------------------------------------------------------------------
(* The rows of the experts up to e, one after the other.                   *)
GatheredTo(r, s, e) ==
  s \in Seq(Nat) /\ Len(s) = CountTo(r, e) /\ \A i \in 1 .. Len(s) : Met(r, i, s[i])

(* The rows of the next expert come after the rows of those before.        *)
LEMMA OneMoreExpert ==
  ASSUME NEW r, r.rows \in Seq(Int), NEW e \in Experts(r), r.rows[e] >= 0,
         NEW s, GatheredTo(r, s, e - 1)
  PROVE  GatheredTo(r, s \o [i \in 1 .. r.rows[e] |-> e], e)
<1>1. PICK n \in Nat : n = Len(r.rows)
  OBVIOUS
<1>2. e \in 1 .. n /\ e - 1 \in 0 .. n /\ e \in Nat /\ r.rows[e] \in Int
  BY <1>1 DEF Experts
<1>3. PICK c \in Nat : c = r.rows[e]
  BY <1>2
<1>4. PICK b : b = [i \in 1 .. c |-> e]
  OBVIOUS
<1>5. b \in Seq(Nat) /\ Len(b) = c /\ \A i \in 1 .. c : b[i] = e
  BY <1>2, <1>4
<1>6. s \in Seq(Nat) /\ Len(s) \in Nat /\ Len(s) = CountTo(r, e - 1)
  BY DEF GatheredTo
<1>7. CountTo(r, e) = CountTo(r, e - 1) + c
  BY <1>1, <1>2, <1>3, CountsAddUp
<1>8. s \o b \in Seq(Nat) /\ Len(s \o b) = Len(s) + c
  <2>1. Len(s \o b) = Len(s) + Len(b) /\ s \o b \in Seq(Nat)
    <3> HIDE <1>4
    <3>1. s \in Seq(Nat) /\ b \in Seq(Nat)
      BY <1>5, <1>6
    <3> QED BY <3>1
  <2> QED BY <1>5, <2>1
<1>9. ASSUME NEW i \in 1 .. Len(s) + c PROVE Met(r, i, (s \o b)[i])
  <2>1. CASE i <= Len(s)
    <3>1. (s \o b)[i] = s[i]
      BY <1>5, <1>6, <2>1
    <3> QED BY <2>1, <3>1 DEF GatheredTo
  <2>2. CASE ~(i <= Len(s))
    <3>1. (s \o b)[i] = b[i - Len(s)] /\ i - Len(s) \in 1 .. c
      BY <1>5, <1>6, <2>2
    <3>2. (s \o b)[i] = e
      BY <1>5, <3>1
    <3>3. CountTo(r, e - 1) < i /\ i <= CountTo(r, e)
      BY <1>6, <1>7, <2>2
    <3> QED BY <3>2, <3>3 DEF Met
  <2> QED BY <2>1, <2>2
<1>10. GatheredTo(r, s \o b, e)
  BY <1>6, <1>7, <1>8, <1>9 DEF GatheredTo
<1> QED BY <1>3, <1>4, <1>10

(* The reference: the rows gathered into expert order.                     *)
LEMMA GatheredMeet ==
  ASSUME NEW r, r.rows \in Seq(Int), r.act \in Nat, RowsGiven(r), Grouped(r)
  PROVE  /\ GatheredRows(r) = [i \in 1 .. r.act |-> GatheredRows(r)[i]]
         /\ \A i \in 1 .. r.act : Met(r, i, GatheredRows(r)[i])
<1> DEFINE own == [e \in Experts(r) |-> [i \in 1 .. r.rows[e] |-> e]]
<1>1. PICK n \in Nat : n = Len(r.rows)
  OBVIOUS
<1>2. \A e \in 1 .. n : e \in Experts(r) /\ r.rows[e] >= 0 /\ r.rows[e] \in Int /\ e \in Nat
  BY <1>1 DEF RowsGiven, Experts
<1>3. own = [e \in 1 .. n |-> own[e]] /\ \A e \in 1 .. n : own[e] = [i \in 1 .. r.rows[e] |-> e]
  BY <1>1 DEF Experts
<1>4. \A e \in 1 .. n : own[e] \in Seq(Nat)
  BY <1>2, <1>3
<1>5. own \in Seq(Seq(Nat)) /\ Len(own) = n
  <2> HIDE DEF own
  <2> QED BY <1>3, <1>4
<1>6. GatheredRows(r) = FlattenSeq(own)
  BY DEF GatheredRows
<1> HIDE DEF own
<1>7. CountTo(r, 0) = 0 /\ CountTo(r, n) = r.act
  BY <1>1, CountsAddUp DEF RowsGiven, Total
<1>8. CASE n = 0
  <2>1. FlattenSeq(own) = own /\ r.act = 0
    BY <1>5, <1>7, <1>8 DEF FlattenSeq
  <2>2. own = <<>>
    BY <1>5, <1>8
  <2>3. 1 .. r.act = {}
    BY <2>1
  <2> QED BY <1>6, <2>1, <2>2, <2>3
<1>9. CASE n # 0
  <2> DEFINE Def(u) == [e \in 1 .. Len(own) |-> IF e = 1 THEN own[e] ELSE u[e - 1] \o own[e]]
             flatten == CHOOSE u : u = Def(u)
             turn == [e \in 1 .. n |-> [s \in Seq(Nat) |-> s \o own[e]]]
  <2>1. FlattenSeq(own) = flatten[n]
    BY <1>5, <1>9 DEF FlattenSeq
  <2>2. \A e \in 1 .. n, s \in Seq(Nat) : s \o own[e] \in Seq(Nat)
    BY <1>4
  <2>3. /\ turn \in [1 .. n -> [Seq(Nat) -> Seq(Nat)]]
        /\ \A e \in 1 .. n, s \in Seq(Nat) : turn[e][s] = s \o own[e]
    BY <2>2
  <2>4. PICK w : Iterates(w, Seq(Nat), <<>>, turn, n)
    <3>1. <<>> \in Seq(Nat)
      OBVIOUS
    <3> HIDE DEF turn
    <3> QED BY <2>3, <3>1, StepsRecur
  <2>5. w \in [0 .. n -> Seq(Nat)] /\ w[0] = <<>> /\ \A e \in 1 .. n : w[e] = turn[e][w[e - 1]]
    BY <2>4 DEF Iterates
  <2> HIDE DEF turn
  <2>6. ASSUME NEW e \in 1 .. n PROVE w[e] = w[e - 1] \o own[e]
    <3>1. w[e - 1] \in Seq(Nat)
      BY <2>5
    <3> QED BY <2>3, <2>5, <3>1
  <2> DEFINE v == [e \in 1 .. n |-> w[e]]
  <2>7. v = Def(v)
    <3>1. ASSUME NEW e \in 1 .. n PROVE w[e] = IF e = 1 THEN own[e] ELSE v[e - 1] \o own[e]
      <4>1. CASE e = 1
        <5>1. e - 1 = 0
          BY <4>1
        <5>2. w[e] = <<>> \o own[e] /\ own[e] \in Seq(Nat)
          BY <1>4, <2>5, <2>6, <5>1
        <5> QED BY <4>1, <5>2
      <4>2. CASE e # 1
        <5>1. v[e - 1] = w[e - 1]
          BY <4>2
        <5> HIDE DEF v
        <5> QED BY <2>6, <4>2, <5>1
      <4> QED BY <4>1, <4>2
    <3> QED BY <1>5, <3>1
  <2> HIDE DEF v
  <2>8. flatten = Def(flatten)
    <3> HIDE DEF Def
    <3> QED BY <2>7
  <2>9. \A e \in 1 .. n : flatten[e] = IF e = 1 THEN own[e] ELSE flatten[e - 1] \o own[e]
    <3> HIDE DEF flatten
    <3> QED BY <1>5, <2>8
  <2> HIDE DEF flatten, Def
  <2> DEFINE Good == {e \in 0 .. n : e = 0 \/ GatheredTo(r, flatten[e], e)}
  <2>10. 0 \in Good
    OBVIOUS
  <2>11. ASSUME NEW e \in 0 .. n - 1, e \in Good PROVE e + 1 \in Good
    <3>1. e + 1 \in 1 .. n /\ e + 1 \in 0 .. n /\ (e + 1) - 1 = e
      OBVIOUS
    <3>2. PICK s : s = IF e = 0 THEN <<>> ELSE flatten[e]
      OBVIOUS
    <3>3. flatten[e + 1] = s \o own[e + 1]
      <4>1. CASE e = 0
        <5>1. flatten[1] = own[1] /\ own[1] \in Seq(Nat) /\ s = <<>>
          BY <1>4, <2>9, <3>1, <3>2, <4>1
        <5> QED BY <4>1, <5>1
      <4>2. CASE e # 0
        <5>1. e + 1 # 1
          BY <4>2
        <5> QED BY <2>9, <3>1, <3>2, <4>2, <5>1
      <4> QED BY <4>1, <4>2
    <3>4. GatheredTo(r, s, (e + 1) - 1)
      <4>1. CASE e = 0
        <5>1. s = <<>> /\ (e + 1) - 1 = 0
          BY <3>2, <4>1
        <5>2. GatheredTo(r, <<>>, 0)
          BY <1>7 DEF GatheredTo
        <5> QED BY <5>1, <5>2
      <4>2. CASE e # 0
        BY <2>11, <3>1, <3>2, <4>2
      <4> QED BY <4>1, <4>2
    <3>5. e + 1 \in Experts(r) /\ r.rows[e + 1] >= 0 /\ own[e + 1] = [i \in 1 .. r.rows[e + 1] |-> e + 1]
      BY <1>2, <1>3, <3>1
    <3>6. GatheredTo(r, s \o [i \in 1 .. r.rows[e + 1] |-> e + 1], e + 1)
      BY <3>4, <3>5, OneMoreExpert
    <3> QED BY <3>1, <3>3, <3>5, <3>6
  <2>12. 0 .. n \subseteq Good
    <3> HIDE DEF Good
    <3> QED BY <2>10, <2>11, CountUp
  <2>13. GatheredTo(r, flatten[n], n)
    BY <1>9, <2>12
  <2>14. /\ flatten[n] \in Seq(Nat) /\ Len(flatten[n]) = r.act
         /\ \A i \in 1 .. r.act : Met(r, i, flatten[n][i])
    BY <1>7, <2>13 DEF GatheredTo
  <2>15. flatten[n] = [i \in 1 .. r.act |-> flatten[n][i]]
    BY <2>14
  <2> QED BY <1>6, <2>1, <2>14, <2>15
<1> QED BY <1>8, <1>9

(* Both ways of finding a row's expert find the one it was gathered for.   *)
LEMMA RowsAgree ==
  ASSUME NEW r, r.rows \in Seq(Int), r.act \in Nat, RowsGiven(r), Grouped(r)
  PROVE  ByOffsets(r) = GatheredRows(r) /\ ByLoop(r) = GatheredRows(r)
<1>1. ASSUME NEW f, f = [i \in 1 .. r.act |-> f[i]], \A i \in 1 .. r.act : Met(r, i, f[i])
      PROVE  f = GatheredRows(r)
  <2> DEFINE g == GatheredRows(r)
  <2>1. g = [i \in 1 .. r.act |-> g[i]] /\ \A i \in 1 .. r.act : Met(r, i, g[i])
    BY GatheredMeet
  <2>2. ASSUME NEW i \in 1 .. r.act PROVE f[i] = g[i]
    <3> HIDE DEF g
    <3>1. Met(r, i, f[i])
      BY <1>1
    <3>2. Met(r, i, g[i])
      BY <2>1
    <3>3. i \in Int
      OBVIOUS
    <3> QED BY <3>1, <3>2, <3>3, RowHasOneExpert DEF RowsGiven
  <2> HIDE DEF g
  <2>3. f = g
    BY <1>1, <2>1, <2>2
  <2> QED BY <2>3 DEF g
<1>2. Total(r) = r.act
  BY DEF RowsGiven
<1> QED BY <1>1, <1>2, OffsetsMeet, LoopMeets
-----------------------------------------------------------------------------
(* No row count given to the loop is negative. The caller's to see to: the *)
(* loop, unlike every op that takes offsets, only adds them up.            *)
LoopCountsAreCounts ==
  \A t \in Threads : \A w \in Work[t] :
    w.route = "dequant_first" /\ Grouped(w.req) =>
      \A e \in Experts(w.req) : w.req.rows[e] >= 0

(* The ops that check the counts, or offsets, they are given.              *)
CountingOps ==
  {"gguf_vecdot_moe", "gguf_gemv_scale_first", "gguf_gemv_bc", "gguf_grouped_fully_quantized"}

(* An op of the job that gives rows has counts that are the rows', or will *)
(* see to it itself.                                                       *)
CountsHold(j) ==
  Grouped(j.req) /\ ~RowsGiven(j.req) =>
    \A i \in DOMAIN j.ops : Multiplies(j.ops[i]) => j.ops[i] \in CountingOps

(* A result in rows is one row of every expert's share after the other.    *)
MeetsItsExperts(result) == result.kind = "rows" => result.rows = GatheredRows(result.req)
RowsInv ==
  /\ \A t \in Threads : CountsHold(job[t])
  /\ \A t \in Threads : MeetsItsExperts(out[t])

(* Results that hold no rows.                                              *)
LEMMA RowlessResults ==
  /\ MeetsItsExperts(Nothing) /\ MeetsItsExperts(Threw)
  /\ MeetsItsExperts([Nothing EXCEPT !.kind = "answer"])
  /\ \A w : MeetsItsExperts([Nothing EXCEPT !.kind = "scales", !.weights = w])
  /\ \A w : MeetsItsExperts([Nothing EXCEPT !.kind = "weights", !.weights = w])
  /\ CountsHold(NoJob)
BY DEF MeetsItsExperts, Nothing, Threw, CountsHold, NoJob, NoRequest, Grouped

(* What an op that counts has seen to before it goes on.                   *)
LEMMA OpsCount ==
  ASSUME NEW o \in CountingOps, NEW r \in Request, Op(o, r).ok, Grouped(r)
  PROVE  RowsGiven(r)
<1> USE DEF Op, OnLibrary, RowsGiven, OffsetsSpan, RowsSpan
<1>1. CASE o = "gguf_vecdot_moe"
  BY <1>1 DEF VecdotMoe
<1>2. CASE o = "gguf_gemv_scale_first"
  BY <1>2 DEF GemvScaleFirst
<1>3. CASE o = "gguf_gemv_bc"
  BY <1>3 DEF GemvBc
<1>4. CASE o = "gguf_grouped_fully_quantized"
  BY <1>4 DEF GroupedFullyQuantized
<1> QED BY <1>1, <1>2, <1>3, <1>4 DEF CountingOps

(* Only ops that give rows return early because there are none.            *)
LEMMA EmptyMultiplies ==
  ASSUME NEW o \in OpNames, NEW r, Op(o, r).empty \in {"early", "late"}
  PROVE  Multiplies(o)
<1> USE DEF Op, OnLibrary, OnHost
<1>1. CASE o \in {"gguf_scale_prepass", "gguf_packed_scale_prepass"}
  BY <1>1 DEF ScalePrepass, PackedScalePrepass
<1>2. CASE Places(o)
  BY <1>2 DEF Places, PrepareDense, PrepareFullyQuantizedDense, PrepareFullyQuantizedGrouped
<1>3. CASE o \in {"gguf_artifact_dequantize", "gguf_artifact_dequantize_for_tile"}
  BY <1>3 DEF PlacedDequantize
<1>4. CASE o \in {"gguf_prepare_gemv", "gguf_gemv_artifact_dequantize", "gguf_unpack", "gguf_pack_unit",
                  "gguf_q4_artifact_dequantize"}
  BY <1>4 DEF PrepareGemv, GemvDequantize, UnpackAndPreprocess, PackUnit, Q4ArtifactDequantize
<1> QED BY <1>1, <1>2, <1>3, <1>4 DEF OpNames, Multiplies, Places

(* A route has checked the counts, or goes to an op that does.             *)
LEMMA RoutesCount ==
  ASSUME NEW name \in Routes, NEW r \in Request, Route(name, r).ok, Grouped(r),
         name \notin UngroupedRoutes,
         name = "dequant_first" => \A e \in Experts(r) : r.rows[e] >= 0,
         NEW i \in DOMAIN Route(name, r).ops, Multiplies(Route(name, r).ops[i])
  PROVE  Route(name, r).ops[i] \in CountingOps \/ RowsGiven(r)
<1> USE DEF Route, Through, RawRoutes, ScaleFirstRoutes, FullyQuantizedRoutes, PublicOps, UngroupedRoutes
<1> DEFINE ops == Route(name, r).ops
<1>0. i \in DOMAIN ops /\ Multiplies(ops[i])
  OBVIOUS
<1>1. CASE name = "dequant_first"
  BY <1>1 DEF RawRoute, RowsSpan, RowsGiven
<1>2. CASE name = "native_gemv_moe"
  <2>1. ops = <<"gguf_vecdot_moe">>
    BY <1>2 DEF RawRoute
  <2>2. ops[i] \in {"gguf_vecdot_moe"}
    <3> HIDE DEF ops
    <3> QED BY <1>0, <2>1
  <2> QED BY <1>0, <2>2 DEF CountingOps, Multiplies
<1>3. CASE name = "scale_first_gemv"
  <2>1. ops = <<"gguf_prepare_gemv", "gguf_gemv_scale_first">>
    BY <1>3 DEF ScaleFirstRoute
  <2>2. ops[i] \in {"gguf_prepare_gemv", "gguf_gemv_scale_first"}
    <3> HIDE DEF ops
    <3> QED BY <1>0, <2>1
  <2> QED BY <1>0, <2>2 DEF CountingOps, Multiplies
<1>4. CASE name = "dequantize_scale_first"
  <2>1. ops = <<"gguf_prepare_gemv", "gguf_gemv_artifact_dequantize">>
    BY <1>4 DEF ScaleFirstRoute
  <2>2. ops[i] \in {"gguf_prepare_gemv", "gguf_gemv_artifact_dequantize"}
    <3> HIDE DEF ops
    <3> QED BY <1>0, <2>1
  <2> QED BY <1>0, <2>2 DEF CountingOps, Multiplies
<1>5. CASE name \in {"fully_quantized_dense", "fully_quantized_grouped"}
  <2>1. ops = <<"gguf_prepare_fully_quantized_grouped", "gguf_grouped_fully_quantized">>
    BY <1>5 DEF FullyQuantizedRoute
  <2>2. ops[i] \in {"gguf_prepare_fully_quantized_grouped", "gguf_grouped_fully_quantized"}
    <3> HIDE DEF ops
    <3> QED BY <1>0, <2>1
  <2> QED BY <1>0, <2>2 DEF CountingOps, Multiplies
<1>6. CASE name = "bc_gemv"
  <2>1. ops = <<"gguf_prepare_fully_quantized_grouped", "gguf_gemv_bc">>
    BY <1>6 DEF FullyQuantizedRoute
  <2>2. ops[i] \in {"gguf_prepare_fully_quantized_grouped", "gguf_gemv_bc"}
    <3> HIDE DEF ops
    <3> QED BY <1>0, <2>1
  <2> QED BY <1>0, <2>2 DEF CountingOps, Multiplies
<1>7. CASE name = "dequantize_fully_quantized"
  <2>1. ops = <<"gguf_prepare_fully_quantized_grouped", "gguf_packed_scale_prepass",
                "gguf_artifact_dequantize">>
    BY <1>7 DEF FullyQuantizedRoute
  <2>2. ops[i] \in {"gguf_prepare_fully_quantized_grouped", "gguf_packed_scale_prepass", "gguf_artifact_dequantize"}
    <3> HIDE DEF ops
    <3> QED BY <1>0, <2>1
  <2> QED BY <1>0, <2>2 DEF CountingOps, Multiplies
<1>8. CASE name = "dequantize_for_tile"
  <2>1. ops = <<"gguf_prepare_fully_quantized_grouped", "gguf_packed_scale_prepass",
                "gguf_artifact_dequantize_for_tile">>
    BY <1>8 DEF FullyQuantizedRoute
  <2>2. ops[i] \in {"gguf_prepare_fully_quantized_grouped", "gguf_packed_scale_prepass", "gguf_artifact_dequantize_for_tile"}
    <3> HIDE DEF ops
    <3> QED BY <1>0, <2>1
  <2> QED BY <1>0, <2>2 DEF CountingOps, Multiplies
<1> QED BY <1>1, <1>2, <1>3, <1>4, <1>5, <1>6, <1>7, <1>8 DEF Routes
-----------------------------------------------------------------------------
(* The rows a job's op gives, when its counts are the rows'.               *)
LEMMA RowsAreGathered ==
  ASSUME NEW o, NEW r \in Request, Grouped(r) => RowsGiven(r)
  PROVE  /\ RowsMet(o, r) = GatheredRows(r)
         /\ r.act = 0 => GatheredRows(r) = <<>>
<1>1. r.rows \in Seq(Int) /\ r.act \in Nat
  BY DEF Request
<1>2. CASE Grouped(r)
  <2>1. RowsGiven(r)
    BY <1>2
  <2>2. RowsMet(o, r) = GatheredRows(r)
    BY <1>1, <1>2, <2>1, RowsAgree DEF RowsMet
  <2>3. ASSUME r.act = 0 PROVE GatheredRows(r) = <<>>
    <3>1. PICK g : g = GatheredRows(r)
      OBVIOUS
    <3>2. g = [i \in 1 .. r.act |-> g[i]]
      BY <1>1, <1>2, <2>1, <3>1, GatheredMeet
    <3>3. g = <<>>
      BY <2>3, <3>2
    <3> QED BY <3>1, <3>3
  <2> QED BY <2>2, <2>3
<1>3. CASE ~Grouped(r)
  <2>1. RowsMet(o, r) = [i \in 1 .. r.act |-> 1] /\ GatheredRows(r) = [i \in 1 .. r.act |-> 1]
    BY <1>3 DEF RowsMet, GatheredRows
  <2> QED BY <2>1
<1> QED BY <1>2, <1>3

(* The op a job is at gives rows to the experts they are meant for.        *)
LEMMA JobMeets ==
  ASSUME NEW a, NEW j, NEW f, NEW lib, Serving(a, j, f, lib), CountsHold(j),
         Op(Head(j.ops), j.req).ok, Multiplies(Head(j.ops))
  PROVE  /\ RowsMet(Head(j.ops), j.req) = GatheredRows(j.req)
         /\ j.req.act = 0 => GatheredRows(j.req) = <<>>
<1>0. PICK o : o = Head(j.ops)
  OBVIOUS
<1>1. PICK r \in Request : o = Head(j.ops) /\ r = j.req
  BY <1>0 DEF Serving
<1>2. j.ops \in Seq(OpNames) /\ Len(j.ops) > 0
  BY DEF Serving, Chain
<1>3. 1 \in DOMAIN j.ops /\ o = j.ops[1]
  BY <1>1, <1>2
<1>4. ASSUME Grouped(r) PROVE RowsGiven(r)
  <2>1. Op(o, r).ok
    BY <1>1
  <2>2. ~RowsGiven(r) => o \in CountingOps
    BY <1>1, <1>3, <1>4 DEF CountsHold
  <2> QED BY <1>4, <2>1, <2>2, OpsCount
<1> QED BY <1>1, <1>4, RowsAreGathered

(* What holds of a route's ops holds of the rest of them.                  *)
LEMMA CountsTail ==
  ASSUME NEW j, NEW k, Chain(j.ops), CountsHold(j),
         k.req = j.req, k.ops = j.ops \/ (Len(j.ops) # 1 /\ k.ops = Tail(j.ops))
  PROVE  CountsHold(k)
<1>1. CASE k.ops = j.ops
  BY <1>1 DEF CountsHold
<1>2. CASE Len(j.ops) # 1 /\ k.ops = Tail(j.ops)
  <2>1. /\ Len(j.ops) \in Nat /\ DOMAIN j.ops = 1 .. Len(j.ops)
        /\ DOMAIN Tail(j.ops) = 1 .. Len(j.ops) - 1
        /\ \A i \in 1 .. Len(j.ops) - 1 : Tail(j.ops)[i] = j.ops[i + 1]
    BY <1>2 DEF Chain
  <2> QED BY <1>2, <2>1 DEF CountsHold
<1> QED BY <1>1, <1>2

(* An op that ends gives its rows to their experts, or the route goes on.  *)
LEMMA OpMeets ==
  ASSUME OpsInv, RowsInv, NEW t \in Threads, OpEnds(t)
  PROVE  MeetsItsExperts(out'[t]) /\ CountsHold(job'[t])
<1>1. PICK art :
        /\ at[t] \in {"op", "decide", "call"} /\ Spec1(t).ok /\ OpReturns(t, art)
  BY DEF OpEnds
<1>2. PICK j, f, lib, a : j = job[t] /\ f = asked[t] /\ lib = seen[t][Default] /\ a = at[t]
  OBVIOUS
<1>3. Serving(a, j, f, lib) /\ DOMAIN j = JobFields
  BY <1>1, <1>2, AtWork
<1>4. PICK o, r : o = Head(j.ops) /\ r = j.req
  OBVIOUS
<1>5. Now(t) = o /\ Req(t) = r
  BY <1>2, <1>4 DEF Now, Req
<1>6. CountsHold(j) /\ MeetsItsExperts(out[t]) /\ Chain(j.ops) /\ Op(o, r).ok
  BY <1>1, <1>2, <1>3, <1>5 DEF RowsInv, Serving, Spec1
<1>7. CASE Multiplies(o)
  <2>1. PICK w : w = Weights(o, r, art)
    OBVIOUS
  <2>2. out'[t] = Rows(r, RowsMet(o, r), w) /\ job'[t] = NoJob
    BY <1>1, <1>5, <1>7, <2>1 DEF OpReturns, Return, Serves, OpsInv
  <2>3. out'[t].rows = RowsMet(o, r) /\ out'[t].req = r
    BY <2>2 DEF Rows
  <2>4. RowsMet(o, r) = GatheredRows(r)
    BY <1>3, <1>4, <1>6, <1>7, JobMeets
  <2> QED BY <2>2, <2>3, <2>4, RowlessResults DEF MeetsItsExperts
<1>8. CASE ~Multiplies(o) /\ Expands(o)
  <2>1. PICK w : w = Weights(o, r, art)
    OBVIOUS
  <2>2. out'[t] = [Nothing EXCEPT !.kind = "weights", !.weights = w] /\ job'[t] = NoJob
    BY <1>1, <1>5, <1>8, <2>1 DEF OpReturns, Return, Serves, OpsInv
  <2> QED BY <2>2, RowlessResults
<1>9. CASE ~Multiplies(o) /\ ~Expands(o)
  <2>1. \/ Return(t, [Nothing EXCEPT !.kind = "scales", !.weights = <<art>>])
        \/ /\ Len(j.ops) # 1 /\ UNCHANGED out
           /\ Serves(t, [job[t] EXCEPT !.ops = Tail(@), !.stage = 1, !.art = art])
    BY <1>1, <1>2, <1>5, <1>9 DEF OpReturns
  <2>2. CASE Return(t, [Nothing EXCEPT !.kind = "scales", !.weights = <<art>>])
    BY <2>2, RowlessResults DEF Return, Serves, OpsInv
  <2>3. CASE /\ Len(j.ops) # 1 /\ UNCHANGED out
             /\ Serves(t, [job[t] EXCEPT !.ops = Tail(@), !.stage = 1, !.art = art])
    <3>1. PICK k : k = job'[t]
      OBVIOUS
    <3>2. k.req = j.req /\ k.ops = Tail(j.ops)
      BY <1>2, <1>3, <2>3, <3>1 DEF Serves, OpsInv, JobFields
    <3>3. CountsHold(k)
      BY <1>6, <2>3, <3>2, CountsTail
    <3> QED BY <1>6, <2>3, <3>1, <3>3
  <2> QED BY <2>1, <2>2, <2>3
<1> QED BY <1>7, <1>8, <1>9

(* An op that has no rows gives none, and none were meant for anyone.      *)
LEMMA EmptyMeets ==
  ASSUME OpsInv, RowsInv, NEW t \in Threads, ReturnsEmpty(t) \/ ReturnsEmptyLate(t)
  PROVE  MeetsItsExperts(out'[t]) /\ CountsHold(job'[t])
<1>1. PICK j, f, lib, a : j = job[t] /\ f = asked[t] /\ lib = seen[t][Default] /\ a = at[t]
  OBVIOUS
<1>2. Serving(a, j, f, lib)
  BY <1>1, AtWork DEF ReturnsEmpty, ReturnsEmptyLate
<1>3. PICK o \in OpNames, r \in Request : o = Head(j.ops) /\ r = j.req
  BY <1>2, ChainTail DEF Serving
<1>4. Op(o, r).ok /\ Op(o, r).empty \in {"early", "late"} /\ r.act = 0
  <2>1. Spec1(t) = Op(o, r) /\ Req(t) = r
    BY <1>1, <1>3 DEF Spec1, Now, Req
  <2>2. CASE ReturnsEmpty(t)
    BY <2>1, <2>2 DEF ReturnsEmpty
  <2>3. CASE ReturnsEmptyLate(t)
    <3>1. a # "op"
      BY <1>1, <2>3 DEF ReturnsEmptyLate
    <3>2. Op(o, r).ok
      BY <1>2, <1>3, <3>1 DEF Serving
    <3> QED BY <2>1, <2>3, <3>2 DEF ReturnsEmptyLate
  <2> QED BY <2>2, <2>3
<1>5. GatheredRows(r) = <<>>
  <2>1. CountsHold(j) /\ Multiplies(o)
    BY <1>1, <1>4, EmptyMultiplies DEF RowsInv
  <2> QED BY <1>2, <1>3, <1>4, <2>1, JobMeets
<1>6. out'[t] = Rows(r, <<>>, <<>>) /\ job'[t] = NoJob
  BY <1>1, <1>3 DEF ReturnsEmpty, ReturnsEmptyLate, Return, Serves, Req, OpsInv
<1>7. out'[t].rows = <<>> /\ out'[t].req = r
  BY <1>6 DEF Rows
<1> QED BY <1>5, <1>6, <1>7, RowlessResults DEF MeetsItsExperts

(* A step that leaves the op, its request and the result as they are.      *)
LEMMA SameOpMeets ==
  ASSUME RowsInv, NEW t \in Threads, SameOp(t)
  PROVE  MeetsItsExperts(out'[t]) /\ CountsHold(job'[t])
BY DEF SameOp, RowsInv, CountsHold

(* A call that starts has been counted, or will be.                        *)
LEMMA StartCounts ==
  ASSUME LoopCountsAreCounts, OpsInv, RowsInv, NEW t \in Threads, Start(t)
  PROVE  MeetsItsExperts(out'[t]) /\ CountsHold(job'[t])
<1>1. job[t] = NoJob /\ DOMAIN NoJob = JobFields
  BY DEF Start, OpsInv, JobInv, JobOK, NoJob, JobFields
<1>2. out'[t] \in {Nothing, Threw}
  BY DEF Start, OpsInv
<1>3. PICK w \in Work[t] :
        \/ w.route = "load_format" /\ job'[t] = [NoJob EXCEPT !.route = w.route]
        \/ /\ w.route # "load_format" /\ Route(w.route, w.req).ok
           /\ job'[t] = [NoJob EXCEPT !.route = w.route, !.req = w.req, !.art = Blocks(w.req),
                                      !.ops = Route(w.route, w.req).ops]
        \/ job'[t] = job[t]
  BY DEF Start, Serves, OpsInv
<1>4. CountsHold(job'[t])
  <2>1. CASE w.route = "load_format" /\ job'[t] = [NoJob EXCEPT !.route = w.route]
    BY <2>1, RowlessResults DEF CountsHold, NoJob
  <2>2. CASE /\ w.route # "load_format" /\ Route(w.route, w.req).ok
             /\ job'[t] = [NoJob EXCEPT !.route = w.route, !.req = w.req, !.art = Blocks(w.req),
                                        !.ops = Route(w.route, w.req).ops]
    <3>1. job'[t].req = w.req /\ job'[t].ops = Route(w.route, w.req).ops
      BY <1>1, <2>2 DEF JobFields
    <3>2. PICK name \in Routes, r \in Request : name = w.route /\ r = w.req
      BY <2>2, WorkAssumption
    <3>3. /\ name \in UngroupedRoutes => ~Grouped(r)
          /\ name = "dequant_first" /\ Grouped(r) => \A e \in Experts(r) : r.rows[e] >= 0
      BY <2>2, <3>2, WorkAssumption DEF LoopCountsAreCounts
    <3>4. ASSUME Grouped(r), ~RowsGiven(r), NEW i \in DOMAIN Route(name, r).ops,
                 Multiplies(Route(name, r).ops[i])
          PROVE  Route(name, r).ops[i] \in CountingOps
      BY <2>2, <3>2, <3>3, <3>4, RoutesCount
    <3> QED BY <3>1, <3>2, <3>4 DEF CountsHold
  <2>3. CASE job'[t] = job[t]
    BY <1>1, <2>3, RowlessResults
  <2> QED BY <1>3, <2>1, <2>2, <2>3
<1> QED BY <1>2, <1>4, RowlessResults

(* Whatever a thread hands back has each row meet its expert.              *)
LEMMA WorksMeet ==
  ASSUME OpsInv, RowsInv, NEW t \in Threads, Works(t)
  PROVE  MeetsItsExperts(out'[t]) /\ CountsHold(job'[t])
<1>1. ASSUME NEW result, Return(t, result), MeetsItsExperts(result)
      PROVE  MeetsItsExperts(out'[t]) /\ CountsHold(job'[t])
  BY <1>1, RowlessResults DEF Return, Serves, OpsInv
<1>2. CASE Throw(t)
  BY <1>1, <1>2, RowlessResults DEF Throw
<1>3. CASE ReturnsEmpty(t) \/ ReturnsEmptyLate(t)
  BY <1>3, EmptyMeets
<1>4. CASE RunsPortable(t) \/ WithoutLibrary(t) \/ WithoutSymbol(t)
  BY <1>2, <1>4, HostEnds, OpMeets
<1>5. CASE AsksLoader(t) \/ WithLibrary(t) \/ InLoader(t)
  <2>1. at[t] \in {"op", "decide"} => DOMAIN job[t] = JobFields
    BY AtWork
  <2>2. SameOp(t)
    BY <1>5, <2>1 DEF AsksLoader, WithLibrary, InLoader, opVars, Serves, SameOp, OpsInv, JobFields
  <2> QED BY <2>2, SameOpMeets
<1>6. CASE Answered(t)
  <2>1. Return(t, [Nothing EXCEPT !.kind = "answer"]) \/ SameOp(t)
    BY <1>6 DEF Answered, SameOp
  <2> QED BY <1>1, <2>1, RowlessResults, SameOpMeets
<1>7. CASE CallReturns(t)
  BY <1>2, <1>7, CallReturnsAs, OpMeets, SameOpMeets
<1>8. CASE Refuses(t)
  BY <1>2, <1>8 DEF Refuses
<1> QED BY <1>3, <1>4, <1>5, <1>6, <1>7, <1>8 DEF Works

(* RowsInv is inductive relative to OpsInv.                                *)
LEMMA RowsStep ==
  ASSUME LoopCountsAreCounts, OpsInv, RowsInv, [Next]_vars
  PROVE  RowsInv'
<1>1. CASE UNCHANGED opVars
  BY <1>1 DEF opVars, RowsInv
<1>2. ASSUME NEW t \in Threads, Start(t) \/ Works(t) PROVE RowsInv'
  <2>1. \A u \in Threads \ {t} : job'[u] = job[u] /\ out'[u] = out[u]
    BY <1>2, OnlyItsOwn
  <2>2. MeetsItsExperts(out'[t]) /\ CountsHold(job'[t])
    BY <1>2, StartCounts, WorksMeet
  <2> QED BY <2>1, <2>2 DEF RowsInv
<1> QED BY <1>1, <1>2 DEF Next, vars

(* A grouped route that returns gives every activation row the weights of  *)
(* the expert it was routed to: the counts a route or its op has checked   *)
(* are cut up alike by the offsets, by the loop and by the gathering.      *)
THEOREM RowsReachTheirExperts ==
  ASSUME LoopCountsAreCounts
  PROVE  Spec => []RowsMeetTheirExpert
<1>1. Init => RowsInv
  BY RowlessResults DEF Init, RowsInv
<1>2. OpsInv /\ RowsInv /\ [Next]_vars => RowsInv'
  BY RowsStep
<1>3. RowsInv => RowsMeetTheirExpert
  BY DEF RowsInv, MeetsItsExperts, RowsMeetTheirExpert
<1> QED BY <1>1, <1>2, <1>3, OpsCorrect, PTL DEF Spec
=============================================================================
