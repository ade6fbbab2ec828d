---------------------------- MODULE MixedPipeline ----------------------------
(***************************************************************************)
(* The stage-ring mainloop of one CTA: the prologue of a mixed-input       *)
(* collective and run_mixed_pipeline, executed by every thread, with the   *)
(* per-thread cp.async groups and the CTA barrier.                         *)
(*                                                                         *)
(* Shared memory is a ring of Stages stages. A stage holds one slab of     *)
(* packed A/B codes per thread (the slice that thread's copies fill), one  *)
(* raw scale unit per column, and the decoded scale planes. What a cell    *)
(* holds is abstracted to the number of the K-tile it came from. A         *)
(* register delivery records the SET of tiles it was read from: a          *)
(* singleton unless a copy or a decode raced with the read.                *)
(***************************************************************************)
EXTENDS Integers, Sequences, FiniteSets

CONSTANTS
  NumThreads,   \* size(TiledMma): threads of the CTA
  NumColumns,   \* Scale_TileN: columns that have a raw scale unit
  ScaleGroups,  \* Scale_TileK: scale groups per K-tile
  Stages,       \* DispatchPolicy::Stages
  KBlocks,      \* K_BLOCK_MAX: B delivery steps per K-tile
  Tiles,        \* k_tile_count at entry
  Packed,       \* kPackedScaleOn: raw units are decoded in publish
  SplitGroups,  \* kSplitGroups: two owners per column, half the groups each
  TilesPerUnit, \* kPackedTilesPerUnit: consecutive K-tiles one raw unit serves
  Provider      \* which consume hook: "eager", "foldChunk" or "twoPlaneChunk"

Providers == {"eager", "foldChunk", "twoPlaneChunk"}

(* The static_asserts of the driver, of ScaleCopyCoverage and of the       *)
(* metadata policies, and the gates that select SplitGroups and the folded *)
(* chunked provider (a fragment that is exactly one delivery).             *)
ASSUME PipelineAssumption ==
  /\ NumThreads \in Nat \ {0}
  /\ NumColumns \in 1 .. NumThreads
  /\ ScaleGroups \in Nat \ {0}
  /\ Stages \in Nat /\ Stages >= 2
  /\ KBlocks \in Nat \ {0}
  /\ KBlocks % ScaleGroups = 0 \/ ScaleGroups % KBlocks = 0
  /\ Tiles \in Nat \ {0}
  /\ Packed \in BOOLEAN
  /\ SplitGroups \in BOOLEAN
  /\ SplitGroups => /\ Packed
                    /\ NumThreads = 2 * NumColumns
                    /\ ScaleGroups % 2 = 0
  /\ TilesPerUnit \in Nat \ {0}
  /\ TilesPerUnit > 1 => Packed /\ ~SplitGroups
  /\ Provider \in Providers
  /\ Provider = "foldChunk" => KBlocks = 1 /\ ~Packed

Threads == 0 .. NumThreads - 1
Columns == 0 .. NumColumns - 1
Groups  == 0 .. ScaleGroups - 1
Stage   == 0 .. Stages - 1
Block   == 0 .. KBlocks - 1
Tile    == 0 .. Tiles - 1
NoTile  == -1                      \* a cell no copy has reached yet
Cell    == Tile \cup {NoTile}
Decoded == Nat \cup {NoTile}       \* what a decode can name

VARIABLES
  pc,         \* where the thread is in the driver
  kPipe,      \* prologue loop counter k_pipe
  kBlock,     \* k_block of the unrolled inner loop
  tileIter,   \* k_tile_iter
  tileCount,  \* k_tile_count
  readStage,  \* smem_pipe_read
  writeStage, \* smem_pipe_write
  token,      \* consume_stage
  issued,     \* number of cp.async groups the thread has committed
  pending,    \* its groups that have not landed yet
  unitPos,    \* unitPos[t][s]: packed_tile_in_unit, set when a copy is issued
  smem,       \* smem[s][t]: tile in thread t's slab of the A/B codes
  raw,        \* raw[s][c]: column c's copied scale unit
  planes,     \* planes[s][c][g]: tile of the decoded scale of group g
  frag,       \* frag[t][k]: register delivery k (codes, or converted codes)
  scaleReg,   \* scaleReg[t]: the scale fragment of the COARSE policy
  acc         \* acc[t]: fragments issued to the MMA (history)

cursor == <<kPipe, kBlock, tileIter, tileCount, readStage, writeStage, token>>
copies == <<issued, pending, unitPos>>
memory == <<smem, raw, planes>>
regs   == <<frag, scaleReg>>
vars   == <<pc, cursor, copies, memory, regs, acc>>

SyncPoint == {"primeSync", "sync", "drainSync"}
Location  == {"prologue", "primeWait", "prime", "wait", "prepare", "prefetch",
              "consume", "drain", "done"} \cup SyncPoint

(* The step the unrolled inner loop starts with: only the last delivery    *)
(* step of a tile binds, waits and publishes before it prepares.           *)
BlockStart(k) == IF k = KBlocks - 1 THEN "wait" ELSE "prepare"
-----------------------------------------------------------------------------
(* Scale-group policy. COARSE: a group covers whole delivery steps and its *)
(* fragment is reloaded when a step starts a group. FINE: a step crosses   *)
(* groups and every one of them is reloaded where it is applied.           *)
Coarse        == ScaleGroups <= KBlocks
StepsPerGroup == IF Coarse THEN KBlocks \div ScaleGroups ELSE 1
GroupsPerStep == IF Coarse THEN 1 ELSE ScaleGroups \div KBlocks
StartsGroup(k) == k % StepsPerGroup = 0
GroupsOf == [k \in Block |->
               IF Coarse THEN {k \div StepsPerGroup}
                         ELSE {g \in Groups : g \div GroupsPerStep = k}]

(* The copy wraps the thread index, so threads t and t + NumColumns own    *)
(* the same column and both copy it.                                       *)
ColumnOf(t) == t % NumColumns

(* The <<column, group>> planes a thread decodes in publish.               *)
NeighbourDecodes(t) ==   \* mutant: the paired-column decode that once shipped
  IF t < NumColumns THEN {(t + 1) % NumColumns} \X Groups ELSE {}
Decodes(t) ==
  IF SplitGroups
  THEN {ColumnOf(t)} \X {g \in Groups : (g < ScaleGroups \div 2) = (t < NumColumns)}
  ELSE IF t < NumColumns THEN {t} \X Groups ELSE {}

(* The scale unit a copy for a tile fetches, and the tile a thread decodes *)
(* from it: the coordinate within the unit is the one that thread recorded *)
(* when it issued its latest copy into the stage.                          *)
UnitOf(tile) == tile \div TilesPerUnit
DecodedAtWriteStage(t, s, c) ==  \* mutant: the coordinate of the stage being filled
  IF raw[s][c] = NoTile THEN NoTile
  ELSE raw[s][c] * TilesPerUnit + unitPos[t][writeStage[t]]
DecodedTile(t, s, c) ==
  IF raw[s][c] = NoTile THEN NoTile ELSE raw[s][c] * TilesPerUnit + unitPos[t][s]

SlabTiles(s) == {smem[s][u] : u \in Threads}

(* The <<tile, group>> pairs a read of some groups' metadata returns.      *)
PlaneTiles(s, gs) ==
  IF Packed THEN {<<planes[s][c][g], g>> : c \in Columns, g \in gs}
            ELSE {<<raw[s][c], g>> : c \in Columns, g \in gs}
-----------------------------------------------------------------------------
(* cp.async: a committed group lands at any later time, in any order, and  *)
(* cp_async_wait<N> returns once all but the N youngest groups of the      *)
(* calling thread have landed.                                             *)
Issue(t, stage, tile) ==
  /\ issued' = [issued EXCEPT ![t] = @ + 1]
  /\ pending' = [pending EXCEPT
       ![t] = @ \cup {[seq |-> issued[t] + 1, stage |-> stage, tile |-> tile]}]
  /\ unitPos' = [unitPos EXCEPT ![t][stage] = tile % TilesPerUnit]

WaitDepthTooDeep == Stages - 1   \* mutant: one group too many left in flight
WaitDepth == Stages - 2

LandedUpTo(t, n) == \A g \in pending[t] : g.seq > issued[t] - n

Land(t) ==
  /\ \E g \in pending[t] :
       /\ pending' = [pending EXCEPT ![t] = @ \ {g}]
       /\ smem' = [smem EXCEPT ![g.stage][t] = g.tile]
       /\ raw' = [raw EXCEPT ![g.stage][ColumnOf(t)] = UnitOf(g.tile)]
  /\ UNCHANGED <<pc, cursor, issued, unitPos, planes, regs, acc>>
-----------------------------------------------------------------------------
Init ==
  /\ pc = [t \in Threads |-> "prologue"]
  /\ kPipe = [t \in Threads |-> 0]
  /\ kBlock = [t \in Threads |-> 0]
  /\ tileIter = [t \in Threads |-> 0]
  /\ tileCount = [t \in Threads |-> Tiles]
  /\ readStage = [t \in Threads |-> 0]
  /\ writeStage = [t \in Threads |-> Stages - 1]
  /\ token = [t \in Threads |-> 0]
  /\ issued = [t \in Threads |-> 0]
  /\ pending = [t \in Threads |-> {}]
  /\ unitPos = [t \in Threads |-> [s \in Stage |-> 0]]
  /\ smem = [s \in Stage |-> [t \in Threads |-> NoTile]]
  /\ raw = [s \in Stage |-> [c \in Columns |-> NoTile]]
  /\ planes = [s \in Stage |-> [c \in Columns |-> [g \in Groups |-> NoTile]]]
  /\ frag = [t \in Threads |-> [k \in Block |-> [data |-> {}, meta |-> {}]]]
  /\ scaleReg = [t \in Threads |-> {}]
  /\ acc = [t \in Threads |-> << >>]

(* The iterator stops on the last tile, so the tail of the ring is filled  *)
(* with harmless reloads of it.                                            *)
NextTileUnclamped(it, more) == it + 1    \* mutant: no clamp
NextTile(it, more) == IF more THEN it + 1 ELSE it

(* One iteration of the prologue: fill stage k_pipe, commit the group.     *)
PrologueCopy(t) ==
  /\ pc[t] = "prologue"
  /\ Issue(t, kPipe[t], tileIter[t])
  /\ tileCount' = [tileCount EXCEPT ![t] = @ - 1]
  /\ tileIter' = [tileIter EXCEPT ![t] = NextTile(@, tileCount[t] - 1 > 0)]
  /\ kPipe' = [kPipe EXCEPT ![t] = @ + 1]
  /\ pc' = [pc EXCEPT ![t] =
       IF kPipe[t] + 1 < Stages - 1 THEN "prologue"
       ELSE IF KBlocks > 1 THEN "primeWait" ELSE "wait"]
  /\ UNCHANGED <<kBlock, readStage, writeStage, token, memory, regs, acc>>

(* publish, between the wait and the barrier: the decode reads the raw     *)
(* units of the read stage and writes its scale planes.                    *)
Publish(t) ==
  LET s == readStage[t] IN
  planes' = IF Packed
            THEN [planes EXCEPT ![s] =
                   [c \in Columns |-> [g \in Groups |->
                      IF <<c, g>> \in Decodes(t) THEN DecodedTile(t, s, c) ELSE @[c][g]]]]
            ELSE planes

WaitAndPublish(t) ==
  /\ pc[t] \in {"primeWait", "wait"}
  /\ LandedUpTo(t, WaitDepth)
  /\ Publish(t)
  /\ pc' = [pc EXCEPT ![t] = IF @ = "primeWait" THEN "primeSync" ELSE "sync"]
  /\ UNCHANGED <<cursor, copies, smem, raw, regs, acc>>

(* __syncthreads: the hardware barrier releases when every thread has      *)
(* arrived at one, whichever of the three call sites it stands at.         *)
AfterSync(site) ==
  IF site = "primeSync" THEN "prime" ELSE IF site = "sync" THEN "prepare" ELSE "done"

Barrier ==
  /\ \A t \in Threads : pc[t] \in SyncPoint
  /\ pc' = [t \in Threads |-> AfterSync(pc[t])]
  /\ UNCHANGED <<cursor, copies, memory, regs, acc>>

(* prepare(k, readStage): load delivery k from the read stage. An eager    *)
(* provider also converts and scales it here; a chunked one leaves that to *)
(* consume and reloads only the COARSE scale fragment.                     *)
Prepare(t, k) ==
  LET s        == readStage[t]
      reloaded == IF Coarse /\ StartsGroup(k) THEN PlaneTiles(s, GroupsOf[k])
                                              ELSE scaleReg[t]
  IN  /\ scaleReg' = [scaleReg EXCEPT ![t] = reloaded]
      /\ frag' = [frag EXCEPT ![t][k] =
           [data |-> SlabTiles(s),
            meta |-> IF Provider # "eager" THEN {}
                     ELSE IF Coarse THEN reloaded ELSE PlaneTiles(s, GroupsOf[k])]]

PrepareFirst(t) ==
  /\ pc[t] = "prime"
  /\ Prepare(t, 0)
  /\ pc' = [pc EXCEPT ![t] = BlockStart(0)]
  /\ UNCHANGED <<cursor, copies, memory, acc>>

(* The ring advances after the last step that reads the tile from shared   *)
(* memory: one step early when the tile has more than one delivery.        *)
AdvancesLate(k) == k = KBlocks - 1      \* mutant: advance on the last step
AdvancesAfter(k) == k = KBlocks - 2 \/ KBlocks = 1

Advance(t) ==
  IF AdvancesAfter(kBlock[t])
  THEN /\ writeStage' = [writeStage EXCEPT ![t] = readStage[t]]
       /\ readStage' = [readStage EXCEPT ![t] = IF @ + 1 = Stages THEN 0 ELSE @ + 1]
  ELSE UNCHANGED <<readStage, writeStage>>

PrepareNext(t) ==
  /\ pc[t] = "prepare"
  /\ token' = [token EXCEPT ![t] = readStage[t]]
  /\ Prepare(t, (kBlock[t] + 1) % KBlocks)
  /\ IF kBlock[t] = 0
     THEN /\ pc' = [pc EXCEPT ![t] = "prefetch"]
          /\ UNCHANGED <<readStage, writeStage>>
     ELSE /\ pc' = [pc EXCEPT ![t] = "consume"]
          /\ Advance(t)
  /\ UNCHANGED <<kPipe, kBlock, tileIter, tileCount, copies, memory, acc>>

(* prefetch at k_block 0, then the commit and the iterator.                *)
Prefetch(t) ==
  /\ pc[t] = "prefetch"
  /\ Issue(t, writeStage[t], tileIter[t])
  /\ tileIter' = [tileIter EXCEPT ![t] = NextTile(@, tileCount[t] > 1)]
  /\ Advance(t)
  /\ pc' = [pc EXCEPT ![t] = "consume"]
  /\ UNCHANGED <<kPipe, kBlock, tileCount, token, memory, regs, acc>>

(* consume(k, consume_stage), the fragment a thread issues to the MMA. The *)
(* eager hook uses what prepare converted. A chunked hook converts here    *)
(* and reads FINE metadata from the stage the token names; the two-plane   *)
(* one reads its second plane from there too.                              *)
EagerConsumed(t) ==
  LET d == frag[t][kBlock[t]]
  IN  [k |-> kBlock[t], data |-> d.data, meta |-> d.meta]

ConsumedMeta(t) ==
  IF Coarse THEN scaleReg[t] ELSE PlaneTiles(token[t], GroupsOf[kBlock[t]])

FoldConsumedAhead(t) ==  \* mutant: codes of the stage the ring is at
  [k |-> kBlock[t], data |-> SlabTiles(readStage[t]), meta |-> ConsumedMeta(t)]
FoldConsumed(t) ==
  [k |-> kBlock[t], data |-> frag[t][kBlock[t]].data, meta |-> ConsumedMeta(t)]

TwoPlaneConsumed(t) ==
  [k    |-> kBlock[t],
   data |-> frag[t][kBlock[t]].data \cup SlabTiles(token[t]),
   meta |-> ConsumedMeta(t)]

Consumed(t) ==
  IF Provider = "eager" THEN EagerConsumed(t)
  ELSE IF Provider = "foldChunk" THEN FoldConsumed(t)
  ELSE TwoPlaneConsumed(t)

LoopStopsEarly(count) == count > 0      \* mutant: the tail of the ring is not drained
LoopContinues(count) == count > -(Stages - 1)

Consume(t) ==
  /\ pc[t] = "consume"
  /\ acc' = [acc EXCEPT ![t] = Append(@, Consumed(t))]
  /\ IF kBlock[t] < KBlocks - 1
     THEN /\ kBlock' = [kBlock EXCEPT ![t] = @ + 1]
          /\ pc' = [pc EXCEPT ![t] = BlockStart(kBlock[t] + 1)]
          /\ UNCHANGED tileCount
     ELSE /\ kBlock' = [kBlock EXCEPT ![t] = 0]
          /\ tileCount' = [tileCount EXCEPT ![t] = @ - 1]
          /\ pc' = [pc EXCEPT ![t] =
               IF LoopContinues(tileCount[t] - 1) THEN BlockStart(0) ELSE "drain"]
  /\ UNCHANGED <<kPipe, tileIter, readStage, writeStage, token, copies,
                 memory, regs>>

(* cp_async_wait<0> before the last barrier.                               *)
DrainedNoWait(t) == TRUE      \* mutant: leave the loop without waiting
Drained(t) == LandedUpTo(t, 0)

Drain(t) ==
  /\ pc[t] = "drain"
  /\ Drained(t)
  /\ pc' = [pc EXCEPT ![t] = "drainSync"]
  /\ UNCHANGED <<cursor, copies, memory, regs, acc>>

Terminated ==
  /\ \A t \in Threads : pc[t] = "done"
  /\ UNCHANGED vars

Step(t) ==
  \/ PrologueCopy(t)
  \/ WaitAndPublish(t)
  \/ PrepareFirst(t)
  \/ PrepareNext(t)
  \/ Prefetch(t)
  \/ Consume(t)
  \/ Drain(t)

Next ==
  \/ \E t \in Threads : Step(t)
  \/ \E t \in Threads : Land(t)
  \/ Barrier
  \/ Terminated

Spec == Init /\ [][Next]_vars

(* A resident warp is always scheduled again, an issued copy always lands  *)
(* and the barrier hardware releases a complete CTA.                       *)
Fairness ==
  /\ \A t \in Threads : WF_vars(Step(t)) /\ WF_vars(Land(t))
  /\ WF_vars(Barrier)

FairSpec == Spec /\ Fairness
-----------------------------------------------------------------------------
(* Properties.                                                             *)

Group == [seq : Nat \ {0}, stage : Stage, tile : Tile]
Fragments == [k : Block, data : SUBSET Cell, meta : SUBSET (Decoded \X Groups)]

(* Every cursor stays in its range: no step addresses a stage outside the  *)
(* ring, a delivery outside the tile, or a K-tile past the last one.       *)
TypeOK ==
  /\ pc \in [Threads -> Location]
  /\ kPipe \in [Threads -> 0 .. Stages - 1]
  /\ kBlock \in [Threads -> Block]
  /\ tileIter \in [Threads -> Tile]
  /\ tileCount \in [Threads -> -(Stages - 1) .. Tiles]
  /\ readStage \in [Threads -> Stage]
  /\ writeStage \in [Threads -> Stage]
  /\ token \in [Threads -> Stage]
  /\ issued \in [Threads -> Nat]
  /\ pending \in [Threads -> SUBSET Group]
  /\ unitPos \in [Threads -> [Stage -> 0 .. TilesPerUnit - 1]]
  /\ smem \in [Stage -> [Threads -> Cell]]
  /\ raw \in [Stage -> [Columns -> Cell]]
  /\ planes \in [Stage -> [Columns -> [Groups -> Decoded]]]
  /\ frag \in [Threads -> [Block -> [data : SUBSET Cell, meta : SUBSET (Decoded \X Groups)]]]
  /\ scaleReg \in [Threads -> SUBSET (Decoded \X Groups)]
  /\ acc \in [Threads -> Seq(Fragments)]

(* The tile thread t is accumulating: its iteration of the main loop.      *)
Iteration(t) == Tiles - (Stages - 1) - tileCount[t]

(* The tile a prepare at the current location is meant to read. Past the   *)
(* last tile the ring holds reloads of it.                                 *)
PreparedTile(t) ==
  LET ahead == IF pc[t] = "prepare" /\ KBlocks > 1 /\ kBlock[t] = KBlocks - 1 THEN 1 ELSE 0
      i     == IF pc[t] = "prime" THEN 0 ELSE Iteration(t) + ahead
  IN  IF i < Tiles THEN i ELSE Tiles - 1

(* Thread t's next step loads from stage s of shared memory.               *)
ReadsStage(t, s) ==
  \/ pc[t] \in {"prime", "prepare"} /\ s = readStage[t]
  \/ /\ pc[t] = "consume" /\ s = token[t]
     /\ Provider = "twoPlaneChunk" \/ (Provider = "foldChunk" /\ ~Coarse)

(* No thread, however far ahead, has a copy in flight into a stage another *)
(* thread is about to read: the write stage of the ring is always one that *)
(* every thread is done with (run_mixed_pipeline's wait/barrier placement).*)
NoCopyIntoStageBeingRead ==
  \A t \in Threads, s \in Stage :
    ReadsStage(t, s) => \A u \in Threads : \A g \in pending[u] : g.stage # s

(* When a thread prepares a delivery, every slab of its read stage, copied *)
(* by whichever thread, and every scale plane, decoded by whichever owner, *)
(* is that of the tile the thread is at: cp_async_wait is per thread, so   *)
(* this needs the decode to touch only own bytes and the barrier after it. *)
StageHoldsItsTile ==
  \A t \in Threads : pc[t] \in {"prime", "prepare"} =>
    /\ SlabTiles(readStage[t]) = {PreparedTile(t)}
    /\ PlaneTiles(readStage[t], Groups) = {PreparedTile(t)} \X Groups

(* No cp.async is in flight when a thread leaves the mainloop: the caller  *)
(* reuses the shared memory the tail prefetches were aimed at.             *)
NothingInFlightAtExit ==
  (\E t \in Threads : pc[t] = "done") => \A u \in Threads : pending[u] = {}

(* Every thread issues exactly the fragments of tiles 0 .. Tiles-1, in     *)
(* order, each with codes and metadata of its own tile and group.          *)
Abs == INSTANCE TileAccumulate
         WITH Threads <- Threads, Tiles <- Tiles, KBlocks <- KBlocks,
              GroupsOf <- GroupsOf, acc <- acc
Implements == Abs!Spec

(* The tail reloads never keep a CTA from finishing: every thread leaves   *)
(* the loop having accumulated all the tiles.                              *)
Completes ==
  <>(\A t \in Threads : pc[t] = "done" /\ Len(acc[t]) = Tiles * KBlocks)

(* The stage token a chunked consume reads from names a stage that holds   *)
(* the tile being accumulated ("read HERE from the stage this iteration    *)
(* actually consumes").                                                    *)
TokenNamesConsumedTile ==
  \A t \in Threads : pc[t] = "consume" /\ Provider # "eager" =>
    SlabTiles(token[t]) = {Iteration(t)}
=============================================================================
