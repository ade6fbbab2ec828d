-------------------------- MODULE MixedPipelineInv --------------------------
(***************************************************************************)
(* The inductive invariant of MixedPipeline. Everything hangs on one       *)
(* derived number, Rounds(t): how many times the barrier has released      *)
(* thread t. It is the same for all threads, the n-th cp.async group of    *)
(* any thread fills stage StageOf(n) with tile TileOf(n), groups up to the *)
(* current round have landed, and no thread has issued more than Stages-1  *)
(* groups beyond it: so the stage of the round is never a target.          *)
(***************************************************************************)
EXTENDS MixedPipeline

Early    == {"prologue", "primeWait", "primeSync", "prime"}
MainLoop == {"wait", "sync", "prepare", "prefetch", "consume"}
Late     == {"drain", "drainSync", "done"}

StageOf(n) == (n - 1) % Stages
TileOf(n)  == IF n <= Tiles THEN n - 1 ELSE Tiles - 1

Primed == IF KBlocks > 1 THEN 1 ELSE 0

(* The last delivery step of an iteration, once past its barrier.          *)
PastSync(t) == kBlock[t] = KBlocks - 1 /\ pc[t] \in {"prepare", "prefetch", "consume"}

Rounds(t) ==
  IF pc[t] \in {"prologue", "primeWait", "primeSync"} THEN 0
  ELSE IF pc[t] = "prime" THEN 1
  ELSE Iteration(t) + Primed + (IF PastSync(t) \/ pc[t] = "done" THEN 1 ELSE 0)

Advanced(t) ==
  \/ pc[t] = "consume" /\ AdvancesAfter(kBlock[t])
  \/ pc[t] \in MainLoop /\ KBlocks > 1 /\ kBlock[t] = KBlocks - 1

ReadPos(t) ==
  IF pc[t] \in Early THEN 0 ELSE Iteration(t) + (IF Advanced(t) THEN 1 ELSE 0)

Prefetched(t) == pc[t] = "consume" \/ (pc[t] \in MainLoop /\ kBlock[t] > 0)

LocationInv(t) ==
  /\ pc[t] = "prologue" => /\ kPipe[t] < Stages - 1
                           /\ tileCount[t] = Tiles - kPipe[t]
  /\ pc[t] # "prologue" => kPipe[t] = Stages - 1
  /\ pc[t] \in {"primeWait", "primeSync", "prime"} => KBlocks > 1 /\ Iteration(t) = 0
  /\ pc[t] \in MainLoop => Iteration(t) \in Tile
  /\ pc[t] \in Late => Iteration(t) = Tiles
  /\ pc[t] \in Early \cup Late \cup {"prefetch"} => kBlock[t] = 0
  /\ pc[t] \in {"wait", "sync"} => kBlock[t] = KBlocks - 1

CursorInv(t) ==
  /\ issued[t] = IF pc[t] = "prologue" THEN kPipe[t]
                 ELSE Stages - 1 + Iteration(t) + (IF Prefetched(t) THEN 1 ELSE 0)
  /\ tileIter[t] = IF issued[t] < Tiles THEN issued[t] ELSE Tiles - 1
  /\ readStage[t] = ReadPos(t) % Stages
  /\ writeStage[t] = (ReadPos(t) + Stages - 1) % Stages
  /\ pc[t] \in {"prefetch", "consume"} => token[t] = StageOf(Rounds(t))

(* Rounds up to this one have landed, plus the next one once the thread    *)
(* has waited for it; the last wait leaves nothing behind.                 *)
LandedRounds(t) ==
  Rounds(t) + (IF pc[t] \in {"primeSync", "sync"} THEN 1 ELSE 0)

GroupInv(t) ==
  /\ issued[t] <= Rounds(t) + Stages - 1
  /\ \A g \in pending[t] :
       /\ g.seq > LandedRounds(t) /\ g.seq <= issued[t]
       /\ g.stage = StageOf(g.seq)
       /\ g.tile = TileOf(g.seq)
  /\ pc[t] \in {"drainSync", "done"} => pending[t] = {}

LandedInv(t) ==
  \A n \in 1 .. issued[t] : n >= Rounds(t) =>
    /\ unitPos[t][StageOf(n)] = TileOf(n) % TilesPerUnit
    /\ (\A g \in pending[t] : g.seq # n) =>
         /\ smem[StageOf(n)][t] = TileOf(n)
         /\ raw[StageOf(n)][ColumnOf(t)] = UnitOf(TileOf(n))

PlanesInv(t) ==
  Packed =>
    /\ pc[t] # "done" /\ Rounds(t) >= 1 =>
         \A c \in Columns, g \in Groups :
           planes[StageOf(Rounds(t))][c][g] = TileOf(Rounds(t))
    /\ pc[t] \in {"primeSync", "sync"} =>
         \A c \in Columns, g \in Groups : <<c, g>> \in Decodes(t) =>
           planes[StageOf(Rounds(t) + 1)][c][g] = TileOf(Rounds(t) + 1)

RoundsAgree == \A t, u \in Threads : Rounds(t) = Rounds(u)

(* The invariant behind the ring's safety: cursors, in-flight groups,      *)
(* landed slabs and decoded planes of every thread are tied to one common  *)
(* barrier round.                                                          *)
RingInv ==
  /\ TypeOK
  /\ \A t \in Threads : /\ LocationInv(t)
                        /\ CursorInv(t)
                        /\ GroupInv(t)
                        /\ LandedInv(t)
                        /\ PlanesInv(t)
  /\ RoundsAgree
-----------------------------------------------------------------------------
(* What the registers and the accumulator hold.                            *)

(* Delivery k in thread t's registers is that of one tile, group for group *)
(* (a chunked provider reads the metadata only when it consumes).          *)
Delivered(t, k, tile) ==
  frag[t][k] = [data |-> {tile},
                meta |-> IF Provider # "eager" THEN {} ELSE {tile} \X GroupsOf[k]]

(* A first delivery has been prepared and not consumed.                    *)
Holding(t) ==
  pc[t] \in {"prefetch", "consume"} \/ (pc[t] \in MainLoop /\ KBlocks > 1)

(* The delivery the thread prepared last: one ahead of the one it is about *)
(* to consume, of the next tile when this is the tile's last one.          *)
LatestStep(t) ==
  IF pc[t] \in {"prefetch", "consume"} THEN (kBlock[t] + 1) % KBlocks ELSE kBlock[t]
LatestTile(t) ==
  LET i == Iteration(t) +
           (IF /\ pc[t] \in {"prefetch", "consume"}
               /\ KBlocks > 1 /\ kBlock[t] = KBlocks - 1 THEN 1 ELSE 0)
  IN  IF i < Tiles THEN i ELSE Tiles - 1

DeliveryInv(t) ==
  /\ Len(acc[t]) = IF pc[t] \in Early THEN 0 ELSE Iteration(t) * KBlocks + kBlock[t]
  /\ Holding(t) =>
       /\ Delivered(t, kBlock[t], Iteration(t))
       /\ Delivered(t, LatestStep(t), LatestTile(t))
       /\ Coarse => scaleReg[t] = {LatestTile(t)} \X GroupsOf[LatestStep(t)]

(* The ring, and with it what has been loaded out of the ring: the         *)
(* delivery a thread consumes next is its own tile's, so the accumulator   *)
(* receives the deliveries of the tiles in order.                          *)
PipelineInv == RingInv /\ \A t \in Threads : DeliveryInv(t)
=============================================================================
