------------------------- MODULE MCChunkedPipeline -------------------------
(***************************************************************************)
(* Two chunked mainloops in one run. The constants of the configuration    *)
(* give the two-plane provider with packed metadata; Fold is the folded    *)
(* provider, whose metadata is not packed, on a ring deeper than the K     *)
(* extent. A behaviour is a behaviour of one of them.                      *)
(***************************************************************************)
EXTENDS MixedPipeline

VARIABLE folded  \* this behaviour is the folded provider's

Fold == INSTANCE MixedPipeline
          WITH NumThreads <- 3, NumColumns <- 2, ScaleGroups <- 1, Stages <- 4,
               KBlocks <- 1, Tiles <- 2, Packed <- FALSE, SplitGroups <- FALSE,
               TilesPerUnit <- 1, Provider <- "foldChunk"

ChunkedInit ==
  /\ folded \in BOOLEAN
  /\ IF folded THEN Fold!Init ELSE Init

ChunkedNext ==
  /\ IF folded THEN Fold!Next ELSE Next
  /\ UNCHANGED folded

ChunkedSpec == ChunkedInit /\ [][ChunkedNext]_<<vars, folded>>
-----------------------------------------------------------------------------
(* The token a chunked consume reads from names the stage of the tile      *)
(* being accumulated, as long as a tile is one delivery.                   *)
ChunkedTokenNamesTile ==
  IF folded THEN Fold!TokenNamesConsumedTile ELSE TokenNamesConsumedTile

(* Both chunked providers implement the tile accumulator: codes, second    *)
(* plane and metadata of every fragment are of one tile and group.         *)
ChunkedImplements ==
  /\ IF folded THEN Fold!Abs!Init ELSE Abs!Init
  /\ [][IF folded THEN Fold!Abs!Next ELSE Abs!Next]_acc
=============================================================================
