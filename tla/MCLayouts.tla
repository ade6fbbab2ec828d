----------------------------- MODULE MCLayouts -----------------------------
(***************************************************************************)
(* The producers and a reader of quantized data in one instance: a         *)
(* behaviour prepares a K-pack artifact, puts a weight into a named        *)
(* arrangement, places the planes of a dense artifact or runs a warp of a  *)
(* vecdot kernel, and the variables of the other three stand still.        *)
(***************************************************************************)
EXTENDS KQuantArtifact, WeightPlacement, VecdotKernel, XplaneArtifact

MCShapes == {<<1, 96, 64>>, <<1, 64, 64>>, <<2, 64, 128>>, <<1, 256, 64>>, <<1, 64, 40>>, <<1, 512, 256>>}

MCExtents == {<<3, 1>>, <<2047, 8>>, <<2048, 8>>, <<2049, 2>>, <<65537, 2>>, <<393216, 2>>}
MCRowOffsets == {<<0, 2, 2, 3>>}

(* Every format and every TileK, one without a case and one of two         *)
(* superblocks a plane of 256 rows cannot hold; and the refused shapes.    *)
MCTileReqs ==
  LET Call(f, t, rows, depth, high) == [q |-> f, tile |-> t, n |-> rows, k |-> depth, high |-> high]
  IN  {Call(f, t, 256, 512, TRUE) : f \in Formats, t \in {0, 32, 64, 128, 256, 512}}
      \cup {Call(f, t, 512, 256, FALSE) : f \in {"Q4_K", "Q5_K"}, t \in {0, 64}}
      \cup {Call("Q3_K", 64, s[1], s[2], TRUE) : s \in {<<0, 256>>, <<128, 256>>, <<256, 320>>}}

NoArtifact ==
  /\ fmt = "Q4_K" /\ n = 0 /\ k = 0 /\ experts = 0
  /\ phase = "none"
  /\ todo = {}
  /\ plane = [p \in {"low", "high"} |-> << >>]
  /\ units = << >>
  /\ recovered = << >>

NoWeight ==
  /\ rq = [op |-> "none"]
  /\ stage = "none"
  /\ where = << >> /\ steps = << >> /\ restored = << >>

NoKernel ==
  /\ launch = [kernel |-> "none", type |-> "Q4_K", contract |-> "none"]
  /\ pc = "none"
  /\ block = 0 /\ off = 0
  /\ acc = << >> /\ share = << >> /\ rowOut = << >>

NoTile ==
  /\ tileReq = [q |-> "Q4_K", tile |-> 0]
  /\ tilePc = "none" /\ tileRc = 0
  /\ placedAt = << >> /\ taken = << >>

LayoutsInit == \/ Init /\ NoWeight /\ NoKernel /\ NoTile
               \/ NoArtifact /\ PlaceInit /\ NoKernel /\ NoTile
               \/ NoArtifact /\ NoWeight /\ VecdotInit /\ NoTile
               \/ NoArtifact /\ NoWeight /\ NoKernel /\ XplaneInit

LayoutsNext ==
  \/ phase # "none" /\ Next /\ UNCHANGED <<placeVars, kernelVars, xplaneVars>>
  \/ stage # "none" /\ PlaceNext /\ UNCHANGED <<vars, kernelVars, xplaneVars>>
  \/ pc # "none" /\ VecdotNext /\ UNCHANGED <<vars, placeVars, xplaneVars>>
  \/ tilePc # "none" /\ XplaneNext /\ UNCHANGED <<vars, placeVars, kernelVars>>

LayoutsSpec == LayoutsInit /\ [][LayoutsNext]_<<vars, placeVars, kernelVars, xplaneVars>>
=============================================================================
