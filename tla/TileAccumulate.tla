--------------------------- MODULE TileAccumulate ---------------------------
(***************************************************************************)
(* What the mixed-input mainloop promises, with no ring, no copies and no  *)
(* barrier: every thread of a CTA adds the K-tiles 0 .. Tiles-1 to its     *)
(* accumulator, in order, each one in KBlocks delivery steps, and every    *)
(* step uses codes and scale metadata of one and the same tile.            *)
(***************************************************************************)
EXTENDS Integers, Sequences

CONSTANTS
  Threads,  \* the threads of one CTA
  Tiles,    \* number of K-tiles of this CTA (k_tile_count at entry)
  KBlocks,  \* B delivery steps per tile (K_BLOCK_MAX)
  GroupsOf  \* GroupsOf[k]: the scale groups that delivery step k spans

VARIABLE acc  \* acc[t]: the fragments thread t has issued to the MMA, in order

(* A fragment records where its operands come from: the set of tiles its   *)
(* codes were read from and the set of <<tile, scale group>> pairs its     *)
(* metadata was read from. Fragment(n) is the n-th one, with clean origin. *)
Fragment(n) ==
  LET tile == n \div KBlocks
      k    == n % KBlocks
  IN  [k    |-> k,
       data |-> {tile},
       meta |-> {tile} \X GroupsOf[k]]

Init == acc = [t \in Threads |-> << >>]

Accumulate(t) ==
  /\ Len(acc[t]) < Tiles * KBlocks
  /\ acc' = [acc EXCEPT ![t] = Append(@, Fragment(Len(@)))]

Next == \E t \in Threads : Accumulate(t)

Spec == Init /\ [][Next]_acc
=============================================================================
