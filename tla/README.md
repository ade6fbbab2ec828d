# QUactlize in TLA+

QUactlize is a library of low-bit weight GEMM kernels. A checkpoint is reordered offline into code planes and
packed scale units; at run time torch ops find the C entries of `libquactlize_ppu.so` and run dense, grouped (one
weight per expert) and GEMV products with them. These modules model what is hard to get right there: the stage ring
of the GEMM mainloop, the decode of a ragged grouped grid, the error handling around every launch, the routes from
raw blocks to rows, the agreement between what a query admits and an entry runs, the arrangements that producers and
readers of the weights state independently of each other, and the files that tuner and packer publish.

Paths below are relative to the repository, without its `quactlize/` prefix where that is clear.

## Inventory

| component | state | operations | hard because | correct when |
|---|---|---|---|---|
| Mainloop stage ring (`detail/ppu_mixed_pipeline.hpp`, the hooks in `quactlize_mma_mixed_input.hpp`, `ppu_mma_aiu_fold.hpp`, `ppu_mma_aiu_mixed_input_2plane.hpp`) | ring cursors, K iterator, stage token, cp.async groups in flight, shared-memory stages, register fragments | prologue copy, wait and publish, barrier, prepare, prefetch, consume, drain | threads of a CTA run apart between barriers, copies land in any order, waiting covers only a thread's own copies, the ring advances before the last delivery is consumed | every thread multiplies the codes of each tile by the scales of that tile, in order |
| Grouped launch (`moe_grouped_ppu.cuh`, `ppu_aiu_gemm_mixed_input_group.hpp`, `ppu_dense_backend.cu`) | row counts, offsets, M-tile prefix, grid, per-block decode | gather rows, classify, write prefix, size the grid, start, search, store | ragged and empty experts, two grid packings, a device route that knows a bound only | every output element is stored by one block, from its own expert, over all of K |
| Runtime latch and C entries (`gemv_lowbit/gemv_rt.hpp`, `ppu_backend.cu`, `ppu_dense_backend.cu`) | thread-local latch, the runtime's last error, device buffers, the process-wide refusal count | enter, allocate, copy, launch, peek, synchronize, copy back | any call may fail, launches fail silently, threads call at once | failures cross as codes, outputs are all or nothing |
| Backend loader (`csrc/preprocess/thop/ppu_backend.cpp`) | one cached outcome per packed format, a mutex | load, load_format | one attempt per format, callers that read the outcome outside the guard, libraries that lack symbols or appear later | one verdict per format; no call through a null pointer |
| Tactic space and config inventory (`ppu_format_config.*`, `ppu_tactic_space.hpp`, `ppu_mixed_policy.hpp`, `fold_traits.hpp`, the two `*_configs.inc`, the predicates, lists, workspace queries and entries of `ppu_dense_backend.cu`) | none but the caller's workspace | query, list, size, enter | the same conditions are written in the sweep, in the kernel's static_asserts, in a predicate and in an entry, for six families | what is emitted compiles, what is admitted runs, what is sized suffices |
| Offline layouts (`gguf_scale_layout.hpp`, `gguf_packed_unit.hpp`, `gguf_unit_pack.hpp`, `ppu_unit_pack.cpp`, `xplane_offline.hpp`, `ppu_dense_layout.cu`, `quactlize_mix_gemm_convert.h`, `weight_preprocess_ops.cpp`, `cutlass_preprocessors.cpp`, and `_prepare`/`recover_raw_blocks` of `src/reference/gguf_kpack.py`) | the planes, units and buffers being filled | put codes, put metadata, permute, transpose, interleave, place, recover | index arithmetic stated two or three times, words shared by columns, units shared by superblocks, a placement composed of three files | packing is a bijection on the official blocks and all statements of an arrangement agree |
| Reference file packer (`src/reference/gguf_kpack.py`) | the partial file, the output name, the mapped source | check, hash, copy, convert, write, verify, link, unlink | packers run at once and die at any step, the source changes under the mapping | what appears under the output name is verified, of one version, and never changes |
| GEMV and vecdot kernels (`gguf_vecdot.hpp`, `gguf_bc_vecdot.hpp`, `gemv_lowbit/`) | lane sums of a warp | accumulate, exchange, store | lanes past the last row, groups per lane, three activation contracts, loads that straddle blocks | each group of a row is summed once, with its own activation |
| Python routes and torch ops (`routes.py`, `formats.py`, `__init__.py`, `thop/gguf_prepass_ops.cpp`) | the artifact on its way through the ops of a route | check, prepare, prepass, multiply, dequantize | optional symbols, early returns, host arms, one library call per expert, code shifts that must cancel across three places | every row meets its own expert's weights |
| Tuner (`tools/tune.py`) | winners, the temporary and the cache file | sweep, bucket, validate, write, sync, replace | a crash while writing, a library rebuilt in between, buckets wider than what was measured | the file is an old or a new cache, whole, and its winners run |
| Build, CI and benchmarks | | | developer tooling | not modelled |

How they meet: a Python route walks through torch ops; an op asks the loader for the C entry; the entry decides by the
predicates of the tactic space, brackets a launch with the runtime latch, and a grouped entry's launch builds the grid,
each block of which decodes its tile and runs the stage ring over its K-tiles. `TorchOps` contains the loader
(it EXTENDS `BackendLoader`), the tuner's model contains the library it tunes (`TacticCache` EXTENDS `LibraryEntries`,
which EXTENDS `TacticSpace`), and the placement of planes is composed from the converter (`XplaneArtifact` EXTENDS
`CodeConverter`), as in the code. Elsewhere the interface is a value: the ring runs within a block whose K range
`GroupedSchedule` hands it, `RuntimeEntries` sees a launch as one step that succeeds or fails, `LibraryEntries` lets
the device work, `TorchOps` keeps of an artifact whose codes it holds and in which arrangement, and
`PublishReference` takes from `KQuantArtifact` that recovering what was produced gives the blocks back.

## Plan

In the order of importance; a module composes another only where named.

1. `MixedPipeline` with its abstract specification `TileAccumulate`, its invariant and its proofs: done.
2. `GroupedSchedule` with its invariant and its proofs, `EveryOutputComplete` among them: done.
3. `RuntimeEntries` with its invariant and its proofs: done.
4. `PublishReference` with its invariant and its proofs: done.
5. `KQuantLayout`, `KQuantArtifact` with its invariant and its proofs, the one that the statements of an official block
   agree among them: done.
6. `BackendLoader` and `TorchOps`, the routes over it, with their invariants and proofs: done.
7. `WeightPlacement`, `CodeConverter`, `XplaneArtifact`: done, with the proofs that a `mixed_gemm` weight is read back
   and that a weight in any arrangement is stored as its name says. Next: the placement of planes (`PlacedAsRead`).
8. `TacticSpace` and `LibraryEntries` with their proofs: done.
9. `TacticCache` with its invariant and its proof: done.
10. `VecdotKernel` with its invariant and its proof: done for both kernels. Next: the low-bit GEMV kernel
    (`gemv_kernel.hpp`).
11. A composition of `GroupedSchedule` with the K iterator of `MixedPipeline`: slices of a split traverse the ring.

## MixedPipeline

One thread of `MixedPipeline` is one thread of a CTA executing `run_mixed_pipeline`; its `pc` is the place in
that function and every other per-thread variable is a local of it (`kPipe`, `kBlock`, `tileIter`, `tileCount`,
`readStage`, `writeStage`, `token`). The copies a thread has committed and that have not landed are `pending`;
`Land` lets any of them arrive at any time. `WaitAndPublish` is `cp_async_wait<Stages-2>` with the `publish` hook
that follows it, `Barrier` is `__syncthreads`, which releases all threads at once. Shared memory is `smem` (codes,
one slab per copying thread), `raw` (the packed scale unit of a column) and `planes` (decoded scales), each cell
holding the number of the K-tile it came from. A register fragment records the *set* of tiles it was loaded from,
so a race shows up as a set that is not a singleton. `acc` lists what a thread has issued to the MMA.

The three providers differ in `consume` only: the eager one converts in `prepare`; the folded and the two-plane
chunked ones (`PPU_B_CHUNK`) convert in `consume`, reading FINE metadata, and for the latter plane 2 as well, from
the stage the token names. COARSE and FINE follow `ppu_mixed_metadata_policy.hpp`; `Decodes` and `DecodedTile`
follow `packed_decode_stage`, the split of a column's groups over two owners included.

`TileAccumulate` is what a mainloop promises: every thread appends fragment after fragment of tiles 0, 1, …, each
made of its own tile's codes and its own tile's scale groups. `Implements` is `TileAccumulate`'s specification
under the obvious mapping (`acc` is the same in both; the data and metadata sets must be the ones wanted).

Fairness: a resident warp is scheduled again, an issued copy lands, and the barrier releases a complete CTA.
These are guarantees of the hardware, and `Completes` needs no others.

## GroupedSchedule

The request (`rows`, `totalRows`, `splitk`, the route) is chosen in `Init`, malformed row counts included. The
host route gathers offsets (`GatherRows`, `GatherDone`: return code 36), decides the decode hint (`Classify`),
writes the prefix (`PrefixStep`) and sizes the grid (`CountTiles`, `Launch`); its loops take one expert per step.
The device route enqueues a metadata kernel, whose threads write `shapes`, and then the GEMM over a 3D grid. Every
block starts when the hardware has room for it, searches the prefix or takes the expert from `blockIdx.z`, returns
early or stores its tile. `RowsOf`, `PlaneOf` and `KTilesOf` say what it stores.

Fairness: the host runs on, the stream runs its kernels, and some block can always be dispatched or goes on.

## RuntimeEntries

Host threads call one entry after another. The kinds of entries stand for the families that differ around the
launch: `plain` and `two` (native GEMV, dequantize; prepass with two outputs), `checked` (`bc_gemv`), `lowbit`
(`gemv_lowbit`, which also compares the refusal count), `grouped` (the ragged host entry), `enqueue` and
`metadata` (the device-pointer entries). Any runtime call fails or does not; a failed one is latched by its
wrapper and is also the runtime's last error of that thread. A launch reports nothing by itself. `failed`, `ran`
and `out` record what happened for the properties. `SyncReadsLastError` tells the CUDA `rt_sync` from the HGGC one.

What is assumed of the runtime, which is external: an error is the calling thread's last error until it is read
and cleared, peeking leaves it, and a successful synchronize means that kernels which started have finished.

## KQuantLayout and KQuantArtifact

`KQuantLayout` is the index arithmetic. `Quant` is `SPECS`, and where a scale, a minimum or a code lies in an
official block is defined twice, as the C++ layouts state it (`MetaField`, `CodeField`: `Traits`, `CodeTraits`) and
as the reference packer computes it byte by byte (`RefMetaField`, `RefCodeField`). `PlacedAt` is the place of a code
in a plane, with the transposition the one-bit plane of Q5_K uses (`TransposedAt`); `UnitField` is the place of a
field in a metadata unit, whose codes are laid out in runs.

`KQuantArtifact` runs `_prepare` and then `recover_raw_blocks`, one superblock per step, on *symbolic* data: a bit of
the artifact holds the place in the official blocks it was copied from, so a round trip that is right here is right
for every content. Codes are put under a mask, so a wrong address replaces; metadata is ORed into zeroed units, so a
wrong address mixes: `plane` and `units` keep that difference (`Over` is the masked write).

## PublishReference

A packer is one run of `pack_reference_gguf`; its `pc` is its place in it. A file is an inode, called after the packer
that created it, so that a name (`partial[pid]`, `output`) and what is written through an open file (`fd`, `content`)
are told apart: `os.link` gives an inode its second name, and a packer that opens an existing partial name truncates
the inode under it. Of a tensor the model keeps which *version* of the source its bytes came from: `Record` hashes,
`CopyTensor` and `Convert` read the mapping again, each at its own time. The source changes in place (every
mapping of the file shows the new version) or is replaced (a mapping keeps the old one; verification, which opens
the path anew, sees the new one). `Raise` is an exception of any call and `Kill` the end of the process: neither
removes the partial file, and a later packer may have the pid of a dead one and find it.

No fairness is assumed and no liveness claimed: nothing obliges a packer to succeed. Packers terminate, so deadlock
is not checked.

## BackendLoader and TorchOps

`BackendLoader` is `state()` of `ppu_backend.cpp` step by step: take the mutex, find or insert the entry of the format,
`dlopen`, look the symbols up in the order of `Resolution`, release; then `load` or `load_format` reads the outcome
after the guard is gone. What a library file exports is any member of `Builds`; a file may be put on the disk while
the process runs (`Install`), which must not change a verdict already given.

`TorchOps` is what a thread does with it. `Route` is `routes.py` and the public ops: the checks Python makes and the
list of torch ops a call goes through. `Op` is the contract of each op of `gguf_prepass_ops.cpp`: its shape checks,
whether it returns early when there are no rows (before or after it asks the loader), what it does without the
library or without an optional symbol (refuse, compute on the host, or compute under the row limit), and its stages
of library calls, with the symbols each stage checks, the ones it calls and how often. An artifact is abstracted to
whose codes and scales every expert holds, the arrangement of the codes, and two integers: what the stored code is
ahead of the official one and what the zero plane is ahead by, in units of the scale. A reader subtracts what its
converter subtracts; `WeightsAreTheExperts` asks that all of it cancels, `RowsMeetTheirExpert` that every row is multiplied
by its own expert's. Ops that take offsets check that they do not decrease (`OffsetsSpan`); the loop of
`matmul_dequant_first_grouped` only checks the sum (`RowsSpan`), and what its slices do with a negative count is not
modelled, so no call of the run gives it one.

Fairness: `WF_vars(Works(t))`. A thread inside a call is scheduled again and the library's calls return. `lock_guard`
does not promise that a waiting thread ever wins the mutex; here every thread makes a bounded number of calls, so
a waiting one is the last at the latest. Nobody is obliged to start a call or to install a library. A process stops
when its callers are done, so deadlock is not checked.

## TacticSpace, LibraryEntries and TacticCache

`TacticSpace` is the format registry, the predicates of `ppu_tactic_space.hpp` and what the kernel types assert of their
own template arguments (`PolicyCompiles`, `GuardHolds`). There is no state, so what should hold is stated as
assumptions that TLC evaluates: the registry's and the header's own `static_assert`s, and `EmittedTacticsCompile`:
of the 23,040 tactics of the sweep domain, each of the 3,400 the sweep admits passes every assertion of the kernel.

`LibraryEntries` has one library build (`packed`, or none), one family and one problem in `shape`. `Valid` is the
exported predicate of a family, `Listed` its filtered list, `WorkspaceBytes` its query; `HostEntry` and `DeviceEntry`
are the guards of the C entries, each list in the order of the code with the code it returns. The caller may reserve
a buffer for one number of rows and call with another.

`TacticCache` is `tools/tune.py` on such a library: load the inventory, sweep, drop winners that are not compiled, stop
when two of a bucket disagree, validate each winner as inference will ask, write the temporary file, `fsync`, rename.
A file that was not synced is torn by a power loss; a kill leaves the temporary file; `Rebuild` replaces the library at
its path. What the bench measures is any choice of winners.

## WeightPlacement

The chain of `cutlass_preprocessors.cpp` as `weight_preprocess_ops.cpp` and the layout registry drive it: row permutation,
subbyte transpose, column interleave, AIU interleave, bias and word order, each an action that refuses what its code
refuses. A weight is the function `where` from an element's row-major place to its place in the buffer, so that a wrong
step shows for every content; `steps` collects the tokens of the steps taken. `StoredAsNamed` compares both with what the
name says: `Documented` is the meaning the comments give a token, written as tables and pictures independently
of the loops. `Restore` is the reader of `mixed_gemm`, `ConverterUndoesWord` the device's.

## CodeConverter and XplaneArtifact

`CodeConverter` is the arithmetic of `quactlize_mix_gemm_convert.h` and of the two-plane collective's high-plane
registers: what a pair masks, where it is written, the number it becomes. `XplaneArtifact` is
`quactlize_ppu_prepare_dense` and its inverse, one plane per step. The code does not state the place of an element; it
composes it from the register a code is delivered in, the converter's pairing and the element of B that the fragment
holds there, and so does `MapOf`. `PhysicalCode` is what the merged reader (`gguf_bc_vecdot.hpp`) thinks the place is:
a permutation of coordinate bits written by hand. Two facts come from code outside the repository and are
assumptions of the model: in which word the swizzled shared-memory load leaves a lane's codes (`Slot`), and which
elements of B a lane holds in the MMA fragment (`FragmentElement`, cute's `partition_B`).

## VecdotKernel

One warp of `vecdot_rows_kernel` or of the artifact's `rows_kernel`, its lanes in step: blocks, butterfly, store. A lane's
sum is the set of the products it added, and the butterfly counts how often a lane's sum is in another's, so a
group summed twice or not at all, or with another row's activation, shows. Decoding a code from a word is compared,
bit by bit, with the place the official block gives it (`OfficialDecodes`).

## MCLayouts

`MCLayouts` puts `KQuantArtifact`, `WeightPlacement`, `XplaneArtifact` and `VecdotKernel` into one run: a behaviour is one of
the four, and the variables of the others stand still.

## Runs

| run | instance | shows |
|---|---|---|
| `pipe_eager` | 2 threads that own half of a column's groups each, 3 stages, 4 deliveries, 4 tiles, 2 COARSE groups, fairness | the ring, the inductive invariant, the refinement and termination |
| `pipe_chunk` | two-plane: 3 threads, 2 columns (one copied twice), 3 stages, 3 tiles, two tiles per packed unit; folded: 4 stages, 2 tiles; 1 delivery | both chunked providers are right when a tile is one delivery; no neighbour's bytes are decoded; a ring deeper than K |
| `pipe_chunk_two_steps` | the two-plane provider, 2 deliveries per tile, 2 tiles | **violated**: the token names the next tile (below) |
| `grouped` | 3 experts with -1, 0 or 3 rows and up to 6 in all, two rows to an M-tile, 2 K-tiles, split up to 3, both routes, fairness | the search with empty experts in every position, refusals, the slices of K, the D planes, the order of metadata kernel and GEMM, termination; the inductive invariant |
| `rt_sync` | 2 threads, 2 calls each, all seven entries, CUDA `rt_sync` | a code of 0 means results or, on a stream, enqueued; failures cross; outputs are all or nothing; launches have their buffers; the inductive invariant |
| `rt_stale` | 1 thread, 2 calls, CUDA `rt_sync` | **violated**: an old error is reported again (below) |
| `rt_refusal` | 2 threads, 1 call each, HGGC `rt_sync` | **violated**: another thread's refusal is taken for one's own (below) |
| `layouts` | the four layout modules one at a time | round trips bit by bit, independent statements of one arrangement agree, names are true, each group is summed once |
| `publish` | 2 packers, 2 pids, 2 tensors of which one is selected, 2 changes of the source | what is published is verified, one version and final; the inductive invariant |
| `ops` | 2 threads, one of which asks for formats; every route; 5 libraries that lack something, or none, and one installed later | one verdict per format, no null call, each row meets its own weights, every call comes back |
| `ops_tile` | one thread, one route, Q2_K at TileK 64 | **violated**: the inverse has no TileK (below) |
| `entries` | 6 builds, 6 families, 5 qtypes and a wrong one, 10 tactic names, one wrong field at a time; the tuner with a kill, a power loss or a rebuild at every step | predicates and lists answer for the entries, one buffer covers smaller calls, the cache is whole and its winners run |

A run that checks an inductive invariant (`PipelineInv`, `GroupInv`, `EntriesInv`, `PublishInv`) checks the type invariant
with it: `TypeOK` is its first conjunct. The HGGC `rt_sync` is in `rt_refusal` and in the proofs.

Why the bounds are enough. The ring is periodic in `Stages` and its prologue, steady state and tail all occur with
a tile more than the ring is deep, which `pipe_eager` has; the folded instance of `pipe_chunk` has fewer. Two threads
suffice for a race and three for a column with two owners beside one with one. Three experts give the binary search
its two levels, an empty expert at either end and between. A tile of two rows and a count of three give the
partial tile. Two calls of a thread are what a stale error needs. Two packers are a race and, with two pids, a leftover
is found by its name or not; two tensors are what a change can come between, and two changes let it happen once while
copying and once while comparing.

`layouts`: K-pack columns 7 and 15 are a pair whose Q5_K high-plane bits share a word; K of 512 has two superblocks in a
unit and 768 is what the formats with shared units must refuse. The shapes of a weight are one that is a whole number of
every unit, and ones that break each refusal (96 rows, 40 columns, two experts, 256 multiples or not); of a weight the
columns `Watched` are followed, the first, the last of a group of four, one near the end of a tile and one of the third tile.
A dense artifact has every TileK the entries have a case for, one without a case and one too deep, and two calls
without the high pointers; of the eight rows a lane may have, `LaneRow` is one, since all maps carry it through
unchanged. The extents of a kernel are at the thresholds of `RowsPerWarp` and leave partial warps; the offsets have an
empty expert.

`entries`: rows of 0, 1, 17, 40 are refused, a partial tile, more than one and more than two; 61441 is one row above the
GEMV's ceiling. `Measured` 2 and 3 fall into one bucket; `AllRows` up to 4 has the buckets beside it. `ops`: two threads
meet in the loader, one installation is what a verdict must withstand, and the requests have an empty expert, a
wrong block count, a K of one superblock, no rows, and rows above and below the host limit.

## What the violated runs show

* `pipe_chunk_two_steps`: `run_mixed_pipeline` captures `consume_stage` at the top of every delivery, but the ring
  advances at delivery `KBlocks-2`, so for the last delivery the token is the next tile's stage. The two-plane
  chunked hook reads plane 2 and FINE metadata from it. The folded collective only chunks when a fragment is one
  delivery; the two-plane one has no such gate. With a K of one tile every stage holds the same tile (the tail
  reloads it), so a test of that size cannot see it. `TokenCorrectForOneDelivery` proves that one delivery is safe.
* `ops_tile`: `prepare_fully_quantized_dense` takes a `tile_k`, `dequantize_fully_quantized` does not and always calls
  the fixed inverse. For Q2_K at a TileK of 64 the plane is folded by two and the weights that come back are wrong,
  without an error; `dequantize_for_tile` in `ops` is the pair that works.
* `rt_stale`: clearing the latch leaves the runtime's last error, which the next call's `rt_check_launch` reads.
* `rt_refusal`: `lowbit_device` takes another thread's refused launch for its own.

Disagreements without a run of their own:

* `moe_grouped_ppu.cuh:356`: the status of the prefix copy is dropped, so `FailuresCross` (`gemv_rt.hpp:4`: every copy
  failure "must cross its C ABI") does not hold of `grouped` with the HGGC `rt_sync`. `rt_sync` checks it of the CUDA
  one, which finds the failure as the runtime's last error; the same configuration with `SyncReadsLastError = FALSE`
  shows the trace. `FailuresAreReturned` assumes exactly that this combination is absent.
* `ppu_dense_backend.cu:953`: `grouped` allocates its workspace after the last check of the latch and launches
  anyway, so what `gemv_rt.hpp:5-6` asks for ("check rt_ok() before launching") does not hold of it.
  `LaunchesWithBuffers` says it of every other entry, and `LaunchesHaveBuffers` proves that.
* `gguf_kpack.py:1141`: a partial file is told apart by `os.getpid()` only and its absence is checked long before it
  is opened. Two packers with one pid (threads of one process, or two containers on one directory) can write to the
  inode that is published already: with `PidsAreUnique = FALSE`, `PublishedIsVerified` is violated. All theorems about
  `PublishReference` assume `PidsAreUnique`.
* `quactlize_ppu_device.h:47-49` says the device-only workspace holds the M-tile prefix, but that route takes the 3D
  grid and never writes one.
* `gguf_packed_scale.h:44-53`, the hand-written Q4_K accessors, always touch a second byte, which
  `gguf_packed_unit.hpp:110-115` says must only be read when the field straddles; its own `code_of`, which
  `CodeOfBytes` models, does not.
* `mixed_gemm_B_layout.h` calls the interleaved layout memory-safe; for int8 weights whose K is 32 modulo 64, the
  rows are a multiple of the permutation but not of the 64-row tile, nothing checks them, and `interleave_column_major_tensor`
  writes past the buffer. `StoredAsNamed` admits the state `overrun` for exactly such weights.
* `ppu_backend.h:42-43` says a BC route must check `prepass_unit` and refuse; `gguf_packed_scale_prepass` computes on the
  host instead when it is missing.
* `matmul_dequant_first_grouped` checks the sum of the row counts and not their signs.
* The ops always call `load()`, the library of the default format; `load_format` has no caller in the repository.
* The name of `mixed_gemm_int2` ends in `bias`, but the two-bit step adds none; no op can reach that layout, since none
  takes the type. The other names say `cvtword_bias` while the code adds the bias first; the order does not matter.
* An invalid config is refused with 30 by `grouped_lowbit_dev_v2` and with 31, by the launch, by the fully quantized
  device entries. `dense_lowbit_config_v1` does not look at the high plane's pointer, so a missing one is a failed copy
  (41). `quactlize_ppu_gemv_lowbit` divides by the group size before it validates it. `gemv_lowbit_dev_v1` refuses a
  name that is not compiled, for which the host entry runs the default. The vecdot predicate admits an unknown qtype
  with group size 0, whose entry then returns 2, although `quactlize_ppu_config.h:62-64` promises a 1 "only when
  config_name names a compiled tactic that the corresponding shipping entry can run for this problem": `Problems`,
  over which `QueryAndEntryAgree` is proved, leaves out exactly those.
* The cache records a hash of the ELF at its path while validity was asked of the library loaded earlier: after a rebuild
  in between they differ, which is why `CachedWinnersRun` speaks of the build that was asked. The GEMV's ceiling of 61440
  rows lies inside bucket 32768, so a bucket's winner need not run for all of it; the sizes measured are far below.
* `quactlize_ppu_prepare_dense` has written the low plane when it refuses a missing high pointer (21). Two guards of
  `tile_map_hi` (`v2 >= 4`, `row2 >= Ng2`) never fire.

## Proofs

`MixedPipelineProofs` proves, for all values of the constants that satisfy `PipelineAssumption`, `RingInv` and from
it `TypeOK`, `NoCopyIntoStageBeingRead`, `StageHoldsItsTile` and `NothingInFlightAtExit`, as invariants of `Spec`;
then `PipelineInv`, and from it the refinement `Implements` for the eager and the folded provider at any size and for
the two-plane one when a tile is one delivery; and `TokenNamesConsumedTile` when `KBlocks = 1`. The run
`pipe_chunk_two_steps` is the case both theorems exclude; `pipe_chunk` checks both properties on chunked instances.

None of these is inductive. What makes the ring work is that the barrier keeps all threads at the same *round*:
`RingInv` (module `MixedPipelineInv`) defines `Rounds(t)`, the number of barriers thread t has been released from,
out of its `pc`, `kBlock` and `tileCount`, and says that rounds agree; that the n-th copy group of any thread goes
to stage `(n-1) % Stages` and carries tile `n-1`, or the last one; that a group no later than the round has landed;
and that nobody has issued more than `Stages-1` groups beyond it. Two groups into the same stage are `Stages`
apart, so no group in flight targets the stage of the round — which is the safety property. `TypeInit`, `TypeStep`,
`RingInit` and `RingStep` are the inductive steps, one case per action.

`PipelineInv` adds what a thread's registers hold. A thread has prepared the delivery it consumes next and, between
`prefetch` and `consume`, the one after it; `DeliveryInv` names the tile and k-step of the latter (`LatestTile`,
`LatestStep`) and says that fragments and COARSE scales are of their tile and step, and that `acc` is as long as the
deliveries behind the thread. A consume is then the abstract step for the next fragment, every other action a stutter.

`PublishReferenceProofs` proves, under `PidsAreUnique` and for any number of packers, pids, tensors and changes of the
source, that `PublishInv` is an invariant, and from it `PublishedIsVerified`, `PublishedIsOneVersion`,
`SuccessPublishes` and the action property `PublishedNeverChanges`. The argument has two halves. Live packers have
distinct pids, so the inode a partial name leads to was created by the only live packer that may use that name
(`NamesLeadToMakers`, `OwnName`): an inode has one writer, and that writer has finished before it verifies and links
it. And versions only grow: a copy is never newer than what its mapping shows (`CopiesAreOlder`), so a tensor found
equal to the source at comparison time is the newest of the copies (`ComparedAreNewest`); when all have been
compared, each is the newest, and they are of one version although no snapshot was ever taken.

`GroupedScheduleProofs` proves, for all values of the constants that satisfy `ScheduleAssumption`, that `GroupInv` is
an invariant of `Spec`, and from it `TypeOK`, `SearchBracketsTile` (what `BlockInv` says of a search), `FlatGridHasNoIdleBlock`, `SlicesStayInK`,
`StoresOwnExpertRows` and `NoOutputStoredTwice`. `GroupInv` says of each loop of the host what it has built when it is
at expert `cursor`: the offsets are the running sum and do not decrease, `maxRows` is one of the counts (so the largest
M-tile count exists), the prefix is the running sum of M-tiles and `total` equals it at `cursor`. Of a launched grid it
says that a flat one is as long as the prefix and a 3D one has a plane for every expert and slice; of a block that its
search brackets the flat index, or that `blockIdx.z` named its expert. `StoredBlock` reads off that a storing block's
expert, M-tile and slice determine its place in the grid; two blocks with a row in common have the same expert, since
the offsets do not decrease, then the same M-tile and, by the D plane, the same slice.

`OutputsAreComplete` adds the other half: once the grid has drained, some block has stored every element. Offsets and
prefix are step functions over the experts; a function that starts at or below a value and ends above it passes it
somewhere (`Passes`, from a least element, since induction is not available), so every row has an expert and every
flat index a bracket. `RequestMet` says that what was sized covers the request: the offsets end at `totalRows`, a flat
grid is as long as the prefix, a uniform one has the M-tiles of the longest expert. The host route checks that; on the
device route it is the caller's promise, which `Init` takes from `DeviceContract`.

`RuntimeEntriesProofs` proves, for any threads, any subset of the entries, either `rt_sync` and any number of calls,
that `EntriesInv` is an invariant, and from it `ErrorLeavesOutputs` and `ZeroMeansEnqueued`; with the CUDA `rt_sync`
also `SuccessMeansResult`, without `grouped` also `LaunchesWithBuffers`, and unless both `grouped` and the HGGC
`rt_sync` are there also `FailuresCross`. The invariant is a conjunction over threads, and a step of one leaves what
it says of the others alone (`OthersUntouched`): latch and last error are the thread's own, and the refusal count,
which is shared, only chooses between codes. For one thread it says where a failure is kept until someone looks: a
null buffer is latched until `rt_ok` is asked; a launch that did not start is the last error until `rt_check_launch`
or the CUDA `rt_sync` takes it; the prefix copy, whose status is dropped, is the last error only, which is why the HGGC
`rt_sync` loses it.

`TorchOpsProofs` proves, for any threads, formats, library files and calls that satisfy `LoaderAssumption` and
`WorkAssumption`, first `LoaderInv`: the mutex is held from the look-up to the release, an entry is *settled* once it
is known and nobody is attempting it, a thread past the critical section asked for a settled entry, and whatever a
thread was told is what the entry still says. `OneVerdict` follows: what is read after the guard is gone is settled,
and no step changes a settled entry. Then `OpsInv`: the ops left of a job are a chain in which each may follow the one
before (`Follows`), the artifact is what the op is *owed* (`Owed`), and a thread in a library call has a loaded
library with the symbols of its stage. `OpFacts` goes through all ops once and states what each checks, calls and
makes; the routes are chains by inspection. `NoUnresolvedCall` needs no more. `WeightsAreTheExperts` needs
`TilesReachTheirReader` besides: no request that names a TileK goes through a reader of the fixed arrangement. The run
`ops` satisfies it, `ops_tile` does not, and that is the finding: no op can check it, since the artifact does not
carry its tile.

`RowsMeetTheirExpert` is proved of the same specification (`RowsReachTheirExperts`). The offsets (`CountTo`), the loop
(`ByLoop`) and the gathering it is compared with (`FlattenSeq`) are recursive functions, so first each is shown to
satisfy its own equation, which takes that such a function exists (`StepsRecur`); then that at every expert the rows so
far meet the expert whose share they are in (`Met`), and a row is in one share only because offsets do not decrease. The
invariant `RowsInv` carries the counts from the route, which may have checked them, to the op that uses them
(`CountsHold`). It needs `LoopCountsAreCounts`: no negative count for the loop, which is the one place that does not
refuse it.

`LibraryEntriesProofs` proves `LibInv`, which says that the last answer is the entry's own for the caller's rows, name
and workspace, and from it `QueryAndEntryAgree` and `WorkspaceHolds`, for every integer problem in `Problems` and not
only for those a run starts from. Both come down to `Align16` and `CeilDiv` growing with their arguments, so that a
layout for more rows holds one for fewer, and to the guards of predicate and entry compared family by family.
Of the tuner it proves `CacheInv` and from it `CachedWinnersRun`: from the write on, the winners in hand are valid for
the build that was asked; the temporary file holds them, whole after the sync; so what is renamed is whole and every
entry of it is *good* (`GoodEntry`), valid at rows of its own bucket. That it then runs for all of the bucket
(`ValidForTheBucket`) needs `BucketsBelowCeiling`: the GEMV's ceiling of 61440 rows lies inside bucket 32768, so a
winner measured in that bucket is not one for all of its rows. What is measured comes from a list (`N_TOKENS` of
`workloads.py`) that is not in the repository; the run's `Measured` and `AllRows` satisfy the assumption.

`LayoutsProofs` proves `EveryGroupSummedOnce` for a warp in a launch of any extents and row offsets, alone
(`WarpsSumEveryGroup`) and beside the producers (`WarpsSumEveryGroupBesideProducers`). `WarpInv` says what a lane has added
after each block (`AddedUpTo`) and, between two exchanges of the butterfly, whose sums are in whose: a lane reaches
those of its row that are a multiple of `Apart` away, twice the next distance. An exchange halves that, because the
partner is in the same row and of the other half (`PartnerIsHalfway`); at the end a lane has every lane of its row, once,
and of no other. A group has one lane (`GroupOwner`), so each product is in one sum (`ProductHasALane`). That word, pair
and scalar decodes read the official bits (`AllDecodesOfficial`) is arithmetic on the coordinates of a code, format by
format where the offsets differ.

It also proves `RecoverIsInverse` for any formats, extents, number of experts and set of columns (`ArtifactsRecover`,
and `ArtifactsRecoverBesideReaders` in the specification of the run). `ArtifactInv` says what the artifact holds of the
blocks done so far: at a code's place that code's bits (`CodesHeld`), at a unit's bit exactly the official bit it stands
for (`MetaHeld`), nothing else in the units (`UnitsAreMeta`), and of the blocks recovered all bits in place
(`BlocksRecovered`). A step keeps it because no two codes share a place: the word and slot of a code are the digits of a
mixed-radix number from which expert, column and position are read back (`PlacedApart`, `CodesApart`; the transposed
plane of Q5_K has digits of its own), a unit's bit determines unit and offset, and the offset alone determines the
official bit (`OfficialOf`), so two writes to one bit carry the same origin and the OR mixes nothing. Last, every bit of
an official block belongs to a code or to a field (`EveryBitCovered`), byte range by byte range, and none lies outside
(`CodesFit`, `HeaderFits`).

It proves `RestoreIsInverse`, for calls of any shapes (`WeightsReadBack`, `WeightsReadBackBesideReaders`). What can be
read back is a `mixed_gemm` weight of int4 codes, one matrix whose rows are a multiple of 256 (`Restorable`). `PlaceInv`
says where the element at x stands at each stage (`PlaceAt`: its row permuted, then in its column, then with its word in
the line of four columns, then in the order of the word) and, from the interleave on, that the columns fill their tiles,
which is the one check of shape the inverse needs from the chain. The steps are inverted one by one (`TilePlaces`,
`CellParts`, `LineReturns`, `WordPlaces`); the reader finds a word by searching its group of columns, so the proof shows
that no other word of the group has that place (`InGroupApart`). The converter's half (`WordsUndone`) goes through the
elements of a word for both widths.

It proves `StoredAsNamed`, for calls of any shapes and every arrangement, int4 and int8, with and without the AIU's
tiles (`WeightsAreStoredAsNamed`, `WeightsAreStoredAsNamedBesideReaders`). `NamedInv` says three things: what a call that
has come as far as a stage is known to be (`AtStage`: a named layout's plan is that of the registry, an arrangement for
the AIU has int4 codes and extents that fill its tiles, past the interleave all extents fill the tile); that the steps
taken are those that lead to the stage (`StepsAt`); and that every element has a trace, a sequence of places, one per
step, from its row-major place to its present one, in which the documented picture of each step, undone, gives the place
before (`TracedBy`). A step of the chain lengthens every trace by one place, and this is where its arithmetic is shown
against its picture: a row permuted within its 16 or 32 (`PermutedMoves`), the transpose (`TransposedMoves`), words in a
line of columns (`LinedMoves`), the AIU's tiles (`AiuMoves`), the order of a word (`RelayoutMoves`). At the end a
trace read backwards is what the property computes by recursion over the steps (`TraceUnwinds`, by `CountUp`). A
ragged int8 weight reaches the interleave, which checks whole vectors and not whole tiles; the proof shows that exactly
then the last line leaves the buffer (`WholeLinesStay`, `RaggedLinesOverrun`).

Last it proves `StatementsAgree`, for every format a request can name (`OfficialStatementsAgree`,
`OfficialStatementsAgreeBesideReaders`). The invariant is only that the request's format is one of `Formats`; the work is
in what is stated of a format. Codes, scales and minimums are compared coordinate by coordinate (`LowStatements`,
`HighStatements`, `ScaleStatements`, `MinStatements`). A field ends within the unit of its superblock (`FieldInUnit`), so
the bytes and words a reader takes are those the field is in and no other (`RangeIsRead`, `ReadersStay`). For the
converter, the recursion that emits an output is unrolled once for each bit of a code (`EmissionIs`): the number of an
output has the bits of the code and of its register as digits, so outputs and codes correspond one to one, and the
chunks of a conversion fill its fragment with no pair of outputs twice (`Emissions`, `Chunks`). A scaled code and its
bias stay below 1024, the mantissa's field, so that the subtraction leaves the code less its bias (`ScaledExactly`,
`Conversions`). For two planes, the read of the high plane that takes a code is written down and shown to be the only
one, so each code is taken once, with the low bits it belongs to (`HighPlanes`). The widths a converter is built for
(one, two and four bits) are the cases of these proofs; packs, registers and pairs are not gone through.

The constants have the assumptions these proofs need and no more: rows are integers (`EntriesAssumption` of
`LibraryEntries`, `CacheAssumption`), no thread is called nobody, the default format is none of the variable's
(`LoaderAssumption`), calls are of routes and requests that exist, with row counts only where a route takes them (`WorkAssumption`), the formats of the artifacts are
those of `Quant` and there is an expert (`LayoutAssumption`), shapes are positive and columns natural numbers
(`PlacementAssumption`), and row offsets are natural numbers (`VecdotAssumption`).

`ProofArithmetic` has the lemmas all of them share: positions modulo the length of a ring, rounding up, two numbers
packed into one, and induction over the natural numbers as the existence of a least element, the one form the
provers can use (`LeastNumber`, `CountUp`). From it follows that the steps of a recursive function can be taken
(`StepsRecur`): what `f[i] == .. f[i - 1] ..` chooses is then there to be chosen, and satisfies its equation.

Only model-checked:

* `Completes`, `CallEnds` and `CallsReturn`: liveness is out of the prover's reach.
* `PlacedAsRead` of the run `layouts`, for its size and not for its form: the placement of a bit plane is a sum of
  strides over nested tiles, one table per format and tile, and a proof would need the arithmetic of each table.
* `ChunkedTokenNamesTile` and `ChunkedImplements` as such, which are about one module that holds two instances;
  `TokenCorrectForOneDelivery` and `PipelineImplements` say the same of each for every value of its constants.

## Not modelled

* The body of the low-bit GEMV kernel (`gemv_kernel.hpp`); of the tensor-core mainloops, CuTe layouts and the MMA
  itself (a copy, a read and a decode are taken to address the cells their coordinates say).
* fp16 rounding and the order of sums: conversions are exact where the model checks them, scales and products symbolic.
* The merge of split-K partials and the launch of `cutlass`'s adapter, which are outside the repository.
* Of the C entries, address overflow and the contents of pointers beyond null or not.
* GGUF metadata, the manifest and the names of carriers; the JSON of the tuner and its bench.
* Widths and tiles of the offline layouts that no format uses.
* Builds, CI, tests and benchmarks.
