----------------------------- MODULE TacticCache -----------------------------
(***************************************************************************)
(* tools/tune.py: the bench's winners for one shape become the cache file  *)
(* of one library.  The tuner may be killed, or the power lost, at any     *)
(* step, and the library at its path may be rebuilt under it.              *)
(***************************************************************************)
EXTENDS LibraryEntries

CONSTANTS Measured,      \* the activation rows the bench ran
          AllRows,       \* rows a reader may look up
          TunedTypes     \* the qtypes the tuner is run for
ASSUME CacheAssumption == Measured \subseteq Int /\ AllRows \subseteq Int

VARIABLES tuner,         \* its step, the winners, the build it asks
          temp, file     \* the temporary file and the cache file
cacheVars == <<tuner, temp, file>>

TopK == 2
Routes == {"dense_lowbit", "dense_fully_quantized", "grouped_lowbit", "grouped_fully_quantized"}
OwnBuilds(q) == {-1, ForQtype(q).packed}
Tunable(s) ==
  /\ s \in SoundShapes /\ s.family \in Routes
  /\ s.qtype \in TunedTypes /\ s.packed \in OwnBuilds(s.qtype)
None == "none"
NoBuild == -2
CudaName(s) == IF Grouped(s) THEN GroupedCuda ELSE DenseCuda
Inventory(s) == Compiled(s) \cup {CudaName(s)}

(* The last power of two not above m; non-positive m has no bucket.  The   *)
(* powers are bounded by 65536, above the rows any entry takes.            *)
Powers == {1, 2, 4, 8, 16, 32, 64, 128, 256, 512, 1024, 2048, 4096, 8192, 16384, 32768, 65536}
MBucket(m) == IF m <= 0 THEN 0 ELSE Max({b \in Powers : b <= m})

(* Ask what inference will ask: a CUDA record has a predicate of its own,  *)
(* or none on its route, and a grouped winner must stand the distribution  *)
(* that gives one expert everything.                                       *)
CudaRoute(s) == s.family \in {"dense_lowbit", "grouped_fully_quantized"}
Asked(s, name) ==
  IF name = CudaName(s)
  THEN [s EXCEPT !.family = IF Grouped(s) THEN "vecdot_moe" ELSE "gemv_lowbit"] ELSE s
Assignments(s, m) == IF Grouped(s) THEN m * TopK ELSE m
WinnerValid(s, m, name) ==
  /\ name = CudaName(s) => CudaRoute(s)
  /\ Valid(Asked(s, name), Assignments(s, m), "one", name)

Resolved(won) == {m \in Measured : won[m] # None}
Disagree(won) ==
  \E a, b \in Resolved(won) : MBucket(a) = MBucket(b) /\ won[a] # won[b]
Entries(won) == {[bucket |-> MBucket(m), config |-> won[m]] : m \in Resolved(won)}

(* A file's data is in memory until fsync: a power loss tears what is not. *)
NoFile == [is |-> "absent", entries |-> {}, asked |-> NoBuild, elf |-> NoBuild]
Contents(is, entries, asked, elf) ==
  [is |-> is, entries |-> entries, asked |-> asked, elf |-> elf]
Surviving(f) == IF f.is = "unsynced" THEN [f EXCEPT !.is = "torn"] ELSE f

Idle == [step |-> "off", won |-> [m \in Measured |-> None], asked |-> NoBuild]
CacheInit ==
  /\ tuner = Idle /\ temp = NoFile
  /\ \/ file = NoFile
     \/ /\ Tunable(shape)
        /\ Valid(shape, 1, "one", "")
        /\ file = Contents("whole", {[bucket |-> 1, config |-> Configs(shape)[1].name]},
                           shape.packed, shape.packed)

Tuning == tuner.step \notin {"off", "done"}
LoadInventory ==
  /\ tuner.step = "off" /\ Tunable(shape)
  /\ tuner' = [tuner EXCEPT !.step = "sweep", !.asked = shape.packed]
  /\ UNCHANGED <<temp, file, shape>>
(* One bench verdict for each m; a winner the library has not is dropped,  *)
(* two winners of one bucket that differ end the tuner.                    *)
Sweep ==
  /\ tuner.step = "sweep"
  /\ \E won \in [Measured -> Inventory(shape) \cup {None, "other"}] :
       LET kept == [m \in Measured |-> IF won[m] \in Inventory(shape) THEN won[m] ELSE None]
       IN  tuner' = [tuner EXCEPT !.won = kept,
                       !.step = IF Disagree(kept) THEN "done" ELSE "validate"]
  /\ UNCHANGED <<temp, file, shape>>
(* The path is loaded again, which is the build already loaded unless the  *)
(* file was replaced; one refusal and nothing is written.                  *)
Validate ==
  /\ tuner.step = "validate"
  /\ \E build \in {tuner.asked, shape.packed} :
       tuner' = [tuner EXCEPT !.asked = build,
         !.step = IF \A m \in Resolved(tuner.won) :
                       WinnerValid([shape EXCEPT !.packed = build], m, tuner.won[m])
                  THEN "write" ELSE "done"]
  /\ UNCHANGED <<temp, file, shape>>
(* Mutant: renamed before its data is on disk. *)
Write_NoSync ==
  /\ tuner.step = "write"
  /\ temp' = Contents("unsynced", Entries(tuner.won), tuner.asked, shape.packed)
  /\ tuner' = [tuner EXCEPT !.step = "replace"]
  /\ UNCHANGED <<file, shape>>
Write ==
  /\ tuner.step = "write"
  /\ temp' = Contents("unsynced", Entries(tuner.won), tuner.asked, shape.packed)
  /\ tuner' = [tuner EXCEPT !.step = "sync"]
  /\ UNCHANGED <<file, shape>>
Sync ==
  /\ tuner.step = "sync"
  /\ temp' = [temp EXCEPT !.is = "whole"] /\ tuner' = [tuner EXCEPT !.step = "replace"]
  /\ UNCHANGED <<file, shape>>
Replace ==
  /\ tuner.step = "replace"
  /\ file' = temp /\ temp' = NoFile /\ tuner' = [tuner EXCEPT !.step = "done"]
  /\ UNCHANGED shape
(* Any failure from the write to the rename removes the temporary file.    *)
FailAndUnlink ==
  /\ tuner.step \in {"write", "sync", "replace"}
  /\ temp' = NoFile /\ tuner' = [tuner EXCEPT !.step = "done"]
  /\ UNCHANGED <<file, shape>>
(* Not the code's: killed, or powered off.  The temporary file stays.      *)
Kill ==
  /\ Tuning /\ tuner' = [tuner EXCEPT !.step = "done"]
  /\ UNCHANGED <<temp, file, shape>>
PowerLoss ==
  /\ tuner' = [tuner EXCEPT !.step = "done"]
  /\ temp' = Surviving(temp) /\ file' = Surviving(file)
  /\ UNCHANGED shape
Rebuild ==
  /\ Tuning /\ \E build \in OwnBuilds(shape.qtype) : shape' = [shape EXCEPT !.packed = build]
  /\ UNCHANGED cacheVars
CacheNext ==
  \/ LoadInventory \/ Sweep \/ Validate \/ Write \/ Sync \/ Replace \/ FailAndUnlink
  \/ Kill \/ PowerLoss \/ Rebuild

(* Both components over one library.                                       *)
Init == LibInit /\ CacheInit
Next ==
  \/ LibNext /\ tuner = Idle /\ file = NoFile /\ UNCHANGED cacheVars
  \/ CacheNext /\ held = -1 /\ call = NoCall /\ UNCHANGED <<held, call>>
Spec == Init /\ [][Next]_<<libVars, cacheVars>>

(* Whatever is killed, powered off or rebuilt, the file is never torn, and *)
(* the build that was asked for a winner runs it, by the entry of the      *)
(* route, for every m of its bucket, however a grouped problem's rows fall. *)
CachedWinnersRun ==
  /\ file.is # "torn"
  /\ \A e \in file.entries : e.config = CudaName(shape) => CudaRoute(shape)
  /\ \A e \in file.entries, m \in AllRows, spread \in Spreads :
       MBucket(m) = e.bucket =>
         LET s == Asked([shape EXCEPT !.packed = file.asked], e.config)
             rows == Assignments(s, m)
         IN  HostEntry(s, rows, MaxRows(rows, s, spread), e.config) = 0
=============================================================================
