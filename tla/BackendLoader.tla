--------------------------- MODULE BackendLoader ---------------------------
(***************************************************************************)
(* ppu_backend.cpp: the device library of a packed format is opened once,  *)
(* under one static mutex, and what came of it is remembered for the life  *)
(* of the process. Every op asks the loader again on every call.           *)
(***************************************************************************)
EXTENDS Integers, Sequences, FiniteSets, SequencesExt

CONSTANTS
  Threads,
  AllFormats,      \* the formats a caller may name, Default among them
  Default,         \* kDefaultFormat
  FormatEnv,       \* formats with a QUACTLIZE_PPU_LIB_FMT<k> of their own
  Builds,          \* the export sets of the library files there may be
  Disks,           \* what the disk may hold at first
  MaxInstalls      \* bound: how often a file is put on the disk

VARIABLES
  disk,            \* path -> the symbols the file there exports, or NoFile
  installs,        \* files put there so far
  entry,           \* static std::map<int, State>: format -> State, or Untried
  owner,           \* who holds the mutex, or Nobody
  step,            \* thread -> where it is inside state()
  asked,           \* thread -> the format it asks for
  handle,          \* thread -> what its dlopen returned
  seen             \* history: thread -> format -> the verdict it last got

loaderVars == <<disk, installs, entry, owner, step, asked, handle, seen>>

NoFile == {"no file"}
Nobody == "nobody"
Untried == [ok |-> FALSE, api |-> {"untried"}]
NotAttempted == [ok |-> FALSE, api |-> {}]
NotAsked == Untried

(* The symbols in the order state() asks dlsym for them; without one of    *)
(* Required it returns at once, the others are left null.                  *)
Resolution ==
  <<"vecdot", "vecdot_dense", "vecdot_moe", "dequantize", "prepass", "prepass_unit",
    "units_bytes", "prepare_units", "prepare_units_grouped", "bc_gemv", "gemv_lowbit",
    "prepare_dense", "recover_dense", "prepare_dense_for_tile", "recover_dense_for_tile",
    "dense_lowbit", "dense_fully_quantized", "grouped_fully_quantized">>
Required == {"vecdot", "vecdot_moe", "dequantize", "prepass", "gemv_lowbit"}
Symbols == Range(Resolution)

LibraryPath(f) ==
  IF f = Default THEN <<"base">>
  ELSE IF f \in FormatEnv THEN <<"env", f>> ELSE <<"base", f>>
Paths == {LibraryPath(f) : f \in AllFormats}

ASSUME LoaderAssumption ==
  /\ Nobody \notin Threads /\ Default \in AllFormats /\ FormatEnv \subseteq AllFormats \ {Default}
  /\ Builds \subseteq SUBSET Symbols /\ MaxInstalls \in Nat
  /\ Disks \subseteq [Paths -> Builds \cup {NoFile}]

(* What is in the State once the handle's symbols have been looked up.     *)
ResolveAny(lib) == [ok |-> TRUE, api |-> lib]     \* mutant: no symbol is insisted on
Resolve(lib) ==
  LET Reached(i) == \A j \in 1 .. i : Resolution[j] \in Required => Resolution[j] \in lib
  IN  [ok |-> Required \subseteq lib,
       api |-> {Resolution[i] : i \in {j \in 1 .. Len(Resolution) : Resolution[j] \in lib /\ Reached(j)}}]

Verdicts == {NotAsked, NotAttempted} \cup {Resolve(b) : b \in Builds \cup {Symbols, NoFile}}

LoaderTypeOK ==
  /\ disk \in [Paths -> Builds \cup {Symbols, NoFile}] /\ installs \in 0 .. MaxInstalls
  /\ entry \in [AllFormats -> Verdicts] /\ owner \in Threads \cup {Nobody}
  /\ step \in [Threads -> {"out", "waits", "locked", "opened", "found", "returned"}]
  /\ asked \in [Threads -> AllFormats] /\ handle \in [Threads -> Builds \cup {Symbols, NoFile}]
  /\ seen \in [Threads -> [AllFormats -> Verdicts]]

LoaderInit ==
  /\ disk \in Disks /\ installs = 0
  /\ entry = [f \in AllFormats |-> Untried] /\ owner = Nobody
  /\ step = [t \in Threads |-> "out"] /\ asked = [t \in Threads |-> Default]
  /\ handle = [t \in Threads |-> NoFile]
  /\ seen = [t \in Threads |-> [f \in AllFormats |-> NotAsked]]

(* Somebody builds the whole library while the process runs.               *)
Install ==
  /\ installs < MaxInstalls
  /\ \E p \in Paths :
       /\ disk[p] # Symbols
       /\ disk' = [disk EXCEPT ![p] = Symbols]
  /\ installs' = installs + 1
  /\ UNCHANGED <<entry, owner, step, asked, handle, seen>>

In(t, where) == step[t] = where
To(t, where) == step' = [step EXCEPT ![t] = where]

Ask(t, f) ==
  /\ In(t, "out") /\ To(t, "waits") /\ asked' = [asked EXCEPT ![t] = f]
  /\ UNCHANGED <<disk, installs, entry, owner, handle, seen>>

NoLock(t) == TRUE                                    \* mutant: the guard is forgotten
MutexFree(t) == owner = Nobody

Acquire(t) ==
  /\ In(t, "waits") /\ MutexFree(t) /\ To(t, "locked")
  /\ owner' = t
  /\ UNCHANGED <<disk, installs, entry, asked, handle, seen>>

KnownWhenLoaded(e) == e.ok                           \* mutant: a failure is tried again
Known(e) == e # Untried

Find(t) ==
  /\ In(t, "locked") /\ Known(entry[asked[t]]) /\ To(t, "found")
  /\ UNCHANGED <<disk, installs, entry, owner, asked, handle, seen>>

(* states[fmt] is inserted before the file is opened.                      *)
Open(t) ==
  /\ In(t, "locked") /\ ~Known(entry[asked[t]]) /\ To(t, "opened")
  /\ entry' = [entry EXCEPT ![asked[t]] = NotAttempted]
  /\ handle' = [handle EXCEPT ![t] = disk[LibraryPath(asked[t])]]
  /\ UNCHANGED <<disk, installs, owner, asked, seen>>

LookUp(t) ==
  /\ In(t, "opened") /\ To(t, "found")
  /\ entry' = [entry EXCEPT ![asked[t]] = IF handle[t] = NoFile THEN @ ELSE Resolve(handle[t])]
  /\ UNCHANGED <<disk, installs, owner, asked, handle, seen>>

KeepsOnFailure(t) == IF handle[t] = NoFile THEN t ELSE Nobody     \* mutant: early return
OwnerAfter(t) == Nobody
(* The lock_guard goes out of scope on every way out of state().           *)
Release(t) ==
  /\ In(t, "found") /\ To(t, "returned") /\ owner' = OwnerAfter(t)
  /\ UNCHANGED <<disk, installs, entry, asked, handle, seen>>

(* load(), load_format(): ok and api are read from the State that state()  *)
(* returned a reference to, after its guard has gone.                      *)
ReadVerdict(t) ==
  /\ In(t, "returned") /\ To(t, "out")
  /\ seen' = [seen EXCEPT ![t][asked[t]] = entry[asked[t]]]
  /\ UNCHANGED <<disk, installs, entry, owner, asked, handle>>

Inside(t) == Acquire(t) \/ Find(t) \/ Open(t) \/ LookUp(t) \/ Release(t)
-----------------------------------------------------------------------------
(* All callers get one answer about a format, for the life of the process: *)
(* whoever comes second, or during the first attempt, or after the file on *)
(* the disk has changed, is told what the first one was told, and "loaded" *)
(* is only said of a library that has every required symbol.               *)
OneVerdict ==
  [][\A t, u \in Threads, f \in AllFormats :
       /\ seen[t][f] # NotAsked => seen'[u][f] \in {NotAsked, seen[t][f]}
       /\ seen'[t][f].ok => Required \subseteq seen'[t][f].api]_loaderVars
=============================================================================
