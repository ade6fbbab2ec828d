---------------------------- MODULE RuntimeEntries ----------------------------
(***************************************************************************)
(* The C entries of libquactlize_ppu.so seen from their error handling:    *)
(* host threads call one entry after another, each call clears the         *)
(* thread's error latch, allocates and fills device buffers, launches,     *)
(* synchronizes and copies its outputs back, or only enqueues. Any runtime *)
(* call may fail. The device runtime is external: an error also becomes    *)
(* its last error of that host thread, which peeking leaves in place.      *)
(***************************************************************************)
EXTENDS Integers, Sequences, FiniteSets

CONSTANTS
  Threads,            \* host threads
  Entries,            \* the kinds of entries they call
  SyncReadsLastError, \* rt_sync is the CUDA one; the HGGC one only synchronizes
  MaxCalls            \* bound on the calls a thread makes

(* The host entries differ in what surrounds the launch: "plain" and "two" *)
(* (with two outputs) launch a kernel and synchronize, "checked" looks at  *)
(* the launch status in between, "lowbit" also compares gemv_fail_count    *)
(* around its launch, "grouped" (with ragged experts) first allocates a    *)
(* workspace and copies the M-tile prefix into it.                         *)
(* The device-pointer entries enqueue on the caller's stream and return,   *)
(* "metadata" after a kernel that prepares the problem shapes.             *)
HostEntries   == {"plain", "two", "checked", "lowbit", "grouped"}
DeviceEntries == {"enqueue", "metadata"}

ASSUME EntriesAssumption ==
  /\ Threads # {}
  /\ Entries \subseteq HostEntries \cup DeviceEntries
  /\ SyncReadsLastError \in BOOLEAN
  /\ MaxCalls \in Nat

Status == {"Ok", "Allocation", "HostToDevice", "DeviceToHost", "Synchronize",
           "HostAllocation", "Launch"}
kRuntimeError == 41
kRefused      == 31   \* any of the codes an entry refuses a problem with

VARIABLES
  latch,     \* g_rt_status, thread local
  lastError, \* the runtime holds an unread error of this host thread
  pc,        \* where the thread is in its call
  entry,     \* the entry it called
  pos,       \* the DevBuf, or the output, it is at
  dev,       \* what its device buffers hold
  ran,       \* the kernels its launches started
  failed,    \* the runtime calls that failed in this call (history)
  out,       \* what the caller's output buffers hold
  rc,        \* the return code of its last call
  calls,     \* calls made so far
  failCount, \* gemv_fail_count(), a static of the whole process
  seen       \* the value of it this thread last read

runtime == <<latch, lastError>>
counter == <<failCount, seen>>
call    == <<entry, dev, ran, failed>>
vars    == <<runtime, pc, pos, call, out, rc, calls, counter>>

Outputs(e) == IF e = "two" THEN 2 ELSE 1
OneMore(e) == 2 + Outputs(e)  \* mutant: a loop over the buffers runs once too often
Buffers(e) == 1 + Outputs(e)  \* buffer 1 holds the inputs, the rest the outputs
Workspace  == 3               \* the buffer "grouped" has besides those
OutIds     == 1 .. 2
BufIds     == 1 .. 3
NoBuffers  == [b \in BufIds |-> "absent"]
Untouched  == [i \in OutIds |-> "caller"]
Kernels(e) == IF e = "metadata" THEN {"metadata", "gemm"} ELSE {"gemm"}

SharedLatch(t) == CHOOSE u \in Threads : TRUE   \* mutant: the latch is a plain global
LatchOf(t) == t

NotChecked(t) == TRUE                           \* mutant: the status is not looked at
RtOk(t) == latch[LatchOf(t)] = "Ok"

(* rt_record keeps the first error of the operation.                       *)
Record(t, status) ==
  latch' = IF RtOk(t) THEN [latch EXCEPT ![LatchOf(t)] = status] ELSE latch

(* A runtime call and its wrapper: a failure is latched, and it is also    *)
(* the runtime's last error.                                               *)
Fails(t, status) ==
  /\ lastError' = [lastError EXCEPT ![t] = TRUE]
  /\ failed' = [failed EXCEPT ![t] = @ \cup {status}]

Wrapped(t, status, ok) ==
  IF ok THEN UNCHANGED <<runtime, failed>>
        ELSE Record(t, status) /\ Fails(t, status)

Goto(t, l) == pc' = [pc EXCEPT ![t] = l]

Return(t, code) ==
  /\ Goto(t, "returned")
  /\ rc' = [rc EXCEPT ![t] = code]
-----------------------------------------------------------------------------
Init ==
  /\ latch = [t \in Threads |-> "Ok"]
  /\ lastError = [t \in Threads |-> FALSE]
  /\ pc = [t \in Threads |-> "returned"]
  /\ entry \in [Threads -> Entries]
  /\ pos = [t \in Threads |-> 1]
  /\ dev = [t \in Threads |-> NoBuffers]
  /\ ran = [t \in Threads |-> {}]
  /\ failed = [t \in Threads |-> {}]
  /\ out = [t \in Threads |-> Untouched]
  /\ rc = [t \in Threads |-> kRefused]
  /\ calls = [t \in Threads |-> 0]
  /\ failCount = 0
  /\ seen = [t \in Threads |-> 0]

(* A call starts with rt_clear_error, which leaves the runtime's own last  *)
(* error alone. The caller's output buffers are fresh.                     *)
Enter(t) ==
  /\ pc[t] = "returned" /\ calls[t] < MaxCalls
  /\ calls' = [calls EXCEPT ![t] = @ + 1]
  /\ latch' = [latch EXCEPT ![LatchOf(t)] = "Ok"]
  /\ \E e \in Entries :
       /\ entry' = [entry EXCEPT ![t] = e]
       /\ Goto(t, IF e \in HostEntries THEN "alloc"
                  ELSE IF e = "metadata" THEN "metadata" ELSE "launch")
  /\ pos' = [pos EXCEPT ![t] = 1]
  /\ dev' = [dev EXCEPT ![t] = NoBuffers]
  /\ ran' = [ran EXCEPT ![t] = {}]
  /\ failed' = [failed EXCEPT ![t] = {}]
  /\ out' = [out EXCEPT ![t] = Untouched]
  /\ UNCHANGED <<lastError, rc, counter>>

(* DevBuf: a failed allocation leaves a null buffer and the call goes on.  *)
Alloc(t) ==
  /\ pc[t] = "alloc"
  /\ \E ok \in BOOLEAN :
       /\ Wrapped(t, "Allocation", ok)
       /\ dev' = [dev EXCEPT ![t][pos[t]] = IF ok THEN "raw" ELSE "null"]
  /\ pos' = [pos EXCEPT ![t] = IF @ < Buffers(entry[t]) THEN @ + 1 ELSE 1]
  /\ Goto(t, IF pos[t] < Buffers(entry[t]) THEN "alloc" ELSE "copyIn")
  /\ UNCHANGED <<entry, ran, out, rc, calls, counter>>

(* from_host of a null buffer fails without another record.                *)
CopyIn(t) ==
  /\ pc[t] = "copyIn"
  /\ IF dev[t][1] = "null"
     THEN UNCHANGED <<runtime, failed, dev>>
     ELSE \E ok \in BOOLEAN :
            /\ Wrapped(t, "HostToDevice", ok)
            /\ dev' = IF ok THEN [dev EXCEPT ![t][1] = "input"] ELSE dev
  /\ Goto(t, "ready")
  /\ UNCHANGED <<pos, entry, ran, out, rc, calls, counter>>

CheckReady(t) ==
  /\ pc[t] = "ready"
  /\ IF ~RtOk(t) THEN Return(t, kRuntimeError)
     ELSE /\ Goto(t, IF entry[t] = "grouped" THEN "workspace"
                     ELSE IF entry[t] = "lowbit" THEN "count" ELSE "launch")
          /\ UNCHANGED rc
  /\ UNCHANGED <<runtime, pos, call, out, calls, counter>>

(* grouped allocates its workspace after the check.                        *)
AllocWorkspace(t) ==
  /\ pc[t] = "workspace"
  /\ \E ok \in BOOLEAN :
       /\ Wrapped(t, "Allocation", ok)
       /\ dev' = [dev EXCEPT ![t][Workspace] = IF ok THEN "raw" ELSE "null"]
  /\ Goto(t, "prefix")
  /\ UNCHANGED <<pos, entry, ran, out, rc, calls, counter>>

(* moe_grouped_ppu::launch copies the prefix with the runtime's own call,  *)
(* whose status nobody looks at, unless there is no workspace.             *)
CopyPrefix(t) ==
  /\ pc[t] = "prefix"
  /\ IF dev[t][Workspace] = "null"
     THEN UNCHANGED <<lastError, failed, dev>>
     ELSE \E ok \in BOOLEAN :
            IF ok THEN /\ dev' = [dev EXCEPT ![t][Workspace] = "input"]
                       /\ UNCHANGED <<lastError, failed>>
                  ELSE Fails(t, "HostToDevice") /\ UNCHANGED dev
  /\ Goto(t, "launch")
  /\ UNCHANGED <<latch, pos, entry, ran, out, rc, calls, counter>>

(* A tactic that cannot run this problem is refused before any kernel.     *)
LaunchRefused(t) ==
  /\ pc[t] = "launch" /\ entry[t] \notin {"two", "lowbit"}
  /\ Return(t, kRefused)
  /\ UNCHANGED <<runtime, pos, call, out, calls, counter>>

(* lowbit_device reads the process-wide count of refused launches, and     *)
(* gemv_refuse increments it: a plain int, so two increments may collide.  *)
ReadCount(t) ==
  /\ \/ pc[t] = "count" /\ Goto(t, "launch")
     \/ pc[t] = "launch" /\ entry[t] = "lowbit" /\ Goto(t, "refuse")
  /\ seen' = [seen EXCEPT ![t] = failCount]
  /\ UNCHANGED <<runtime, pos, call, out, rc, calls, failCount>>

Refuse(t) ==
  /\ pc[t] = "refuse"
  /\ failCount' = seen[t] + 1
  /\ Return(t, kRefused)
  /\ UNCHANGED <<runtime, pos, call, out, calls, seen>>

(* A count that has moved since is taken for a refusal of this launch.     *)
CountMoved(t) == failCount # seen[t]

CompareCount(t) ==
  /\ pc[t] = "recount"
  /\ IF CountMoved(t) THEN Return(t, kRefused) ELSE Goto(t, "peek") /\ UNCHANGED rc
  /\ UNCHANGED <<runtime, pos, call, out, calls, counter>>

AfterLaunch(e) ==
  IF e = "lowbit" THEN "recount"
  ELSE IF e \in DeviceEntries \cup {"checked"} THEN "peek" ELSE "sync"

(* A kernel launch reports nothing; a failed one is the last error only.   *)
Start(t, kernel, next) ==
  /\ \E ok \in BOOLEAN :
       IF ok THEN /\ ran' = [ran EXCEPT ![t] = @ \cup {kernel}]
                  /\ UNCHANGED <<lastError, failed>>
             ELSE Fails(t, "Launch") /\ UNCHANGED ran
  /\ Goto(t, next)
  /\ UNCHANGED <<latch, pos, entry, dev, out, rc, calls, counter>>

LaunchMetadata(t) == pc[t] = "metadata" /\ Start(t, "metadata", "peekMetadata")
Launch(t) == pc[t] = "launch" /\ Start(t, "gemm", AfterLaunch(entry[t]))

NeverPeeks(t) == FALSE      \* mutant: the enqueue is taken for granted
LaunchError(t) == lastError[t]

(* rt_check_launch.                                                        *)
CheckLaunch(t) ==
  /\ pc[t] \in {"peekMetadata", "peek"}
  /\ IF LaunchError(t)
     THEN Record(t, "Launch") /\ Return(t, kRuntimeError)
     ELSE /\ UNCHANGED latch
          /\ IF pc[t] = "peekMetadata" THEN Goto(t, "launch") /\ UNCHANGED rc
             ELSE IF entry[t] \in HostEntries THEN Goto(t, "sync") /\ UNCHANGED rc
             ELSE Return(t, 0)
  /\ UNCHANGED <<lastError, pos, call, out, calls, counter>>

OnlySynchronizes == FALSE   \* mutant: the CUDA rt_sync without cudaGetLastError
ReadsLastError == SyncReadsLastError

(* The outputs are results when the kernel started and had its inputs.     *)
Computes(t) ==
  /\ ran[t] # {}
  /\ entry[t] = "grouped" => dev[t][Workspace] = "input"

(* rt_sync. Kernels that started have stored their results; a fault in one *)
(* is the synchronize's own error. Reading the last error also clears it.  *)
Sync(t) ==
  /\ pc[t] = "sync"
  /\ \E ok \in BOOLEAN :
       IF ~ok THEN Wrapped(t, "Synchronize", FALSE) /\ UNCHANGED dev
       ELSE /\ dev' = IF ~Computes(t) THEN dev
                      ELSE [dev EXCEPT ![t] = [b \in BufIds |->
                              IF b \in 2 .. Buffers(entry[t]) THEN "result" ELSE @[b]]]
            /\ UNCHANGED failed
            /\ IF ReadsLastError /\ lastError[t]
               THEN /\ Record(t, "Synchronize")
                    /\ lastError' = [lastError EXCEPT ![t] = FALSE]
               ELSE UNCHANGED runtime
  /\ Goto(t, "synced")
  /\ UNCHANGED <<pos, entry, ran, out, rc, calls, counter>>

CheckSync(t) ==
  /\ pc[t] = "synced"
  /\ IF RtOk(t) THEN Goto(t, "stage") /\ UNCHANGED rc ELSE Return(t, kRuntimeError)
  /\ UNCHANGED <<runtime, pos, call, out, calls, counter>>

(* rt_copy_output: the private host buffer the device results go to first. *)
StageOutput(t) ==
  /\ pc[t] = "stage"
  /\ \E ok \in BOOLEAN :
       IF ok THEN Goto(t, "copyOut") /\ UNCHANGED <<latch, failed, rc>>
             ELSE /\ Record(t, "HostAllocation")
                  /\ failed' = [failed EXCEPT ![t] = @ \cup {"HostAllocation"}]
                  /\ Return(t, kRuntimeError)
  /\ UNCHANGED <<lastError, pos, entry, dev, ran, out, calls, counter>>

(* The outputs the caller gets once output i has reached the host.         *)
EachInTurn(e, i) == {i}     \* mutant: an output is delivered as soon as it is there
Delivered(e, i) == IF i = Outputs(e) THEN 1 .. i ELSE {}

(* to_host of output pos, and the memcpy to the caller after the last one. *)
CopyOut(t) ==
  LET i == pos[t] IN
  /\ pc[t] = "copyOut"
  /\ \E ok \in BOOLEAN :
       /\ Wrapped(t, "DeviceToHost", ok)
       /\ IF ~ok THEN Return(t, kRuntimeError) /\ UNCHANGED <<pos, out>>
          ELSE /\ out' = IF ~RtOk(t) THEN out
                         ELSE [out EXCEPT ![t] = [j \in OutIds |->
                                 IF j \in Delivered(entry[t], i) THEN dev[t][j + 1] ELSE @[j]]]
               /\ IF i < Outputs(entry[t])
                  THEN pos' = [pos EXCEPT ![t] = i + 1] /\ UNCHANGED <<pc, rc>>
                  ELSE /\ Return(t, IF RtOk(t) THEN 0 ELSE kRuntimeError)
                       /\ UNCHANGED pos
  /\ UNCHANGED <<entry, dev, ran, calls, counter>>
-----------------------------------------------------------------------------
Step(t) ==
  \/ Enter(t) \/ Alloc(t) \/ CopyIn(t) \/ CheckReady(t)
  \/ AllocWorkspace(t) \/ CopyPrefix(t)
  \/ ReadCount(t) \/ Refuse(t) \/ CompareCount(t)
  \/ LaunchRefused(t) \/ LaunchMetadata(t) \/ Launch(t) \/ CheckLaunch(t)
  \/ Sync(t) \/ CheckSync(t) \/ StageOutput(t) \/ CopyOut(t)

(* The callers may stop at the bound, and nowhere inside a call.           *)
Stopped ==
  /\ \A t \in Threads : pc[t] = "returned" /\ calls[t] = MaxCalls
  /\ UNCHANGED vars

Next == Stopped \/ \E t \in Threads : Step(t)

Spec == Init /\ [][Next]_vars
-----------------------------------------------------------------------------
(* Properties.                                                             *)

Location == {"returned", "alloc", "copyIn", "ready", "workspace", "prefix", "metadata",
             "peekMetadata", "count", "launch", "refuse", "recount", "peek", "sync", "synced", "stage", "copyOut"}

(* No buffer past the last is allocated, no output past the last copied.   *)
TypeOK ==
  /\ latch \in [Threads -> Status]
  /\ lastError \in [Threads -> BOOLEAN]
  /\ pc \in [Threads -> Location]
  /\ entry \in [Threads -> Entries]
  /\ pos \in [Threads -> BufIds]
  /\ dev \in [Threads -> [BufIds -> {"absent", "null", "raw", "input", "result"}]]
  /\ ran \in [Threads -> SUBSET {"metadata", "gemm"}]
  /\ failed \in [Threads -> SUBSET (Status \ {"Ok"})]
  /\ out \in [Threads -> [OutIds -> {"caller", "raw", "result"}]]
  /\ rc \in [Threads -> {0, kRefused, kRuntimeError}]
  /\ calls \in [Threads -> 0 .. MaxCalls]
  /\ failCount \in Nat
  /\ seen \in [Threads -> Nat]

Returned(t, e) == pc[t] = "returned" /\ calls[t] > 0 /\ entry[t] \in e

(* A host entry that returns 0 has handed the caller the kernel's results, *)
(* all of them: no failure along the way, of this thread or another, is    *)
(* ever turned into stale device memory and a success code.                *)
SuccessMeansResult ==
  \A t \in Threads : Returned(t, HostEntries) /\ rc[t] = 0 =>
    \A i \in 1 .. Outputs(entry[t]) : out[t][i] = "result"

(* "`out` is untouched on error": a call that returns a non-zero code has  *)
(* written none of its outputs, the first of two included.                 *)
ErrorLeavesOutputs ==
  \A t \in Threads : Returned(t, Entries) /\ rc[t] # 0 => out[t] = Untouched

(* "An allocation, copy, or synchronize failure must cross its C ABI as a  *)
(* non-zero return."                                                       *)
FailuresCross ==
  \A t \in Threads : Returned(t, Entries) /\ rc[t] = 0 =>
    failed[t] \cap {"Allocation", "HostToDevice", "DeviceToHost", "Synchronize",
                    "HostAllocation"} = {}

(* "A zero return means the kernel was enqueued", the metadata kernel the  *)
(* GEMM depends on included.                                               *)
ZeroMeansEnqueued ==
  \A t \in Threads : Returned(t, DeviceEntries) /\ rc[t] = 0 => ran[t] = Kernels(entry[t])

(* "Callers ... check rt_ok() before launching": no host entry launches    *)
(* its kernel on a device buffer whose allocation has failed, but grouped, *)
(* which allocates its workspace behind that check.                        *)
LaunchesWithBuffers ==
  \A t \in Threads : pc[t] = "launch" /\ entry[t] \in HostEntries \ {"grouped"} =>
    \A b \in BufIds : dev[t][b] # "null"

(* kRuntimeError is "reserved for an allocation/copy/synchronize failure"  *)
(* of the operation rt_clear_error started: some runtime call of this very *)
(* call failed.                                                            *)
RuntimeErrorIsOwn ==
  \A t \in Threads : Returned(t, Entries) /\ rc[t] = kRuntimeError => failed[t] # {}

(* "Returns false (and bumps gemv_fail_count) without launching" and       *)
(* "thread-local state keeps two callers on different host threads         *)
(* independent": a refused call has started no kernel.                     *)
RefusedMeansNotLaunched ==
  \A t \in Threads : Returned(t, {"lowbit"}) /\ rc[t] = kRefused => ran[t] = {}
-----------------------------------------------------------------------------
(* The inductive invariant behind them, thread by thread. A call is at a   *)
(* place its entry has; what a failed runtime call leaves undone is told   *)
(* by the latch or, until it is read, by the last error.                   *)
PlacesOf(e) ==
  IF e = "enqueue" THEN {"launch", "peek"}
  ELSE IF e = "metadata" THEN {"metadata", "peekMetadata", "launch", "peek"}
  ELSE {"alloc", "copyIn", "ready", "launch", "sync", "synced", "stage", "copyOut"}
         \cup (IF e = "grouped" THEN {"workspace", "prefix"} ELSE {})
         \cup (IF e = "lowbit" THEN {"count", "refuse", "recount", "peek"} ELSE {})
         \cup (IF e = "checked" THEN {"peek"} ELSE {})

InPlace(t) == pc[t] # "returned" => pc[t] \in PlacesOf(entry[t])

Filling == {"alloc", "copyIn", "ready"}
InHostCall(t) == pc[t] # "returned" /\ entry[t] \in HostEntries

(* Up to the check a null buffer has been latched; past it all are there.  *)
BuffersFilled(t) ==
  /\ pc[t] = "alloc" => pos[t] \in 1 .. Buffers(entry[t])
  /\ InHostCall(t) /\ pc[t] # "alloc" => pos[t] \in 1 .. Outputs(entry[t])
  /\ InHostCall(t) => \A b \in 2 .. Buffers(entry[t]) :
       dev[t][b] \in {"raw", "null", "result"} \/ (pc[t] = "alloc" /\ pos[t] <= b)
  /\ \A b \in BufIds : dev[t][b] = "null" =>
       \/ pc[t] = "returned"
       \/ pc[t] \in Filling /\ latch[t] # "Ok"
       \/ entry[t] = "grouped" /\ b = Workspace /\ pc[t] \notin Filling
  /\ entry[t] = "grouped" /\ pc[t] \in Filling => dev[t][Workspace] = "absent"

OutputsAtomic(t) == pc[t] # "returned" \/ rc[t] # 0 => out[t] = Untouched

KernelsEnqueued(t) ==
  entry[t] \in DeviceEntries =>
    /\ pc[t] = "metadata" => ran[t] = {}
    /\ pc[t] = "peekMetadata" => ran[t] = {"metadata"} \/ lastError[t]
    /\ pc[t] = "launch" => ran[t] = Kernels(entry[t]) \ {"gemm"}
    /\ pc[t] = "peek" => ran[t] = Kernels(entry[t]) \/ lastError[t]
    /\ pc[t] = "returned" /\ rc[t] = 0 => ran[t] = Kernels(entry[t])

(* Only the HGGC build can lose a failure: that of the prefix copy.        *)
Reported == {"Allocation", "HostToDevice", "DeviceToHost", "Synchronize", "HostAllocation"}
FailuresLatched(t) ==
  (SyncReadsLastError \/ entry[t] # "grouped") /\ failed[t] \cap Reported # {} =>
    \/ pc[t] = "returned" /\ rc[t] # 0
    \/ InHostCall(t) /\ latch[t] # "Ok"
    \/ entry[t] = "grouped" /\ pc[t] \in {"launch", "sync"} /\ lastError[t]

ResultsReady(t) ==
  SyncReadsLastError /\ entry[t] \in HostEntries =>
    /\ pc[t] \in {"recount", "peek", "sync"} /\ ran[t] = {} => lastError[t]
    /\ entry[t] = "grouped" /\ dev[t][Workspace] # "input" =>
         /\ pc[t] = "prefix" /\ dev[t][Workspace] = "null" => latch[t] # "Ok"
         /\ pc[t] \in {"launch", "sync"} => latch[t] # "Ok" \/ lastError[t]
    /\ pc[t] \in {"stage", "copyOut"} \/ (pc[t] = "synced" /\ latch[t] = "Ok") =>
         \A b \in 2 .. Buffers(entry[t]) : dev[t][b] = "result"
    /\ pc[t] = "returned" /\ rc[t] = 0 => \A i \in 1 .. Outputs(entry[t]) : out[t][i] = "result"

ThreadInv(t) ==
  /\ InPlace(t)
  /\ BuffersFilled(t)
  /\ OutputsAtomic(t)
  /\ KernelsEnqueued(t)
  /\ FailuresLatched(t)
  /\ ResultsReady(t)
EntriesInv == TypeOK /\ \A t \in Threads : ThreadInv(t)
=============================================================================
