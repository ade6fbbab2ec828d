------------------------ MODULE RuntimeEntriesProofs ------------------------
(***************************************************************************)
(* EntriesInv is an invariant of RuntimeEntries, for any number of host    *)
(* threads, any choice of entries, either rt_sync and any number of calls, *)
(* and what follows from it.                                               *)
(***************************************************************************)
EXTENDS RuntimeEntries, TLAPS

-----------------------------------------------------------------------------
(* The helpers the steps are made of: what they leave in the thread.       *)

(* A status that is recorded leaves the latch set.                         *)
LEMMA RecordEffect ==
  ASSUME TypeOK, NEW t \in Threads, NEW status \in Status, status # "Ok", Record(t, status)
  PROVE  latch' \in [Threads -> Status] /\ latch'[t] # "Ok"
  BY DEF TypeOK, Record, RtOk, LatchOf

(* A failed runtime call is the last error and enters the history.         *)
LEMMA FailsEffect ==
  ASSUME TypeOK, NEW t \in Threads, NEW status \in Status, status # "Ok", Fails(t, status)
  PROVE  /\ lastError' \in [Threads -> BOOLEAN] /\ lastError'[t] = TRUE
         /\ failed' \in [Threads -> SUBSET (Status \ {"Ok"})]
         /\ failed'[t] = failed[t] \cup {status}
<1>1. lastError' \in [Threads -> BOOLEAN] /\ lastError'[t] = TRUE
  BY DEF TypeOK, Fails
<1>2. failed[t] \cup {status} \in SUBSET (Status \ {"Ok"})
  BY DEF TypeOK
<1>3. failed' = [failed EXCEPT ![t] = failed[t] \cup {status}]
  BY DEF Fails
<1>4. failed' \in [Threads -> SUBSET (Status \ {"Ok"})] /\ failed'[t] = failed[t] \cup {status}
  BY <1>2, <1>3 DEF TypeOK
<1> QED BY <1>1, <1>4

(* A wrapped call that fails does both.                                    *)
LEMMA WrappedEffect ==
  ASSUME TypeOK, NEW t \in Threads, NEW status \in Status, status # "Ok", Wrapped(t, status, FALSE)
  PROVE  /\ latch' \in [Threads -> Status] /\ latch'[t] # "Ok"
         /\ lastError' \in [Threads -> BOOLEAN] /\ lastError'[t] = TRUE
         /\ failed' \in [Threads -> SUBSET (Status \ {"Ok"})]
         /\ failed'[t] = failed[t] \cup {status}
  BY RecordEffect, FailsEffect DEF Wrapped

(* A thread goes on within its call, or returns.                           *)
LEMMA GotoEffect ==
  ASSUME TypeOK, NEW t \in Threads, NEW l \in Location, Goto(t, l)
  PROVE  pc' \in [Threads -> Location] /\ pc'[t] = l
  BY DEF TypeOK, Goto

(* A return sets the code.                                                *)
LEMMA ReturnEffect ==
  ASSUME TypeOK, NEW t \in Threads, NEW code \in {0, kRefused, kRuntimeError}, Return(t, code)
  PROVE  /\ pc' \in [Threads -> Location] /\ pc'[t] = "returned"
         /\ rc' \in [Threads -> {0, kRefused, kRuntimeError}] /\ rc'[t] = code
  BY DEF TypeOK, Goto, Return, Location

(* A launch starts its kernel or is the last error.                        *)
LEMMA StartEffect ==
  ASSUME TypeOK, NEW t \in Threads, NEW kernel \in {"metadata", "gemm"}, NEW next \in Location,
         Start(t, kernel, next)
  PROVE  /\ pc' \in [Threads -> Location] /\ pc'[t] = next
         /\ lastError' \in [Threads -> BOOLEAN]
         /\ failed' \in [Threads -> SUBSET (Status \ {"Ok"})]
         /\ ran' \in [Threads -> SUBSET {"metadata", "gemm"}]
         /\ \/ ran'[t] = ran[t] \cup {kernel} /\ lastError' = lastError /\ failed' = failed
            \/ ran' = ran /\ lastError'[t] = TRUE /\ failed'[t] = failed[t] \cup {"Launch"}
         /\ UNCHANGED <<latch, pos, entry, dev, out, rc, calls, failCount, seen>>
<1>1. pc' \in [Threads -> Location] /\ pc'[t] = next
  BY GotoEffect DEF Start
<1>2. UNCHANGED <<latch, pos, entry, dev, out, rc, calls, failCount, seen>>
  BY DEF Start, counter
<1>3. CASE /\ ran' = [ran EXCEPT ![t] = ran[t] \cup {kernel}]
           /\ lastError' = lastError /\ failed' = failed
  <2>1. ran[t] \cup {kernel} \in SUBSET {"metadata", "gemm"}
    BY DEF TypeOK
  <2>2. ran' \in [Threads -> SUBSET {"metadata", "gemm"}] /\ ran'[t] = ran[t] \cup {kernel}
    BY <1>3, <2>1 DEF TypeOK
  <2> QED BY <1>1, <1>2, <1>3, <2>2 DEF TypeOK
<1>4. CASE Fails(t, "Launch") /\ ran' = ran
  <2>1. "Launch" \in Status /\ "Launch" # "Ok"
    BY DEF Status
  <2> QED BY <1>1, <1>2, <1>4, <2>1, FailsEffect DEF TypeOK
<1> QED BY <1>3, <1>4 DEF Start

-----------------------------------------------------------------------------
(* The call begins: it is at the first place of its entry, with nothing    *)
(* done.                                                                   *)
LEMMA EnterStep ==
  ASSUME EntriesInv, NEW t \in Threads, Enter(t)
  PROVE  TypeOK' /\ ThreadInv(t)'
<1>0. TypeOK /\ ThreadInv(t) /\ entry[t] \in HostEntries \cup DeviceEntries
  BY EntriesAssumption DEF EntriesInv, TypeOK
<1>1. TypeOK'
  BY <1>0, EntriesAssumption DEF TypeOK, Enter, counter, BufIds, NoBuffers, Untouched, LatchOf,
     Goto, Location, Status
<1>2. InPlace(t)'
  BY <1>0 DEF HostEntries, Goto, Enter, TypeOK, PlacesOf, InPlace
<1>3. BuffersFilled(t)'
  BY <1>0 DEF Outputs, Buffers, Workspace, BufIds, NoBuffers, Goto, Enter, TypeOK, InHostCall,
     BuffersFilled
<1>4. OutputsAtomic(t)'
  BY <1>0 DEF Enter, TypeOK, OutputsAtomic
<1>5. KernelsEnqueued(t)'
  BY <1>0 DEF Kernels, Goto, Enter, TypeOK, KernelsEnqueued
<1>6. FailuresLatched(t)'
  BY <1>0 DEF Enter, TypeOK, FailuresLatched
<1>7. ResultsReady(t)'
  BY <1>0 DEF Goto, Enter, TypeOK, ResultsReady
<1> QED BY <1>1, <1>2, <1>3, <1>4, <1>5, <1>6, <1>7 DEF ThreadInv

(* Buffer after buffer is there or null and latched.                       *)
LEMMA AllocStep ==
  ASSUME EntriesInv, NEW t \in Threads, Alloc(t)
  PROVE  TypeOK' /\ ThreadInv(t)'
<1>0. TypeOK /\ ThreadInv(t) /\ entry[t] \in HostEntries \cup DeviceEntries
  BY EntriesAssumption DEF EntriesInv, TypeOK
<1>1. /\ latch' \in [Threads -> Status] /\ lastError' \in [Threads -> BOOLEAN]
      /\ failed' \in [Threads -> SUBSET (Status \ {"Ok"})]
      /\ \/ UNCHANGED <<latch, lastError, failed>> /\ dev' = [dev EXCEPT ![t][pos[t]] = "raw"]
         \/ /\ latch'[t] # "Ok" /\ lastError'[t] = TRUE /\ failed'[t] = failed[t] \cup {"Allocation"}
            /\ dev' = [dev EXCEPT ![t][pos[t]] = "null"]
  <2>1. CASE Wrapped(t, "Allocation", TRUE) /\ dev' = [dev EXCEPT ![t][pos[t]] = "raw"]
    BY <1>0, <2>1 DEF Wrapped, runtime, TypeOK
  <2>2. CASE Wrapped(t, "Allocation", FALSE) /\ dev' = [dev EXCEPT ![t][pos[t]] = "null"]
    <3>1. "Allocation" \in Status /\ "Allocation" # "Ok"
      BY DEF Status
    <3> QED BY <1>0, <2>2, <3>1, WrappedEffect
  <2> QED BY <2>1, <2>2 DEF Alloc
<1>2. TypeOK'
  BY <1>0, <1>1 DEF counter, Outputs, Buffers, BufIds, Goto, Alloc, Location, TypeOK
<1>3. InPlace(t)'
  BY <1>0, <1>1 DEF Goto, Alloc, PlacesOf, InPlace, ThreadInv
<1>4. BuffersFilled(t)'
  BY <1>0, <1>1 DEF Outputs, Buffers, Workspace, BufIds, Goto, Alloc, TypeOK, Filling, InHostCall,
     BuffersFilled, ThreadInv
<1>5. OutputsAtomic(t)'
  BY <1>0, <1>1 DEF Alloc, OutputsAtomic, ThreadInv
<1>6. KernelsEnqueued(t)'
  BY <1>0, <1>1 DEF Goto, Alloc, KernelsEnqueued
<1>7. FailuresLatched(t)'
  BY <1>0, <1>1 DEF DeviceEntries, Goto, Alloc, PlacesOf, InPlace, InHostCall, FailuresLatched,
     ThreadInv
<1>8. ResultsReady(t)'
  BY <1>0, <1>1 DEF Goto, Alloc, ResultsReady
<1> QED BY <1>2, <1>3, <1>4, <1>5, <1>6, <1>7, <1>8 DEF ThreadInv

(* The inputs are copied, or the failure is latched; a null buffer         *)
(* already was.                                                            *)
LEMMA CopyInStep ==
  ASSUME EntriesInv, NEW t \in Threads, CopyIn(t)
  PROVE  TypeOK' /\ ThreadInv(t)'
<1>0. TypeOK /\ ThreadInv(t) /\ entry[t] \in HostEntries \cup DeviceEntries
  BY EntriesAssumption DEF EntriesInv, TypeOK
<1>1. /\ latch' \in [Threads -> Status] /\ lastError' \in [Threads -> BOOLEAN]
      /\ failed' \in [Threads -> SUBSET (Status \ {"Ok"})]
      /\ \/ UNCHANGED <<latch, lastError, failed, dev>> /\ dev[t][1] = "null"
         \/ /\ UNCHANGED <<latch, lastError, failed>> /\ dev[t][1] # "null"
            /\ dev' = [dev EXCEPT ![t][1] = "input"]
         \/ /\ latch'[t] # "Ok" /\ lastError'[t] = TRUE /\ failed'[t] = failed[t] \cup {"HostToDevice"}
            /\ dev' = dev
  <2>1. CASE UNCHANGED <<latch, lastError, failed, dev>> /\ dev[t][1] = "null"
    BY <1>0, <2>1 DEF TypeOK
  <2>2. CASE /\ Wrapped(t, "HostToDevice", TRUE) /\ dev[t][1] # "null"
             /\ dev' = [dev EXCEPT ![t][1] = "input"]
    BY <1>0, <2>2 DEF Wrapped, runtime, TypeOK
  <2>3. CASE Wrapped(t, "HostToDevice", FALSE) /\ dev' = dev
    <3>1. "HostToDevice" \in Status /\ "HostToDevice" # "Ok"
      BY DEF Status
    <3> QED BY <1>0, <2>3, <3>1, WrappedEffect
  <2> QED BY <2>1, <2>2, <2>3 DEF CopyIn, runtime
<1>2. dev' \in [Threads -> [BufIds -> {"absent", "null", "raw", "input", "result"}]]
  <2>1. CASE dev' = dev
    BY <1>0, <2>1 DEF TypeOK
  <2>2. CASE dev' = [dev EXCEPT ![t][1] = "input"]
    <3>1. [dev[t] EXCEPT ![1] = "input"]
            \in [BufIds -> {"absent", "null", "raw", "input", "result"}]
      BY <1>0 DEF TypeOK
    <3>2. dev' = [dev EXCEPT ![t] = [dev[t] EXCEPT ![1] = "input"]]
      BY <2>2
    <3> QED BY <1>0, <3>1, <3>2 DEF TypeOK
  <2> QED BY <1>1, <2>1, <2>2
<1>3. TypeOK'
  BY <1>0, <1>1, <1>2 DEF counter, Goto, CopyIn, Location, TypeOK
<1>4. InPlace(t)'
  BY <1>0, <1>1, <1>2 DEF Goto, CopyIn, PlacesOf, InPlace, ThreadInv
<1>5. BuffersFilled(t)'
  BY <1>0, <1>1, <1>2 DEF HostEntries, Status, Outputs, Buffers, Workspace, BufIds, Goto, CopyIn,
     Location, TypeOK, Filling, InHostCall, BuffersFilled, ThreadInv
<1>6. OutputsAtomic(t)'
  BY <1>0, <1>1, <1>2 DEF CopyIn, OutputsAtomic, ThreadInv
<1>7. KernelsEnqueued(t)'
  BY <1>0, <1>1, <1>2 DEF Goto, CopyIn, KernelsEnqueued
<1>8. FailuresLatched(t)'
  BY <1>0, <1>1, <1>2 DEF DeviceEntries, Goto, CopyIn, PlacesOf, InPlace, InHostCall,
     FailuresLatched, ThreadInv
<1>9. ResultsReady(t)'
  BY <1>0, <1>1, <1>2 DEF Goto, CopyIn, ResultsReady
<1> QED BY <1>3, <1>4, <1>5, <1>6, <1>7, <1>8, <1>9 DEF ThreadInv

(* Past the check the latch is clear, so no buffer is null.                *)
LEMMA CheckReadyStep ==
  ASSUME EntriesInv, NEW t \in Threads, CheckReady(t)
  PROVE  TypeOK' /\ ThreadInv(t)'
<1>0. TypeOK /\ ThreadInv(t) /\ entry[t] \in HostEntries \cup DeviceEntries
  BY EntriesAssumption DEF EntriesInv, TypeOK
<1>1. /\ pc' \in [Threads -> Location] /\ rc' \in [Threads -> {0, kRefused, kRuntimeError}]
      /\ \/ pc'[t] = "returned" /\ rc'[t] = kRuntimeError /\ latch[t] # "Ok"
         \/ /\ latch[t] = "Ok" /\ rc' = rc
            /\ pc'[t] = IF entry[t] = "grouped" THEN "workspace"
                        ELSE IF entry[t] = "lowbit" THEN "count" ELSE "launch"
  <2>1. CASE Return(t, kRuntimeError) /\ latch[t] # "Ok"
    BY <1>0, <2>1, ReturnEffect
  <2>2. CASE latch[t] = "Ok"
    BY <1>0, <2>2 DEF CheckReady, RtOk, LatchOf, Goto, TypeOK, Location
  <2> QED BY <2>1, <2>2 DEF CheckReady, RtOk, LatchOf
<1>2. TypeOK'
  BY <1>0, <1>1 DEF runtime, counter, call, CheckReady, TypeOK
<1>3. InPlace(t)'
  BY <1>0, <1>1 DEF call, CheckReady, PlacesOf, InPlace
<1>4. BuffersFilled(t)'
  BY <1>0, <1>1 DEF call, CheckReady, Filling, InHostCall, BuffersFilled, ThreadInv
<1>5. OutputsAtomic(t)'
  BY <1>0, <1>1 DEF CheckReady, OutputsAtomic, ThreadInv
<1>6. KernelsEnqueued(t)'
  BY <1>0, <1>1 DEF DeviceEntries, call, CheckReady, PlacesOf, InPlace, KernelsEnqueued, ThreadInv
<1>7. FailuresLatched(t)'
  BY <1>0, <1>1 DEF kRuntimeError, call, CheckReady, FailuresLatched, ThreadInv
<1>8. ResultsReady(t)'
  BY <1>0, <1>1 DEF kRuntimeError, call, CheckReady, ResultsReady
<1> QED BY <1>2, <1>3, <1>4, <1>5, <1>6, <1>7, <1>8 DEF ThreadInv

(* The workspace may be null from here on, which is latched.               *)
LEMMA AllocWorkspaceStep ==
  ASSUME EntriesInv, NEW t \in Threads, AllocWorkspace(t)
  PROVE  TypeOK' /\ ThreadInv(t)'
<1>0. TypeOK /\ ThreadInv(t) /\ entry[t] \in HostEntries \cup DeviceEntries
  BY EntriesAssumption DEF EntriesInv, TypeOK
<1>1. /\ latch' \in [Threads -> Status] /\ lastError' \in [Threads -> BOOLEAN]
      /\ failed' \in [Threads -> SUBSET (Status \ {"Ok"})]
      /\ \/ UNCHANGED <<latch, lastError, failed>> /\ dev' = [dev EXCEPT ![t][Workspace] = "raw"]
         \/ /\ latch'[t] # "Ok" /\ lastError'[t] = TRUE /\ failed'[t] = failed[t] \cup {"Allocation"}
            /\ dev' = [dev EXCEPT ![t][Workspace] = "null"]
  <2>1. CASE Wrapped(t, "Allocation", TRUE) /\ dev' = [dev EXCEPT ![t][Workspace] = "raw"]
    BY <1>0, <2>1 DEF Wrapped, runtime, TypeOK
  <2>2. CASE Wrapped(t, "Allocation", FALSE) /\ dev' = [dev EXCEPT ![t][Workspace] = "null"]
    <3>1. "Allocation" \in Status /\ "Allocation" # "Ok"
      BY DEF Status
    <3> QED BY <1>0, <2>2, <3>1, WrappedEffect
  <2> QED BY <2>1, <2>2 DEF AllocWorkspace
<1>2. TypeOK'
  BY <1>0, <1>1 DEF counter, Workspace, BufIds, Goto, AllocWorkspace, Location, TypeOK
<1>3. InPlace(t)'
  BY <1>0, <1>1 DEF Goto, AllocWorkspace, PlacesOf, InPlace, ThreadInv
<1>4. BuffersFilled(t)'
  BY <1>0, <1>1 DEF Goto, AllocWorkspace, PlacesOf, InPlace, Filling, InHostCall, BuffersFilled,
     ThreadInv
<1>5. OutputsAtomic(t)'
  BY <1>0, <1>1 DEF AllocWorkspace, OutputsAtomic, ThreadInv
<1>6. KernelsEnqueued(t)'
  BY <1>0, <1>1 DEF Goto, AllocWorkspace, KernelsEnqueued
<1>7. FailuresLatched(t)'
  BY <1>0, <1>1 DEF DeviceEntries, Goto, AllocWorkspace, PlacesOf, InPlace, InHostCall,
     FailuresLatched, ThreadInv
<1>8. ResultsReady(t)'
  BY <1>0, <1>1 DEF Workspace, BufIds, Goto, AllocWorkspace, TypeOK, ResultsReady
<1> QED BY <1>2, <1>3, <1>4, <1>5, <1>6, <1>7, <1>8 DEF ThreadInv

(* A failed prefix copy is the last error and nothing else.                *)
LEMMA CopyPrefixStep ==
  ASSUME EntriesInv, NEW t \in Threads, CopyPrefix(t)
  PROVE  TypeOK' /\ ThreadInv(t)'
<1>0. TypeOK /\ ThreadInv(t) /\ entry[t] \in HostEntries \cup DeviceEntries
  BY EntriesAssumption DEF EntriesInv, TypeOK
<1>1. /\ lastError' \in [Threads -> BOOLEAN]
      /\ failed' \in [Threads -> SUBSET (Status \ {"Ok"})]
      /\ \/ dev[t][Workspace] = "null" /\ UNCHANGED <<lastError, failed, dev>>
         \/ /\ dev[t][Workspace] # "null" /\ UNCHANGED <<lastError, failed>>
            /\ dev' = [dev EXCEPT ![t][Workspace] = "input"]
         \/ /\ dev[t][Workspace] # "null" /\ dev' = dev
            /\ lastError'[t] = TRUE /\ failed'[t] = failed[t] \cup {"HostToDevice"}
  <2>1. CASE dev[t][Workspace] = "null"
    BY <1>0, <2>1 DEF CopyPrefix, TypeOK
  <2>2. CASE /\ dev[t][Workspace] # "null" /\ UNCHANGED <<lastError, failed>>
             /\ dev' = [dev EXCEPT ![t][Workspace] = "input"]
    BY <1>0, <2>2 DEF TypeOK
  <2>3. CASE dev[t][Workspace] # "null" /\ Fails(t, "HostToDevice") /\ dev' = dev
    <3>1. "HostToDevice" \in Status /\ "HostToDevice" # "Ok"
      BY DEF Status
    <3> QED BY <1>0, <2>3, <3>1, FailsEffect
  <2> QED BY <2>1, <2>2, <2>3 DEF CopyPrefix
<1>2. dev' \in [Threads -> [BufIds -> {"absent", "null", "raw", "input", "result"}]]
  <2>1. CASE dev' = dev
    BY <1>0, <2>1 DEF TypeOK
  <2>2. CASE dev' = [dev EXCEPT ![t][Workspace] = "input"]
    <3>1. [dev[t] EXCEPT ![Workspace] = "input"]
            \in [BufIds -> {"absent", "null", "raw", "input", "result"}]
      BY <1>0 DEF TypeOK
    <3>2. dev' = [dev EXCEPT ![t] = [dev[t] EXCEPT ![Workspace] = "input"]]
      BY <2>2
    <3> QED BY <1>0, <3>1, <3>2 DEF TypeOK
  <2> QED BY <1>1, <2>1, <2>2
<1>3. TypeOK'
  BY <1>0, <1>1, <1>2 DEF counter, Goto, CopyPrefix, Location, TypeOK
<1>4. InPlace(t)'
  BY <1>0, <1>1, <1>2 DEF Goto, CopyPrefix, PlacesOf, InPlace, ThreadInv
<1>5. BuffersFilled(t)'
  BY <1>0, <1>1, <1>2 DEF counter, Outputs, Buffers, Workspace, OutIds, BufIds, Goto, CopyPrefix,
     PlacesOf, InPlace, Filling, InHostCall, BuffersFilled, ThreadInv
<1>6. OutputsAtomic(t)'
  BY <1>0, <1>1, <1>2 DEF CopyPrefix, OutputsAtomic, ThreadInv
<1>7. KernelsEnqueued(t)'
  BY <1>0, <1>1, <1>2 DEF DeviceEntries, CopyPrefix, PlacesOf, InPlace, KernelsEnqueued, ThreadInv
<1>8. FailuresLatched(t)'
  BY <1>0, <1>1, <1>2 DEF Goto, CopyPrefix, TypeOK, PlacesOf, InPlace, InHostCall,
     FailuresLatched, ThreadInv
<1>9. ResultsReady(t)'
  BY <1>0, <1>1, <1>2 DEF Workspace, BufIds, Goto, CopyPrefix, ResultsReady, ThreadInv
<1> QED BY <1>3, <1>4, <1>5, <1>6, <1>7, <1>8, <1>9 DEF ThreadInv

(* The count of refusals is not part of the invariant.                     *)
LEMMA ReadCountStep ==
  ASSUME EntriesInv, NEW t \in Threads, ReadCount(t)
  PROVE  TypeOK' /\ ThreadInv(t)'
<1>0. TypeOK /\ ThreadInv(t) /\ entry[t] \in HostEntries \cup DeviceEntries
  BY EntriesAssumption DEF EntriesInv, TypeOK
<1>1. TypeOK'
  BY <1>0 DEF runtime, call, Goto, ReadCount, Location, TypeOK
<1>2. InPlace(t)'
  BY <1>0 DEF call, Goto, ReadCount, TypeOK, PlacesOf, InPlace
<1>3. BuffersFilled(t)'
  BY <1>0 DEF call, Goto, ReadCount, TypeOK, Filling, InHostCall, BuffersFilled, ThreadInv
<1>4. OutputsAtomic(t)'
  BY <1>0 DEF ReadCount, OutputsAtomic, ThreadInv
<1>5. KernelsEnqueued(t)'
  BY <1>0 DEF DeviceEntries, call, ReadCount, PlacesOf, InPlace, KernelsEnqueued, ThreadInv
<1>6. FailuresLatched(t)'
  BY <1>0 DEF runtime, call, Goto, ReadCount, TypeOK, InHostCall, FailuresLatched, ThreadInv
<1>7. ResultsReady(t)'
  BY <1>0 DEF call, Goto, ReadCount, TypeOK, PlacesOf, InPlace, ResultsReady, ThreadInv
<1> QED BY <1>1, <1>2, <1>3, <1>4, <1>5, <1>6, <1>7 DEF ThreadInv

(* A refused launch returns an error.                                      *)
LEMMA RefuseStep ==
  ASSUME EntriesInv, NEW t \in Threads, Refuse(t)
  PROVE  TypeOK' /\ ThreadInv(t)'
<1>0. TypeOK /\ ThreadInv(t) /\ entry[t] \in HostEntries \cup DeviceEntries
  BY EntriesAssumption DEF EntriesInv, TypeOK
<1>1. TypeOK'
  BY <1>0 DEF runtime, call, Goto, Return, Refuse, Location, TypeOK
<1>2. InPlace(t)'
  BY <1>0 DEF Goto, Return, Refuse, TypeOK, InPlace
<1>3. BuffersFilled(t)'
  BY <1>0 DEF Goto, Return, Refuse, TypeOK, Filling, InHostCall, BuffersFilled
<1>4. OutputsAtomic(t)'
  BY <1>0 DEF Refuse, OutputsAtomic, ThreadInv
<1>5. KernelsEnqueued(t)'
  BY <1>0 DEF kRefused, Goto, Return, Refuse, TypeOK, KernelsEnqueued
<1>6. FailuresLatched(t)'
  BY <1>0 DEF kRefused, Goto, Return, Refuse, TypeOK, FailuresLatched
<1>7. ResultsReady(t)'
  BY <1>0 DEF kRefused, Goto, Return, Refuse, TypeOK, ResultsReady
<1> QED BY <1>1, <1>2, <1>3, <1>4, <1>5, <1>6, <1>7 DEF ThreadInv

(* A count that has moved returns an error.                                *)
LEMMA CompareCountStep ==
  ASSUME EntriesInv, NEW t \in Threads, CompareCount(t)
  PROVE  TypeOK' /\ ThreadInv(t)'
<1>0. TypeOK /\ ThreadInv(t) /\ entry[t] \in HostEntries \cup DeviceEntries
  BY EntriesAssumption DEF EntriesInv, TypeOK
<1>1. /\ pc' \in [Threads -> Location] /\ rc' \in [Threads -> {0, kRefused, kRuntimeError}]
      /\ \/ pc'[t] = "returned" /\ rc'[t] = kRefused
         \/ pc'[t] = "peek" /\ rc' = rc
  <2>1. CASE Return(t, kRefused)
    BY <1>0, <2>1, ReturnEffect
  <2>2. CASE Goto(t, "peek") /\ rc' = rc
    BY <1>0, <2>2 DEF Goto, TypeOK, Location
  <2> QED BY <2>1, <2>2 DEF CompareCount
<1>2. TypeOK'
  BY <1>0, <1>1 DEF runtime, counter, call, CompareCount, TypeOK
<1>3. InPlace(t)'
  BY <1>0, <1>1 DEF call, CompareCount, PlacesOf, InPlace, ThreadInv
<1>4. BuffersFilled(t)'
  BY <1>0, <1>1 DEF call, CompareCount, Filling, InHostCall, BuffersFilled, ThreadInv
<1>5. OutputsAtomic(t)'
  BY <1>0, <1>1 DEF CompareCount, OutputsAtomic, ThreadInv
<1>6. KernelsEnqueued(t)'
  BY <1>0, <1>1 DEF DeviceEntries, call, CompareCount, PlacesOf, InPlace, KernelsEnqueued,
     ThreadInv
<1>7. FailuresLatched(t)'
  BY <1>0, <1>1 DEF kRefused, runtime, call, CompareCount, InHostCall, FailuresLatched, ThreadInv
<1>8. ResultsReady(t)'
  BY <1>0, <1>1 DEF kRefused, runtime, call, CompareCount, ResultsReady, ThreadInv
<1> QED BY <1>2, <1>3, <1>4, <1>5, <1>6, <1>7, <1>8 DEF ThreadInv

(* A refused tactic returns an error.                                      *)
LEMMA LaunchRefusedStep ==
  ASSUME EntriesInv, NEW t \in Threads, LaunchRefused(t)
  PROVE  TypeOK' /\ ThreadInv(t)'
<1>0. TypeOK /\ ThreadInv(t) /\ entry[t] \in HostEntries \cup DeviceEntries
  BY EntriesAssumption DEF EntriesInv, TypeOK
<1>1. TypeOK'
  BY <1>0 DEF runtime, counter, call, Goto, Return, LaunchRefused, Location, TypeOK
<1>2. InPlace(t)'
  BY <1>0 DEF Goto, Return, LaunchRefused, PlacesOf, InPlace
<1>3. BuffersFilled(t)'
  BY <1>0 DEF Goto, Return, LaunchRefused, TypeOK, Filling, InHostCall, BuffersFilled
<1>4. OutputsAtomic(t)'
  BY <1>0 DEF LaunchRefused, OutputsAtomic, ThreadInv
<1>5. KernelsEnqueued(t)'
  BY <1>0 DEF kRefused, Goto, Return, LaunchRefused, TypeOK, KernelsEnqueued
<1>6. FailuresLatched(t)'
  BY <1>0 DEF kRefused, Goto, Return, LaunchRefused, TypeOK, FailuresLatched
<1>7. ResultsReady(t)'
  BY <1>0 DEF kRefused, Goto, Return, LaunchRefused, TypeOK, ResultsReady
<1> QED BY <1>1, <1>2, <1>3, <1>4, <1>5, <1>6, <1>7 DEF ThreadInv

(* The metadata kernel has started, or there is a last error.              *)
LEMMA LaunchMetadataStep ==
  ASSUME EntriesInv, NEW t \in Threads, LaunchMetadata(t)
  PROVE  TypeOK' /\ ThreadInv(t)'
<1>0. TypeOK /\ ThreadInv(t) /\ entry[t] \in HostEntries \cup DeviceEntries
  BY EntriesAssumption DEF EntriesInv, TypeOK
<1>1. /\ pc[t] = "metadata" /\ pc' \in [Threads -> Location] /\ pc'[t] = "peekMetadata"
      /\ lastError' \in [Threads -> BOOLEAN]
      /\ failed' \in [Threads -> SUBSET (Status \ {"Ok"})]
      /\ ran' \in [Threads -> SUBSET {"metadata", "gemm"}]
      /\ \/ ran'[t] = ran[t] \cup {"metadata"} /\ lastError' = lastError /\ failed' = failed
         \/ ran' = ran /\ lastError'[t] = TRUE /\ failed'[t] = failed[t] \cup {"Launch"}
      /\ UNCHANGED <<latch, pos, entry, dev, out, rc, calls, failCount, seen>>
  BY <1>0, StartEffect DEF LaunchMetadata, Location
<1>2. TypeOK'
  BY <1>0, <1>1 DEF TypeOK
<1>3. InPlace(t)'
  BY <1>0, <1>1 DEF PlacesOf, InPlace, ThreadInv
<1>4. BuffersFilled(t)'
  BY <1>0, <1>1 DEF Filling, InHostCall, BuffersFilled, ThreadInv
<1>5. OutputsAtomic(t)'
  BY <1>0, <1>1 DEF OutputsAtomic, ThreadInv
<1>6. KernelsEnqueued(t)'
  BY <1>0, <1>1 DEF KernelsEnqueued, ThreadInv
<1>7. FailuresLatched(t)'
  BY <1>0, <1>1 DEF InHostCall, Reported, FailuresLatched, ThreadInv
<1>8. ResultsReady(t)'
  BY <1>0, <1>1 DEF ResultsReady
<1> QED BY <1>2, <1>3, <1>4, <1>5, <1>6, <1>7, <1>8 DEF ThreadInv

(* The kernel has started, or there is a last error.                       *)
LEMMA LaunchStep ==
  ASSUME EntriesInv, NEW t \in Threads, Launch(t)
  PROVE  TypeOK' /\ ThreadInv(t)'
<1>0. TypeOK /\ ThreadInv(t) /\ entry[t] \in HostEntries \cup DeviceEntries
  BY EntriesAssumption DEF EntriesInv, TypeOK
<1>1. /\ pc[t] = "launch" /\ pc' \in [Threads -> Location] /\ pc'[t] = AfterLaunch(entry[t])
      /\ lastError' \in [Threads -> BOOLEAN]
      /\ failed' \in [Threads -> SUBSET (Status \ {"Ok"})]
      /\ ran' \in [Threads -> SUBSET {"metadata", "gemm"}]
      /\ \/ ran'[t] = ran[t] \cup {"gemm"} /\ lastError' = lastError /\ failed' = failed
         \/ ran' = ran /\ lastError'[t] = TRUE /\ failed'[t] = failed[t] \cup {"Launch"}
      /\ UNCHANGED <<latch, pos, entry, dev, out, rc, calls, failCount, seen>>
  <2>1. AfterLaunch(entry[t]) \in Location
    BY DEF AfterLaunch, Location
  <2> QED BY <1>0, <2>1, StartEffect DEF Launch
<1>2. TypeOK'
  BY <1>0, <1>1 DEF TypeOK
<1>3. InPlace(t)'
  BY <1>0, <1>1 DEF DeviceEntries, AfterLaunch, PlacesOf, InPlace
<1>4. BuffersFilled(t)'
  BY <1>0, <1>1 DEF AfterLaunch, Filling, InHostCall, BuffersFilled, ThreadInv
<1>5. OutputsAtomic(t)'
  BY <1>0, <1>1 DEF OutputsAtomic, ThreadInv
<1>6. KernelsEnqueued(t)'
  BY <1>0, <1>1 DEF Kernels, AfterLaunch, KernelsEnqueued, ThreadInv
<1>7. FailuresLatched(t)'
  BY <1>0, <1>1 DEF DeviceEntries, AfterLaunch, InHostCall, Reported, FailuresLatched, ThreadInv
<1>8. ResultsReady(t)'
  BY <1>0, <1>1 DEF AfterLaunch, ResultsReady, ThreadInv
<1> QED BY <1>2, <1>3, <1>4, <1>5, <1>6, <1>7, <1>8 DEF ThreadInv

(* An entry goes on, or returns 0, when there is no last error.            *)
LEMMA CheckLaunchStep ==
  ASSUME EntriesInv, NEW t \in Threads, CheckLaunch(t)
  PROVE  TypeOK' /\ ThreadInv(t)'
<1>0. TypeOK /\ ThreadInv(t) /\ entry[t] \in HostEntries \cup DeviceEntries
  BY EntriesAssumption DEF EntriesInv, TypeOK
<1>1. /\ latch' \in [Threads -> Status]
      /\ pc' \in [Threads -> Location] /\ rc' \in [Threads -> {0, kRefused, kRuntimeError}]
      /\ \/ pc'[t] = "returned" /\ rc'[t] = kRuntimeError
         \/ /\ ~lastError[t] /\ latch' = latch
            /\ \/ pc[t] = "peekMetadata" /\ pc'[t] = "launch" /\ rc' = rc
               \/ pc[t] = "peek" /\ entry[t] \in HostEntries /\ pc'[t] = "sync" /\ rc' = rc
               \/ pc[t] = "peek" /\ entry[t] \notin HostEntries /\ pc'[t] = "returned" /\ rc'[t] = 0
  <2>1. CASE Record(t, "Launch") /\ Return(t, kRuntimeError)
    <3>1. "Launch" \in Status /\ "Launch" # "Ok"
      BY DEF Status
    <3> QED BY <1>0, <2>1, <3>1, RecordEffect, ReturnEffect
  <2>2. CASE /\ ~lastError[t] /\ latch' = latch
             /\ pc[t] = "peekMetadata" /\ Goto(t, "launch") /\ rc' = rc
    BY <1>0, <2>2 DEF Goto, TypeOK, Location
  <2>3. CASE /\ ~lastError[t] /\ latch' = latch /\ pc[t] = "peek"
             /\ entry[t] \in HostEntries /\ Goto(t, "sync") /\ rc' = rc
    BY <1>0, <2>3 DEF Goto, TypeOK, Location
  <2>4. CASE /\ ~lastError[t] /\ latch' = latch
             /\ pc[t] = "peek" /\ entry[t] \notin HostEntries /\ Return(t, 0)
    BY <1>0, <2>4, ReturnEffect DEF TypeOK
  <2> QED BY <2>1, <2>2, <2>3, <2>4 DEF CheckLaunch, LaunchError
<1>2. TypeOK'
  BY <1>0, <1>1 DEF counter, call, CheckLaunch, TypeOK
<1>3. InPlace(t)'
  BY <1>0, <1>1 DEF HostEntries, call, CheckLaunch, PlacesOf, InPlace
<1>4. BuffersFilled(t)'
  BY <1>0, <1>1 DEF call, CheckLaunch, Filling, InHostCall, BuffersFilled, ThreadInv
<1>5. OutputsAtomic(t)'
  BY <1>0, <1>1 DEF CheckLaunch, OutputsAtomic, ThreadInv
<1>6. KernelsEnqueued(t)'
  BY <1>0, <1>1 DEF kRuntimeError, call, Kernels, CheckLaunch, PlacesOf, InPlace, KernelsEnqueued,
     ThreadInv
<1>7. FailuresLatched(t)'
  BY <1>0, <1>1 DEF kRuntimeError, call, CheckLaunch, InHostCall, FailuresLatched, ThreadInv
<1>8. ResultsReady(t)'
  BY <1>0, <1>1 DEF kRuntimeError, call, CheckLaunch, PlacesOf, InPlace, ResultsReady, ThreadInv
<1> QED BY <1>2, <1>3, <1>4, <1>5, <1>6, <1>7, <1>8 DEF ThreadInv

(* The results are there unless the latch is set, when rt_sync reads the   *)
(* last error.                                                             *)
LEMMA SyncStep ==
  ASSUME EntriesInv, NEW t \in Threads, Sync(t)
  PROVE  TypeOK' /\ ThreadInv(t)'
<1>0. TypeOK /\ ThreadInv(t) /\ entry[t] \in HostEntries \cup DeviceEntries
  BY EntriesAssumption DEF EntriesInv, TypeOK
<1>1. /\ pc' \in [Threads -> Location] /\ pc'[t] = "synced"
      /\ latch' \in [Threads -> Status] /\ lastError' \in [Threads -> BOOLEAN]
      /\ failed' \in [Threads -> SUBSET (Status \ {"Ok"})]
      /\ \/ latch'[t] # "Ok" /\ failed'[t] = failed[t] \cup {"Synchronize"} /\ dev' = dev
         \/ /\ latch'[t] = latch[t] \/ latch'[t] # "Ok"
            /\ failed' = failed
            /\ SyncReadsLastError /\ lastError[t] => latch'[t] # "Ok"
            /\ dev' = IF ~Computes(t) THEN dev
                      ELSE [dev EXCEPT ![t] = [b \in BufIds |->
                              IF b \in 2 .. Buffers(entry[t]) THEN "result" ELSE dev[t][b]]]
  <2>1. "Synchronize" \in Status /\ "Synchronize" # "Ok"
    BY DEF Status
  <2>2. pc' \in [Threads -> Location] /\ pc'[t] = "synced"
    BY <1>0 DEF Sync, Goto, TypeOK, Location
  <2>3. CASE Wrapped(t, "Synchronize", FALSE) /\ dev' = dev
    BY <1>0, <2>1, <2>2, <2>3, WrappedEffect
  <2>4. CASE /\ failed' = failed
             /\ dev' = IF ~Computes(t) THEN dev
                       ELSE [dev EXCEPT ![t] = [b \in BufIds |->
                               IF b \in 2 .. Buffers(entry[t]) THEN "result" ELSE dev[t][b]]]
             /\ IF ReadsLastError /\ lastError[t]
                THEN /\ Record(t, "Synchronize")
                     /\ lastError' = [lastError EXCEPT ![t] = FALSE]
                ELSE UNCHANGED <<latch, lastError>>
    <3>1. CASE ReadsLastError /\ lastError[t]
      BY <1>0, <2>1, <2>2, <2>4, <3>1, RecordEffect DEF TypeOK
    <3>2. CASE ~(ReadsLastError /\ lastError[t])
      BY <1>0, <2>2, <2>4, <3>2 DEF TypeOK, ReadsLastError
    <3> QED BY <3>1, <3>2
  <2> QED BY <2>3, <2>4 DEF Sync, runtime
<1>2. dev' \in [Threads -> [BufIds -> {"absent", "null", "raw", "input", "result"}]]
  <2>1. [b \in BufIds |-> IF b \in 2 .. Buffers(entry[t]) THEN "result" ELSE dev[t][b]]
          \in [BufIds -> {"absent", "null", "raw", "input", "result"}]
    BY <1>0 DEF TypeOK
  <2> QED BY <1>0, <1>1, <2>1 DEF TypeOK
<1>3. UNCHANGED <<pos, entry, ran, out, rc, calls, failCount, seen>> /\ pc[t] = "sync"
  BY DEF Sync, counter
<1>4. TypeOK'
  BY <1>0, <1>1, <1>2, <1>3 DEF TypeOK
<1>5. InPlace(t)'
  BY <1>0, <1>1, <1>2, <1>3 DEF PlacesOf, InPlace, ThreadInv
<1>6. BuffersFilled(t)'
  <2>1. \A b \in BufIds : dev'[t][b] \in {dev[t][b], "result"}
    <3>1. CASE dev' = dev
      BY <3>1
    <3>2. CASE dev' = [dev EXCEPT ![t] = [b \in BufIds |->
                          IF b \in 2 .. Buffers(entry[t]) THEN "result" ELSE dev[t][b]]]
      BY <1>0, <3>2 DEF TypeOK
    <3> QED BY <1>1, <3>1, <3>2
  <2>2. 2 .. Buffers(entry[t]) \subseteq BufIds
    BY DEF Buffers, Outputs, BufIds
  <2>3. InHostCall(t)
    BY <1>0, <1>3 DEF DeviceEntries, PlacesOf, InPlace, ThreadInv, InHostCall
  <2>4. pos'[t] \in 1 .. Outputs(entry'[t])
    BY <1>0, <1>3, <2>3 DEF BuffersFilled, ThreadInv
  <2>5. \A b \in 2 .. Buffers(entry[t]) : dev'[t][b] \in {"raw", "null", "result"}
    <3>1. \A b \in 2 .. Buffers(entry[t]) : dev[t][b] \in {"raw", "null", "result"}
      BY <1>0, <1>3, <2>3 DEF BuffersFilled, ThreadInv
    <3> QED BY <2>1, <2>2, <3>1
  <2>6. \A b \in BufIds : dev'[t][b] = "null" => entry[t] = "grouped" /\ b = Workspace
    BY <1>0, <1>3, <2>1 DEF BuffersFilled, ThreadInv, Filling
  <2> QED BY <1>1, <1>3, <2>4, <2>5, <2>6 DEF BuffersFilled, Filling
<1>7. OutputsAtomic(t)'
  BY <1>0, <1>1, <1>2, <1>3 DEF OutputsAtomic, ThreadInv
<1>8. KernelsEnqueued(t)'
  BY <1>0, <1>1, <1>2, <1>3 DEF KernelsEnqueued
<1>9. FailuresLatched(t)'
  BY <1>0, <1>1, <1>2, <1>3 DEF DeviceEntries, PlacesOf, InPlace, InHostCall, FailuresLatched,
     ThreadInv
<1>10. ResultsReady(t)'
  <2> SUFFICES ASSUME SyncReadsLastError, entry[t] \in HostEntries, latch'[t] = "Ok"
               PROVE  \A b \in 2 .. Buffers(entry[t]) : dev'[t][b] = "result"
    BY <1>1, <1>3 DEF ResultsReady
  <2>1. latch[t] = "Ok" /\ ~lastError[t]
    BY <1>1
  <2>2. Computes(t)
    BY <1>0, <1>3, <2>1 DEF Computes, ThreadInv, ResultsReady
  <2>3. dev' = [dev EXCEPT ![t] = [b \in BufIds |->
                  IF b \in 2 .. Buffers(entry[t]) THEN "result" ELSE dev[t][b]]]
    BY <1>1, <2>2
  <2>4. 2 .. Buffers(entry[t]) \subseteq BufIds
    BY DEF Buffers, Outputs, BufIds
  <2> QED BY <1>0, <2>3, <2>4 DEF TypeOK
<1> QED BY <1>4, <1>5, <1>6, <1>7, <1>8, <1>9, <1>10 DEF ThreadInv

(* Past this check the results are there.                                  *)
LEMMA CheckSyncStep ==
  ASSUME EntriesInv, NEW t \in Threads, CheckSync(t)
  PROVE  TypeOK' /\ ThreadInv(t)'
<1>0. TypeOK /\ ThreadInv(t) /\ entry[t] \in HostEntries \cup DeviceEntries
  BY EntriesAssumption DEF EntriesInv, TypeOK
<1>1. /\ pc' \in [Threads -> Location] /\ rc' \in [Threads -> {0, kRefused, kRuntimeError}]
      /\ \/ pc'[t] = "returned" /\ rc'[t] = kRuntimeError /\ latch[t] # "Ok"
         \/ pc'[t] = "stage" /\ rc' = rc /\ latch[t] = "Ok"
  <2>1. CASE Return(t, kRuntimeError) /\ latch[t] # "Ok"
    BY <1>0, <2>1, ReturnEffect
  <2>2. CASE Goto(t, "stage") /\ rc' = rc /\ latch[t] = "Ok"
    BY <1>0, <2>2 DEF Goto, TypeOK, Location
  <2> QED BY <2>1, <2>2 DEF CheckSync, RtOk, LatchOf
<1>2. TypeOK'
  BY <1>0, <1>1 DEF runtime, counter, call, CheckSync, TypeOK
<1>3. InPlace(t)'
  BY <1>0, <1>1 DEF call, CheckSync, PlacesOf, InPlace, ThreadInv
<1>4. BuffersFilled(t)'
  BY <1>0, <1>1 DEF call, CheckSync, Filling, InHostCall, BuffersFilled, ThreadInv
<1>5. OutputsAtomic(t)'
  BY <1>0, <1>1 DEF CheckSync, OutputsAtomic, ThreadInv
<1>6. KernelsEnqueued(t)'
  BY <1>0, <1>1 DEF kRuntimeError, KernelsEnqueued
<1>7. FailuresLatched(t)'
  BY <1>0, <1>1 DEF kRuntimeError, call, CheckSync, FailuresLatched, ThreadInv
<1>8. ResultsReady(t)'
  BY <1>0, <1>1 DEF kRuntimeError, call, LatchOf, RtOk, CheckSync, ResultsReady, ThreadInv
<1> QED BY <1>2, <1>3, <1>4, <1>5, <1>6, <1>7, <1>8 DEF ThreadInv

(* A failed host allocation returns an error.                              *)
LEMMA StageOutputStep ==
  ASSUME EntriesInv, NEW t \in Threads, StageOutput(t)
  PROVE  TypeOK' /\ ThreadInv(t)'
<1>0. TypeOK /\ ThreadInv(t) /\ entry[t] \in HostEntries \cup DeviceEntries
  BY EntriesAssumption DEF EntriesInv, TypeOK
<1>1. /\ latch' \in [Threads -> Status]
      /\ failed' \in [Threads -> SUBSET (Status \ {"Ok"})]
      /\ pc' \in [Threads -> Location] /\ rc' \in [Threads -> {0, kRefused, kRuntimeError}]
      /\ \/ pc'[t] = "copyOut" /\ latch' = latch /\ failed' = failed /\ rc' = rc
         \/ /\ pc'[t] = "returned" /\ rc'[t] = kRuntimeError
            /\ failed'[t] = failed[t] \cup {"HostAllocation"}
  <2>1. CASE Goto(t, "copyOut") /\ latch' = latch /\ failed' = failed /\ rc' = rc
    BY <1>0, <2>1 DEF Goto, TypeOK, Location
  <2>2. CASE /\ Record(t, "HostAllocation") /\ Return(t, kRuntimeError)
             /\ failed' = [failed EXCEPT ![t] = failed[t] \cup {"HostAllocation"}]
    <3>1. "HostAllocation" \in Status /\ "HostAllocation" # "Ok"
      BY DEF Status
    <3>2. failed[t] \cup {"HostAllocation"} \in SUBSET (Status \ {"Ok"})
      BY <1>0, <3>1 DEF TypeOK
    <3>3. /\ failed' \in [Threads -> SUBSET (Status \ {"Ok"})]
          /\ failed'[t] = failed[t] \cup {"HostAllocation"}
      BY <1>0, <2>2, <3>2 DEF TypeOK
    <3> QED BY <1>0, <2>2, <3>1, <3>3, RecordEffect, ReturnEffect
  <2> QED BY <2>1, <2>2 DEF StageOutput
<1>2. TypeOK'
  BY <1>0, <1>1 DEF counter, StageOutput, TypeOK
<1>3. InPlace(t)'
  BY <1>0, <1>1 DEF StageOutput, PlacesOf, InPlace, ThreadInv
<1>4. BuffersFilled(t)'
  BY <1>0, <1>1 DEF StageOutput, Filling, InHostCall, BuffersFilled, ThreadInv
<1>5. OutputsAtomic(t)'
  BY <1>0, <1>1 DEF StageOutput, OutputsAtomic, ThreadInv
<1>6. KernelsEnqueued(t)'
  BY <1>0, <1>1 DEF kRuntimeError, KernelsEnqueued
<1>7. FailuresLatched(t)'
  BY <1>0, <1>1 DEF kRuntimeError, StageOutput, InHostCall, FailuresLatched, ThreadInv
<1>8. ResultsReady(t)'
  BY <1>0, <1>1 DEF kRuntimeError, StageOutput, ResultsReady, ThreadInv
<1> QED BY <1>2, <1>3, <1>4, <1>5, <1>6, <1>7, <1>8 DEF ThreadInv

(* Outputs reach the caller together, with the code 0, or not at all.      *)
LEMMA CopyOutStep ==
  ASSUME EntriesInv, NEW t \in Threads, CopyOut(t)
  PROVE  TypeOK' /\ ThreadInv(t)'
<1>0. TypeOK /\ ThreadInv(t) /\ entry[t] \in HostEntries \cup DeviceEntries
  BY EntriesAssumption DEF EntriesInv, TypeOK
<1>1. pc[t] = "copyOut" /\ UNCHANGED <<entry, dev, ran, calls, failCount, seen>>
  BY DEF CopyOut, counter
<1>2. /\ pos[t] \in 1 .. Outputs(entry[t])
      /\ \A b \in 2 .. Buffers(entry[t]) : dev[t][b] \in {"raw", "null", "result"}
      /\ \A b \in 2 .. Buffers(entry[t]) : dev[t][b] # "null"
  <2>1. InPlace(t) /\ BuffersFilled(t) /\ entry[t] \in HostEntries
    BY <1>0, <1>1 DEF ThreadInv, InPlace, PlacesOf, DeviceEntries
  <2>2. /\ pos[t] \in 1 .. Outputs(entry[t])
        /\ \A b \in 2 .. Buffers(entry[t]) : dev[t][b] \in {"raw", "null", "result"}
    BY <1>1, <2>1 DEF BuffersFilled, InHostCall
  <2>3. /\ 2 .. Buffers(entry[t]) \subseteq BufIds
        /\ entry[t] = "grouped" => Workspace \notin 2 .. Buffers(entry[t])
    BY DEF Buffers, Outputs, BufIds, Workspace
  <2>4. \A b \in 2 .. Buffers(entry[t]) : dev[t][b] # "null"
    BY <1>1, <2>1, <2>3 DEF BuffersFilled, Filling
  <2> QED BY <2>2, <2>4
<1>3. /\ latch' \in [Threads -> Status] /\ lastError' \in [Threads -> BOOLEAN]
      /\ failed' \in [Threads -> SUBSET (Status \ {"Ok"})]
      /\ pc' \in [Threads -> Location] /\ rc' \in [Threads -> {0, kRefused, kRuntimeError}]
      /\ \/ pc'[t] = "returned" /\ rc'[t] = kRuntimeError /\ UNCHANGED <<pos, out>>
         \/ /\ UNCHANGED <<latch, lastError, failed>>
            /\ pos[t] < Outputs(entry[t]) /\ out' = out
            /\ pos' = [pos EXCEPT ![t] = pos[t] + 1] /\ UNCHANGED <<pc, rc>>
         \/ /\ UNCHANGED <<latch, lastError, failed, pos>>
            /\ pos[t] = Outputs(entry[t]) /\ latch[t] = "Ok"
            /\ out' = [out EXCEPT ![t] = [j \in OutIds |->
                         IF j \in 1 .. Outputs(entry[t]) THEN dev[t][j + 1] ELSE out[t][j]]]
            /\ pc'[t] = "returned" /\ rc'[t] = 0
  <2>1. CASE Wrapped(t, "DeviceToHost", FALSE) /\ Return(t, kRuntimeError) /\ UNCHANGED <<pos, out>>
    <3>1. "DeviceToHost" \in Status /\ "DeviceToHost" # "Ok"
      BY DEF Status
    <3> QED BY <1>0, <2>1, <3>1, WrappedEffect, ReturnEffect
  <2>2. CASE /\ UNCHANGED <<latch, lastError, failed>>
             /\ out' = IF ~RtOk(t) THEN out
                       ELSE [out EXCEPT ![t] = [j \in OutIds |->
                               IF j \in Delivered(entry[t], pos[t]) THEN dev[t][j + 1] ELSE out[t][j]]]
             /\ IF pos[t] < Outputs(entry[t])
                THEN pos' = [pos EXCEPT ![t] = pos[t] + 1] /\ UNCHANGED <<pc, rc>>
                ELSE /\ Return(t, IF RtOk(t) THEN 0 ELSE kRuntimeError)
                     /\ UNCHANGED pos
    <3>1. CASE pos[t] < Outputs(entry[t])
      <4>1. Delivered(entry[t], pos[t]) = {}
        BY <1>2, <3>1 DEF Delivered
      <4>2. [j \in OutIds |-> IF j \in {} THEN dev[t][j + 1] ELSE out[t][j]] = out[t]
        BY <1>0 DEF TypeOK
      <4>3. out' = out
        BY <1>0, <2>2, <4>1, <4>2 DEF TypeOK
      <4> QED BY <1>0, <2>2, <3>1, <4>3 DEF TypeOK
    <3>2. CASE ~(pos[t] < Outputs(entry[t])) /\ RtOk(t)
      <4>1. pos[t] = Outputs(entry[t]) /\ Delivered(entry[t], pos[t]) = 1 .. Outputs(entry[t])
        BY <1>2, <3>2 DEF Delivered, Outputs
      <4> QED BY <1>0, <2>2, <3>2, <4>1, ReturnEffect DEF TypeOK, RtOk, LatchOf
    <3>3. CASE ~(pos[t] < Outputs(entry[t])) /\ ~RtOk(t)
      BY <1>0, <2>2, <3>3, ReturnEffect DEF TypeOK
    <3> QED BY <3>1, <3>2, <3>3
  <2> QED BY <2>1, <2>2 DEF CopyOut, Wrapped, runtime
<1>4. TypeOK'
  <2>1. CASE out' = out
    <3>1. Outputs(entry[t]) \in 1 .. 2 /\ pos[t] \in Nat
      BY <1>0 DEF TypeOK, BufIds, Outputs
    <3>2. pos' \in [Threads -> BufIds]
      <4>1. CASE pos' = pos
        BY <1>0, <4>1 DEF TypeOK
      <4>2. CASE pos[t] < Outputs(entry[t]) /\ pos' = [pos EXCEPT ![t] = pos[t] + 1]
        <5>1. pos[t] + 1 \in BufIds
          BY <3>1, <4>2 DEF BufIds
        <5> QED BY <1>0, <4>2, <5>1 DEF TypeOK
      <4> QED BY <1>3, <4>1, <4>2
    <3> QED BY <1>0, <1>1, <1>3, <2>1, <3>2 DEF TypeOK
  <2>2. CASE out' = [out EXCEPT ![t] = [j \in OutIds |->
                       IF j \in 1 .. Outputs(entry[t]) THEN dev[t][j + 1] ELSE out[t][j]]]
    <3>1. \A j \in 1 .. Outputs(entry[t]) : dev[t][j + 1] \in {"raw", "result"}
      BY <1>2 DEF Buffers, Outputs
    <3>2. out[t] \in [OutIds -> {"caller", "raw", "result"}]
      BY <1>0 DEF TypeOK
    <3>3. \A j \in OutIds : (IF j \in 1 .. Outputs(entry[t]) THEN dev[t][j + 1] ELSE out[t][j])
                              \in {"caller", "raw", "result"}
      BY <3>1, <3>2
    <3>4. [j \in OutIds |-> IF j \in 1 .. Outputs(entry[t]) THEN dev[t][j + 1] ELSE out[t][j]]
            \in [OutIds -> {"caller", "raw", "result"}]
      BY <3>3
    <3>5. out' \in [Threads -> [OutIds -> {"caller", "raw", "result"}]]
      BY <1>0, <2>2, <3>4 DEF TypeOK
    <3>6. pos' \in [Threads -> BufIds]
      <4>1. Outputs(entry[t]) \in 1 .. 2 /\ pos[t] \in Nat
        BY <1>0 DEF TypeOK, BufIds, Outputs
      <4>2. CASE pos' = pos
        BY <1>0, <4>2 DEF TypeOK
      <4>3. CASE pos[t] < Outputs(entry[t]) /\ pos' = [pos EXCEPT ![t] = pos[t] + 1]
        <5>1. pos[t] + 1 \in BufIds
          BY <4>1, <4>3 DEF BufIds
        <5> QED BY <1>0, <4>3, <5>1 DEF TypeOK
      <4> QED BY <1>3, <4>2, <4>3
    <3> QED BY <1>0, <1>1, <1>3, <3>5, <3>6 DEF TypeOK
  <2> QED BY <1>3, <2>1, <2>2
<1>5. InPlace(t)'
  BY <1>0, <1>1, <1>2, <1>3 DEF InPlace, ThreadInv
<1>6. BuffersFilled(t)'
  BY <1>0, <1>1, <1>2, <1>3 DEF Outputs, TypeOK, Filling, BuffersFilled, ThreadInv
<1>7. OutputsAtomic(t)'
  BY <1>0, <1>1, <1>2, <1>3 DEF OutputsAtomic, ThreadInv
<1>8. KernelsEnqueued(t)'
  BY <1>0, <1>1, <1>2, <1>3 DEF DeviceEntries, PlacesOf, InPlace, KernelsEnqueued, ThreadInv
<1>9. FailuresLatched(t)'
  BY <1>0, <1>1, <1>2, <1>3 DEF kRuntimeError, InHostCall, FailuresLatched, ThreadInv
<1>10. ResultsReady(t)'
  <2>1. CASE UNCHANGED <<pc, rc, out, latch, lastError>>
    BY <1>0, <1>1, <2>1 DEF ThreadInv, ResultsReady
  <2>2. CASE pc'[t] = "returned"
    <3> SUFFICES ASSUME SyncReadsLastError, entry[t] \in HostEntries, rc'[t] = 0
                 PROVE  \A i \in 1 .. Outputs(entry[t]) : out'[t][i] = "result"
      BY <1>1, <2>2 DEF ResultsReady
    <3>1. out' = [out EXCEPT ![t] = [j \in OutIds |->
                    IF j \in 1 .. Outputs(entry[t]) THEN dev[t][j + 1] ELSE out[t][j]]]
      BY <1>1, <1>3, <2>2 DEF kRuntimeError
    <3>2. \A b \in 2 .. Buffers(entry[t]) : dev[t][b] = "result"
      BY <1>0, <1>1 DEF ThreadInv, ResultsReady
    <3>3. \A i \in 1 .. Outputs(entry[t]) : i \in OutIds /\ i + 1 \in 2 .. Buffers(entry[t])
      BY DEF Outputs, Buffers, OutIds
    <3> QED BY <1>0, <3>1, <3>2, <3>3 DEF TypeOK
  <2> QED BY <1>3, <2>1, <2>2
<1> QED BY <1>4, <1>5, <1>6, <1>7, <1>8, <1>9, <1>10 DEF ThreadInv

-----------------------------------------------------------------------------
(* A step of one thread leaves what the others have as it is.              *)
LEMMA OthersUntouched ==
  ASSUME TypeOK, NEW t \in Threads, Step(t), NEW u \in Threads, u # t
  PROVE  /\ latch'[u] = latch[u] /\ lastError'[u] = lastError[u] /\ pc'[u] = pc[u]
         /\ entry'[u] = entry[u] /\ pos'[u] = pos[u] /\ dev'[u] = dev[u] /\ ran'[u] = ran[u]
         /\ failed'[u] = failed[u] /\ out'[u] = out[u] /\ rc'[u] = rc[u] /\ calls'[u] = calls[u]
<1>1. CASE Enter(t)
  BY <1>1 DEF LatchOf, Goto, Enter
<1>2. CASE Alloc(t)
  BY <1>2 DEF runtime, LatchOf, Record, Fails, Wrapped, Goto, Alloc, TypeOK
<1>3. CASE CopyIn(t)
  BY <1>3 DEF runtime, LatchOf, Record, Fails, Wrapped, Goto, CopyIn, TypeOK
<1>4. CASE CheckReady(t)
  BY <1>4 DEF runtime, call, Goto, Return, CheckReady, TypeOK
<1>5. CASE AllocWorkspace(t)
  BY <1>5 DEF runtime, LatchOf, Record, Fails, Wrapped, Goto, AllocWorkspace, TypeOK
<1>6. CASE CopyPrefix(t)
  BY <1>6 DEF Fails, Goto, CopyPrefix, TypeOK
<1>7. CASE ReadCount(t)
  BY <1>7 DEF runtime, call, Goto, ReadCount, TypeOK
<1>8. CASE Refuse(t)
  BY <1>8 DEF runtime, call, Goto, Return, Refuse
<1>9. CASE CompareCount(t)
  BY <1>9 DEF runtime, call, Goto, Return, CompareCount, TypeOK
<1>10. CASE LaunchRefused(t)
  BY <1>10 DEF runtime, call, Goto, Return, LaunchRefused
<1>11. CASE LaunchMetadata(t)
  BY <1>11 DEF Fails, Goto, Start, LaunchMetadata, TypeOK
<1>12. CASE Launch(t)
  BY <1>12 DEF Fails, Goto, Start, Launch, TypeOK
<1>13. CASE CheckLaunch(t)
  BY <1>13 DEF call, LatchOf, Record, Goto, Return, CheckLaunch, TypeOK
<1>14. CASE Sync(t)
  BY <1>14 DEF runtime, LatchOf, Record, Fails, Wrapped, Goto, Sync, TypeOK
<1>15. CASE CheckSync(t)
  BY <1>15 DEF runtime, call, Goto, Return, CheckSync, TypeOK
<1>16. CASE StageOutput(t)
  BY <1>16 DEF LatchOf, Record, Goto, Return, StageOutput, TypeOK
<1>17. CASE CopyOut(t)
  BY <1>17 DEF runtime, LatchOf, Record, Fails, Wrapped, Goto, Return, CopyOut, TypeOK
<1> QED BY <1>1, <1>2, <1>3, <1>4, <1>5, <1>6, <1>7, <1>8, <1>9, <1>10, <1>11, <1>12, <1>13, <1>14, <1>15,
   <1>16, <1>17 DEF Step

(* ThreadInv speaks of nothing else.                                       *)
LEMMA OthersKeep ==
  ASSUME TypeOK, NEW t \in Threads, Step(t), NEW u \in Threads, u # t, ThreadInv(u)
  PROVE  ThreadInv(u)'
<1>1. /\ latch'[u] = latch[u] /\ lastError'[u] = lastError[u] /\ pc'[u] = pc[u]
      /\ entry'[u] = entry[u] /\ pos'[u] = pos[u] /\ dev'[u] = dev[u] /\ ran'[u] = ran[u]
      /\ failed'[u] = failed[u] /\ out'[u] = out[u] /\ rc'[u] = rc[u]
  BY OthersUntouched
<1>2. InPlace(u)' /\ OutputsAtomic(u)' /\ KernelsEnqueued(u)'
  BY <1>1 DEF ThreadInv, InPlace, OutputsAtomic, KernelsEnqueued
<1>3. BuffersFilled(u)'
  BY <1>1 DEF ThreadInv, BuffersFilled, InHostCall
<1>4. FailuresLatched(u)' /\ ResultsReady(u)'
  BY <1>1 DEF ThreadInv, FailuresLatched, ResultsReady, InHostCall
<1> QED BY <1>2, <1>3, <1>4 DEF ThreadInv

(* No call has begun.                                                      *)
LEMMA EntriesInit == Init => EntriesInv
<1> SUFFICES ASSUME Init PROVE EntriesInv
  OBVIOUS
<1>1. TypeOK
  BY EntriesAssumption DEF Init, TypeOK, Status, Location, BufIds, NoBuffers, Untouched
<1>2. ASSUME NEW t \in Threads PROVE ThreadInv(t)
  <2>1. /\ pc[t] = "returned" /\ rc[t] = kRefused /\ out[t] = Untouched /\ failed[t] = {}
    BY DEF Init
  <2>2. InPlace(t) /\ OutputsAtomic(t) /\ KernelsEnqueued(t) /\ FailuresLatched(t) /\ ResultsReady(t)
    BY <2>1 DEF InPlace, OutputsAtomic, KernelsEnqueued, FailuresLatched, ResultsReady, kRefused
  <2>3. BuffersFilled(t)
    BY <2>1 DEF BuffersFilled, InHostCall, Filling
  <2> QED BY <2>2, <2>3 DEF ThreadInv
<1> QED BY <1>1, <1>2 DEF EntriesInv

(* Every step keeps the types and what is known of the thread that takes   *)
(* it; the other threads' part is untouched.                               *)
LEMMA EntriesStep == EntriesInv /\ [Next]_vars => EntriesInv'
<1> SUFFICES ASSUME EntriesInv, [Next]_vars PROVE EntriesInv'
  OBVIOUS
<1>1. CASE UNCHANGED vars
  <2>1. TypeOK'
    BY <1>1 DEF EntriesInv, TypeOK, vars, runtime, call, counter
  <2>2. ASSUME NEW u \in Threads PROVE ThreadInv(u)'
    <3>1. InPlace(u)' /\ OutputsAtomic(u)' /\ KernelsEnqueued(u)'
      BY <1>1 DEF EntriesInv, ThreadInv, InPlace, OutputsAtomic, KernelsEnqueued, vars, runtime,
         call
    <3>2. BuffersFilled(u)'
      BY <1>1 DEF EntriesInv, ThreadInv, BuffersFilled, InHostCall, vars, runtime, call
    <3>3. FailuresLatched(u)' /\ ResultsReady(u)'
      BY <1>1 DEF EntriesInv, ThreadInv, FailuresLatched, ResultsReady, InHostCall, vars, runtime,
         call
    <3> QED BY <3>1, <3>2, <3>3 DEF ThreadInv
  <2> QED BY <2>1, <2>2 DEF EntriesInv
<1>2. ASSUME NEW t \in Threads, Step(t) PROVE EntriesInv'
  <2>1. TypeOK' /\ ThreadInv(t)'
    BY <1>2, EnterStep, AllocStep, CopyInStep, CheckReadyStep, AllocWorkspaceStep, CopyPrefixStep,
       ReadCountStep, RefuseStep, CompareCountStep, LaunchRefusedStep, LaunchMetadataStep, LaunchStep,
       CheckLaunchStep, SyncStep, CheckSyncStep, StageOutputStep, CopyOutStep DEF Step
  <2>2. ASSUME NEW u \in Threads, u # t PROVE ThreadInv(u)'
    BY <1>2, <2>2, OthersKeep DEF EntriesInv
  <2> QED BY <2>1, <2>2 DEF EntriesInv
<1> QED BY <1>1, <1>2 DEF Next, Stopped

(* EntriesInv is an invariant of the entries.                              *)
THEOREM EntriesInvariant == Spec => []EntriesInv
BY EntriesInit, EntriesStep, PTL DEF Spec
-----------------------------------------------------------------------------
(* No buffer and no output past the last is touched, and no device         *)
(* contents but results or uninitialised memory reach a caller.            *)
THEOREM EntriesTyped == Spec => []TypeOK
<1>1. EntriesInv => TypeOK
  BY DEF EntriesInv
<1> QED BY <1>1, EntriesInvariant, PTL

(* A call that returns an error has left all the caller's outputs alone.   *)
THEOREM ErrorsLeaveOutputs == Spec => []ErrorLeavesOutputs
<1>1. EntriesInv => ErrorLeavesOutputs
  BY DEF EntriesInv, ThreadInv, OutputsAtomic, ErrorLeavesOutputs
<1> QED BY <1>1, EntriesInvariant, PTL

(* A device-pointer entry that returns 0 has enqueued all its kernels.     *)
THEOREM ZeroIsEnqueued == Spec => []ZeroMeansEnqueued
<1>1. EntriesInv => ZeroMeansEnqueued
  BY DEF EntriesInv, ThreadInv, KernelsEnqueued, ZeroMeansEnqueued, Returned
<1> QED BY <1>1, EntriesInvariant, PTL

(* An entry that returns 0 had no failure, unless it is the grouped one of *)
(* the HGGC build, which loses that of its prefix copy.                    *)
THEOREM FailuresAreReturned ==
  ASSUME SyncReadsLastError \/ "grouped" \notin Entries
  PROVE  Spec => []FailuresCross
<1>1. EntriesInv => FailuresCross
  <2> SUFFICES ASSUME EntriesInv, NEW t \in Threads, Returned(t, Entries), rc[t] = 0
               PROVE  failed[t] \cap Reported = {}
    BY DEF FailuresCross, Reported
  <2>1. SyncReadsLastError \/ entry[t] # "grouped"
    BY DEF Returned
  <2> QED BY <2>1 DEF EntriesInv, ThreadInv, FailuresLatched, InHostCall, Returned
<1> QED BY <1>1, EntriesInvariant, PTL

(* With the CUDA rt_sync a host entry that returns 0 has handed over the   *)
(* results of its kernel.                                                  *)
THEOREM SuccessIsResult == ASSUME SyncReadsLastError PROVE Spec => []SuccessMeansResult
<1>1. EntriesInv => SuccessMeansResult
  BY DEF EntriesInv, ThreadInv, ResultsReady, SuccessMeansResult, Returned
<1> QED BY <1>1, EntriesInvariant, PTL

(* No host entry but the grouped one launches with a null buffer.          *)
THEOREM LaunchesHaveBuffers == Spec => []LaunchesWithBuffers
<1>1. EntriesInv => LaunchesWithBuffers
  <2> SUFFICES ASSUME EntriesInv, NEW t \in Threads, pc[t] = "launch",
                      entry[t] \in HostEntries \ {"grouped"}, NEW b \in BufIds
               PROVE  dev[t][b] # "null"
    BY DEF LaunchesWithBuffers
  <2> QED BY DEF EntriesInv, ThreadInv, BuffersFilled, Filling
<1> QED BY <1>1, EntriesInvariant, PTL
=============================================================================
