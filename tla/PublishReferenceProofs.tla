--------------------- MODULE PublishReferenceProofs ---------------------
(***************************************************************************)
(* Machine-checked proofs about the publication of a reference file, for   *)
(* any number of packers, tensors and changes of the source, when no two   *)
(* live packers share a pid.                                               *)
(***************************************************************************)
EXTENDS PublishReference, TLAPS

-----------------------------------------------------------------------------
(* A step of a loop stays within the tensors.                              *)
LEMMA NextTensorStep ==
  ASSUME NEW p \in Packers, NEW here, NEW again \in Places, NEW there \in Places, TypeOK,
         NextTensor(p, here, again, there)
  PROVE  /\ pc[p] = here
         /\ at' \in [Packers -> Tensors] /\ pc' \in [Packers -> Places]
<1>1. pc \in [Packers -> Places] /\ at \in [Packers -> Tensors] /\ at[p] \in 1 .. NumTensors /\ NumTensors \in Nat \ {0}
  BY PublishAssumption DEF TypeOK, PublishAssumption, Tensors
<1>2. CASE at[p] = NumTensors
  BY <1>1, <1>2 DEF NextTensor, Goto, Tensors
<1>3. CASE at[p] # NumTensors
  BY <1>1, <1>3 DEF NextTensor, Goto, Tensors
<1> QED BY <1>2, <1>3

(* The two ways a loop moves.                                              *)
LEMMA LoopStep ==
  ASSUME NEW p \in Packers, NEW here, NEW again, NEW there, TypeOK,
         NextTensor(p, here, again, there)
  PROVE  /\ pc[p] = here
         /\ \/ at[p] < NumTensors /\ at' = [at EXCEPT ![p] = at[p] + 1] /\ pc' = [pc EXCEPT ![p] = again]
            \/ at[p] = NumTensors /\ at' = [at EXCEPT ![p] = 1] /\ pc' = [pc EXCEPT ![p] = there]
<1>1. at[p] \in 1 .. NumTensors /\ NumTensors \in Nat \ {0}
  BY PublishAssumption DEF TypeOK, PublishAssumption, Tensors
<1> QED BY <1>1 DEF NextTensor, Goto

(* Every variable starts in its type.                                      *)
LEMMA TypeInit == Init => TypeOK
BY PublishAssumption DEF Init, TypeOK, Places, Tensors, PublishAssumption

(* A step of any packer, or of the source, keeps the types.                *)
LEMMA TypeStep == TypeOK /\ [Next]_vars => TypeOK'
<1> SUFFICES ASSUME TypeOK, [Next]_vars PROVE TypeOK'
  OBVIOUS
<1>1. ASSUME NEW p \in Packers, Start(p) PROVE TypeOK'
  BY <1>1 DEF TypeOK, Places, Goto, tensors, Start
<1>2. ASSUME NEW p \in Packers, CheckPartial(p) PROVE TypeOK'
  BY <1>2 DEF TypeOK, Places, Goto, tensors, CheckPartial
<1>3. ASSUME NEW p \in Packers, OpenSource(p) PROVE TypeOK'
  BY <1>3 DEF TypeOK, Places, Goto, tensors, OpenSource
<1>4. ASSUME NEW p \in Packers, Record(p) PROVE TypeOK'
  BY <1>4 DEF TypeOK, Places, Goto, tensors, Record
<1>5. ASSUME NEW p \in Packers, CopyTensor(p) PROVE TypeOK'
  <2>1. NextTensor(p, "copy", "record", "convert")
    BY <1>5 DEF CopyTensor
  <2>2. pc' \in [Packers -> Places]
        /\ at' \in [Packers -> Tensors]
    BY <2>1, NextTensorStep DEF Places
  <2>3. copied' \in [Packers -> [Tensors -> Nat]]
    BY <1>5 DEF TypeOK, tensors, CopyTensor
  <2> QED BY <1>5, <2>2, <2>3 DEF TypeOK, tensors, CopyTensor
<1>6. ASSUME NEW p \in Packers, Convert(p) PROVE TypeOK'
  <2>1. NextTensor(p, "convert", "convert", "create")
    BY <1>6 DEF Convert
  <2>2. pc' \in [Packers -> Places]
        /\ at' \in [Packers -> Tensors]
    BY <2>1, NextTensorStep DEF Places
  <2>3. converted' \in [Packers -> [Tensors -> Nat]]
    BY <1>6 DEF TypeOK, tensors, Convert
  <2> QED BY <1>6, <2>2, <2>3 DEF TypeOK, tensors, Convert
<1>7. ASSUME NEW p \in Packers, CreatePartial(p) PROVE TypeOK'
  BY <1>7 DEF TypeOK, Places, Goto, tensors, CreatePartial
<1>8. ASSUME NEW p \in Packers, WritePartial(p) PROVE TypeOK'
  BY <1>8 DEF TypeOK, Places, Goto, tensors, WritePartial
<1>9. ASSUME NEW p \in Packers, Verify(p) PROVE TypeOK'
  BY <1>9 DEF TypeOK, Places, Goto, tensors, Verify
<1>10. ASSUME NEW p \in Packers, CompareSource(p) PROVE TypeOK'
  <2>1. pc' \in [Packers -> Places]
        /\ at' \in [Packers -> Tensors]
    <3>1. CASE NextTensor(p, "compare", "compare", "link")
      BY <3>1, NextTensorStep DEF Places
    <3>2. CASE Goto(p, "compare", "failed") /\ UNCHANGED at
      BY <3>2 DEF TypeOK, Places, Goto
    <3> QED BY <1>10, <3>1, <3>2 DEF CompareSource
  <2> QED BY <1>10, <2>1 DEF TypeOK, tensors, CompareSource
<1>11. ASSUME NEW p \in Packers, Link(p) PROVE TypeOK'
  BY <1>11 DEF TypeOK, Places, Goto, tensors, Link
<1>12. ASSUME NEW p \in Packers, Unlink(p) PROVE TypeOK'
  BY <1>12 DEF TypeOK, Places, Goto, tensors, Unlink, AfterUnlink
<1>13. ASSUME NEW p \in Packers, Raise(p) PROVE TypeOK'
  BY <1>13 DEF TypeOK, Places, Goto, tensors, Raise
<1>14. ASSUME NEW p \in Packers, Kill(p) PROVE TypeOK'
  BY <1>14 DEF TypeOK, Places, Goto, tensors, Kill
<1>15. ASSUME NEW inPlace \in BOOLEAN, ChangeSource(inPlace) PROVE TypeOK'
  BY <1>15 DEF TypeOK, tensors, ChangeSource
<1>16. CASE UNCHANGED vars
  BY <1>16 DEF TypeOK, vars, tensors
<1> QED BY <1>1, <1>2, <1>3, <1>4, <1>5, <1>6, <1>7, <1>8, <1>9, <1>10, <1>11, <1>12, <1>13, <1>14, <1>15, <1>16 DEF Next, Step

(* A packer that moves on without touching a file: while it reads the      *)
(* source, while it holds its partial file, or to give up.                 *)
LEMMA QuietStep ==
  ASSUME TypeOK, LivePidsDiffer, NamesLeadToMakers, OwnName,
         NEW p \in Live, NEW there \in Places, pc' = [pc EXCEPT ![p] = there],
         UNCHANGED <<pid, fd, partial, content>>,
         \/ pc[p] \in Reading /\ there \in Reading
         \/ pc[p] \in Holding /\ there \in Holding
         \/ there \in {"failed", "dead"}
  PROVE  LivePidsDiffer' /\ NamesLeadToMakers' /\ OwnName'
<1> USE DEF Places, Live, Reading, Holding
<1>1. LivePidsDiffer'
  BY DEF TypeOK, LivePidsDiffer
<1>2. NamesLeadToMakers'
  BY DEF TypeOK, NamesLeadToMakers
<1>3. OwnName'
  BY DEF TypeOK, OwnName
<1> QED BY <1>1, <1>2, <1>3

(* Who holds which partial name, and who writes which inode.               *)
LEMMA FilesStep ==
  ASSUME PidsAreUnique, TypeOK, LivePidsDiffer, NamesLeadToMakers, OwnName, [Next]_vars
  PROVE  LivePidsDiffer' /\ NamesLeadToMakers' /\ OwnName'
<1> USE DEF Places, Live, Reading, Holding
<1>1. ASSUME NEW p \in Packers, Start(p) PROVE LivePidsDiffer' /\ NamesLeadToMakers' /\ OwnName'
  BY <1>1 DEF TypeOK, LivePidsDiffer, NamesLeadToMakers, OwnName, Start, Goto, tensors
<1>2. ASSUME NEW p \in Packers, CheckPartial(p) PROVE LivePidsDiffer' /\ NamesLeadToMakers' /\ OwnName'
  BY <1>2 DEF TypeOK, LivePidsDiffer, NamesLeadToMakers, OwnName, CheckPartial, Goto, tensors
<1>3. ASSUME NEW p \in Packers, OpenSource(p) PROVE LivePidsDiffer' /\ NamesLeadToMakers' /\ OwnName'
  BY <1>3 DEF TypeOK, LivePidsDiffer, NamesLeadToMakers, OwnName, OpenSource, Goto, tensors
<1>4. ASSUME NEW p \in Packers, Record(p) PROVE LivePidsDiffer' /\ NamesLeadToMakers' /\ OwnName'
  BY <1>4 DEF TypeOK, LivePidsDiffer, NamesLeadToMakers, OwnName, Record, Goto, tensors
<1>5. ASSUME NEW p \in Packers, CopyTensor(p) PROVE LivePidsDiffer' /\ NamesLeadToMakers' /\ OwnName'
  <2>1. pc[p] = "copy" /\ \E w \in {"record", "convert"} : pc' = [pc EXCEPT ![p] = w]
    BY <1>5, LoopStep DEF CopyTensor
  <2> QED BY <1>5, <2>1, QuietStep DEF CopyTensor, tensors
<1>6. ASSUME NEW p \in Packers, Convert(p) PROVE LivePidsDiffer' /\ NamesLeadToMakers' /\ OwnName'
  <2>1. pc[p] = "convert" /\ \E w \in {"convert", "create"} : pc' = [pc EXCEPT ![p] = w]
    BY <1>6, LoopStep DEF Convert
  <2> QED BY <1>6, <2>1, QuietStep DEF Convert, tensors
<1>7. ASSUME NEW p \in Packers, CreatePartial(p) PROVE LivePidsDiffer' /\ NamesLeadToMakers' /\ OwnName'
  <2>1. /\ pc[p] = "create" /\ pc' = [pc EXCEPT ![p] = "write"] /\ pid' = pid
        /\ partial' = [partial EXCEPT ![pid[p]] = p] /\ fd' = [fd EXCEPT ![p] = p]
        /\ content' = [content EXCEPT ![p] = [by |-> p, whole |-> FALSE]]
    BY <1>7 DEF TypeOK, OwnName, CreatePartial, Goto
  <2>2. LivePidsDiffer'
    BY <2>1 DEF TypeOK, LivePidsDiffer
  <2>3. NamesLeadToMakers'
    BY <2>1 DEF TypeOK, NamesLeadToMakers
  <2>4. ASSUME NEW q \in Packers, q # p, pc[q] \in Reading \cup Holding PROVE pid[q] # pid[p]
    BY <2>1, <2>4 DEF LivePidsDiffer
  <2>5. OwnName'
    BY <2>1, <2>4 DEF TypeOK, OwnName
  <2> QED BY <2>2, <2>3, <2>5
<1>8. ASSUME NEW p \in Packers, WritePartial(p) PROVE LivePidsDiffer' /\ NamesLeadToMakers' /\ OwnName'
  BY <1>8 DEF TypeOK, LivePidsDiffer, NamesLeadToMakers, OwnName, WritePartial, Goto, tensors
<1>9. ASSUME NEW p \in Packers, Verify(p) PROVE LivePidsDiffer' /\ NamesLeadToMakers' /\ OwnName'
  BY <1>9 DEF TypeOK, LivePidsDiffer, NamesLeadToMakers, OwnName, Verify, Goto, tensors
<1>10. ASSUME NEW p \in Packers, CompareSource(p) PROVE LivePidsDiffer' /\ NamesLeadToMakers' /\ OwnName'
  <2>1. CASE NextTensor(p, "compare", "compare", "link")
    <3>1. pc[p] = "compare" /\ \E w \in {"compare", "link"} : pc' = [pc EXCEPT ![p] = w]
      BY <2>1, LoopStep
    <3> QED BY <1>10, <3>1, QuietStep DEF CompareSource
  <2>2. CASE Goto(p, "compare", "failed")
    BY <1>10, <2>2, QuietStep DEF CompareSource, Goto
  <2> QED BY <1>10, <2>1, <2>2 DEF CompareSource
<1>11. ASSUME NEW p \in Packers, Link(p) PROVE LivePidsDiffer' /\ NamesLeadToMakers' /\ OwnName'
  BY <1>11 DEF TypeOK, LivePidsDiffer, NamesLeadToMakers, OwnName, Link, Goto, tensors, NameIsFree
<1>12. ASSUME NEW p \in Packers, Unlink(p) PROVE LivePidsDiffer' /\ NamesLeadToMakers' /\ OwnName'
  BY <1>12 DEF TypeOK, LivePidsDiffer, NamesLeadToMakers, OwnName, Unlink, Goto, tensors, AfterUnlink
<1>13. ASSUME NEW p \in Packers, Raise(p) PROVE LivePidsDiffer' /\ NamesLeadToMakers' /\ OwnName'
  BY <1>13 DEF TypeOK, LivePidsDiffer, NamesLeadToMakers, OwnName, Raise, Goto, tensors
<1>14. ASSUME NEW p \in Packers, Kill(p) PROVE LivePidsDiffer' /\ NamesLeadToMakers' /\ OwnName'
  BY <1>14 DEF TypeOK, LivePidsDiffer, NamesLeadToMakers, OwnName, Kill, Goto, tensors
<1>15. ASSUME NEW inPlace \in BOOLEAN, ChangeSource(inPlace) PROVE LivePidsDiffer' /\ NamesLeadToMakers' /\ OwnName'
  BY <1>15 DEF TypeOK, LivePidsDiffer, NamesLeadToMakers, OwnName, ChangeSource, tensors
<1>16. CASE UNCHANGED vars
  BY <1>16 DEF TypeOK, LivePidsDiffer, NamesLeadToMakers, OwnName, vars, tensors
<1> QED BY <1>1, <1>2, <1>3, <1>4, <1>5, <1>6, <1>7, <1>8, <1>9, <1>10, <1>11, <1>12, <1>13, <1>14, <1>15, <1>16 DEF Next, Step

(* A file that passed the first half of verification is not written again. *)
LEMMA VerifiedStep ==
  ASSUME PidsAreUnique, TypeOK, LivePidsDiffer, OwnName, OwnName', VerifiedIsConsistent, [Next]_vars
  PROVE  VerifiedIsConsistent'
<1> USE DEF Places, Live, Reading, Holding
<1>1. ASSUME NEW p \in Packers, Start(p) PROVE VerifiedIsConsistent'
  BY <1>1 DEF TypeOK, LivePidsDiffer, OwnName, VerifiedIsConsistent, SelfConsistent, Start, Goto, tensors
<1>2. ASSUME NEW p \in Packers, CheckPartial(p) PROVE VerifiedIsConsistent'
  BY <1>2 DEF TypeOK, LivePidsDiffer, OwnName, VerifiedIsConsistent, SelfConsistent, CheckPartial, Goto, tensors
<1>3. ASSUME NEW p \in Packers, OpenSource(p) PROVE VerifiedIsConsistent'
  BY <1>3 DEF TypeOK, LivePidsDiffer, OwnName, VerifiedIsConsistent, SelfConsistent, OpenSource, Goto, tensors
<1>4. ASSUME NEW p \in Packers, Record(p) PROVE VerifiedIsConsistent'
  BY <1>4 DEF TypeOK, LivePidsDiffer, OwnName, VerifiedIsConsistent, SelfConsistent, Record, Goto, tensors
<1>5. ASSUME NEW p \in Packers, CopyTensor(p) PROVE VerifiedIsConsistent'
  <2>1. /\ pc[p] = "copy"
        /\ \/ at[p] < NumTensors /\ at' = [at EXCEPT ![p] = at[p] + 1] /\ pc' = [pc EXCEPT ![p] = "record"]
           \/ at[p] = NumTensors /\ at' = [at EXCEPT ![p] = 1] /\ pc' = [pc EXCEPT ![p] = "convert"]
    BY <1>5, LoopStep DEF CopyTensor
  <2> QED BY <1>5, <2>1 DEF TypeOK, LivePidsDiffer, OwnName, VerifiedIsConsistent, SelfConsistent, CopyTensor, tensors
<1>6. ASSUME NEW p \in Packers, Convert(p) PROVE VerifiedIsConsistent'
  <2>1. /\ pc[p] = "convert"
        /\ \/ at[p] < NumTensors /\ at' = [at EXCEPT ![p] = at[p] + 1] /\ pc' = [pc EXCEPT ![p] = "convert"]
           \/ at[p] = NumTensors /\ at' = [at EXCEPT ![p] = 1] /\ pc' = [pc EXCEPT ![p] = "create"]
    BY <1>6, LoopStep DEF Convert
  <2> QED BY <1>6, <2>1 DEF TypeOK, LivePidsDiffer, OwnName, VerifiedIsConsistent, SelfConsistent, Convert, tensors
<1>7. ASSUME NEW p \in Packers, CreatePartial(p) PROVE VerifiedIsConsistent'
  BY <1>7 DEF TypeOK, LivePidsDiffer, OwnName, VerifiedIsConsistent, SelfConsistent, CreatePartial, Goto, tensors
<1>8. ASSUME NEW p \in Packers, WritePartial(p) PROVE VerifiedIsConsistent'
  BY <1>8 DEF TypeOK, LivePidsDiffer, OwnName, VerifiedIsConsistent, SelfConsistent, WritePartial, Goto, tensors
<1>9. ASSUME NEW p \in Packers, Verify(p) PROVE VerifiedIsConsistent'
  <2>1. /\ pc[p] = "reopen" /\ partial[pid[p]] = p
        /\ pc' = [pc EXCEPT ![p] = IF p # NoFile /\ SelfConsistent(p) THEN "compare" ELSE "failed"]
    <3>1. pc[p] = "reopen"
      BY <1>9 DEF Verify, Goto
    <3>2. partial[pid[p]] = p
      BY <3>1 DEF OwnName
    <3> QED BY <1>9, <3>1, <3>2 DEF Verify, Passes, Goto
  <2>2. \A q \in Packers : SelfConsistent(q)' <=> SelfConsistent(q)
    BY <1>9 DEF SelfConsistent, Verify, tensors
  <2> QED BY <2>1, <2>2 DEF TypeOK, VerifiedIsConsistent
<1>10. ASSUME NEW p \in Packers, CompareSource(p) PROVE VerifiedIsConsistent'
  <2>1. /\ pc[p] = "compare"
        /\ \/ at[p] < NumTensors /\ at' = [at EXCEPT ![p] = at[p] + 1] /\ pc' = [pc EXCEPT ![p] = "compare"]
           \/ at[p] = NumTensors /\ at' = [at EXCEPT ![p] = 1] /\ pc' = [pc EXCEPT ![p] = "link"]
           \/ pc' = [pc EXCEPT ![p] = "failed"] /\ UNCHANGED at
    BY <1>10, LoopStep DEF CompareSource, Goto
  <2> QED BY <1>10, <2>1 DEF TypeOK, LivePidsDiffer, OwnName, VerifiedIsConsistent, SelfConsistent, CompareSource, tensors
<1>11. ASSUME NEW p \in Packers, Link(p) PROVE VerifiedIsConsistent'
  BY <1>11 DEF TypeOK, LivePidsDiffer, OwnName, VerifiedIsConsistent, SelfConsistent, Link, Goto, tensors, NameIsFree
<1>12. ASSUME NEW p \in Packers, Unlink(p) PROVE VerifiedIsConsistent'
  BY <1>12 DEF TypeOK, LivePidsDiffer, OwnName, VerifiedIsConsistent, SelfConsistent, Unlink, Goto, tensors, AfterUnlink
<1>13. ASSUME NEW p \in Packers, Raise(p) PROVE VerifiedIsConsistent'
  BY <1>13 DEF TypeOK, LivePidsDiffer, OwnName, VerifiedIsConsistent, SelfConsistent, Raise, Goto, tensors
<1>14. ASSUME NEW p \in Packers, Kill(p) PROVE VerifiedIsConsistent'
  BY <1>14 DEF TypeOK, LivePidsDiffer, OwnName, VerifiedIsConsistent, SelfConsistent, Kill, Goto, tensors
<1>15. ASSUME NEW inPlace \in BOOLEAN, ChangeSource(inPlace) PROVE VerifiedIsConsistent'
  BY <1>15 DEF TypeOK, LivePidsDiffer, OwnName, VerifiedIsConsistent, SelfConsistent, ChangeSource, tensors
<1>16. CASE UNCHANGED vars
  BY <1>16 DEF TypeOK, LivePidsDiffer, OwnName, VerifiedIsConsistent, SelfConsistent, vars, tensors
<1> QED BY <1>1, <1>2, <1>3, <1>4, <1>5, <1>6, <1>7, <1>8, <1>9, <1>10, <1>11, <1>12, <1>13, <1>14, <1>15, <1>16 DEF Next, Step

(* The output is the inode of the packer that linked it.                   *)
LEMMA OutputStep ==
  ASSUME PidsAreUnique, TypeOK, LivePidsDiffer, OwnName, OwnName', VerifiedIsConsistent, OutputIsLinkers, [Next]_vars
  PROVE  OutputIsLinkers'
<1> USE DEF Places, Live, Reading, Holding
<1>1. ASSUME NEW p \in Packers, Start(p) PROVE OutputIsLinkers'
  BY <1>1 DEF TypeOK, LivePidsDiffer, OwnName, VerifiedIsConsistent, OutputIsLinkers, SelfConsistent, Start, Goto, tensors
<1>2. ASSUME NEW p \in Packers, CheckPartial(p) PROVE OutputIsLinkers'
  BY <1>2 DEF TypeOK, LivePidsDiffer, OwnName, VerifiedIsConsistent, OutputIsLinkers, SelfConsistent, CheckPartial, Goto, tensors
<1>3. ASSUME NEW p \in Packers, OpenSource(p) PROVE OutputIsLinkers'
  BY <1>3 DEF TypeOK, LivePidsDiffer, OwnName, VerifiedIsConsistent, OutputIsLinkers, SelfConsistent, OpenSource, Goto, tensors
<1>4. ASSUME NEW p \in Packers, Record(p) PROVE OutputIsLinkers'
  BY <1>4 DEF TypeOK, LivePidsDiffer, OwnName, VerifiedIsConsistent, OutputIsLinkers, SelfConsistent, Record, Goto, tensors
<1>5. ASSUME NEW p \in Packers, CopyTensor(p) PROVE OutputIsLinkers'
  <2>1. /\ pc[p] = "copy"
        /\ \/ at[p] < NumTensors /\ at' = [at EXCEPT ![p] = at[p] + 1] /\ pc' = [pc EXCEPT ![p] = "record"]
           \/ at[p] = NumTensors /\ at' = [at EXCEPT ![p] = 1] /\ pc' = [pc EXCEPT ![p] = "convert"]
    BY <1>5, LoopStep DEF CopyTensor
  <2> QED BY <1>5, <2>1 DEF TypeOK, LivePidsDiffer, OwnName, VerifiedIsConsistent, OutputIsLinkers, SelfConsistent, CopyTensor, tensors
<1>6. ASSUME NEW p \in Packers, Convert(p) PROVE OutputIsLinkers'
  <2>1. /\ pc[p] = "convert"
        /\ \/ at[p] < NumTensors /\ at' = [at EXCEPT ![p] = at[p] + 1] /\ pc' = [pc EXCEPT ![p] = "convert"]
           \/ at[p] = NumTensors /\ at' = [at EXCEPT ![p] = 1] /\ pc' = [pc EXCEPT ![p] = "create"]
    BY <1>6, LoopStep DEF Convert
  <2> QED BY <1>6, <2>1 DEF TypeOK, LivePidsDiffer, OwnName, VerifiedIsConsistent, OutputIsLinkers, SelfConsistent, Convert, tensors
<1>7. ASSUME NEW p \in Packers, CreatePartial(p) PROVE OutputIsLinkers'
  BY <1>7 DEF TypeOK, LivePidsDiffer, OwnName, VerifiedIsConsistent, OutputIsLinkers, SelfConsistent, CreatePartial, Goto, tensors
<1>8. ASSUME NEW p \in Packers, WritePartial(p) PROVE OutputIsLinkers'
  BY <1>8 DEF TypeOK, LivePidsDiffer, OwnName, VerifiedIsConsistent, OutputIsLinkers, SelfConsistent, WritePartial, Goto, tensors
<1>9. ASSUME NEW p \in Packers, Verify(p) PROVE OutputIsLinkers'
  <2>1. /\ pc[p] = "reopen" /\ partial[pid[p]] = p
        /\ pc' = [pc EXCEPT ![p] = IF p # NoFile /\ SelfConsistent(p) THEN "compare" ELSE "failed"]
    <3>1. pc[p] = "reopen"
      BY <1>9 DEF Verify, Goto
    <3>2. partial[pid[p]] = p
      BY <3>1 DEF OwnName
    <3> QED BY <1>9, <3>1, <3>2 DEF Verify, Passes, Goto
  <2>2. \A q \in Packers : SelfConsistent(q)' <=> SelfConsistent(q)
    BY <1>9 DEF SelfConsistent, Verify, tensors
  <2>3. output' = output /\ (output # NoFile => output # p)
    BY <1>9, <2>1 DEF OutputIsLinkers, Verify
  <2> QED BY <2>1, <2>2, <2>3 DEF TypeOK, OutputIsLinkers
<1>10. ASSUME NEW p \in Packers, CompareSource(p) PROVE OutputIsLinkers'
  <2>1. /\ pc[p] = "compare"
        /\ \/ at[p] < NumTensors /\ at' = [at EXCEPT ![p] = at[p] + 1] /\ pc' = [pc EXCEPT ![p] = "compare"]
           \/ at[p] = NumTensors /\ at' = [at EXCEPT ![p] = 1] /\ pc' = [pc EXCEPT ![p] = "link"]
           \/ pc' = [pc EXCEPT ![p] = "failed"] /\ UNCHANGED at
    BY <1>10, LoopStep DEF CompareSource, Goto
  <2> QED BY <1>10, <2>1 DEF TypeOK, LivePidsDiffer, OwnName, VerifiedIsConsistent, OutputIsLinkers, SelfConsistent, CompareSource, tensors
<1>11. ASSUME NEW p \in Packers, Link(p) PROVE OutputIsLinkers'
  <2>1. /\ pc[p] = "link" /\ partial[pid[p]] = p /\ SelfConsistent(p)
        /\ output' = IF output = NoFile THEN p ELSE output
        /\ pc' = [pc EXCEPT ![p] = IF output = NoFile THEN "unlink" ELSE "failed"]
    <3>1. pc[p] = "link"
      BY <1>11 DEF Link, Goto
    <3>2. partial[pid[p]] = p /\ p # NoFile /\ SelfConsistent(p)
      BY <3>1, PublishAssumption DEF OwnName, VerifiedIsConsistent, PublishAssumption
    <3>3. NameIsFree(p) <=> output = NoFile
      BY <3>2 DEF NameIsFree
    <3> QED BY <1>11, <3>1, <3>2, <3>3 DEF Link, Goto
  <2>2. \A q \in Packers : SelfConsistent(q) => SelfConsistent(q)'
    BY <1>11 DEF SelfConsistent, Link, tensors
  <2> QED BY <2>1, <2>2, PublishAssumption DEF TypeOK, OutputIsLinkers, PublishAssumption
<1>12. ASSUME NEW p \in Packers, Unlink(p) PROVE OutputIsLinkers'
  BY <1>12 DEF TypeOK, LivePidsDiffer, OwnName, VerifiedIsConsistent, OutputIsLinkers, SelfConsistent, Unlink, Goto, tensors, AfterUnlink
<1>13. ASSUME NEW p \in Packers, Raise(p) PROVE OutputIsLinkers'
  BY <1>13 DEF TypeOK, LivePidsDiffer, OwnName, VerifiedIsConsistent, OutputIsLinkers, SelfConsistent, Raise, Goto, tensors
<1>14. ASSUME NEW p \in Packers, Kill(p) PROVE OutputIsLinkers'
  BY <1>14 DEF TypeOK, LivePidsDiffer, OwnName, VerifiedIsConsistent, OutputIsLinkers, SelfConsistent, Kill, Goto, tensors
<1>15. ASSUME NEW inPlace \in BOOLEAN, ChangeSource(inPlace) PROVE OutputIsLinkers'
  BY <1>15 DEF TypeOK, LivePidsDiffer, OwnName, VerifiedIsConsistent, OutputIsLinkers, SelfConsistent, ChangeSource, tensors
<1>16. CASE UNCHANGED vars
  BY <1>16 DEF TypeOK, LivePidsDiffer, OwnName, VerifiedIsConsistent, OutputIsLinkers, SelfConsistent, vars, tensors
<1> QED BY <1>1, <1>2, <1>3, <1>4, <1>5, <1>6, <1>7, <1>8, <1>9, <1>10, <1>11, <1>12, <1>13, <1>14, <1>15, <1>16 DEF Next, Step

(* Versions only grow.                                                     *)
LEMMA CopiesStep ==
  ASSUME PidsAreUnique, TypeOK, CopiesAreOlder, [Next]_vars
  PROVE  CopiesAreOlder'
<1> USE DEF Places, Live, Reading, Holding
<1>1. ASSUME NEW p \in Packers, Start(p) PROVE CopiesAreOlder'
  BY <1>1 DEF TypeOK, CopiesAreOlder, Start, Goto, tensors
<1>2. ASSUME NEW p \in Packers, CheckPartial(p) PROVE CopiesAreOlder'
  BY <1>2 DEF TypeOK, CopiesAreOlder, CheckPartial, Goto, tensors
<1>3. ASSUME NEW p \in Packers, OpenSource(p) PROVE CopiesAreOlder'
  BY <1>3 DEF TypeOK, CopiesAreOlder, OpenSource, Goto, tensors
<1>4. ASSUME NEW p \in Packers, Record(p) PROVE CopiesAreOlder'
  BY <1>4 DEF TypeOK, CopiesAreOlder, Record, Goto, tensors
<1>5. ASSUME NEW p \in Packers, CopyTensor(p) PROVE CopiesAreOlder'
  <2>1. /\ pc[p] = "copy"
        /\ \/ at[p] < NumTensors /\ at' = [at EXCEPT ![p] = at[p] + 1] /\ pc' = [pc EXCEPT ![p] = "record"]
           \/ at[p] = NumTensors /\ at' = [at EXCEPT ![p] = 1] /\ pc' = [pc EXCEPT ![p] = "convert"]
    BY <1>5, LoopStep DEF CopyTensor
  <2> QED BY <1>5, <2>1 DEF TypeOK, CopiesAreOlder, CopyTensor, tensors
<1>6. ASSUME NEW p \in Packers, Convert(p) PROVE CopiesAreOlder'
  <2>1. /\ pc[p] = "convert"
        /\ \/ at[p] < NumTensors /\ at' = [at EXCEPT ![p] = at[p] + 1] /\ pc' = [pc EXCEPT ![p] = "convert"]
           \/ at[p] = NumTensors /\ at' = [at EXCEPT ![p] = 1] /\ pc' = [pc EXCEPT ![p] = "create"]
    BY <1>6, LoopStep DEF Convert
  <2> QED BY <1>6, <2>1 DEF TypeOK, CopiesAreOlder, Convert, tensors
<1>7. ASSUME NEW p \in Packers, CreatePartial(p) PROVE CopiesAreOlder'
  BY <1>7 DEF TypeOK, CopiesAreOlder, CreatePartial, Goto, tensors
<1>8. ASSUME NEW p \in Packers, WritePartial(p) PROVE CopiesAreOlder'
  BY <1>8 DEF TypeOK, CopiesAreOlder, WritePartial, Goto, tensors
<1>9. ASSUME NEW p \in Packers, Verify(p) PROVE CopiesAreOlder'
  BY <1>9 DEF TypeOK, CopiesAreOlder, Verify, Goto, tensors
<1>10. ASSUME NEW p \in Packers, CompareSource(p) PROVE CopiesAreOlder'
  <2>1. /\ pc[p] = "compare"
        /\ \/ at[p] < NumTensors /\ at' = [at EXCEPT ![p] = at[p] + 1] /\ pc' = [pc EXCEPT ![p] = "compare"]
           \/ at[p] = NumTensors /\ at' = [at EXCEPT ![p] = 1] /\ pc' = [pc EXCEPT ![p] = "link"]
           \/ pc' = [pc EXCEPT ![p] = "failed"] /\ UNCHANGED at
    BY <1>10, LoopStep DEF CompareSource, Goto
  <2> QED BY <1>10, <2>1 DEF TypeOK, CopiesAreOlder, CompareSource, tensors
<1>11. ASSUME NEW p \in Packers, Link(p) PROVE CopiesAreOlder'
  BY <1>11 DEF TypeOK, CopiesAreOlder, Link, Goto, tensors, NameIsFree
<1>12. ASSUME NEW p \in Packers, Unlink(p) PROVE CopiesAreOlder'
  BY <1>12 DEF TypeOK, CopiesAreOlder, Unlink, Goto, tensors, AfterUnlink
<1>13. ASSUME NEW p \in Packers, Raise(p) PROVE CopiesAreOlder'
  BY <1>13 DEF TypeOK, CopiesAreOlder, Raise, Goto, tensors
<1>14. ASSUME NEW p \in Packers, Kill(p) PROVE CopiesAreOlder'
  BY <1>14 DEF TypeOK, CopiesAreOlder, Kill, Goto, tensors
<1>15. ASSUME NEW inPlace \in BOOLEAN, ChangeSource(inPlace) PROVE CopiesAreOlder'
  BY <1>15 DEF TypeOK, CopiesAreOlder, ChangeSource, tensors
<1>16. CASE UNCHANGED vars
  BY <1>16 DEF TypeOK, CopiesAreOlder, vars, tensors
<1> QED BY <1>1, <1>2, <1>3, <1>4, <1>5, <1>6, <1>7, <1>8, <1>9, <1>10, <1>11, <1>12, <1>13, <1>14, <1>15, <1>16 DEF Next, Step

(* A tensor found equal to the source is the newest of the copies.         *)
LEMMA NewestStep ==
  ASSUME PidsAreUnique, TypeOK, LivePidsDiffer, OwnName, OutputIsLinkers, CopiesAreOlder, ComparedAreNewest, [Next]_vars
  PROVE  ComparedAreNewest'
<1> USE DEF Places, Live, Reading, Holding
<1>1. ASSUME NEW p \in Packers, Start(p) PROVE ComparedAreNewest'
  BY <1>1 DEF TypeOK, LivePidsDiffer, OwnName, OutputIsLinkers, CopiesAreOlder, ComparedAreNewest, Newest, Start, Goto, tensors
<1>2. ASSUME NEW p \in Packers, CheckPartial(p) PROVE ComparedAreNewest'
  BY <1>2 DEF TypeOK, LivePidsDiffer, OwnName, OutputIsLinkers, CopiesAreOlder, ComparedAreNewest, Newest, CheckPartial, Goto, tensors
<1>3. ASSUME NEW p \in Packers, OpenSource(p) PROVE ComparedAreNewest'
  BY <1>3 DEF TypeOK, LivePidsDiffer, OwnName, OutputIsLinkers, CopiesAreOlder, ComparedAreNewest, Newest, OpenSource, Goto, tensors
<1>4. ASSUME NEW p \in Packers, Record(p) PROVE ComparedAreNewest'
  BY <1>4 DEF TypeOK, LivePidsDiffer, OwnName, OutputIsLinkers, CopiesAreOlder, ComparedAreNewest, Newest, Record, Goto, tensors
<1>5. ASSUME NEW p \in Packers, CopyTensor(p) PROVE ComparedAreNewest'
  <2>1. /\ pc[p] = "copy" /\ pc' \in [Packers -> Places] /\ pc'[p] \notin {"compare", "link"}
        /\ \A q \in Packers \ {p} : pc'[q] = pc[q] /\ at'[q] = at[q]
    <3>1. \E w \in {"record", "convert"}, x \in Nat :
            pc[p] = "copy" /\ pc' = [pc EXCEPT ![p] = w] /\ at' = [at EXCEPT ![p] = x]
      <4>1. NextTensor(p, "copy", "record", "convert")
        BY <1>5 DEF CopyTensor
      <4>2. at[p] \in Nat
        BY PublishAssumption DEF TypeOK, Tensors, PublishAssumption
      <4>3. at[p] + 1 \in Nat /\ 1 \in Nat
        BY <4>2
      <4> QED BY <4>1, <4>3, LoopStep
    <3> QED BY <3>1 DEF TypeOK
  <2>2. output' = output /\ output # p /\ \A q \in Packers \ {p} : copied'[q] = copied[q]
    BY <1>5, <2>1, PublishAssumption DEF TypeOK, OutputIsLinkers, PublishAssumption, CopyTensor
  <2> QED BY <2>1, <2>2, PublishAssumption DEF ComparedAreNewest, Newest, PublishAssumption
<1>6. ASSUME NEW p \in Packers, Convert(p) PROVE ComparedAreNewest'
  <2>1. /\ pc[p] = "convert" /\ pc' \in [Packers -> Places] /\ pc'[p] \notin {"compare", "link"}
        /\ \A q \in Packers \ {p} : pc'[q] = pc[q] /\ at'[q] = at[q]
    <3>1. \E w \in {"convert", "create"}, x \in Nat :
            pc[p] = "convert" /\ pc' = [pc EXCEPT ![p] = w] /\ at' = [at EXCEPT ![p] = x]
      <4>1. NextTensor(p, "convert", "convert", "create")
        BY <1>6 DEF Convert
      <4>2. at[p] \in Nat
        BY PublishAssumption DEF TypeOK, Tensors, PublishAssumption
      <4>3. at[p] + 1 \in Nat /\ 1 \in Nat
        BY <4>2
      <4> QED BY <4>1, <4>3, LoopStep
    <3> QED BY <3>1 DEF TypeOK
  <2>2. output' = output /\ output # p /\ \A q \in Packers \ {p} : copied'[q] = copied[q]
    BY <1>6, <2>1, PublishAssumption DEF TypeOK, OutputIsLinkers, PublishAssumption, Convert
  <2> QED BY <2>1, <2>2, PublishAssumption DEF ComparedAreNewest, Newest, PublishAssumption
<1>7. ASSUME NEW p \in Packers, CreatePartial(p) PROVE ComparedAreNewest'
  BY <1>7 DEF TypeOK, LivePidsDiffer, OwnName, OutputIsLinkers, CopiesAreOlder, ComparedAreNewest, Newest, CreatePartial, Goto, tensors
<1>8. ASSUME NEW p \in Packers, WritePartial(p) PROVE ComparedAreNewest'
  BY <1>8 DEF TypeOK, LivePidsDiffer, OwnName, OutputIsLinkers, CopiesAreOlder, ComparedAreNewest, Newest, WritePartial, Goto, tensors
<1>9. ASSUME NEW p \in Packers, Verify(p) PROVE ComparedAreNewest'
  <2>1. /\ at[p] = 1 /\ output # p /\ output' = output /\ copied' = copied /\ at' = at
        /\ pc' \in [Packers -> Places] /\ pc'[p] \in {"compare", "failed"}
        /\ \A q \in Packers \ {p} : pc'[q] = pc[q]
    BY <1>9, PublishAssumption DEF TypeOK, CopiesAreOlder, OutputIsLinkers, Verify, Goto, tensors, PublishAssumption
  <2>2. \A t \in Tensors : ~(t < 1)
    BY PublishAssumption DEF PublishAssumption, Tensors
  <2> QED BY <2>1, <2>2 DEF ComparedAreNewest, Newest
<1>10. ASSUME NEW p \in Packers, CompareSource(p) PROVE ComparedAreNewest'
  <2>1. /\ pc[p] = "compare" /\ partial[pid[p]] = p /\ content[p].by = p
        /\ copied' = copied /\ output' = output /\ output # p
    <3>1. pc[p] = "compare"
      BY <1>10 DEF CompareSource, Goto, NextTensor
    <3> QED BY <1>10, <3>1, PublishAssumption DEF OwnName, OutputIsLinkers, CompareSource, tensors, PublishAssumption
  <2>2. CASE Goto(p, "compare", "failed") /\ UNCHANGED at
    BY <2>1, <2>2 DEF TypeOK, ComparedAreNewest, Newest, Goto
  <2>3. CASE Preserved(p) /\ NextTensor(p, "compare", "compare", "link")
    <3>1. Newest(p, at[p])
      BY <2>1, <2>3 DEF Preserved, CopiesAreOlder, Newest
    <3>2. \A t \in Tensors : t < at[p] => Newest(p, t)
      BY <2>1 DEF ComparedAreNewest
    <3>3. \A t \in Tensors : t <= at[p] => Newest(p, t)
      BY <3>1, <3>2, PublishAssumption DEF TypeOK, Tensors, PublishAssumption
    <3>4. \A q \in Packers, t \in Tensors : Newest(q, t) => Newest(q, t)'
      BY <2>1 DEF Newest
    <3>5. CASE at[p] < NumTensors /\ at' = [at EXCEPT ![p] = at[p] + 1] /\ pc' = pc
      <4>1. \A t \in Tensors : t < at'[p] => t <= at[p]
        BY <3>5, PublishAssumption DEF TypeOK, Tensors, PublishAssumption
      <4> QED BY <2>1, <3>3, <3>4, <3>5, <4>1 DEF TypeOK, ComparedAreNewest
    <3>6. CASE at[p] = NumTensors /\ at' = [at EXCEPT ![p] = 1] /\ pc' = [pc EXCEPT ![p] = "link"]
      <4>1. \A t \in Tensors : Newest(p, t)
        BY <3>3, <3>6, PublishAssumption DEF Tensors, PublishAssumption
      <4> QED BY <2>1, <3>4, <3>6, <4>1 DEF TypeOK, ComparedAreNewest
    <3>7. [pc EXCEPT ![p] = "compare"] = pc
      BY <2>1 DEF TypeOK
    <3> QED BY <2>3, <3>5, <3>6, <3>7, LoopStep
  <2> QED BY <1>10, <2>2, <2>3 DEF CompareSource
<1>11. ASSUME NEW p \in Packers, Link(p) PROVE ComparedAreNewest'
  BY <1>11 DEF TypeOK, LivePidsDiffer, OwnName, OutputIsLinkers, CopiesAreOlder, ComparedAreNewest, Newest, Link, Goto, tensors, NameIsFree
<1>12. ASSUME NEW p \in Packers, Unlink(p) PROVE ComparedAreNewest'
  BY <1>12 DEF TypeOK, LivePidsDiffer, OwnName, OutputIsLinkers, CopiesAreOlder, ComparedAreNewest, Newest, Unlink, Goto, tensors, AfterUnlink
<1>13. ASSUME NEW p \in Packers, Raise(p) PROVE ComparedAreNewest'
  BY <1>13 DEF TypeOK, LivePidsDiffer, OwnName, OutputIsLinkers, CopiesAreOlder, ComparedAreNewest, Newest, Raise, Goto, tensors
<1>14. ASSUME NEW p \in Packers, Kill(p) PROVE ComparedAreNewest'
  BY <1>14 DEF TypeOK, LivePidsDiffer, OwnName, OutputIsLinkers, CopiesAreOlder, ComparedAreNewest, Newest, Kill, Goto, tensors
<1>15. ASSUME NEW inPlace \in BOOLEAN, ChangeSource(inPlace) PROVE ComparedAreNewest'
  BY <1>15 DEF TypeOK, LivePidsDiffer, OwnName, OutputIsLinkers, CopiesAreOlder, ComparedAreNewest, Newest, ChangeSource, tensors
<1>16. CASE UNCHANGED vars
  BY <1>16 DEF TypeOK, LivePidsDiffer, OwnName, OutputIsLinkers, CopiesAreOlder, ComparedAreNewest, Newest, vars, tensors
<1> QED BY <1>1, <1>2, <1>3, <1>4, <1>5, <1>6, <1>7, <1>8, <1>9, <1>10, <1>11, <1>12, <1>13, <1>14, <1>15, <1>16 DEF Next, Step

-----------------------------------------------------------------------------
(* The invariant holds initially and every step keeps it.                  *)
LEMMA PublishInit == Init => PublishInv
<1> SUFFICES ASSUME Init PROVE PublishInv
  OBVIOUS
<1>1. TypeOK
  BY TypeInit
<1>2. LivePidsDiffer /\ NamesLeadToMakers /\ OwnName /\ VerifiedIsConsistent
  BY DEF Init, Live, Reading, Holding, LivePidsDiffer, NamesLeadToMakers, OwnName, VerifiedIsConsistent
<1>3. OutputIsLinkers /\ CopiesAreOlder /\ ComparedAreNewest
  BY PublishAssumption DEF Init, OutputIsLinkers, CopiesAreOlder, ComparedAreNewest, PublishAssumption
<1> QED BY <1>1, <1>2, <1>3 DEF PublishInv

(* A step of Next, or none, keeps every part of the invariant.              *)
LEMMA PublishStep == ASSUME PidsAreUnique PROVE PublishInv /\ [Next]_vars => PublishInv'
<1> SUFFICES ASSUME PublishInv, [Next]_vars PROVE PublishInv'
  OBVIOUS
<1>1. TypeOK /\ LivePidsDiffer /\ NamesLeadToMakers /\ OwnName /\ OutputIsLinkers
      /\ VerifiedIsConsistent /\ CopiesAreOlder /\ ComparedAreNewest
  BY DEF PublishInv
<1>2. TypeOK'
  BY <1>1, TypeStep
<1>3. LivePidsDiffer' /\ NamesLeadToMakers' /\ OwnName'
  BY <1>1, FilesStep
<1>4. VerifiedIsConsistent' /\ OutputIsLinkers'
  BY <1>1, <1>3, VerifiedStep, OutputStep
<1>5. CopiesAreOlder' /\ ComparedAreNewest'
  BY <1>1, CopiesStep, NewestStep
<1> QED BY <1>2, <1>3, <1>4, <1>5 DEF PublishInv

(* PublishInv is an invariant of the packers when no two live ones share a *)
(* pid.                                                                    *)
THEOREM PublishInvariant == ASSUME PidsAreUnique PROVE Spec => []PublishInv
BY PublishInit, PublishStep, PTL DEF Spec

(* Whatever is killed, raised, or rewritten under the packers' mappings,   *)
(* the file under the output name is whole, its hashes are those of its    *)
(* payloads and its companions were made from them.                        *)
THEOREM PublishedFileIsVerified == ASSUME PidsAreUnique PROVE Spec => []PublishedIsVerified
<1>1. PublishInv => PublishedIsVerified
  BY DEF PublishInv, OutputIsLinkers, PublishedIsVerified
<1> QED BY <1>1, PublishInvariant, PTL

(* All its tensors are those of one version of the source.                 *)
THEOREM PublishedFileIsOneVersion == ASSUME PidsAreUnique PROVE Spec => []PublishedIsOneVersion
<1>1. PublishInv => PublishedIsOneVersion
  <2> SUFFICES ASSUME PublishInv, output # NoFile, NEW t \in Tensors, NEW u \in Tensors
               PROVE  copied[content[output].by][t] = copied[content[output].by][u]
    BY DEF PublishedIsOneVersion
  <2>1. output \in Packers /\ content[output].by = output
    BY DEF PublishInv, TypeOK, OwnName
  <2>2. copied[output][t] <= copied[output][u] /\ copied[output][u] <= copied[output][t]
    BY <2>1 DEF PublishInv, ComparedAreNewest, Newest
  <2>3. copied[output][t] \in Nat /\ copied[output][u] \in Nat
    BY <2>1 DEF PublishInv, TypeOK
  <2> QED BY <2>1, <2>2, <2>3
<1> QED BY <1>1, PublishInvariant, PTL

(* A packer that succeeds has published its own file and left no partial.  *)
THEOREM SuccessHasPublished == ASSUME PidsAreUnique PROVE Spec => []SuccessPublishes
<1>1. PublishInv => SuccessPublishes
  BY PublishAssumption DEF PublishInv, OutputIsLinkers, OwnName, NamesLeadToMakers, Holding, SuccessPublishes,
     PublishAssumption
<1> QED BY <1>1, PublishInvariant, PTL

(* No step replaces the output or writes to its inode.                     *)
THEOREM PublishedFileNeverChanges == ASSUME PidsAreUnique PROVE Spec => PublishedNeverChanges
<1>1. PublishInv /\ [Next]_vars => [output # NoFile => output' = output /\ content'[output] = content[output]]_vars
  <2> SUFFICES ASSUME PublishInv, [Next]_vars, output # NoFile
               PROVE  output' = output /\ content'[output] = content[output]
    OBVIOUS
  <2>1. output \in Packers /\ pc[output] \in {"unlink", "done", "failed", "dead"}
    BY DEF PublishInv, TypeOK, OutputIsLinkers
  <2>2. ASSUME NEW p \in Packers, CreatePartial(p) PROVE output' = output /\ content'[output] = content[output]
    <3>1. output # p /\ partial[pid[p]] = NoFile
      BY <2>1, <2>2 DEF PublishInv, OwnName, Reading, CreatePartial, Goto
    <3> QED BY <2>1, <2>2, <3>1 DEF PublishInv, TypeOK, CreatePartial
  <2>3. ASSUME NEW p \in Packers, WritePartial(p) PROVE output' = output /\ content'[output] = content[output]
    <3>1. output # p /\ fd[p] = p
      BY <2>1, <2>3 DEF PublishInv, OwnName, Holding, WritePartial, Goto
    <3> QED BY <2>1, <2>3, <3>1 DEF PublishInv, TypeOK, WritePartial
  <2>4. ASSUME NEW p \in Packers, Link(p) PROVE output' = output /\ content'[output] = content[output]
    BY <2>4 DEF Link, NameIsFree
  <2>5. CASE UNCHANGED <<output, content>>
    BY <2>5
  <2> QED BY <2>2, <2>3, <2>4, <2>5 DEF Next, Step, Start, CheckPartial, OpenSource, Record, CopyTensor,
             Convert, Verify, CompareSource, Unlink, Raise, Kill, ChangeSource, vars
<1> QED BY <1>1, PublishInvariant, PTL DEF Spec, PublishedNeverChanges
=============================================================================
