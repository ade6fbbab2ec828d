------------------------- MODULE PublishReference -------------------------
(***************************************************************************)
(* pack_reference_gguf: several packers, each a process, make the same     *)
(* output from the same source. A packer writes a partial file named after *)
(* its pid, verifies it, links it to the output name and unlinks the       *)
(* partial name. It may fail or be killed at any step, and the source,     *)
(* which its readers map into memory, may be rewritten at any time.        *)
(* A file is an inode, called after the packer that created it; a version  *)
(* of the source is a number, and of a tensor all that matters is which    *)
(* version its bytes were read from.                                       *)
(***************************************************************************)
EXTENDS Integers

CONSTANTS
  Packers,       \* the runs of the program
  Pids,
  PidsAreUnique, \* FALSE: the packers run in different pid namespaces
  NumTensors,    \* tensors of the source
  Selected,      \* those with a K-pack companion
  MaxVersion,    \* bound: how often the source changes
  NoFile

ASSUME PublishAssumption ==
  /\ NoFile \notin Packers
  /\ PidsAreUnique \in BOOLEAN
  /\ NumTensors \in Nat \ {0}
  /\ Selected \subseteq 1 .. NumTensors /\ Selected # {}
  /\ MaxVersion \in Nat

VARIABLES
  pc,         \* per packer, where it is
  pid,
  fd,         \* the inode its writer has open
  at,         \* the tensor its loop is at
  view,       \* the version its mapping of the source shows
  recorded, copied, converted,  \* tensor -> the version hashed, copied, packed
  partial,    \* pid -> the inode of that partial name
  output,     \* the inode of the output name
  content,    \* inode -> whose data it holds, and whether all of it
  source      \* the version of the source file

tensors == <<recorded, copied, converted>>
vars == <<pc, pid, fd, at, view, tensors, partial, output, content, source>>

Tensors == 1 .. NumTensors
Places == {"idle", "checkPartial", "open", "record", "copy", "convert", "create", "write",
           "reopen", "compare", "link", "unlink", "done", "failed", "dead"}
Live == {p \in Packers : pc[p] \notin {"idle", "done", "failed", "dead"}}

Goto(p, here, there) == pc[p] = here /\ pc' = [pc EXCEPT ![p] = there]
-----------------------------------------------------------------------------
Init ==
  /\ pc = [p \in Packers |-> "idle"]
  /\ pid \in [Packers -> Pids]
  /\ fd = [p \in Packers |-> NoFile]
  /\ at = [p \in Packers |-> 1]
  /\ view = [p \in Packers |-> 0]
  /\ recorded = [p \in Packers |-> [t \in Tensors |-> 0]]
  /\ copied = [p \in Packers |-> [t \in Tensors |-> 0]]
  /\ converted = [p \in Packers |-> [t \in Tensors |-> 0]]
  /\ partial = [x \in Pids |-> NoFile]
  /\ output = NoFile
  /\ content = [p \in Packers |-> [by |-> p, whole |-> FALSE]]
  /\ source = 0

(* The process starts: the kernel gives it a pid no live process has, and  *)
(* it refuses an output that exists.                                       *)
Start(p) ==
  /\ PidsAreUnique => \A q \in Live : pid[q] # pid[p]
  /\ Goto(p, "idle", IF output # NoFile THEN "failed" ELSE "checkPartial")
  /\ UNCHANGED <<pid, fd, at, view, tensors, partial, output, content, source>>

CheckPartial(p) ==
  /\ Goto(p, "checkPartial", IF partial[pid[p]] # NoFile THEN "failed" ELSE "open")
  /\ UNCHANGED <<pid, fd, at, view, tensors, partial, output, content, source>>

OpenSource(p) ==
  /\ Goto(p, "open", "record")
  /\ view' = [view EXCEPT ![p] = source]
  /\ UNCHANGED <<pid, fd, at, tensors, partial, output, content, source>>

(* A loop moves to its next tensor, or leaves for the next phase.          *)
NextTensorUnbounded(p, here, again, there) ==   \* mutant: one tensor too many
  IF at[p] > NumTensors
  THEN Goto(p, here, there) /\ at' = [at EXCEPT ![p] = 1]
  ELSE Goto(p, here, again) /\ at' = [at EXCEPT ![p] = at[p] + 1]
NextTensor(p, here, again, there) ==
  IF at[p] = NumTensors
  THEN Goto(p, here, there) /\ at' = [at EXCEPT ![p] = 1]
  ELSE Goto(p, here, again) /\ at' = [at EXCEPT ![p] = at[p] + 1]

Record(p) ==
  /\ Goto(p, "record", "copy")
  /\ recorded' = [recorded EXCEPT ![p][at[p]] = view[p]]
  /\ UNCHANGED <<pid, fd, at, view, copied, converted, partial, output, content, source>>

CopyTensor(p) ==
  /\ NextTensor(p, "copy", "record", "convert")
  /\ copied' = [copied EXCEPT ![p][at[p]] = view[p]]
  /\ UNCHANGED <<pid, fd, view, recorded, converted, partial, output, content, source>>

Convert(p) ==
  /\ NextTensor(p, "convert", "convert", "create")
  /\ converted' = IF at[p] \in Selected THEN [converted EXCEPT ![p][at[p]] = view[p]] ELSE converted
  /\ UNCHANGED <<pid, fd, view, recorded, copied, partial, output, content, source>>

(* The writer opens the partial name for writing: a new inode, or the one  *)
(* there truncated.                                                        *)
CreatePartial(p) ==
  LET x == pid[p]
      inode == IF partial[x] = NoFile THEN p ELSE partial[x]
  IN  /\ Goto(p, "create", "write")
      /\ partial' = [partial EXCEPT ![x] = inode]
      /\ fd' = [fd EXCEPT ![p] = inode]
      /\ content' = [content EXCEPT ![inode] = [by |-> p, whole |-> FALSE]]
      /\ UNCHANGED <<pid, at, view, tensors, output, source>>

WritePartial(p) ==
  /\ Goto(p, "write", "reopen")
  /\ content' = [content EXCEPT ![fd[p]] = [by |-> p, whole |-> TRUE]]
  /\ UNCHANGED <<pid, fd, at, view, tensors, partial, output, source>>

(* Verification. First the file against itself: its payloads have the      *)
(* recorded hashes and its companions recover to its payloads.             *)
SelfConsistent(i) ==
  LET by == content[i].by
  IN  /\ content[i].whole
      /\ \A t \in Tensors : recorded[by][t] = copied[by][t]
      /\ \A t \in Selected : converted[by][t] = copied[by][t]

PassesUnhashed(p) ==                 \* mutant: the hashes are not compared
  LET i == partial[pid[p]]
  IN  i # NoFile /\ content[i].whole /\
      \A t \in Selected : converted[content[i].by][t] = copied[content[i].by][t]
Passes(p) == partial[pid[p]] # NoFile /\ SelfConsistent(partial[pid[p]])

Verify(p) ==
  /\ Goto(p, "reopen", IF Passes(p) THEN "compare" ELSE "failed")
  /\ view' = [view EXCEPT ![p] = source]
  /\ UNCHANGED <<pid, fd, at, tensors, partial, output, content, source>>

(* Then against the source, opened again, tensor by tensor.                *)
PreservedNames(p) == TRUE            \* mutant: names are compared, payloads are not
Preserved(p) ==
  LET i == partial[pid[p]]
  IN  i # NoFile /\ copied[content[i].by][at[p]] = view[p]

CompareSource(p) ==
  /\ \/ Preserved(p) /\ NextTensor(p, "compare", "compare", "link")
     \/ ~Preserved(p) /\ Goto(p, "compare", "failed") /\ UNCHANGED at
  /\ UNCHANGED <<pid, fd, view, tensors, partial, output, content, source>>

(* os.link never replaces a name.                                          *)
NameIsFreeReplacing(p) == partial[pid[p]] # NoFile      \* mutant: os.replace
NameIsFree(p) == output = NoFile /\ partial[pid[p]] # NoFile

Link(p) ==
  /\ Goto(p, "link", IF NameIsFree(p) THEN "unlink" ELSE "failed")
  /\ output' = IF NameIsFree(p) THEN partial[pid[p]] ELSE output
  /\ UNCHANGED <<pid, fd, at, view, tensors, partial, content, source>>

AfterUnlinkKept(p) == partial                           \* mutant: the name is kept
AfterUnlink(p) == [partial EXCEPT ![pid[p]] = NoFile]
Unlink(p) ==
  /\ Goto(p, "unlink", IF partial[pid[p]] # NoFile THEN "done" ELSE "failed")
  /\ partial' = AfterUnlink(p)
  /\ UNCHANGED <<pid, fd, at, view, tensors, output, content, source>>

(* An exception of any of the calls, or a kill: neither removes the        *)
(* partial file.                                                           *)
Raise(p) ==
  /\ p \in Live
  /\ pc' = [pc EXCEPT ![p] = "failed"]
  /\ UNCHANGED <<pid, fd, at, view, tensors, partial, output, content, source>>

Kill(p) ==
  /\ p \in Live
  /\ pc' = [pc EXCEPT ![p] = "dead"]
  /\ UNCHANGED <<pid, fd, at, view, tensors, partial, output, content, source>>

(* Another program rewrites the source in place, under the mappings, or    *)
(* replaces the file, which they do not see.                               *)
ChangeSource(inPlace) ==
  /\ source < MaxVersion
  /\ source' = source + 1
  /\ view' = IF inPlace THEN [p \in Packers |-> IF view[p] = source THEN source + 1 ELSE view[p]] ELSE view
  /\ UNCHANGED <<pc, pid, fd, at, tensors, partial, output, content>>

Step(p) ==
  \/ Start(p) \/ CheckPartial(p) \/ OpenSource(p) \/ Record(p) \/ CopyTensor(p) \/ Convert(p)
  \/ CreatePartial(p) \/ WritePartial(p) \/ Verify(p) \/ CompareSource(p) \/ Link(p) \/ Unlink(p)
  \/ Raise(p) \/ Kill(p)

Next ==
  \/ \E p \in Packers : Step(p)
  \/ \E inPlace \in BOOLEAN : ChangeSource(inPlace)

Spec == Init /\ [][Next]_vars
-----------------------------------------------------------------------------
(* The files and the packers' places in the program are of their types,    *)
(* and no packer reads a tensor the source does not have.                  *)
TypeOK ==
  /\ pc \in [Packers -> Places]
  /\ pid \in [Packers -> Pids]
  /\ fd \in [Packers -> Packers \cup {NoFile}]
  /\ at \in [Packers -> Tensors]
  /\ view \in [Packers -> Nat]
  /\ recorded \in [Packers -> [Tensors -> Nat]]
  /\ copied \in [Packers -> [Tensors -> Nat]]
  /\ converted \in [Packers -> [Tensors -> Nat]]
  /\ partial \in [Pids -> Packers \cup {NoFile}]
  /\ output \in Packers \cup {NoFile}
  /\ content \in [Packers -> [by : Packers, whole : BOOLEAN]]
  /\ source \in Nat

(* What stands under the output name is a whole file that passed           *)
(* verification: "a file becomes the named output only after the official  *)
(* reader can reopen it, every inverse is byte-exact" (gguf_kpack.py       *)
(* 1222-1223), whoever else writes, fails or is killed.                    *)
PublishedIsVerified == output # NoFile => SelfConsistent(output)

(* "... and the original file copy is unchanged": its tensors are those of *)
(* one version of the source, although they were read one by one from a    *)
(* mapping another program may write under, and compared one by one.       *)
PublishedIsOneVersion ==
  output # NoFile =>
    \A t, u \in Tensors : copied[content[output].by][t] = copied[content[output].by][u]

(* Once there is an output it is never replaced and never written again:   *)
(* the name is created by os.link, and its inode has no writer.            *)
PublishedNeverChanges ==
  [][output # NoFile => output' = output /\ content'[output] = content[output]]_vars

(* A packer that returns the manifest has published its own file and left  *)
(* no partial file behind; of several packers at most one does.            *)
SuccessPublishes ==
  \A p \in Packers : pc[p] = "done" =>
    /\ output = p /\ content[p].by = p
    /\ \A x \in Pids : partial[x] # p
-----------------------------------------------------------------------------
(* The inductive invariant behind them when no two live packers have the   *)
(* same pid. A partial name leads to the inode of the packer that made it, *)
(* a packer past its check and before its write has no such name, and one  *)
(* after it has its own; so an inode has one writer.                       *)
Reading == {"open", "record", "copy", "convert", "create"}
Holding == {"write", "reopen", "compare", "link", "unlink"}

LivePidsDiffer == \A p, q \in Live : p # q => pid[p] # pid[q]
NamesLeadToMakers ==
  \A x \in Pids : partial[x] # NoFile =>
    /\ pid[partial[x]] = x
    /\ pc[partial[x]] \in Holding \cup {"failed", "dead"}
OwnName ==
  \A p \in Packers :
    /\ content[p].by = p
    /\ pc[p] \in Reading => partial[pid[p]] = NoFile
    /\ pc[p] \in Holding => partial[pid[p]] = p /\ fd[p] = p
OutputIsLinkers ==
  /\ output # NoFile => pc[output] \in {"unlink", "done", "failed", "dead"} /\ SelfConsistent(output)
  /\ \A p \in Packers : pc[p] \in {"unlink", "done"} => output = p
VerifiedIsConsistent ==
  \A p \in Packers : pc[p] \in {"compare", "link"} => SelfConsistent(p)

(* Versions only grow, a mapping shows none a copy is newer than, and so a *)
(* tensor found equal to the mapping is the newest of the copies.          *)
Newest(p, t) == \A u \in Tensors : copied[p][u] <= copied[p][t]
CopiesAreOlder ==
  \A p \in Packers :
    /\ view[p] <= source
    /\ \A t \in Tensors : copied[p][t] <= view[p]
    /\ pc[p] \in {"create", "write", "reopen"} => at[p] = 1
ComparedAreNewest ==
  \A p \in Packers :
    /\ pc[p] = "compare" => \A t \in Tensors : t < at[p] => Newest(p, t)
    /\ pc[p] = "link" \/ p = output => \A t \in Tensors : Newest(p, t)

PublishInv ==
  /\ TypeOK
  /\ LivePidsDiffer
  /\ NamesLeadToMakers
  /\ OwnName
  /\ OutputIsLinkers
  /\ VerifiedIsConsistent
  /\ CopiesAreOlder
  /\ ComparedAreNewest
=============================================================================
