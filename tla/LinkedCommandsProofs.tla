------------------------ MODULE LinkedCommandsProofs ------------------------
(***************************************************************************)
(* For any number of commands over any file system: a command never        *)
(* destroys what it read, and its output appears whole or not at all.      *)
(* It inspects no other command's output as part of a dataset.             *)
(* The argument is one invariant that says what each stage of a command    *)
(* may rely on although other commands write between any two of its steps: *)
(* the inode it writes has no other name before it is done, what it read   *)
(* of another command is that command's finished output, and what the      *)
(* guard has seen stays so until the output is renamed into place.         *)
(* And for every campaign plan: what its inspection reports was run so,    *)
(* whatever happens to the files between the inspector's reads; tracing    *)
(* that is said to cost little did so in the runs measured.                *)
(***************************************************************************)
EXTENDS LinkedCommands, CampaignDirectory, SequenceParts, FiniteSetTheorems, SequenceTheorems, TLAPS

(* The stages behind the guard, and those in which the output's directory  *)
(* is open. *)
Sealed == {"create", "write", "replace"}
Opened == {"guard"} \cup Sealed

(* What a stage may rely on. *)
StageOK ==
  \A p \in Procs :
    /\ pc[p] \in {"outside", "operands"} => pinned[p] = Null /\ members[p] = {}
    /\ pc[p] \in {"manifest", "artifacts"} => pinned[p] \in Dirs
    /\ pc[p] = "manifest" => Manifest \in Names
    /\ pc[p] = "artifacts" => manifest[p] \in DOMAIN Declared
    /\ pc[p] \in Opened => parent[p] \in Dirs

(* An output is complete before it has a name that a user chose, and is    *)
(* never read before. *)
OutputsOK ==
  /\ \A f \in Files : bytes[f] \in Contents
  /\ \A p \in Procs : pc[p] \in {"replace", "done"} => bytes[p] = p
  /\ \A p \in Procs, d \in Dirs, n \in Names : tree[d][n] = p => pc[p] = "done"
  /\ \A p, q \in Procs : q \in op_files[p] \cup members[p] => pc[q] = "done"

(* What was inspected is among the operands, and what the guard saw holds. *)
GuardOK ==
  \A p \in Procs :
    /\ pc[p] \in {"parent"} \cup Opened =>
         /\ pinned[p] # Null => pinned[p] \in op_dirs[p]
         /\ command[p].seals_members => members[p] \subseteq op_files[p]
    /\ pc[p] \in Sealed /\ command[p].guarded => ~Overlaps(p)

(* Until another program renames a directory every path leads where it led *)
(* when the directories were compared. *)
OutsideOK ==
  moves = 0 =>
    /\ where = Where0
    /\ \A p \in Procs :
         command[p].outside /\ pc[p] \notin {"outside", "failed", "crashed"} =>
           /\ Where0[command[p].dataset] # Where0[command[p].output.dir]
           /\ pinned[p] \in {Null, Where0[command[p].dataset]}
           /\ pc[p] \in Opened => parent[p] = Where0[command[p].output.dir]

IInv == TypeOK /\ NoLitter /\ StageOK /\ OutputsOK /\ GuardOK /\ OutsideOK

-----------------------------------------------------------------------------
(* What a command names, and where its paths lead. *)
LEMMA CommandTypes ==
  ASSUME TypeOK, NEW p \in Procs
  PROVE  /\ command[p] \in Command
         /\ command[p].operands \in Seq(Path)
         /\ command[p].dataset \in DirPaths \cup {Null}
         /\ command[p].output.dir \in DirPaths /\ command[p].output.name \in Names
         /\ where[command[p].output.dir] \in Dirs
<1>1. command[p] \in Command
  BY CommandsAssumption DEF TypeOK
<1>2. command[p].output \in Path
  BY <1>1 DEF Command
<1>3. QED
  BY <1>1, <1>2 DEF Command, Path, TypeOK

(* An operand is a file under a name a user chose. *)
LEMMA OperandRead ==
  ASSUME TypeOK, NEW p \in Procs, ReadOperand(p)
  PROVE  \E d \in Dirs, n \in Names :
           /\ tree[d][n] \in Files \cup Procs
           /\ op_names' = [op_names EXCEPT ![p] = @ \cup {<<d, n>>}]
           /\ op_files' = [op_files EXCEPT ![p] = @ \cup {tree[d][n]}]
<1> DEFINE o == command[p].operands[taken[p] + 1]
<1>1. command[p].operands \in Seq(Path)
  BY CommandTypes
<1>2. taken[p] \in Nat /\ taken[p] < Len(command[p].operands)
  BY DEF TypeOK, ReadOperand
<1>3. taken[p] + 1 \in 1..Len(command[p].operands)
  BY <1>1, <1>2
<1>4. o \in Path
  BY <1>1, <1>3
<1>5. o.dir \in DirPaths /\ o.name \in Names
  BY <1>4 DEF Path
<1>6. where[o.dir] \in Dirs
  BY <1>5 DEF TypeOK
<1>7. tree[where[o.dir]][o.name] \in Files \cup Procs
  <2>1. tree[where[o.dir]][o.name] \in Files \cup Procs \cup {Null}
    BY <1>5, <1>6 DEF TypeOK
  <2>2. tree[where[o.dir]][o.name] # Null
    BY DEF ReadOperand
  <2>3. QED
    BY <2>1, <2>2
<1>8. QED
  BY <1>5, <1>6, <1>7 DEF ReadOperand

(* A member is a file under a name of the pinned directory. *)
LEMMA MemberRead ==
  ASSUME TypeOK, StageOK, NEW p \in Procs, ReadManifest(p) \/ ReadArtifact(p)
  PROVE  \E n \in Names :
           /\ tree[pinned[p]][n] \in Files \cup Procs
           /\ \/ members' = [members EXCEPT ![p] = {tree[pinned[p]][n]}]
              \/ members' = [members EXCEPT ![p] = @ \cup {tree[pinned[p]][n]}]
<1>1. pinned[p] \in Dirs
  BY DEF StageOK, ReadManifest, ReadArtifact, Goto
<1>2. CASE ReadManifest(p)
  <2>1. Manifest \in Names
    BY <1>2 DEF StageOK, ReadManifest, Goto
  <2>2. tree[pinned[p]][Manifest] \in Files \cup Procs \cup {Null}
    BY <1>1, <2>1 DEF TypeOK
  <2>3. /\ tree[pinned[p]][Manifest] # Null
        /\ members' = [members EXCEPT ![p] = {tree[pinned[p]][Manifest]}]
    BY <1>2 DEF ReadManifest
  <2>4. QED
    BY <2>1, <2>2, <2>3
<1>3. CASE ReadArtifact(p)
  <2> DEFINE a == Declared[manifest[p]][taken[p] + 1]
  <2>1. Declared[manifest[p]] \in Seq(Names \X Contents)
    BY <1>3, FileSystemAssumption DEF StageOK, ReadArtifact
  <2>2. taken[p] + 1 \in 1..Len(Declared[manifest[p]])
    <3>1. taken[p] \in Nat
      BY DEF TypeOK
    <3>2. taken[p] < Len(Declared[manifest[p]])
      BY <1>3 DEF ReadArtifact
    <3>3. Len(Declared[manifest[p]]) \in Nat
      BY <2>1
    <3>4. QED
      BY <3>1, <3>2, <3>3
  <2>3. a \in Names \X Contents
    BY <2>1, <2>2
  <2>4. a[1] \in Names
    BY <2>3
  <2>5. tree[pinned[p]][a[1]] \in Files \cup Procs \cup {Null}
    BY <1>1, <2>4 DEF TypeOK
  <2>6. /\ tree[pinned[p]][a[1]] # Null
        /\ members' = [members EXCEPT ![p] = @ \cup {tree[pinned[p]][a[1]]}]
    BY <1>3 DEF ReadArtifact
  <2>7. QED
    BY <2>4, <2>5, <2>6
<1>4. QED
  BY <1>2, <1>3

-----------------------------------------------------------------------------
(* Types. *)
LEMMA InitTypes == Init => TypeOK
<1> SUFFICES ASSUME Init PROVE TypeOK
  OBVIOUS
<1>1. \A p \in Procs : command[p] \in Command
  BY CommandsAssumption DEF Init
<1>2. tree \in [Dirs -> [Names \cup Procs -> Files \cup Procs \cup {Null}]]
  BY FileSystemAssumption DEF Init
<1>3. bytes \in [Files \cup Procs -> Contents \cup Procs \cup {Null, Partial}]
  BY FileSystemAssumption DEF Init
<1>4. QED
  BY <1>1, <1>2, <1>3, FileSystemAssumption DEF Init, TypeOK, Ended

LEMMA StepTypes ==
  ASSUME TypeOK, StageOK, [Next]_vars
  PROVE  TypeOK'
<1> USE DEF vars, operandVars, datasetVars, fileVars, Goto, Ended
<1>1. ASSUME NEW p \in Procs, Step(p) PROVE TypeOK'
  <2>1. CASE RejectInputOutput(p)
    BY <2>1 DEF RejectInputOutput, TypeOK
  <2>2. CASE ReadOperand(p)
    <3>1. PICK d \in Dirs, n \in Names :
             /\ tree[d][n] \in Files \cup Procs
             /\ op_names' = [op_names EXCEPT ![p] = @ \cup {<<d, n>>}]
             /\ op_files' = [op_files EXCEPT ![p] = @ \cup {tree[d][n]}]
      BY <2>2, OperandRead
    <3>2. op_names' \in [Procs -> SUBSET (Dirs \X Names)]
      BY <3>1 DEF TypeOK
    <3>3. op_files' \in [Procs -> SUBSET (Files \cup Procs)]
      BY <3>1 DEF TypeOK
    <3>4. taken' \in [Procs -> Nat]
      <4>1. taken' = [taken EXCEPT ![p] = @ + 1]
        BY <2>2 DEF ReadOperand
      <4>2. QED
        BY <4>1 DEF TypeOK
    <3>5. UNCHANGED <<command, pc, op_dirs, datasetVars, parent, where, fileVars, moves>>
      BY <2>2 DEF ReadOperand
    <3>6. QED
      BY <3>2, <3>3, <3>4, <3>5 DEF TypeOK
  <2>3. CASE PinDataset(p)
    <3>1. where[command[p].dataset] \in Dirs
      <4>1. command[p].dataset # Null
        BY <2>3 DEF PinDataset
      <4>2. command[p].dataset \in DirPaths
        BY <4>1, CommandTypes
      <4>3. QED
        BY <4>2 DEF TypeOK
    <3>2. pinned' \in [Procs -> Dirs \cup {Null}]
      BY <2>3, <3>1 DEF PinDataset, TypeOK
    <3>3. inventory' \in [Procs -> SUBSET Names]
      BY <2>3 DEF PinDataset, TypeOK
    <3>4. pc' = [pc EXCEPT ![p] = "manifest"]
      BY <2>3 DEF PinDataset
    <3>5. UNCHANGED <<command, taken, operandVars, manifest, members, parent, where, fileVars, moves>>
      BY <2>3 DEF PinDataset
    <3>6. QED
      BY <3>2, <3>3, <3>4, <3>5 DEF TypeOK
  <2>4. CASE ReadManifest(p)
    <3>1. members' \in [Procs -> SUBSET (Files \cup Procs)]
      <4>1. PICK f \in Files \cup Procs : \/ members' = [members EXCEPT ![p] = {f}]
                                          \/ members' = [members EXCEPT ![p] = @ \cup {f}]
        BY <2>4, MemberRead
      <4>2. QED
        BY <4>1 DEF TypeOK
    <3>2. manifest' \in [Procs -> DOMAIN Declared \cup {Null}]
      <4>1. PICK m \in DOMAIN Declared : manifest' = [manifest EXCEPT ![p] = m]
        BY <2>4 DEF ReadManifest
      <4>2. QED
        BY <4>1 DEF TypeOK
    <3>3. pc' = [pc EXCEPT ![p] = "artifacts"] /\ taken' = [taken EXCEPT ![p] = 0]
      BY <2>4 DEF ReadManifest
    <3>4. UNCHANGED <<command, operandVars, pinned, inventory, parent, where, fileVars, moves>>
      BY <2>4 DEF ReadManifest
    <3>5. QED
      BY <3>1, <3>2, <3>3, <3>4 DEF TypeOK
  <2>5. CASE ReadArtifact(p)
    <3>1. members' \in [Procs -> SUBSET (Files \cup Procs)]
      <4>1. PICK f \in Files \cup Procs : \/ members' = [members EXCEPT ![p] = {f}]
                                          \/ members' = [members EXCEPT ![p] = @ \cup {f}]
        BY <2>5, MemberRead
      <4>2. QED
        BY <4>1 DEF TypeOK
    <3>2. taken' \in [Procs -> Nat]
      <4>1. taken' = [taken EXCEPT ![p] = @ + 1]
        BY <2>5 DEF ReadArtifact
      <4>2. QED
        BY <4>1 DEF TypeOK
    <3>3. UNCHANGED <<command, pc, operandVars, pinned, inventory, manifest, parent, where,
                      fileVars, moves>>
      BY <2>5 DEF ReadArtifact
    <3>4. QED
      BY <3>1, <3>2, <3>3 DEF TypeOK
  <2>6. CASE CloseDataset(p)
    BY <2>6 DEF CloseDataset, TypeOK, StageOK
  <2>7. CASE NoDataset(p)
    BY <2>7 DEF NoDataset, TypeOK
  <2>8. CASE OpenParent(p)
    BY <2>8, CommandTypes DEF OpenParent, TypeOK
  <2>9. CASE Guard(p)
    BY <2>9 DEF Guard, TypeOK
  <2>10. CASE Create(p)
    BY <2>10 DEF Create, TypeOK
  <2>11. CASE Write(p)
    BY <2>11 DEF Write, TypeOK
  <2>12. CASE Replace(p)
    BY <2>12, CommandTypes DEF Replace, TypeOK
  <2>13. CASE Fail(p)
    BY <2>13 DEF Fail, TypeOK
  <2>14. QED
    BY <1>1, <2>1, <2>2, <2>3, <2>4, <2>5, <2>6, <2>7, <2>8, <2>9, <2>10, <2>11, <2>12,
       <2>13 DEF Step
<1>2. ASSUME NEW p \in Procs, Crash(p) PROVE TypeOK'
  BY <1>2 DEF Crash, TypeOK
<1>3. CASE SwapDirectories
  <2>1. where' \in [DirPaths -> Dirs]
    BY <1>3 DEF SwapDirectories, TypeOK
  <2>2. moves' \in 0..MaxMoves
    BY <1>3, FileSystemAssumption DEF SwapDirectories, TypeOK
  <2>3. UNCHANGED <<command, pc, taken, operandVars, datasetVars, parent, fileVars>>
    BY <1>3 DEF SwapDirectories
  <2>4. QED
    BY <2>1, <2>2, <2>3 DEF TypeOK
<1>4. CASE EditFile
  <2>1. PICK e \in Edits : bytes' = [bytes EXCEPT ![e[1]] = e[2]]
    BY <1>4 DEF EditFile
  <2>2. e[1] \in Files /\ e[2] \in Contents
    BY FileSystemAssumption
  <2>3. bytes' \in [Files \cup Procs -> Contents \cup Procs \cup {Null, Partial}]
    BY <2>1, <2>2 DEF TypeOK
  <2>4. moves' \in 0..MaxMoves
    BY <1>4, FileSystemAssumption DEF EditFile, TypeOK
  <2>5. UNCHANGED <<command, pc, taken, operandVars, datasetVars, parent, where, tree>>
    BY <1>4 DEF EditFile
  <2>6. QED
    BY <2>3, <2>4, <2>5 DEF TypeOK
<1>5. CASE UNCHANGED vars
  BY <1>5 DEF TypeOK
<1>6. QED
  BY <1>1, <1>2, <1>3, <1>4, <1>5 DEF Next

-----------------------------------------------------------------------------
(* The steps that read leave the file system alone; no step touches what   *)
(* belongs to another process, and a command that is done stays done.      *)
Looks(p) ==
  \/ RejectInputOutput(p) \/ ReadOperand(p) \/ PinDataset(p) \/ ReadManifest(p)
  \/ ReadArtifact(p) \/ CloseDataset(p) \/ NoDataset(p) \/ OpenParent(p) \/ Guard(p)

LEMMA Looking ==
  ASSUME TypeOK, NEW p \in Procs, Looks(p)
  PROVE  /\ UNCHANGED <<command, where, fileVars, moves>>
         /\ pc[p] \in {"outside", "operands", "manifest", "artifacts", "parent", "guard"}
         /\ pc'[p] \in {"operands", "manifest", "artifacts", "parent", "guard", "create"}
<1> USE DEF vars, operandVars, datasetVars, fileVars, Goto
<1>1. UNCHANGED <<command, where, fileVars, moves>>
  BY DEF Looks, RejectInputOutput, ReadOperand, PinDataset, ReadManifest, ReadArtifact,
         CloseDataset, NoDataset, OpenParent, Guard
<1>2. pc[p] \in {"outside", "operands", "manifest", "artifacts", "parent", "guard"}
  BY DEF Looks, RejectInputOutput, ReadOperand, PinDataset, ReadManifest, ReadArtifact,
         CloseDataset, NoDataset, OpenParent, Guard
<1>3. \/ UNCHANGED pc /\ pc[p] \in {"operands", "artifacts"}
      \/ \E to \in {"operands", "manifest", "artifacts", "parent", "guard", "create"} :
           pc' = [pc EXCEPT ![p] = to]
  BY DEF Looks, RejectInputOutput, ReadOperand, PinDataset, ReadManifest, ReadArtifact,
         CloseDataset, NoDataset, OpenParent, Guard
<1>4. pc'[p] \in {"operands", "manifest", "artifacts", "parent", "guard", "create"}
  BY <1>3 DEF TypeOK
<1>5. QED
  BY <1>1, <1>2, <1>4

LEMMA Others ==
  ASSUME TypeOK, NEW p \in Procs, Step(p) \/ Crash(p), NEW q \in Procs, q # p
  PROVE  /\ UNCHANGED <<command, where, moves>>
         /\ pc'[q] = pc[q] /\ op_names'[q] = op_names[q] /\ op_files'[q] = op_files[q]
         /\ op_dirs'[q] = op_dirs[q] /\ pinned'[q] = pinned[q] /\ inventory'[q] = inventory[q]
         /\ manifest'[q] = manifest[q] /\ members'[q] = members[q] /\ parent'[q] = parent[q]
<1> USE DEF TypeOK, operandVars, datasetVars, fileVars, Goto
<1>1. CASE RejectInputOutput(p)
  BY <1>1 DEF RejectInputOutput
<1>2. CASE ReadOperand(p)
  BY <1>2 DEF ReadOperand
<1>3. CASE PinDataset(p)
  BY <1>3 DEF PinDataset
<1>4. CASE ReadManifest(p)
  BY <1>4 DEF ReadManifest
<1>5. CASE ReadArtifact(p)
  BY <1>5 DEF ReadArtifact
<1>6. CASE CloseDataset(p)
  BY <1>6 DEF CloseDataset
<1>7. CASE NoDataset(p) \/ Guard(p)
  BY <1>7 DEF NoDataset, Guard
<1>8. CASE OpenParent(p)
  BY <1>8 DEF OpenParent
<1>9. CASE Create(p) \/ Write(p) \/ Replace(p)
  BY <1>9 DEF Create, Write, Replace
<1>10. CASE Fail(p) \/ Crash(p)
  BY <1>10 DEF Fail, Crash
<1>11. QED
  BY <1>1, <1>2, <1>3, <1>4, <1>5, <1>6, <1>7, <1>8, <1>9, <1>10 DEF Step

LEMMA DoneStays ==
  ASSUME TypeOK, [Next]_vars, NEW q \in Procs, pc[q] = "done"
  PROVE  pc'[q] = "done"
<1>1. ASSUME NEW p \in Procs, Step(p) \/ Crash(p) PROVE p # q
  <2>1. CASE Looks(p)
    BY <2>1, Looking
  <2>2. CASE Create(p) \/ Write(p) \/ Replace(p)
    BY <2>2 DEF Create, Write, Replace, Goto
  <2>3. CASE Fail(p) \/ Crash(p)
    BY <2>3 DEF Fail, Crash, Ended
  <2>4. QED
    BY <1>1, <2>1, <2>2, <2>3 DEF Step, Looks
<1>2. CASE SwapDirectories \/ EditFile \/ UNCHANGED vars
  BY <1>2 DEF SwapDirectories, EditFile, vars
<1>3. QED
  BY <1>1, <1>2, Others DEF Next

-----------------------------------------------------------------------------
(* Nothing is left behind. *)
LEMMA StepNoLitter ==
  ASSUME TypeOK, StageOK, NoLitter, [Next]_vars
  PROVE  NoLitter'
<1> USE DEF vars, operandVars, datasetVars, fileVars, Goto, Ended
<1> SUFFICES ASSUME NEW q \in Procs, NEW d \in Dirs, tree'[d][q] # Null
             PROVE  d = parent'[q] /\ pc'[q] \in {"write", "replace", "crashed"}
  BY DEF NoLitter
<1>1. ASSUME NEW p \in Procs, Create(p) PROVE d = parent'[q] /\ pc'[q] \in {"write", "replace", "crashed"}
  BY <1>1 DEF Create, NoLitter, TypeOK
<1>2. ASSUME NEW p \in Procs, Write(p) PROVE d = parent'[q] /\ pc'[q] \in {"write", "replace", "crashed"}
  BY <1>2 DEF Write, NoLitter, TypeOK
<1>3. ASSUME NEW p \in Procs, Replace(p) PROVE d = parent'[q] /\ pc'[q] \in {"write", "replace", "crashed"}
  <2>1. command[p].output.name \in Names /\ command[p].output.name # q
    BY CommandTypes, FileSystemAssumption
  <2>2. tree[d][q] # Null /\ ~(q = p /\ d = parent[p])
    BY <1>3, <2>1 DEF Replace, TypeOK
  <2>3. QED
    BY <1>3, <2>2 DEF Replace, NoLitter, TypeOK
<1>4. ASSUME NEW p \in Procs, Fail(p) PROVE d = parent'[q] /\ pc'[q] \in {"write", "replace", "crashed"}
  BY <1>4 DEF Fail, NoLitter, TypeOK
<1>5. ASSUME NEW p \in Procs, Crash(p) PROVE d = parent'[q] /\ pc'[q] \in {"write", "replace", "crashed"}
  BY <1>5 DEF Crash, NoLitter, TypeOK
<1>6. ASSUME NEW p \in Procs, Looks(p) PROVE d = parent'[q] /\ pc'[q] \in {"write", "replace", "crashed"}
  <2>1. d = parent[q] /\ pc[q] \in {"write", "replace", "crashed"}
    BY <1>6, Looking DEF NoLitter
  <2>2. q # p
    BY <1>6, <2>1, Looking
  <2>3. QED
    BY <1>6, <2>1, <2>2, Others DEF Looks, Step
<1>7. CASE SwapDirectories \/ EditFile \/ UNCHANGED vars
  BY <1>7 DEF SwapDirectories, EditFile, NoLitter
<1>8. QED
  BY <1>1, <1>2, <1>3, <1>4, <1>5, <1>6, <1>7 DEF Next, Step, Looks

-----------------------------------------------------------------------------
(* What the stages rely on. *)
LEMMA StepStage ==
  ASSUME TypeOK, StageOK, [Next]_vars
  PROVE  StageOK'
<1> USE DEF vars, operandVars, datasetVars, fileVars, Goto, Ended, Opened, Sealed
<1> DEFINE Stage(q) ==
      /\ pc[q] \in {"outside", "operands"} => pinned[q] = Null /\ members[q] = {}
      /\ pc[q] \in {"manifest", "artifacts"} => pinned[q] \in Dirs
      /\ pc[q] = "manifest" => Manifest \in Names
      /\ pc[q] = "artifacts" => manifest[q] \in DOMAIN Declared
      /\ pc[q] \in Opened => parent[q] \in Dirs
<1>1. ASSUME NEW p \in Procs, Step(p) \/ Crash(p), NEW q \in Procs, q # p
      PROVE  Stage(q)'
  BY <1>1, Others DEF StageOK
<1>2. ASSUME NEW p \in Procs, Step(p) \/ Crash(p) PROVE Stage(p)'
  <2>0. Stage(p)
    BY DEF StageOK
  <2> HIDE DEF Stage
  <2>1. CASE RejectInputOutput(p) \/ ReadOperand(p)
    <3>1. UNCHANGED <<pinned, members>> /\ pc'[p] = "operands" /\ pc[p] \in {"outside", "operands"}
      BY <2>1 DEF RejectInputOutput, ReadOperand, TypeOK
    <3>2. QED
      BY <2>0, <3>1 DEF Stage
  <2>2. CASE PinDataset(p)
    <3>1. command[p].dataset \in DirPaths
      BY <2>2, CommandTypes DEF PinDataset
    <3>2. where[command[p].dataset] \in Dirs
      BY <3>1 DEF TypeOK
    <3>3. pc'[p] = "manifest" /\ pinned'[p] \in Dirs /\ Manifest \in Names
      BY <2>2, <3>2 DEF PinDataset, TypeOK
    <3>4. QED
      BY <3>3 DEF Stage
  <2>3. CASE ReadManifest(p)
    <3>1. PICK m \in DOMAIN Declared : manifest' = [manifest EXCEPT ![p] = m]
      BY <2>3 DEF ReadManifest
    <3>2. pc'[p] = "artifacts" /\ manifest'[p] = m
      BY <2>3, <3>1 DEF ReadManifest, TypeOK
    <3>3. pinned'[p] \in Dirs
      BY <2>0, <2>3 DEF ReadManifest, Stage
    <3>4. QED
      BY <3>2, <3>3 DEF Stage
  <2>4. CASE ReadArtifact(p)
    <3>1. pc'[p] = "artifacts" /\ pc[p] = "artifacts" /\ UNCHANGED <<pinned, manifest>>
      BY <2>4 DEF ReadArtifact
    <3>2. QED
      BY <2>0, <3>1 DEF Stage
  <2>5. CASE CloseDataset(p) \/ NoDataset(p)
    <3>1. pc'[p] = "parent"
      BY <2>5 DEF CloseDataset, NoDataset, TypeOK
    <3>2. QED
      BY <3>1 DEF Stage
  <2>6. CASE OpenParent(p)
    <3>1. pc'[p] = "guard" /\ parent'[p] \in Dirs
      BY <2>6, CommandTypes DEF OpenParent, TypeOK
    <3>2. QED
      BY <3>1 DEF Stage
  <2>7. CASE Guard(p) \/ Create(p) \/ Write(p)
    <3>1. pc[p] \in Opened /\ pc'[p] \in Opened /\ UNCHANGED parent
      BY <2>7 DEF Guard, Create, Write, TypeOK
    <3>2. QED
      BY <2>0, <3>1 DEF Stage
  <2>8. CASE Replace(p) \/ Fail(p) \/ Crash(p)
    <3>1. pc'[p] \in Ended
      BY <2>8 DEF Replace, Fail, Crash, TypeOK
    <3>2. QED
      BY <3>1 DEF Stage
  <2>9. QED
    BY <1>2, <2>1, <2>2, <2>3, <2>4, <2>5, <2>6, <2>7, <2>8 DEF Step
<1>3. CASE SwapDirectories \/ EditFile \/ UNCHANGED vars
  BY <1>3 DEF SwapDirectories, EditFile, StageOK
<1>4. QED
  BY <1>1, <1>2, <1>3 DEF Next, StageOK

-----------------------------------------------------------------------------
(* Outputs are whole before they are named, and named before they are read. *)
FilesWhole == \A f \in Files : bytes[f] \in Contents
OutputWhole == \A p \in Procs : pc[p] \in {"replace", "done"} => bytes[p] = p
NamedWhenDone == \A p \in Procs, d \in Dirs, n \in Names : tree[d][n] = p => pc[p] = "done"
ReadWhenDone == \A p, q \in Procs : q \in op_files[p] \cup members[p] => pc[q] = "done"

LEMMA StepFilesWhole ==
  ASSUME TypeOK, FilesWhole, [Next]_vars
  PROVE  FilesWhole'
<1> USE DEF vars, fileVars
<1>1. ASSUME NEW p \in Procs, Create(p) \/ Write(p) PROVE FilesWhole'
  <2>1. \A f \in Files : f # p
    BY FileSystemAssumption
  <2>2. \E c : bytes' = [bytes EXCEPT ![p] = c]
    BY <1>1 DEF Create, Write
  <2>3. \A f \in Files : bytes'[f] = bytes[f]
    BY <2>1, <2>2 DEF TypeOK
  <2>4. QED
    BY <2>3 DEF FilesWhole
<1>2. ASSUME NEW p \in Procs, Replace(p) \/ Fail(p) \/ Crash(p) \/ Looks(p) PROVE FilesWhole'
  BY <1>2, Looking DEF Replace, Fail, Crash, FilesWhole
<1>3. CASE EditFile
  BY <1>3, FileSystemAssumption DEF EditFile, FilesWhole, TypeOK
<1>4. CASE SwapDirectories \/ UNCHANGED vars
  BY <1>4 DEF SwapDirectories, FilesWhole
<1>5. QED
  BY <1>1, <1>2, <1>3, <1>4 DEF Next, Step, Looks

LEMMA StepOutputWhole ==
  ASSUME TypeOK, OutputWhole, [Next]_vars
  PROVE  OutputWhole'
<1> USE DEF vars, fileVars, Goto, Ended
<1> SUFFICES ASSUME NEW q \in Procs, pc'[q] \in {"replace", "done"} PROVE bytes'[q] = q
  BY DEF OutputWhole
<1>1. ASSUME NEW p \in Procs, Create(p) PROVE bytes'[q] = q
  <2>1. q # p /\ pc[q] \in {"replace", "done"}
    BY <1>1 DEF Create, TypeOK
  <2>2. QED
    BY <1>1, <2>1 DEF Create, OutputWhole, TypeOK
<1>2. ASSUME NEW p \in Procs, Write(p) PROVE bytes'[q] = q
  BY <1>2 DEF Write, OutputWhole, TypeOK
<1>3. ASSUME NEW p \in Procs, Replace(p) \/ Fail(p) \/ Crash(p) PROVE bytes'[q] = q
  <2>1. UNCHANGED bytes /\ pc[q] \in {"replace", "done"}
    BY <1>3 DEF Replace, Fail, Crash, TypeOK
  <2>2. QED
    BY <2>1 DEF OutputWhole
<1>4. ASSUME NEW p \in Procs, Looks(p) PROVE bytes'[q] = q
  <2>1. q # p
    BY <1>4, Looking
  <2>2. UNCHANGED bytes /\ pc[q] \in {"replace", "done"}
    BY <1>4, <2>1, Looking, Others DEF Step, Looks
  <2>3. QED
    BY <2>2 DEF OutputWhole
<1>5. CASE EditFile
  <2>1. PICK e \in Edits : bytes' = [bytes EXCEPT ![e[1]] = e[2]]
    BY <1>5 DEF EditFile
  <2>2. e[1] # q /\ UNCHANGED pc
    BY <1>5, FileSystemAssumption DEF EditFile
  <2>3. QED
    BY <2>1, <2>2 DEF OutputWhole, TypeOK
<1>6. CASE SwapDirectories \/ UNCHANGED vars
  BY <1>6 DEF SwapDirectories, OutputWhole
<1>7. QED
  BY <1>1, <1>2, <1>3, <1>4, <1>5, <1>6 DEF Next, Step, Looks

(* Only a rename touches a name that a user chose. *)
LEMMA NameTaken ==
  ASSUME TypeOK, [Next]_vars, NEW d \in Dirs, NEW n \in Names, tree'[d][n] # tree[d][n]
  PROVE  \E p \in Procs :
           Replace(p) /\ d = parent[p] /\ n = command[p].output.name /\ tree'[d][n] = p
<1> USE DEF vars, fileVars
<1>1. ASSUME NEW p \in Procs, Replace(p)
      PROVE  d = parent[p] /\ n = command[p].output.name /\ tree'[d][n] = p
  <2>1. n # p /\ command[p].output.name \in Names /\ command[p].output.name # p
    BY CommandTypes, FileSystemAssumption
  <2>2. QED
    BY <1>1, <2>1 DEF Replace, TypeOK
<1>2. ASSUME NEW p \in Procs, Create(p) \/ Fail(p) PROVE FALSE
  <2>1. n # p
    BY FileSystemAssumption
  <2>2. tree' = tree \/ \E c : tree' = [tree EXCEPT ![parent[p]][p] = c]
    BY <1>2 DEF Create, Fail
  <2>3. QED
    BY <2>1, <2>2 DEF TypeOK
<1>3. ASSUME NEW p \in Procs, Write(p) \/ Crash(p) \/ Looks(p) PROVE FALSE
  BY <1>3, Looking DEF Write, Crash
<1>4. CASE SwapDirectories \/ EditFile \/ UNCHANGED vars
  BY <1>4 DEF SwapDirectories, EditFile
<1>5. QED
  BY <1>1, <1>2, <1>3, <1>4 DEF Next, Step, Looks

LEMMA StepNamed ==
  ASSUME TypeOK, NamedWhenDone, [Next]_vars
  PROVE  NamedWhenDone'
<1> SUFFICES ASSUME NEW q \in Procs, NEW d \in Dirs, NEW n \in Names, tree'[d][n] = q
             PROVE  pc'[q] = "done"
  BY DEF NamedWhenDone
<1>1. CASE tree[d][n] = q
  BY <1>1, DoneStays DEF NamedWhenDone
<1>2. CASE tree[d][n] # q
  <2>1. Replace(q)
    BY <1>2, NameTaken
  <2>2. QED
    BY <2>1 DEF Replace, Goto, TypeOK
<1>3. QED
  BY <1>1, <1>2

LEMMA StepRead ==
  ASSUME TypeOK, StageOK, NamedWhenDone, ReadWhenDone, [Next]_vars
  PROVE  ReadWhenDone'
<1> USE DEF vars, operandVars, datasetVars, fileVars, Goto
<1> SUFFICES ASSUME NEW p \in Procs, NEW q \in Procs, q \in op_files'[p] \cup members'[p]
             PROVE  pc'[q] = "done"
  BY DEF ReadWhenDone
<1>1. ASSUME q \in op_files[p] \cup members[p] PROVE pc'[q] = "done"
  BY <1>1, DoneStays DEF ReadWhenDone
<1>2. ASSUME NEW d \in Dirs, NEW n \in Names, q = tree[d][n] PROVE pc'[q] = "done"
  BY <1>2, DoneStays DEF NamedWhenDone
<1>3. ASSUME NEW r \in Procs, r # p, Step(r) \/ Crash(r) PROVE pc'[q] = "done"
  BY <1>1, <1>3, Others
<1>4. CASE ReadOperand(p)
  <2>1. PICK d \in Dirs, n \in Names : op_files' = [op_files EXCEPT ![p] = @ \cup {tree[d][n]}]
    BY <1>4, OperandRead
  <2>2. UNCHANGED members
    BY <1>4 DEF ReadOperand
  <2>3. QED
    BY <1>1, <1>2, <2>1, <2>2 DEF TypeOK
<1>5. CASE ReadManifest(p) \/ ReadArtifact(p)
  <2>1. PICK n \in Names : \/ members' = [members EXCEPT ![p] = {tree[pinned[p]][n]}]
                           \/ members' = [members EXCEPT ![p] = @ \cup {tree[pinned[p]][n]}]
    BY <1>5, MemberRead
  <2>2. UNCHANGED op_files /\ pinned[p] \in Dirs
    BY <1>5 DEF ReadManifest, ReadArtifact, StageOK
  <2>3. QED
    BY <1>1, <1>2, <2>1, <2>2 DEF TypeOK
<1>6. CASE CloseDataset(p)
  <2>1. op_files'[p] \subseteq op_files[p] \cup members[p] /\ UNCHANGED members
    BY <1>6 DEF CloseDataset, TypeOK
  <2>2. QED
    BY <1>1, <2>1
<1>7. CASE \/ RejectInputOutput(p) \/ PinDataset(p) \/ NoDataset(p) \/ OpenParent(p) \/ Guard(p)
           \/ Create(p) \/ Write(p) \/ Replace(p) \/ Fail(p) \/ Crash(p)
  <2>1. UNCHANGED <<op_files, members>>
    BY <1>7 DEF RejectInputOutput, PinDataset, NoDataset, OpenParent, Guard, Create, Write,
                Replace, Fail, Crash
  <2>2. QED
    BY <1>1, <2>1
<1>8. CASE SwapDirectories \/ EditFile \/ UNCHANGED vars
  BY <1>1, <1>8 DEF SwapDirectories, EditFile
<1>9. QED
  BY <1>3, <1>4, <1>5, <1>6, <1>7, <1>8 DEF Next, Step

-----------------------------------------------------------------------------
(* What the guard saw stays so: the only names that change are taken by    *)
(* outputs, and an output that is being put in place has not been read. *)
LEMMA StepGuard ==
  ASSUME TypeOK, StageOK, ReadWhenDone, GuardOK, [Next]_vars
  PROVE  GuardOK'
<1> USE DEF vars, operandVars, datasetVars, fileVars, Goto, Opened, Sealed
<1> DEFINE Inspected(q) ==
             /\ pinned[q] # Null => pinned[q] \in op_dirs[q]
             /\ command[q].seals_members => members[q] \subseteq op_files[q]
<1>1. ASSUME NEW q \in Procs, pc'[q] \in {"parent"} \cup Opened PROVE Inspected(q)'
  <2>0. pc[q] \in {"parent"} \cup Opened => Inspected(q)
    BY DEF GuardOK
  <2>1. ASSUME NEW p \in Procs, p # q, Step(p) \/ Crash(p) PROVE Inspected(q)'
    BY <1>1, <2>0, <2>1, Others
  <2>2. CASE CloseDataset(q)
    BY <2>2 DEF CloseDataset, TypeOK
  <2>3. CASE NoDataset(q)
    BY <2>3 DEF NoDataset, StageOK
  <2>4. CASE OpenParent(q) \/ Guard(q) \/ Create(q) \/ Write(q)
    <3>1. /\ pc[q] \in {"parent"} \cup Opened
          /\ UNCHANGED <<command, pinned, op_dirs, members, op_files>>
      BY <2>4 DEF OpenParent, Guard, Create, Write
    <3>2. QED
      BY <2>0, <3>1
  <2>5. CASE \/ RejectInputOutput(q) \/ ReadOperand(q) \/ PinDataset(q) \/ ReadManifest(q)
             \/ ReadArtifact(q) \/ Replace(q) \/ Fail(q) \/ Crash(q)
    <3>1. /\ ~RejectInputOutput(q) /\ ~ReadOperand(q) /\ ~PinDataset(q) /\ ~ReadManifest(q)
          /\ ~ReadArtifact(q)
      <4>1. q \in DOMAIN pc
        BY DEF TypeOK
      <4>2. RejectInputOutput(q) => pc'[q] \notin {"parent"} \cup Opened
        BY <4>1 DEF RejectInputOutput
      <4>3. ReadOperand(q) => pc'[q] \notin {"parent"} \cup Opened
        BY <4>1 DEF ReadOperand
      <4>4. PinDataset(q) => pc'[q] \notin {"parent"} \cup Opened
        BY <4>1 DEF PinDataset
      <4>5. ReadManifest(q) => pc'[q] \notin {"parent"} \cup Opened
        BY <4>1 DEF ReadManifest
      <4>6. ReadArtifact(q) => pc'[q] \notin {"parent"} \cup Opened
        BY <4>1 DEF ReadArtifact
      <4>7. QED
        BY <1>1, <4>2, <4>3, <4>4, <4>5, <4>6
    <3>2. ~Replace(q) /\ ~Fail(q) /\ ~Crash(q)
      BY <1>1 DEF Replace, Fail, Crash, TypeOK
    <3>3. QED
      BY <2>5, <3>1, <3>2
  <2>6. CASE SwapDirectories \/ EditFile \/ UNCHANGED vars
    BY <1>1, <2>0, <2>6 DEF SwapDirectories, EditFile
  <2>7. QED
    BY <2>1, <2>2, <2>3, <2>4, <2>5, <2>6 DEF Next, Step
<1>2. ASSUME NEW q \in Procs, pc'[q] \in Sealed, command'[q].guarded PROVE ~Overlaps(q)'
  <2>1. UNCHANGED command
    <3>1. \A p \in Procs : Step(p) => UNCHANGED command
      <4>1. \A p \in Procs : \/ RejectInputOutput(p) \/ ReadOperand(p) \/ PinDataset(p)
                            \/ ReadManifest(p) \/ ReadArtifact(p) => UNCHANGED command
        BY DEF RejectInputOutput, ReadOperand, PinDataset, ReadManifest, ReadArtifact
      <4>2. \A p \in Procs : \/ CloseDataset(p) \/ NoDataset(p) \/ OpenParent(p) \/ Guard(p)
                            \/ Create(p) \/ Write(p) => UNCHANGED command
        BY DEF CloseDataset, NoDataset, OpenParent, Guard, Create, Write
      <4>3. \A p \in Procs : Replace(p) \/ Fail(p) => UNCHANGED command
        BY DEF Replace, Fail
      <4>4. QED
        BY <4>1, <4>2, <4>3 DEF Step
    <3>2. /\ \A p \in Procs : Crash(p) => UNCHANGED command
          /\ SwapDirectories \/ EditFile \/ UNCHANGED vars => UNCHANGED command
      BY DEF Crash, SwapDirectories, EditFile
    <3>3. QED
      BY <3>1, <3>2 DEF Next
  <2> DEFINE Settled == /\ pc[q] \in Opened /\ ~Overlaps(q)
                        /\ parent'[q] = parent[q] /\ op_dirs'[q] = op_dirs[q]
                        /\ op_names'[q] = op_names[q] /\ op_files'[q] = op_files[q]
  <2>2. Settled
    <3>0. pc[q] \in Sealed => ~Overlaps(q)
      BY <1>2, <2>1 DEF GuardOK
    <3>1. ASSUME NEW p \in Procs, p # q, Step(p) \/ Crash(p) PROVE Settled
      BY <1>2, <3>0, <3>1, Others
    <3>2. CASE Guard(q)
      BY <1>2, <2>1, <3>2 DEF Guard
    <3>3. CASE Create(q) \/ Write(q)
      BY <3>0, <3>3 DEF Create, Write
    <3>4. CASE \/ RejectInputOutput(q) \/ ReadOperand(q) \/ PinDataset(q) \/ ReadManifest(q)
               \/ ReadArtifact(q) \/ CloseDataset(q) \/ NoDataset(q) \/ OpenParent(q)
               \/ Replace(q) \/ Fail(q) \/ Crash(q)
      <4>1. pc'[q] \notin Sealed
        BY <3>4 DEF RejectInputOutput, ReadOperand, PinDataset, ReadManifest, ReadArtifact,
                    CloseDataset, NoDataset, OpenParent, Replace, Fail, Crash, TypeOK
      <4>2. QED
        BY <1>2, <4>1
    <3>5. CASE SwapDirectories \/ EditFile \/ UNCHANGED vars
      BY <1>2, <3>0, <3>5 DEF SwapDirectories, EditFile
    <3>6. QED
      BY <3>1, <3>2, <3>3, <3>4, <3>5 DEF Next, Step
  <2>3. Target(q)' \notin op_files[q]
    <3>1. parent[q] \in Dirs /\ command[q].output.name \in Names
      BY <2>2, CommandTypes DEF StageOK
    <3>2. CASE Target(q)' = Target(q)
      BY <2>2, <3>2 DEF Overlaps
    <3>3. CASE Target(q)' # Target(q)
      <4>1. PICK p \in Procs : Replace(p) /\ Target(q)' = p
        BY <2>1, <2>2, <3>1, <3>3, NameTaken DEF Target
      <4>2. pc[p] = "replace"
        BY <4>1 DEF Replace
      <4>3. QED
        BY <4>1, <4>2 DEF ReadWhenDone
    <3>4. QED
      BY <3>2, <3>3
  <2>4. QED
    BY <2>1, <2>2, <2>3 DEF Overlaps
<1>3. QED
  BY <1>1, <1>2 DEF GuardOK

-----------------------------------------------------------------------------
(* While nothing is renamed, a path leads where it led. *)
LEMMA StepOutside ==
  ASSUME TypeOK, StageOK, OutsideOK, [Next]_vars
  PROVE  OutsideOK'
<1> USE DEF vars, operandVars, datasetVars, fileVars, Goto, Opened, Sealed
<1> DEFINE Unswapped(q) ==
             /\ Where0[command[q].dataset] # Where0[command[q].output.dir]
             /\ pinned[q] \in {Null, Where0[command[q].dataset]}
             /\ pc[q] \in Opened => parent[q] = Where0[command[q].output.dir]
           Concerned(q) == command[q].outside /\ pc[q] \notin {"outside", "failed", "crashed"}
<1> SUFFICES ASSUME moves' = 0
             PROVE  where' = Where0 /\ \A q \in Procs : Concerned(q)' => Unswapped(q)'
  BY DEF OutsideOK
<1>1. ~SwapDirectories /\ ~EditFile
  BY DEF SwapDirectories, EditFile, TypeOK
<1>2. UNCHANGED <<command, where, moves>>
  <2>1. ASSUME NEW p \in Procs, Step(p) \/ Crash(p) PROVE UNCHANGED <<command, where, moves>>
    BY <2>1 DEF Step, RejectInputOutput, ReadOperand, PinDataset, ReadManifest, ReadArtifact,
           CloseDataset, NoDataset, OpenParent, Guard, Create, Write, Replace, Fail, Crash
  <2>2. QED
    BY <1>1, <2>1 DEF Next
<1>3. where = Where0 /\ where' = Where0 /\ \A q \in Procs : Concerned(q) => Unswapped(q)
  BY <1>2 DEF OutsideOK
<1>4. ASSUME NEW q \in Procs, Concerned(q)' PROVE Unswapped(q)'
  <2>1. ASSUME NEW p \in Procs, p # q, Step(p) \/ Crash(p) PROVE Unswapped(q)'
    BY <1>3, <1>4, <2>1, Others
  <2>2. CASE RejectInputOutput(q)
    <3>1. Where0[command[q].dataset] # Where0[command[q].output.dir] /\ pinned'[q] = Null
      BY <1>3, <2>2 DEF RejectInputOutput, StageOK
    <3>2. pc'[q] \notin Opened
      BY <2>2 DEF RejectInputOutput, TypeOK
    <3>3. QED
      BY <1>2, <3>1, <3>2
  <2>3. CASE PinDataset(q)
    <3>1. pc[q] = "operands" /\ pc'[q] = "manifest"
      BY <2>3 DEF PinDataset, TypeOK
    <3>2. pinned'[q] = Where0[command[q].dataset]
      BY <1>3, <2>3 DEF PinDataset, TypeOK
    <3>3. Concerned(q)
      BY <1>2, <1>4, <3>1
    <3>4. QED
      BY <1>2, <1>3, <3>1, <3>2, <3>3
  <2>4. CASE OpenParent(q)
    <3>1. pc[q] = "parent" /\ pc'[q] = "guard" /\ UNCHANGED pinned
      BY <2>4 DEF OpenParent, TypeOK
    <3>2. parent'[q] = Where0[command[q].output.dir]
      BY <1>3, <2>4 DEF OpenParent, TypeOK
    <3>3. Concerned(q)
      BY <1>2, <1>4, <3>1
    <3>4. QED
      BY <1>2, <1>3, <3>1, <3>2, <3>3
  <2>5. CASE \/ ReadOperand(q) \/ ReadManifest(q) \/ ReadArtifact(q) \/ CloseDataset(q)
             \/ NoDataset(q) \/ Guard(q) \/ Create(q) \/ Write(q) \/ Replace(q)
    <3>1. UNCHANGED <<pinned, parent>> /\ pc[q] \notin {"outside", "failed", "crashed"}
      BY <2>5 DEF ReadOperand, ReadManifest, ReadArtifact, CloseDataset, NoDataset, Guard, Create,
                  Write, Replace
    <3>2. pc'[q] \in Opened => pc[q] \in Opened
      BY <2>5 DEF ReadOperand, ReadManifest, ReadArtifact, CloseDataset, NoDataset, Guard, Create,
                  Write, Replace, TypeOK
    <3>3. Concerned(q)
      BY <1>2, <1>4, <3>1
    <3>4. QED
      BY <1>2, <1>3, <3>1, <3>2, <3>3
  <2>6. CASE Fail(q) \/ Crash(q)
    BY <1>4, <2>6 DEF Fail, Crash, TypeOK
  <2>7. CASE UNCHANGED vars
    BY <1>3, <1>4, <2>7
  <2>8. QED
    BY <1>1, <2>1, <2>2, <2>3, <2>4, <2>5, <2>6, <2>7 DEF Next, Step
<1>5. QED
  BY <1>3, <1>4

-----------------------------------------------------------------------------
LEMMA OutputsParts == OutputsOK <=> FilesWhole /\ OutputWhole /\ NamedWhenDone /\ ReadWhenDone
BY DEF OutputsOK, FilesWhole, OutputWhole, NamedWhenDone, ReadWhenDone

LEMMA InitIInv == Init => IInv
<1> SUFFICES ASSUME Init PROVE IInv
  OBVIOUS
<1>1. TypeOK
  BY InitTypes
<1>2. \A p \in Procs : pc[p] \in {"outside", "operands"}
  BY DEF Init
<1>3. NoLitter
  BY FileSystemAssumption DEF Init, NoLitter
<1>4. StageOK
  BY <1>2 DEF Init, StageOK, Opened, Sealed
<1>5. FilesWhole
  BY FileSystemAssumption DEF Init, FilesWhole
<1>6. OutputWhole
  BY <1>2 DEF OutputWhole
<1>7. NamedWhenDone
  <2>1. \A d \in Dirs, n \in Names : tree[d][n] \in Files \cup {Null}
    BY FileSystemAssumption DEF Init
  <2>2. QED
    BY <2>1, FileSystemAssumption DEF NamedWhenDone
<1>8. ReadWhenDone
  BY DEF Init, ReadWhenDone
<1>9. GuardOK
  BY <1>2 DEF GuardOK, Opened, Sealed
<1>10. OutsideOK
  <2>1. \A p \in Procs : command[p].outside => pc[p] = "outside"
    BY DEF Init
  <2>2. QED
    BY <2>1 DEF Init, OutsideOK
<1>11. QED
  BY <1>1, <1>3, <1>4, <1>5, <1>6, <1>7, <1>8, <1>9, <1>10, OutputsParts DEF IInv

LEMMA NextIInv == IInv /\ [Next]_vars => IInv'
<1> SUFFICES ASSUME IInv, [Next]_vars PROVE IInv'
  OBVIOUS
<1>1. TypeOK' /\ NoLitter' /\ StageOK' /\ OutsideOK'
  BY StepTypes, StepNoLitter, StepStage, StepOutside DEF IInv
<1>2. FilesWhole /\ OutputWhole /\ NamedWhenDone /\ ReadWhenDone
  BY OutputsParts DEF IInv
<1>3. FilesWhole' /\ OutputWhole' /\ NamedWhenDone' /\ ReadWhenDone'
  BY <1>2, StepFilesWhole, StepOutputWhole, StepNamed, StepRead DEF IInv
<1>4. OutputsOK'
  BY <1>3 DEF OutputsOK, FilesWhole, OutputWhole, NamedWhenDone, ReadWhenDone
<1>5. GuardOK'
  BY <1>2, StepGuard DEF IInv
<1>6. QED
  BY <1>1, <1>4, <1>5 DEF IInv

(* Whatever processes run, stop or crash and whatever other programs do to *)
(* the file system, every stage can rely on what it was promised. *)
THEOREM CommandInvariant == Spec => []IInv
BY InitIInv, NextIInv, PTL DEF Spec

(* The types are right and no temporary file outlives its command, unless  *)
(* the command crashed. *)
THEOREM NothingLeftBehind == Spec => [](TypeOK /\ NoLitter)
<1>1. IInv => TypeOK /\ NoLitter
  BY DEF IInv
<1>2. QED
  BY <1>1, CommandInvariant, PTL

-----------------------------------------------------------------------------
(* A step that ends a command well is the rename of its output. *)
LEMMA DoneByReplace ==
  ASSUME TypeOK, [Next]_vars, NEW p \in Procs, pc[p] = "replace", pc'[p] = "done"
  PROVE  Replace(p)
<1> USE DEF vars
<1>1. ASSUME NEW q \in Procs, q # p, Step(q) \/ Crash(q) PROVE FALSE
  BY <1>1, Others
<1>2. ASSUME Looks(p) \/ Create(p) \/ Write(p) PROVE FALSE
  BY <1>2, Looking DEF Create, Write, Goto
<1>3. ASSUME Fail(p) \/ Crash(p) PROVE FALSE
  BY <1>3 DEF Fail, Crash, TypeOK
<1>4. CASE SwapDirectories \/ EditFile \/ UNCHANGED vars
  BY <1>4 DEF SwapDirectories, EditFile
<1>5. QED
  BY <1>1, <1>2, <1>3, <1>4 DEF Next, Step, Looks

LEMMA OperandsStep ==
  ASSUME IInv, [Next]_vars, NEW p \in Procs, command[p].guarded, pc[p] = "replace", pc'[p] = "done",
         NEW d \in Dirs, NEW n \in Names, Disturbed(d, n)
  PROVE  /\ tree[d][n] \notin op_files[p]
         /\ <<d, n>> \notin op_names[p]
         /\ d # pinned[p]
         /\ command[p].seals_members => tree[d][n] \notin members[p]
<1>1. Replace(p)
  BY DoneByReplace DEF IInv
<1>2. PICK q \in Procs : Replace(q) /\ d = parent[q] /\ n = command[q].output.name
  BY NameTaken DEF IInv, Disturbed
<1>3. q = p
  BY <1>1, <1>2 DEF Replace, Goto, IInv, TypeOK
<1>4. ~Overlaps(p) /\ tree[d][n] = Target(p)
  BY <1>2, <1>3 DEF IInv, GuardOK, Sealed, Target
<1>5. /\ pinned[p] # Null => pinned[p] \in op_dirs[p]
      /\ command[p].seals_members => members[p] \subseteq op_files[p]
  BY DEF IInv, GuardOK, Opened, Sealed
<1>6. d # Null
  BY FileSystemAssumption
<1>7. QED
  BY <1>2, <1>3, <1>4, <1>5, <1>6 DEF Overlaps

LEMMA OutsideStep ==
  ASSUME IInv, [Next]_vars, NEW p \in Procs, command[p].outside, moves = 0, pc[p] = "replace"
  PROVE  parent[p] # pinned[p]
<1>1. parent[p] \in Dirs /\ parent[p] # Null
  BY FileSystemAssumption DEF IInv, StageOK, Opened, Sealed
<1>2. QED
  BY <1>1 DEF IInv, OutsideOK, Opened, Sealed

-----------------------------------------------------------------------------
(* What a command has read of a dataset no command wrote, and the names it *)
(* found are those the manifest declares. *)
ApartOK ==
  \A p \in Procs :
    /\ members[p] \cap Procs = {}
    /\ pc[p] = "artifacts" => inventory[p] = MembersOf(manifest[p])

(* A file whose content a manifest can declare is no command's output. *)
LEMMA OutputIsUndeclared ==
  ASSUME IInv, NEW d \in Dirs, NEW n \in Names, tree[d][n] # Null, bytes[tree[d][n]] \in Contents
  PROVE  tree[d][n] \in Files
<1>1. tree[d][n] \in Files \cup Procs
  BY DEF IInv, TypeOK
<1>2. ASSUME tree[d][n] \in Procs PROVE FALSE
  <2>1. pc[tree[d][n]] = "done"
    BY <1>2 DEF IInv, OutputsOK
  <2>2. bytes[tree[d][n]] = tree[d][n]
    BY <1>2, <2>1 DEF IInv, OutputsOK
  <2>3. QED
    BY <1>2, <2>2, FileSystemAssumption
<1>3. QED
  BY <1>1, <1>2

LEMMA ManifestApart ==
  ASSUME IInv, NEW p \in Procs, ReadManifest(p)
  PROVE  members'[p] \cap Procs = {} /\ inventory'[p] = MembersOf(manifest'[p])
<1> DEFINE f == tree[pinned[p]][Manifest]
<1>1. pinned[p] \in Dirs /\ Manifest \in Names
  BY DEF ReadManifest, Goto, IInv, StageOK
<1>2. f # Null /\ bytes[f] \in DOMAIN Declared
  BY DEF ReadManifest
<1>3. f \in Files
  BY <1>1, <1>2, OutputIsUndeclared, FileSystemAssumption
<1>4. members'[p] = {f} /\ manifest'[p] = bytes[f]
  BY DEF ReadManifest, IInv, TypeOK
<1>5. /\ inventory'[p] = inventory[p]
      /\ inventory[p] = {Manifest} \cup {a[1] : a \in {Declared[bytes[f]][i] :
                                             i \in DOMAIN Declared[bytes[f]]}}
  BY DEF ReadManifest
<1>6. {a[1] : a \in {Declared[bytes[f]][i] : i \in DOMAIN Declared[bytes[f]]}}
        = {Declared[bytes[f]][i][1] : i \in DOMAIN Declared[bytes[f]]}
  OBVIOUS
<1>7. inventory'[p] = MembersOf(manifest'[p])
  BY <1>4, <1>5, <1>6 DEF MembersOf
<1>8. QED
  BY <1>3, <1>4, <1>7, FileSystemAssumption

LEMMA ArtifactApart ==
  ASSUME IInv, ApartOK, NEW p \in Procs, ReadArtifact(p)
  PROVE  members'[p] \cap Procs = {}
<1> DEFINE a == Declared[manifest[p]][taken[p] + 1]
           f == tree[pinned[p]][a[1]]
<1>1. pinned[p] \in Dirs /\ Declared[manifest[p]] \in Seq(Names \X Contents)
  BY FileSystemAssumption DEF ReadArtifact, IInv, StageOK
<1>2. taken[p] + 1 \in 1..Len(Declared[manifest[p]])
  <2>1. taken[p] \in Nat /\ taken[p] < Len(Declared[manifest[p]])
    BY DEF ReadArtifact, IInv, TypeOK
  <2>2. Len(Declared[manifest[p]]) \in Nat
    BY <1>1
  <2>3. QED
    BY <2>1, <2>2
<1>3. a \in Names \X Contents
  BY <1>1, <1>2
<1>4. a[1] \in Names /\ a[2] \in Contents
  BY <1>3
<1>5. f # Null /\ bytes[f] = a[2]
  BY DEF ReadArtifact
<1>6. f \in Files
  BY <1>1, <1>4, <1>5, OutputIsUndeclared
<1>7. members'[p] = members[p] \cup {f}
  BY DEF ReadArtifact, IInv, TypeOK
<1>8. QED
  BY <1>6, <1>7, FileSystemAssumption DEF ApartOK

LEMMA StepApart == IInv /\ ApartOK /\ [Next]_vars => ApartOK'
<1> SUFFICES ASSUME IInv, ApartOK, [Next]_vars, NEW p \in Procs
             PROVE  /\ members'[p] \cap Procs = {}
                    /\ pc'[p] = "artifacts" => inventory'[p] = MembersOf(manifest'[p])
  BY DEF ApartOK
<1> USE DEF vars, operandVars, datasetVars, fileVars, Goto
<1>1. ASSUME NEW q \in Procs, q # p, Step(q) \/ Crash(q)
      PROVE  /\ members'[p] \cap Procs = {}
             /\ pc'[p] = "artifacts" => inventory'[p] = MembersOf(manifest'[p])
  BY <1>1, Others DEF IInv, ApartOK
<1>2. CASE ReadManifest(p)
  BY <1>2, ManifestApart
<1>3. CASE ReadArtifact(p)
  <2>1. UNCHANGED <<pc, inventory, manifest>>
    BY <1>3 DEF ReadArtifact
  <2>2. QED
    BY <1>3, <2>1, ArtifactApart DEF ApartOK
<1>4. CASE \/ RejectInputOutput(p) \/ ReadOperand(p) \/ PinDataset(p) \/ CloseDataset(p)
           \/ NoDataset(p) \/ OpenParent(p) \/ Guard(p)
  <2>1. UNCHANGED members
    BY <1>4 DEF RejectInputOutput, ReadOperand, PinDataset, CloseDataset, NoDataset, OpenParent,
                Guard
  <2>2. pc'[p] # "artifacts"
    BY <1>4 DEF RejectInputOutput, ReadOperand, PinDataset, CloseDataset, NoDataset, OpenParent,
                Guard, IInv, TypeOK
  <2>3. QED
    BY <2>1, <2>2 DEF ApartOK
<1>5. CASE Create(p) \/ Write(p) \/ Replace(p) \/ Fail(p) \/ Crash(p)
  <2>1. UNCHANGED members /\ pc'[p] # "artifacts"
    BY <1>5 DEF Create, Write, Replace, Fail, Crash, IInv, TypeOK
  <2>2. QED
    BY <2>1 DEF ApartOK
<1>6. CASE SwapDirectories \/ EditFile \/ UNCHANGED vars
  BY <1>6 DEF SwapDirectories, EditFile, ApartOK
<1>7. QED
  BY <1>1, <1>2, <1>3, <1>4, <1>5, <1>6 DEF Next, Step

(* A dataset read to its end is closed: nothing else ends that stage well. *)
LEMMA ParentByClose ==
  ASSUME TypeOK, [Next]_vars, NEW p \in Procs, pc[p] = "artifacts", pc'[p] = "parent"
  PROVE  CloseDataset(p)
<1> USE DEF vars, Goto
<1>1. ASSUME NEW q \in Procs, q # p, Step(q) \/ Crash(q) PROVE FALSE
  BY <1>1, Others
<1>2. CASE \/ RejectInputOutput(p) \/ ReadOperand(p) \/ PinDataset(p) \/ ReadManifest(p)
           \/ ReadArtifact(p) \/ NoDataset(p) \/ OpenParent(p) \/ Guard(p)
  BY <1>2 DEF RejectInputOutput, ReadOperand, PinDataset, ReadManifest, ReadArtifact, NoDataset,
              OpenParent, Guard
<1>3. CASE Create(p) \/ Write(p) \/ Replace(p) \/ Fail(p) \/ Crash(p)
  BY <1>3 DEF Create, Write, Replace, Fail, Crash, TypeOK
<1>4. CASE SwapDirectories \/ EditFile \/ UNCHANGED vars
  BY <1>4 DEF SwapDirectories, EditFile
<1>5. QED
  BY <1>1, <1>2, <1>3, <1>4 DEF Next, Step

LEMMA ApartStep ==
  ASSUME IInv, ApartOK, [Next]_vars, NEW p \in Procs, NEW q \in Procs,
         pc[p] = "artifacts", pc'[p] = "parent"
  PROVE  /\ q \notin members[p] /\ tree[pinned[p]][q] = Null
         /\ \A n \in Names : tree[pinned[p]][n] = q => n \in MembersOf(manifest[p])
<1>1. CloseDataset(p)
  BY ParentByClose DEF IInv
<1>2. NamesIn(pinned[p]) = inventory[p] /\ inventory[p] \subseteq Names
  BY <1>1 DEF CloseDataset, IInv, TypeOK
<1>3. q \notin Names /\ q # Null
  BY FileSystemAssumption
<1>4. tree[pinned[p]][q] = Null
  BY <1>2, <1>3 DEF NamesIn
<1>5. \A n \in Names : tree[pinned[p]][n] = q => n \in inventory[p]
  BY <1>2, <1>3 DEF NamesIn
<1>6. inventory[p] = MembersOf(manifest[p]) /\ q \notin members[p]
  BY DEF ApartOK
<1>7. QED
  BY <1>4, <1>5, <1>6

(* Whoever publishes into a dataset while it is inspected, and in whatever *)
(* order: an inspection that ends well read no command's output, and found *)
(* none in the directory but in the place of a declared file.              *)
THEOREM DatasetsStayApart == Spec => PublishedApart
<1>1. Init => ApartOK
  BY DEF Init, ApartOK
<1>2. Spec => []ApartOK
  BY <1>1, StepApart, CommandInvariant, PTL DEF Spec
<1>3. IInv /\ ApartOK /\ [Next]_vars =>
        [\A p, q \in Procs :
           pc[p] = "artifacts" /\ pc'[p] = "parent" =>
             /\ q \notin members[p] /\ tree[pinned[p]][q] = Null
             /\ \A n \in Names : tree[pinned[p]][n] = q => n \in MembersOf(manifest[p])]_vars
  BY ApartStep
<1>4. QED
  BY <1>2, <1>3, CommandInvariant, PTL DEF Spec, PublishedApart

(* A command never destroys what it read, however many others run, whatever *)
(* they write and whatever directories are renamed meanwhile: its operands  *)
(* and the members it reports survive, under every name they have, nothing  *)
(* changes in the directory it inspected, and a report stays out of its     *)
(* dataset, of which no other command's output is taken for a member.       *)
THEOREM InputsAlwaysSurvive == Spec => InputsSurvive
<1>1. IInv /\ [Next]_vars =>
        [\A p \in Procs :
           command[p].guarded /\ pc[p] = "replace" /\ pc'[p] = "done" =>
             \A d \in Dirs, n \in Names : Disturbed(d, n) =>
               /\ tree[d][n] \notin op_files[p]
               /\ <<d, n>> \notin op_names[p]]_vars
  BY OperandsStep
<1>2. IInv /\ [Next]_vars =>
        [\A p \in Procs :
           command[p].guarded /\ pc[p] = "replace" /\ pc'[p] = "done" =>
             \A d \in Dirs, n \in Names : Disturbed(d, n) =>
               /\ d # pinned[p]
               /\ command[p].seals_members => tree[d][n] \notin members[p]]_vars
  BY OperandsStep
<1>3. IInv /\ [Next]_vars =>
        [\A p \in Procs :
           command[p].outside /\ moves = 0 /\ pc[p] = "replace" /\ pc'[p] = "done" =>
             parent[p] # pinned[p]]_vars
  BY OutsideStep
<1>4. QED
  BY <1>1, <1>2, <1>3, CommandInvariant, DatasetsStayApart, PTL
     DEF Spec, InputsSurvive, OperandsSurvive, SourceSurvives, ReportOutside

-----------------------------------------------------------------------------
(* The refinement: what a reader finds under a name, and how each command  *)
(* stands.                                                                 *)
Found == [d \in Dirs |-> [n \in Names |-> IF tree[d][n] = Null THEN Null ELSE bytes[tree[d][n]]]]
Stands == [p \in Procs |-> CASE pc[p] = "done" -> "done"
                             [] pc[p] \in {"failed", "crashed"} -> "failed"
                             [] OTHER -> "running"]

LEMMA InitRefines == Init => Output!Init
<1> SUFFICES ASSUME Init PROVE Output!Init
  OBVIOUS
<1>1. ASSUME NEW d \in Dirs, NEW n \in Names PROVE Found[d][n] \in Contents \cup {Null}
  <2>1. tree[d][n] \in Files \cup {Null}
    BY FileSystemAssumption DEF Init
  <2>2. \A f \in Files : bytes[f] \in Contents
    BY FileSystemAssumption DEF Init
  <2>3. QED
    BY <2>1, <2>2 DEF Found
<1>2. Found \in [Dirs -> [Names -> Contents \cup {Null}]]
  BY <1>1 DEF Found
<1>3. \A p \in Procs : pc[p] \in {"outside", "operands"}
  BY DEF Init
<1>4. Stands = [p \in Procs |-> "running"]
  BY <1>3 DEF Stands
<1>5. QED
  BY <1>2, <1>4 DEF Output!Init, Found, Stands

(* A reader finds the same as long as the names lead to the same files and *)
(* the files that have names keep their content.                           *)
LEMMA SameFound ==
  ASSUME \A d \in Dirs, n \in Names :
           /\ tree'[d][n] = tree[d][n]
           /\ tree[d][n] # Null => bytes'[tree[d][n]] = bytes[tree[d][n]]
  PROVE  Found' = Found
BY DEF Found

LEMMA SameStands ==
  ASSUME TypeOK, NEW p \in Procs, NEW to, pc' = [pc EXCEPT ![p] = to],
         pc[p] \notin Ended, to \notin Ended
  PROVE  Stands' = Stands
<1>1. ASSUME NEW q \in Procs PROVE Stands'[q] = Stands[q]
  <2>1. CASE q = p
    BY <2>1 DEF Stands, Ended, TypeOK
  <2>2. CASE q # p
    BY <2>2 DEF Stands, TypeOK
  <2>3. QED
    BY <2>1, <2>2
<1>2. QED
  BY <1>1 DEF Stands

(* The step of a command that ends it. *)
LEMMA EndStands ==
  ASSUME TypeOK, NEW p \in Procs, NEW to \in Ended, pc' = [pc EXCEPT ![p] = to], pc[p] \notin Ended
  PROVE  /\ Stands[p] = "running"
         /\ Stands' = [Stands EXCEPT ![p] = IF to = "done" THEN "done" ELSE "failed"]
<1>1. Stands[p] = "running"
  BY DEF Stands, Ended
<1>2. ASSUME NEW q \in Procs
      PROVE  Stands'[q] = IF q = p THEN (IF to = "done" THEN "done" ELSE "failed") ELSE Stands[q]
  BY DEF Stands, Ended, TypeOK
<1>3. QED
  BY <1>1, <1>2 DEF Stands

(* A name of a user's never leads to the file a command is still writing.  *)
LEMMA StepRefines == IInv /\ [Next]_vars => [Output!Next]_(Output!vars)
<1> USE DEF vars, fileVars, Goto
<1> SUFFICES ASSUME IInv, [Next]_vars
             PROVE  Output!Next \/ (Found' = Found /\ Stands' = Stands)
  BY DEF Output!vars, Found, Stands
<1> TypeOK /\ NoLitter /\ StageOK /\ OutputsOK
  BY DEF IInv
<1>1. ASSUME NEW p \in Procs, Looks(p) PROVE Found' = Found /\ Stands' = Stands
  <2>1. UNCHANGED fileVars
    BY <1>1, Looking
  <2>2. \/ UNCHANGED pc
        \/ \E to \in {"operands", "manifest", "artifacts", "parent", "guard", "create"} :
             pc' = [pc EXCEPT ![p] = to]
    BY <1>1 DEF Looks, RejectInputOutput, ReadOperand, PinDataset, ReadManifest, ReadArtifact,
                CloseDataset, NoDataset, OpenParent, Guard
  <2>3. pc[p] \notin Ended
    BY <1>1, Looking DEF Ended
  <2>4. Stands' = Stands
    BY <2>2, <2>3, SameStands DEF Stands, Ended
  <2>5. QED
    BY <2>1, <2>4 DEF Found
<1>2. ASSUME NEW p \in Procs, Create(p) \/ Write(p) PROVE Found' = Found /\ Stands' = Stands
  <2>1. \E to \in {"write", "replace"} : pc' = [pc EXCEPT ![p] = to]
    BY <1>2 DEF Create, Write
  <2>2. pc[p] \notin Ended
    BY <1>2 DEF Create, Write, Ended
  <2>3. Stands' = Stands
    BY <2>1, <2>2, SameStands DEF Ended
  <2>4. ASSUME NEW d \in Dirs, NEW n \in Names PROVE tree'[d][n] = tree[d][n]
    <3>1. ~ \E q \in Procs : Replace(q)
      BY <1>2 DEF Create, Write, Replace, TypeOK
    <3>2. QED
      BY <3>1, NameTaken
  <2>5. ASSUME NEW d \in Dirs, NEW n \in Names, tree[d][n] # Null
        PROVE  bytes'[tree[d][n]] = bytes[tree[d][n]]
    <3>1. tree[d][n] # p
      BY <2>2 DEF OutputsOK, Ended
    <3>2. tree[d][n] \in Files \cup Procs
      BY <2>5 DEF TypeOK
    <3>3. \E c : bytes' = [bytes EXCEPT ![p] = c]
      BY <1>2 DEF Create, Write
    <3>4. QED
      BY <3>1, <3>2, <3>3 DEF TypeOK
  <2>6. QED
    BY <2>3, <2>4, <2>5, SameFound
<1>3. ASSUME NEW p \in Procs, Replace(p) PROVE Output!Publish(p)
  <2>1. pc' = [pc EXCEPT ![p] = "done"] /\ pc[p] \notin Ended /\ UNCHANGED bytes
    BY <1>3 DEF Replace, Ended
  <2>2. Stands[p] = "running" /\ Stands' = [Stands EXCEPT ![p] = "done"]
    BY <2>1, EndStands DEF Ended
  <2>3. parent[p] \in Dirs /\ command[p].output.name \in Names
    BY <1>3, CommandTypes DEF Replace, StageOK, Opened, Sealed
  <2>4. bytes[p] = p /\ p # Null
    BY <1>3, FileSystemAssumption DEF Replace, OutputsOK
  <2>5. ASSUME NEW d \in Dirs, NEW n \in Names
        PROVE  Found'[d][n] = IF d = parent[p] /\ n = command[p].output.name THEN p ELSE Found[d][n]
    <3>1. n # p /\ n \in Names \cup Procs
      BY FileSystemAssumption
    <3>2. tree'[d][n] = IF d = parent[p] /\ n = command[p].output.name THEN p ELSE tree[d][n]
      <4>1. tree' = [tree EXCEPT ![parent[p]][command[p].output.name] = p, ![parent[p]][p] = Null]
        BY <1>3 DEF Replace
      <4>2. /\ d \in DOMAIN tree /\ parent[p] \in DOMAIN tree
            /\ n \in DOMAIN tree[d] /\ {n, p, command[p].output.name} \subseteq DOMAIN tree[parent[p]]
        BY <2>3, <3>1 DEF TypeOK
      <4>3. CASE d # parent[p]
        BY <4>1, <4>2, <4>3
      <4>4. CASE d = parent[p]
        BY <3>1, <4>1, <4>2, <4>4
      <4>5. QED
        BY <4>3, <4>4
    <3>3. CASE d = parent[p] /\ n = command[p].output.name
      <4>1. tree'[d][n] = p /\ bytes'[p] = p
        BY <2>1, <2>4, <3>2, <3>3
      <4>2. QED
        BY <2>4, <3>3, <4>1 DEF Found
    <3>4. CASE ~(d = parent[p] /\ n = command[p].output.name)
      <4>1. tree'[d][n] = tree[d][n] /\ bytes' = bytes
        BY <2>1, <3>2, <3>4
      <4>2. Found[d][n] = (IF tree[d][n] = Null THEN Null ELSE bytes[tree[d][n]])
        BY DEF Found
      <4>3. Found'[d][n] = (IF tree'[d][n] = Null THEN Null ELSE bytes'[tree'[d][n]])
        BY DEF Found
      <4>4. QED
        BY <3>4, <4>1, <4>2, <4>3
    <3>5. QED
      BY <3>3, <3>4
  <2>6. Found' = [Found EXCEPT ![parent[p]][command[p].output.name] = p]
    <3>1. Found'[parent[p]] = [Found[parent[p]] EXCEPT ![command[p].output.name] = p]
      BY <2>3, <2>5 DEF Found
    <3>2. ASSUME NEW d \in Dirs, d # parent[p] PROVE Found'[d] = Found[d]
      BY <2>5, <3>2 DEF Found
    <3>3. Found = [d \in Dirs |-> Found[d]] /\ Found' = [d \in Dirs |-> Found'[d]]
      BY DEF Found
    <3>4. QED
      BY <3>1, <3>2, <3>3
  <2>7. QED
    BY <2>2, <2>3, <2>6 DEF Output!Publish, Found, Stands
<1>4. ASSUME NEW p \in Procs, Fail(p) \/ Crash(p) PROVE Output!GiveUp(p)
  <2>1. PICK to \in {"failed", "crashed"} : pc' = [pc EXCEPT ![p] = to]
    BY <1>4 DEF Fail, Crash
  <2>2. pc[p] \notin Ended /\ UNCHANGED bytes
    BY <1>4 DEF Fail, Crash
  <2>3. Stands[p] = "running" /\ Stands' = [Stands EXCEPT ![p] = "failed"]
    BY <2>1, <2>2, EndStands DEF Ended
  <2>4. ~ \E q \in Procs : Replace(q)
    BY <2>1, <2>2 DEF Replace, TypeOK, Ended
  <2>5. Found' = Found
    BY <2>2, <2>4, NameTaken, SameFound
  <2>6. QED
    BY <2>3, <2>5 DEF Output!GiveUp, Found, Stands
<1>5. CASE SwapDirectories \/ UNCHANGED vars
  BY <1>5 DEF SwapDirectories, Found, Stands
<1>6. CASE EditFile
  <2>1. PICK e \in Edits : bytes' = [bytes EXCEPT ![e[1]] = e[2]]
    BY <1>6 DEF EditFile
  <2>2. e[1] \in Files /\ e[2] \in Contents
    BY FileSystemAssumption
  <2>3. UNCHANGED <<pc, tree>>
    BY <1>6 DEF EditFile
  <2>4. ASSUME NEW d \in Dirs, NEW n \in Names
        PROVE  \/ Found'[d][n] = Found[d][n]
               \/ Found[d][n] \in Contents /\ Found'[d][n] \in Contents
    <3>1. CASE tree[d][n] = e[1]
      <4>1. tree[d][n] # Null /\ bytes[e[1]] \in Contents /\ bytes'[e[1]] \in Contents
        BY <2>1, <2>2, <3>1, FileSystemAssumption DEF OutputsOK, TypeOK
      <4>2. QED
        BY <2>3, <3>1, <4>1 DEF Found
    <3>2. CASE tree[d][n] # e[1]
      <4>1. tree[d][n] # Null => bytes'[tree[d][n]] = bytes[tree[d][n]]
        BY <2>1, <2>2, <3>2 DEF TypeOK
      <4>2. QED
        BY <2>3, <4>1 DEF Found
    <3>3. QED
      BY <3>1, <3>2
  <2>5. Stands' = Stands
    BY <2>3 DEF Stands
  <2>6. Output!Edit
    BY <2>4, <2>5 DEF Output!Edit, Found, Stands
  <2>7. QED
    BY <2>6 DEF Output!Next
<1>7. QED
  BY <1>1, <1>2, <1>3, <1>4, <1>5, <1>6 DEF Next, Step, Looks, Output!Next

(* All commands implement AtomicOutput: at one instant the whole output    *)
(* appears, or nothing ever does; and none leaves a temporary file behind  *)
(* unless it crashed. *)
THEOREM OutputsAreAtomic == Spec => WritesAtomically
BY InitRefines, StepRefines, CommandInvariant, NothingLeftBehind, PTL
   DEF Spec, WritesAtomically, Output!Spec

-----------------------------------------------------------------------------
(* The directories in which experiments and their traces are exported: what *)
(* is reported of a campaign is what was run.                               *)
Plan == Plans["campaign"]
CampaignAssumptions == WellPlanned(Plan) /\ NoneIsNothing /\ Repeats \in Nat
IsSequence(s) == s \in Seq({s[i] : i \in DOMAIN s})

(* What was run, as it was requested. *)
RunsTrue(r) ==
  /\ r \in Seq(PossibleRuns \cup {None}) /\ Len(r) <= Len(Plan.trials)
  /\ \A i \in DOMAIN r : r[i] # None => r[i].run = Plan.trials[i].run /\ r[i].to = r[i].from + 2

(* A reference is of the experiment that was run for its trial, or betrays *)
(* itself: it says less time than was spent, its archive has a second      *)
(* member of the same name, or holds another run. *)
Alone(file) == file = <<file[1]>> /\ file[1].name = "experiment"
Twice(file) == Len(file) = 2 /\ DOMAIN file = 1..2 /\ file[1].name = file[2].name
ReferenceTrue(r, t, i) ==
  /\ i \in DOMAIN r /\ t.run = Plan.trials[i].run
  /\ IF Unavailable(t) THEN r[i] = None
     ELSE /\ r[i] # None /\ t.from = r[i].from
          /\ \/ t.sha = Bundle(r[i]) /\ t.to \in {r[i].to, r[i].from + 1}
             \/ Twice(t.sha)
             \/ Alone(t.sha) /\ t.sha[1].payload.run # t.run
ReferencesTrue(r, trials) ==
  IsSequence(trials) /\ \A i \in DOMAIN trials : ReferenceTrue(r, trials[i], i)
IndexTrue(r, p, index) ==
  /\ index = [plan |-> index.plan, state |-> index.state, trials |-> index.trials]
  /\ ReferencesTrue(r, index.trials)
  /\ p # None => Len(r) = Len(index.trials) + 1 /\ ReferenceTrue(r, p, Len(r))

(* As long as nothing went wrong every file is the experiment it is named  *)
(* after. *)
ExperimentFiles(r, d) ==
  \A n \in DOMAIN d \ {"plan", "index"} :
    \E j \in DOMAIN r : r[j] # None /\ n = Plan.trials[j].run /\ d[n] = Bundle(r[j])
FilesTrue(r, d, what) ==
  /\ {"plan", "index"} \subseteq DOMAIN d /\ d["plan"].terms = 1
  /\ what = None => d["plan"] = Plan /\ ExperimentFiles(r, d)

(* What the inspector has seen of it. *)
SeenTrue(r, s) ==
  /\ s = [plan |-> s.plan, index |-> s.index, names |-> s.names, kept |-> s.kept]
  /\ s.plan # None => s.plan.terms = 1
  /\ s.index # None => s.plan # None /\ ReferencesTrue(r, s.index.trials)
  /\ s.names # None => s.index # None
DirectoryTrue ==
  kind = "campaign" =>
    /\ RunsTrue(runs) /\ IndexTrue(runs, pending, files["index"])
    /\ FilesTrue(runs, files, trouble) /\ SeenTrue(runs, seen)
CampaignInv == DirectoryTrue /\ CampaignTrue

(* Facts about sequences, sets and files. *)
LEMMA SequenceShape ==
  ASSUME NEW s, IsSequence(s)
  PROVE  Len(s) \in Nat /\ DOMAIN s = 1..Len(s)
BY DEF IsSequence

LEMMA Appended ==
  ASSUME NEW s, IsSequence(s), NEW e
  PROVE  /\ IsSequence(Append(s, e)) /\ Len(Append(s, e)) = Len(s) + 1
         /\ DOMAIN Append(s, e) = 1..Len(s) + 1
         /\ \A i \in DOMAIN s : Append(s, e)[i] = s[i]
         /\ Append(s, e)[Len(s) + 1] = e
<1> DEFINE S == {s[i] : i \in DOMAIN s} \cup {e}
           t == Append(s, e)
<1>1. s \in Seq(S) /\ e \in S
  BY DEF IsSequence
<1> HIDE DEF S
<1>2. /\ t \in Seq(S) /\ Len(t) = Len(s) + 1 /\ DOMAIN t = 1..Len(s) + 1
      /\ \A i \in DOMAIN s : t[i] = s[i]
      /\ t[Len(s) + 1] = e
  BY <1>1
<1> HIDE DEF t
<1>3. IsSequence(t)
  BY <1>2 DEF IsSequence
<1> QED
  BY <1>2, <1>3 DEF t

LEMMA NoReference == IsSequence(<<>>) /\ DOMAIN <<>> = {} /\ Len(<<>>) = 0
  BY DEF IsSequence

LEMMA BundleIsAlone ==
  \A x : /\ Alone(Bundle(x)) /\ Bundle(x)[1].payload.run = x.run
         /\ \A f \in {"scenario", "assignment", "repeat", "terms", "workers", "state"} :
              Bundle(x)[1].payload[f] = x[f]
         /\ Bundle(x)[1].payload.time = x.to - x.from
  BY DEF Alone, Bundle

LEMMA TwoAreTwice ==
  \A x, y : Twice(Bundle(x) \o Bundle(y))
<1> TAKE x, y
<1> DEFINE a == Bundle(x)[1]
           b == Bundle(y)[1]
<1>1. Bundle(x) = <<a>> /\ Bundle(y) = <<b>> /\ a.name = "experiment" /\ b.name = "experiment"
  BY BundleIsAlone DEF Alone
<1> HIDE DEF a, b
<1>2. <<a>> \in Seq({a, b}) /\ <<b>> \in Seq({a, b})
  OBVIOUS
<1>3. /\ Len(<<a>> \o <<b>>) = 2 /\ DOMAIN (<<a>> \o <<b>>) = 1..2
      /\ (<<a>> \o <<b>>)[1] = a /\ (<<a>> \o <<b>>)[2] = b
  BY <1>2
<1> QED
  BY <1>1, <1>3 DEF Twice

(* The member of an archive that has one. *)
LEMMA OnlyMember ==
  ASSUME NEW file, Alone(file)
  PROVE  Member(file, "experiment") = file[1].payload
<1> DEFINE I == {i \in 1..Len(file) : file[i].name = "experiment"}
<1>1. Len(file) = 1 /\ I = {1}
  BY DEF Alone
<1>2. Max({1}) = 1
  BY DEF Max
<1>3. SelectLastInSeq(file, LAMBDA m : m.name = "experiment") = 1
  BY <1>1, <1>2 DEF SelectLastInSeq
<1> QED
  BY <1>3 DEF Member

(* An archive of two members of the same name is refused. *)
LEMMA TwiceRefused ==
  ASSUME NEW file, Twice(file)
  PROVE  ~ExperimentAccepted(file)
<1>1. {file[i].name : i \in DOMAIN file} = {file[1].name}
  BY DEF Twice
<1>2. Cardinality({file[1].name}) = 1
  BY FS_Singleton, Zenon
<1> QED
  BY <1>1, <1>2 DEF Twice, ExperimentAccepted, EachOnce, OnePerRow

LEMMA RunsShape ==
  ASSUME NEW r, RunsTrue(r), CampaignAssumptions
  PROVE  /\ Len(r) \in Nat /\ DOMAIN r = 1..Len(r) /\ Len(Plan.trials) \in Nat
         /\ \A i \in DOMAIN r : r[i] \in PossibleRuns \cup {None}
         /\ \A i \in 1..Len(Plan.trials) : Plan.trials[i] \in PlannedTrials
BY DEF RunsTrue, CampaignAssumptions, WellPlanned

(* One run more: what was true of those before stays so. *)
OneMore(r, x) ==
  /\ RunsTrue(Append(r, x)) /\ Len(Append(r, x)) = Len(r) + 1 /\ DOMAIN Append(r, x) = 1..Len(r) + 1
  /\ Append(r, x)[Len(r) + 1] = x /\ \A i \in DOMAIN r : Append(r, x)[i] = r[i]
LEMMA RunAppended ==
  ASSUME CampaignAssumptions, NEW r, RunsTrue(r), NEW x \in PossibleRuns \cup {None},
         Len(r) < Len(Plan.trials),
         x # None => x.run = Plan.trials[Len(r) + 1].run /\ x.to = x.from + 2
  PROVE  OneMore(r, x)
<1> DEFINE t == Append(r, x)
<1>1. /\ r \in Seq(PossibleRuns \cup {None}) /\ Len(r) \in Nat /\ DOMAIN r = 1..Len(r)
      /\ Len(Plan.trials) \in Nat
  BY RunsShape DEF RunsTrue
<1>2. /\ t \in Seq(PossibleRuns \cup {None}) /\ Len(t) = Len(r) + 1 /\ DOMAIN t = 1..Len(r) + 1
      /\ t[Len(r) + 1] = x /\ \A i \in DOMAIN r : t[i] = r[i]
  BY <1>1
<1> HIDE DEF t
<1>3. \A i \in DOMAIN t : t[i] # None => t[i].run = Plan.trials[i].run /\ t[i].to = t[i].from + 2
  <2> SUFFICES ASSUME NEW i \in DOMAIN t, t[i] # None
               PROVE  t[i].run = Plan.trials[i].run /\ t[i].to = t[i].from + 2
    OBVIOUS
  <2>1. CASE i \in DOMAIN r
    BY <2>1, <1>2 DEF RunsTrue
  <2>2. CASE i = Len(r) + 1
    BY <2>2, <1>2
  <2> QED
    BY <2>1, <2>2, <1>1, <1>2
<1>4. RunsTrue(t)
  BY <1>1, <1>2, <1>3 DEF RunsTrue
<1> QED
  BY <1>2, <1>4 DEF OneMore, t

LEMMA ReferenceStays ==
  ASSUME NEW r, NEW x, NEW t, NEW i, OneMore(r, x), RunsTrue(r), CampaignAssumptions, ReferenceTrue(r, t, i)
  PROVE  ReferenceTrue(Append(r, x), t, i)
<1>1. i \in DOMAIN Append(r, x) /\ Append(r, x)[i] = r[i]
  BY RunsShape DEF OneMore, ReferenceTrue
<1> QED
  BY <1>1 DEF ReferenceTrue
LEMMA ReferencesStay ==
  ASSUME NEW r, NEW x, NEW trials, OneMore(r, x), RunsTrue(r), CampaignAssumptions, ReferencesTrue(r, trials)
  PROVE  ReferencesTrue(Append(r, x), trials)
BY ReferenceStays DEF ReferencesTrue
LEMMA FilesStay ==
  ASSUME NEW r, NEW x, NEW d, OneMore(r, x), RunsTrue(r), CampaignAssumptions, ExperimentFiles(r, d)
  PROVE  ExperimentFiles(Append(r, x), d)
<1> SUFFICES ASSUME NEW n \in DOMAIN d \ {"plan", "index"}
             PROVE  \E j \in DOMAIN Append(r, x) : /\ Append(r, x)[j] # None /\ n = Plan.trials[j].run
                                                   /\ d[n] = Bundle(Append(r, x)[j])
  BY DEF ExperimentFiles
<1>1. PICK j \in DOMAIN r : r[j] # None /\ n = Plan.trials[j].run /\ d[n] = Bundle(r[j])
  BY DEF ExperimentFiles
<1>2. j \in DOMAIN Append(r, x) /\ Append(r, x)[j] = r[j]
  BY RunsShape DEF OneMore
<1> QED
  BY <1>1, <1>2
LEMMA SeenStays ==
  ASSUME NEW r, NEW x, NEW s, OneMore(r, x), RunsTrue(r), CampaignAssumptions, SeenTrue(r, s)
  PROVE  SeenTrue(Append(r, x), s)
BY ReferencesStay DEF SeenTrue

(* The clock stands where the last experiment ended, or a little later. *)
LEMMA LastOne ==
  ASSUME NEW L \in Nat, NEW T \in SUBSET (1..L), T # {}
  PROVE  \E m \in T : \A k \in T : k <= m
<1> DEFINE D == {n \in Nat : L - n \in T}
<1>1. D \in SUBSET Nat /\ D # {}
  <2>1. PICK k \in T : TRUE
    OBVIOUS
  <2>2. k \in 1..L /\ L - k \in Nat /\ L - (L - k) = k
    OBVIOUS
  <2> QED
    BY <2>1, <2>2
<1> HIDE DEF D
<1>2. PICK n \in D : \A k \in D : n <= k
  BY <1>1, LeastNumber
<1>3. L - n \in T /\ n \in Nat
  BY <1>2 DEF D
<1>4. ASSUME NEW k \in T PROVE k <= L - n
  <2>1. L - k \in Nat /\ L - (L - k) = k
    OBVIOUS
  <2>2. L - k \in D
    BY <2>1 DEF D
  <2> QED
    BY <1>2, <1>3, <2>1, <2>2
<1> QED
  BY <1>3, <1>4

LEMMA ClockIsTime ==
  ASSUME CampaignAssumptions, RunsTrue(runs)
  PROVE  Clock \in Int
<1> DEFINE ran == {i \in DOMAIN runs : runs[i] # None}
           last == CHOOSE i \in ran : \A j \in ran : j <= i
<1>1. CASE ran = {}
  BY <1>1 DEF Clock
<1>2. CASE ran # {}
  <2>1. Len(runs) \in Nat /\ ran \in SUBSET (1..Len(runs))
    BY RunsShape
  <2> HIDE DEF ran
  <2>2. \E i \in ran : \A j \in ran : j <= i
    BY <1>2, <2>1, LastOne
  <2>3. last \in ran
    BY <2>2
  <2>4. last \in Int /\ runs[last].to \in Int
    <3>1. last \in DOMAIN runs /\ runs[last] # None
      BY <2>3 DEF ran
    <3>2. runs[last] \in PossibleRuns
      BY <3>1, RunsShape
    <3> HIDE DEF last
    <3> QED
      BY <2>1, <2>3, <3>2 DEF PossibleRuns
  <2>5. Clock = runs[last].to + (last % 2)
    BY <1>2 DEF Clock, ran
  <2> HIDE DEF last
  <2> QED
    BY <2>4, <2>5
<1> QED
  BY <1>1, <1>2

(* An experiment as it was requested. *)
AsRequested(x, t) == x \in PossibleRuns /\ x.run = t.run /\ x.to = x.from + 2
LEMMA ExecutedAsRequested ==
  ASSUME NEW t \in PlannedTrials, NEW from \in Int, NEW state \in {"verified", "failed"}
  PROVE  LET x == Executed(t, from, state) IN
         /\ AsRequested(x, t) /\ x.from = from
         /\ AsRequested([x EXCEPT !.assignment = "engineering"], t)
         /\ AsRequested([x EXCEPT !.terms = 2], t) /\ AsRequested([x EXCEPT !.workers = 1], t)
<1> DEFINE x == Executed(t, from, state)
<1>1. /\ x = [run |-> t.run, scenario |-> t.scenario, assignment |-> t.assignment, repeat |-> t.repeat,
              terms |-> 1, workers |-> 2, from |-> from, to |-> from + 2, state |-> state]
      /\ {t.run, t.scenario} \subseteq STRING /\ t.assignment \in Assignments /\ t.repeat \in Nat /\ {from, from + 2} \subseteq Int
  BY DEF Executed, PlannedTrials
<1> HIDE DEF x
<1>2. x \in PossibleRuns /\ x.run = t.run /\ x.from = from /\ x.to = x.from + 2
  BY <1>1 DEF PossibleRuns
<1>3. AsRequested([x EXCEPT !.assignment = "engineering"], t)
  BY <1>2 DEF PossibleRuns, AsRequested, Assignments
<1>4. AsRequested([x EXCEPT !.terms = 2], t)
  BY <1>2 DEF PossibleRuns, AsRequested
<1>5. AsRequested([x EXCEPT !.workers = 1], t)
  BY <1>2 DEF PossibleRuns, AsRequested
<1> QED
  BY <1>2, <1>3, <1>4, <1>5 DEF x, AsRequested

(* What is asked for next is the trial after those run. *)
LEMMA NextRequested ==
  ASSUME CampaignAssumptions, RunsTrue(runs), CanRun
  PROVE  /\ Len(runs) < Len(Plan.trials) /\ Len(runs) + 1 \in 1..Len(Plan.trials)
         /\ Requested = Plan.trials[Len(runs) + 1]
         /\ Requested \in PlannedTrials
         /\ Requested.run \notin {"plan", "index"}
         /\ \A j \in DOMAIN runs : Plan.trials[j].run # Requested.run
<1>1. Len(runs) < Len(Plan.trials) /\ Len(runs) \in Nat /\ DOMAIN runs = 1..Len(runs) /\ Len(Plan.trials) \in Nat
  BY RunsShape DEF CanRun, Plan
<1>2. Requested = Plan.trials[Len(runs) + 1] /\ Requested \in PlannedTrials
  BY <1>1, RunsShape DEF Requested, Plan
<1>3. \A j \in DOMAIN runs : Plan.trials[j].run # Requested.run
  <2>1. \A i, j \in 1..Len(Plan.trials) : Plan.trials[i].run = Plan.trials[j].run => i = j
    BY DEF CampaignAssumptions, WellPlanned
  <2> QED
    BY <1>1, <1>2, <2>1
<1> QED
  BY <1>1, <1>2, <1>3 DEF PlannedTrials

(* An export: of the experiment, or one that betrays itself. *)
Betrays(file, x) == Twice(file) \/ (Alone(file) /\ file[1].payload.run # x.run)
LEMMA ExportStep ==
  ASSUME CampaignAssumptions, kind = "campaign", DirectoryTrue, Acts("campaign"), CanRun,
         NEW x, NEW file, NEW from, NEW to, AsRequested(x, Requested),
         Exports(x, file, from, to), from = x.from,
         (file = Bundle(x) /\ to \in {x.to, x.from + 1}) \/ Betrays(file, x),
         trouble' = None => trouble = None /\ file = Bundle(x)
  PROVE  DirectoryTrue'
<1> DEFINE t == Requested
           r == Append(runs, x)
           d == Put(t.run, file)
           index == files["index"]
           n == Len(runs) + 1
<1>1. /\ runs' = r /\ files' = d /\ pending' = RefOf(t, file, from, to) /\ seen' = seen /\ kind' = kind
      /\ x \in PossibleRuns /\ x.run = t.run /\ x.to = x.from + 2 /\ x # None
  BY DEF Exports, Acts, AsRequested, CampaignAssumptions, NoneIsNothing
<1>2. /\ RunsTrue(runs) /\ IndexTrue(runs, pending, index)
      /\ FilesTrue(runs, files, trouble) /\ SeenTrue(runs, seen)
  BY DEF DirectoryTrue
<1>3. /\ Len(runs) < Len(Plan.trials) /\ t = Plan.trials[n] /\ t.run \notin {"plan", "index"}
      /\ \A j \in DOMAIN runs : Plan.trials[j].run # t.run
  BY <1>2, NextRequested
<1>4. OneMore(runs, x)
  BY <1>1, <1>2, <1>3, RunAppended
<1>5. /\ DOMAIN d = DOMAIN files \cup {t.run} /\ d[t.run] = file
      /\ \A m \in DOMAIN files \ {t.run} : d[m] = files[m]
  <2> HIDE DEF t
  <2> QED
    BY DEF Put
<1>6. d["index"] = index /\ d["plan"] = files["plan"] /\ {"plan", "index"} \subseteq DOMAIN d
  BY <1>2, <1>3, <1>5 DEF FilesTrue
<1>7. Len(runs) \in Nat /\ n = Len(runs) + 1 /\ Len(r) = n /\ n \in DOMAIN r /\ r[n] = x /\ Len(index.trials) = Len(runs)
  BY <1>2, <1>4, RunsShape DEF OneMore, CanRun, Index
<1> HIDE DEF t, r, d, index, n
<1>8. ReferenceTrue(r, RefOf(t, file, from, to), n)
  <2> DEFINE ref == RefOf(t, file, from, to)
  <2>1. ref.run = t.run /\ ref.sha = file /\ ref.from = from /\ ref.to = to /\ ~Unavailable(ref)
    BY DEF RefOf, Unavailable
  <2> HIDE DEF ref
  <2>2. ReferenceTrue(r, ref, n)
    BY <2>1, <1>1, <1>3, <1>7 DEF ReferenceTrue, Betrays
  <2> QED
    BY <2>2 DEF ref
<1>9. IndexTrue(r, RefOf(t, file, from, to), index)
  <2>1. ReferencesTrue(r, index.trials)
    BY <1>2, <1>4, ReferencesStay DEF IndexTrue, r
  <2> QED
    BY <2>1, <1>2, <1>7, <1>8 DEF IndexTrue
<1>10. FilesTrue(r, d, trouble')
  <2>1. ASSUME trouble' = None PROVE d["plan"] = Plan /\ ExperimentFiles(r, d)
    <3>1. files["plan"] = Plan /\ ExperimentFiles(runs, files) /\ file = Bundle(x)
      BY <2>1, <1>2 DEF FilesTrue
    <3>2. ExperimentFiles(r, files)
      BY <3>1, <1>2, <1>4, FilesStay DEF r
    <3>3. ASSUME NEW m \in DOMAIN d \ {"plan", "index"}
          PROVE  \E j \in DOMAIN r : r[j] # None /\ m = Plan.trials[j].run /\ d[m] = Bundle(r[j])
      <4>1. CASE m = t.run
        BY <4>1, <3>1, <1>1, <1>3, <1>5, <1>7
      <4>2. CASE m # t.run
        BY <4>2, <3>2, <3>3, <1>5 DEF ExperimentFiles
      <4> QED
        BY <4>1, <4>2
    <3> QED
      BY <3>1, <3>3, <1>6 DEF ExperimentFiles
  <2> QED
    BY <2>1, <1>2, <1>6 DEF FilesTrue
<1>11. SeenTrue(r, seen)
  BY <1>2, <1>4, SeenStays DEF r
<1>12. RunsTrue(r)
  BY <1>4 DEF OneMore, r
<1> QED
  BY <1>1, <1>6, <1>9, <1>10, <1>11, <1>12 DEF DirectoryTrue, t, d

LEMMA AcquireStep ==
  ASSUME CampaignAssumptions, kind = "campaign", DirectoryTrue, Acquire
  PROVE  DirectoryTrue'
<1> DEFINE t == Requested
<1>1. Acts("campaign") /\ CanRun
  BY DEF Acquire
<1>2. RunsTrue(runs) /\ FilesTrue(runs, files, trouble)
  BY DEF DirectoryTrue
<1>3. /\ t \in PlannedTrials /\ \A j \in DOMAIN runs : Plan.trials[j].run # t.run
  BY <1>1, <1>2, NextRequested
<1>4. Clock \in Int /\ Clock - 2 \in Int
  BY <1>2, ClockIsTime
<1>5. PICK state \in {"verified", "failed"} :
       LET x == Executed(t, Clock, state)  other == [x EXCEPT !.assignment = "engineering"] IN
       \/ Exports(x, Bundle(x), x.from, x.to) /\ Well
       \/ Exports(other, Bundle(other), x.from, x.to) /\ Lone("other_assignment")
       \/ LET y == [x EXCEPT !.terms = 2] IN
          Exports(y, Bundle(y), x.from, x.to) /\ Lone("other_terms")
       \/ LET y == [x EXCEPT !.workers = 1] IN
          Exports(y, Bundle(y), x.from, x.to) /\ Lone("other_workers")
       \/ LET y == Executed(t, Clock - 2, state) IN
          Exports(y, Bundle(y), y.from, y.to) /\ Lone("overlap")
       \/ Exports(x, Bundle(x), x.from, x.from + 1) /\ Lone("too_short")
       \/ /\ Exports(x, Bundle(x) \o Bundle([x EXCEPT !.state = "verified"]), x.from, x.to)
          /\ Lone("two_members")
       \/ Has("run-1") /\ Exports(x, files["run-1"], x.from, x.to) /\ Lone("reused")
  BY DEF Acquire
<1> DEFINE x == Executed(t, Clock, state)
           y == Executed(t, Clock - 2, state)
<1>6. AsRequested(x, t) /\ AsRequested(y, t)
  BY <1>3, <1>4, ExecutedAsRequested
<1>7. /\ AsRequested([x EXCEPT !.assignment = "engineering"], t)
      /\ AsRequested([x EXCEPT !.terms = 2], t) /\ AsRequested([x EXCEPT !.workers = 1], t)
  BY <1>3, <1>4, ExecutedAsRequested
<1>8. \A z : AsRequested(x, t) =>
        /\ [x EXCEPT !.assignment = z].from = x.from /\ [x EXCEPT !.assignment = z].to = x.to
        /\ [x EXCEPT !.terms = z].from = x.from /\ [x EXCEPT !.terms = z].to = x.to
        /\ [x EXCEPT !.workers = z].from = x.from /\ [x EXCEPT !.workers = z].to = x.to
  BY DEF Executed
<1>9. \A what \in Troubles : Lone(what) => trouble = None /\ trouble' # None
  BY DEF CampaignAssumptions, NoneIsNothing, Lone
<1> HIDE DEF t, x, y
<1>10. CASE Exports(x, Bundle(x), x.from, x.to) /\ Well
  BY <1>1, <1>6, <1>10, ExportStep DEF Well, t
<1>11. CASE /\ Exports([x EXCEPT !.assignment = "engineering"],
                                Bundle([x EXCEPT !.assignment = "engineering"]), x.from, x.to)
            /\ Lone("other_assignment")
  <2> DEFINE z == [x EXCEPT !.assignment = "engineering"]
  <2>1. z.from = x.from /\ z.to = x.to /\ AsRequested(z, t)
    BY <1>6, <1>7, <1>8
  <2> HIDE DEF z
  <2>2. Exports(z, Bundle(z), x.from, x.to) /\ trouble' # None
    BY <1>11, <1>9 DEF z, Troubles
  <2> QED
    BY <1>1, <2>1, <2>2, ExportStep DEF t
<1>12. CASE /\ Exports([x EXCEPT !.terms = 2], Bundle([x EXCEPT !.terms = 2]), x.from, x.to)
            /\ Lone("other_terms")
  <2> DEFINE z == [x EXCEPT !.terms = 2]
  <2>1. z.from = x.from /\ z.to = x.to /\ AsRequested(z, t)
    BY <1>6, <1>7, <1>8
  <2> HIDE DEF z
  <2>2. Exports(z, Bundle(z), x.from, x.to) /\ trouble' # None
    BY <1>12, <1>9 DEF z, Troubles
  <2> QED
    BY <1>1, <2>1, <2>2, ExportStep DEF t
<1>13. CASE /\ Exports([x EXCEPT !.workers = 1], Bundle([x EXCEPT !.workers = 1]), x.from, x.to)
            /\ Lone("other_workers")
  <2> DEFINE z == [x EXCEPT !.workers = 1]
  <2>1. z.from = x.from /\ z.to = x.to /\ AsRequested(z, t)
    BY <1>6, <1>7, <1>8
  <2> HIDE DEF z
  <2>2. Exports(z, Bundle(z), x.from, x.to) /\ trouble' # None
    BY <1>13, <1>9 DEF z, Troubles
  <2> QED
    BY <1>1, <2>1, <2>2, ExportStep DEF t
<1>14. CASE Exports(y, Bundle(y), y.from, y.to) /\ Lone("overlap")
  <2>1. trouble' # None
    BY <1>14, <1>9 DEF Troubles
  <2> QED
    BY <1>1, <1>6, <1>14, <2>1, ExportStep DEF t
<1>15. CASE Exports(x, Bundle(x), x.from, x.from + 1) /\ Lone("too_short")
  <2>1. trouble' # None
    BY <1>15, <1>9 DEF Troubles
  <2> QED
    BY <1>1, <1>6, <1>15, <2>1, ExportStep DEF t
<1>16. CASE /\ Exports(x, Bundle(x) \o Bundle([x EXCEPT !.state = "verified"]), x.from, x.to)
            /\ Lone("two_members")
  <2> DEFINE other == [x EXCEPT !.state = "verified"]
             file == Bundle(x) \o Bundle(other)
  <2> HIDE DEF other
  <2>0. Twice(file)
    BY TwoAreTwice
  <2> HIDE DEF file
  <2>1. Betrays(file, x)
    BY <2>0 DEF Betrays
  <2>2. Exports(x, file, x.from, x.to) /\ trouble' # None
    BY <1>16, <1>9 DEF file, other, Troubles
  <2> QED
    BY <1>1, <1>6, <2>1, <2>2, ExportStep DEF t
<1>17. CASE Has("run-1") /\ Exports(x, files["run-1"], x.from, x.to) /\ Lone("reused")
  <2>1. trouble = None /\ trouble' # None
    BY <1>17, <1>9 DEF Troubles
  <2>2. "run-1" \in DOMAIN files \ {"plan", "index"} /\ ExperimentFiles(runs, files)
    BY <1>17, <1>2, <2>1 DEF FilesTrue, Has
  <2>3. PICK j \in DOMAIN runs : runs[j] # None /\ "run-1" = Plan.trials[j].run /\ files["run-1"] = Bundle(runs[j])
    BY <2>2 DEF ExperimentFiles
  <2>4. runs[j].run = Plan.trials[j].run /\ x.run = t.run
    BY <1>2, <1>6, <2>3 DEF RunsTrue, AsRequested
  <2>5. Betrays(files["run-1"], x)
    BY <1>3, <2>3, <2>4, BundleIsAlone DEF Betrays
  <2> QED
    BY <1>1, <1>6, <1>17, <2>1, <2>5, ExportStep DEF t
<1> QED
  BY <1>5, <1>10, <1>11, <1>12, <1>13, <1>14, <1>15, <1>16, <1>17 DEF x, y

LEMMA NotAcquiredStep ==
  ASSUME CampaignAssumptions, kind = "campaign", DirectoryTrue, NotAcquired
  PROVE  DirectoryTrue'
<1> DEFINE t == Requested
           r == Append(runs, None)
           index == files["index"]
           n == Len(runs) + 1
           ref == [run |-> t.run, source |-> t.source, status |-> "unavailable", reason |-> "source_unavailable",
                   file |-> None, sha |-> None, from |-> None, to |-> None]
<1>1. /\ runs' = r /\ files' = files /\ pending' = ref /\ seen' = seen /\ kind' = kind /\ trouble' = trouble
      /\ CanRun
  BY DEF NotAcquired, Acts, Well
<1>2. /\ RunsTrue(runs) /\ IndexTrue(runs, pending, index)
      /\ FilesTrue(runs, files, trouble) /\ SeenTrue(runs, seen)
  BY DEF DirectoryTrue
<1>3. Len(runs) < Len(Plan.trials) /\ t = Plan.trials[n]
  BY <1>1, <1>2, NextRequested
<1>4. OneMore(runs, None)
  BY <1>2, <1>3, RunAppended
<1>5. /\ Len(runs) \in Nat /\ n = Len(runs) + 1 /\ Len(r) = n /\ n \in DOMAIN r /\ r[n] = None
      /\ Len(index.trials) = Len(runs)
  BY <1>1, <1>2, <1>4, RunsShape DEF OneMore, CanRun, Index
<1>6. ref.run = t.run /\ Unavailable(ref)
  BY DEF Unavailable
<1> HIDE DEF t, r, index, n, ref
<1>7. ReferenceTrue(r, ref, n)
  BY <1>3, <1>5, <1>6 DEF ReferenceTrue
<1>8. ReferencesTrue(r, index.trials)
  BY <1>2, <1>4, ReferencesStay DEF IndexTrue, r
<1>9. IndexTrue(r, ref, index)
  BY <1>2, <1>5, <1>7, <1>8 DEF IndexTrue
<1>10. FilesTrue(r, files, trouble)
  BY <1>2, <1>4, FilesStay DEF FilesTrue, r
<1>11. SeenTrue(r, seen) /\ RunsTrue(r)
  BY <1>2, <1>4, SeenStays DEF OneMore, r
<1> QED
  BY <1>1, <1>9, <1>10, <1>11 DEF DirectoryTrue, index

(* What is written in the index changes no other file. *)
LEMMA IndexWritten ==
  ASSUME NEW index, files' = Put("index", index), FilesTrue(runs, files, trouble),
         trouble' = None => trouble = None
  PROVE  files'["index"] = index /\ FilesTrue(runs, files', trouble')
<1>1. /\ DOMAIN files' = DOMAIN files \cup {"index"} /\ files'["index"] = index
      /\ \A n \in DOMAIN files \ {"index"} : files'[n] = files[n]
  BY DEF Put
<1>2. {"plan", "index"} \subseteq DOMAIN files' /\ files'["plan"] = files["plan"]
  BY <1>1 DEF FilesTrue
<1>3. ExperimentFiles(runs, files) => ExperimentFiles(runs, files')
  BY <1>1 DEF ExperimentFiles
<1> QED
  BY <1>1, <1>2, <1>3 DEF FilesTrue

LEMMA RegisterStep ==
  ASSUME CampaignAssumptions, kind = "campaign", DirectoryTrue, Register
  PROVE  DirectoryTrue'
<1> DEFINE index == files["index"]
           trials == Append(index.trials, pending)
           new == [index EXCEPT !.trials = trials]
<1>1. /\ runs' = runs /\ files' = Put("index", new) /\ pending # None /\ pending' = None
      /\ seen' = seen /\ kind' = kind /\ trouble' = trouble
  BY DEF Register, Acts, Well, Index
<1>2. /\ RunsTrue(runs) /\ IndexTrue(runs, pending, index)
      /\ FilesTrue(runs, files, trouble) /\ SeenTrue(runs, seen)
  BY DEF DirectoryTrue
<1>3. files'["index"] = new /\ FilesTrue(runs, files', trouble')
  BY <1>1, <1>2, IndexWritten
<1>4. /\ IsSequence(index.trials) /\ Len(runs) = Len(index.trials) + 1 /\ ReferenceTrue(runs, pending, Len(runs))
      /\ \A i \in DOMAIN index.trials : ReferenceTrue(runs, index.trials[i], i)
      /\ index = [plan |-> index.plan, state |-> index.state, trials |-> index.trials]
  BY <1>1, <1>2 DEF IndexTrue, ReferencesTrue
<1> HIDE DEF index
<1>5. /\ IsSequence(trials) /\ DOMAIN trials = 1..Len(index.trials) + 1
      /\ \A i \in DOMAIN index.trials : trials[i] = index.trials[i]
      /\ trials[Len(index.trials) + 1] = pending
  BY <1>4, Appended
<1>6. new = [plan |-> new.plan, state |-> new.state, trials |-> new.trials] /\ new.trials = trials
  <2>1. index = [plan |-> index.plan, state |-> index.state, trials |-> index.trials]
    BY <1>4
  <2> HIDE DEF trials
  <2>2. new = [plan |-> index.plan, state |-> index.state, trials |-> trials]
    BY <2>1
  <2> HIDE DEF new
  <2> QED
    BY <2>2
<1>7. Len(index.trials) \in Nat /\ DOMAIN index.trials = 1..Len(index.trials)
  BY <1>4, SequenceShape
<1> HIDE DEF trials, new
<1>8. ASSUME NEW i \in DOMAIN trials PROVE ReferenceTrue(runs, trials[i], i)
  <2>1. CASE i \in DOMAIN index.trials
    BY <2>1, <1>4, <1>5
  <2>2. CASE i = Len(index.trials) + 1
    BY <2>2, <1>4, <1>5
  <2> QED
    BY <2>1, <2>2, <1>5, <1>7
<1>9. IndexTrue(runs, None, new)
  BY <1>5, <1>6, <1>8 DEF IndexTrue, ReferencesTrue
<1> QED
  BY <1>1, <1>2, <1>3, <1>9 DEF DirectoryTrue

LEMMA FinishStep ==
  ASSUME CampaignAssumptions, kind = "campaign", DirectoryTrue, Finish
  PROVE  DirectoryTrue'
<1> DEFINE index == files["index"]
<1>1. PICK state \in {"finished", "cancelled"} : files' = Put("index", [index EXCEPT !.state = state])
  BY DEF Finish, Index
<1>2. /\ runs' = runs /\ pending' = pending /\ seen' = seen /\ kind' = kind
      /\ trouble' = None => trouble = None
  BY DEF Finish, Acts, Well, Lone
<1> DEFINE new == [index EXCEPT !.state = state]
<1>3. /\ RunsTrue(runs) /\ IndexTrue(runs, pending, index)
      /\ FilesTrue(runs, files, trouble) /\ SeenTrue(runs, seen)
  BY DEF DirectoryTrue
<1>4. files'["index"] = new /\ FilesTrue(runs, files', trouble')
  BY <1>1, <1>2, <1>3, IndexWritten
<1>5. new = [plan |-> new.plan, state |-> new.state, trials |-> new.trials] /\ new.trials = index.trials
  BY <1>3 DEF IndexTrue
<1> HIDE DEF new, index
<1>6. IndexTrue(runs, pending, new)
  BY <1>3, <1>5 DEF IndexTrue
<1> QED
  BY <1>2, <1>3, <1>4, <1>6 DEF DirectoryTrue

(* Files exchanged behind the index: those of the plan and of the index    *)
(* still refer to what was run. *)
LEMMA Exchanged ==
  ASSUME CampaignAssumptions, kind = "campaign", DirectoryTrue, kind' = kind, seen' = seen, runs' = runs,
         pending' = pending, trouble' # None, {"plan", "index"} \subseteq DOMAIN files',
         files'["plan"].terms = 1, IndexTrue(runs, pending, files'["index"])
  PROVE  DirectoryTrue'
BY DEF DirectoryTrue, FilesTrue

LEMMA TamperedStep ==
  ASSUME CampaignAssumptions, kind = "campaign", DirectoryTrue, Tampered
  PROVE  DirectoryTrue'
<1> DEFINE index == files["index"]
           plan == files["plan"]
<1>1. runs' = runs /\ pending' = pending /\ seen' = seen /\ kind' = kind
  BY DEF Tampered, Acts
<1>2. /\ RunsTrue(runs) /\ IndexTrue(runs, pending, index)
      /\ FilesTrue(runs, files, trouble) /\ SeenTrue(runs, seen)
  BY DEF DirectoryTrue
<1>3. \A what \in Troubles : Lone(what) => trouble = None /\ trouble' # None
  BY DEF CampaignAssumptions, NoneIsNothing, Lone
<1>4. CASE \E i \in DOMAIN runs : /\ runs[i] # None /\ Has(runs[i].run) /\ Lone("rewritten")
             /\ files' = Put(runs[i].run, Bundle([runs[i] EXCEPT !.state = "verified"]))
  <2>1. PICK i \in DOMAIN runs : /\ runs[i] # None /\ Lone("rewritten")
             /\ files' = Put(runs[i].run, Bundle([runs[i] EXCEPT !.state = "verified"]))
    BY <1>4
  <2>2. runs[i].run \notin {"plan", "index"}
    <3>1. runs[i].run = Plan.trials[i].run /\ i \in 1..Len(Plan.trials)
      BY <1>2, <2>1, RunsShape DEF RunsTrue
    <3> QED
      BY <1>2, <3>1, RunsShape DEF PlannedTrials
  <2>3. /\ {"plan", "index"} \subseteq DOMAIN files' /\ files'["plan"] = plan /\ files'["index"] = index
    BY <1>2, <2>1, <2>2 DEF Put, FilesTrue
  <2>4. trouble' # None
    BY <1>3, <2>1 DEF Troubles
  <2> HIDE DEF index, plan
  <2> QED
    BY <1>1, <1>2, <2>3, <2>4, Exchanged DEF FilesTrue, plan
<1>5. CASE \E n \in DOMAIN files \ {"plan", "index"} : /\ Lone("lost")
             /\ files' = [m \in DOMAIN files \ {n} |-> files[m]]
  <2>1. /\ {"plan", "index"} \subseteq DOMAIN files' /\ files'["plan"] = plan /\ files'["index"] = index
    BY <1>2, <1>5 DEF FilesTrue
  <2>2. trouble' # None
    BY <1>3, <1>5 DEF Troubles
  <2> HIDE DEF index, plan
  <2> QED
    BY <1>1, <1>2, <2>1, <2>2, Exchanged DEF FilesTrue, plan
<1>6. CASE Lone("foreign") /\ files' = Put("foreign", <<>>)
  <2>1. /\ {"plan", "index"} \subseteq DOMAIN files' /\ files'["plan"] = plan /\ files'["index"] = index
    BY <1>2, <1>6 DEF FilesTrue, Put
  <2>2. trouble' # None
    BY <1>3, <1>6 DEF Troubles
  <2> HIDE DEF index, plan
  <2> QED
    BY <1>1, <1>2, <2>1, <2>2, Exchanged DEF FilesTrue, plan
<1>7. CASE /\ Lone("replanned")
           /\ files' = [Put("plan", Swapped(plan)) EXCEPT !["index"].plan = Swapped(plan)]
  <2> DEFINE swapped == Swapped(plan)
             d == Put("plan", swapped)
             new == [index EXCEPT !.plan = swapped]
  <2>1. trouble = None /\ trouble' # None
    BY <1>3, <1>7 DEF Troubles
  <2>2. swapped.terms = 1
    <3>1. plan = [terms |-> 1, workers |-> plan.workers, trials |-> plan.trials]
      BY <1>2, <2>1 DEF FilesTrue, CampaignAssumptions, WellPlanned
    <3> HIDE DEF plan
    <3> QED
      BY <3>1 DEF Swapped
  <2> HIDE DEF swapped
  <2>3. /\ {"plan", "index"} \subseteq DOMAIN d /\ d["plan"] = swapped /\ d["index"] = index
        /\ d = [n \in DOMAIN d |-> d[n]]
    BY <1>2 DEF Put, FilesTrue
  <2> HIDE DEF d
  <2>4. files' = [d EXCEPT !["index"] = new]
    BY <1>7, <2>3 DEF d, swapped
  <2>5. new = [plan |-> new.plan, state |-> new.state, trials |-> new.trials] /\ new.trials = index.trials
    BY <1>2 DEF IndexTrue
  <2> HIDE DEF new
  <2>6. /\ {"plan", "index"} \subseteq DOMAIN files' /\ files'["plan"] = swapped /\ files'["index"] = new
    BY <2>3, <2>4
  <2>7. IndexTrue(runs, pending, new)
    BY <1>2, <2>5 DEF IndexTrue
  <2> QED
    BY <1>1, <2>1, <2>2, <2>6, <2>7, Exchanged
<1> HIDE DEF index
<1> QED
  BY <1>4, <1>5, <1>6, <1>7 DEF Tampered

LEMMA CampaignBegins ==
  ASSUME CampaignAssumptions, CampaignInit
  PROVE  CampaignInv
<1>1. ~Accepted("campaign")
  BY DEF CampaignInit, Accepted
<1>2. ASSUME kind = "campaign" PROVE DirectoryTrue
  <2> DEFINE first == [plan |-> Plan, state |-> "running", trials |-> <<>>]
  <2>1. /\ files = [n \in {"plan", "index"} |-> IF n = "plan" THEN Plan ELSE first]
        /\ runs = <<>> /\ pending = None /\ seen = Unread
    BY <1>2 DEF CampaignInit, Plan
  <2>2. DOMAIN files = {"plan", "index"} /\ files["plan"] = Plan /\ files["index"] = first
    BY <2>1
  <2>3. first.trials = <<>> /\ first = [plan |-> first.plan, state |-> first.state, trials |-> first.trials]
    OBVIOUS
  <2> HIDE DEF first
  <2>4. RunsTrue(runs)
    <3>1. Len(Plan.trials) \in Nat
      BY DEF CampaignAssumptions, WellPlanned
    <3> QED
      BY <2>1, <3>1 DEF RunsTrue
  <2>5. IndexTrue(runs, pending, files["index"])
    BY <2>1, <2>2, <2>3, NoReference DEF IndexTrue, ReferencesTrue
  <2>6. FilesTrue(runs, files, trouble)
    <3>1. Plan.terms = 1
      BY DEF CampaignAssumptions, WellPlanned
    <3> QED
      BY <2>2, <3>1 DEF FilesTrue, ExperimentFiles
  <2>7. SeenTrue(runs, seen)
    BY <2>1 DEF SeenTrue, Unread
  <2> QED
    BY <2>4, <2>5, <2>6, <2>7 DEF DirectoryTrue
<1> QED
  BY <1>1, <1>2 DEF CampaignInv, DirectoryTrue, CampaignTrue

LEMMA InspectingStep ==
  ASSUME CampaignAssumptions, kind = "campaign", DirectoryTrue, Stays,
         ReadPlan \/ ReadIndex \/ ListDirectory \/ ReadTrial \/ seen' = seen
  PROVE  DirectoryTrue'
<1>1. /\ kind' = kind /\ files' = files /\ runs' = runs /\ pending' = pending /\ trouble' = trouble
      /\ RunsTrue(runs) /\ IndexTrue(runs, pending, files["index"])
      /\ FilesTrue(runs, files, trouble) /\ SeenTrue(runs, seen)
  BY DEF DirectoryTrue, Stays
<1>2. SeenTrue(runs, seen')
  <2>1. CASE ReadPlan
    <3> DEFINE plan == Read("plan")
    <3>1. plan.terms = 1
      BY <1>1 DEF Read, Has, FilesTrue
    <3>2. seen' = [plan |-> plan, index |-> None, names |-> None, kept |-> <<>>]
      BY <2>1 DEF ReadPlan, Unread
    <3> HIDE DEF plan
    <3> QED
      BY <3>1, <3>2 DEF SeenTrue
  <2>2. CASE ReadIndex
    <3>1. seen' = [seen EXCEPT !.index = files["index"]] /\ seen.plan # None /\ seen.index = None
      BY <2>2 DEF ReadIndex, Index, Reading
    <3>2. ReferencesTrue(runs, files["index"].trials)
      BY <1>1 DEF IndexTrue
    <3>3. /\ seen' = [plan |-> seen.plan, index |-> files["index"], names |-> seen.names, kept |-> seen.kept]
          /\ seen.names = None
      BY <1>1, <3>1 DEF SeenTrue
    <3> QED
      BY <1>1, <3>1, <3>2, <3>3 DEF SeenTrue
  <2>3. CASE ListDirectory
    <3>1. seen.index # None /\ seen' = [seen EXCEPT !.names = DOMAIN files]
      BY <2>3 DEF ListDirectory
    <3>2. seen' = [plan |-> seen.plan, index |-> seen.index, names |-> DOMAIN files, kept |-> seen.kept]
      BY <1>1, <3>1 DEF SeenTrue
    <3> QED
      BY <1>1, <3>1, <3>2 DEF SeenTrue
  <2>4. CASE ReadTrial
    <3>1. seen.names # None /\ seen' = [seen EXCEPT !.kept = seen'.kept]
      <4>1. seen = [plan |-> seen.plan, index |-> seen.index, names |-> seen.names, kept |-> seen.kept]
        BY <1>1 DEF SeenTrue
      <4> QED
        BY <2>4, <4>1 DEF ReadTrial
    <3>2. seen' = [plan |-> seen.plan, index |-> seen.index, names |-> seen.names, kept |-> seen'.kept]
      BY <1>1, <3>1 DEF SeenTrue
    <3> QED
      BY <1>1, <3>2 DEF SeenTrue
  <2> QED
    BY <1>1, <2>1, <2>2, <2>3, <2>4
<1> QED
  BY <1>1, <1>2 DEF DirectoryTrue

(* An accepted trial is the one that was run, and lasted as long as is said. *)
AsRun(r, plan, req, t, file, i) ==
  LET row == TrialRow(req, t, file) IN
  IF row.state = "unavailable" THEN Unavailable(t) /\ r[i] = None
  ELSE /\ ~Unavailable(t) /\ r[i] # None /\ r[i].terms = plan.terms
       /\ \A f \in {"run", "scenario", "assignment", "state"} : r[i][f] = row[f]
       /\ t.from = r[i].from /\ t.to = r[i].to
LEMMA AcceptedAsRun ==
  ASSUME CampaignAssumptions, NEW r, RunsTrue(r), NEW t, NEW i, ReferenceTrue(r, t, i),
         NEW plan, NEW req, NEW file, TrialAccepted(plan, req, t, file)
  PROVE  AsRun(r, plan, req, t, file, i)
<1> DEFINE row == TrialRow(req, t, file)
<1>1. CASE Unavailable(t)
  <2>1. row.state = "unavailable" /\ r[i] = None
    BY <1>1 DEF TrialRow, ReferenceTrue
  <2> HIDE DEF row
  <2> QED
    BY <1>1, <2>1 DEF AsRun, row
<1>2. CASE ~Unavailable(t)
  <2> DEFINE bundle == Member(file, "experiment")
  <2>1. /\ req.run = t.run /\ file = t.sha /\ ExperimentAccepted(file)
        /\ \A f \in {"run", "scenario", "assignment", "repeat"} : bundle[f] = req[f]
        /\ bundle.terms = plan.terms /\ bundle.time <= t.to - t.from
    BY <1>2 DEF TrialAccepted, AsPlanned
  <2>2. i \in DOMAIN r /\ r[i] # None /\ t.from = r[i].from
    BY <1>2 DEF ReferenceTrue
  <2>3. r[i] \in PossibleRuns /\ r[i].run = Plan.trials[i].run /\ t.run = r[i].run /\ r[i].to = r[i].from + 2
    BY <2>2, RunsShape DEF RunsTrue, ReferenceTrue
  <2>4. bundle.run = t.run
    BY <2>1
  <2>5. file = Bundle(r[i]) /\ t.to \in {r[i].to, r[i].from + 1}
    <3>1. ~Twice(t.sha)
      BY <2>1, TwiceRefused
    <3>2. ~(Alone(t.sha) /\ t.sha[1].payload.run # t.run)
      <4>1. SUFFICES ASSUME Alone(file) PROVE file[1].payload.run = t.run
        BY <2>1
      <4> QED
        BY <2>4, <4>1, OnlyMember
    <3> QED
      BY <1>2, <2>1, <3>1, <3>2 DEF ReferenceTrue
  <2>6. bundle = Bundle(r[i])[1].payload
    BY <2>5, BundleIsAlone, OnlyMember
  <2> HIDE DEF bundle
  <2>7. /\ bundle.scenario = r[i].scenario /\ bundle.assignment = r[i].assignment /\ bundle.terms = r[i].terms
        /\ bundle.state = r[i].state /\ bundle.time = r[i].to - r[i].from
    BY <2>6, BundleIsAlone
  <2>8. {r[i].from, r[i].to} \subseteq Int /\ r[i].state # "unavailable"
    BY <2>3 DEF PossibleRuns
  <2>9. t.to = r[i].to
    BY <2>1, <2>2, <2>3, <2>5, <2>7, <2>8
  <2>10. row = [run |-> t.run, scenario |-> req.scenario, assignment |-> req.assignment, state |-> bundle.state]
    BY <1>2 DEF TrialRow, bundle
  <2> HIDE DEF row
  <2>11. row.state # "unavailable" /\ \A f \in {"run", "scenario", "assignment", "state"} : r[i][f] = row[f]
    BY <2>1, <2>3, <2>7, <2>8, <2>10
  <2> QED
    BY <1>2, <2>1, <2>2, <2>7, <2>9, <2>11 DEF AsRun, row
<1> QED
  BY <1>1, <1>2

(* Acquisitions that are told apart one after the other are all apart.     *)
LEMMA AllApart ==
  ASSUME CampaignAssumptions, NEW r, RunsTrue(r), NEW index, IsSequence(index.trials), Apart(index),
         NEW E, E = Exported(index.trials),
         \A i \in E : /\ i \in DOMAIN r /\ r[i] # None
                      /\ index.trials[i].from = r[i].from /\ index.trials[i].to = r[i].to
  PROVE  \A i, j \in E : i < j => r[i].to <= r[j].from
<1> DEFINE L == Len(index.trials)
           Bad == {j \in E : \E i \in E : i < j /\ ~(r[i].to <= r[j].from)}
<1>1. L \in Nat /\ E \in SUBSET (1..L)
  BY SequenceShape DEF Exported
<1>2. \A i \in E : {r[i].from, r[i].to} \subseteq Int /\ r[i].to = r[i].from + 2
  <2> TAKE i \in E
  <2>1. r[i] \in PossibleRuns /\ r[i].to = r[i].from + 2
    BY RunsShape DEF RunsTrue
  <2> QED
    BY <2>1 DEF PossibleRuns
<1> HIDE DEF L
<1>3. SUFFICES ASSUME Bad # {} PROVE FALSE
  OBVIOUS
<1>4. PICK j \in Bad : \A k \in Bad : j <= k
  <2>1. Bad \in SUBSET Nat
    BY <1>1
  <2> HIDE DEF Bad
  <2> QED
    BY <1>3, <2>1, LeastNumber
<1>5. PICK i \in E : i < j /\ ~(r[i].to <= r[j].from)
  BY <1>4
<1> DEFINE T == {k \in E : k < j}
<1>6. T \in SUBSET (1..L) /\ i \in T /\ T # {}
  BY <1>1, <1>5
<1> HIDE DEF T
<1>7. PICK p \in T : \A k \in T : k <= p
  BY <1>1, <1>6, LastOne
<1>8. p \in E /\ j \in E /\ p < j /\ \A k \in E : k <= p \/ j <= k
  BY <1>1, <1>4, <1>7 DEF T
<1>9. r[p].to <= r[j].from
  <2>1. <<p, j>> \in Successive(index.trials)
    BY <1>8 DEF Successive
  <2>2. index.trials[p].to <= index.trials[j].from
    BY <2>1 DEF Apart
  <2> QED
    BY <1>8, <2>2
<1>10. CASE p = i
  BY <1>5, <1>9, <1>10
<1>11. CASE p # i
  <2>1. i < p /\ p \notin Bad
    BY <1>1, <1>4, <1>5, <1>6, <1>7, <1>8, <1>11
  <2>2. r[i].to <= r[p].from
    BY <1>5, <1>8, <2>1
  <2> QED
    BY <1>2, <1>5, <1>8, <1>9, <2>2
<1> QED
  BY <1>10, <1>11

(* What is reported of an accepted campaign. *)
RowsTrue(r, rows) ==
  \A i \in DOMAIN rows :
    IF rows[i].state # "unavailable"
    THEN /\ r[i] # None /\ r[i].terms = 1
         /\ \A f \in {"run", "scenario", "assignment", "state"} : r[i][f] = rows[i][f]
    ELSE r[i] = None
RowsApart(r, rows) ==
  \A i, j \in DOMAIN rows :
    i < j /\ rows[i].state # "unavailable" /\ rows[j].state # "unavailable" => r[i].to <= r[j].from
LEMMA AcceptedCampaign ==
  ASSUME CampaignAssumptions, NEW r, RunsTrue(r), NEW plan, plan.terms = 1, NEW index, ReferencesTrue(r, index.trials),
         NEW names, NEW kept, CampaignAccepted(plan, index, names, kept),
         NEW rows, rows = [i \in DOMAIN index.trials |-> TrialRow(plan.trials[i], index.trials[i], kept[i])]
  PROVE  /\ RowsTrue(r, rows) /\ RowsApart(r, rows)
         /\ DOMAIN rows \subseteq DOMAIN r
<1>1. \A i \in DOMAIN index.trials : AsRun(r, plan, plan.trials[i], index.trials[i], kept[i], i)
  BY AcceptedAsRun DEF CampaignAccepted, ReferencesTrue
<1>2. \A i \in DOMAIN index.trials : i \in DOMAIN r
  BY DEF ReferencesTrue, ReferenceTrue
<1>3. /\ DOMAIN rows = DOMAIN index.trials
      /\ \A i \in DOMAIN rows : rows[i] = TrialRow(plan.trials[i], index.trials[i], kept[i])
  OBVIOUS
<1>4. RowsTrue(r, rows)
  BY <1>1, <1>3 DEF RowsTrue, AsRun
<1>5. RowsApart(r, rows)
  <2> DEFINE E == Exported(index.trials)
  <2>1. \A i \in E : /\ i \in DOMAIN r /\ r[i] # None
                     /\ index.trials[i].from = r[i].from /\ index.trials[i].to = r[i].to
    <3> TAKE i \in E
    <3>1. i \in DOMAIN index.trials /\ ~Unavailable(index.trials[i])
      BY DEF Exported
    <3> QED
      BY <1>1, <1>2, <3>1 DEF AsRun
  <2>2. \A i \in DOMAIN rows : rows[i].state # "unavailable" => i \in E
    BY <1>1, <1>3 DEF AsRun, Exported
  <2>3. IsSequence(index.trials) /\ Apart(index)
    BY DEF ReferencesTrue, CampaignAccepted
  <2> HIDE DEF E
  <2>4. \A i, j \in E : i < j => r[i].to <= r[j].from
    BY <2>1, <2>3, AllApart DEF E
  <2> QED
    BY <2>2, <2>4 DEF RowsApart
<1> QED
  BY <1>2, <1>3, <1>4, <1>5

(* Verified rows are of experiments that succeeded. *)
LEMMA VerifiedSucceeded ==
  ASSUME CampaignAssumptions, RunsTrue(runs), NEW rows, RowsTrue(runs, rows), DOMAIN rows \subseteq DOMAIN runs,
         NEW s, NEW a, Cardinality(Verified(rows, s, a)) >= Repeats
  PROVE  Succeeded(s, a) >= Repeats
<1> DEFINE V == Verified(rows, s, a)
           W == {i \in DOMAIN runs : runs[i] # None /\ runs[i].scenario = s /\ runs[i].assignment = a
                                       /\ runs[i].state = "verified"}
<1>1. V \subseteq W
  <2> SUFFICES ASSUME NEW i \in V PROVE i \in W
    OBVIOUS
  <2>1. i \in DOMAIN rows /\ rows[i].scenario = s /\ rows[i].assignment = a /\ rows[i].state = "verified"
    BY DEF Verified
  <2>2. /\ runs[i] # None
        /\ \A f \in {"run", "scenario", "assignment", "state"} : runs[i][f] = rows[i][f]
    BY <2>1 DEF RowsTrue
  <2> QED
    BY <2>1, <2>2
<1>2. IsFiniteSet(W)
  <2>1. W \subseteq 1..Len(runs) /\ Len(runs) \in Nat
    BY RunsShape
  <2> HIDE DEF W
  <2>2. 1 \in Int /\ Len(runs) \in Int
    BY <2>1
  <2>3. IsFiniteSet(1..Len(runs))
    BY <2>2, FS_Interval, Zenon
  <2> QED
    BY <2>1, <2>3, FS_Subset
<1> HIDE DEF V, W
<1>3. Cardinality(V) \in Nat /\ Cardinality(W) \in Nat /\ Cardinality(V) <= Cardinality(W)
  BY <1>1, <1>2, FS_Subset, FS_CardinalityType
<1>4. Succeeded(s, a) = Cardinality(W)
  BY DEF Succeeded, W
<1> QED
  BY <1>3, <1>4 DEF V, CampaignAssumptions

LEMMA ReportStep ==
  ASSUME CampaignAssumptions, DirectoryTrue, Report
  PROVE  CampaignTrue'
<1> DEFINE rows == [i \in DOMAIN seen.index.trials |->
                      TrialRow(seen.plan.trials[i], seen.index.trials[i], seen.kept[i])]
<1>1. SUFFICES ASSUME kind = "campaign", CampaignAccepted(seen.plan, seen.index, seen.names, seen.kept)
               PROVE  CampaignTrue'
  BY DEF Report, Stays, CampaignTrue, Accepted
<1>2. /\ kind' = kind /\ runs' = runs /\ report'.rows = rows
      /\ report'.passed => CriteriaPassed(seen.index, rows)
  BY <1>1 DEF Report, Stays, CampaignReport
<1>3. RunsTrue(runs) /\ seen.plan.terms = 1 /\ ReferencesTrue(runs, seen.index.trials)
  BY <1>1 DEF DirectoryTrue, SeenTrue, Report, AllKept
<1>4. RowsTrue(runs, rows) /\ RowsApart(runs, rows) /\ DOMAIN rows \subseteq DOMAIN runs
  <2> HIDE DEF rows
  <2> QED
    BY <1>1, <1>3, AcceptedCampaign DEF rows
<1> HIDE DEF rows
<1>5. ASSUME report'.passed, NEW s \in Scenarios, NEW a \in Claimed
      PROVE  Succeeded(s, a)' >= Repeats
  <2>1. Cardinality(Verified(rows, s, a)) >= Repeats
    BY <1>2, <1>5 DEF CriteriaPassed, Repeated
  <2>2. Succeeded(s, a) >= Repeats
    BY <1>3, <1>4, <2>1, VerifiedSucceeded
  <2> QED
    BY <1>2, <2>2 DEF Succeeded
<1> QED
  BY <1>2, <1>4, <1>5 DEF CampaignTrue, RowsTrue, RowsApart

LEMMA CampaignStep ==
  ASSUME CampaignAssumptions, CampaignInv, [CampaignNext]_campaignVars
  PROVE  CampaignInv'
<1> USE DEF CampaignInv
<1>1. ASSUME Produce PROVE CampaignInv'
  <2>1. ~Accepted("campaign")' /\ kind' = kind
    BY <1>1 DEF Produce, Acquire, NotAcquired, Register, Finish,
             Tampered, RunPair, Overwritten, WriteEvidence, Acts,
             Accepted
  <2>2. ASSUME kind = "campaign" PROVE DirectoryTrue'
    <3>1. ~Acts("overhead")
      BY <2>2 DEF Acts
    <3>2. ~(RunPair \/ Overwritten \/ WriteEvidence)
      BY <3>1 DEF RunPair, Overwritten, WriteEvidence
    <3> QED
      BY <1>1, <2>2, <3>2, AcquireStep, NotAcquiredStep, RegisterStep, FinishStep, TamperedStep DEF Produce
  <2> QED
    BY <2>1, <2>2 DEF CampaignTrue, DirectoryTrue
<1>2. ASSUME Inspect PROVE CampaignInv'
  <2>1. Stays /\ kind' = kind
    BY <1>2 DEF Inspect, ReadPlan, ReadIndex, ListDirectory, ReadTrial,
             Report, Stays
  <2>2. Report => seen' = seen
    BY DEF Report
  <2>3. ASSUME kind = "campaign" PROVE DirectoryTrue'
    BY <1>2, <2>1, <2>2, <2>3, InspectingStep DEF Inspect
  <2>4. CampaignTrue'
    <3>1. CASE Report
      BY <3>1, ReportStep
    <3>2. CASE ~Report
      <4>1. UNCHANGED <<kind, runs, report>>
        BY <1>2, <2>1, <3>2 DEF Inspect, ReadPlan, ReadIndex, ListDirectory,
                          ReadTrial, Stays
      <4> QED
        BY <4>1 DEF CampaignTrue, Accepted, Succeeded
    <3> QED
      BY <3>1, <3>2
  <2> QED
    BY <2>1, <2>3, <2>4 DEF DirectoryTrue
<1>3. ASSUME UNCHANGED campaignVars PROVE CampaignInv'
  <2>1. UNCHANGED <<kind, files, runs, pending, trouble, seen, moved, report>>
    BY <1>3 DEF campaignVars
  <2>2. CampaignTrue'
    BY <2>1 DEF CampaignTrue, Accepted, Succeeded
  <2>3. DirectoryTrue'
    BY <2>1 DEF DirectoryTrue
  <2> QED
    BY <2>2, <2>3
<1> QED
  BY <1>1, <1>2, <1>3 DEF CampaignNext

LEMMA CampaignHolds == CampaignAssumptions
  BY PlansAssumption, NoneAssumption, RepeatsAssumption DEF CampaignAssumptions, Plan

(* What is reported of a campaign was run as reported, for the assignment  *)
(* it was planned for and with nothing else running; effects are claimed   *)
(* only when verified often enough: for every plan, whatever the producer  *)
(* does between the inspector's reads and whichever file is exchanged.     *)
THEOREM CampaignsAreTrue == CampaignSpec => []CampaignTrue
<1>1. CampaignInit => CampaignInv
  BY CampaignHolds, CampaignBegins
<1>2. CampaignInv /\ [CampaignNext]_campaignVars => CampaignInv'
  BY CampaignHolds, CampaignStep
<1>3. CampaignInv => CampaignTrue
  BY DEF CampaignInv
<1> QED
  BY <1>1, <1>2, <1>3, PTL DEF CampaignSpec
-----------------------------------------------------------------------------
(* Pairs of runs with and without tracing: an overhead is passed only if   *)
(* the runs were as cheap as that.                                         *)
Modes == {"disabled", "enabled"}
Measurable ==
  {x \in [pair : Nat, mode : Modes, cpu : Nat, fps : Nat, lost : Nat, traced : Nat] :
     IF x.mode = "disabled" THEN x.cpu = 10 /\ x.fps \in {26, 40}
     ELSE x.cpu \in {15, 16} /\ x.fps \in {26, 37, 38} /\ x.traced # 0}
(* The pairs so far, each slow in both of its runs or in none. *)
InPairs(r, h) ==
  /\ r \in Seq(Measurable) /\ Len(r) = 2 * h
  /\ \A i \in DOMAIN r : r[i].pair \in 1..h
  /\ \A i, j \in DOMAIN r : r[i].pair = r[j].pair /\ r[i].mode = "enabled" /\ r[j].mode = "disabled" =>
       (r[i].fps = 26 => r[j].fps = 26)
  /\ \A i, j \in DOMAIN r : r[i].pair = r[j].pair /\ r[i].mode = r[j].mode => i = j
RunsMeasured(r) == \E h \in 0..5 : InPairs(r, h)

(* A trace is that of its run, or betrays itself. *)
Spoilt(file) ==
  \E said, record : /\ file = Trace(said, record)
                    /\ \/ said # record \/ record.version # 1
                       \/ record.provenance # "producer_capture" \/ record.policy # NominalPolicy
TraceTrue(file, x) == file = Trace(Record(x), Record(x)) \/ Spoilt(file)
TracesTrue(r, d) ==
  \A i \in DOMAIN r : r[i].mode = "enabled" /\ TraceNames[r[i].pair] \in DOMAIN d =>
    TraceTrue(d[TraceNames[r[i].pair]], r[i])
MeasureTrue(t, x, i) ==
  /\ <<t.pair, t.mode>> = <<x.pair, x.mode>> /\ t.cpu = x.cpu /\ t.first = i /\ t.last = i + x.fps
  /\ t.file # None => TraceTrue(t.sha, x)
EvidenceTrue(r, e) ==
  /\ e.version = 1 /\ e.provenance = "producer_capture"
  /\ IsSequence(e.trials) /\ DOMAIN e.trials = DOMAIN r
  /\ \A i \in DOMAIN r : MeasureTrue(e.trials[i], r[i], i)
ReadTrue(r, d, s) ==
  /\ s = [plan |-> s.plan, index |-> s.index, names |-> s.names, kept |-> s.kept]
  /\ s.plan # None \/ s.index # None => "index" \in DOMAIN d
  /\ s.index # None => EvidenceTrue(r, s.index)
  /\ s.names # None => s.index # None
MeasuredTrue ==
  kind = "overhead" =>
    /\ RunsMeasured(runs) /\ ReadTrue(runs, files, seen)
    /\ IF "index" \in DOMAIN files THEN EvidenceTrue(runs, files["index"]) ELSE TracesTrue(runs, files)
OverheadInv == MeasuredTrue /\ OverheadTrue

LEMMA OrderIs ==
  /\ Len(Order) = 10
  /\ Order[1] = <<1, "disabled">> /\ Order[2] = <<1, "enabled">> /\ Order[3] = <<2, "enabled">>
  /\ Order[4] = <<2, "disabled">> /\ Order[5] = <<3, "disabled">> /\ Order[6] = <<3, "enabled">>
  /\ Order[7] = <<4, "enabled">> /\ Order[8] = <<4, "disabled">> /\ Order[9] = <<5, "disabled">>
  /\ Order[10] = <<5, "enabled">>
BY DEF Order

(* Every run of every pair has its turn. *)
LEMMA OrderOnce ==
  ASSUME NEW p \in 1..5, NEW m \in Modes
  PROVE  \E i \in 1..10 : Order[i] = <<p, m>> /\ \A j \in 1..10 : Order[j] = <<p, m>> => j = i
<1>1. ASSUME NEW i \in 1..10, Order[i] = <<p, m>>
      PROVE  \A j \in 1..10 : Order[j] = <<p, m>> => j = i
  <2> SUFFICES ASSUME NEW j \in 1..10, Order[j] = <<p, m>>, j # i PROVE FALSE
    OBVIOUS
  <2>1. i \in {1, 2, 3, 4, 5, 6, 7, 8, 9, 10} /\ j \in {1, 2, 3, 4, 5, 6, 7, 8, 9, 10}
    OBVIOUS
  <2>2. Order[i][1] = p /\ Order[j][1] = p /\ Order[i][2] = m /\ Order[j][2] = m
    BY <1>1
  <2> QED
    BY <2>1, <2>2, OrderIs
<1>2. \E i \in 1..10 : Order[i] = <<p, m>>
  <2>1. p \in {1, 2, 3, 4, 5} /\ m \in {"disabled", "enabled"}
    BY DEF Modes
  <2> QED
    BY <2>1, OrderIs
<1> QED
  BY <1>1, <1>2

LEMMA NamesDiffer ==
  \A p, q \in 1..5 : TraceNames[p] = TraceNames[q] => p = q
<1> SUFFICES ASSUME NEW p \in 1..5, NEW q \in 1..5, TraceNames[p] = TraceNames[q] PROVE p = q
  OBVIOUS
<1>1. p \in {1, 2, 3, 4, 5} /\ q \in {1, 2, 3, 4, 5}
  OBVIOUS
<1> QED
  BY <1>1 DEF TraceNames
LEMMA NamesOfTraces ==
  \A p \in 1..5 : TraceNames[p] \notin {"plan", "index"}
<1> SUFFICES ASSUME NEW p \in 1..5 PROVE TraceNames[p] \notin {"plan", "index"}
  OBVIOUS
<1>1. p \in {1, 2, 3, 4, 5}
  OBVIOUS
<1> QED
  BY <1>1 DEF TraceNames

(* Two numbers are summed. *)
LEMMA SumOfTwo ==
  ASSUME NEW a \in Int, NEW b \in Int
  PROVE  SumOf([i \in 1..2 |-> IF i = 1 THEN a ELSE b]) = a + b
<1> DEFINE v == [i \in 1..2 |-> IF i = 1 THEN a ELSE b]
<1>1. <<a>> = Append(<<>>, a) /\ <<a>> \in Seq(Int) /\ <<>> \in Seq(Int)
  OBVIOUS
<1>2. v = Append(<<a>>, b)
  OBVIOUS
<1> HIDE DEF v
<1>3. SumOf(<<a>>) = SumOf(<<>>) + a
  BY <1>1, SumOfAppend
<1>4. SumOf(v) = SumOf(<<a>>) + b
  BY <1>1, <1>2, SumOfAppend
<1> QED
  BY <1>3, <1>4, SumOfEmpty DEF v

(* Of n frames that a record traces at most n are exact. *)
LEMMA FramesCounted ==
  ASSUME NEW n \in Nat \ {0}
  PROVE  /\ CountOf(Frames(n), LAMBDA f : TRUE) = n
         /\ ExactPairs(Frames(n), {"queue", "encode"}) \in Nat
         /\ ExactPairs(Frames(n), {"queue", "encode"}) <= n
<1> DEFINE F == Frames(n)
           c == F[1].count
           d == F[2].count
           Good(f) == f.exact /\ \A b \in {"queue", "encode"} : f.enter[b] # None /\ f.exit[b] # None
                                                                  /\ f.exit[b] >= f.enter[b]
           a == IF Good(F[1]) THEN c ELSE 0
           b == IF Good(F[2]) THEN d ELSE 0
<1>1. DOMAIN F = 1..2 /\ c = n - 1 /\ d = 1
  BY DEF Frames
<1>2. CountOf(F, LAMBDA f : TRUE) = SumOf([i \in DOMAIN F |-> F[i].count])
  BY DEF CountOf
<1>3. ExactPairs(F, {"queue", "encode"}) = SumOf([i \in DOMAIN F |-> IF Good(F[i]) THEN F[i].count ELSE 0])
  BY DEF CountOf, ExactPairs
<1> HIDE DEF F, Good
<1>4. [i \in DOMAIN F |-> F[i].count] = [i \in 1..2 |-> IF i = 1 THEN c ELSE d]
  BY <1>1
<1>5. [i \in DOMAIN F |-> IF Good(F[i]) THEN F[i].count ELSE 0] = [i \in 1..2 |-> IF i = 1 THEN a ELSE b]
  BY <1>1
<1> HIDE DEF c, d
<1>6. a \in 0..n - 1 /\ b \in 0..1
  BY <1>1
<1> HIDE DEF a, b
<1>7. SumOf([i \in 1..2 |-> IF i = 1 THEN c ELSE d]) = n
  BY <1>1, SumOfTwo
<1>8. SumOf([i \in 1..2 |-> IF i = 1 THEN a ELSE b]) = a + b
  BY <1>6, SumOfTwo
<1> QED
  BY <1>2, <1>3, <1>4, <1>5, <1>6, <1>7, <1>8 DEF F

(* The two members of a trace. *)
LEMMA TraceMembers ==
  \A m, x : Member(Trace(m, x), "manifest").sha = m /\ Member(Trace(m, x), "record") = x
<1> SUFFICES ASSUME NEW m, NEW x
             PROVE  Member(Trace(m, x), "manifest").sha = m /\ Member(Trace(m, x), "record") = x
  OBVIOUS
<1> DEFINE T == Trace(m, x)
           Place1 == {i \in 1..Len(T) : T[i].name = "manifest"}
           Place2 == {i \in 1..Len(T) : T[i].name = "record"}
<1>1. /\ Len(T) = 2 /\ T[1].name = "manifest" /\ T[2].name = "record"
      /\ T[1].payload.sha = m /\ T[2].payload = x
  BY DEF Trace
<1> HIDE DEF T
<1>2. Place1 = {1} /\ Place2 = {2}
  BY <1>1
<1>3. Max({1}) = 1 /\ Max({2}) = 2
  BY DEF Max
<1>4. SelectLastInSeq(T, LAMBDA f : f.name = "manifest") = 1
  BY <1>2, <1>3 DEF SelectLastInSeq
<1>5. SelectLastInSeq(T, LAMBDA f : f.name = "record") = 2
  BY <1>2, <1>3 DEF SelectLastInSeq
<1>6. Member(T, "manifest") = T[1].payload /\ Member(T, "record") = T[2].payload
  BY <1>4, <1>5 DEF Member
<1> QED
  BY <1>1, <1>6 DEF T

(* A trace that fits the evidence is that of its run. *)
LEMMA FittingTrace ==
  ASSUME NEW file, NEW x, TraceTrue(file, x), NEW e, e.version = 1, e.provenance = "producer_capture",
         NEW t, TraceFits(e, t, file)
  PROVE  TraceOf(file) = Record(x)
<1>1. /\ TraceAccepted(file) /\ TraceOf(file).version = 1
      /\ TraceOf(file).provenance = "producer_capture" /\ TraceOf(file).policy = NominalPolicy
  BY DEF TraceFits
<1>2. Member(file, "manifest").sha = TraceOf(file)
  BY <1>1 DEF TraceAccepted, ManifestFits, TraceOf
<1>3. ~Spoilt(file)
  BY <1>1, <1>2, TraceMembers DEF Spoilt, TraceOf
<1> QED
  BY <1>3, TraceMembers DEF TraceTrue, TraceOf

(* A pair of runs more. *)
IsPair(off, on, n) ==
  /\ off \in Measurable /\ on \in Measurable /\ off.mode = "disabled" /\ on.mode = "enabled"
  /\ off.pair = n /\ on.pair = n /\ (on.fps = 26 => off.fps = 26)
Extends(s, r, a, b) ==
  /\ Len(s) = Len(r) + 2 /\ DOMAIN s = 1..Len(r) + 2 /\ \A i \in DOMAIN r : s[i] = r[i]
  /\ s[Len(r) + 1] = a /\ s[Len(r) + 2] = b
LEMMA TwoMore ==
  ASSUME NEW S, NEW r \in Seq(S), NEW a \in S, NEW b \in S
  PROVE  r \o <<a, b>> \in Seq(S) /\ Extends(r \o <<a, b>>, r, a, b)
<1> DEFINE t == <<a, b>>
           s == r \o t
<1>1. t \in Seq(S) /\ Len(t) = 2 /\ t[1] = a /\ t[2] = b /\ Len(r) \in Nat /\ DOMAIN r = 1..Len(r)
  OBVIOUS
<1> HIDE DEF t
<1>2. /\ s \in Seq(S) /\ Len(s) = Len(r) + Len(t)
      /\ \A i \in 1..Len(r) + Len(t) : s[i] = IF i <= Len(r) THEN r[i] ELSE t[i - Len(r)]
  BY <1>1, ConcatProperties
<1> HIDE DEF s
<1>3. /\ Len(s) = Len(r) + 2 /\ DOMAIN s = 1..Len(r) + 2
      /\ \A i \in 1..Len(r) + 2 : s[i] = IF i <= Len(r) THEN r[i] ELSE t[i - Len(r)]
  BY <1>1, <1>2
<1>4. Len(r) + 1 - Len(r) = 1 /\ Len(r) + 2 - Len(r) = 2
  BY <1>1
<1>5. s[Len(r) + 1] = a /\ s[Len(r) + 2] = b /\ \A i \in DOMAIN r : s[i] = r[i]
  BY <1>1, <1>3, <1>4
<1> QED
  BY <1>2, <1>3, <1>5 DEF Extends, s, t
LEMMA PairAppended ==
  ASSUME NEW h \in Nat, NEW r, InPairs(r, h), NEW off, NEW on, IsPair(off, on, h + 1),
         NEW a, NEW b, <<a, b>> = <<off, on>> \/ <<a, b>> = <<on, off>>
  PROVE  InPairs(r \o <<a, b>>, h + 1) /\ Extends(r \o <<a, b>>, r, a, b)
<1> DEFINE s == r \o <<a, b>>
<1>1. r \in Seq(Measurable) /\ Len(r) = 2 * h /\ DOMAIN r = 1..2 * h
  BY DEF InPairs
<1>2. a \in Measurable /\ b \in Measurable /\ a.pair = h + 1 /\ b.pair = h + 1 /\ a.mode # b.mode
  BY DEF IsPair
<1>3. s \in Seq(Measurable) /\ Extends(s, r, a, b)
  BY <1>1, <1>2, TwoMore
<1> HIDE DEF s
<1>4. Len(s) = 2 * h + 2 /\ DOMAIN s = 1..2 * h + 2
  BY <1>1, <1>3 DEF Extends
<1>5. \A i \in 1..2 * h : s[i] = r[i]
  BY <1>1, <1>3 DEF Extends
<1>6. s[2 * h + 1] = a /\ s[2 * h + 2] = b
  BY <1>1, <1>3 DEF Extends
<1>7. \A i \in 1..2 * h : s[i].pair \in 1..h
  BY <1>1, <1>5 DEF InPairs
<1>8. \A i \in DOMAIN s : \/ i \in 1..2 * h /\ s[i] = r[i] /\ s[i].pair \in 1..h
                          \/ i = 2 * h + 1 /\ s[i] = a
                          \/ i = 2 * h + 2 /\ s[i] = b
  <2> TAKE i \in DOMAIN s
  <2>1. i \in 1..2 * h \/ i = 2 * h + 1 \/ i = 2 * h + 2
    BY <1>4
  <2> QED
    BY <2>1, <1>5, <1>6, <1>7
<1>9. \A i \in DOMAIN s : s[i].pair \in 1..h + 1
  BY <1>2, <1>8
<1>10. ASSUME NEW i \in DOMAIN s, NEW j \in DOMAIN s, s[i].pair = s[j].pair
       PROVE  /\ s[i].mode = "enabled" /\ s[j].mode = "disabled" => (s[i].fps = 26 => s[j].fps = 26)
              /\ s[i].mode = s[j].mode => i = j
  <2>1. CASE i \in 1..2 * h /\ j \in 1..2 * h
    <3>1. s[i] = r[i] /\ s[j] = r[j] /\ i \in DOMAIN r /\ j \in DOMAIN r
      BY <1>1, <1>5, <2>1
    <3> QED
      BY <1>10, <3>1 DEF InPairs
  <2>2. CASE i \notin 1..2 * h /\ j \notin 1..2 * h
    <3>1. i \in {2 * h + 1, 2 * h + 2} /\ j \in {2 * h + 1, 2 * h + 2}
      BY <1>8, <2>2
    <3>2. off.mode = "disabled" /\ on.mode = "enabled" /\ (on.fps = 26 => off.fps = 26)
      BY DEF IsPair
    <3> QED
      BY <1>2, <1>6, <3>1, <3>2
  <2>3. CASE ~(i \in 1..2 * h <=> j \in 1..2 * h)
    BY <1>2, <1>8, <1>10, <2>3
  <2> QED
    BY <2>1, <2>2, <2>3
<1>11. InPairs(s, h + 1)
  <2>1. Len(s) = 2 * (h + 1)
    BY <1>4
  <2> QED
    BY <1>3, <1>9, <1>10, <2>1 DEF InPairs
<1> QED
  BY <1>3, <1>11 DEF s

LEMMA RunsInPairs ==
  ASSUME NEW r, RunsMeasured(r)
  PROVE  \E h \in 0..5 : /\ InPairs(r, h) /\ Len(r) = 2 * h /\ Len(r) \div 2 + 1 = h + 1
                         /\ DOMAIN r = 1..2 * h
<1>1. PICK h \in 0..5 : InPairs(r, h)
  BY DEF RunsMeasured
<1>2. Len(r) = 2 * h /\ DOMAIN r = 1..2 * h
  BY <1>1 DEF InPairs
<1> QED
  BY <1>1, <1>2

(* What a pair of runs is, and what is exported of it. *)
Slowed(on) == [on EXCEPT !.fps = 26]
LEMMA OnIs ==
  ASSUME NEW effect \in {"none", "costly", "slow"}, NEW lost \in {0, 1}, NEW traced \in Nat \ {0},
         PairNow \in Nat
  PROVE  /\ IsPair(Off(40), On(effect, lost, traced), PairNow)
         /\ IsPair(Off(26), Slowed(On(effect, lost, traced)), PairNow)
         /\ Record(Slowed(On(effect, lost, traced))) = Record(On(effect, lost, traced))
<1> DEFINE on == On(effect, lost, traced)
           slow == Slowed(on)
<1>1. /\ on = [pair |-> PairNow, mode |-> "enabled", cpu |-> on.cpu, fps |-> on.fps, lost |-> lost, traced |-> traced]
      /\ on.cpu \in {15, 16} /\ on.fps \in {37, 38}
  BY DEF On, Costs, Shown
<1>3. Off(40) \in Measurable /\ Off(26) \in Measurable
  BY DEF Off, Measurable, Modes
<1> HIDE DEF on
<1>4. slow = [pair |-> PairNow, mode |-> "enabled", cpu |-> on.cpu, fps |-> 26, lost |-> lost, traced |-> traced]
  BY <1>1 DEF Slowed
<1> HIDE DEF slow
<1>5. on \in Measurable /\ slow \in Measurable
  BY <1>1, <1>4 DEF Measurable, Modes
<1>6. Record(slow) = Record(on)
  BY <1>1, <1>4 DEF Record
<1>7. IsPair(Off(40), on, PairNow) /\ IsPair(Off(26), slow, PairNow)
  BY <1>1, <1>3, <1>4, <1>5 DEF IsPair, Off
<1> QED
  BY <1>6, <1>7 DEF on, slow

(* A trace of another version, provenance or policy betrays itself. *)
LEMMA TracesOf ==
  ASSUME NEW x
  PROVE  /\ TraceTrue(Trace(Record(x), Record(x)), x)
         /\ \A y, z : z \in {Rare(Record(x)), Brief(Record(x)), Acted(Record(x)), Old(Record(x))} =>
              TraceTrue(Trace(z, z), y)
<1> DEFINE R == Record(x)
<1>1. /\ R = [schema |-> 1, version |-> 1, provenance |-> "producer_capture", policy |-> NominalPolicy,
              drops |-> x.lost, frames |-> R.frames]
      /\ R.policy = NominalPolicy
  BY DEF Record
<1> HIDE DEF R
<1>2. Rare(R).policy = [NominalPolicy EXCEPT !.nth = 2] /\ Brief(R).policy = [NominalPolicy EXCEPT !.frames = 1000]
  BY <1>1 DEF Rare, Brief
<1>3. [NominalPolicy EXCEPT !.nth = 2] # NominalPolicy /\ [NominalPolicy EXCEPT !.frames = 1000] # NominalPolicy
  <2> DEFINE rare == [NominalPolicy EXCEPT !.nth = 2]
             brief == [NominalPolicy EXCEPT !.frames = 1000]
  <2>1. rare.nth = 2 /\ NominalPolicy.nth = 1
    BY DEF NominalPolicy
  <2>2. brief.frames = 1000 /\ NominalPolicy.frames = 2000
    BY DEF NominalPolicy
  <2> HIDE DEF rare, brief
  <2>3. rare # NominalPolicy /\ brief # NominalPolicy
    BY <2>1, <2>2
  <2> QED
    BY <2>3 DEF rare, brief
<1>4. Acted(R).provenance = "synthetic" /\ Old(R).version = 2
  BY <1>1 DEF Acted, Old
<1>5. \A z : z.version = 2 \/ z.provenance = "synthetic" \/ z.policy # NominalPolicy => Spoilt(Trace(z, z))
  <2> SUFFICES ASSUME NEW z, z.version = 2 \/ z.provenance = "synthetic" \/ z.policy # NominalPolicy
               PROVE  \E said, record : /\ Trace(z, z) = Trace(said, record)
                                        /\ \/ said # record \/ record.version # 1
                                           \/ record.provenance # "producer_capture" \/ record.policy # NominalPolicy
    BY DEF Spoilt
  <2>1. z.version # 1 \/ z.provenance # "producer_capture" \/ z.policy # NominalPolicy
    OBVIOUS
  <2> QED
    BY <2>1, Zenon
<1>6. \A z : z \in {Rare(R), Brief(R), Acted(R), Old(R)} => Spoilt(Trace(z, z))
  BY <1>2, <1>3, <1>4, <1>5
<1> QED
  BY <1>6 DEF TraceTrue, R
LEMMA Whitewashed ==
  ASSUME NEW x, NEW y, x.lost # y.lost
  PROVE  \A z : TraceTrue(Trace(Record(x), Record(y)), z)
<1>1. Record(x).drops # Record(y).drops
  BY DEF Record
<1> QED
  BY <1>1 DEF TraceTrue, Spoilt

LEMMA TurnsOf ==
  \A x, y : /\ InTurn(x, y) \in {<<x, y>>, <<y, x>>}
            /\ <<InTurn(x, y)[2], InTurn(x, y)[1]>> \in {<<x, y>>, <<y, x>>}
BY DEF InTurn

(* What a pair of runs leaves behind. *)
PairLeft(off, on, file, a, b) ==
  /\ IsPair(off, on, PairNow) /\ <<a, b>> \in {<<off, on>>, <<on, off>>} /\ TraceTrue(file, on)
  /\ Measures(<<a, b>>, file)
LEMMA PairRun ==
  ASSUME RunPair, PairNow \in Nat
  PROVE  \E off, on, file, a, b : PairLeft(off, on, file, a, b)
<1> DEFINE Left(off, on, file, pair) ==
             /\ IsPair(off, on, PairNow) /\ pair \in {<<off, on>>, <<on, off>>} /\ TraceTrue(file, on)
             /\ Measures(pair, file)
<1>1. SUFFICES \E off, on, file, pair : Left(off, on, file, pair)
  <2>1. PICK off, on, file, pair : Left(off, on, file, pair)
    BY <1>1
  <2>2. PICK a, b : pair = <<a, b>>
    BY <2>1
  <2>3. PairLeft(off, on, file, a, b)
    BY <2>1, <2>2 DEF PairLeft
  <2> QED
    BY <2>3
<1> SUFFICES ASSUME \A off, on, file, pair : ~Left(off, on, file, pair) PROVE FALSE
  OBVIOUS
<1> DEFINE on(e) == On(e, 0, Shown(e))
           cut(e) == On(e, 0, 30)
           lossy(e) == On(e, 1, Shown(e))
           slow(e) == Slowed(on(e))
           record(e) == Record(on(e))
           file(e) == Trace(record(e), record(e))
           rare(e) == Rare(record(e))
           brief(e) == Brief(record(e))
           acted(e) == Acted(record(e))
           old(e) == Old(record(e))
           pair(e) == InTurn(Off(40), on(e))
<1>2. PICK e \in {"none", "costly", "slow"} :
        \/ Measures(pair(e), file(e))
        \/ Measures(<<pair(e)[2], pair(e)[1]>>, file(e))
        \/ Measures(InTurn(Off(26), slow(e)), file(e))
        \/ Measures(InTurn(Off(40), cut(e)), Trace(Record(cut(e)), Record(cut(e))))
        \/ Measures(InTurn(Off(40), lossy(e)), Trace(Record(lossy(e)), Record(lossy(e))))
        \/ Measures(InTurn(Off(40), lossy(e)), Trace(Record(lossy(e)), record(e)))
        \/ Measures(InTurn(Off(40), cut(e)), Trace(rare(e), rare(e)))
        \/ Measures(InTurn(Off(40), cut(e)), Trace(brief(e), brief(e)))
        \/ Measures(pair(e), Trace(acted(e), acted(e)))
        \/ Measures(pair(e), Trace(old(e), old(e)))
  BY DEF RunPair, Slowed
<1>3. Shown(e) \in Nat \ {0} /\ 30 \in Nat \ {0}
  BY DEF Shown
<1>4. /\ IsPair(Off(40), on(e), PairNow) /\ IsPair(Off(26), slow(e), PairNow) /\ Record(slow(e)) = record(e)
      /\ IsPair(Off(40), lossy(e), PairNow) /\ IsPair(Off(40), cut(e), PairNow)
  <2> 26 \in {26, 40} /\ 0 \in {0, 1} /\ 1 \in {0, 1}
    OBVIOUS
  <2>1. /\ IsPair(Off(40), on(e), PairNow) /\ IsPair(Off(26), slow(e), PairNow) /\ Record(slow(e)) = record(e)
    BY <1>3, OnIs
  <2>2. IsPair(Off(40), lossy(e), PairNow)
    BY <1>3, OnIs
  <2>3. IsPair(Off(40), cut(e), PairNow)
    BY <1>3, OnIs
  <2> QED
    BY <2>1, <2>2, <2>3
<1>5. on(e).lost = 0 /\ lossy(e).lost = 1
  BY DEF On
<1>6. /\ TraceTrue(file(e), on(e)) /\ TraceTrue(file(e), slow(e))
      /\ TraceTrue(Trace(Record(cut(e)), Record(cut(e))), cut(e))
      /\ TraceTrue(Trace(Record(lossy(e)), Record(lossy(e))), lossy(e))
      /\ TraceTrue(Trace(rare(e), rare(e)), cut(e)) /\ TraceTrue(Trace(brief(e), brief(e)), cut(e))
      /\ TraceTrue(Trace(acted(e), acted(e)), on(e)) /\ TraceTrue(Trace(old(e), old(e)), on(e))
  BY <1>4, TracesOf
<1>7. TraceTrue(Trace(Record(lossy(e)), record(e)), lossy(e))
  BY <1>5, Whitewashed
<1> HIDE DEF on, cut, lossy, slow, record, rare, brief, acted, old
<1> QED
  BY <1>2, <1>4, <1>6, <1>7, TurnsOf

LEMMA RunPairStep ==
  ASSUME MeasuredTrue, kind = "overhead", RunPair
  PROVE  MeasuredTrue'
<1>1. /\ RunsMeasured(runs) /\ ReadTrue(runs, files, seen) /\ "index" \notin DOMAIN files
      /\ TracesTrue(runs, files) /\ Len(runs) < Len(Order) /\ kind' = kind /\ seen' = seen
  BY DEF MeasuredTrue, RunPair, Has, Acts
<1>2. PICK h \in 0..5 : InPairs(runs, h) /\ Len(runs) = 2 * h /\ Len(runs) \div 2 + 1 = h + 1 /\ DOMAIN runs = 1..2 * h
  BY <1>1, RunsInPairs
<1>3. PairNow = h + 1 /\ h + 1 \in 1..5 /\ h \in Nat
  BY <1>1, <1>2, OrderIs DEF PairNow
<1>4. PICK off, on, file, a, b : PairLeft(off, on, file, a, b)
  BY <1>3, PairRun
<1> DEFINE r == runs \o <<a, b>>
           name == TraceNames[h + 1]
<1>5. runs' = r /\ files' = Put(name, file)
  BY <1>3, <1>4 DEF PairLeft, Measures
<1>6. InPairs(r, h + 1) /\ Extends(r, runs, a, b) /\ <<a, b>> \in {<<off, on>>, <<on, off>>}
  <2>1. IsPair(off, on, h + 1) /\ (<<a, b>> = <<off, on>> \/ <<a, b>> = <<on, off>>)
    BY <1>3, <1>4 DEF PairLeft
  <2> QED
    BY <1>2, <1>3, <2>1, PairAppended
<1>7. DOMAIN files' = DOMAIN files \cup {name} /\ files'[name] = file
      /\ \A n \in DOMAIN files \ {name} : files'[n] = files[n]
  BY <1>5 DEF Put
<1>8. "index" \notin DOMAIN files'
  BY <1>1, <1>3, <1>7, NamesOfTraces
<1> HIDE DEF r
<1>9. TracesTrue(r, files')
  <2> SUFFICES ASSUME NEW i \in DOMAIN r, r[i].mode = "enabled", TraceNames[r[i].pair] \in DOMAIN files'
               PROVE  TraceTrue(files'[TraceNames[r[i].pair]], r[i])
    BY DEF TracesTrue
  <2>1. CASE i \in DOMAIN runs
    <3>1. r[i] = runs[i] /\ runs[i].pair \in 1..h
      BY <1>2, <1>6, <2>1 DEF Extends, InPairs
    <3>2. TraceNames[runs[i].pair] # name
      <4>1. runs[i].pair \in 1..5 /\ runs[i].pair # h + 1
        BY <1>3, <3>1
      <4> QED
        BY <1>3, <4>1, NamesDiffer
    <3> QED
      BY <1>1, <1>7, <2>1, <3>1, <3>2 DEF TracesTrue
  <2>2. CASE i \notin DOMAIN runs
    <3>1. r[i] \in {a, b}
      BY <1>2, <1>6, <2>2 DEF Extends
    <3>2. r[i] = on /\ on.pair = h + 1 /\ TraceTrue(file, on)
      BY <1>3, <1>4, <1>6, <3>1 DEF PairLeft, IsPair
    <3> QED
      BY <1>7, <3>2
  <2> QED
    BY <2>1, <2>2
<1>10. RunsMeasured(r) /\ ReadTrue(r, files', seen)
  BY <1>1, <1>3, <1>6 DEF RunsMeasured, ReadTrue
<1> QED
  BY <1>1, <1>5, <1>8, <1>9, <1>10 DEF MeasuredTrue

LEMMA OverwrittenStep ==
  ASSUME MeasuredTrue, kind = "overhead", Overwritten
  PROVE  MeasuredTrue'
<1>1. /\ kind' = kind /\ seen' = seen /\ runs' = runs /\ "index" \in DOMAIN files
      /\ files' = Put("pair-1", files["pair-2"])
  BY DEF Overwritten, Acts, Has
<1>2. "index" \in DOMAIN files' /\ files'["index"] = files["index"] /\ "index" \in DOMAIN files'
  BY <1>1 DEF Put
<1> QED
  BY <1>1, <1>2 DEF MeasuredTrue, ReadTrue

LEMMA WriteEvidenceStep ==
  ASSUME MeasuredTrue, kind = "overhead", WriteEvidence
  PROVE  MeasuredTrue'
<1>1. /\ kind' = kind /\ seen' = seen /\ runs' = runs /\ "index" \notin DOMAIN files
      /\ RunsMeasured(runs) /\ ReadTrue(runs, files, seen) /\ TracesTrue(runs, files)
  BY DEF WriteEvidence, Acts, Has, MeasuredTrue
<1>2. PICK state, reason, cleaned, runtime, diagnostic :
        files' = Put("index", Evidence(state, reason, cleaned, runtime, diagnostic))
  BY DEF WriteEvidence, Completed
<1> DEFINE e == Evidence(state, reason, cleaned, runtime, diagnostic)
<1>3. e.version = 1 /\ e.provenance = "producer_capture" /\ e.trials = [i \in DOMAIN runs |-> MeasureOf(i)]
  BY DEF Evidence
<1> HIDE DEF e
<1>4. "index" \in DOMAIN files' /\ files'["index"] = e
  BY <1>2 DEF Put, e
<1>5. \A i \in DOMAIN runs : MeasureTrue(MeasureOf(i), runs[i], i)
  <2> TAKE i \in DOMAIN runs
  <2> DEFINE traced == runs[i].mode = "enabled" /\ Has(TraceNames[runs[i].pair])
             t == MeasureOf(i)
  <2>1. /\ t.pair = runs[i].pair /\ t.mode = runs[i].mode /\ t.cpu = runs[i].cpu /\ t.first = i
        /\ t.last = i + runs[i].fps /\ t.file = (IF traced THEN TraceNames[runs[i].pair] ELSE None)
        /\ t.sha = (IF traced THEN files[TraceNames[runs[i].pair]] ELSE None)
    BY DEF MeasureOf
  <2> HIDE DEF t
  <2>2. t.file # None => TraceTrue(t.sha, runs[i])
    BY <1>1, <2>1 DEF TracesTrue, Has
  <2> QED
    BY <2>1, <2>2 DEF MeasureTrue, t
<1>6. IsSequence(e.trials) /\ DOMAIN e.trials = DOMAIN runs
  <2>1. PICK h \in 0..5 : DOMAIN runs = 1..2 * h
    BY <1>1, RunsInPairs
  <2> DEFINE n == 2 * h
             f == e.trials
             S == {f[i] : i \in DOMAIN f}
  <2>2. n \in Nat
    OBVIOUS
  <2>3. f = [i \in 1..n |-> MeasureOf(i)]
    BY <1>3, <2>1
  <2> HIDE DEF n, f
  <2>4. DOMAIN f = 1..n /\ f \in [1..n -> S]
    BY <2>3
  <2> HIDE DEF S
  <2>5. f \in Seq(S)
    BY <2>2, <2>4
  <2> QED
    BY <2>1, <2>4, <2>5 DEF IsSequence, f, n, S
<1>7. EvidenceTrue(runs, e)
  BY <1>3, <1>5, <1>6 DEF EvidenceTrue
<1>8. ReadTrue(runs, files', seen)
  BY <1>1, <1>4 DEF ReadTrue
<1> QED
  BY <1>1, <1>4, <1>7, <1>8 DEF MeasuredTrue

(* What is read of it. *)
LEMMA ReadingStep ==
  ASSUME MeasuredTrue, kind = "overhead", Stays, ReadPlan \/ ReadIndex \/ ListDirectory \/ ReadTrial \/ seen' = seen
  PROVE  MeasuredTrue'
<1>1. /\ kind' = kind /\ files' = files /\ runs' = runs /\ ReadTrue(runs, files, seen)
      /\ "index" \in DOMAIN files => EvidenceTrue(runs, files["index"])
  BY DEF MeasuredTrue, Stays
<1>2. ReadTrue(runs, files, seen')
  <2>1. CASE ReadPlan
    <3> DEFINE plan == Read("plan")
    <3>1. seen' = [plan |-> plan, index |-> None, names |-> None, kept |-> <<>>] /\ "index" \in DOMAIN files
      BY <2>1 DEF ReadPlan, Unread, Has
    <3> HIDE DEF plan
    <3> QED
      BY <3>1 DEF ReadTrue
  <2>2. CASE ReadIndex
    <3>1. seen' = [seen EXCEPT !.index = files["index"]] /\ seen.plan # None /\ seen.index = None
      BY <2>2 DEF ReadIndex, Index, Reading
    <3>2. /\ seen' = [plan |-> seen.plan, index |-> files["index"], names |-> seen.names, kept |-> seen.kept]
          /\ seen.names = None
      BY <1>1, <3>1 DEF ReadTrue
    <3> QED
      BY <1>1, <3>1, <3>2 DEF ReadTrue
  <2>3. CASE ListDirectory
    <3>1. seen.index # None /\ seen' = [seen EXCEPT !.names = DOMAIN files]
      BY <2>3 DEF ListDirectory
    <3>2. seen' = [plan |-> seen.plan, index |-> seen.index, names |-> DOMAIN files, kept |-> seen.kept]
      BY <1>1, <3>1 DEF ReadTrue
    <3> QED
      BY <1>1, <3>1, <3>2 DEF ReadTrue
  <2>4. CASE ReadTrial
    <3>1. seen = [plan |-> seen.plan, index |-> seen.index, names |-> seen.names, kept |-> seen.kept]
      BY <1>1 DEF ReadTrue
    <3>2. seen' = [seen EXCEPT !.kept = seen'.kept]
      BY <2>4, <3>1 DEF ReadTrial
    <3>3. seen' = [plan |-> seen.plan, index |-> seen.index, names |-> seen.names, kept |-> seen'.kept]
      BY <3>1, <3>2
    <3> QED
      BY <1>1, <3>3 DEF ReadTrue
  <2> QED
    BY <1>1, <2>1, <2>2, <2>3, <2>4
<1> QED
  BY <1>1, <1>2 DEF MeasuredTrue

(* The two runs of a pair, and what the evidence says of them. *)
LEMMA PairInOrder ==
  ASSUME NEW e, EvidenceTrue(runs, e), RunsMeasured(runs), AsDeclared(e), Len(e.trials) = 10, NEW p \in 1..5, NEW m \in Modes
  PROVE  \E i \in 1..10 : /\ i \in DOMAIN runs /\ runs[i] \in Measurable /\ Pair(p, m) = runs[i] /\ RowOf(e, p, m) = e.trials[i]
                          /\ MeasureTrue(e.trials[i], runs[i], i) /\ runs[i].pair = p /\ runs[i].mode = m
<1>1. DOMAIN e.trials = 1..10 /\ DOMAIN runs = 1..10 /\ \A i \in 1..10 : runs[i] \in Measurable
  <2>1. DOMAIN e.trials = 1..10
    <3> DEFINE t == e.trials
    <3>1. IsSequence(t) /\ Len(t) = 10
      BY DEF EvidenceTrue
    <3> HIDE DEF t
    <3>2. DOMAIN t = 1..Len(t)
      BY <3>1, SequenceShape
    <3> QED
      BY <3>1, <3>2 DEF t
  <2>2. PICK h \in 0..5 : InPairs(runs, h)
    BY DEF RunsMeasured
  <2>3. DOMAIN runs = 1..10
    BY <2>1 DEF EvidenceTrue
  <2>4. \A i \in DOMAIN runs : runs[i] \in Measurable
    <3>1. runs \in Seq(Measurable)
      BY <2>2 DEF InPairs
    <3> QED
      BY <3>1
  <2> QED
    BY <2>1, <2>3, <2>4
<1>2. \A i \in 1..10 : /\ e.trials[i].pair = runs[i].pair /\ e.trials[i].mode = runs[i].mode
                       /\ <<runs[i].pair, runs[i].mode>> = Order[i] /\ MeasureTrue(e.trials[i], runs[i], i)
  BY <1>1 DEF AsDeclared, EvidenceTrue, MeasureTrue
<1>3. PICK i \in 1..10 : Order[i] = <<p, m>> /\ \A j \in 1..10 : Order[j] = <<p, m>> => j = i
  BY OrderOnce
<1>4. {j \in DOMAIN e.trials : <<e.trials[j].pair, e.trials[j].mode>> = <<p, m>>} = {i}
  BY <1>1, <1>2, <1>3
<1>5. RowOf(e, p, m) = e.trials[i]
  <2>1. Max({i}) = i
    BY DEF Max
  <2> QED
    BY <1>4, <2>1 DEF RowOf
<1>6. /\ runs[i].pair = p /\ runs[i].mode = m
      /\ \A j \in DOMAIN runs : runs[j].pair = p /\ runs[j].mode = m => j = i
  BY <1>1, <1>2, <1>3
<1>7. Pair(p, m) = runs[i]
  BY <1>1, <1>6 DEF Pair
<1> QED
  BY <1>1, <1>2, <1>5, <1>6, <1>7

(* All five pairs are there, in their order. *)
LEMMA FivePairs ==
  ASSUME NEW e, Len(PairsOf(e)) = 5
  PROVE  /\ DOMAIN PairsOf(e) = 1..5
         /\ \A p \in 1..5 : PairsOf(e)[p] = [off |-> RowOf(e, p, "disabled"), on |-> RowOf(e, p, "enabled")]
<1> DEFINE all == [p \in 1..5 |-> [off |-> RowOf(e, p, "disabled"), on |-> RowOf(e, p, "enabled")]]
           P == {p \in 1..5 : all[p].off # None /\ all[p].on # None}
           S == {all[p] : p \in 1..5}
<1>1. PairsOf(e) = Kept(all, P)
  BY DEF PairsOf
<1>2. all \in [1..5 -> S] /\ \A p \in 1..5 : all[p] = [off |-> RowOf(e, p, "disabled"), on |-> RowOf(e, p, "enabled")]
  OBVIOUS
<1>3. P \in SUBSET (1..5)
  OBVIOUS
<1> HIDE DEF all, P, S
<1>4. all \in Seq(S) /\ P \in SUBSET DOMAIN all
  <2> DEFINE n == 5
  <2>1. n \in Nat /\ all \in [1..n -> S]
    BY <1>2
  <2>2. DOMAIN all = 1..5
    BY <1>2
  <2> HIDE DEF n
  <2>3. all \in Seq(S)
    BY <2>1
  <2> QED
    BY <1>3, <2>2, <2>3
<1>5. /\ Kept(all, P) \in Seq(S) /\ Len(Kept(all, P)) = Cardinality(P)
      /\ \A i \in 1..Cardinality(P) : Place(P, i) \in P /\ Kept(all, P)[i] = all[Place(P, i)]
      /\ \A i, j \in 1..Cardinality(P) : i < j => Place(P, i) < Place(P, j)
  BY <1>4, KeptInOrder
<1>6. Cardinality(P) = 5 /\ DOMAIN Kept(all, P) = 1..5
  <2> DEFINE K == Kept(all, P)
  <2>1. K \in Seq(S) /\ Len(K) = 5
    BY <1>1, <1>5
  <2> HIDE DEF K
  <2>2. DOMAIN K = 1..5
    BY <2>1
  <2> QED
    BY <1>5, <2>1, <2>2 DEF K
<1>7. \A i \in 1..5 : Place(P, i) = i
  <2>0. /\ \A i \in 1..5 : Place(P, i) \in 1..5
        /\ \A i, j \in 1..5 : i < j => Place(P, i) < Place(P, j)
    BY <1>3, <1>5, <1>6
  <2>1. /\ Place(P, 1) \in 1..5 /\ Place(P, 2) \in 1..5 /\ Place(P, 3) \in 1..5 /\ Place(P, 4) \in 1..5 /\ Place(P, 5) \in 1..5
    BY <2>0
  <2>2. Place(P, 1) < Place(P, 2) /\ Place(P, 2) < Place(P, 3) /\ Place(P, 3) < Place(P, 4) /\ Place(P, 4) < Place(P, 5)
    BY <2>0
  <2>3. Place(P, 1) = 1 /\ Place(P, 2) = 2 /\ Place(P, 3) = 3 /\ Place(P, 4) = 4 /\ Place(P, 5) = 5
    BY <2>1, <2>2
  <2>4. \A i \in 1..5 : i \in {1, 2, 3, 4, 5}
    OBVIOUS
  <2> QED
    BY <2>3, <2>4
<1> QED
  BY <1>1, <1>2, <1>5, <1>6, <1>7

(* Of five rows of two kinds the middle one is of the kind of three.       *)
LEMMA FewOfFive ==
  ASSUME NEW C \in SUBSET (1..5)
  PROVE  /\ Cardinality(C) \in Nat /\ Cardinality((1..5) \ C) = 5 - Cardinality(C)
         /\ C # {} => Cardinality(C) >= 1
<1> DEFINE D == 1..5
           E == D \ C
<1>1. IsFiniteSet(D) /\ Cardinality(D) = 5
  <2>1. 1 \in Int /\ 5 \in Int
    OBVIOUS
  <2>2. IsFiniteSet(1..5) /\ Cardinality(1..5) = IF 1 > 5 THEN 0 ELSE 5 - 1 + 1
    BY <2>1, FS_Interval, Zenon
  <2> QED
    BY <2>2
<1>2. C \subseteq D /\ D \cap C = C
  OBVIOUS
<1> HIDE DEF D
<1>3. IsFiniteSet(C) /\ Cardinality(C) \in Nat
  BY <1>1, <1>2, FS_Subset, FS_CardinalityType
<1>4. Cardinality(D \ C) = Cardinality(D) - Cardinality(D \cap C)
  BY <1>1, <1>3, FS_Difference
<1>5. C # {} => Cardinality(C) # 0
  BY <1>3, FS_EmptySet
<1> QED
  BY <1>1, <1>2, <1>3, <1>4, <1>5 DEF D

LEMMA KindOfThree ==
  ASSUME NEW C \in SUBSET (1..5)
  PROVE  \E q \in 1..5 : q \in C <=> Cardinality(C) >= 3
<1> DEFINE D == (1..5) \ C
<1>1. Cardinality(C) \in Nat /\ Cardinality(D) = 5 - Cardinality(C) /\ Cardinality({}) = 0
  <2>1. Cardinality({}) = 0
    BY FS_EmptySet, Zenon
  <2> QED
    BY <2>1, FewOfFive
<1>2. CASE Cardinality(C) >= 3
  <2>1. C # {}
    BY <1>1, <1>2
  <2> QED
    BY <1>2, <2>1
<1>3. CASE ~(Cardinality(C) >= 3)
  <2>1. C # 1..5
    <3> SUFFICES ASSUME C = 1..5 PROVE FALSE
      OBVIOUS
    <3>1. Cardinality(D) = 0
      BY <1>1
    <3> DEFINE c == Cardinality(C)
    <3>2. c \in Nat /\ 0 = 5 - c /\ ~(c >= 3)
      BY <1>1, <1>3, <3>1
    <3> HIDE DEF c
    <3> QED
      BY <3>2
  <2> QED
    BY <1>3, <2>1
<1> QED
  BY <1>2, <1>3
LEMMA MiddleOfFive ==
  ASSUME NEW C \in SUBSET (1..5), NEW q \in 1..5, NEW lower, NEW upper,
         q \in C => lower = {} /\ upper = (1..5) \ C,
         q \notin C => lower = C /\ upper = {}
  PROVE  (2 * Cardinality(lower) < 5 /\ 2 * Cardinality(upper) < 5) <=> (q \in C <=> Cardinality(C) >= 3)
<1> DEFINE D == (1..5) \ C
           c == Cardinality(C)
<1>1. c \in Nat /\ Cardinality(D) = 5 - c /\ Cardinality({}) = 0
  <2>1. Cardinality({}) = 0
    BY FS_EmptySet, Zenon
  <2> QED
    BY <2>1, FewOfFive
<1>2. CASE q \in C
  <2>1. lower = {} /\ upper = D
    BY <1>2
  <2>2. Cardinality(lower) = 0 /\ Cardinality(upper) = 5 - c
    BY <1>1, <2>1
  <2> HIDE DEF c
  <2> QED
    BY <1>1, <1>2, <2>2 DEF c
<1>3. CASE q \notin C
  <2>1. Cardinality(lower) = c /\ Cardinality(upper) = 0
    BY <1>1, <1>3
  <2> HIDE DEF c
  <2> QED
    BY <1>1, <1>3, <2>1 DEF c
<1> QED
  BY <1>2, <1>3
LEMMA MiddleCost ==
  ASSUME NEW rows, DOMAIN rows = 1..5, Len(rows) = 5, NEW C \in SUBSET (1..5),
         \A p, q \in 1..5 : LessCost(rows[p], rows[q]) <=> p \in C /\ q \notin C
  PROVE  \E q \in 1..5 : Middle(rows, LessCost) = rows[q] /\ (q \in C <=> Cardinality(C) >= 3)
<1> DEFINE below(r) == {i \in DOMAIN rows : LessCost(rows[i], r)}
           above(r) == {i \in DOMAIN rows : LessCost(r, rows[i])}
           mid(r) == 2 * Cardinality(below(r)) < Len(rows) /\ 2 * Cardinality(above(r)) < Len(rows)
<1>1. \A q \in 1..5 : /\ q \in C => below(rows[q]) = {} /\ above(rows[q]) = (1..5) \ C
                      /\ q \notin C => below(rows[q]) = C /\ above(rows[q]) = {}
  OBVIOUS
<1> HIDE DEF below, above
<1>3. /\ \A q \in 1..5 : mid(rows[q]) <=> (q \in C <=> Cardinality(C) >= 3)
      /\ \E q \in 1..5 : q \in C <=> Cardinality(C) >= 3
  <2>1. ASSUME NEW q \in 1..5 PROVE mid(rows[q]) <=> (q \in C <=> Cardinality(C) >= 3)
    BY <1>1, MiddleOfFive
  <2> QED
    BY <2>1, KindOfThree
<1>4. Range(rows) = {rows[q] : q \in 1..5}
  BY DEF Range
<1>5. Middle(rows, LessCost) = CHOOSE r \in Range(rows) : mid(r)
  BY DEF Middle, below, above
<1> HIDE DEF mid
<1>6. \E r \in Range(rows) : mid(r)
  BY <1>3, <1>4
<1>7. Middle(rows, LessCost) \in Range(rows) /\ mid(Middle(rows, LessCost))
  BY <1>5, <1>6
<1> QED
  BY <1>3, <1>4, <1>7
LEMMA MiddleSlow ==
  ASSUME NEW rows, DOMAIN rows = 1..5, Len(rows) = 5, NEW C \in SUBSET (1..5),
         \A p, q \in 1..5 : LessSlow(rows[p], rows[q]) <=> p \in C /\ q \notin C
  PROVE  \E q \in 1..5 : Middle(rows, LessSlow) = rows[q] /\ (q \in C <=> Cardinality(C) >= 3)
<1> DEFINE below(r) == {i \in DOMAIN rows : LessSlow(rows[i], r)}
           above(r) == {i \in DOMAIN rows : LessSlow(r, rows[i])}
           mid(r) == 2 * Cardinality(below(r)) < Len(rows) /\ 2 * Cardinality(above(r)) < Len(rows)
<1>1. \A q \in 1..5 : /\ q \in C => below(rows[q]) = {} /\ above(rows[q]) = (1..5) \ C
                      /\ q \notin C => below(rows[q]) = C /\ above(rows[q]) = {}
  OBVIOUS
<1> HIDE DEF below, above
<1>3. /\ \A q \in 1..5 : mid(rows[q]) <=> (q \in C <=> Cardinality(C) >= 3)
      /\ \E q \in 1..5 : q \in C <=> Cardinality(C) >= 3
  <2>1. ASSUME NEW q \in 1..5 PROVE mid(rows[q]) <=> (q \in C <=> Cardinality(C) >= 3)
    BY <1>1, MiddleOfFive
  <2> QED
    BY <2>1, KindOfThree
<1>4. Range(rows) = {rows[q] : q \in 1..5}
  BY DEF Range
<1>5. Middle(rows, LessSlow) = CHOOSE r \in Range(rows) : mid(r)
  BY DEF Middle, below, above
<1> HIDE DEF mid
<1>6. \E r \in Range(rows) : mid(r)
  BY <1>3, <1>4
<1>7. Middle(rows, LessSlow) \in Range(rows) /\ mid(Middle(rows, LessSlow))
  BY <1>5, <1>6
<1> QED
  BY <1>3, <1>4, <1>7

(* What the row of a pair says of its two runs when the one without        *)
(* tracing was fast enough. *)
RowTrue(row, off, on) ==
  /\ off.cpu = 10 /\ off.fps = 40 /\ on.cpu \in {15, 16} /\ on.fps \in {37, 38}
  /\ Increase(row) = on.cpu - off.cpu /\ Fps(row.off) = off.fps /\ Fps(row.on) = on.fps
LEMMA RowOfPair ==
  ASSUME NEW e, EvidenceTrue(runs, e), RunsMeasured(runs), AsDeclared(e), Len(e.trials) = 10, NEW p \in 1..5,
         NEW row, row = [off |-> RowOf(e, p, "disabled"), on |-> RowOf(e, p, "enabled")], BaselineMet(row)
  PROVE  RowTrue(row, Pair(p, "disabled"), Pair(p, "enabled"))
<1> DEFINE off == Pair(p, "disabled")
           on == Pair(p, "enabled")
<1>1. PICK i \in 1..10 : /\ i \in DOMAIN runs /\ runs[i] \in Measurable /\ off = runs[i] /\ RowOf(e, p, "disabled") = e.trials[i]
                         /\ MeasureTrue(e.trials[i], runs[i], i) /\ runs[i].pair = p /\ runs[i].mode = "disabled"
  <2>1. "disabled" \in Modes
    BY DEF Modes
  <2> QED
    BY <2>1, PairInOrder
<1>2. PICK j \in 1..10 : /\ j \in DOMAIN runs /\ runs[j] \in Measurable /\ on = runs[j] /\ RowOf(e, p, "enabled") = e.trials[j]
                         /\ MeasureTrue(e.trials[j], runs[j], j) /\ runs[j].pair = p /\ runs[j].mode = "enabled"
  <2>1. "enabled" \in Modes
    BY DEF Modes
  <2> QED
    BY <2>1, PairInOrder
<1> HIDE DEF off, on
<1>3. /\ off.cpu = 10 /\ off.fps \in {26, 40} /\ on.cpu \in {15, 16} /\ on.fps \in {26, 37, 38}
  BY <1>1, <1>2 DEF Measurable
<1>4. on.fps = 26 => off.fps = 26
  <2>1. PICK h \in 0..5 : InPairs(runs, h)
    BY DEF RunsMeasured
  <2>2. runs[j].fps = 26 => runs[i].fps = 26
    BY <1>1, <1>2, <2>1 DEF InPairs
  <2> QED
    BY <1>1, <1>2, <2>2
<1>5. row.off = e.trials[i] /\ row.on = e.trials[j]
  BY <1>1, <1>2
<1>6. row.off.cpu = off.cpu /\ row.off.first = i /\ row.off.last = i + off.fps
  BY <1>1, <1>5 DEF MeasureTrue
<1>7. row.on.cpu = on.cpu /\ row.on.first = j /\ row.on.last = j + on.fps
  BY <1>2, <1>5 DEF MeasureTrue
<1>8. Fps(row.off) = off.fps /\ Fps(row.on) = on.fps /\ Increase(row) = on.cpu - off.cpu
  BY <1>3, <1>6, <1>7 DEF Fps, Increase
<1>9. off.fps >= 27
  BY <1>8 DEF BaselineMet
<1>10. off.fps = 40 /\ on.fps \in {37, 38}
  BY <1>3, <1>4, <1>9
<1> QED
  BY <1>3, <1>8, <1>10 DEF RowTrue, off, on

(* A nominal trace is of a run that lost nothing and traced nearly all. *)
LEMMA NominalRun ==
  ASSUME NEW x \in Measurable, x.mode = "enabled", NEW file, NEW e, e.version = 1, e.provenance = "producer_capture",
         NEW t, NEW i \in Nat,
         MeasureTrue(t, x, i), t.file # None, TraceFits(e, t, file), Nominal(TraceOf(file), t)
  PROVE  x.lost = 0 /\ 20 * x.traced >= 19 * x.fps
<1> DEFINE frames == Frames(x.traced)
           all == CountOf(frames, LAMBDA f : TRUE)
           both == ExactPairs(frames, {"queue", "encode"})
           most == IF all < Fps(t) THEN Fps(t) ELSE all
<1>1. x.traced \in Nat \ {0} /\ x.fps \in {26, 37, 38} /\ x.lost \in Nat
  BY DEF Measurable
<1>2. TraceOf(file) = Record(x)
  <2>1. TraceTrue(t.sha, x) /\ file = t.sha
    BY DEF MeasureTrue, TraceFits
  <2> QED
    BY <2>1, FittingTrace
<1>3. Record(x).drops = x.lost /\ Record(x).frames = frames
  BY DEF Record
<1>4. x.lost = 0 /\ 100 * both >= 95 * most
  BY <1>2, <1>3 DEF Nominal
<1>5. all = x.traced /\ both \in Nat /\ both <= x.traced
  BY <1>1, FramesCounted
<1>6. Fps(t) = x.fps
  BY <1>1 DEF Fps, MeasureTrue
<1> HIDE DEF all, both
<1>7. most >= x.fps /\ most \in Nat
  BY <1>1, <1>5, <1>6
<1> HIDE DEF most
<1> QED
  BY <1>1, <1>4, <1>5, <1>7

LEMMA AllTraced ==
  ASSUME NEW e, EvidenceTrue(runs, e), RunsMeasured(runs), NEW plan, NEW names, NEW kept,
         OverheadAccepted(plan, e, names, kept), OverheadPassed(e, kept), Len(e.trials) = 10, NEW p \in 1..5
  PROVE  Pair(p, "enabled").lost = 0 /\ 20 * Pair(p, "enabled").traced >= 19 * Pair(p, "enabled").fps
<1>1. PICK j \in 1..10 : /\ j \in DOMAIN runs /\ runs[j] \in Measurable /\ Pair(p, "enabled") = runs[j]
                         /\ MeasureTrue(e.trials[j], runs[j], j) /\ runs[j].pair = p /\ runs[j].mode = "enabled"
  <2>1. "enabled" \in Modes /\ AsDeclared(e)
    BY DEF Modes, OverheadAccepted, ValidOverhead
  <2> QED
    BY <2>1, PairInOrder
<1>2. j \in DOMAIN e.trials /\ e.trials[j].mode = "enabled" /\ j \in Nat
  BY <1>1 DEF EvidenceTrue, MeasureTrue
<1>3. e.trials[j].file # None
  BY <1>2 DEF OverheadAccepted, OverheadPassed, ValidOverhead
<1>4. TraceFits(e, e.trials[j], kept[j]) /\ Nominal(TraceOf(kept[j]), e.trials[j])
  BY <1>2, <1>3 DEF OverheadAccepted, OverheadPassed
<1>5. e.version = 1 /\ e.provenance = "producer_capture"
  BY DEF EvidenceTrue
<1> HIDE DEF Nominal, TraceFits
<1> QED
  BY <1>1, <1>2, <1>3, <1>4, <1>5, NominalRun

(* The middle of five is as cheap as three of them are. *)
LEMMA CheapMiddle ==
  ASSUME NEW rows, DOMAIN rows = 1..5, Len(rows) = 5,
         \A p \in 1..5 : RowTrue(rows[p], Pair(p, "disabled"), Pair(p, "enabled"))
  PROVE  Increase(Middle(rows, LessCost)) <= 5 <=> Cardinality(Cheap) >= 3
<1> DEFINE off(p) == Pair(p, "disabled")
           on(p) == Pair(p, "enabled")
           C == {p \in 1..5 : on(p).cpu = 15}
<1> HIDE DEF off, on
<1>1. \A p \in 1..5 : RowTrue(rows[p], off(p), on(p))
  BY DEF off, on
<1>2. Cheap = C
  BY <1>1 DEF Cheap, RowTrue, off, on
<1>3. \A p \in 1..5 : Increase(rows[p]) = IF p \in C THEN 5 ELSE 6
  BY <1>1 DEF RowTrue
<1>4. \A p, q \in 1..5 : LessCost(rows[p], rows[q]) <=> p \in C /\ q \notin C
  BY <1>3 DEF LessCost
<1>5. C \in SUBSET (1..5)
  OBVIOUS
<1> HIDE DEF C
<1>6. PICK q \in 1..5 : Middle(rows, LessCost) = rows[q] /\ (q \in C <=> Cardinality(C) >= 3)
  BY <1>4, <1>5, MiddleCost
<1> QED
  BY <1>2, <1>3, <1>6
LEMMA FastMiddle ==
  ASSUME NEW rows, DOMAIN rows = 1..5, Len(rows) = 5,
         \A p \in 1..5 : RowTrue(rows[p], Pair(p, "disabled"), Pair(p, "enabled"))
  PROVE  ~Slows(Middle(rows, LessSlow)) <=> Cardinality(Fast) >= 3
<1> DEFINE off(p) == Pair(p, "disabled")
           on(p) == Pair(p, "enabled")
           C == {p \in 1..5 : on(p).fps = 37}
<1> HIDE DEF off, on
<1>1. \A p \in 1..5 : RowTrue(rows[p], off(p), on(p))
  BY DEF off, on
<1>2. Fast = (1..5) \ C
  BY <1>1 DEF Fast, RowTrue, off, on
<1>3. \A p \in 1..5 : Fps(rows[p].off) = 40 /\ Fps(rows[p].on) = IF p \in C THEN 37 ELSE 38
  BY <1>1 DEF RowTrue
<1>4. \A p, q \in 1..5 : LessSlow(rows[p], rows[q]) <=> p \in C /\ q \notin C
  BY <1>3 DEF LessSlow
<1>5. C \in SUBSET (1..5) /\ \A p \in 1..5 : Slows(rows[p]) <=> p \in C
  BY <1>3 DEF Slows
<1> HIDE DEF C
<1>6. PICK q \in 1..5 : Middle(rows, LessSlow) = rows[q] /\ (q \in C <=> Cardinality(C) >= 3)
  BY <1>4, <1>5, MiddleSlow
<1>7. Cardinality(C) \in Nat /\ Cardinality((1..5) \ C) = 5 - Cardinality(C)
  BY <1>5, FewOfFive
<1> DEFINE c == Cardinality(C)
<1> HIDE DEF c
<1>8. c \in Nat /\ Cardinality(Fast) = 5 - c
  BY <1>2, <1>7 DEF c
<1>9. ~Slows(Middle(rows, LessSlow)) <=> ~(c >= 3)
  BY <1>5, <1>6 DEF c
<1> QED
  BY <1>8, <1>9

LEMMA PassedIsCheap ==
  ASSUME NEW e, EvidenceTrue(runs, e), RunsMeasured(runs), NEW plan, NEW names, NEW kept,
         OverheadAccepted(plan, e, names, kept), OverheadPassed(e, kept)
  PROVE  CheapInTruth
<1> DEFINE rows == PairsOf(e)
           off(p) == Pair(p, "disabled")
           on(p) == Pair(p, "enabled")
<1>1. /\ Len(e.trials) = 10 /\ AsDeclared(e) /\ Len(rows) = 5 /\ \A p \in DOMAIN rows : BaselineMet(rows[p])
      /\ Increase(Middle(rows, LessCost)) <= 5 /\ ~Slows(Middle(rows, LessSlow))
  BY OrderIs DEF OverheadAccepted, OverheadPassed, ValidOverhead
<1>2. Len(runs) = 10 /\ \A i \in DOMAIN runs : <<runs[i].pair, runs[i].mode>> = Order[i]
  <2>1. PICK h \in 0..5 : Len(runs) = 2 * h /\ DOMAIN runs = 1..2 * h
    BY RunsInPairs
  <2>2. DOMAIN e.trials = 1..10
    <3> DEFINE t == e.trials
    <3>1. IsSequence(t) /\ Len(t) = 10
      BY <1>1 DEF EvidenceTrue
    <3> HIDE DEF t
    <3>2. DOMAIN t = 1..Len(t)
      BY <3>1, SequenceShape
    <3> QED
      BY <3>1, <3>2 DEF t
  <2>3. 1..2 * h = 1..10
    BY <2>1, <2>2 DEF EvidenceTrue
  <2>4. 10 \in 1..2 * h
    BY <2>3
  <2>5. Len(runs) = 10
    BY <2>1, <2>4
  <2>6. \A i \in DOMAIN runs : <<e.trials[i].pair, e.trials[i].mode>> = Order[i]
    BY <1>1 DEF AsDeclared, EvidenceTrue
  <2> QED
    BY <2>5, <2>6 DEF EvidenceTrue, MeasureTrue
<1>3. DOMAIN rows = 1..5 /\ \A p \in 1..5 : RowTrue(rows[p], off(p), on(p))
  <2>1. /\ DOMAIN rows = 1..5
        /\ \A p \in 1..5 : rows[p] = [off |-> RowOf(e, p, "disabled"), on |-> RowOf(e, p, "enabled")]
    BY <1>1, FivePairs
  <2> HIDE DEF rows
  <2> QED
    BY <1>1, <2>1, RowOfPair
<1>4. \A p \in 1..5 : on(p).lost = 0 /\ 20 * on(p).traced >= 19 * on(p).fps
  BY <1>1, AllTraced
<1> HIDE DEF rows, off, on
<1>5. \A p \in 1..5 : off(p).fps >= 27
  BY <1>3 DEF RowTrue
<1>6. Cardinality(Cheap) >= 3
  BY <1>1, <1>3, CheapMiddle DEF off, on
<1>7. Cardinality(Fast) >= 3
  BY <1>1, <1>3, FastMiddle DEF off, on
<1> QED
  BY <1>2, <1>4, <1>5, <1>6, <1>7 DEF CheapInTruth, off, on

LEMMA OverheadBegins ==
  ASSUME CampaignInit
  PROVE  OverheadInv
<1>1. ~Accepted("overhead")
  BY DEF CampaignInit, Accepted
<1>2. ASSUME kind = "overhead" PROVE MeasuredTrue
  <2>1. DOMAIN files = {"plan"} /\ runs = <<>> /\ seen = Unread
    BY <1>2 DEF CampaignInit
  <2>2. RunsMeasured(runs)
    <3>1. <<>> \in Seq(Measurable) /\ Len(<<>>) = 2 * 0 /\ DOMAIN <<>> = {}
      OBVIOUS
    <3>2. InPairs(runs, 0) /\ 0 \in 0..5
      BY <2>1, <3>1 DEF InPairs
    <3> QED
      BY <3>2 DEF RunsMeasured
  <2>3. ReadTrue(runs, files, seen) /\ "index" \notin DOMAIN files /\ TracesTrue(runs, files)
    BY <2>1 DEF ReadTrue, Unread, TracesTrue
  <2> QED
    BY <2>2, <2>3 DEF MeasuredTrue
<1> QED
  BY <1>1, <1>2 DEF OverheadInv, MeasuredTrue, OverheadTrue

LEMMA OverheadReported ==
  ASSUME MeasuredTrue, Report
  PROVE  OverheadTrue'
<1>1. SUFFICES ASSUME kind = "overhead", OverheadAccepted(seen.plan, seen.index, seen.names, seen.kept),
                      OverheadPassed(seen.index, seen.kept)
               PROVE  CheapInTruth
  <2>1. kind' = kind /\ runs' = runs
    BY DEF Report, Stays
  <2>2. CheapInTruth' = CheapInTruth
    BY <2>1 DEF CheapInTruth, Cheap, Fast, Pair
  <2> DEFINE accepted == IF kind = "campaign" THEN CampaignAccepted(seen.plan, seen.index, seen.names, seen.kept)
                         ELSE OverheadAccepted(seen.plan, seen.index, seen.names, seen.kept)
             passed == accepted /\ IF kind = "campaign" THEN CampaignReport(seen.plan, seen.index, seen.kept).passed
                                   ELSE OverheadPassed(seen.index, seen.kept)
  <2>3. report'.accepted = accepted /\ report'.passed = passed
    BY DEF Report
  <2>4. Accepted("overhead")' /\ report'.passed =>
          kind = "overhead" /\ OverheadAccepted(seen.plan, seen.index, seen.names, seen.kept)
          /\ OverheadPassed(seen.index, seen.kept)
    BY <2>1, <2>3 DEF Accepted
  <2> HIDE DEF OverheadAccepted, OverheadPassed, accepted, passed
  <2> QED
    BY <2>2, <2>4 DEF OverheadTrue
<1>2. RunsMeasured(runs) /\ EvidenceTrue(runs, seen.index)
  BY <1>1 DEF MeasuredTrue, ReadTrue, Report, AllKept
<1> HIDE DEF OverheadAccepted, OverheadPassed
<1> QED
  BY <1>1, <1>2, PassedIsCheap

LEMMA OverheadStays ==
  ASSUME OverheadTrue, UNCHANGED <<kind, runs, report>>
  PROVE  OverheadTrue'
<1>1. CheapInTruth' = CheapInTruth
  BY DEF CheapInTruth, Cheap, Fast, Pair
<1>2. Accepted("overhead")' = Accepted("overhead") /\ report' = report
  BY DEF Accepted
<1> QED
  BY <1>1, <1>2 DEF OverheadTrue

LEMMA OverheadStep ==
  ASSUME OverheadInv, [CampaignNext]_campaignVars
  PROVE  OverheadInv'
<1> USE DEF OverheadInv
<1>1. ASSUME Produce PROVE OverheadInv'
  <2>1. ~Accepted("overhead")' /\ kind' = kind
    BY <1>1 DEF Produce, Acquire, NotAcquired, Register, Finish, Tampered, RunPair, Overwritten, WriteEvidence,
             Acts, Accepted
  <2>2. ASSUME kind = "overhead" PROVE MeasuredTrue'
    <3>1. ~(Acquire \/ NotAcquired \/ Register \/ Finish \/ Tampered)
      BY <2>2 DEF Acquire, NotAcquired, Register, Finish, Tampered, Acts
    <3> QED
      BY <1>1, <2>2, <3>1, RunPairStep, OverwrittenStep, WriteEvidenceStep DEF Produce
  <2> QED
    BY <2>1, <2>2 DEF OverheadTrue, MeasuredTrue
<1>2. ASSUME Inspect PROVE OverheadInv'
  <2>1. Stays /\ kind' = kind
    BY <1>2 DEF Inspect, ReadPlan, ReadIndex, ListDirectory, ReadTrial, Report, Stays
  <2>2. Report => seen' = seen
    BY DEF Report
  <2>3. ASSUME kind = "overhead" PROVE MeasuredTrue'
    BY <1>2, <2>1, <2>2, <2>3, ReadingStep DEF Inspect
  <2>4. OverheadTrue'
    <3>1. CASE Report
      BY <3>1, OverheadReported
    <3>2. CASE ~Report
      <4>1. UNCHANGED <<kind, runs, report>>
        BY <1>2, <2>1, <3>2 DEF Inspect, ReadPlan, ReadIndex, ListDirectory, ReadTrial, Stays
      <4> QED
        BY <4>1, OverheadStays
    <3> QED
      BY <3>1, <3>2
  <2> QED
    BY <2>1, <2>3, <2>4 DEF MeasuredTrue
<1>3. ASSUME UNCHANGED campaignVars PROVE OverheadInv'
  <2>1. UNCHANGED <<kind, files, runs, pending, trouble, seen, moved, report>>
    BY <1>3 DEF campaignVars
  <2>2. OverheadTrue'
    BY <2>1, OverheadStays
  <2>3. MeasuredTrue'
    BY <2>1 DEF MeasuredTrue
  <2> QED
    BY <2>2, <2>3
<1> QED
  BY <1>1, <1>2, <1>3 DEF CampaignNext

(* Tracing is said to cost little only after five pairs of runs in the     *)
(* declared order, of which enough were as cheap as that: whatever the     *)
(* runs measure, and whichever evidence is overwritten between the         *)
(* inspector's reads. *)
THEOREM OverheadIsTrue == CampaignSpec => []OverheadTrue
<1>1. CampaignInit => OverheadInv
  BY OverheadBegins
<1>2. OverheadInv /\ [CampaignNext]_campaignVars => OverheadInv'
  BY OverheadStep
<1>3. OverheadInv => OverheadTrue
  BY DEF OverheadInv
<1> QED
  BY <1>1, <1>2, <1>3, PTL DEF CampaignSpec
-----------------------------------------------------------------------------
(* What was done well is accepted: as long as nothing goes wrong           *)
(* everything written is what happened, and what is read is what is there. *)
OverheadAssumptions ==
  /\ Follows(Plans["overhead"]) /\ OverheadPlanned(Plans["overhead"])
  /\ EnoughPairs \in 0..36 /\ EnoughProbes \in 1..10000
HonestAssumptions == CampaignAssumptions /\ Follows(Plan) /\ NoneIsUnwritten(Plan) /\ OverheadAssumptions

(* What was read of files that stay. *)
Lookup(d, name) == IF name \in DOMAIN d THEN d[name] ELSE None
InReading(s) ==
  /\ s = [plan |-> s.plan, index |-> s.index, names |-> s.names, kept |-> s.kept]
  /\ s.index # None => s.plan # None
  /\ s.names # None => s.index # None
KeptOf(d, t) == IF t.file = None THEN None ELSE Lookup(d, t.file)
ReadSoFar(d, s) ==
  /\ s.plan = d["plan"]
  /\ s.index # None => s.index = d["index"]
  /\ s.names # None => s.names = DOMAIN d
  /\ IsSequence(s.kept) /\ (s.names = None => s.kept = <<>>)
  /\ s.names # None => /\ Len(s.kept) <= Len(s.index.trials)
                       /\ \A k \in DOMAIN s.kept : s.kept[k] = KeptOf(d, s.index.trials[k])
Undisturbed == trouble = None /\ moved = 0 /\ seen.plan # None => ReadSoFar(files, seen)
ReadWell ==
  /\ moved \in Nat /\ InReading(seen) /\ Undisturbed
  /\ report # None => seen.plan # None /\ seen.index # None /\ AllKept

LEMMA ActsApart ==
  ASSUME ReadWell, NEW of, Acts(of)
  PROVE  ReadWell'
<1>1. /\ seen' = seen /\ report' = None /\ moved' = IF Reading THEN moved + 1 ELSE 0
  BY DEF Acts
<1>2. moved' \in Nat /\ (seen.plan # None => moved' # 0)
  BY <1>1 DEF ReadWell, Reading
<1>3. Undisturbed'
  BY <1>1, <1>2 DEF Undisturbed
<1>4. InReading(seen')
  BY <1>1 DEF ReadWell
<1> QED
  BY <1>1, <1>2, <1>3, <1>4 DEF ReadWell

(* A file more is read. *)
LEMMA OneMoreKept ==
  ASSUME NEW d, NEW s, NEW file, ReadSoFar(d, s), InReading(s), s.names # None,
         Len(s.index.trials) \in Nat, Len(s.kept) # Len(s.index.trials),
         file = KeptOf(d, s.index.trials[Len(s.kept) + 1])
  PROVE  ReadSoFar(d, [s EXCEPT !.kept = Append(s.kept, file)]) /\ InReading([s EXCEPT !.kept = Append(s.kept, file)])
<1> DEFINE n == Len(s.kept)
           kept == Append(s.kept, file)
           z == [s EXCEPT !.kept = kept]
<1>1. n \in Nat /\ DOMAIN s.kept = 1..n
  BY SequenceShape DEF ReadSoFar
<1>2. /\ IsSequence(kept) /\ Len(kept) = n + 1 /\ DOMAIN kept = 1..n + 1
      /\ \A k \in 1..n : kept[k] = s.kept[k]
      /\ kept[n + 1] = file
  BY <1>1, Appended DEF ReadSoFar
<1>3. n <= Len(s.index.trials) /\ \A k \in 1..n : s.kept[k] = KeptOf(d, s.index.trials[k])
  BY <1>1 DEF ReadSoFar
<1> HIDE DEF kept
<1>4. z = [plan |-> s.plan, index |-> s.index, names |-> s.names, kept |-> kept]
  BY DEF InReading
<1> HIDE DEF z
<1>5. z.plan = s.plan /\ z.index = s.index /\ z.names = s.names /\ z.kept = kept
  BY <1>4
<1>6. InReading(z)
  BY <1>4, <1>5 DEF InReading
<1>7. file = KeptOf(d, s.index.trials[n + 1])
  OBVIOUS
<1> HIDE DEF n
<1>8. \A k \in DOMAIN kept : kept[k] = KeptOf(d, s.index.trials[k])
  <2> TAKE k \in DOMAIN kept
  <2>1. k \in 1..n \/ k = n + 1
    BY <1>1, <1>2
  <2> QED
    BY <2>1, <1>2, <1>3, <1>7
<1>9. Len(kept) <= Len(s.index.trials)
  <2>1. n # Len(s.index.trials)
    BY DEF n
  <2> QED
    BY <1>1, <1>2, <1>3, <2>1
<1>10. ReadSoFar(d, z)
  BY <1>2, <1>5, <1>8, <1>9 DEF ReadSoFar
<1> QED
  BY <1>6, <1>10 DEF z, kept

LEMMA ReadApart ==
  ASSUME ReadWell, Stays, report' = report, ReadPlan \/ ReadIndex \/ ListDirectory \/ ReadTrial,
         seen.plan # None => Len(files["index"].trials) \in Nat
  PROVE  ReadWell'
<1>1. /\ files' = files /\ moved' = moved /\ trouble' = trouble /\ moved \in Nat
      /\ seen = [plan |-> seen.plan, index |-> seen.index, names |-> seen.names, kept |-> seen.kept]
      /\ seen.index # None => seen.plan # None
      /\ seen.names # None => seen.index # None
      /\ report # None => seen.plan # None /\ seen.index # None /\ AllKept
  BY DEF Stays, ReadWell, InReading
<1>2. report = None
  BY <1>1 DEF ReadPlan, ReadIndex, ListDirectory, ReadTrial, Reading, AllKept
<1>3. SUFFICES InReading(seen') /\ (trouble = None /\ moved = 0 /\ seen'.plan # None => ReadSoFar(files, seen'))
  BY <1>1, <1>2 DEF ReadWell, Undisturbed
<1>4. CASE ReadPlan
  <2> DEFINE plan == Read("plan")
  <2>1. seen' = [plan |-> plan, index |-> None, names |-> None, kept |-> <<>>]
    BY <1>4 DEF ReadPlan, Unread
  <2>2. plan # None => plan = files["plan"]
    BY DEF Read, Has
  <2> HIDE DEF plan
  <2> QED
    BY <2>1, <2>2, NoReference DEF InReading, ReadSoFar
<1>5. CASE ReadIndex
  <2>1. seen' = [seen EXCEPT !.index = files["index"]] /\ seen.plan # None /\ seen.index = None /\ seen.names = None
    BY <1>1, <1>5 DEF ReadIndex, Index, Reading
  <2>2. seen' = [plan |-> seen.plan, index |-> files["index"], names |-> None, kept |-> seen.kept]
    BY <1>1, <2>1
  <2>3. trouble = None /\ moved = 0 => ReadSoFar(files, seen)
    BY <2>1 DEF ReadWell, Undisturbed
  <2> QED
    BY <2>1, <2>2, <2>3 DEF InReading, ReadSoFar
<1>6. CASE ListDirectory
  <2>1. seen' = [seen EXCEPT !.names = DOMAIN files] /\ seen.index # None /\ seen.names = None
    BY <1>6 DEF ListDirectory
  <2>2. seen' = [plan |-> seen.plan, index |-> seen.index, names |-> DOMAIN files, kept |-> seen.kept]
    BY <1>1, <2>1
  <2>3. trouble = None /\ moved = 0 => ReadSoFar(files, seen) /\ seen.kept = <<>>
    BY <1>1, <2>1 DEF ReadWell, Undisturbed, ReadSoFar
  <2>4. Len(seen.index.trials) \in Nat \/ ~(trouble = None /\ moved = 0)
    BY <1>1, <2>1, <2>3 DEF ReadSoFar
  <2> QED
    BY <1>1, <2>1, <2>2, <2>3, <2>4, NoReference DEF InReading, ReadSoFar
<1>7. CASE ReadTrial
  <2> DEFINE ref == seen.index.trials[Len(seen.kept) + 1]
             file == IF ref.file = None THEN None ELSE Read(ref.file)
  <2>1. /\ seen.names # None /\ Len(seen.kept) # Len(seen.index.trials)
        /\ seen' = [seen EXCEPT !.kept = Append(seen.kept, file)]
    BY <1>7 DEF ReadTrial, AllKept
  <2>2. file = KeptOf(files, ref)
    BY DEF KeptOf, Lookup, Read, Has
  <2> HIDE DEF file
  <2>3. InReading(seen')
    <3>1. seen' = [plan |-> seen.plan, index |-> seen.index, names |-> seen.names, kept |-> Append(seen.kept, file)]
      BY <1>1, <2>1
    <3> QED
      BY <1>1, <3>1 DEF InReading
  <2>4. ASSUME trouble = None, moved = 0 PROVE ReadSoFar(files, seen')
    <3>1. ReadSoFar(files, seen) /\ InReading(seen) /\ Len(seen.index.trials) \in Nat
      BY <1>1, <2>1, <2>4 DEF ReadWell, Undisturbed, ReadSoFar
    <3> QED
      BY <2>1, <2>2, <3>1, OneMoreKept
  <2> QED
    BY <2>3, <2>4
<1> QED
  BY <1>4, <1>5, <1>6, <1>7

(* What the campaign's producer leaves behind when nothing goes wrong. *)
Ran(r) == {i \in DOMAIN r : r[i] # None}
Unacquired(t) ==
  [run |-> t.run, source |-> t.source, status |-> "unavailable", reason |-> "source_unavailable",
   file |-> None, sha |-> None, from |-> None, to |-> None]
Referred(r, i) ==
  IF r[i] = None THEN Unacquired(Plan.trials[i]) ELSE RefOf(Plan.trials[i], Bundle(r[i]), r[i].from, r[i].to)
RunsPrompt(r) ==
  /\ \A i \in Ran(r) : r[i] = Executed(Plan.trials[i], r[i].from, r[i].state)
  /\ \A i, j \in Ran(r) : i < j => r[i].to <= r[j].from
IndexPrompt(r, p, x) ==
  /\ x.plan = Plan /\ \A i \in DOMAIN x.trials : x.trials[i] = Referred(r, i)
  /\ IF p = None THEN Len(x.trials) = Len(r) ELSE p = Referred(r, Len(r))
  /\ x.state = "finished" => p = None /\ Len(r) = Len(Plan.trials) /\ Ran(r) = DOMAIN r
FilesPrompt(r, d) ==
  /\ DOMAIN d = {"plan", "index"} \cup {Plan.trials[i].run : i \in Ran(r)}
  /\ d["plan"] = Plan /\ \A i \in Ran(r) : d[Plan.trials[i].run] = Bundle(r[i])
CampaignPrompt ==
  kind = "campaign" /\ trouble = None =>
    RunsPrompt(runs) /\ IndexPrompt(runs, pending, files["index"]) /\ FilesPrompt(runs, files)

(* A trial more, acquired or not. *)
LEMMA PromptRuns ==
  ASSUME CampaignAssumptions, NEW r, RunsTrue(r), RunsPrompt(r), NEW x, OneMore(r, x),
         x # None => /\ x = Executed(Plan.trials[Len(r) + 1], x.from, x.state)
                     /\ \A i \in Ran(r) : r[i].to <= x.from
  PROVE  /\ RunsPrompt(Append(r, x))
         /\ Ran(Append(r, x)) = Ran(r) \cup (IF x = None THEN {} ELSE {Len(r) + 1})
         /\ \A i \in DOMAIN r : Referred(Append(r, x), i) = Referred(r, i)
<1> DEFINE z == Append(r, x)
           n == Len(r) + 1
<1>1. /\ DOMAIN r = 1..Len(r) /\ Len(r) \in Nat /\ DOMAIN z = 1..n /\ z[n] = x /\ \A i \in DOMAIN r : z[i] = r[i]
  BY RunsShape DEF OneMore
<1> HIDE DEF z
<1>2. Ran(z) = Ran(r) \cup (IF x = None THEN {} ELSE {n})
  <2>1. \A i : i \in DOMAIN z <=> i \in DOMAIN r \/ i = n
    BY <1>1
  <2>2. n \notin DOMAIN r
    BY <1>1
  <2> HIDE DEF n
  <2> QED
    BY <1>1, <2>1, <2>2 DEF Ran
<1>3. \A i \in Ran(z) : z[i] = Executed(Plan.trials[i], z[i].from, z[i].state)
  <2> TAKE i \in Ran(z)
  <2>1. CASE i \in Ran(r)
    BY <2>1, <1>1 DEF Ran, RunsPrompt
  <2>2. CASE i \notin Ran(r)
    <3>1. i = n /\ x # None /\ z[i] = x
      BY <2>2, <1>1, <1>2
    <3> QED
      BY <3>1
  <2> QED
    BY <2>1, <2>2
<1>4. \A i, j \in Ran(z) : i < j => z[i].to <= z[j].from
  <2> SUFFICES ASSUME NEW i \in Ran(z), NEW j \in Ran(z), i < j PROVE z[i].to <= z[j].from
    OBVIOUS
  <2>1. i \in 1..n /\ j \in 1..n
    BY <1>1 DEF Ran
  <2>2. i \in DOMAIN r /\ i \in Ran(r) /\ z[i] = r[i]
    BY <2>1, <1>1, <1>2 DEF Ran
  <2>3. CASE j \in Ran(r)
    BY <2>2, <2>3, <1>1 DEF Ran, RunsPrompt
  <2>4. CASE j \notin Ran(r)
    BY <2>2, <2>4, <1>1, <1>2
  <2> QED
    BY <2>3, <2>4
<1>5. \A i \in DOMAIN r : Referred(z, i) = Referred(r, i)
  BY <1>1 DEF Referred
<1> QED
  BY <1>2, <1>3, <1>4, <1>5 DEF RunsPrompt, z

LEMMA ClockAfter ==
  ASSUME CampaignAssumptions, RunsTrue(runs), RunsPrompt(runs)
  PROVE  \A i \in Ran(runs) : runs[i].to <= Clock
<1> DEFINE ran == Ran(runs)
           last == CHOOSE i \in ran : \A j \in ran : j <= i
<1> SUFFICES ASSUME NEW i \in ran PROVE runs[i].to <= Clock
  OBVIOUS
<1>1. Len(runs) \in Nat /\ ran \in SUBSET (1..Len(runs)) /\ ran # {}
  BY RunsShape DEF Ran
<1>2. \A j \in ran : {runs[j].from, runs[j].to} \subseteq Int /\ runs[j].to = runs[j].from + 2
  <2> TAKE j \in ran
  <2>1. j \in DOMAIN runs /\ runs[j] # None
    BY DEF Ran
  <2>2. runs[j] \in PossibleRuns /\ runs[j].to = runs[j].from + 2
    BY <2>1, RunsShape DEF RunsTrue
  <2> QED
    BY <2>2 DEF PossibleRuns
<1>3. Clock = runs[last].to + (last % 2)
  BY <1>1 DEF Clock, Ran
<1> HIDE DEF ran
<1>4. last \in ran /\ \A j \in ran : j <= last
  <2>1. \E m \in ran : \A j \in ran : j <= m
    BY <1>1, LastOne
  <2> QED
    BY <2>1
<1> HIDE DEF last
<1>5. last \in 1..Len(runs) /\ last % 2 \in {0, 1}
  BY <1>1, <1>4
<1>6. CASE i = last
  BY <1>2, <1>3, <1>4, <1>5, <1>6
<1>7. CASE i # last
  <2>1. i < last
    BY <1>1, <1>4, <1>7
  <2>2. runs[i].to <= runs[last].from
    BY <1>4, <2>1 DEF RunsPrompt, ran
  <2> QED
    BY <1>2, <1>3, <1>4, <1>5, <2>2
<1> QED
  BY <1>6, <1>7

(* What is written of a trial is something. *)
LEMMA BundleWritten ==
  ASSUME HonestAssumptions, NEW i \in DOMAIN Plan.trials, NEW from \in Int, NEW state \in {"verified", "failed"}
  PROVE  Bundle(Executed(Plan.trials[i], from, state)) \in Bundles(Plan)
<1> DEFINE t == Plan.trials[i]
<1>1. from + 2 - from = 2 /\ 0 + 2 - 0 = 2
  OBVIOUS
<1>2. Bundle(Executed(t, from, state)) = Bundle(Executed(t, 0, state))
  BY <1>1 DEF Bundle, Executed
<1> QED
  BY <1>2 DEF Bundles
LEMMA ReferenceWritten ==
  ASSUME HonestAssumptions, NEW i \in DOMAIN Plan.trials, NEW from \in Int, NEW state \in {"verified", "failed"},
         NEW to \in Int
  PROVE  /\ RefOf(Plan.trials[i], Bundle(Executed(Plan.trials[i], from, state)), from, to) # None
         /\ Unacquired(Plan.trials[i]) # None
<1> DEFINE t == Plan.trials[i]
           b == Bundle(Executed(t, from, state))
<1>1. t \in PlannedTrials
  BY DEF HonestAssumptions, CampaignAssumptions, WellPlanned
<1>2. b \in Bundles(Plan)
  BY BundleWritten
<1> HIDE DEF t, b
<1>3. RefOf(t, b, from, to) \in References(Plan)
  BY <1>1, <1>2 DEF RefOf, References, PlannedTrials
<1>4. Unacquired(t) \in References(Plan)
  BY <1>1 DEF Unacquired, References, PlannedTrials
<1> QED
  BY <1>3, <1>4 DEF HonestAssumptions, NoneIsUnwritten, t, b

LEMMA PromptAcquire ==
  ASSUME HonestAssumptions, kind = "campaign", DirectoryTrue, CampaignPrompt, Acquire, trouble' = None
  PROVE  CampaignPrompt'
<1> DEFINE t == Requested
           n == Len(runs) + 1
           index == files["index"]
<1> USE DEF HonestAssumptions
<1>1. /\ CanRun /\ kind' = kind
      /\ RunsTrue(runs) /\ IndexTrue(runs, pending, index)
  BY DEF Acquire, Acts, DirectoryTrue
<1>2. \A what \in Troubles : ~Lone(what)
  BY DEF CampaignAssumptions, NoneIsNothing, Lone
<1>3. PICK state \in {"verified", "failed"} :
        Exports(Executed(t, Clock, state), Bundle(Executed(t, Clock, state)), Executed(t, Clock, state).from, Executed(t, Clock, state).to)
        /\ Well
  BY <1>2 DEF Acquire, Troubles
<1> DEFINE x == Executed(t, Clock, state)
           r == Append(runs, x)
           b == Bundle(x)
<1>4. /\ runs' = r /\ files' = Put(t.run, b) /\ pending' = RefOf(t, b, x.from, x.to) /\ trouble = None
  BY <1>3 DEF Exports, Well
<1>5. /\ n \in 1..Len(Plan.trials) /\ n \in DOMAIN Plan.trials /\ t = Plan.trials[n] /\ t \in PlannedTrials /\ t.run \notin {"plan", "index"}
      /\ Len(runs) < Len(Plan.trials) /\ \A j \in DOMAIN runs : Plan.trials[j].run # t.run
  <2>1. /\ Len(runs) < Len(Plan.trials) /\ n \in 1..Len(Plan.trials) /\ t = Plan.trials[n] /\ t \in PlannedTrials /\ t.run \notin {"plan", "index"}
        /\ \A j \in DOMAIN runs : Plan.trials[j].run # t.run
    BY <1>1, NextRequested
  <2>2. DOMAIN Plan.trials = 1..Len(Plan.trials)
    BY DEF CampaignAssumptions, WellPlanned
  <2> QED
    BY <2>1, <2>2
<1>6. Clock \in Int /\ x.from = Clock /\ x.to = Clock + 2 /\ x.state = state
  <2>1. Clock \in Int
    BY <1>1, ClockIsTime
  <2> QED
    BY <2>1 DEF Executed
<1>7. AsRequested(x, t)
  BY <1>5, <1>6, ExecutedAsRequested
<1>8. x # None /\ x \in PossibleRuns
  BY <1>7 DEF AsRequested, CampaignAssumptions, NoneIsNothing
<1>9. pending' # None
  BY <1>4, <1>5, <1>6, ReferenceWritten
<1>10. x = Executed(Plan.trials[n], x.from, x.state)
  BY <1>5, <1>6
<1>11. RunsPrompt(runs) /\ IndexPrompt(runs, pending, index) /\ FilesPrompt(runs, files)
  BY <1>4 DEF CampaignPrompt
<1>12. OneMore(runs, x)
  <2> HIDE DEF x
  <2> QED
    BY <1>1, <1>5, <1>7, <1>8, RunAppended DEF AsRequested
<1>13. /\ RunsPrompt(r) /\ Ran(r) = Ran(runs) \cup {n}
       /\ \A i \in DOMAIN runs : Referred(r, i) = Referred(runs, i)
  <2>1. \A i \in Ran(runs) : runs[i].to <= x.from
    BY <1>1, <1>6, <1>11, ClockAfter
  <2> HIDE DEF x
  <2> QED
    BY <1>1, <1>8, <1>10, <1>11, <1>12, <2>1, PromptRuns
<1>14. Len(r) = n /\ r[n] = x /\ Len(index.trials) = Len(runs) /\ index.state = "running" /\ DOMAIN index.trials = DOMAIN runs
       /\ \A i \in DOMAIN runs : r[i] = runs[i]
  <2>1. Len(index.trials) = Len(runs) /\ index.state = "running"
    BY <1>1 DEF CanRun, Index
  <2>2. IsSequence(index.trials) /\ Len(runs) \in Nat /\ DOMAIN runs = 1..Len(runs)
    BY <1>1, RunsShape DEF IndexTrue, ReferencesTrue
  <2>3. DOMAIN index.trials = 1..Len(index.trials)
    BY <2>2, SequenceShape
  <2> QED
    BY <1>12, <2>1, <2>2, <2>3 DEF OneMore
<1>15. Referred(r, n) = pending'
  BY <1>4, <1>5, <1>8, <1>14 DEF Referred
<1> HIDE DEF x, r, b
<1>16. /\ DOMAIN files' = DOMAIN files \cup {t.run} /\ files'[t.run] = b
       /\ \A m \in DOMAIN files \ {t.run} : files'[m] = files[m]
  <2> HIDE DEF t
  <2> QED
    BY <1>4 DEF Put
<1>17. files'["index"] = index /\ files'["plan"] = files["plan"]
  BY <1>5, <1>11, <1>16 DEF FilesPrompt
<1>18. IndexPrompt(r, pending', index)
  BY <1>9, <1>11, <1>13, <1>14, <1>15 DEF IndexPrompt
<1>19. FilesPrompt(r, files')
  <2>1. {Plan.trials[i].run : i \in Ran(r)} = {Plan.trials[i].run : i \in Ran(runs)} \cup {t.run}
    BY <1>5, <1>13
  <2>2. \A i \in Ran(r) : files'[Plan.trials[i].run] = Bundle(r[i])
    <3> TAKE i \in Ran(r)
    <3>1. CASE i \in Ran(runs)
      <4>1. i \in DOMAIN runs /\ Plan.trials[i].run \in DOMAIN files /\ Plan.trials[i].run # t.run
        BY <1>5, <1>11, <3>1 DEF Ran, FilesPrompt
      <4>2. files'[Plan.trials[i].run] = files[Plan.trials[i].run]
        BY <1>16, <4>1
      <4> QED
        BY <1>11, <1>14, <3>1, <4>1, <4>2 DEF FilesPrompt
    <3>2. CASE i = n
      BY <1>5, <1>14, <1>16, <3>2 DEF b
    <3> QED
      BY <1>13, <3>1, <3>2
  <2> QED
    BY <1>11, <1>16, <1>17, <2>1, <2>2 DEF FilesPrompt
<1> QED
  BY <1>4, <1>13, <1>17, <1>18, <1>19 DEF CampaignPrompt

LEMMA PromptNotAcquired ==
  ASSUME HonestAssumptions, kind = "campaign", DirectoryTrue, CampaignPrompt, NotAcquired
  PROVE  CampaignPrompt'
<1> DEFINE t == Requested
           n == Len(runs) + 1
           index == files["index"]
           r == Append(runs, None)
<1> USE DEF HonestAssumptions
<1>0. SUFFICES ASSUME trouble = None PROVE CampaignPrompt'
  BY DEF NotAcquired, Well, CampaignPrompt
<1>1. /\ CanRun /\ kind' = kind /\ runs' = r /\ pending' = Unacquired(t) /\ files' = files
      /\ RunsTrue(runs) /\ IndexTrue(runs, pending, index)
  BY DEF NotAcquired, Acts, DirectoryTrue, Unacquired
<1>2. Len(runs) < Len(Plan.trials) /\ n \in DOMAIN Plan.trials /\ t = Plan.trials[n]
  <2>1. n \in 1..Len(Plan.trials) /\ t = Plan.trials[n] /\ Len(runs) < Len(Plan.trials)
    BY <1>1, NextRequested
  <2>2. DOMAIN Plan.trials = 1..Len(Plan.trials)
    BY DEF CampaignAssumptions, WellPlanned
  <2> QED
    BY <2>1, <2>2
<1>3. OneMore(runs, None)
  BY <1>1, <1>2, RunAppended
<1>4. pending' # None
  <2>1. 0 \in Int /\ "failed" \in {"verified", "failed"}
    OBVIOUS
  <2> QED
    BY <1>1, <1>2, <2>1, ReferenceWritten
<1>5. RunsPrompt(runs) /\ IndexPrompt(runs, pending, index) /\ FilesPrompt(runs, files)
  BY <1>0 DEF CampaignPrompt
<1>6. /\ RunsPrompt(r) /\ Ran(r) = Ran(runs)
      /\ \A i \in DOMAIN runs : Referred(r, i) = Referred(runs, i)
  BY <1>1, <1>3, <1>5, PromptRuns
<1>7. Len(r) = n /\ r[n] = None /\ Len(index.trials) = Len(runs) /\ index.state = "running" /\ DOMAIN index.trials = DOMAIN runs
      /\ \A i \in DOMAIN runs : r[i] = runs[i]
  <2>1. Len(index.trials) = Len(runs) /\ index.state = "running"
    BY <1>1 DEF CanRun, Index
  <2>2. IsSequence(index.trials) /\ Len(runs) \in Nat /\ DOMAIN runs = 1..Len(runs)
    BY <1>1, RunsShape DEF IndexTrue, ReferencesTrue
  <2>3. DOMAIN index.trials = 1..Len(index.trials)
    BY <2>2, SequenceShape
  <2> QED
    BY <1>3, <2>1, <2>2, <2>3 DEF OneMore
<1> HIDE DEF r
<1>8. Referred(r, n) = pending'
  BY <1>1, <1>2, <1>7 DEF Referred
<1>9. IndexPrompt(r, pending', index)
  BY <1>4, <1>5, <1>6, <1>7, <1>8 DEF IndexPrompt
<1>10. FilesPrompt(r, files)
  <2>1. \A i \in Ran(runs) : r[i] = runs[i]
    BY <1>7 DEF Ran
  <2> QED
    BY <1>5, <1>6, <2>1 DEF FilesPrompt
<1> QED
  BY <1>1, <1>6, <1>9, <1>10 DEF CampaignPrompt

(* What is written in the index changes no other file. *)
LEMMA PromptWritten ==
  ASSUME NEW index, files' = Put("index", index), FilesPrompt(runs, files), HonestAssumptions, RunsTrue(runs)
  PROVE  files'["index"] = index /\ FilesPrompt(runs, files')
<1>1. /\ DOMAIN files' = DOMAIN files \cup {"index"} /\ files'["index"] = index
      /\ \A n \in DOMAIN files \ {"index"} : files'[n] = files[n]
  BY DEF Put
<1>2. \A i \in Ran(runs) : Plan.trials[i].run # "index" /\ Plan.trials[i].run \in DOMAIN files
  <2> TAKE i \in Ran(runs)
  <2>1. i \in 1..Len(Plan.trials)
    BY RunsShape DEF Ran, RunsTrue, HonestAssumptions
  <2>2. Plan.trials[i] \in PlannedTrials
    BY <2>1, RunsShape DEF HonestAssumptions
  <2> QED
    BY <2>2 DEF PlannedTrials, FilesPrompt
<1> QED
  BY <1>1, <1>2 DEF FilesPrompt

LEMMA PromptRegister ==
  ASSUME HonestAssumptions, kind = "campaign", DirectoryTrue, CampaignPrompt, Register
  PROVE  CampaignPrompt'
<1> DEFINE index == files["index"]
           trials == Append(index.trials, pending)
           new == [index EXCEPT !.trials = trials]
<1>1. SUFFICES ASSUME trouble = None PROVE CampaignPrompt'
  BY DEF Register, Well, CampaignPrompt
<1>2. /\ runs' = runs /\ files' = Put("index", new) /\ pending # None /\ pending' = None
      /\ kind' = kind /\ RunsTrue(runs) /\ IndexTrue(runs, pending, index)
  BY DEF Register, Acts, Index, DirectoryTrue
<1>3. RunsPrompt(runs) /\ IndexPrompt(runs, pending, index) /\ FilesPrompt(runs, files)
  BY <1>1 DEF CampaignPrompt
<1>4. files'["index"] = new /\ FilesPrompt(runs, files')
  BY <1>2, <1>3, PromptWritten
<1>5. /\ IsSequence(index.trials) /\ Len(runs) = Len(index.trials) + 1
      /\ index = [plan |-> index.plan, state |-> index.state, trials |-> index.trials]
  BY <1>2 DEF IndexTrue, ReferencesTrue
<1> HIDE DEF index
<1>6. /\ DOMAIN trials = 1..Len(index.trials) + 1 /\ Len(trials) = Len(index.trials) + 1
      /\ \A i \in DOMAIN index.trials : trials[i] = index.trials[i]
      /\ trials[Len(index.trials) + 1] = pending
      /\ DOMAIN index.trials = 1..Len(index.trials) /\ Len(index.trials) \in Nat
  BY <1>5, Appended, SequenceShape
<1>7. new.plan = index.plan /\ new.state = index.state /\ new.trials = trials
  BY <1>5
<1> HIDE DEF trials, new
<1>8. \A i \in DOMAIN trials : trials[i] = Referred(runs, i)
  <2> TAKE i \in DOMAIN trials
  <2>1. CASE i \in DOMAIN index.trials
    BY <2>1, <1>3, <1>6 DEF IndexPrompt
  <2>2. CASE i \notin DOMAIN index.trials
    <3>1. i = Len(index.trials) + 1
      BY <2>2, <1>6
    <3>2. trials[i] = pending /\ i = Len(runs)
      BY <3>1, <1>5, <1>6
    <3> QED
      BY <3>2, <1>2, <1>3 DEF IndexPrompt
  <2> QED
    BY <2>1, <2>2
<1>9. index.state # "finished"
  BY <1>2, <1>3 DEF IndexPrompt
<1>10. IndexPrompt(runs, None, new)
  BY <1>3, <1>5, <1>6, <1>7, <1>8, <1>9 DEF IndexPrompt
<1> QED
  BY <1>2, <1>3, <1>4, <1>10 DEF CampaignPrompt

LEMMA PromptFinish ==
  ASSUME HonestAssumptions, kind = "campaign", DirectoryTrue, CampaignPrompt, Finish, trouble' = None
  PROVE  CampaignPrompt'
<1> DEFINE index == files["index"]
           all == Len(runs) = Len(Plans["campaign"].trials) /\ \A i \in DOMAIN runs : runs[i] # None
<1> USE DEF HonestAssumptions
<1>1. /\ runs' = runs /\ pending = None /\ pending' = None /\ kind' = kind
      /\ RunsTrue(runs) /\ IndexTrue(runs, pending, index)
  BY DEF Finish, Acts, DirectoryTrue
<1>2. \A what : Lone(what) => trouble' = what /\ trouble = None
  BY DEF Lone
<1>3. "finished_early" # None
  BY DEF CampaignAssumptions, NoneIsNothing, Troubles
<1>4. PICK state \in {"finished", "cancelled"} :
        files' = Put("index", [index EXCEPT !.state = state]) /\ Well /\ (state = "finished" => all)
  BY <1>2, <1>3 DEF Finish, Index
<1> DEFINE new == [index EXCEPT !.state = state]
<1>5. RunsPrompt(runs) /\ IndexPrompt(runs, pending, index) /\ FilesPrompt(runs, files)
  BY <1>4 DEF CampaignPrompt, Well
<1>6. files'["index"] = new /\ FilesPrompt(runs, files')
  BY <1>1, <1>4, <1>5, PromptWritten
<1>7. new.plan = index.plan /\ new.trials = index.trials /\ new.state = state
  BY <1>1 DEF IndexTrue
<1> HIDE DEF new, index
<1>8. state = "finished" => Len(runs) = Len(Plan.trials) /\ Ran(runs) = DOMAIN runs
  BY <1>4 DEF Plan, Ran
<1>9. IndexPrompt(runs, None, new)
  BY <1>1, <1>5, <1>7, <1>8 DEF IndexPrompt
<1> QED
  BY <1>1, <1>5, <1>6, <1>9 DEF CampaignPrompt

LEMMA PromptProduce ==
  ASSUME HonestAssumptions, kind = "campaign", DirectoryTrue, CampaignPrompt, Produce
  PROVE  CampaignPrompt'
<1>1. ~(RunPair \/ Overwritten \/ WriteEvidence)
  BY DEF RunPair, Overwritten, WriteEvidence, Acts
<1>2. ASSUME trouble' = None PROVE CampaignPrompt'
  <2>1. \A what \in Troubles : ~Lone(what)
    BY <1>2 DEF HonestAssumptions, CampaignAssumptions, NoneIsNothing, Lone
  <2>2. ~Tampered
    BY <2>1 DEF Tampered, Troubles
  <2> QED
    BY <1>1, <1>2, <2>2, PromptAcquire, PromptNotAcquired, PromptRegister, PromptFinish DEF Produce
<1> QED
  BY <1>2 DEF CampaignPrompt

LEMMA PromptBegins ==
  ASSUME HonestAssumptions, CampaignInit
  PROVE  CampaignPrompt
<1> SUFFICES ASSUME kind = "campaign" PROVE CampaignPrompt
  BY DEF CampaignPrompt
<1> DEFINE first == [plan |-> Plan, state |-> "running", trials |-> <<>>]
<1>1. /\ files = [n \in {"plan", "index"} |-> IF n = "plan" THEN Plan ELSE first]
      /\ runs = <<>> /\ pending = None
  BY DEF CampaignInit, Plan
<1>2. DOMAIN files = {"plan", "index"} /\ files["plan"] = Plan /\ files["index"] = first
  BY <1>1
<1>3. Ran(runs) = {}
  BY <1>1 DEF Ran
<1>4. first.plan = Plan /\ first.trials = <<>> /\ first.state # "finished"
  OBVIOUS
<1> HIDE DEF first
<1>5. RunsPrompt(runs) /\ FilesPrompt(runs, files)
  BY <1>2, <1>3 DEF RunsPrompt, FilesPrompt
<1>6. IndexPrompt(runs, pending, files["index"])
  BY <1>1, <1>2, <1>4, NoReference DEF IndexPrompt
<1> QED
  BY <1>5, <1>6 DEF CampaignPrompt

LEMMA BundleAccepted == \A x : ExperimentAccepted(Bundle(x))
<1> TAKE x
<1> DEFINE file == Bundle(x)
           m == file[1]
<1>1. Len(file) = 1 /\ DOMAIN file = {1} /\ m.name = "experiment" /\ m.type = "regular"
  BY DEF Bundle
<1> HIDE DEF file
<1>2. {file[i].name : i \in DOMAIN file} = {"experiment"}
  BY <1>1
<1>3. Cardinality({"experiment"}) = 1
  BY FS_Singleton, Zenon
<1>4. Regular(file) /\ OnePerRow(file, LAMBDA z : z.name)
  BY <1>1, <1>2, <1>3 DEF Regular, OnePerRow
<1> QED
  BY <1>2, <1>4 DEF ExperimentAccepted, EachOnce, file

(* The reference to a trial that was run or not is one the reader takes. *)
LEMMA ReferredAccepted ==
  ASSUME HonestAssumptions, NEW r, RunsTrue(r), RunsPrompt(r), NEW i \in DOMAIN r, NEW d, FilesPrompt(r, d)
  PROVE  LET t == Referred(r, i) IN
         /\ ValidReference(t) /\ TrialAccepted(Plan, Plan.trials[i], t, KeptOf(d, t))
         /\ Unavailable(t) <=> r[i] = None
         /\ r[i] # None => t.from = r[i].from /\ t.to = r[i].to
         /\ t.file = IF r[i] = None THEN None ELSE Plan.trials[i].run
<1> DEFINE t == Referred(r, i)
           req == Plan.trials[i]
<1> USE DEF HonestAssumptions
<1>1. i \in DOMAIN Plan.trials /\ req \in PlannedTrials
  <2>1. i \in 1..Len(Plan.trials) /\ req \in PlannedTrials
    BY RunsShape DEF RunsTrue
  <2>2. DOMAIN Plan.trials = 1..Len(Plan.trials)
    BY DEF CampaignAssumptions, WellPlanned
  <2> QED
    BY <2>1, <2>2
<1>2. CASE r[i] = None
  <2>1. /\ t.run = req.run /\ t.source = req.source /\ t.status = "unavailable" /\ t.reason = "source_unavailable"
        /\ t.file = None /\ t.sha = None /\ t.from = None /\ t.to = None
    BY <1>2 DEF Referred, Unacquired
  <2>2. "source_unavailable" # None
    BY DEF NoneIsUnwritten
  <2> HIDE DEF t, req
  <2> QED
    BY <1>2, <2>1, <2>2 DEF Unavailable, ValidReference, TrialAccepted, t, req
<1>3. CASE r[i] # None
  <2> DEFINE x == r[i]
             file == Bundle(x)
  <2>1. /\ t.run = req.run /\ t.source = req.source /\ t.status = "exported" /\ t.reason = None
        /\ t.file = req.run /\ t.sha = file /\ t.from = x.from /\ t.to = x.to
    BY <1>3 DEF Referred, RefOf
  <2>2. i \in Ran(r) /\ x = Executed(req, x.from, x.state)
    BY <1>3 DEF Ran, RunsPrompt
  <2>3. x \in PossibleRuns /\ x.to = x.from + 2 /\ x.from \in Int /\ x.state \in {"verified", "failed"} /\ x.to \in Int
    <3>1. x \in PossibleRuns /\ x.to = x.from + 2
      BY <1>3, RunsShape DEF RunsTrue
    <3> HIDE DEF x
    <3> QED
      BY <3>1 DEF PossibleRuns
  <2>4. file # None /\ req.run # None
    <3>1. file \in Bundles(Plan)
      <4> HIDE DEF x, req
      <4>1. Bundle(Executed(Plan.trials[i], x.from, x.state)) \in Bundles(Plan)
        BY <1>1, <2>3, BundleWritten
      <4> QED
        BY <2>2, <4>1 DEF req
    <3> QED
      BY <1>1, <3>1 DEF NoneIsUnwritten
  <2>5. /\ x.run = req.run /\ x.scenario = req.scenario /\ x.assignment = req.assignment /\ x.repeat = req.repeat
        /\ x.terms = 1 /\ x.workers = 2
    <3> DEFINE from == x.from
               state == x.state
               y == Executed(req, from, state)
    <3> HIDE DEF from, state
    <3>1. /\ y.run = req.run /\ y.scenario = req.scenario /\ y.assignment = req.assignment /\ y.repeat = req.repeat
          /\ y.terms = 1 /\ y.workers = 2
      BY DEF Executed
    <3> HIDE DEF y
    <3> QED
      BY <2>2, <3>1 DEF y, from, state
  <2>6. KeptOf(d, t) = file
    BY <2>1, <2>2, <2>4 DEF KeptOf, Lookup, FilesPrompt
  <2> DEFINE bundle == Member(file, "experiment")
  <2>7. bundle = Bundle(x)[1].payload
    BY BundleIsAlone, OnlyMember
  <2> HIDE DEF bundle
  <2>8. /\ bundle.run = x.run /\ bundle.scenario = x.scenario /\ bundle.assignment = x.assignment
        /\ bundle.repeat = x.repeat /\ bundle.terms = x.terms /\ bundle.workers = x.workers /\ bundle.time = x.to - x.from
    BY <2>7, BundleIsAlone
  <2>9. ExperimentAccepted(file)
    BY BundleAccepted
  <2> HIDE DEF t, req, x, file
  <2>10. AsPlanned(Plan, req, bundle)
    BY <2>5, <2>8 DEF AsPlanned, Follows
  <2>11. bundle.time <= t.to - t.from /\ t.from < t.to
    BY <2>1, <2>3, <2>8
  <2>12. ~Unavailable(t)
    BY <2>1 DEF Unavailable
  <2>13. TrialAccepted(Plan, req, t, file)
    BY <2>1, <2>9, <2>10, <2>11, <2>12 DEF TrialAccepted, bundle
  <2>14. ValidReference(t)
    BY <2>1, <2>4, <2>11, <2>12 DEF ValidReference
  <2> QED
    BY <1>3, <2>1, <2>6, <2>12, <2>13, <2>14 DEF t, req, x
<1> QED
  BY <1>2, <1>3

LEMMA CampaignAccepts ==
  ASSUME HonestAssumptions, kind = "campaign", DirectoryTrue, CampaignPrompt, ReadWell, Honest, AllKept
  PROVE  CampaignAccepted(seen.plan, seen.index, seen.names, seen.kept)
<1> DEFINE x == files["index"]
<1> USE DEF HonestAssumptions
<1>1. /\ trouble = None /\ moved = 0 /\ pending = None
      /\ RunsPrompt(runs) /\ IndexPrompt(runs, None, x) /\ FilesPrompt(runs, files)
      /\ RunsTrue(runs) /\ IndexTrue(runs, None, x)
  BY DEF Honest, CampaignPrompt, DirectoryTrue
<1>2. /\ seen.plan = Plan /\ seen.index = x /\ seen.names = DOMAIN files
      /\ IsSequence(seen.kept) /\ Len(seen.kept) = Len(x.trials)
      /\ \A k \in DOMAIN seen.kept : seen.kept[k] = KeptOf(files, x.trials[k])
  <2>1. seen.names # None /\ seen.index # None /\ seen.plan # None
    BY DEF AllKept, ReadWell, InReading
  <2>2. ReadSoFar(files, seen)
    BY <1>1, <2>1 DEF ReadWell, Undisturbed
  <2> QED
    BY <1>1, <2>1, <2>2 DEF ReadSoFar, AllKept, FilesPrompt
<1>3. /\ DOMAIN seen.kept = DOMAIN x.trials /\ DOMAIN x.trials = DOMAIN runs /\ Len(x.trials) = Len(runs)
      /\ DOMAIN runs = 1..Len(runs) /\ Len(runs) \in Nat
  <2>1. IsSequence(x.trials) /\ Len(x.trials) = Len(runs)
    BY <1>1 DEF IndexPrompt, IndexTrue, ReferencesTrue
  <2>2. DOMAIN x.trials = 1..Len(x.trials) /\ DOMAIN seen.kept = 1..Len(seen.kept)
    BY <1>2, <2>1, SequenceShape
  <2> QED
    BY <1>1, <1>2, <2>1, <2>2, RunsShape
<1>4. \A i \in DOMAIN x.trials :
        /\ x.trials[i] = Referred(runs, i) /\ seen.kept[i] = KeptOf(files, Referred(runs, i)) /\ i \in DOMAIN runs
  BY <1>1, <1>2, <1>3 DEF IndexPrompt
<1> HIDE DEF x
<1>5. \A i \in DOMAIN x.trials :
        /\ ValidReference(x.trials[i]) /\ TrialAccepted(Plan, Plan.trials[i], x.trials[i], seen.kept[i])
        /\ Unavailable(x.trials[i]) <=> runs[i] = None
        /\ runs[i] # None => x.trials[i].from = runs[i].from /\ x.trials[i].to = runs[i].to
        /\ x.trials[i].file = IF runs[i] = None THEN None ELSE Plan.trials[i].run
  BY <1>1, <1>4, ReferredAccepted
<1>6. DOMAIN files = CampaignFiles(x)
  <2>1. {x.trials[i].file : i \in DOMAIN x.trials} \ {None} = {Plan.trials[i].run : i \in Ran(runs)}
    <3>1. \A i \in Ran(runs) : Plan.trials[i].run # None
      <4> TAKE i \in Ran(runs)
      <4>1. i \in 1..Len(Plan.trials)
        BY <1>1, RunsShape DEF Ran, RunsTrue
      <4>2. DOMAIN Plan.trials = 1..Len(Plan.trials)
        BY DEF CampaignAssumptions, WellPlanned
      <4> QED
        BY <4>1, <4>2 DEF NoneIsUnwritten
    <3> QED
      BY <1>3, <1>5, <3>1 DEF Ran
  <2> QED
    BY <1>1, <2>1 DEF FilesPrompt, CampaignFiles
<1>7. Apart(x)
  <2> SUFFICES ASSUME NEW p \in Successive(x.trials) PROVE x.trials[p[1]].to <= x.trials[p[2]].from
    BY DEF Apart
  <2>1. p[1] \in Exported(x.trials) /\ p[2] \in Exported(x.trials) /\ p[1] < p[2]
    BY DEF Successive
  <2>2. p[1] \in Ran(runs) /\ p[2] \in Ran(runs) /\ p[1] \in DOMAIN x.trials /\ p[2] \in DOMAIN x.trials
    BY <1>3, <1>5, <2>1 DEF Exported, Ran
  <2>3. runs[p[1]].to <= runs[p[2]].from
    BY <1>1, <2>1, <2>2 DEF RunsPrompt
  <2> QED
    BY <1>5, <2>2, <2>3 DEF Ran
<1>8. Owned(Plan, x)
  BY <1>1, <1>3 DEF Owned, IndexPrompt, RunsTrue
<1>9. Concluded(x, Plan)
  BY <1>1, <1>3, <1>5 DEF Concluded, IndexPrompt, Ran
<1>10. ValidPlan(Plan)
  BY DEF Follows
<1> QED
  BY <1>2, <1>5, <1>6, <1>7, <1>8, <1>9, <1>10 DEF CampaignAccepted

(* What the measurements of a cheap or costly tracing leave behind when    *)
(* nothing goes wrong. *)
Traced(r) == {i \in DOMAIN r : r[i].mode = "enabled"}
WellRun(x) ==
  \/ x = [pair |-> x.pair, mode |-> "disabled", cpu |-> 10, fps |-> 40, lost |-> 0, traced |-> 0]
  \/ /\ x.cpu \in {15, 16} /\ x.fps \in {37, 38}
     /\ x = [pair |-> x.pair, mode |-> "enabled", cpu |-> x.cpu, fps |-> x.fps, lost |-> 0, traced |-> x.fps]
WellTraced(x) == Trace(Record(x), Record(x))
WellMeasured(x, i) ==
  LET on == x.mode = "enabled" IN
  [pair |-> x.pair, mode |-> x.mode, cpu |-> x.cpu, first |-> i, last |-> i + x.fps,
   file |-> IF on THEN TraceNames[x.pair] ELSE None, sha |-> IF on THEN WellTraced(x) ELSE None]
PairsPrompt(r) ==
  \A i \in DOMAIN r : WellRun(r[i]) /\ <<r[i].pair, r[i].mode>> = Order[i]
TracesPrompt(r, d) ==
  /\ d["plan"] = Plans["overhead"] /\ "plan" \in DOMAIN d
  /\ DOMAIN d \ {"index"} = {"plan"} \cup {TraceNames[r[i].pair] : i \in Traced(r)}
  /\ \A i \in Traced(r) : d[TraceNames[r[i].pair]] = WellTraced(r[i])
Concluding(r, state, reason, runtime, diagnostic) ==
  \/ state = "completed" /\ reason = None /\ Len(r) = 10 /\ runtime = Linux /\ diagnostic = Diagnosed(EnoughProbes)
  \/ state = "failed" /\ reason = "cancelled" /\ runtime = Linux /\ diagnostic = None
  \/ state = "unavailable" /\ reason = "runtime_unavailable" /\ Len(r) = 0 /\ runtime = None /\ diagnostic = None
EvidencePrompt(r, e) ==
  /\ e.plan = Plans["overhead"] /\ e.version = 1 /\ e.provenance = "producer_capture" /\ e.cleaned = TRUE
  /\ e.trials = [i \in DOMAIN r |-> WellMeasured(r[i], i)]
  /\ Concluding(r, e.state, e.reason, e.runtime, e.diagnostic)
OverheadPrompt ==
  kind = "overhead" /\ trouble = None =>
    /\ PairsPrompt(runs) /\ TracesPrompt(runs, files)
    /\ "index" \in DOMAIN files => EvidencePrompt(runs, files["index"])

LEMMA OrderInTurn ==
  \A h \in 0..4 :
    \/ Order[2 * h + 1] = <<h + 1, "disabled">> /\ Order[2 * h + 2] = <<h + 1, "enabled">>
    \/ Order[2 * h + 1] = <<h + 1, "enabled">> /\ Order[2 * h + 2] = <<h + 1, "disabled">>
<1> TAKE h \in 0..4
<1>1. h \in {0, 1, 2, 3, 4}
  OBVIOUS
<1>2. CASE h = 0
  BY <1>2, OrderIs
<1>3. CASE h = 1
  BY <1>3, OrderIs
<1>4. CASE h = 2
  BY <1>4, OrderIs
<1>5. CASE h = 3
  BY <1>5, OrderIs
<1>6. CASE h = 4
  BY <1>6, OrderIs
<1> QED
  BY <1>1, <1>2, <1>3, <1>4, <1>5, <1>6

LEMMA WellPaired ==
  ASSUME NEW effect \in {"none", "costly", "slow"}, PairNow \in Nat
  PROVE  LET on == On(effect, 0, Shown(effect)) IN
         /\ WellRun(Off(40)) /\ WellRun(on)
         /\ Off(40).pair = PairNow /\ Off(40).mode = "disabled" /\ on.pair = PairNow /\ on.mode = "enabled"
         /\ Off(40) \in Measurable /\ on \in Measurable
<1> DEFINE on == On(effect, 0, Shown(effect))
<1>1. /\ on = [pair |-> PairNow, mode |-> "enabled", cpu |-> on.cpu, fps |-> on.fps, lost |-> 0, traced |-> on.fps]
      /\ on.cpu \in {15, 16} /\ on.fps \in {37, 38}
  BY DEF On, Costs, Shown
<1>2. Off(40) = [pair |-> PairNow, mode |-> "disabled", cpu |-> 10, fps |-> 40, lost |-> 0, traced |-> 0]
  BY DEF Off
<1> HIDE DEF on
<1>3. on.pair = PairNow /\ on.mode = "enabled" /\ WellRun(on) /\ on \in Measurable
  BY <1>1 DEF WellRun, Measurable, Modes
<1> DEFINE off == Off(40)
<1> HIDE DEF off
<1>4. off.pair = PairNow /\ off.mode = "disabled" /\ WellRun(off) /\ off \in Measurable
  BY <1>2 DEF WellRun, Measurable, Modes, off
<1> QED
  BY <1>3, <1>4 DEF on, off

(* The first run of a pair, and the second. *)
InTheirTurn(off, on, a, b, h) ==
  /\ <<a.pair, a.mode>> = Order[2 * h + 1] /\ <<b.pair, b.mode>> = Order[2 * h + 2]
  /\ <<a, b>> = <<off, on>> \/ <<a, b>> = <<on, off>>
LEMMA TurnTaken ==
  ASSUME NEW h \in 0..4, Len(runs) = 2 * h, NEW off, NEW on, off.pair = h + 1, on.pair = h + 1,
         off.mode = "disabled", on.mode = "enabled"
  PROVE  \E a, b : InTurn(off, on) = <<a, b>> /\ InTheirTurn(off, on, a, b, h)
<1>1. CASE Order[2 * h + 1] = <<h + 1, "disabled">> /\ Order[2 * h + 2] = <<h + 1, "enabled">>
  <2>1. InTurn(off, on) = <<off, on>>
    BY <1>1 DEF InTurn
  <2> QED
    BY <1>1, <2>1 DEF InTheirTurn
<1>2. CASE Order[2 * h + 1] = <<h + 1, "enabled">> /\ Order[2 * h + 2] = <<h + 1, "disabled">>
  <2>1. InTurn(off, on) = <<on, off>>
    BY <1>2 DEF InTurn
  <2> QED
    BY <1>2, <2>1 DEF InTheirTurn
<1> QED
  BY <1>1, <1>2, OrderInTurn

LEMMA PromptPair ==
  ASSUME HonestAssumptions, kind = "overhead", MeasuredTrue, OverheadPrompt, RunPair, trouble' = None
  PROVE  OverheadPrompt'
<1>1. /\ RunsMeasured(runs) /\ "index" \notin DOMAIN files /\ Len(runs) < Len(Order) /\ kind' = kind
  BY DEF MeasuredTrue, RunPair, Has, Acts
<1>2. PICK h \in 0..5 : InPairs(runs, h) /\ Len(runs) = 2 * h /\ Len(runs) \div 2 + 1 = h + 1 /\ DOMAIN runs = 1..2 * h
  BY <1>1, RunsInPairs
<1>3. PairNow = h + 1 /\ h + 1 \in 1..5 /\ h \in 0..4
  BY <1>1, <1>2, OrderIs DEF PairNow
<1>4. \A what \in Troubles : ~Lone(what)
  BY DEF HonestAssumptions, CampaignAssumptions, NoneIsNothing, Lone
<1>5. PICK e \in {"none", "costly", "slow"} :
        /\ Measures(InTurn(Off(40), On(e, 0, Shown(e))), WellTraced(On(e, 0, Shown(e))))
        /\ Well
  BY <1>4 DEF RunPair, Troubles, WellTraced
<1> DEFINE off == Off(40)
           on == On(e, 0, Shown(e))
           name == TraceNames[h + 1]
<1>6. /\ WellRun(off) /\ WellRun(on)
      /\ off.pair = h + 1 /\ off.mode = "disabled" /\ on.pair = h + 1 /\ on.mode = "enabled"
      /\ off \in Measurable /\ on \in Measurable
  BY <1>3, WellPaired
<1>7. PairsPrompt(runs) /\ TracesPrompt(runs, files) /\ trouble = None
  BY <1>5 DEF OverheadPrompt, Well
<1> HIDE DEF off, on
<1>8. PICK a, b : InTurn(off, on) = <<a, b>> /\ InTheirTurn(off, on, a, b, h)
  BY <1>2, <1>3, <1>6, TurnTaken
<1> DEFINE r == runs \o <<a, b>>
<1>9. runs' = r /\ files' = Put(name, WellTraced(on))
  BY <1>3, <1>5, <1>8 DEF Measures, off, on
<1>10. a \in Measurable /\ b \in Measurable /\ WellRun(a) /\ WellRun(b)
  BY <1>6, <1>8 DEF InTheirTurn
<1>11. Extends(r, runs, a, b)
  <2>1. runs \in Seq(Measurable)
    BY <1>2 DEF InPairs
  <2> QED
    BY <1>10, <2>1, TwoMore
<1> HIDE DEF r
<1>12. /\ DOMAIN r = 1..2 * h + 2 /\ \A i \in 1..2 * h : r[i] = runs[i]
       /\ r[2 * h + 1] = a /\ r[2 * h + 2] = b
  BY <1>2, <1>11 DEF Extends
<1>13. \A i \in DOMAIN r : i \in 1..2 * h \/ i = 2 * h + 1 \/ i = 2 * h + 2
  BY <1>12
<1>14. PairsPrompt(r)
  <2>1. \A i \in 1..2 * h : WellRun(r[i]) /\ <<r[i].pair, r[i].mode>> = Order[i]
    BY <1>2, <1>7, <1>12 DEF PairsPrompt
  <2>2. <<a.pair, a.mode>> = Order[2 * h + 1] /\ <<b.pair, b.mode>> = Order[2 * h + 2]
    BY <1>8 DEF InTheirTurn
  <2> QED
    BY <1>10, <1>12, <1>13, <2>1, <2>2 DEF PairsPrompt
<1>15. /\ DOMAIN files' = DOMAIN files \cup {name} /\ files'[name] = WellTraced(on)
       /\ \A n \in DOMAIN files \ {name} : files'[n] = files[n]
  <2> HIDE DEF name
  <2> QED
    BY <1>9 DEF Put
<1>16. name \notin {"plan", "index"} /\ \A i \in Traced(runs) : TraceNames[runs[i].pair] # name
  <2>1. name \notin {"plan", "index"}
    BY <1>3, NamesOfTraces
  <2>2. ASSUME NEW i \in Traced(runs) PROVE TraceNames[runs[i].pair] # name
    <3>1. runs[i].pair \in 1..h
      BY <1>2 DEF Traced, InPairs
    <3>2. runs[i].pair \in 1..5 /\ runs[i].pair # h + 1
      BY <1>3, <3>1
    <3> QED
      BY <1>3, <3>2, NamesDiffer
  <2> QED
    BY <2>1, <2>2
<1>17. \E k \in {2 * h + 1, 2 * h + 2} : Traced(r) = Traced(runs) \cup {k} /\ r[k] = on
  <2>1. (a = off /\ b = on) \/ (a = on /\ b = off)
    BY <1>8 DEF InTheirTurn
  <2>2. \A i \in 1..2 * h : i \in Traced(r) <=> i \in Traced(runs)
    BY <1>2, <1>12 DEF Traced
  <2>3. Traced(r) \subseteq DOMAIN r /\ Traced(runs) \subseteq 1..2 * h
    BY <1>2 DEF Traced
  <2>4. CASE a = off /\ b = on
    <3>1. 2 * h + 2 \in Traced(r) /\ 2 * h + 1 \notin Traced(r)
      BY <1>6, <1>12, <2>4 DEF Traced
    <3>2. Traced(r) = Traced(runs) \cup {2 * h + 2}
      BY <1>13, <2>2, <2>3, <3>1
    <3> QED
      BY <1>12, <2>4, <3>2
  <2>5. CASE a = on /\ b = off
    <3>1. 2 * h + 1 \in Traced(r) /\ 2 * h + 2 \notin Traced(r)
      BY <1>6, <1>12, <2>5 DEF Traced
    <3>2. Traced(r) = Traced(runs) \cup {2 * h + 1}
      BY <1>13, <2>2, <2>3, <3>1
    <3> QED
      BY <1>12, <2>5, <3>2
  <2> QED
    BY <2>1, <2>4, <2>5
<1>18. TracesPrompt(r, files')
  <2>1. PICK k \in {2 * h + 1, 2 * h + 2} : Traced(r) = Traced(runs) \cup {k} /\ r[k] = on
    BY <1>17
  <2>2. \A i \in Traced(runs) : r[i] = runs[i]
    BY <1>2, <1>12 DEF Traced
  <2>3. {TraceNames[r[i].pair] : i \in Traced(r)} = {TraceNames[runs[i].pair] : i \in Traced(runs)} \cup {name}
    BY <1>6, <2>1, <2>2
  <2>4. \A i \in Traced(runs) : files'[TraceNames[runs[i].pair]] = WellTraced(runs[i])
    <3> TAKE i \in Traced(runs)
    <3>1. TraceNames[runs[i].pair] \in DOMAIN files
      BY <1>7 DEF TracesPrompt
    <3> QED
      BY <1>7, <1>15, <1>16, <3>1 DEF TracesPrompt
  <2>5. \A i \in Traced(r) : files'[TraceNames[r[i].pair]] = WellTraced(r[i])
    BY <1>6, <1>15, <2>1, <2>2, <2>4
  <2>6. files'["plan"] = Plans["overhead"] /\ "plan" \in DOMAIN files'
    BY <1>7, <1>15, <1>16 DEF TracesPrompt
  <2>7. DOMAIN files' \ {"index"} = {"plan"} \cup {TraceNames[r[i].pair] : i \in Traced(r)}
    BY <1>7, <1>15, <1>16, <2>3 DEF TracesPrompt
  <2> QED
    BY <2>5, <2>6, <2>7 DEF TracesPrompt
<1>19. "index" \notin DOMAIN files'
  BY <1>1, <1>15, <1>16
<1> QED
  BY <1>9, <1>14, <1>18, <1>19 DEF OverheadPrompt

LEMMA PromptMeasure ==
  ASSUME TracesPrompt(runs, files), NEW i \in DOMAIN runs, WellRun(runs[i])
  PROVE  MeasureOf(i) = WellMeasured(runs[i], i)
<1>1. CASE runs[i].mode = "enabled"
  <2>1. i \in Traced(runs)
    BY <1>1 DEF Traced
  <2>2. /\ TraceNames[runs[i].pair] \in DOMAIN files
        /\ files[TraceNames[runs[i].pair]] = WellTraced(runs[i])
    BY <2>1 DEF TracesPrompt
  <2> HIDE DEF WellTraced
  <2> QED
    BY <1>1, <2>2 DEF MeasureOf, WellMeasured, Has
<1>2. CASE runs[i].mode # "enabled"
  BY <1>2 DEF MeasureOf, WellMeasured
<1> QED
  BY <1>1, <1>2

LEMMA PromptEvidence ==
  ASSUME HonestAssumptions, kind = "overhead", MeasuredTrue, OverheadPrompt, WriteEvidence, trouble' = None
  PROVE  OverheadPrompt'
<1>1. /\ kind' = kind /\ runs' = runs /\ "index" \notin DOMAIN files
      /\ \A what \in Troubles : ~Lone(what)
  BY DEF WriteEvidence, Acts, Has, HonestAssumptions, CampaignAssumptions, NoneIsNothing, Lone
<1>2. PICK state, reason, runtime, diagnostic :
        /\ files' = Put("index", Evidence(state, reason, TRUE, runtime, diagnostic)) /\ Well
        /\ Concluding(runs, state, reason, runtime, diagnostic)
  <2>1. Len(<<>>) = 0
    OBVIOUS
  <2> QED
    BY <1>1, <2>1, OrderIs DEF WriteEvidence, Completed, Concluding, Troubles
<1>3. PairsPrompt(runs) /\ TracesPrompt(runs, files) /\ trouble = None
  BY <1>2 DEF OverheadPrompt, Well
<1> DEFINE e == Evidence(state, reason, TRUE, runtime, diagnostic)
<1>4. /\ e.plan = Plans["overhead"] /\ e.version = 1 /\ e.provenance = "producer_capture" /\ e.cleaned = TRUE
      /\ e.state = state /\ e.reason = reason /\ e.runtime = runtime /\ e.diagnostic = diagnostic
      /\ e.trials = [i \in DOMAIN runs |-> MeasureOf(i)]
  BY DEF Evidence
<1> HIDE DEF e
<1>5. DOMAIN files' = DOMAIN files \cup {"index"} /\ files'["index"] = e /\ \A n \in DOMAIN files : files'[n] = files[n]
  BY <1>1, <1>2 DEF Put, e
<1>6. \A i \in DOMAIN runs : MeasureOf(i) = WellMeasured(runs[i], i)
  BY <1>3, PromptMeasure DEF PairsPrompt
<1>7. EvidencePrompt(runs, e)
  BY <1>2, <1>4, <1>6 DEF EvidencePrompt
<1>8. TracesPrompt(runs, files')
  <2>1. \A i \in Traced(runs) : TraceNames[runs[i].pair] \in DOMAIN files
    BY <1>3 DEF TracesPrompt
  <2> HIDE DEF WellTraced
  <2> QED
    BY <1>1, <1>3, <1>5, <2>1 DEF TracesPrompt
<1> QED
  BY <1>1, <1>3, <1>5, <1>7, <1>8 DEF OverheadPrompt

LEMMA PromptOverhead ==
  ASSUME HonestAssumptions, kind = "overhead", MeasuredTrue, OverheadPrompt, Produce
  PROVE  OverheadPrompt'
<1>1. ~(Acquire \/ NotAcquired \/ Register \/ Finish \/ Tampered)
  BY DEF Acquire, NotAcquired, Register, Finish, Tampered, Acts
<1>2. ASSUME trouble' = None PROVE OverheadPrompt'
  <2>1. \A what \in Troubles : ~Lone(what)
    BY <1>2 DEF HonestAssumptions, CampaignAssumptions, NoneIsNothing, Lone
  <2>2. ~Overwritten
    BY <2>1 DEF Overwritten, Troubles
  <2> QED
    BY <1>1, <1>2, <2>2, PromptPair, PromptEvidence DEF Produce
<1> QED
  BY <1>2 DEF OverheadPrompt

LEMMA OverheadPromptBegins ==
  ASSUME CampaignInit
  PROVE  OverheadPrompt
<1> SUFFICES ASSUME kind = "overhead" PROVE OverheadPrompt
  BY DEF OverheadPrompt
<1>1. files = [n \in {"plan"} |-> Plans["overhead"]] /\ runs = <<>>
  BY DEF CampaignInit
<1>2. DOMAIN files = {"plan"} /\ files["plan"] = Plans["overhead"] /\ DOMAIN runs = {}
  BY <1>1
<1>3. Traced(runs) = {}
  BY <1>2 DEF Traced
<1> QED
  BY <1>2, <1>3 DEF OverheadPrompt, PairsPrompt, TracesPrompt

(* A well made trace is accepted. *)
LEMMA TraceMade ==
  \A x : TraceAccepted(WellTraced(x)) /\ TraceOf(WellTraced(x)) = Record(x)
<1> TAKE x
<1> DEFINE R == Record(x)
           T == Trace(R, R)
           Place1 == {i \in 1..Len(T) : T[i].name = "manifest"}
<1>0. R.schema = 1
  BY DEF Record
<1> HIDE DEF R
<1>1. /\ Len(T) = 2 /\ DOMAIN T = 1..2 /\ T[1].name = "manifest" /\ T[2].name = "record"
      /\ T[1].type = "regular" /\ T[2].type = "regular"
      /\ T[1].payload.sha = R /\ T[1].payload.schema = 1
  BY DEF Trace
<1>2. Member(T, "record") = R /\ Member(T, "manifest").sha = R
  BY TraceMembers
<1> HIDE DEF T
<1>3. Member(T, "manifest") = T[1].payload
  <2>1. Place1 = {1}
    BY <1>1
  <2>2. Max({1}) = 1
    BY DEF Max
  <2>3. SelectLastInSeq(T, LAMBDA f : f.name = "manifest") = 1
    BY <2>1, <2>2 DEF SelectLastInSeq
  <2> QED
    BY <2>3 DEF Member
<1>4. ManifestFits(Member(T, "manifest"), Member(T, "record"))
  BY <1>0, <1>1, <1>2, <1>3 DEF ManifestFits
<1>5. {T[i].name : i \in DOMAIN T} = {"manifest", "record"}
  BY <1>1
<1>6. Cardinality({"manifest", "record"}) = 2
  <2>1. IsFiniteSet({"record"}) /\ Cardinality({"record"}) = 1
    BY FS_Singleton, Zenon
  <2>2. "manifest" \notin {"record"} /\ {"manifest", "record"} = {"record"} \cup {"manifest"}
    OBVIOUS
  <2>3. Cardinality({"record"} \cup {"manifest"}) = 1 + 1
    BY <2>1, <2>2, FS_AddElement
  <2> QED
    BY <2>2, <2>3
<1>7. Regular(T) /\ EachOnce(T, {"manifest", "record"})
  BY <1>1, <1>5, <1>6 DEF Regular, EachOnce, OnePerRow
<1> QED
  BY <1>2, <1>4, <1>7 DEF TraceAccepted, TraceOf, WellTraced, T, R

(* What is measured of a run is something, and consistent. *)
LEMMA WrittenTrace ==
  ASSUME HonestAssumptions, NEW x, WellRun(x), x.mode = "enabled"
  PROVE  WellTraced(x) \in Traces /\ WellTraced(x) # None
<1>1. x.lost = 0 /\ x.traced \in {37, 38}
  <2>1. "enabled" # "disabled"
    OBVIOUS
  <2>2. x # [pair |-> x.pair, mode |-> "disabled", cpu |-> 10, fps |-> 40, lost |-> 0, traced |-> 0]
    BY <2>1
  <2>3. PICK t \in {37, 38} :
          x = [pair |-> x.pair, mode |-> "enabled", cpu |-> x.cpu, fps |-> x.fps, lost |-> 0, traced |-> t]
    BY <2>2 DEF WellRun
  <2> QED
    BY <2>3
<1> DEFINE t == x.traced
           y == [lost |-> 0, traced |-> t]
<1>2. Record(x) = Record(y)
  <2> HIDE DEF t
  <2>1. y.lost = 0 /\ y.traced = t
    OBVIOUS
  <2> HIDE DEF y
  <2> QED
    BY <1>1, <2>1 DEF Record, t
<1>3. y \in [lost : {0}, traced : {37, 38}]
  BY <1>1
<1> HIDE DEF y
<1>4. Trace(Record(y), Record(y)) \in Traces
  BY <1>3 DEF Traces
<1> QED
  BY <1>2, <1>4 DEF WellTraced, HonestAssumptions, NoneIsUnwritten

LEMMA WellMeasuredRow ==
  ASSUME HonestAssumptions, NEW x \in Measurable, WellRun(x), x.pair \in 1..5, NEW i \in Nat
  PROVE  LET t == WellMeasured(x, i) IN
         /\ t.pair = x.pair /\ t.mode = x.mode /\ t.cpu = x.cpu /\ ValidMeasure(t) /\ Fps(t) = x.fps
         /\ (t.file = None) = (t.sha = None)
         /\ t.file # None <=> x.mode = "enabled"
         /\ t.file = IF x.mode = "enabled" THEN TraceNames[x.pair] ELSE None
         /\ x.mode = "enabled" => t.sha = WellTraced(x)
         /\ t # None
<1> DEFINE t == WellMeasured(x, i)
           on == x.mode = "enabled"
<1>1. /\ t = [pair |-> x.pair, mode |-> x.mode, cpu |-> x.cpu, first |-> i, last |-> i + x.fps,
              file |-> IF on THEN TraceNames[x.pair] ELSE None, sha |-> IF on THEN WellTraced(x) ELSE None]
  BY DEF WellMeasured
<1>2. x.fps \in Nat /\ x.cpu \in 0..6400 /\ x.mode \in Modes
  BY DEF Measurable
<1>3. on => WellTraced(x) \in Traces /\ WellTraced(x) # None
  BY WrittenTrace
<1>4. TraceNames[x.pair] # None
  BY DEF HonestAssumptions, NoneIsUnwritten
<1> HIDE DEF on, t
<1>5. /\ t.pair = x.pair /\ t.mode = x.mode /\ t.cpu = x.cpu /\ t.first = i /\ t.last = i + x.fps
      /\ t.file = (IF on THEN TraceNames[x.pair] ELSE None) /\ t.sha = IF on THEN WellTraced(x) ELSE None
  BY <1>1
<1>6. t \in Measurements
  <2>1. (IF on THEN TraceNames[x.pair] ELSE None) \in {TraceNames[p] : p \in 1..5} \cup {None}
    OBVIOUS
  <2>2. (IF on THEN WellTraced(x) ELSE None) \in Traces \cup {None}
    BY <1>3
  <2>3. i + x.fps \in Nat
    BY <1>2
  <2> QED
    BY <1>1, <1>2, <2>1, <2>2, <2>3 DEF Measurements, Modes
<1>7. t # None
  BY <1>6 DEF HonestAssumptions, NoneIsUnwritten
<1>8. ValidMeasure(t) /\ Fps(t) = x.fps
  <2>1. t.first <= t.last /\ t.last - t.first = x.fps
    BY <1>2, <1>5
  <2>2. t.cpu <= 6400
    <3> DEFINE c == x.cpu
    <3>1. t.cpu = c /\ c \in {10, 15, 16}
      BY <1>5 DEF Measurable
    <3> HIDE DEF c
    <3>2. c <= 6400
      BY <3>1
    <3> QED
      BY <3>1, <3>2
  <2> QED
    BY <2>1, <2>2 DEF ValidMeasure, Fps
<1> QED
  BY <1>3, <1>4, <1>5, <1>7, <1>8 DEF t, on

(* What is there to be read when all went well and nothing moved. *)
LEMMA ReadPrompt ==
  ASSUME HonestAssumptions, kind = "overhead", MeasuredTrue, OverheadPrompt, ReadWell, Honest, AllKept
  PROVE  LET e == files["index"] IN
         /\ "index" \in DOMAIN files /\ PairsPrompt(runs) /\ TracesPrompt(runs, files) /\ EvidencePrompt(runs, e)
         /\ RunsMeasured(runs) /\ EvidenceTrue(runs, e)
         /\ seen.plan = Plans["overhead"] /\ seen.index = e /\ seen.names = DOMAIN files
         /\ \A i \in DOMAIN runs : seen.kept[i] = KeptOf(files, e.trials[i])
         /\ e.trials = [i \in DOMAIN runs |-> e.trials[i]]
         /\ \A i \in DOMAIN runs : e.trials[i] = WellMeasured(runs[i], i)
         /\ \A i \in DOMAIN runs : i \in Nat /\ runs[i] \in Measurable /\ WellRun(runs[i]) /\ runs[i].pair \in 1..5
         /\ DOMAIN runs = 1..Len(runs) /\ Len(runs) \in 0..10 /\ Len(e.trials) = Len(runs)
<1> DEFINE e == files["index"]
<1>1. /\ trouble = None /\ moved = 0
      /\ seen.names # None /\ seen.index # None /\ seen.plan # None
  BY DEF Honest, AllKept, ReadWell, InReading
<1>2. "index" \in DOMAIN files /\ RunsMeasured(runs) /\ EvidenceTrue(runs, e)
  BY <1>1 DEF MeasuredTrue, ReadTrue
<1>3. PairsPrompt(runs) /\ TracesPrompt(runs, files) /\ EvidencePrompt(runs, e)
  BY <1>1, <1>2 DEF OverheadPrompt
<1>4. ReadSoFar(files, seen)
  BY <1>1 DEF ReadWell, Undisturbed
<1>5. seen.plan = Plans["overhead"] /\ seen.index = e /\ seen.names = DOMAIN files
  BY <1>1, <1>3, <1>4 DEF ReadSoFar, TracesPrompt
<1>6. PICK h \in 0..5 : InPairs(runs, h) /\ Len(runs) = 2 * h /\ DOMAIN runs = 1..2 * h
  BY <1>2, RunsInPairs
<1>7. \A i \in DOMAIN runs : i \in Nat /\ runs[i] \in Measurable /\ WellRun(runs[i]) /\ runs[i].pair \in 1..5
  <2>1. runs \in Seq(Measurable) /\ \A i \in DOMAIN runs : runs[i].pair \in 1..h
    BY <1>6 DEF InPairs
  <2>2. \A i \in DOMAIN runs : i \in Nat /\ runs[i] \in Measurable
    BY <1>6, <2>1
  <2> QED
    BY <1>3, <2>1, <2>2 DEF PairsPrompt
<1> DEFINE t == e.trials
<1>8. t = [i \in DOMAIN runs |-> WellMeasured(runs[i], i)] /\ IsSequence(t) /\ DOMAIN t = DOMAIN runs
  BY <1>2, <1>3 DEF EvidencePrompt, EvidenceTrue
<1>9. IsSequence(seen.kept) /\ Len(seen.kept) = Len(t) /\ \A k \in DOMAIN seen.kept : seen.kept[k] = KeptOf(files, t[k])
  BY <1>1, <1>4, <1>5 DEF ReadSoFar, AllKept
<1> HIDE DEF t
<1>10. DOMAIN t = 1..Len(t) /\ Len(t) \in Nat /\ DOMAIN seen.kept = DOMAIN t
  BY <1>8, <1>9, SequenceShape
<1>11. Len(t) = 2 * h
  <2>1. 1..Len(t) = 1..2 * h
    BY <1>6, <1>8, <1>10
  <2> DEFINE n == Len(t)
             m == 2 * h
  <2>a. m \in Nat
    OBVIOUS
  <2> HIDE DEF n, m
  <2>2. n \in Nat /\ m \in Nat /\ 1..n = 1..m
    BY <1>10, <2>1, <2>a DEF n, m
  <2>3. n \in 1..m \/ n = 0
    BY <2>2
  <2>4. m \in 1..n \/ m = 0
    BY <2>2
  <2>5. n = m
    BY <2>2, <2>3, <2>4
  <2> QED
    BY <2>5 DEF n, m
<1>12. \A i \in DOMAIN runs : seen.kept[i] = KeptOf(files, t[i]) /\ t[i] = WellMeasured(runs[i], i)
  BY <1>8, <1>9, <1>10
<1>13. t = [i \in DOMAIN runs |-> t[i]]
  BY <1>8
<1> QED
  BY <1>2, <1>3, <1>5, <1>6, <1>7, <1>11, <1>12, <1>13 DEF t

LEMMA OverheadAccepts ==
  ASSUME HonestAssumptions, kind = "overhead", MeasuredTrue, OverheadPrompt, ReadWell, Honest, AllKept
  PROVE  OverheadAccepted(seen.plan, seen.index, seen.names, seen.kept)
<1> DEFINE e == files["index"]
           t == e.trials
           n == Len(runs)
<1>1. /\ PairsPrompt(runs) /\ TracesPrompt(runs, files) /\ EvidencePrompt(runs, e) /\ "index" \in DOMAIN files
      /\ seen.plan = Plans["overhead"] /\ seen.index = e /\ seen.names = DOMAIN files
      /\ \A i \in DOMAIN runs : seen.kept[i] = KeptOf(files, t[i]) /\ t[i] = WellMeasured(runs[i], i)
      /\ \A i \in DOMAIN runs : i \in Nat /\ runs[i] \in Measurable /\ WellRun(runs[i]) /\ runs[i].pair \in 1..5
      /\ DOMAIN runs = 1..n /\ n \in 0..10 /\ Len(t) = n
      /\ t = [i \in DOMAIN runs |-> t[i]]
  BY ReadPrompt
<1>2. DOMAIN t = DOMAIN runs
  BY <1>1
<1> HIDE DEF t
<1>3. \A i \in DOMAIN runs :
        /\ t[i].pair = runs[i].pair /\ t[i].mode = runs[i].mode /\ ValidMeasure(t[i])
        /\ (t[i].file = None) = (t[i].sha = None)
        /\ t[i].file # None <=> i \in Traced(runs)
        /\ i \in Traced(runs) => t[i].file = TraceNames[runs[i].pair] /\ t[i].sha = WellTraced(runs[i])
        /\ <<runs[i].pair, runs[i].mode>> = Order[i]
  <2> TAKE i \in DOMAIN runs
  <2> DEFINE x == runs[i]
             m == WellMeasured(x, i)
  <2>1. x \in Measurable /\ WellRun(x) /\ x.pair \in 1..5 /\ i \in Nat /\ t[i] = m
    BY <1>1
  <2>2. i \in Traced(runs) <=> x.mode = "enabled"
    BY DEF Traced
  <2>3. <<x.pair, x.mode>> = Order[i]
    BY <1>1 DEF PairsPrompt
  <2> HIDE DEF x
  <2>4. /\ m.pair = x.pair /\ m.mode = x.mode /\ ValidMeasure(m)
        /\ (m.file = None) = (m.sha = None)
        /\ m.file # None <=> x.mode = "enabled"
        /\ m.file = IF x.mode = "enabled" THEN TraceNames[x.pair] ELSE None
        /\ x.mode = "enabled" => m.sha = WellTraced(x)
    BY <2>1, WellMeasuredRow
  <2> HIDE DEF m
  <2> QED
    BY <2>1, <2>2, <2>3, <2>4 DEF x
<1>4. /\ e.state = "completed" => /\ e.reason = None /\ n = 10
                                  /\ e.runtime = Linux /\ e.diagnostic = Diagnosed(EnoughProbes)
      /\ e.state # "completed" => e.reason # None /\ e.diagnostic = None
      /\ e.state = "unavailable" => e.runtime = None /\ n = 0
      /\ e.runtime \in {Linux, None}
      /\ e.provenance = "producer_capture" /\ e.cleaned = TRUE /\ e.plan = Plans["overhead"] /\ e.version = 1
  BY <1>1 DEF EvidencePrompt, Concluding, HonestAssumptions, NoneIsUnwritten
<1>b. Linux # None /\ Diagnosed(EnoughProbes) # None /\ EnoughProbes \in 1..10000
  BY DEF HonestAssumptions, OverheadAssumptions, NoneIsUnwritten
<1>c. Linux.kind = "linux_x11" /\ Linux.version = 1
  BY DEF Linux
<1>5. ValidOverhead(e)
  <2>0. Len(Order) = 10
    BY OrderIs
  <2>a. Len(t) <= Len(Order)
    <3>1. n \in 0..10 /\ Len(t) = n
      BY <1>1
    <3> HIDE DEF n
    <3>2. n <= 10
      BY <3>1
    <3> QED
      BY <2>0, <3>1, <3>2
  <2>1. \A i \in DOMAIN t : <<t[i].pair, t[i].mode>> = Order[i]
    BY <1>2, <1>3
  <2>2. \A i \in DOMAIN t :
          /\ ValidMeasure(t[i]) /\ (t[i].file = None) = (t[i].sha = None)
          /\ t[i].file # None => t[i].mode = "enabled" /\ t[i].file = TraceNames[t[i].pair]
          /\ t[i].mode = "enabled" => t[i].file # None
    BY <1>2, <1>3 DEF Traced
  <2>3. e.state = "completed" => Len(t) = Len(Order)
    BY <1>1, <1>4, <2>0
  <2>4. e.state = "unavailable" => t = <<>>
    <3>1. n = 0 => t = <<>>
      BY <1>1
    <3> QED
      BY <1>4, <3>1
  <2> HIDE DEF e
  <2>5. ValidRuntime(e)
    <3>1. "producer_capture" # "synthetic"
      OBVIOUS
    <3> QED
      BY <1>4, <1>c, <3>1 DEF ValidRuntime
  <2>6. ValidDiagnostic(Diagnosed(EnoughProbes)) /\ Diagnosed(EnoughProbes).kept = EnoughProbes
    BY <1>b DEF Diagnosed, ValidDiagnostic, ValidMeasure
  <2> HIDE DEF n
  <2>7. e.diagnostic # None => ValidDiagnostic(e.diagnostic)
    BY <1>4, <2>6
  <2>8. e.state = "completed" =>
          e.runtime # None /\ e.diagnostic # None /\ e.diagnostic.kept >= EnoughProbes
    BY <1>4, <1>b, <2>6
  <2>9. e.state = "unavailable" => e.runtime = None /\ e.diagnostic = None
    BY <1>4
  <2> QED
    BY <1>4, <2>a, <2>1, <2>2, <2>3, <2>4, <2>5, <2>7, <2>8, <2>9 DEF ValidOverhead, AsDeclared, t
<1>6. DOMAIN files = OverheadFiles(e)
  <2>1. {t[i].file : i \in DOMAIN t} \ {None} = {TraceNames[runs[i].pair] : i \in Traced(runs)}
    <3>1. Traced(runs) \subseteq DOMAIN runs
      BY DEF Traced
    <3>2. \A i \in Traced(runs) : TraceNames[runs[i].pair] # None
      BY <1>1, <3>1 DEF HonestAssumptions, NoneIsUnwritten
    <3> QED
      BY <1>2, <1>3, <3>1, <3>2
  <2> QED
    BY <1>1, <2>1 DEF TracesPrompt, OverheadFiles, t
<1>7. ASSUME NEW i \in DOMAIN t, t[i].file # None PROVE TraceFits(e, t[i], seen.kept[i])
  <2>1. i \in DOMAIN runs /\ i \in Traced(runs)
    BY <1>2, <1>3, <1>7
  <2>2. t[i].file = TraceNames[runs[i].pair] /\ t[i].sha = WellTraced(runs[i])
    BY <1>3, <2>1
  <2>3. t[i].file \in DOMAIN files /\ files[t[i].file] = WellTraced(runs[i])
    <3> HIDE DEF WellTraced
    <3> QED
      BY <1>1, <2>1, <2>2 DEF TracesPrompt
  <2>4. seen.kept[i] = WellTraced(runs[i])
    BY <1>1, <1>7, <2>1, <2>3 DEF KeptOf, Lookup
  <2> DEFINE x == runs[i]
  <2> HIDE DEF x
  <2>5. /\ TraceAccepted(WellTraced(x)) /\ TraceOf(WellTraced(x)) = Record(x) /\ Record(x).version = 1
        /\ Record(x).provenance = "producer_capture" /\ Record(x).policy = NominalPolicy
    BY TraceMade DEF Record
  <2> HIDE DEF e
  <2> QED
    BY <1>4, <2>2, <2>4, <2>5 DEF TraceFits, x
<1>8. ValidPlan(Plans["overhead"]) /\ Plans["overhead"].terms = 1 /\ OverheadPlanned(Plans["overhead"])
  BY DEF HonestAssumptions, OverheadAssumptions, Follows
<1>9. e.runtime # None => e.runtime.version = 1
  BY <1>4, <1>c
<1> HIDE DEF e
<1> QED
  BY <1>1, <1>4, <1>5, <1>6, <1>7, <1>8, <1>9 DEF OverheadAccepted, t

(* All frames but one go through the queue and the encoder. *)
LEMMA FramesExact ==
  ASSUME None \notin {1, 2}, NEW n \in {37, 38}, NEW B \in SUBSET {"queue", "encode"}, B # {}
  PROVE  ExactPairs(Frames(n), B) = n - 1
<1> DEFINE F == Frames(n)
           Good(f) == f.exact /\ \A b \in B : f.enter[b] # None /\ f.exit[b] # None /\ f.exit[b] >= f.enter[b]
           c == F[1].count
<1>1. /\ DOMAIN F = 1..2 /\ c = n - 1 /\ F[1].exact = TRUE
      /\ \A b \in {"queue", "encode"} : F[1].enter[b] = 1 /\ F[1].exit[b] = 2 /\ F[2].enter[b] = 2 /\ F[2].exit[b] = 1
  <2>1. n > 30
    OBVIOUS
  <2> QED
    BY <2>1 DEF Frames
<1>2. ExactPairs(F, B) = SumOf([i \in DOMAIN F |-> IF Good(F[i]) THEN F[i].count ELSE 0])
  BY DEF CountOf, ExactPairs
<1> HIDE DEF F
<1>3. Good(F[1]) /\ ~Good(F[2])
  <2>1. \A b \in B : /\ F[1].enter[b] = 1 /\ F[1].exit[b] = 2 /\ F[2].enter[b] = 2 /\ F[2].exit[b] = 1
    BY <1>1
  <2>2. Good(F[1])
    BY <1>1, <2>1
  <2>3. ~Good(F[2])
    <3>1. PICK b \in B : TRUE
      OBVIOUS
    <3>2. ~(F[2].exit[b] >= F[2].enter[b])
      BY <2>1
    <3> QED
      BY <3>2
  <2> QED
    BY <2>2, <2>3
<1> HIDE DEF Good, c
<1> DEFINE v == [i \in DOMAIN F |-> IF Good(F[i]) THEN F[i].count ELSE 0]
<1>4. \A i \in 1..2 : v[i] = IF i = 1 THEN c ELSE 0
  <2>1. v[1] = c /\ v[2] = 0
    BY <1>1, <1>3 DEF c
  <2>2. \A i \in 1..2 : i = 1 \/ i = 2
    OBVIOUS
  <2> HIDE DEF v
  <2> QED
    BY <2>1, <2>2
<1>5. v = [i \in 1..2 |-> v[i]]
  BY <1>1
<1> HIDE DEF v
<1>6. v = [i \in 1..2 |-> IF i = 1 THEN c ELSE 0]
  BY <1>4, <1>5
<1>7. c \in Int /\ 0 \in Int
  BY <1>1
<1>8. SumOf([i \in 1..2 |-> IF i = 1 THEN c ELSE 0]) = c + 0
  BY <1>7, SumOfTwo
<1> QED
  BY <1>1, <1>2, <1>6, <1>7, <1>8 DEF F, v

LEMMA WellRunNominal ==
  ASSUME HonestAssumptions, NEW x \in Measurable, WellRun(x), x.mode = "enabled", NEW t, Fps(t) = x.fps
  PROVE  Nominal(Record(x), t)
<1> DEFINE n == x.fps
           F == Frames(n)
           all == CountOf(F, LAMBDA f : TRUE)
           both == ExactPairs(F, {"queue", "encode"})
           most == IF all < Fps(t) THEN Fps(t) ELSE all
<1>1. n \in {37, 38} /\ x.lost = 0 /\ x.traced = n
  <2>1. x # [pair |-> x.pair, mode |-> "disabled", cpu |-> 10, fps |-> 40, lost |-> 0, traced |-> 0]
    <3>1. "enabled" # "disabled"
      OBVIOUS
    <3> QED
      BY <3>1
  <2>2. /\ n \in {37, 38}
        /\ x = [pair |-> x.pair, mode |-> "enabled", cpu |-> x.cpu, fps |-> n, lost |-> 0, traced |-> n]
    BY <2>1 DEF WellRun
  <2> HIDE DEF n
  <2> QED
    BY <2>2
<1>2. Record(x).drops = 0 /\ Record(x).frames = F
  BY <1>1 DEF Record
<1>3. None \notin {1, 2} /\ EnoughPairs \in 0..36
  BY DEF HonestAssumptions, OverheadAssumptions, NoneIsUnwritten
<1> HIDE DEF n
<1>4. both = n - 1
  BY <1>1, <1>3, FramesExact
<1>5. \A b \in {"queue", "encode"} : ExactPairs(F, {b}) = n - 1
  BY <1>1, <1>3, FramesExact
<1>6. all = n
  BY <1>1, FramesCounted
<1>7. most = n
  BY <1>1, <1>6 DEF n
<1> HIDE DEF F, all, both, most
<1>8. 100 * both >= 95 * most
  BY <1>1, <1>4, <1>7
<1>9. \A b \in {"queue", "encode"} : ExactPairs(F, {b}) >= EnoughPairs
  BY <1>1, <1>3, <1>5
<1> QED
  BY <1>2, <1>8, <1>9 DEF Nominal, all, both, most

(* Evidence of all runs has a row for every pair. *)
LEMMA AllPairs ==
  ASSUME NEW e, \A p \in 1..5, m \in Modes : RowOf(e, p, m) # None
  PROVE  Len(PairsOf(e)) = 5
<1> DEFINE all == [p \in 1..5 |-> [off |-> RowOf(e, p, "disabled"), on |-> RowOf(e, p, "enabled")]]
           P == {p \in 1..5 : all[p].off # None /\ all[p].on # None}
           S == {all[p] : p \in 1..5}
<1>1. PairsOf(e) = Kept(all, P)
  BY DEF PairsOf
<1>2. all \in [1..5 -> S] /\ DOMAIN all = 1..5
  OBVIOUS
<1>3. P = 1..5
  BY DEF Modes
<1> HIDE DEF all, P, S
<1>4. all \in Seq(S)
  <2> DEFINE n == 5
  <2>1. n \in Nat /\ all \in [1..n -> S]
    BY <1>2
  <2> HIDE DEF n
  <2> QED
    BY <2>1
<1>5. P \in SUBSET DOMAIN all
  BY <1>2, <1>3
<1>6. Len(Kept(all, P)) = Cardinality(P)
  BY <1>4, <1>5, KeptInOrder
<1>7. Cardinality(1..5) = 5
  <2>1. 1 \in Int /\ 5 \in Int
    OBVIOUS
  <2>2. Cardinality(1..5) = IF 1 > 5 THEN 0 ELSE 5 - 1 + 1
    BY <2>1, FS_Interval, Zenon
  <2> QED
    BY <2>2
<1> QED
  BY <1>1, <1>3, <1>6, <1>7

(* Five pairs in their order are passed when they were cheap. *)
LEMMA CheapPasses ==
  ASSUME HonestAssumptions, kind = "overhead", MeasuredTrue, OverheadPrompt, ReadWell, Honest, AllKept,
         seen.index.state = "completed", CheapInTruth
  PROVE  OverheadPassed(seen.index, seen.kept)
<1> DEFINE e == files["index"]
           t == e.trials
           rows == PairsOf(e)
<1>1. /\ EvidencePrompt(runs, e) /\ RunsMeasured(runs) /\ EvidenceTrue(runs, e)
      /\ PairsPrompt(runs) /\ TracesPrompt(runs, files)
      /\ seen.index = e
      /\ \A i \in DOMAIN runs : seen.kept[i] = KeptOf(files, t[i]) /\ t[i] = WellMeasured(runs[i], i)
      /\ \A i \in DOMAIN runs : i \in Nat /\ runs[i] \in Measurable /\ WellRun(runs[i]) /\ runs[i].pair \in 1..5
      /\ Len(t) = Len(runs) /\ DOMAIN t = DOMAIN runs
  BY ReadPrompt DEF EvidenceTrue
<1>2. Len(t) = 10
  BY <1>1 DEF CheapInTruth
<1>3. AsDeclared(e) /\ OverheadAccepted(seen.plan, e, seen.names, seen.kept)
  BY <1>1, OverheadAccepts DEF OverheadAccepted, ValidOverhead
<1>4. \A i \in DOMAIN runs :
        t[i] # None /\ Fps(t[i]) = runs[i].fps /\ (t[i].file # None => i \in Traced(runs))
  <2> TAKE i \in DOMAIN runs
  <2> DEFINE x == runs[i]
             m == WellMeasured(x, i)
  <2>1. x \in Measurable /\ WellRun(x) /\ x.pair \in 1..5 /\ i \in Nat /\ t[i] = m
    BY <1>1
  <2>2. i \in Traced(runs) <=> x.mode = "enabled"
    BY DEF Traced
  <2> HIDE DEF x
  <2>3. m # None /\ Fps(m) = x.fps /\ (m.file # None <=> x.mode = "enabled")
    BY <2>1, WellMeasuredRow
  <2> HIDE DEF m
  <2> QED
    BY <2>1, <2>2, <2>3 DEF x
<1> HIDE DEF t
<1>5. \A p \in 1..5, m \in Modes :
        RowOf(e, p, m) # None /\ (m = "disabled" => Fps(RowOf(e, p, m)) = 40)
  <2> TAKE p \in 1..5, m \in Modes
  <2>1. PICK i \in 1..10 : i \in DOMAIN runs /\ RowOf(e, p, m) = t[i] /\ runs[i].mode = m
    BY <1>1, <1>2, <1>3, PairInOrder DEF t
  <2>2. WellRun(runs[i]) /\ t[i] # None /\ Fps(t[i]) = runs[i].fps
    BY <1>1, <1>4, <2>1
  <2> DEFINE x == runs[i]
  <2>3. m = "disabled" => x.fps = 40
    <3>1. WellRun(x) /\ x.mode = m
      BY <2>1, <2>2
    <3> HIDE DEF x
    <3>2. "enabled" # "disabled"
      OBVIOUS
    <3> SUFFICES ASSUME m = "disabled" PROVE x.fps = 40
      OBVIOUS
    <3>3. x = [pair |-> x.pair, mode |-> "disabled", cpu |-> 10, fps |-> 40, lost |-> 0, traced |-> 0]
      BY <3>1, <3>2 DEF WellRun
    <3> QED
      BY <3>3
  <2> QED
    BY <2>1, <2>2, <2>3
<1>6. Len(rows) = 5
  BY <1>5, AllPairs
<1>7. /\ DOMAIN rows = 1..5
      /\ \A p \in 1..5 : rows[p] = [off |-> RowOf(e, p, "disabled"), on |-> RowOf(e, p, "enabled")]
  BY <1>6, FivePairs
<1> HIDE DEF rows
<1>8. \A p \in 1..5 : BaselineMet(rows[p])
  <2> TAKE p \in 1..5
  <2>1. rows[p].off = RowOf(e, p, "disabled") /\ Fps(RowOf(e, p, "disabled")) = 40
    BY <1>5, <1>7 DEF Modes
  <2> QED
    BY <2>1 DEF BaselineMet
<1>9. \A p \in 1..5 : RowTrue(rows[p], Pair(p, "disabled"), Pair(p, "enabled"))
  BY <1>1, <1>2, <1>3, <1>7, <1>8, RowOfPair DEF t
<1>10. Increase(Middle(rows, LessCost)) <= 5
  BY <1>6, <1>7, <1>9, CheapMiddle DEF CheapInTruth
<1>11. ~Slows(Middle(rows, LessSlow))
  BY <1>6, <1>7, <1>9, FastMiddle DEF CheapInTruth
<1>12. ASSUME NEW i \in DOMAIN t, t[i].file # None PROVE Nominal(TraceOf(seen.kept[i]), t[i])
  <2>1. i \in DOMAIN runs /\ i \in Traced(runs)
    BY <1>1, <1>4, <1>12 DEF t
  <2> DEFINE x == runs[i]
  <2>2. x \in Measurable /\ WellRun(x) /\ x.mode = "enabled" /\ Fps(t[i]) = x.fps
    BY <1>1, <1>4, <2>1 DEF Traced
  <2> HIDE DEF x
  <2>3. Nominal(Record(x), t[i])
    BY <2>2, WellRunNominal
  <2>4. TraceOf(seen.kept[i]) = Record(x)
    <3>1. TraceFits(e, t[i], seen.kept[i])
      BY <1>3, <1>12 DEF OverheadAccepted, t
    <3>2. seen.kept[i] = t[i].sha
      BY <3>1 DEF TraceFits
    <3>3. t[i].sha = WellTraced(x)
      <4>1. t[i] = WellMeasured(x, i) /\ x.pair \in 1..5 /\ i \in Nat
        BY <1>1, <2>1 DEF x, t
      <4> QED
        BY <2>2, <4>1, WellMeasuredRow
    <3> HIDE DEF e
    <3> QED
      BY <3>2, <3>3, TraceMade
  <2> QED
    BY <2>3, <2>4
<1> HIDE DEF e
<1> QED
  BY <1>1, <1>6, <1>7, <1>8, <1>10, <1>11, <1>12 DEF OverheadPassed, rows, t

(* What is reported of a directory in which all went well. *)
LEMMA ReportedHonestly ==
  ASSUME HonestAssumptions, kind \in {"campaign", "overhead"}, DirectoryTrue, MeasuredTrue, ReadWell, CampaignPrompt,
         OverheadPrompt, Report
  PROVE  HonestAccepted'
<1> DEFINE p == seen.plan
           x == seen.index
           k == seen.kept
           accepted == IF kind = "campaign" THEN CampaignAccepted(p, x, seen.names, k)
                       ELSE OverheadAccepted(p, x, seen.names, k)
           passed == accepted /\ IF kind = "campaign" THEN CampaignReport(p, x, k).passed ELSE OverheadPassed(x, k)
<1>1. /\ report'.accepted = accepted /\ report'.honest = Honest /\ report'.passed = passed
      /\ AllKept /\ kind' = kind /\ runs' = runs /\ seen' = seen
  BY DEF Report, Stays
<1>2. CheapInTruth' = CheapInTruth
  BY <1>1 DEF CheapInTruth, Cheap, Fast, Pair
<1>3. SUFFICES ASSUME Honest
               PROVE  accepted /\ (kind = "overhead" /\ x.state = "completed" => passed = CheapInTruth)
  BY <1>1, <1>2 DEF HonestAccepted
<1>4. CASE kind = "campaign"
  BY <1>1, <1>3, <1>4, CampaignAccepts
<1>5. CASE kind = "overhead"
  <2>1. OverheadAccepted(p, x, seen.names, k)
    BY <1>1, <1>3, <1>5, OverheadAccepts
  <2>2. ASSUME x.state = "completed" PROVE OverheadPassed(x, k) <=> CheapInTruth
    <3>1. CheapInTruth => OverheadPassed(x, k)
      BY <1>1, <1>3, <1>5, <2>2, CheapPasses
    <3>2. EvidenceTrue(runs, x) /\ RunsMeasured(runs)
      BY <1>1, <1>5 DEF MeasuredTrue, ReadTrue, ReadWell, InReading, AllKept
    <3>3. OverheadPassed(x, k) => CheapInTruth
      BY <2>1, <3>2, PassedIsCheap
    <3> QED
      BY <3>1, <3>3
  <2>3. passed \in BOOLEAN /\ CheapInTruth \in BOOLEAN
    BY DEF CheapInTruth
  <2>4. kind # "campaign"
    BY <1>5
  <2> QED
    BY <2>1, <2>2, <2>3, <2>4 DEF OverheadPassed, CheapInTruth
<1> QED
  BY <1>4, <1>5

HonestInv ==
  /\ kind \in {"campaign", "overhead"} /\ DirectoryTrue /\ MeasuredTrue
  /\ ReadWell /\ CampaignPrompt /\ OverheadPrompt /\ HonestAccepted
LEMMA HonestBegins ==
  ASSUME HonestAssumptions, CampaignInit
  PROVE  HonestInv
<1>1. DirectoryTrue /\ MeasuredTrue
  BY CampaignBegins, OverheadBegins DEF HonestAssumptions, CampaignInv, OverheadInv
<1>2. ReadWell
  <2>1. moved = 0 /\ report = None /\ seen = Unread
    BY DEF CampaignInit
  <2> QED
    BY <2>1 DEF ReadWell, InReading, Undisturbed, Unread
<1>3. kind \in {"campaign", "overhead"} /\ HonestAccepted
  BY DEF CampaignInit, HonestAccepted
<1> QED
  BY <1>1, <1>2, <1>3, PromptBegins, OverheadPromptBegins DEF HonestInv

LEMMA IndexIsRead ==
  ASSUME HonestInv, seen.plan # None
  PROVE  Len(files["index"].trials) \in Nat
<1> DEFINE t == files["index"].trials
<1>1. IsSequence(t)
  <2>1. CASE kind = "campaign"
    BY <2>1 DEF HonestInv, DirectoryTrue, IndexTrue, ReferencesTrue
  <2>2. CASE kind = "overhead"
    BY <2>2 DEF HonestInv, MeasuredTrue, ReadTrue, EvidenceTrue
  <2> QED
    BY <2>1, <2>2 DEF HonestInv
<1> HIDE DEF t
<1>2. Len(t) \in Nat
  BY <1>1, SequenceShape
<1> QED
  BY <1>2 DEF t

LEMMA HonestStep ==
  ASSUME HonestAssumptions, HonestInv, CampaignInv, OverheadInv, [CampaignNext]_campaignVars
  PROVE  HonestInv'
<1> USE DEF HonestInv
<1>0. DirectoryTrue' /\ MeasuredTrue'
  BY CampaignStep, OverheadStep DEF HonestAssumptions, CampaignInv, OverheadInv
<1>1. ASSUME Produce PROVE HonestInv'
  <2>1. PICK of : Acts(of)
    BY <1>1 DEF Produce, Acquire, NotAcquired, Register, Finish, Tampered, RunPair, Overwritten, WriteEvidence
  <2>2. kind' = kind /\ report' = None /\ ReadWell'
    BY <2>1, ActsApart DEF Acts
  <2>3. CampaignPrompt'
    BY <1>1, <2>2, PromptProduce DEF CampaignPrompt
  <2>4. OverheadPrompt'
    BY <1>1, <2>2, PromptOverhead DEF OverheadPrompt
  <2> QED
    BY <1>0, <2>2, <2>3, <2>4 DEF HonestAccepted
<1>2. ASSUME Inspect PROVE HonestInv'
  <2>1. UNCHANGED <<kind, files, runs, pending, trouble, moved>> /\ Stays
    BY <1>2 DEF Inspect, ReadPlan, ReadIndex, ListDirectory, ReadTrial, Report, Stays
  <2>2. CampaignPrompt' /\ OverheadPrompt'
    BY <2>1 DEF CampaignPrompt, OverheadPrompt
  <2>3. CASE Report
    <3>1. ReadWell'
      <4>1. seen' = seen /\ AllKept
        BY <2>3 DEF Report
      <4>2. seen.plan # None /\ seen.index # None /\ AllKept'
        BY <4>1 DEF ReadWell, InReading, AllKept
      <4> QED
        BY <2>1, <4>1, <4>2 DEF ReadWell, Undisturbed
    <3> QED
      BY <1>0, <2>1, <2>2, <2>3, <3>1, ReportedHonestly
  <2>4. CASE ReadPlan \/ ReadIndex \/ ListDirectory \/ ReadTrial
    <3>1. report' = report
      BY <2>4 DEF ReadPlan, ReadIndex, ListDirectory, ReadTrial
    <3>2. report = None
      BY <2>4 DEF ReadWell, ReadPlan, ReadIndex, ListDirectory, ReadTrial, Reading, AllKept
    <3>3. ReadWell'
      BY <2>1, <2>4, <3>1, ReadApart, IndexIsRead
    <3> QED
      BY <1>0, <2>1, <2>2, <3>1, <3>2, <3>3 DEF HonestAccepted
  <2> QED
    BY <1>2, <2>3, <2>4 DEF Inspect
<1>3. ASSUME UNCHANGED campaignVars PROVE HonestInv'
  <2>1. UNCHANGED <<kind, files, runs, pending, trouble, seen, moved, report>>
    BY <1>3 DEF campaignVars
  <2>2. CheapInTruth' = CheapInTruth
    BY <2>1 DEF CheapInTruth, Cheap, Fast, Pair
  <2>3. HonestAccepted'
    BY <2>1, <2>2 DEF HonestAccepted
  <2>4. CampaignPrompt' /\ OverheadPrompt'
    BY <2>1 DEF CampaignPrompt, OverheadPrompt
  <2>5. ReadWell'
    BY <2>1 DEF ReadWell, Undisturbed, AllKept
  <2> QED
    BY <1>0, <2>1, <2>3, <2>4, <2>5
<1> QED
  BY <1>1, <1>2, <1>3 DEF CampaignNext

LEMMA HonestHolds == HonestAssumptions
  BY CampaignHolds, FollowedAssumption, UnwrittenAssumption, EnoughPairsAssumption, EnoughProbesAssumption DEF HonestAssumptions, OverheadAssumptions, Plan

(* A directory in which nothing went wrong and that nobody wrote to while  *)
(* it was read is accepted, and an overhead that was cheap is passed: for  *)
(* every campaign plan and at every step of the producer at which it is    *)
(* read. *)
THEOREM HonestIsAccepted == CampaignSpec => []HonestAccepted
<1> DEFINE Inv == HonestInv /\ CampaignInv /\ OverheadInv
<1>1. CampaignInit => Inv
  BY HonestHolds, HonestBegins, CampaignHolds, CampaignBegins, OverheadBegins
<1>2. Inv /\ [CampaignNext]_campaignVars => Inv'
  <2>1. HonestInv /\ CampaignInv /\ OverheadInv /\ [CampaignNext]_campaignVars => HonestInv'
    BY HonestHolds, HonestStep
  <2>2. CampaignInv /\ OverheadInv /\ [CampaignNext]_campaignVars => CampaignInv' /\ OverheadInv'
    BY CampaignHolds, CampaignStep, OverheadStep
  <2> QED
    BY <2>1, <2>2
<1>3. Inv => HonestAccepted
  BY DEF HonestInv
<1> QED
  BY <1>1, <1>2, <1>3, PTL DEF CampaignSpec
=============================================================================
