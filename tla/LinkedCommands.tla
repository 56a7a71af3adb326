--------------------------- MODULE LinkedCommands ---------------------------
(***************************************************************************)
(* The command line as processes over one file system.  A command reads    *)
(* its operand files, may inspect a calibration directory, and writes one  *)
(* output through a temporary file (observability/output.py).  Commands    *)
(* run concurrently, fail at any step, or crash; meanwhile other programs  *)
(* rename directories and edit files.  A directory or a file is its inode: *)
(* a path is looked up anew at every use, a pinned descriptor never is.    *)
(***************************************************************************)
EXTENDS Integers, Sequences

CONSTANTS
  Procs,       \* processes, one command each; p also names p's temporary file,
               \*   its inode and its complete output
  Dirs,        \* directory inodes
  DirPaths,    \* paths of directories
  Names,       \* file names a user chooses
  Files,       \* inodes of the files there are at the start
  Contents,    \* what those may hold
  Declared,    \* manifest content -> the <<name, content>> of its artifacts
  Manifest,    \* calibration-dataset.json
  Null, Partial,
  Commands,    \* the commands a process may run
  Where0, Tree0, Bytes0,   \* the file system at the start
  Edits,       \* the <<inode, content>> other programs may store
  MaxMoves     \* bound on what other programs do

Path == [dir : DirPaths, name : Names]
Command == [operands : Seq(Path), dataset : DirPaths \cup {Null}, output : Path,
            guarded : BOOLEAN, seals_members : BOOLEAN, outside : BOOLEAN]

(* The commands of the program: which operands they read, and what their   *)
(* output must not overlap.                                                *)
ProfileCommand(operands, dataset, output) ==
  [operands |-> operands, dataset |-> dataset, output |-> output,
   guarded |-> TRUE, seals_members |-> FALSE, outside |-> FALSE]
PassiveCommand(operands, dataset, output) ==
  [operands |-> operands, dataset |-> dataset, output |-> output,
   guarded |-> TRUE, seals_members |-> TRUE, outside |-> FALSE]
MatchCommand(operands, dataset, output) ==
  [operands |-> operands, dataset |-> dataset, output |-> output,
   guarded |-> TRUE, seals_members |-> TRUE, outside |-> FALSE]
InspectCalibration(dataset, output) ==
  [operands |-> <<>>, dataset |-> dataset, output |-> output,
   guarded |-> FALSE, seals_members |-> FALSE, outside |-> TRUE]
TraceCommand(operand, output) ==
  [operands |-> <<operand>>, dataset |-> Null, output |-> output,
   guarded |-> FALSE, seals_members |-> FALSE, outside |-> FALSE]

ASSUME CommandsAssumption == Commands \subseteq Command
ASSUME FileSystemAssumption ==
  /\ Where0 \in [DirPaths -> Dirs]
  /\ Tree0 \in [Dirs -> [Names -> Files \cup {Null}]]
  /\ Bytes0 \in [Files -> Contents]
  /\ Edits \subseteq Files \X Contents
  /\ DOMAIN Declared \subseteq Contents
  /\ \A m \in DOMAIN Declared : Declared[m] \in Seq(Names \X Contents)
  /\ Null \notin Files \cup Procs \cup Contents \cup DirPaths \cup Dirs
  /\ Partial \notin Contents \cup Procs
  /\ Procs \cap (Names \cup Files \cup Contents) = {}
  /\ MaxMoves \in Nat

VARIABLES
  command, pc,
  taken,       \* operands, then artifacts, read so far
  op_names, op_files, op_dirs,   \* _Operands: what the output must not overlap
  pinned, inventory, manifest, members,   \* DatasetSnapshot
  parent,      \* the output's directory, once opened
  where, tree, bytes,            \* the file system
  moves

operandVars == <<op_names, op_files, op_dirs>>
datasetVars == <<pinned, inventory, manifest, members>>
fileVars == <<tree, bytes>>
vars == <<command, pc, taken, operandVars, datasetVars, parent, where, fileVars, moves>>

Ended == {"done", "failed", "crashed"}
BugNamesIn(d) == {n \in Names : tree[d][n] # Null}
NamesIn(d) == {n \in Names \cup Procs : tree[d][n] # Null}

Init ==
  /\ command \in [Procs -> Commands]
  /\ pc = [p \in Procs |-> IF command[p].outside THEN "outside" ELSE "operands"]
  /\ taken = [p \in Procs |-> 0]
  /\ op_names = [p \in Procs |-> {}]
  /\ op_files = [p \in Procs |-> {}]
  /\ op_dirs = [p \in Procs |-> {}]
  /\ pinned = [p \in Procs |-> Null]
  /\ inventory = [p \in Procs |-> {}]
  /\ manifest = [p \in Procs |-> Null]
  /\ members = [p \in Procs |-> {}]
  /\ parent = [p \in Procs |-> Null]
  /\ where = Where0
  /\ tree = [d \in Dirs |-> [n \in Names \cup Procs |->
                               IF n \in Names THEN Tree0[d][n] ELSE Null]]
  /\ bytes = [f \in Files \cup Procs |-> IF f \in Files THEN Bytes0[f] ELSE Null]
  /\ moves = 0

Goto(p, from, to) == pc[p] = from /\ pc' = [pc EXCEPT ![p] = to]

-----------------------------------------------------------------------------
(* _reject_input_output: inspect-calibration compares the two directories  *)
(* before it reads anything, and closes both again.  A definition whose    *)
(* name starts with Bug is what a slip would make of the one after it.     *)
RejectInputOutput(p) ==
  /\ Goto(p, "outside", "operands")
  /\ where[command[p].dataset] # where[command[p].output.dir]
  /\ UNCHANGED <<command, taken, operandVars, datasetVars, parent, where, fileVars, moves>>

ReadOperand(p) ==
  /\ pc[p] = "operands"
  /\ taken[p] < Len(command[p].operands)
  /\ LET o == command[p].operands[taken[p] + 1]
         d == where[o.dir]
         f == tree[d][o.name]
     IN /\ f # Null
        /\ bytes[f] # Partial
        /\ op_names' = [op_names EXCEPT ![p] = @ \cup {<<d, o.name>>}]
        /\ op_files' = [op_files EXCEPT ![p] = @ \cup {f}]
  /\ taken' = [taken EXCEPT ![p] = @ + 1]
  /\ UNCHANGED <<command, pc, op_dirs, datasetVars, parent, where, fileVars, moves>>

OperandsRead(p) == taken[p] = Len(command[p].operands)

PinDataset(p) ==
  /\ Goto(p, "operands", "manifest")
  /\ OperandsRead(p)
  /\ command[p].dataset # Null
  /\ LET d == where[command[p].dataset]
     IN /\ NamesIn(d) \subseteq Names
        /\ Manifest \in NamesIn(d)
        /\ pinned' = [pinned EXCEPT ![p] = d]
        /\ inventory' = [inventory EXCEPT ![p] = NamesIn(d)]
  /\ UNCHANGED <<command, taken, operandVars, manifest, members, parent, where,
                 fileVars, moves>>

ReadManifest(p) ==
  /\ Goto(p, "manifest", "artifacts")
  /\ LET f == tree[pinned[p]][Manifest]
     IN /\ f # Null
        /\ bytes[f] \in DOMAIN Declared
        /\ inventory[p] = {Manifest} \cup {a[1] : a \in {Declared[bytes[f]][i] :
                                             i \in DOMAIN Declared[bytes[f]]}}
        /\ manifest' = [manifest EXCEPT ![p] = bytes[f]]
        /\ members' = [members EXCEPT ![p] = {f}]
  /\ taken' = [taken EXCEPT ![p] = 0]
  /\ UNCHANGED <<command, operandVars, pinned, inventory, parent, where, fileVars, moves>>

(* An artifact's bytes must have the hash its manifest declares. *)
ReadArtifact(p) ==
  /\ pc[p] = "artifacts"
  /\ taken[p] < Len(Declared[manifest[p]])
  /\ LET a == Declared[manifest[p]][taken[p] + 1]
         f == tree[pinned[p]][a[1]]
     IN /\ f # Null
        /\ bytes[f] = a[2]
        /\ members' = [members EXCEPT ![p] = @ \cup {f}]
  /\ taken' = [taken EXCEPT ![p] = @ + 1]
  /\ UNCHANGED <<command, pc, operandVars, pinned, inventory, manifest, parent,
                 where, fileVars, moves>>

CloseDataset(p) ==
  /\ Goto(p, "artifacts", "parent")
  /\ taken[p] = Len(Declared[manifest[p]])
  /\ NamesIn(pinned[p]) = inventory[p]
  /\ op_dirs' = [op_dirs EXCEPT ![p] = @ \cup {pinned[p]}]
  /\ op_files' = [op_files EXCEPT ![p] =
                    @ \cup IF command[p].seals_members THEN members[p] ELSE {}]
  /\ UNCHANGED <<command, taken, op_names, datasetVars, parent, where, fileVars, moves>>

NoDataset(p) ==
  /\ Goto(p, "operands", "parent")
  /\ OperandsRead(p)
  /\ command[p].dataset = Null
  /\ UNCHANGED <<command, taken, operandVars, datasetVars, parent, where, fileVars, moves>>

-----------------------------------------------------------------------------
(* write_trace_output *)
OpenParent(p) ==
  /\ Goto(p, "parent", "guard")
  /\ parent' = [parent EXCEPT ![p] = where[command[p].output.dir]]
  /\ UNCHANGED <<command, taken, operandVars, datasetVars, where, fileVars, moves>>

Target(p) == tree[parent[p]][command[p].output.name]

BugOverlaps(p) ==
  \/ parent[p] \in op_dirs[p]
  \/ <<parent[p], command[p].output.name>> \in op_names[p]
Overlaps(p) ==
  \/ parent[p] \in op_dirs[p]
  \/ <<parent[p], command[p].output.name>> \in op_names[p]
  \/ Target(p) \in op_files[p]

Guard(p) ==
  /\ Goto(p, "guard", "create")
  /\ command[p].guarded => ~Overlaps(p)
  /\ UNCHANGED <<command, taken, operandVars, datasetVars, parent, where, fileVars, moves>>

Create(p) ==
  /\ Goto(p, "create", "write")
  /\ tree' = [tree EXCEPT ![parent[p]][p] = p]
  /\ bytes' = [bytes EXCEPT ![p] = Partial]
  /\ UNCHANGED <<command, taken, operandVars, datasetVars, parent, where, moves>>

BugWrite(p) ==
  /\ Goto(p, "write", "replace")
  /\ UNCHANGED <<command, taken, operandVars, datasetVars, parent, where, fileVars, moves>>
Write(p) ==
  /\ Goto(p, "write", "replace")
  /\ bytes' = [bytes EXCEPT ![p] = p]
  /\ UNCHANGED <<command, taken, operandVars, datasetVars, parent, where, tree, moves>>

Replace(p) ==
  /\ Goto(p, "replace", "done")
  /\ tree' = [tree EXCEPT ![parent[p]][command[p].output.name] = p,
                          ![parent[p]][p] = Null]
  /\ UNCHANGED <<command, taken, operandVars, datasetVars, parent, where, bytes, moves>>

(* Any step may raise; the temporary file, once created, is unlinked.      *)
Fail(p) ==
  /\ pc[p] \notin Ended
  /\ pc' = [pc EXCEPT ![p] = "failed"]
  /\ tree' = IF pc[p] \in {"write", "replace"}
             THEN [tree EXCEPT ![parent[p]][p] = Null] ELSE tree
  /\ UNCHANGED <<command, taken, operandVars, datasetVars, parent, where, bytes, moves>>

Crash(p) ==
  /\ pc[p] \notin Ended
  /\ pc' = [pc EXCEPT ![p] = "crashed"]
  /\ UNCHANGED <<command, taken, operandVars, datasetVars, parent, where, fileVars, moves>>

-----------------------------------------------------------------------------
(* Other programs: two directories trade paths; a file is edited in place. *)
SwapDirectories ==
  /\ moves < MaxMoves
  /\ \E a, b \in DirPaths :
       /\ a # b
       /\ where' = [where EXCEPT ![a] = where[b], ![b] = where[a]]
  /\ moves' = moves + 1
  /\ UNCHANGED <<command, pc, taken, operandVars, datasetVars, parent, fileVars>>

EditFile ==
  /\ moves < MaxMoves
  /\ \E e \in Edits : bytes[e[1]] # e[2] /\ bytes' = [bytes EXCEPT ![e[1]] = e[2]]
  /\ moves' = moves + 1
  /\ UNCHANGED <<command, pc, taken, operandVars, datasetVars, parent, where, tree>>

Step(p) ==
  \/ RejectInputOutput(p)
  \/ ReadOperand(p)
  \/ PinDataset(p)
  \/ ReadManifest(p)
  \/ ReadArtifact(p)
  \/ CloseDataset(p)
  \/ NoDataset(p)
  \/ OpenParent(p)
  \/ Guard(p)
  \/ Create(p)
  \/ Write(p)
  \/ Replace(p)
  \/ Fail(p)

Next ==
  \/ \E p \in Procs : Step(p) \/ Crash(p)
  \/ SwapDirectories
  \/ EditFile

Spec == Init /\ [][Next]_vars

-----------------------------------------------------------------------------
TypeOK ==
  /\ command \in [Procs -> Commands]
  /\ pc \in [Procs -> {"outside", "operands", "manifest", "artifacts", "parent",
                       "guard", "create", "write", "replace"} \cup Ended]
  /\ taken \in [Procs -> Nat]
  /\ op_names \in [Procs -> SUBSET (Dirs \X Names)]
  /\ op_files \in [Procs -> SUBSET (Files \cup Procs)]
  /\ op_dirs \in [Procs -> SUBSET Dirs]
  /\ pinned \in [Procs -> Dirs \cup {Null}]
  /\ inventory \in [Procs -> SUBSET Names]
  /\ manifest \in [Procs -> DOMAIN Declared \cup {Null}]
  /\ members \in [Procs -> SUBSET (Files \cup Procs)]
  /\ parent \in [Procs -> Dirs \cup {Null}]
  /\ where \in [DirPaths -> Dirs]
  /\ tree \in [Dirs -> [Names \cup Procs -> Files \cup Procs \cup {Null}]]
  /\ bytes \in [Files \cup Procs -> Contents \cup Procs \cup {Null, Partial}]
  /\ moves \in 0..MaxMoves

(* A temporary file exists only while its command writes it, or after a    *)
(* crash; a command that fails leaves none behind.                         *)
NoLitter ==
  \A p \in Procs, d \in Dirs :
    tree[d][p] # Null =>
      /\ d = parent[p]
      /\ pc[p] \in {"write", "replace", "crashed"}

Disturbed(d, n) == tree'[d][n] # tree[d][n]

(* A guarded command never takes a name away from a file it read: not its  *)
(* operand's path, not another name of the same file, whatever directories *)
(* were renamed and whatever other commands wrote in the meantime.         *)
OperandsSurvive ==
  [][\A p \in Procs :
       command[p].guarded /\ pc[p] = "replace" /\ pc'[p] = "done" =>
         \A d \in Dirs, n \in Names : Disturbed(d, n) =>
           /\ tree[d][n] \notin op_files[p]
           /\ <<d, n>> \notin op_names[p]]_vars

(* A guarded command changes nothing in the directory it inspected, and a  *)
(* command that reports the members it read spares every link to them.     *)
SourceSurvives ==
  [][\A p \in Procs :
       command[p].guarded /\ pc[p] = "replace" /\ pc'[p] = "done" =>
         \A d \in Dirs, n \in Names : Disturbed(d, n) =>
           /\ d # pinned[p]
           /\ command[p].seals_members => tree[d][n] \notin members[p]]_vars

(* inspect-calibration compares its two directories first and opens them   *)
(* again later: while no other program has touched the file system, its    *)
(* report stays out of the dataset whatever other commands write.          *)
ReportOutside ==
  [][\A p \in Procs :
       command[p].outside /\ moves = 0 /\ pc[p] = "replace" /\ pc'[p] = "done" =>
         parent[p] # pinned[p]]_vars

(* A command that has read a dataset to its end read nothing that another  *)
(* command wrote, and nothing of another command stands in the directory,  *)
(* finished or not, unless it has taken the place of a file the dataset    *)
(* declares, after that was read: whoever published there meanwhile.       *)
MembersOf(m) == {Manifest} \cup {Declared[m][i][1] : i \in DOMAIN Declared[m]}
PublishedApart ==
  [][\A p, q \in Procs :
       pc[p] = "artifacts" /\ pc'[p] = "parent" =>
         /\ q \notin members[p] /\ tree[pinned[p]][q] = Null
         /\ \A n \in Names : tree[pinned[p]][n] = q => n \in MembersOf(manifest[p])]_vars

(* A command never destroys what it read: operands, dataset and members    *)
(* survive it, and a report stays out of its dataset.  Nor does it take    *)
(* what another command publishes for a part of what it reads.             *)
InputsSurvive == OperandsSurvive /\ SourceSurvives /\ ReportOutside /\ PublishedApart

(* No reader ever finds part of an output, and a command that did not      *)
(* succeed has changed nothing, nor left anything behind unless it         *)
(* crashed: all commands implement AtomicOutput.                           *)
Output == INSTANCE AtomicOutput WITH
  shown <- [d \in Dirs |-> [n \in Names |->
              IF tree[d][n] = Null THEN Null ELSE bytes[tree[d][n]]]],
  outcome <- [p \in Procs |->
                CASE pc[p] = "done" -> "done"
                  [] pc[p] \in {"failed", "crashed"} -> "failed"
                  [] OTHER -> "running"]
WritesAtomically == Output!Spec /\ [](TypeOK /\ NoLitter)
=============================================================================
