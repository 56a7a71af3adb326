---------------------------- MODULE AtomicOutput ----------------------------
(***************************************************************************)
(* What a command's output promises: at one instant its whole result       *)
(* appears under the output's name and the command has succeeded, or       *)
(* nothing ever appears.  Files that are not outputs keep a whole content. *)
(***************************************************************************)
CONSTANTS Procs, Dirs, Names, Contents, Null

VARIABLES
  shown,    \* the content a reader finds under a name of a directory
  outcome   \* "running", "done" or "failed"

vars == <<shown, outcome>>

Init ==
  /\ shown \in [Dirs -> [Names -> Contents \cup {Null}]]
  /\ outcome = [p \in Procs |-> "running"]

Publish(p) ==
  /\ outcome[p] = "running"
  /\ outcome' = [outcome EXCEPT ![p] = "done"]
  /\ \E d \in Dirs, n \in Names : shown' = [shown EXCEPT ![d][n] = p]

GiveUp(p) ==
  /\ outcome[p] = "running"
  /\ outcome' = [outcome EXCEPT ![p] = "failed"]
  /\ UNCHANGED shown

(* Someone else changes files that are not outputs. *)
Edit ==
  /\ \A d \in Dirs, n \in Names :
       \/ shown'[d][n] = shown[d][n]
       \/ shown[d][n] \in Contents /\ shown'[d][n] \in Contents
  /\ UNCHANGED outcome

Next == Edit \/ \E p \in Procs : Publish(p) \/ GiveUp(p)

Spec == Init /\ [][Next]_vars
=============================================================================
