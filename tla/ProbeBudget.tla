---------------------------- MODULE ProbeBudget ----------------------------
(***************************************************************************)
(* What the passive gate promises whoever acts on its proposals: at most   *)
(* MaxProposals probes in one replay, and CooldownMs or more between one   *)
(* and the next.  Nothing is said of why a probe is proposed.              *)
(***************************************************************************)
EXTENDS Integers

CONSTANTS Null, MaxProposals, CooldownMs

VARIABLES proposals, last_proposal_ms

vars == <<proposals, last_proposal_ms>>

Init ==
  /\ proposals = 0
  /\ last_proposal_ms = Null

Grant ==
  /\ proposals < MaxProposals
  /\ proposals' = proposals + 1
  /\ last_proposal_ms' \in Nat
  /\ last_proposal_ms # Null => last_proposal_ms' >= last_proposal_ms + CooldownMs

Spec == Init /\ [][Grant]_vars
=============================================================================
