--------------------------- MODULE MCSealService ---------------------------
(* Finite instances of SealService and the routes next to it for TLC.      *)
EXTENDS SealProperties, TLC

TwoSealsPerPlan == [w \in Workspaces |-> 2]

(* Evidence references are interchangeable, and so are the creating        *)
(* requests, whose order of sequence numbers the invariants do not mention.*)
RefSymmetry     == Permutations(Refs)
RequestSymmetry == Permutations(Refs) \cup Permutations(Creators)

(* What MCSealChain looks at: two issues next to revocations and readers,  *)
(* in one month, or three issues over the end of the month.                *)
Busy(requests) == {r \in requests : pc[r] # "idle"}
Scenarios ==
  Busy(Revokers \cup Verifiers) # {} => clock.month = 1 /\ Busy(Creators) # Creators

=============================================================================
