-------------------------- MODULE MCIndexProtocol ---------------------------
(* IndexProtocol on small instances.  The .cfg files pick the sets; this     *)
(* module names the values a .cfg cannot write.                              *)
EXTENDS IndexProtocol, TLC

CONSTANTS v0, v1

(* Every file there and committed at the start.                              *)
AllPresent == [f \in Files |-> v0]

(* What a map may be asked to cover.                                         *)
WholeRepo == {Files}
WholeAndPart == {Files, Files \ {"b.cs"}}

(* No definition tells one checkout, or one map process, from another.       *)
WorktreesAlike == Permutations(Worktrees)
MappersAlike == Permutations(Mappers)
=============================================================================
