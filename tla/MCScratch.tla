----------------------------- MODULE MCScratch ------------------------------
(* Instances of ScratchQuota for TLC. *)
EXTENDS ScratchQuota, TLC

OneSize == {1}
UpToTwo == {0, 1, 2}
OverQuota == {1, 3}

ScratchSymmetry == Permutations(Callers) \union Permutations(Files)
=============================================================================
