--------------------------- MODULE MCBuildPipeline ---------------------------
(* The scripts treat the two architectures alike.                           *)
EXTENDS BuildPipeline, TLC

ArchSymmetry == Permutations(Archs)
=============================================================================
