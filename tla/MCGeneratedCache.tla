-------------------------- MODULE MCGeneratedCache --------------------------
(* Instances of GeneratedCache for TLC.                                    *)
EXTENDS GeneratedCache, TLC

CONSTANTS c1, c2

Symmetry == Permutations(Commits)

=============================================================================
