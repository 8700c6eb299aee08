------------------------- MODULE MCEditorDocuments -------------------------
(* An instance of EditorDocuments for TLC.                                 *)
EXTENDS EditorDocuments, TLC

CONSTANTS s1, s2

\* The first project lacks one of the documents of the second.
TwoProjects == [P \in {"a", "b"} |-> IF P = "a" THEN {"p"} ELSE {"p", "q"}]

Symmetry == Permutations(Slots)

=============================================================================
