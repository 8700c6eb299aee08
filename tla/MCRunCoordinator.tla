-------------------------- MODULE MCRunCoordinator --------------------------
(* Instances of RunCoordinator for TLC.                                    *)
EXTENDS RunCoordinator, TLC

\* A chat request can be retried and needs no confirmation of its own; a
\* file operation cannot be retried after it failed, and is not resumed by
\* recovery.
ChatRequest == [fileOp |-> FALSE, retryable |-> TRUE, confirm |-> FALSE]
FileRequest == [fileOp |-> TRUE, retryable |-> FALSE, confirm |-> TRUE]

OnlyChat    == {ChatRequest}
OnlyFile    == {FileRequest}
ChatAndFile == {ChatRequest, FileRequest}

Symmetry == Permutations(Runtimes)

=============================================================================
