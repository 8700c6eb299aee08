-------------------------- MODULE MCCommitJournal --------------------------
(* The instance of CommitJournal for TLC.                                  *)
EXTENDS CommitJournal

CONSTANTS a1, a2, before, after, edited

\* The attempts are those of one step, which share its idempotency key.
OneRun  == [a \in Attempts |-> "r1"]
OneStep == [a \in Attempts |-> "s1"]
OneKey  == [a \in Attempts |-> "k"]

=============================================================================
