--------------------------- MODULE MCModelBudget ---------------------------
(* The instance of ModelBudget for TLC.                                    *)
EXTENDS ModelBudget

\* Whatever can come between the steps of two requests.
Everything == {"pause", "cancel", "crash", "overlap", "deadline", "disconnect"}

=============================================================================
