------------------------- MODULE MCConversationFiles -------------------------
(* The histories of one conversation that the runs explore. *)
EXTENDS ConversationFiles, TLC

(* Two operations at a time on a conversation that exists and a disk that   *)
(* never fails, or one at a time, from its creation on, where writes fail;  *)
(* the process may die in either.                                           *)
TwoOrFailing ==
    {[created |-> TRUE, together |-> 2, fails |-> FALSE],
     [created |-> FALSE, together |-> 1, fails |-> TRUE]}

(* The operations differ only in what they are asked to do.                 *)
Symmetry == Permutations(Operations)
=============================================================================
