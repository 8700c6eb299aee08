---------------------------- MODULE RunLifecycle ----------------------------
(***************************************************************************)
(* What the durable-run store promises to whoever watches one run, however *)
(* many processes work on it: a status that follows the transition table   *)
(* and a history of attempts that only grows, in which attempts follow     *)
(* each other one at a time, nothing follows a success, and success comes  *)
(* before completion.                                                      *)
(***************************************************************************)
EXTENDS ExecutionStateMachine, Naturals, Sequences

CONSTANT MayOverrun   \* may the budget's deadline pass while the run works?

VARIABLES
    status,    \* the run's status; "absent" before, "deleted" after
    history    \* the statuses of its attempts, in order

vars == <<status, history>>

Last        == Len(history)
Working     == Last > 0 /\ history[Last] = "running"
Succeeded   == Last > 0 /\ history[Last] = "done"
Ended(end)  == [history EXCEPT ![Last] = end]

Init == status = "absent" /\ history = <<>>

Submit == status = "absent" /\ status' = "queued" /\ UNCHANGED history

\* The status moves along the table; a run completes only after a success.
Move ==
    /\ status \in RunStatus
    /\ status' \in RunTransitions[status]
    /\ status' = "completed" => Succeeded
    /\ UNCHANGED history

\* A budget that is used up by the clock pauses the run wherever it is.
Overrun ==
    /\ MayOverrun /\ status \in RunStatus
    /\ status' = "paused" /\ UNCHANGED history

Begin ==
    /\ status \in RunStatus /\ ~Working /\ ~Succeeded
    /\ history' = Append(history, "running")
    /\ UNCHANGED status

End ==
    /\ status \in RunStatus /\ Working
    /\ \E end \in AttemptStatus \ {"running"} : history' = Ended(end)
    /\ UNCHANGED status

\* The takeover of a run whose runtime has stopped.
Recover ==
    /\ status = "running" /\ status' = "paused"
    /\ Working /\ history' = Ended("interrupted")

Delete == status \in RunTerminal /\ status' = "deleted" /\ history' = <<>>

Next == Submit \/ Move \/ Overrun \/ Begin \/ End \/ Recover \/ Delete

Spec == Init /\ [][Next]_vars

=============================================================================
