----------------------- MODULE ExecutionStateMachine -----------------------
(***************************************************************************)
(* The status vocabularies of a durable run and the table of its statuses  *)
(* (packages/agent-runtime/src/kernel/execution-state-machine.ts).  The    *)
(* table is data: the coordinator asserts it before some writes, the store *)
(* never does.  The table of the steps is in the guards of RunCoordinator. *)
(***************************************************************************)

RunStatus ==
    {"queued", "planning", "running", "waiting_user_input",
     "waiting_confirmation", "paused", "failed", "cancelling",
     "cancelled", "completed"}

StepStatus ==
    {"pending", "running", "waiting_confirmation", "failed", "done",
     "skipped", "cancelled"}

AttemptStatus == {"running", "done", "failed", "interrupted", "cancelled"}

RunTransitions ==
    [queued               |-> {"planning", "paused", "cancelling"},
     planning             |-> {"waiting_user_input", "running", "paused",
                               "cancelling", "failed"},
     running              |-> {"waiting_user_input", "waiting_confirmation",
                               "paused", "cancelling", "failed", "completed"},
     waiting_user_input   |-> {"planning", "running", "paused", "cancelling",
                               "failed"},
     waiting_confirmation |-> {"running", "paused", "cancelling", "failed"},
     paused               |-> {"running", "cancelling"},
     failed               |-> {"running", "paused", "cancelling"},
     cancelling           |-> {"cancelled"},
     cancelled            |-> {},
     completed            |-> {}]

RunTerminal == {"cancelled", "completed"}

\* updateRun asserts the table only when the status really changes.
RunMayBecome(from, to) == from = to \/ to \in RunTransitions[from]

-----------------------------------------------------------------------------
(* requestCooperativeRunControl: a cancel always asks for "cancelling"; a  *)
(* pause leaves the status alone while work is in flight and lets the      *)
(* worker settle it at its next checkpoint.                                *)

ControlAllowed(current, request) ==
    /\ current \notin RunTerminal \cup {"cancelling"}
    /\ request = "pause" => current \notin {"paused", "failed"}
    /\ IF request = "cancel" THEN "cancelling" \in RunTransitions[current]
                             ELSE "paused" \in RunTransitions[current]

ControlStatus(current, request, inFlight) ==
    IF request = "cancel" THEN "cancelling"
    ELSE IF inFlight THEN current ELSE "paused"

=============================================================================
