---------------------------- MODULE ModelBudget ----------------------------
(***************************************************************************)
(* The budget of one durable run and the model calls charged to it: the    *)
(* table agent_model_budget_reservations (kernel/execution-store.ts), the  *)
(* lifecycle that surrounds every physical request to a provider           *)
(* (AgentRuntimeService.withDurableModelBudget, OpenAICompatibleClient     *)
(* .fetchChatCompletions), and what the run does meanwhile.                *)
(*                                                                         *)
(* A call reserves before it is sent, is marked as dispatched just before  *)
(* the request leaves, and is settled when its answer is consumed.         *)
(* Several calls of one attempt are in flight at once (the reviewers of a  *)
(* novel room, the batches of a disassembly), several processes share the  *)
(* store, and a process may crash between any two steps.                   *)
(*                                                                         *)
(* The budget bounds calls, input tokens, output tokens and cost.  The     *)
(* last three are treated alike by the code; "tokens" stands for each.     *)
(* The run's other transitions are those of RunCoordinator, each method    *)
(* taken as one step here.                                                 *)
(***************************************************************************)
EXTENDS ExecutionStateMachine, Integers, FiniteSets

CONSTANTS
    Runtimes,     \* launches of the application on this project
    Calls,        \* physical requests to a provider
    MaxCalls,     \* budget.max_model_calls
    MaxTokens,    \* budget.max_output_tokens (or input tokens, or cost)
    Caps,         \* what a request may reserve: its output cap, reasoning included
    Bills,        \* what a provider may bill for one request
    MaxAttempts,  \* bound: attempts of the run
    Environment   \* what happens besides: "pause", "cancel", "crash",
                  \* "overlap", "deadline", "disconnect"

ASSUME BudgetAssumption ==
    /\ IsFiniteSet(Calls)
    /\ MaxCalls \in Nat \ {0} /\ MaxTokens \in Nat \ {0}
    /\ Caps \subseteq Nat \ {0} /\ Bills \subseteq Nat
    /\ MaxAttempts \in Nat

VARIABLES
    run,      \* the run's row: status, number of its latest attempt, whether that runs
    used,     \* run.budget: used_model_calls, used_output_tokens
    res,      \* agent_model_budget_reservations, one row per call
    overdue,  \* whether budget.deadline_at has passed
    exec,     \* RunCoordinator.active of each runtime
    call,     \* the memory of each request: where it is, and in whose hands
    up        \* runtimes that have not crashed

vars == <<run, used, res, overdue, exec, call, up>>

NoReservation == [status |-> "none", dispatched |-> FALSE, tokens |-> 0, charged |-> 0,
                  source |-> ""]
NoExecution   == [attempt |-> 0, control |-> "", aborted |-> FALSE, lost |-> FALSE]
NewCall(p)    == [pc |-> "new", runtime |-> p, attempt |-> 0, remaining |-> 0,
                  billed |-> 0, reported |-> FALSE]

\* A request nobody waits for: "lost" with its process, "abandoned" by a stream.
Ended == {"done", "failed", "refused", "lost", "abandoned"}

Pending == {c \in Calls : res[c].status = "reserved"}
Settled == {c \in Calls : res[c].status = "settled"}

\* The sum of f over the requests of S, counted one by one: a definition without
\* recursion, which a proof can follow.
Units(f, S) == UNION {{c} \X (1..f[c]) : c \in S}
Total(f, S) == Cardinality(Units(f, S))

Tokens  == [c \in Calls |-> res[c].tokens]
Charged == [c \in Calls |-> res[c].charged]
Billed  == [c \in Calls |-> call[c].billed]

PendingTokens == Total(Tokens, Pending)
Charges       == Total(Charged, Settled)

Least(a, b) == IF a < b THEN a ELSE b

Init ==
    \E p \in Runtimes :
        /\ run = [status |-> "running", attempt |-> 1, working |-> TRUE]
        /\ used = [calls |-> 0, tokens |-> 0]
        /\ res = [c \in Calls |-> NoReservation]
        /\ overdue = FALSE
        /\ exec = [q \in Runtimes |->
                     IF q = p THEN [NoExecution EXCEPT !.attempt = 1] ELSE NoExecution]
        /\ call = [c \in Calls |-> NewCall(p)]
        /\ up = Runtimes

-----------------------------------------------------------------------------
(* A refusal of the budget stops the execution this runtime holds.         *)

\* pauseActiveRunForBudget: the control is overwritten, whatever it was.
PausedForBudget(p) ==
    IF exec[p].attempt = 0 THEN exec
    ELSE [exec EXCEPT ![p] = [@ EXCEPT !.control = "pause", !.aborted = TRUE]]

Goto(c, pc) == call' = [call EXCEPT ![c] = [@ EXCEPT !.pc = pc]]

Refuse(c) == Goto(c, "refused") /\ exec' = PausedForBudget(call[c].runtime)

\* The execution whose body still works in runtime p.
Works(p)     == p \in up /\ exec[p].attempt # 0 /\ ~exec[p].lost
InFlight(p)  == {c \in Calls : /\ call[c].runtime = p /\ call[c].attempt = exec[p].attempt
                               /\ call[c].pc \notin Ended \cup {"new"}}
Step(c, pc)  == call[c].runtime \in up /\ call[c].pc = pc
AttemptRuns(c) == run.working /\ run.attempt = call[c].attempt

-----------------------------------------------------------------------------
(* The lifecycle of a request.                                             *)

\* withDurableModelBudget, when the body asks the model: what remains of the
\* budget is read once, for every request made with these options.
Ask(p, c) ==
    /\ Works(p) /\ call[c].pc = "new"
    /\ LET remaining == MaxTokens - used.tokens
           asked(pc) == call' = [call EXCEPT ![c] =
               [NewCall(p) EXCEPT !.pc = pc, !.attempt = exec[p].attempt,
                                  !.remaining = remaining]]
       IN \/ overdue /\ asked("failed") /\ UNCHANGED exec
          \/ ~overdue /\ remaining <= 0 /\ asked("refused") /\ exec' = PausedForBudget(p)
          \/ ~overdue /\ remaining > 0 /\ asked("ready") /\ UNCHANGED exec
    /\ UNCHANGED <<run, used, res, overdue, up>>

\* A request that failed is repeated (without streaming, by the retry policy
\* or with a fallback provider) under the options of the first one.
Repeat(c, d) ==
    /\ Step(c, "failed") /\ Works(call[c].runtime)
    /\ exec[call[c].runtime].attempt = call[c].attempt
    /\ call[c].remaining > 0
    /\ call[d].pc = "new"
    /\ call' = [call EXCEPT ![c] = [@ EXCEPT !.pc = "done"],
                            ![d] = [NewCall(call[c].runtime) EXCEPT
                                      !.pc = "ready", !.attempt = call[c].attempt,
                                      !.remaining = call[c].remaining]]
    /\ UNCHANGED <<run, used, res, overdue, exec, up>>

\* fetchChatCompletions looks at the abort signal before it reserves.
ThrowIfAborted(c) ==
    /\ Step(c, "ready") /\ exec[call[c].runtime].aborted
    /\ Goto(c, "failed")
    /\ UNCHANGED <<run, used, res, overdue, exec, up>>

\* Mutant: what other requests have reserved is not counted.
WithinLimitsAlone(tokens) ==
    /\ used.calls + 1 <= MaxCalls
    /\ used.tokens + tokens <= MaxTokens

\* assertModelBudgetReservationWithinLimits.
WithinLimits(tokens) ==
    /\ used.calls + Cardinality(Pending) + 1 <= MaxCalls
    /\ used.tokens + PendingTokens + tokens <= MaxTokens

\* reserveModelBudget in beforeDispatch: one row, or a refusal.  Reservation
\* and call ids are fresh, so the row is never there before.
BeforeDispatch(c, cap) ==
    LET tokens == Least(call[c].remaining, cap) IN
    /\ Step(c, "ready") /\ ~exec[call[c].runtime].aborted
    /\ IF run.status = "running" /\ ~overdue /\ AttemptRuns(c) /\ WithinLimits(tokens)
       THEN /\ res' = [res EXCEPT ![c] = [NoReservation EXCEPT !.status = "reserved",
                                                               !.tokens = tokens]]
            /\ Goto(c, "reserved")
            /\ UNCHANGED exec
       ELSE Refuse(c) /\ UNCHANGED res
    /\ UNCHANGED <<run, used, overdue, up>>

\* markModelBudgetDispatched in onDispatchStarted.  A refusal releases the
\* reservation (which a reconciliation may have released before), and the
\* settlement that the client tries afterwards is refused as well.
OnDispatchStarted(c) ==
    /\ Step(c, "reserved")
    /\ IF res[c].status = "reserved" /\ run.status = "running" /\ AttemptRuns(c)
       THEN /\ res' = [res EXCEPT ![c].dispatched = TRUE]
            /\ Goto(c, "marked")
            /\ UNCHANGED exec
       ELSE /\ res' = [res EXCEPT ![c].status = "released"]
            /\ Refuse(c)
    /\ UNCHANGED <<run, used, overdue, up>>

\* The request leaves.  What the provider will bill for it is decided here.
Fetch(c) ==
    /\ Step(c, "marked")
    /\ \E n \in Bills : call' = [call EXCEPT ![c] = [@ EXCEPT !.pc = "asked", !.billed = n]]
    /\ UNCHANGED <<run, used, res, overdue, exec, up>>

\* The answer is complete, with or without a usage report; a timeout, an
\* abort and a network error report nothing.
Answer(c) ==
    /\ Step(c, "asked")
    /\ \E reported \in BOOLEAN :
         call' = [call EXCEPT ![c] = [@ EXCEPT !.pc = "answered", !.reported = reported]]
    /\ UNCHANGED <<run, used, res, overdue, exec, up>>

Charge(c) == IF call[c].reported THEN call[c].billed ELSE res[c].tokens
Source(c) == IF call[c].reported THEN "provider" ELSE "reservation"

SettledRow(c, charge, source) ==
    [res[c] EXCEPT !.status = "settled", !.charged = charge, !.source = source]

\* Mutant: settling looks at the run first, as reserving does.
SettleWhileRunning(c) ==
    /\ Step(c, "answered")
    /\ IF /\ res[c].status = "reserved" /\ Charge(c) <= res[c].tokens
          /\ run.status = "running"
       THEN /\ res' = [res EXCEPT ![c] = SettledRow(c, Charge(c), Source(c))]
            /\ used' = [calls |-> used.calls + 1, tokens |-> used.tokens + Charge(c)]
            /\ Goto(c, "done")
            /\ UNCHANGED exec
       ELSE Refuse(c) /\ UNCHANGED <<res, used>>
    /\ UNCHANGED <<run, overdue, up>>

\* Mutant: a row that was settled before is settled again.
SettleTwice(c) ==
    /\ Step(c, "answered")
    /\ IF Charge(c) <= res[c].tokens
       THEN /\ res' = [res EXCEPT ![c] = SettledRow(c, Charge(c), Source(c))]
            /\ used' = [calls |-> used.calls + 1, tokens |-> used.tokens + Charge(c)]
            /\ Goto(c, "done")
            /\ UNCHANGED exec
       ELSE Refuse(c) /\ UNCHANGED <<res, used>>
    /\ UNCHANGED <<run, overdue, up>>

\* settleModelBudget in onDispatchFinished.  A row that was settled before
\* must agree; a bill above the reservation is refused and the row stays.
\* (A request without a report may have failed, and be repeated.)
OnDispatchFinished(c) ==
    LET agrees   == res[c].charged = Charge(c) /\ res[c].source = Source(c)
        finished == Goto(c, IF call[c].reported THEN "done" ELSE "failed")
    IN
    /\ Step(c, "answered")
    /\ \/ /\ res[c].status = "reserved" /\ Charge(c) <= res[c].tokens
          /\ res' = [res EXCEPT ![c] = SettledRow(c, Charge(c), Source(c))]
          /\ used' = [calls |-> used.calls + 1, tokens |-> used.tokens + Charge(c)]
          /\ finished
          /\ UNCHANGED exec
       \/ /\ res[c].status = "settled" /\ agrees
          /\ finished
          /\ UNCHANGED <<res, used, exec>>
       \/ /\ \/ res[c].status = "reserved" /\ Charge(c) > res[c].tokens
             \/ res[c].status = "settled" /\ ~agrees
          /\ Refuse(c)
          /\ UNCHANGED <<res, used>>
    /\ UNCHANGED <<run, overdue, up>>

-----------------------------------------------------------------------------
(* The run around the requests.                                            *)

\* How an execution ends: finishAttempt, then the transition of the run.  If
\* either is refused the execution stays in the map and nobody ends it.
Settle(p, to) ==
    LET from     == IF to = "cancelled" /\ "cancelling" \in RunTransitions[run.status]
                    THEN "cancelling" ELSE run.status
        finished == /\ run.working /\ run.attempt = exec[p].attempt
                    /\ to = "cancelled" => from = "cancelling"
        settled  == finished /\ RunMayBecome(from, to)
    IN
    /\ run' = [run EXCEPT !.status = IF settled THEN to ELSE from,
                          !.working = @ /\ ~finished]
    /\ exec' = [exec EXCEPT ![p] = IF settled THEN NoExecution ELSE [@ EXCEPT !.lost = TRUE]]

\* completeRun: the body returns when none of its requests is under way.
\* What needs a confirmation is left to RunCoordinator.
CompleteRun(p) ==
    /\ Works(p) /\ InFlight(p) = {}
    /\ Settle(p, IF run.status = "cancelling" \/ exec[p].control = "cancel" THEN "cancelled"
                 ELSE IF run.status = "paused" \/ exec[p].control = "pause" THEN "paused"
                 ELSE "completed")
    /\ UNCHANGED <<used, res, overdue, call, up>>

FailTarget(p) ==
    IF exec[p].control = "pause" THEN "paused"
    ELSE IF exec[p].control = "cancel" \/ exec[p].aborted THEN "cancelled"
    ELSE "failed"

\* failRun: the body throws.
FailRun(p) ==
    /\ Works(p) /\ InFlight(p) = {}
    /\ Settle(p, FailTarget(p))
    /\ UNCHANGED <<used, res, overdue, call, up>>

\* streamAgentRun fails between two chunks: withDurableRunContext does not
\* close the stream it wraps, whose request is never finished.
FailStream(p, c) ==
    /\ "disconnect" \in Environment
    /\ Works(p) /\ InFlight(p) = {c} /\ call[c].pc = "asked"
    /\ Goto(c, "abandoned")
    /\ Settle(p, FailTarget(p))
    /\ UNCHANGED <<used, res, overdue, up>>

RequestPause(p) ==
    /\ "pause" \in Environment /\ p \in up
    /\ ControlAllowed(run.status, "pause")
    /\ run' = [run EXCEPT !.status = ControlStatus(@, "pause", exec[p].attempt # 0)]
    /\ exec' = IF exec[p].attempt = 0 THEN exec ELSE [exec EXCEPT ![p].control = "pause"]
    /\ UNCHANGED <<used, res, overdue, call, up>>

RequestCancel(p) ==
    /\ "cancel" \in Environment /\ p \in up
    /\ ControlAllowed(run.status, "cancel")
    /\ IF exec[p].attempt = 0
       THEN run' = [run EXCEPT !.status = "cancelled"] /\ UNCHANGED exec
       ELSE /\ run' = [run EXCEPT !.status = "cancelling"]
            /\ exec' = [exec EXCEPT ![p] = [@ EXCEPT !.control = "cancel", !.aborted = TRUE]]
    /\ UNCHANGED <<used, res, overdue, call, up>>

\* claimStaleRun: the lease of the run has expired because its process died,
\* or was merely silent for thirty seconds.
ClaimStaleRun(p) ==
    /\ p \in up /\ exec[p].attempt = 0 /\ run.status = "running"
    /\ "overlap" \in Environment \/ \A q \in Runtimes : exec[q].attempt = 0
    /\ run' = [run EXCEPT !.status = "paused", !.working = FALSE]
    /\ UNCHANGED <<used, res, overdue, exec, call, up>>

-----------------------------------------------------------------------------
(* reconcileModelBudgetReservations: what was dispatched is charged as     *)
(* reserved, what was not is released.                                     *)

Dispatched == {c \in Pending : res[c].dispatched}

\* Mutant: whatever is still reserved is released.
ReleasedRows ==
    [c \in Calls |-> IF c \in Pending THEN [res[c] EXCEPT !.status = "released"] ELSE res[c]]

ReconciledRows ==
    [c \in Calls |-> IF c \in Dispatched THEN SettledRow(c, res[c].tokens, "reservation")
                     ELSE IF c \in Pending THEN [res[c] EXCEPT !.status = "released"]
                     ELSE res[c]]

\* Mutant: what was dispatched is closed without being charged.
UnchargedUsage == used

ReconciledUsage ==
    [calls  |-> used.calls + Cardinality(Dispatched),
     tokens |-> used.tokens + Total(Tokens, Dispatched)]

\* assertBudgetResumable.
Resumable(usage) == ~overdue /\ usage.calls < MaxCalls /\ usage.tokens < MaxTokens

\* Mutant: the reservations of the last attempt are left as they are.
ResumeAsIs(p) ==
    /\ p \in up /\ exec[p].attempt = 0 /\ run.status \in {"paused", "failed"}
    /\ Resumable(used) /\ ~run.working /\ run.attempt < MaxAttempts
    /\ run' = [status |-> "running", attempt |-> run.attempt + 1, working |-> TRUE]
    /\ exec' = [exec EXCEPT ![p] = [NoExecution EXCEPT !.attempt = run.attempt + 1]]
    /\ UNCHANGED <<res, used, overdue, call, up>>

\* resumeRun (by a client, or by the recovery that claimed the run).  The
\* reservations are reconciled before the step is looked at.
Resume(p) ==
    /\ p \in up /\ exec[p].attempt = 0 /\ run.status \in {"paused", "failed"}
    /\ res' = ReconciledRows /\ used' = ReconciledUsage
    /\ IF ~Resumable(ReconciledUsage)
       THEN run' = [run EXCEPT !.status = "paused"] /\ UNCHANGED exec
       ELSE IF run.working \/ run.attempt = MaxAttempts
       THEN UNCHANGED <<run, exec>>
       ELSE /\ run' = [status |-> "running", attempt |-> run.attempt + 1, working |-> TRUE]
            /\ exec' = [exec EXCEPT ![p] = [NoExecution EXCEPT !.attempt = run.attempt + 1]]
    /\ UNCHANGED <<overdue, call, up>>

Crash(p) ==
    /\ "crash" \in Environment /\ p \in up
    /\ up' = up \ {p}
    /\ exec' = [exec EXCEPT ![p] = NoExecution]
    /\ call' = [c \in Calls |-> IF call[c].runtime = p /\ call[c].pc \notin Ended \cup {"new"}
                                THEN [call[c] EXCEPT !.pc = "lost"] ELSE call[c]]
    /\ UNCHANGED <<run, used, res, overdue>>

DeadlinePasses ==
    /\ "deadline" \in Environment /\ ~overdue
    /\ overdue' = TRUE
    /\ UNCHANGED <<run, used, res, exec, call, up>>

Next ==
    \/ \E c \in Calls :
         \/ \E p \in Runtimes : Ask(p, c) \/ FailStream(p, c)
         \/ \E d \in Calls : Repeat(c, d)
         \/ ThrowIfAborted(c) \/ \E cap \in Caps : BeforeDispatch(c, cap)
         \/ OnDispatchStarted(c) \/ Fetch(c) \/ Answer(c) \/ OnDispatchFinished(c)
    \/ \E p \in Runtimes :
         \/ CompleteRun(p) \/ FailRun(p)
         \/ RequestPause(p) \/ RequestCancel(p)
         \/ ClaimStaleRun(p) \/ Resume(p) \/ Crash(p)
    \/ DeadlinePasses

Spec == Init /\ [][Next]_vars

\* A request goes on: its steps follow each other and it has a timeout.  A
\* body ends, once its requests have.  Nothing is assumed of clients, of
\* recovery, of crashes and of the clock.
FairSpec ==
    /\ Spec
    /\ \A c \in Calls :
         /\ WF_vars(ThrowIfAborted(c) \/ \E cap \in Caps : BeforeDispatch(c, cap))
         /\ WF_vars(OnDispatchStarted(c) \/ Fetch(c) \/ Answer(c) \/ OnDispatchFinished(c))
    /\ \A p \in Runtimes : WF_vars(CompleteRun(p) \/ FailRun(p))

-----------------------------------------------------------------------------
(* Properties.                                                             *)

PCs == {"new", "ready", "reserved", "marked", "asked", "answered"} \cup Ended

Execution == [attempt : Nat, control : {"", "pause", "cancel"}, aborted : BOOLEAN,
              lost : BOOLEAN]

\* Every variable keeps its shape.
TypeOK ==
    /\ run \in [status : RunStatus, attempt : Nat, working : BOOLEAN]
    /\ used \in [calls : Nat, tokens : Nat]
    /\ res \in [Calls -> [status : {"none", "reserved", "settled", "released"},
                          dispatched : BOOLEAN, tokens : Nat, charged : Nat,
                          source : {"", "provider", "reservation"}]]
    /\ overdue \in BOOLEAN
    /\ exec \in [Runtimes -> Execution]
    /\ call \in [Calls -> [pc : PCs, runtime : Runtimes, attempt : Nat, remaining : Int,
                           billed : Nat, reported : BOOLEAN]]
    /\ up \subseteq Runtimes

\* The calls made and the calls reserved together stay within the budget
\* (assertModelBudgetReservationWithinLimits, settleModelBudget), although
\* requests of several processes reserve and settle in any order: the
\* settlement's own check of the limits never refuses.
CallsWithinBudget == used.calls + Cardinality(Pending) <= MaxCalls

\* The same for tokens, of which a settlement may charge less than reserved.
TokensWithinBudget == used.tokens + PendingTokens <= MaxTokens

\* The budget has been charged once for each settled reservation and for
\* nothing else (settleModelBudgetReservationInTransaction), whether the
\* process settled it, a reconciliation did, or both tried.
ChargedOnce ==
    /\ used.calls = Cardinality(Settled)
    /\ used.tokens = Charges

\* The provider never bills more than the budget, crashes, reconciliations
\* and requests without a report included, unless a single answer is billed
\* above its own reservation.
BilledWithinBudget ==
    (\A c \in Calls : call[c].billed <= res[c].tokens) =>
        Total(Billed, Calls) <= MaxTokens

\* A request that may have left is dispatched in the store, and never
\* released: a crash at any point is charged (onDispatchStarted is awaited
\* before fetch, and reconciliation is conservative).
SentIsAccounted ==
    \A c \in Calls : call[c].billed > 0 =>
        res[c].dispatched /\ res[c].status \in {"reserved", "settled"}

\* While an attempt works, nothing of an earlier attempt is still reserved
\* (resumeRun reconciles before it starts an attempt, and no request of an
\* attempt that ended can reserve).
NothingLeftBehind ==
    run.working => \A c \in Pending : call[c].attempt = run.attempt

\* An attempt one of whose requests the budget refused does not complete the
\* run, even when its body goes on without the answer
\* (pauseActiveRunForBudget, completeRun).
RefusedIsNotCompleted ==
    run.status = "completed" =>
        \A c \in Calls : call[c].pc = "refused" => call[c].attempt # run.attempt

-----------------------------------------------------------------------------
(* The inductive invariant of ModelBudgetProofs.                           *)

\* The fields the argument needs.  The sums of tokens have an invariant of
\* their own, TokensInv of ModelBudgetProofs, on top of this one.
IsRow(r) ==
    /\ DOMAIN r = {"status", "dispatched", "tokens", "charged", "source"}
    /\ r.status \in {"none", "reserved", "settled", "released"} /\ r.dispatched \in BOOLEAN

IsRequest(q) ==
    /\ DOMAIN q = {"pc", "runtime", "attempt", "remaining", "billed", "reported"}
    /\ q.pc \in PCs /\ q.runtime \in Runtimes /\ q.attempt \in Nat /\ q.billed \in Nat

Shape ==
    /\ run \in [status : RunStatus, attempt : Nat \ {0}, working : BOOLEAN]
    /\ used.calls \in Nat
    /\ DOMAIN res = Calls /\ DOMAIN call = Calls
    /\ \A c \in Calls : IsRow(res[c]) /\ IsRequest(call[c])
    /\ exec \in [Runtimes -> Execution]

\* A row and the request that owns it agree on how far the request got.
RowsAgree ==
    \A c \in Calls :
        /\ call[c].pc \in {"new", "ready"} => res[c].status = "none"
        /\ call[c].pc = "new" => call[c].attempt = 0
        /\ call[c].pc = "reserved" => ~res[c].dispatched
        /\ call[c].pc \in {"marked", "asked", "answered"} => res[c].dispatched
        /\ call[c].billed > 0 => res[c].dispatched
        /\ res[c].dispatched => res[c].status \in {"reserved", "settled"}
        /\ res[c].status = "settled" => res[c].dispatched

\* Attempts are numbered upwards, and each is worked on by one runtime.
OneWorker ==
    /\ \A p \in Runtimes : exec[p].attempt <= run.attempt
    /\ \A c \in Calls : call[c].attempt <= run.attempt
    /\ \A p, q \in Runtimes : exec[p].attempt = exec[q].attempt /\ exec[p].attempt # 0 => p = q
    /\ \A c \in Calls, p \in Runtimes :
         exec[p].attempt = call[c].attempt /\ exec[p].attempt # 0 => call[c].runtime = p

\* The execution of a refused request knows it; a completed run is over.
RefusalIsKnown ==
    /\ \A c \in Calls :
         /\ call[c].pc = "refused" /\ call[c].attempt = run.attempt
         /\ exec[call[c].runtime].attempt = run.attempt
         => exec[call[c].runtime].control # ""
    /\ run.status = "completed" =>
         /\ ~run.working
         /\ \A p \in Runtimes : exec[p].attempt # run.attempt
         /\ \A c \in Calls : call[c].attempt = run.attempt => call[c].pc \in Ended \ {"refused"}

CallsCounted == used.calls = Cardinality(Settled) /\ CallsWithinBudget

BInv ==
    Shape /\ RowsAgree /\ OneWorker /\ RefusalIsKnown /\ CallsCounted /\ NothingLeftBehind

-----------------------------------------------------------------------------
\* Every reservation is settled or released in the end without waiting for a
\* reconciliation, with three exceptions, whose rows stay reserved until the run
\* is resumed: the process of the request crashed; its stream was abandoned
\* between two chunks, in a process that lives on (FailStream: nobody closes the
\* stream that withDurableRunContext wraps); or the provider billed more than was
\* reserved, which onDispatchFinished throws about before it settles the row.
ReservationsEnd ==
    \A c \in Calls :
        res[c].status = "reserved" ~>
            \/ res[c].status # "reserved"
            \/ call[c].pc = "lost"
            \/ call[c].pc = "abandoned"
            \/ call[c].billed > res[c].tokens

=============================================================================
