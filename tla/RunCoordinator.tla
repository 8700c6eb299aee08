--------------------------- MODULE RunCoordinator ---------------------------
(***************************************************************************)
(* The durable-run coordinator of packages/agent-runtime/src/kernel.       *)
(*                                                                         *)
(* One run with its root step, kept in the project's SQLite store, and the *)
(* runtime instances that share that store: several application processes  *)
(* at once, or the successive launches of one.  The coordinator's methods  *)
(* are synchronous, so a runtime is inside at most one of them at a time;  *)
(* each store call is one BEGIN IMMEDIATE transaction, so between any two  *)
(* of them another runtime may run, and the process may stop.  An action   *)
(* is therefore one store transaction of one runtime with the code up to   *)
(* the next one.                                                           *)
(*                                                                         *)
(* Compare-and-set on a row's version is kept as the set of the runtimes   *)
(* whose copy of the row is still current (runSeen, stepSeen): every write *)
(* increments the version, so a copy is current exactly when nothing was   *)
(* written since it was read.                                              *)
(***************************************************************************)
EXTENDS ExecutionStateMachine, Integers, Sequences, FiniteSets

CONSTANTS
    Runtimes,          \* runtime instance ids, one per launch of a process
    OpIds,             \* operation ids the clients send with their commands
    StaleOp,           \* staleRecoveryOperationId(run_id): the same for ever
    NoOp,              \* a generated operation id, never sent again
    NoRuntime,         \* the owner of a run that is not there
    Requests,          \* the requests a run may be started for
    MaxSteps,          \* budget.max_steps
    MaxAttempts,       \* step.max_attempts: failed attempts before refusal
    MaxConfirmations,  \* bound: confirmations created for the step
    Sent,              \* bound: the commands that clients send
    MayOverlap,        \* may a runtime start while another one is up?
    MayCrash,          \* may a runtime stop between two transactions?
    MayOverrun         \* may the budget's deadline pass?

Request == [fileOp : BOOLEAN, retryable : BOOLEAN, confirm : BOOLEAN]

ASSUME ConstantsAssumption ==
    /\ Requests \subseteq Request /\ Requests # {}
    /\ StaleOp \notin OpIds /\ NoOp \notin OpIds \cup {StaleOp}
    /\ NoRuntime \notin Runtimes
    /\ MaxSteps \in Nat \ {0} /\ MaxAttempts \in Nat \ {0}
    /\ MaxConfirmations \in Nat
    /\ Sent \subseteq {"pause", "cancel", "resume", "retry", "approve", "reject",
                       "memory", "delete", "close"}
    /\ MayOverlap \in BOOLEAN /\ MayCrash \in BOOLEAN /\ MayOverrun \in BOOLEAN

Ops == OpIds \cup {StaleOp}

VARIABLES
    run,       \* the agent_runs row; status "absent" before, "deleted" after
    step,      \* its agent_steps row
    attempts,  \* the agent_step_attempts rows: statuses by attempt number
    confs,     \* the agent_confirmations rows, in creation order
    ops,       \* status of each agent_control_operations row
    overdue,   \* the clock is past budget.deadline_at
    runSeen,   \* runtimes whose copy of the run row is current
    stepSeen,  \* runtimes whose copy of the step row is current
    life,      \* new, up or down
    active,    \* RunCoordinator.active: the execution a runtime holds
    call       \* the coordinator method a runtime is inside

store == <<run, step, attempts, confs, ops, overdue>>
vars  == <<run, step, attempts, confs, ops, overdue, runSeen, stepSeen,
           life, active, call>>

Commands == {"begin", "complete", "fail", "close", "pause", "cancel",
             "resume", "retry", "recover", "approve", "reject", "expire"}

Settling  == {"complete", "fail", "close"}       \* methods that end an attempt
Resuming  == {"resume", "retry", "recover"}      \* methods that run resumeRun
Resolving == {"approve", "reject", "expire"}     \* methods that settle a confirmation

ProgramPoints == {"idle", "claim", "recover", "op", "check", "reset", "start", "read",
                  "cas", "confirm", "finish", "supersede", "cancelStep",
                  "resolve", "expireRead", "settle", "done"}

ConfStatus == {"pending", "approved", "rejected", "expired", "superseded",
               "consumed"}
OpStatus   == {"none", "pending", "applied", "failed", "rejected"}

Idle == [pc |-> "idle", cmd |-> "begin", target |-> "queued", op |-> NoOp,
         n |-> 0, conf |-> 0, verdict |-> "applied"]

NoExecution == [attempt |-> 0, control |-> "", receipt |-> 0, body |-> "lost"]

Exists      == run.status \in RunStatus
IsActive(r) == active[r].attempt # 0
Busy(r)     == IsActive(r) /\ active[r].body = "busy"
Up(r)       == life[r] = "up" /\ call[r].pc = "idle"

PendingConfs  == {c \in DOMAIN confs : confs[c].status = "pending"}
ApprovedConfs == {c \in DOMAIN confs : confs[c].status = "approved"}
FailedAttempts == {i \in DOMAIN attempts : attempts[i] = "failed"}
Exhausted     == overdue \/ Len(attempts) >= MaxSteps

Init ==
    /\ run = [status |-> "absent", owner |-> NoRuntime, leased |-> FALSE,
              pauseRequested |-> FALSE,
              request |-> [fileOp |-> FALSE, retryable |-> TRUE, confirm |-> FALSE]]
    /\ step = [status |-> "pending", confirm |-> FALSE]
    /\ attempts = <<>>
    /\ confs = <<>>
    /\ ops = [o \in Ops |-> "none"]
    /\ overdue = FALSE
    /\ runSeen = {}
    /\ stepSeen = {}
    /\ life = [r \in Runtimes |-> "new"]
    /\ active = [r \in Runtimes |-> NoExecution]
    /\ call = [r \in Runtimes |-> Idle]

-----------------------------------------------------------------------------
(* How a method goes on.  Goto changes some fields of r's call.            *)

Goto(r, pc, cmd, target) ==
    call' = [call EXCEPT ![r] = [@ EXCEPT !.pc = pc, !.cmd = cmd, !.target = target]]

Return(r) == call' = [call EXCEPT ![r] = Idle]

Finished(r, verdict) ==
    call' = [call EXCEPT ![r] = [Idle EXCEPT !.pc = "done", !.cmd = call[r].cmd,
                                             !.op = call[r].op, !.conf = call[r].conf,
                                             !.verdict = verdict]]

\* Copies of the rows that the method does not compare with any more.
Forget(r) == runSeen' = runSeen \ {r} /\ stepSeen' = stepSeen \ {r}

\* Mutant: a cancel that was requested is only seen when the error says so.
FailWithUnlessAborted(r, aborted) ==
    \/ active[r].control = "pause" /\ Goto(r, "finish", "fail", "paused")
    \/ active[r].control # "pause" /\ aborted /\ Goto(r, "read", "fail", "cancelling")
    \/ active[r].control # "pause" /\ ~aborted /\ Goto(r, "finish", "fail", "failed")

\* failRun's choice between pausing, cancelling and failing.
FailWith(r, aborted) ==
    LET cancels == active[r].control = "cancel" \/ aborted IN
    \/ active[r].control = "pause" /\ Goto(r, "finish", "fail", "paused")
    \/ active[r].control # "pause" /\ cancels /\ Goto(r, "read", "fail", "cancelling")
    \/ active[r].control # "pause" /\ ~cancels /\ Goto(r, "finish", "fail", "failed")

\* The method throws.  completeRun's callers call failRun; nobody handles an
\* error of failRun, so its execution stays in the map; close() drops it.
Throw(r) ==
    \/ /\ call[r].cmd = "complete"
       /\ FailWith(r, FALSE)
       /\ UNCHANGED <<active, life>>
    \/ /\ call[r].cmd = "fail"
       /\ active' = [active EXCEPT ![r].body = "lost"]
       /\ Return(r) /\ UNCHANGED life
    \/ /\ call[r].cmd = "close"
       /\ active' = [active EXCEPT ![r] = NoExecution]
       /\ life' = [life EXCEPT ![r] = "down"]
       /\ Return(r)
    \/ /\ call[r].cmd \in {"pause", "cancel"} \cup Resuming
       /\ Finished(r, "failed")
       /\ UNCHANGED <<active, life>>
    \/ /\ call[r].cmd \in {"begin"} \cup Resolving
       /\ Return(r)
       /\ UNCHANGED <<active, life>>

-----------------------------------------------------------------------------
(* beginRun: the row, then planning, then running, then attempt 1.  A      *)
(* second request with the same id gets the existing run and changes       *)
(* nothing.                                                                *)

CreateRun(r) ==
    /\ Up(r) /\ ~IsActive(r) /\ run.status = "absent"
    /\ \E q \in Requests :
         /\ run' = [status |-> "queued", owner |-> r, leased |-> TRUE,
                    pauseRequested |-> FALSE, request |-> q]
         /\ step' = [status |-> "pending", confirm |-> q.confirm]
    /\ runSeen' = {} /\ stepSeen' = {}
    /\ Goto(r, "read", "begin", "planning")
    /\ UNCHANGED <<attempts, confs, ops, overdue, life, active>>

-----------------------------------------------------------------------------
(* transitionRun and updateRun.                                            *)

\* requireRun before a transition; settleCancelled skips the transition to
\* "cancelling" when the run is already there.
ReadRun(r) ==
    /\ call[r].pc = "read"
    /\ \/ /\ ~Exists
          /\ Throw(r)
          /\ UNCHANGED runSeen
       \/ /\ Exists
          /\ IF call[r].target = "cancelling" /\ run.status = "cancelling"
             THEN Goto(r, "finish", call[r].cmd, "cancelled") /\ UNCHANGED runSeen
             ELSE /\ Goto(r, "cas", call[r].cmd, call[r].target)
                  /\ runSeen' = runSeen \cup {r}
          /\ UNCHANGED <<active, life>>
    /\ UNCHANGED <<store, stepSeen>>

\* The row updateRunStatus writes: every update takes the run over and
\* renews its lease.
Updated(r) ==
    [run EXCEPT !.status = call[r].target,
                !.owner = r,
                !.leased = TRUE,
                !.pauseRequested =
                    CASE call[r].cmd = "pause" -> TRUE
                      [] call[r].cmd \in Resuming /\ call[r].target = "running" -> FALSE
                      [] OTHER -> @]

\* What the method does with the row it wrote.
AfterUpdate(r) ==
    LET cmd == call[r].cmd
        to  == call[r].target
        cancels == cmd = "cancel" /\ to = "cancelling"
    IN \/ /\ cmd = "begin" /\ to = "planning"
          /\ Goto(r, "read", cmd, "running")
          /\ UNCHANGED <<active, life>>
       \/ /\ cmd = "begin" /\ to = "running"
          /\ call' = [call EXCEPT ![r] = [@ EXCEPT !.pc = "start", !.n = 1]]
          /\ UNCHANGED <<active, life>>
       \/ /\ cmd \in Settling /\ to = "cancelling"
          /\ Goto(r, "finish", cmd, "cancelled")
          /\ UNCHANGED <<active, life>>
       \/ /\ cmd \in Settling /\ to # "cancelling"
          /\ active' = [active EXCEPT ![r] = NoExecution]
          /\ life' = IF cmd = "close" THEN [life EXCEPT ![r] = "down"] ELSE life
          /\ Return(r)
       \/ /\ cancels /\ IsActive(r)
          /\ active' = [active EXCEPT ![r].control = "cancel"]
          /\ Finished(r, "applied") /\ UNCHANGED life
       \/ /\ cancels /\ ~IsActive(r)
          /\ Goto(r, "supersede", cmd, "cancelled")
          /\ UNCHANGED <<active, life>>
       \/ /\ cmd \in Resuming /\ to = "running"
          /\ Goto(r, "start", cmd, to)
          /\ UNCHANGED <<active, life>>
       \/ /\ cmd \in Resuming /\ to # "running"
          /\ Finished(r, "failed")
          /\ UNCHANGED <<active, life>>
       \/ /\ cmd \in {"pause", "cancel"} \cup Resolving /\ ~cancels
          /\ Finished(r, "applied")
          /\ UNCHANGED <<active, life>>

\* updateRun: the transition table is asserted on the copy, the store
\* compares version and status.  Of the row it returns only cancelInactiveRun
\* uses anything later: the steps.
CanUpdate(r) == r \in runSeen /\ RunMayBecome(run.status, call[r].target)

UpdateRun(r) ==
    /\ call[r].pc = "cas"
    /\ \/ /\ CanUpdate(r)
          /\ run' = Updated(r)
          /\ runSeen' = {}
          /\ stepSeen' = IF call[r].cmd = "cancel" /\ call[r].target = "cancelling"
                             /\ ~IsActive(r)
                         THEN stepSeen \cup {r} ELSE stepSeen
          /\ AfterUpdate(r)
       \/ /\ ~CanUpdate(r)
          /\ Throw(r)
          /\ Forget(r)
          /\ UNCHANGED run
    /\ UNCHANGED <<step, attempts, confs, ops, overdue>>

-----------------------------------------------------------------------------
(* startAttemptWithBudget: an attempt number that is already there is      *)
(* returned as it is; otherwise the step budget is charged, a refusal      *)
(* pausing the run whatever its status is.                                 *)

Started(r) ==
    /\ active' = [active EXCEPT ![r] =
                    [attempt |-> call[r].n, control |-> "",
                     receipt |-> call[r].conf, body |-> "busy"]]
    /\ IF call[r].cmd = "begin" THEN Return(r) ELSE Finished(r, "applied")
    /\ UNCHANGED life

\* Mutant: the attempt number is not looked up before it is inserted.
StartAttemptTwice(r) ==
    /\ call[r].pc = "start" /\ Exists /\ ~Exhausted
    /\ step.status \in {"pending", "running"}
    /\ attempts' = Append(attempts, "running")
    /\ step' = [step EXCEPT !.status = "running"]
    /\ runSeen' = {} /\ stepSeen' = {}
    /\ Started(r)
    /\ UNCHANGED <<run, confs, ops, overdue>>

StartAttempt(r) ==
    LET n == call[r].n IN
    /\ call[r].pc = "start"
    /\ \/ /\ Exists /\ n \in DOMAIN attempts
          /\ Started(r)
          /\ UNCHANGED <<run, step, attempts, runSeen, stepSeen>>
       \/ /\ Exists /\ n \notin DOMAIN attempts /\ Exhausted
          /\ run' = [run EXCEPT !.status = "paused"]
          /\ runSeen' = {}
          /\ Throw(r)
          /\ UNCHANGED <<step, attempts, stepSeen>>
       \/ /\ Exists /\ n \notin DOMAIN attempts /\ ~Exhausted
          /\ step.status \in {"pending", "running"}
          /\ attempts' = Append(attempts, "running")
          /\ step' = [step EXCEPT !.status = "running"]
          /\ runSeen' = {} /\ stepSeen' = {}
          /\ Started(r)
          /\ UNCHANGED run
       \/ /\ \/ ~Exists
             \/ /\ n \notin DOMAIN attempts /\ ~Exhausted
                /\ step.status \notin {"pending", "running"}
          /\ Throw(r)
          /\ UNCHANGED <<run, step, attempts, runSeen, stepSeen>>
    /\ UNCHANGED <<confs, ops, overdue>>

-----------------------------------------------------------------------------
(* The body of an execution: it runs asynchronously and ends in            *)
(* completeRun or, when it throws, in failRun.                             *)

\* Mutant: only the response is asked whether it needs a confirmation.
BodyReturnsUnasked(r) ==
    /\ Up(r) /\ Busy(r)
    /\ \E asks \in BOOLEAN :
         IF ~Exists THEN FailWith(r, FALSE)
         ELSE IF run.status = "cancelling" \/ active[r].control = "cancel"
         THEN Goto(r, "read", "complete", "cancelling")
         ELSE IF active[r].control = "pause" \/ run.pauseRequested
         THEN Goto(r, "finish", "complete", "paused")
         ELSE IF asks
         THEN /\ Len(confs) < MaxConfirmations
              /\ Goto(r, "confirm", "complete", "waiting_confirmation")
         ELSE Goto(r, "finish", "complete", "completed")
    /\ UNCHANGED <<store, runSeen, stepSeen, life, active>>

\* A response is complete, or asks for a confirmation of a preview.
BodyReturns(r) ==
    /\ Up(r) /\ Busy(r)
    /\ \E asks \in BOOLEAN :
         IF ~Exists THEN FailWith(r, FALSE)
         ELSE IF run.status = "cancelling" \/ active[r].control = "cancel"
         THEN Goto(r, "read", "complete", "cancelling")
         ELSE IF active[r].control = "pause" \/ run.pauseRequested
         THEN Goto(r, "finish", "complete", "paused")
         ELSE IF step.confirm \/ asks
         THEN /\ Len(confs) < MaxConfirmations
              /\ Goto(r, "confirm", "complete", "waiting_confirmation")
         ELSE Goto(r, "finish", "complete", "completed")
    /\ UNCHANGED <<store, runSeen, stepSeen, life, active>>

BodyThrows(r) ==
    /\ Up(r) /\ Busy(r)
    /\ \E aborted \in BOOLEAN : FailWith(r, aborted)
    /\ UNCHANGED <<store, runSeen, stepSeen, life, active>>

\* recordWorkflowProgress, and the model budget's reservations and charges:
\* an event, and so a new version of the run row.
RecordProgress(r) ==
    /\ Up(r) /\ Busy(r) /\ Exists
    /\ runSeen # {}
    /\ runSeen' = {}
    /\ UNCHANGED <<store, stepSeen, life, active, call>>

\* pauseActiveRunForBudget: the budget refuses a reservation, a dispatch or a
\* bill, and the execution is to pause, whatever was asked of it before.  A call
\* that was under way when the run was cancelled may still be refused its bill.
ModelBudgetRefused(r) ==
    /\ Up(r) /\ Busy(r)
    /\ active' = [active EXCEPT ![r].control = "pause"]
    /\ UNCHANGED <<store, runSeen, stepSeen, life, call>>

\* executeConfirmedPlan spends the receipt before it writes any file.
ConsumeReceipt(r) ==
    LET c == active[r].receipt IN
    /\ Up(r) /\ Busy(r) /\ c \in DOMAIN confs
    /\ confs[c].status = "approved" /\ ~confs[c].lapsed
    /\ confs' = [confs EXCEPT ![c].status = "consumed"]
    /\ UNCHANGED <<run, step, attempts, ops, overdue, runSeen, stepSeen,
                   life, active, call>>

-----------------------------------------------------------------------------
(* The end of an attempt.                                                  *)

\* waitForConfirmation stores the confirmation before it ends the attempt.
PersistConfirmation(r) ==
    /\ call[r].pc = "confirm"
    /\ \/ /\ ~Exists
          /\ Throw(r) /\ UNCHANGED confs
       \/ /\ Exists
          /\ confs' = Append(confs, [status |-> "pending", lapsed |-> FALSE])
          /\ Goto(r, "finish", call[r].cmd, call[r].target)
          /\ UNCHANGED <<active, life>>
    /\ UNCHANGED <<run, step, attempts, ops, overdue, runSeen, stepSeen>>

\* Attempt and step status for the run status that is settled.
Outcome ==
    [completed            |-> [attempt |-> "done",        step |-> "done"],
     failed               |-> [attempt |-> "failed",      step |-> "failed"],
     paused               |-> [attempt |-> "interrupted", step |-> "pending"],
     cancelled            |-> [attempt |-> "cancelled",   step |-> "cancelled"],
     waiting_confirmation |-> [attempt |-> "interrupted",
                               step |-> "waiting_confirmation"]]

\* Mutant: an attempt that has ended already ends again.
FinishAttemptAgain(r) ==
    LET n == active[r].attempt
        o == Outcome[call[r].target]
    IN
    /\ call[r].pc = "finish" /\ n \in DOMAIN attempts
    /\ attempts' = [attempts EXCEPT ![n] = o.attempt]
    /\ step' = [step EXCEPT !.status = o.step]
    /\ stepSeen' = {}
    /\ Goto(r, "read", call[r].cmd, call[r].target)
    /\ UNCHANGED <<run, confs, ops, overdue, runSeen, active, life>>

\* finishAttempt: only a running attempt ends, and it writes the step's
\* status without looking at the one it replaces.
FinishAttempt(r) ==
    LET n == active[r].attempt
        o == Outcome[call[r].target]
    IN
    /\ call[r].pc = "finish"
    /\ \/ /\ n \in DOMAIN attempts /\ attempts[n] = "running"
          /\ attempts' = [attempts EXCEPT ![n] = o.attempt]
          /\ step' = [step EXCEPT !.status = o.step]
          /\ stepSeen' = {}
          /\ Goto(r, "read", call[r].cmd, call[r].target)
          /\ UNCHANGED <<active, life>>
       \/ /\ ~(n \in DOMAIN attempts /\ attempts[n] = "running")
          /\ Throw(r)
          /\ UNCHANGED <<attempts, step, stepSeen>>
    /\ UNCHANGED <<run, confs, ops, overdue, runSeen>>

-----------------------------------------------------------------------------
(* The commands of the clients.  Each records a control operation first:   *)
(* an id that is already there replays the recorded answer, so a command   *)
(* that changes something starts from a fresh id, which another runtime    *)
(* may still take before the row is written.                               *)

Enter(r, cmd, o, c, target, verdict) ==
    /\ Up(r) /\ Exists
    /\ o \in Ops => ops[o] = "none"
    /\ call' = [call EXCEPT ![r] = [Idle EXCEPT !.pc = "op", !.cmd = cmd, !.op = o,
                                                !.target = target, !.conf = c,
                                                !.verdict = verdict]]
    /\ UNCHANGED <<store, life, active>>

\* The version the client sent is the one of the row, or an older one.
Versions == {"applied", "rejected"}

\* requestPause and requestCancel take their decision on the copy of the row
\* read here.
RequestControl(r, cmd, o) ==
    \E v \in Versions :
      /\ Enter(r, cmd, o, 0, ControlStatus(run.status, cmd, IsActive(r)),
               IF v = "applied" /\ ~ControlAllowed(run.status, cmd) THEN "failed" ELSE v)
      /\ runSeen' = runSeen \cup {r}
      /\ UNCHANGED stepSeen

\* resumeRun takes only the first decision on it, and reads the row again.
RequestResume(r, cmd, o) ==
    /\ ~IsActive(r)
    /\ \E v \in Versions :
         Enter(r, cmd, o, 0, "running",
               IF v = "applied" /\ run.status \notin {"paused", "failed"}
               THEN "failed" ELSE v)
    /\ UNCHANGED <<runSeen, stepSeen>>

\* A decision that the confirmation already has only records an operation.
RepeatResolution(r, cmd, o, c) ==
    /\ confs[c].status = IF cmd = "approve" THEN "approved" ELSE "rejected"
    /\ Enter(r, cmd, o, 0, "paused", "applied")
    /\ UNCHANGED <<runSeen, stepSeen>>

RequestResolution(r, cmd, o, c) ==
    /\ c \in PendingConfs
    /\ run.status = "waiting_confirmation" /\ step.status = "waiting_confirmation"
    /\ \E v \in Versions :
         Enter(r, cmd, o, c, IF cmd = "approve" THEN "paused" ELSE "failed", v)
    /\ runSeen' = runSeen \cup {r}
    /\ stepSeen' = stepSeen \cup {r}

\* pauseRunsForMemoryRevision: the stale run gets an event, its execution is
\* told to pause, and an ordinary pause follows.
PauseForMemoryRevision(r) ==
    /\ "memory" \in Sent /\ Up(r)
    /\ run.status = "running"
    /\ call' = [call EXCEPT ![r] = [Idle EXCEPT !.pc = "op", !.cmd = "pause",
                                    !.target = ControlStatus("running", "pause", IsActive(r))]]
    /\ active' = IF IsActive(r) THEN [active EXCEPT ![r].control = "pause"] ELSE active
    /\ runSeen' = {r}
    /\ UNCHANGED <<store, stepSeen, life>>

\* createControlOperation, and then the decision the command has taken.
CreateControlOperation(r) ==
    LET cmd == call[r].cmd
        o   == call[r].op
    IN
    /\ call[r].pc = "op"
    /\ \/ /\ ~Exists
          /\ Throw(r) /\ Forget(r) /\ UNCHANGED ops
       \/ /\ Exists
          /\ ops' = IF o \in Ops /\ ops[o] = "none"
                    THEN [ops EXCEPT ![o] = "pending"] ELSE ops
          /\ UNCHANGED life
          /\ IF call[r].verdict # "applied" \/ (cmd \in Resolving /\ call[r].conf = 0)
             THEN Finished(r, call[r].verdict) /\ Forget(r) /\ UNCHANGED active
             ELSE /\ Goto(r, CASE cmd \in {"pause", "cancel"} -> "cas"
                               [] cmd \in Resuming            -> "check"
                               [] OTHER                       -> "resolve",
                          cmd, call[r].target)
                  /\ active' = IF cmd = "pause" /\ IsActive(r)
                               THEN [active EXCEPT ![r].control = "pause"]
                               ELSE active
                  /\ UNCHANGED <<runSeen, stepSeen>>
    /\ UNCHANGED <<run, step, attempts, confs, overdue>>

\* completeControlOperation: only a pending operation takes the verdict.  A
\* confirmation's event and the event of a recovery that could not resume
\* are new versions of the run row.
CompleteControlOperation(r) ==
    LET o == call[r].op IN
    /\ call[r].pc = "done"
    /\ ops' = IF o \in Ops /\ ops[o] = "pending"
              THEN [ops EXCEPT ![o] = call[r].verdict] ELSE ops
    /\ runSeen' = IF \/ /\ call[r].cmd \in Resolving /\ call[r].conf # 0
                        /\ call[r].verdict = "applied"
                     \/ call[r].cmd = "recover" /\ call[r].verdict # "applied"
                  THEN {} ELSE runSeen \ {r}
    /\ stepSeen' = stepSeen \ {r}
    /\ Return(r)
    /\ UNCHANGED <<run, step, attempts, confs, overdue, life, active>>

-----------------------------------------------------------------------------
(* cancelInactiveRun: nothing runs in this runtime, so the cancel settles  *)
(* the confirmations, the step and the run itself.                         *)

SupersedeConfirmations(r) ==
    /\ call[r].pc = "supersede"
    /\ confs' = [c \in DOMAIN confs |->
                    IF c \in PendingConfs
                    THEN [confs[c] EXCEPT !.status = "superseded"] ELSE confs[c]]
    /\ Goto(r, "cancelStep", call[r].cmd, call[r].target)
    /\ UNCHANGED <<run, step, attempts, ops, overdue, runSeen, stepSeen,
                   life, active>>

\* Mutants: the statuses that a cancel replaces are too few, or too many.
CancelStepIn(r, statuses) ==
    /\ call[r].pc = "cancelStep"
    /\ IF r \in stepSeen /\ step.status \in statuses
       THEN step' = [step EXCEPT !.status = "cancelled"] /\ stepSeen' = {}
       ELSE UNCHANGED <<step, stepSeen>>
    /\ Goto(r, "read", call[r].cmd, "cancelled")
    /\ UNCHANGED <<run, attempts, confs, ops, overdue, runSeen, life, active>>

CancelStartedStep(r) == CancelStepIn(r, {"running", "failed", "waiting_confirmation"})
CancelAnyStep(r)     == CancelStepIn(r, StepStatus)

\* The step of the copy the cancel wrote; a step that changed since is left
\* as it is, and nobody looks at the answer.
CancelInactiveStep(r) ==
    /\ call[r].pc = "cancelStep"
    /\ IF r \in stepSeen
          /\ step.status \in {"pending", "running", "failed", "waiting_confirmation"}
       THEN /\ step' = [step EXCEPT !.status = "cancelled"]
            /\ stepSeen' = {}
       ELSE UNCHANGED <<step, stepSeen>>
    /\ Goto(r, "read", call[r].cmd, "cancelled")
    /\ UNCHANGED <<run, attempts, confs, ops, overdue, runSeen, life, active>>

-----------------------------------------------------------------------------
(* resumeRun.                                                              *)

\* What findTrustedApprovedConfirmation and the checks on the step allow.
Receipts(r) == IF call[r].cmd = "retry" THEN {} ELSE ApprovedConfs

\* Mutant: the step's own status is not looked at.
ResumableWhileRunning(r) ==
    /\ Cardinality(Receipts(r)) <= 1
    /\ \A c \in Receipts(r) : ~confs[c].lapsed
    /\ run.status = "failed" => run.request.retryable
    /\ Cardinality(FailedAttempts) < MaxAttempts

Resumable(r) ==
    /\ Cardinality(Receipts(r)) <= 1
    /\ \A c \in Receipts(r) : ~confs[c].lapsed
    /\ run.status = "failed" => run.request.retryable
    /\ Cardinality(FailedAttempts) < MaxAttempts
    /\ step.status \in {"failed", "pending"}

\* Everything but the first look at the status is checked on a second copy,
\* read after the model budget was reconciled.
CheckResumable(r) ==
    LET blocked == Exists /\ Exhausted /\ run.status \in {"running", "failed", "paused"}
        ok      == Exists /\ ~Exhausted /\ Resumable(r)
    IN
    /\ call[r].pc = "check"
    /\ \/ /\ ~blocked /\ ~ok
          /\ Finished(r, "failed")
          /\ UNCHANGED <<runSeen, stepSeen>>
       \/ /\ blocked
          /\ runSeen' = runSeen \cup {r}
          /\ Goto(r, "cas", call[r].cmd, "paused")
          /\ UNCHANGED stepSeen
       \/ /\ ok
          /\ runSeen' = runSeen \cup {r}
          /\ stepSeen' = stepSeen \cup {r}
          /\ call' = [call EXCEPT ![r] =
                        [@ EXCEPT !.pc = "reset", !.n = Len(attempts) + 1,
                                  !.conf = IF Receipts(r) = {} THEN 0
                                           ELSE CHOOSE c \in Receipts(r) : TRUE]]
    /\ UNCHANGED <<store, life, active>>

ResetStep(r) ==
    /\ call[r].pc = "reset"
    /\ \/ /\ r \in stepSeen
          /\ step' = [step EXCEPT !.status = "pending"]
          /\ stepSeen' = {}
          /\ Goto(r, "cas", call[r].cmd, "running")
          /\ UNCHANGED runSeen
       \/ /\ r \notin stepSeen
          /\ Finished(r, "failed") /\ Forget(r)
          /\ UNCHANGED step
    /\ UNCHANGED <<run, attempts, confs, ops, overdue, life, active>>

-----------------------------------------------------------------------------
(* resolveConfirmation and expirePendingConfirmations.                     *)

\* The decision is stored first, and only then is the run settled.  An
\* approval after the deadline throws out of the method.
ResolveConfirmation(r) ==
    LET c   == call[r].conf
        cmd == call[r].cmd
    IN
    /\ call[r].pc = "resolve"
    /\ \/ /\ c \notin PendingConfs
          /\ Finished(r, "failed") /\ Forget(r) /\ UNCHANGED confs
       \/ /\ c \in PendingConfs /\ cmd = "approve" /\ confs[c].lapsed
          /\ Return(r) /\ Forget(r) /\ UNCHANGED confs
       \/ /\ c \in PendingConfs /\ ~(cmd = "approve" /\ confs[c].lapsed)
          /\ confs' = [confs EXCEPT ![c].status =
                          IF cmd = "approve" THEN "approved" ELSE "rejected"]
          /\ Goto(r, "settle", cmd, call[r].target)
          /\ UNCHANGED <<runSeen, stepSeen>>
    /\ UNCHANGED <<run, step, attempts, ops, overdue, life, active>>

\* Mutant: the run that waits for an expired confirmation is not settled.
ExpireConfirmationOnly(r, c) ==
    /\ Up(r)
    /\ c \in PendingConfs /\ confs[c].lapsed
    /\ confs' = [confs EXCEPT ![c].status = "expired"]
    /\ UNCHANGED <<run, step, attempts, ops, overdue, runSeen, stepSeen,
                   life, active, call>>

\* Every heartbeat expires the confirmations whose time has come.
ExpireConfirmation(r, c) ==
    /\ Up(r)
    /\ c \in PendingConfs /\ confs[c].lapsed
    /\ confs' = [confs EXCEPT ![c].status = "expired"]
    /\ Goto(r, "expireRead", "expire", "failed")
    /\ UNCHANGED <<run, step, attempts, ops, overdue, runSeen, stepSeen,
                   life, active>>

ExpireRead(r) ==
    /\ call[r].pc = "expireRead"
    /\ IF run.status = "waiting_confirmation" /\ step.status = "waiting_confirmation"
       THEN /\ runSeen' = runSeen \cup {r}
            /\ stepSeen' = stepSeen \cup {r}
            /\ Goto(r, "settle", "expire", "failed")
       ELSE Return(r) /\ UNCHANGED <<runSeen, stepSeen>>
    /\ UNCHANGED <<store, life, active>>

\* Mutant: a rejected or expired confirmation fails the step and not the run.
SettleStepOnly(r) ==
    /\ call[r].pc = "settle"
    /\ IF r \in stepSeen
       THEN /\ step' = IF call[r].cmd = "approve"
                       THEN [status |-> "pending", confirm |-> FALSE]
                       ELSE [step EXCEPT !.status = "failed"]
            /\ stepSeen' = {}
       ELSE UNCHANGED step /\ stepSeen' = stepSeen \ {r}
    /\ IF r \in stepSeen /\ call[r].cmd = "approve"
       THEN Goto(r, "cas", call[r].cmd, call[r].target) /\ UNCHANGED runSeen
       ELSE Return(r) /\ runSeen' = runSeen \ {r}
    /\ UNCHANGED <<run, attempts, confs, ops, overdue, life, active>>

\* settleApprovedConfirmation and settleRejectedConfirmation: the step here,
\* the run in UpdateRun.
SettleStep(r) ==
    /\ call[r].pc = "settle"
    /\ \/ /\ r \in stepSeen
          /\ step' = IF call[r].cmd = "approve"
                     THEN [status |-> "pending", confirm |-> FALSE]
                     ELSE [step EXCEPT !.status = "failed"]
          /\ stepSeen' = {}
          /\ Goto(r, "cas", call[r].cmd, call[r].target)
          /\ UNCHANGED runSeen
       \/ /\ r \notin stepSeen
          /\ Return(r) /\ Forget(r)
          /\ UNCHANGED step
    /\ UNCHANGED <<run, attempts, confs, ops, overdue, life, active>>

-----------------------------------------------------------------------------
(* A new runtime instance registers itself and, in its constructor, takes  *)
(* over the running run whose lease has expired: recoverStaleRuns and      *)
(* recoverStaleDurableRuns.                                                *)

RegisterRuntime(r) ==
    /\ life[r] = "new"
    /\ MayOverlap \/ \A q \in Runtimes : life[q] # "up"
    /\ life' = [life EXCEPT ![r] = "up"]
    /\ Goto(r, "claim", "recover", "running")
    /\ UNCHANGED <<store, runSeen, stepSeen, active>>

\* claimStaleRun pauses the run, ends the attempts that were running and
\* sends their step back to pending, in one transaction.
ClaimStaleRun(r) ==
    /\ call[r].pc = "claim"
    /\ \/ /\ run.status = "running" /\ ~run.leased /\ run.owner # r
          /\ run' = [run EXCEPT !.status = "paused", !.owner = r, !.leased = TRUE]
          /\ attempts' = [i \in DOMAIN attempts |->
                             IF attempts[i] = "running" THEN "interrupted"
                             ELSE attempts[i]]
          /\ IF step.status = "running" /\ \E i \in DOMAIN attempts : attempts[i] = "running"
             THEN step' = [step EXCEPT !.status = "pending"] /\ stepSeen' = {}
             ELSE UNCHANGED <<step, stepSeen>>
          /\ runSeen' = {r}
          /\ Goto(r, "recover", "recover", "running")
       \/ /\ ~(run.status = "running" /\ ~run.leased /\ run.owner # r)
          /\ Return(r)
          /\ UNCHANGED <<run, step, attempts, runSeen, stepSeen>>
    /\ UNCHANGED <<confs, ops, overdue, life, active>>

\* The claimed run is resumed under the operation id that belongs to it,
\* unless it is a file operation or that id was used before: then an event
\* says so and the run stays as it is.
RecoverRun(r) ==
    LET deferred == ~Exists \/ run.request.fileOp \/ ops[StaleOp] # "none" IN
    /\ call[r].pc = "recover"
    /\ IF deferred
       THEN Return(r) /\ runSeen' = {} /\ UNCHANGED stepSeen
       ELSE /\ call' = [call EXCEPT ![r] =
                          [@ EXCEPT !.pc = "op", !.op = StaleOp,
                                    !.verdict = IF r \in runSeen THEN "applied"
                                                ELSE "rejected"]]
            /\ Forget(r)
    /\ UNCHANGED <<store, life, active>>

-----------------------------------------------------------------------------
(* Leases, deletion, shutdown and the environment.                         *)

\* heartbeatRunLease: for the executions this runtime still holds.
RenewLease(r) ==
    /\ Up(r) /\ IsActive(r)
    /\ run.owner = r /\ ~run.leased
    /\ run.status \in {"planning", "running", "waiting_user_input",
                       "waiting_confirmation", "cancelling"}
    /\ run' = [run EXCEPT !.leased = TRUE]
    /\ UNCHANGED <<step, attempts, confs, ops, overdue, runSeen, stepSeen,
                   life, active, call>>

\* deleteRun: the run and, by cascade, everything that belongs to it.
DeleteRun(r) ==
    /\ "delete" \in Sent /\ Up(r) /\ ~IsActive(r)
    /\ run.status \in RunTerminal
    /\ run' = [run EXCEPT !.status = "deleted", !.owner = NoRuntime, !.leased = FALSE,
                          !.pauseRequested = FALSE]
    /\ step' = [status |-> "pending", confirm |-> FALSE]
    /\ attempts' = <<>> /\ confs' = <<>>
    /\ ops' = [o \in Ops |-> "none"]
    /\ runSeen' = {} /\ stepSeen' = {}
    /\ UNCHANGED <<overdue, life, active, call>>

\* close(): every execution is paused, and the runtime is gone.
Close(r) ==
    /\ "close" \in Sent /\ Up(r)
    /\ \/ /\ IsActive(r)
          /\ active' = [active EXCEPT ![r].control = "pause"]
          /\ Goto(r, "finish", "close", "paused")
          /\ UNCHANGED life
       \/ /\ ~IsActive(r)
          /\ life' = [life EXCEPT ![r] = "down"]
          /\ UNCHANGED <<active, call>>
    /\ UNCHANGED <<store, runSeen, stepSeen>>

\* The process stops, possibly between two transactions of a method.
Crash(r) ==
    /\ MayCrash /\ life[r] = "up"
    /\ life' = [life EXCEPT ![r] = "down"]
    /\ active' = [active EXCEPT ![r] = NoExecution]
    /\ Return(r)
    /\ runSeen' = runSeen \ {r} /\ stepSeen' = stepSeen \ {r}
    /\ UNCHANGED store

\* Thirty seconds without a heartbeat.  Only a runtime that starts looks at
\* the lease, so it lapses while there is one still to start.
LeaseLapses ==
    /\ Exists /\ run.leased
    /\ \E r \in Runtimes : life[r] = "new"
    /\ run' = [run EXCEPT !.leased = FALSE]
    /\ UNCHANGED <<step, attempts, confs, ops, overdue, runSeen, stepSeen,
                   life, active, call>>

\* Fifteen minutes after a confirmation was asked for: long after the method
\* that asks for it has returned.
ConfirmationLapses(c) ==
    /\ \A r \in Runtimes : call[r].target # "waiting_confirmation"
    /\ c \in PendingConfs \cup ApprovedConfs /\ ~confs[c].lapsed
    /\ confs' = [confs EXCEPT ![c].lapsed = TRUE]
    /\ UNCHANGED <<run, step, attempts, ops, overdue, runSeen, stepSeen,
                   life, active, call>>

DeadlinePasses ==
    /\ MayOverrun /\ Exists /\ ~overdue
    /\ overdue' = TRUE
    /\ UNCHANGED <<run, step, attempts, confs, ops, runSeen, stepSeen,
                   life, active, call>>

-----------------------------------------------------------------------------
\* The transactions a runtime still has to do in the method it is inside.
Proceed(r) ==
    \/ ReadRun(r)                \/ UpdateRun(r)
    \/ StartAttempt(r)           \/ PersistConfirmation(r)
    \/ FinishAttempt(r)          \/ CreateControlOperation(r)
    \/ CompleteControlOperation(r)
    \/ SupersedeConfirmations(r) \/ CancelInactiveStep(r)
    \/ CheckResumable(r)         \/ ResetStep(r)
    \/ ResolveConfirmation(r)    \/ ExpireRead(r)
    \/ SettleStep(r)             \/ ClaimStaleRun(r)
    \/ RecoverRun(r)

Command(r) ==
    \/ CreateRun(r) \/ PauseForMemoryRevision(r) \/ DeleteRun(r)
    \/ \E o \in OpIds \cup {NoOp} :
         \/ \E cmd \in Sent \cap {"pause", "cancel"} : RequestControl(r, cmd, o)
         \/ \E cmd \in Sent \cap {"resume", "retry"} : RequestResume(r, cmd, o)
         \/ \E c \in DOMAIN confs, cmd \in Sent \cap {"approve", "reject"} :
              RequestResolution(r, cmd, o, c) \/ RepeatResolution(r, cmd, o, c)

Body(r) ==
    \/ BodyReturns(r) \/ BodyThrows(r) \/ RecordProgress(r)
    \/ ModelBudgetRefused(r) \/ ConsumeReceipt(r)

Heartbeat(r) ==
    RenewLease(r) \/ \E c \in DOMAIN confs : ExpireConfirmation(r, c)

Environment ==
    \/ LeaseLapses \/ DeadlinePasses
    \/ \E c \in DOMAIN confs : ConfirmationLapses(c)

Next ==
    \/ \E r \in Runtimes :
         \/ RegisterRuntime(r) \/ Proceed(r) \/ Command(r) \/ Body(r)
         \/ Heartbeat(r) \/ Close(r) \/ Crash(r)
    \/ Environment

Spec == Init /\ [][Next]_vars

(***************************************************************************)
(* Properties.                                                             *)
(***************************************************************************)

RunRow  == [status : RunStatus \cup {"absent", "deleted"},
            owner : Runtimes \cup {NoRuntime}, leased : BOOLEAN,
            pauseRequested : BOOLEAN, request : Request]
StepRow == [status : StepStatus, confirm : BOOLEAN]
ConfRow == [status : ConfStatus, lapsed : BOOLEAN]

Execution == [attempt : Nat, control : {"", "pause", "cancel"},
              receipt : Nat, body : {"busy", "lost"}]
Call      == [pc : ProgramPoints, cmd : Commands, target : RunStatus,
              op : Ops \cup {NoOp}, n : Nat, conf : Nat, verdict : OpStatus]

\* Every variable keeps its shape: the rows, and each runtime's method.
TypeOK ==
    /\ run \in RunRow /\ step \in StepRow
    /\ attempts \in Seq(AttemptStatus) /\ confs \in Seq(ConfRow)
    /\ ops \in [Ops -> OpStatus] /\ overdue \in BOOLEAN
    /\ runSeen \subseteq Runtimes /\ stepSeen \subseteq Runtimes
    /\ life \in [Runtimes -> {"new", "up", "down"}]
    /\ active \in [Runtimes -> Execution]
    /\ call \in [Runtimes -> Call]

RunningAttempts == {i \in DOMAIN attempts : attempts[i] = "running"}
DoneAttempts    == {i \in DOMAIN attempts : attempts[i] = "done"}

\* However many runtimes race to resume, recover, pause or cancel the run,
\* at most one attempt of the step is ever running, and it is the latest.
OneRunningAttempt == RunningAttempts \subseteq {Len(attempts)}

\* A run is completed only when its step is done, by exactly one attempt:
\* not by an attempt that recovery or a cancellation has ended.
CompletedIsDone ==
    run.status = "completed" =>
        /\ step.status = "done"
        /\ DoneAttempts = {Len(attempts)}

\* A step that was created to need a confirmation is not done before a
\* confirmation of it was approved.
DoneWasApproved ==
    step.status = "done" /\ run.request.confirm =>
        \E c \in DOMAIN confs : confs[c].status \in {"approved", "consumed"}

\* Every change of the run's status is in the transition table, although
\* the store writes some of them without asserting it.
RunFollowsTable ==
    [][run'.status \in RunStatus /\ run.status \in RunStatus =>
         RunMayBecome(run.status, run'.status)]_vars

\* A cancelled run has no step left that is active or pending.
CancelledIsSettled ==
    run.status = "cancelled" =>
        step.status \in {"done", "failed", "skipped", "cancelled"}

\* A step that has ended stays as it ended.
EndedStepsStayEnded ==
    [][step.status \in {"done", "skipped", "cancelled"} /\ run'.status \in RunStatus =>
         step'.status = step.status]_vars

\* A run that waits for a confirmation has one that can be answered, and the
\* step that the answer settles, whenever no method is in progress.
WaitingIsAnswerable ==
    run.status = "waiting_confirmation" /\ (\A r \in Runtimes : call[r].pc = "idle") =>
        step.status = "waiting_confirmation" /\ PendingConfs # {}

\* A paused run can be resumed: its step can start again.
PausedIsResumable ==
    run.status = "paused" /\ (\A r \in Runtimes : call[r].pc = "idle") =>
        step.status \in {"pending", "failed"} /\ RunningAttempts = {}

-----------------------------------------------------------------------------
(* The inductive invariant behind these properties: what the rows say, and *)
(* what each runtime that is inside a method knows about them.             *)

Succeeded == attempts # <<>> /\ attempts[Len(attempts)] = "done"
Approved  == \E c \in DOMAIN confs : confs[c].status \in {"approved", "consumed"}

\* Attempts and copies of rows there are only while the run is there.
RowsExist ==
    /\ ~Exists => runSeen = {} /\ attempts = <<>>
    /\ ~MayOverrun => ~overdue

\* A running attempt is the latest; its step runs, or was cancelled under it.
RunningIsLatest ==
    \A i \in DOMAIN attempts : attempts[i] = "running" =>
        i = Len(attempts) /\ step.status \in {"running", "cancelled"}

\* A successful attempt is the latest; its step is done, and no other is.
DoneIsLatest ==
    /\ \A i \in DOMAIN attempts : attempts[i] = "done" => i = Len(attempts)
    /\ step.status = "done" <=> Succeeded
    /\ run.status = "completed" => Succeeded

\* A step stops asking for confirmation when one was approved; it is not done
\* while it asks.
ApprovalIsKept ==
    /\ Exists /\ run.request.confirm /\ ~step.confirm => Approved
    /\ step.status = "done" => ~step.confirm

StoreInv == RowsExist /\ RunningIsLatest /\ DoneIsLatest /\ ApprovalIsKept

\* Before the run is there it has no confirmations, nobody executes it, and
\* nobody is inside a method beyond the claim that found no run.
NothingBefore ==
    run.status = "absent" =>
        /\ confs = <<>>
        /\ \A r \in Runtimes : call[r].pc \in {"idle", "claim"} /\ ~IsActive(r)

\* Which methods and targets meet at a program point.
CallShape(r) ==
    LET c == call[r] IN
    /\ c.pc \in {"confirm", "finish"} => c.cmd \in Settling /\ c.target \in DOMAIN Outcome
    /\ c.pc = "read" => /\ c.cmd \notin Resuming
                        /\ c.target = "cancelling" => c.cmd \in Settling
    /\ c.pc = "op" => c.cmd \in {"pause", "cancel", "approve", "reject"} \cup Resuming
    /\ c.pc \in {"recover", "check", "reset"} => c.cmd \in Resuming
    /\ \/ c.pc = "op" /\ c.cmd \in Resolving
       \/ c.pc \in {"resolve", "settle"}
       => c.target \in {"paused", "failed"}
    /\ c.pc \in {"resolve", "settle"} => c.cmd \in Resolving
    /\ c.pc \in {"supersede", "cancelStep"} => c.cmd \notin Resuming
    /\ c.target = "completed" =>
         c.pc \in {"finish", "read", "cas"} \/ (c.pc = "op" /\ c.verdict # "applied")

\* A copy of the step that is current has the status it was checked for.
CopyIsChecked(r) ==
    r \in stepSeen =>
        /\ call[r].pc = "reset" => step.status \in {"failed", "pending"}
        /\ \/ call[r].pc = "op" /\ call[r].cmd \in Resolving /\ call[r].conf # 0
           \/ call[r].pc \in {"resolve", "settle"}
           => step.status = "waiting_confirmation"

\* The attempt about to start is the next one and nothing else runs, or
\* another runtime has started it already.
StartsNext(r) ==
    LET n == call[r].n IN
    Exists /\ \/ call[r].pc \in {"reset", "start"}
              \/ call[r].pc = "cas" /\ call[r].cmd \in Resuming /\ call[r].target = "running"
    => /\ n \in 1..MaxSteps /\ n <= Len(attempts) + 1
       /\ n = Len(attempts) + 1 => \A i \in DOMAIN attempts : attempts[i] # "running"

\* Completion follows a success, a settled approval an approved confirmation.
MovesOnFacts(r) ==
    /\ Exists /\ call[r].target = "completed" /\ call[r].pc \in {"read", "cas"} => Succeeded
    /\ Exists /\ call[r].target = "completed" /\ call[r].pc = "finish" => ~step.confirm
    /\ Exists /\ call[r].cmd = "approve" /\ call[r].pc = "settle" => Approved

CallInv(r) == CopyIsChecked(r) /\ StartsNext(r) /\ MovesOnFacts(r)

TypeInv == TypeOK /\ NothingBefore /\ \A r \in Runtimes : CallShape(r)
IInv    == TypeInv /\ StoreInv /\ \A r \in Runtimes : CallInv(r)

-----------------------------------------------------------------------------
\* The coordinator implements the lifecycle that watchers of a run rely on.
Lifecycle == INSTANCE RunLifecycle WITH status <- run.status, history <- attempts

ImplementsLifecycle == Lifecycle!Spec

-----------------------------------------------------------------------------
\* A method that was entered goes on, a launch happens, time passes.  The
\* model calls of an execution have timeouts, so it ends; its end and the
\* heartbeat are callbacks of the event loop, which runs them however many
\* commands arrive.
FairSpec ==
    /\ Spec
    /\ \A r \in Runtimes :
         /\ WF_vars(Proceed(r)) /\ WF_vars(RegisterRuntime(r))
         /\ SF_vars(BodyReturns(r) \/ BodyThrows(r))
         /\ SF_vars(\E c \in DOMAIN confs : ExpireConfirmation(r, c))
    /\ WF_vars(\E c \in DOMAIN confs : ConfirmationLapses(c))

SomeoneUp == \E r \in Runtimes : life[r] = "up"

\* failRun could not settle the execution and left it in the map.  Of a run that
\* is cancelling it does so when the budget has overwritten the cancel: it takes
\* the execution for paused, and a cancelling run cannot be paused.
LeftAsPaused(r) == active[r].body = "lost" /\ active[r].control = "pause"

\* A cancellation is settled at the next checkpoint of the execution.
CancelSettles ==
    run.status = "cancelling" ~>
        run.status # "cancelling" \/ \E r \in Runtimes : LeftAsPaused(r)

\* So is a pause that was asked for while the execution was at work.
PauseSettles ==
    run.status = "running" /\ run.pauseRequested ~>
        ~(run.status = "running" /\ run.pauseRequested)

\* Whatever was asked of a running execution, cancel or pause, is settled, with
\* one exception: the budget refuses a call after the cancel and the execution
\* then throws (pauseActiveRunForBudget, failRun).  That run stays cancelling.
RequestsSettle == CancelSettles /\ PauseSettles

\* A run does not wait for a confirmation for ever while a runtime is up.
WaitingEnds ==
    run.status = "waiting_confirmation" ~>
        run.status # "waiting_confirmation" \/ ~SomeoneUp

=============================================================================
