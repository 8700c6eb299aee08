------------------------ MODULE RunCoordinatorProofs ------------------------
(***************************************************************************)
(* Type correctness of RunCoordinator, with the shape of the calls it      *)
(* rests on: which methods and targets meet at a program point. Then its   *)
(* inductive invariant, the safety properties that follow from it, and the *)
(* refinement of RunLifecycle, for any number of runtimes, requests,       *)
(* attempts and confirmations. The last part is about histories without    *)
(* overlap: a runtime begins while no other is up.                         *)
(***************************************************************************)
EXTENDS RunCoordinator, SequenceTheorems, TLAPS

\* What every step of a runtime leaves alone: the calls of the others.
OnlyCallOf(r) ==
    /\ call' \in [Runtimes -> Call]
    /\ \A q \in Runtimes \ {r} : call'[q] = call[q]

\* A function on an initial segment is a sequence.
LEMMA RowsAreSeq ==
    ASSUME NEW S, NEW n \in Nat, NEW f \in [1..n -> S]
    PROVE  f \in Seq(S) /\ Len(f) = n
OBVIOUS

-----------------------------------------------------------------------------
(* How the helpers of the methods change a call.                           *)

LEMMA GotoIs ==
    ASSUME TypeOK, NEW r \in Runtimes, NEW pc \in ProgramPoints, NEW cmd \in Commands,
           NEW target \in RunStatus, Goto(r, pc, cmd, target)
    PROVE  /\ OnlyCallOf(r)
           /\ call'[r].pc = pc /\ call'[r].cmd = cmd /\ call'[r].target = target
           /\ call'[r].op = call[r].op /\ call'[r].n = call[r].n
           /\ call'[r].conf = call[r].conf /\ call'[r].verdict = call[r].verdict
BY DEF TypeOK, Call, Goto, OnlyCallOf

LEMMA IdleIs ==
    /\ Idle \in Call
    /\ Idle.pc = "idle" /\ Idle.cmd = "begin" /\ Idle.target = "queued"
BY DEF Idle, Call, ProgramPoints, Commands, RunStatus, OpStatus

LEMMA ReturnIs ==
    ASSUME TypeOK, NEW r \in Runtimes, Return(r)
    PROVE  /\ OnlyCallOf(r)
           /\ call'[r] = Idle
           /\ call'[r].pc = "idle" /\ call'[r].cmd = "begin" /\ call'[r].target = "queued"
BY IdleIs DEF TypeOK, Return, OnlyCallOf

LEMMA FinishedIs ==
    ASSUME TypeOK, NEW r \in Runtimes, NEW v \in OpStatus, Finished(r, v)
    PROVE  /\ OnlyCallOf(r)
           /\ call'[r].pc = "done" /\ call'[r].target = "queued"
           /\ call'[r].cmd = call[r].cmd
<1>1. call[r] \in Call
  BY DEF TypeOK
<1> DEFINE c == [Idle EXCEPT !.pc = "done", !.cmd = call[r].cmd, !.op = call[r].op,
                             !.conf = call[r].conf, !.verdict = v]
<1>2. c \in Call /\ c.pc = "done" /\ c.target = "queued" /\ c.cmd = call[r].cmd
  BY <1>1 DEF Idle, Call, ProgramPoints, RunStatus
<1>3. call' = [call EXCEPT ![r] = c]
  BY DEF Finished
<1> HIDE DEF c
<1> QED BY <1>2, <1>3 DEF TypeOK, OnlyCallOf

\* The names that the methods pass on are names of their sets.
LEMMA Names ==
    /\ "start" \in ProgramPoints /\ "read" \in ProgramPoints /\ "cas" \in ProgramPoints
    /\ "confirm" \in ProgramPoints /\ "finish" \in ProgramPoints
    /\ "supersede" \in ProgramPoints /\ "cancelStep" \in ProgramPoints
    /\ "expireRead" \in ProgramPoints /\ "settle" \in ProgramPoints
    /\ "claim" \in ProgramPoints /\ "recover" \in ProgramPoints
    /\ "begin" \in Commands /\ "complete" \in Commands /\ "fail" \in Commands
    /\ "close" \in Commands /\ "recover" \in Commands /\ "expire" \in Commands
    /\ "planning" \in RunStatus /\ "running" \in RunStatus /\ "paused" \in RunStatus
    /\ "waiting_confirmation" \in RunStatus /\ "failed" \in RunStatus
    /\ "cancelling" \in RunStatus /\ "cancelled" \in RunStatus
    /\ "completed" \in RunStatus
    /\ "applied" \in OpStatus /\ "failed" \in OpStatus /\ "rejected" \in OpStatus
BY DEF ProgramPoints, Commands, RunStatus, OpStatus

LEMMA FailWithIs ==
    ASSUME TypeOK, NEW r \in Runtimes, NEW aborted, FailWith(r, aborted)
    PROVE  /\ OnlyCallOf(r)
           /\ call'[r].cmd = "fail"
           /\ \/ call'[r].pc = "finish" /\ call'[r].target \in {"paused", "failed"}
              \/ call'[r].pc = "read" /\ call'[r].target = "cancelling"
<1>2. \/ Goto(r, "finish", "fail", "paused") \/ Goto(r, "finish", "fail", "failed")
      \/ Goto(r, "read", "fail", "cancelling")
  BY DEF FailWith
<1>3. CASE Goto(r, "finish", "fail", "paused")   BY <1>3, GotoIs, Names
<1>4. CASE Goto(r, "finish", "fail", "failed")   BY <1>4, GotoIs, Names
<1>5. CASE Goto(r, "read", "fail", "cancelling") BY <1>5, GotoIs, Names
<1> QED BY <1>2, <1>3, <1>4, <1>5

LEMMA ThrowIs ==
    ASSUME TypeOK, NEW r \in Runtimes, Throw(r)
    PROVE  /\ OnlyCallOf(r)
           /\ \/ call'[r].pc \in {"idle", "done"} /\ call'[r].target = "queued"
              \/ /\ call'[r].cmd = "fail"
                 /\ \/ call'[r].pc = "finish" /\ call'[r].target \in {"paused", "failed"}
                    \/ call'[r].pc = "read" /\ call'[r].target = "cancelling"
           /\ active' \in [Runtimes -> Execution]
           /\ life' \in [Runtimes -> {"new", "up", "down"}]
<1>1. CASE call[r].cmd = "complete"
  <2>1. FailWith(r, FALSE) /\ UNCHANGED <<active, life>>
    BY <1>1 DEF Throw, Resuming, Resolving
  <2> QED BY <2>1, FailWithIs DEF TypeOK
<1>2. CASE call[r].cmd = "fail"
  <2>1. active' = [active EXCEPT ![r].body = "lost"] /\ Return(r) /\ UNCHANGED life
    BY <1>2 DEF Throw, Resuming, Resolving
  <2>2. active' \in [Runtimes -> Execution]
    BY <2>1 DEF TypeOK, Execution
  <2> QED BY <2>1, <2>2, ReturnIs DEF TypeOK
<1>3. CASE call[r].cmd = "close"
  <2>1. /\ active' = [active EXCEPT ![r] = NoExecution]
        /\ life' = [life EXCEPT ![r] = "down"] /\ Return(r)
    BY <1>3 DEF Throw, Resuming, Resolving
  <2>2. active' \in [Runtimes -> Execution] /\ life' \in [Runtimes -> {"new", "up", "down"}]
    BY <2>1 DEF TypeOK, Execution, NoExecution
  <2> QED BY <2>1, <2>2, ReturnIs
<1>4. CASE call[r].cmd \notin {"complete", "fail", "close"}
  <2>1. (Finished(r, "failed") \/ Return(r)) /\ UNCHANGED <<active, life>>
    BY <1>4 DEF Throw, Resuming, Resolving
  <2> QED BY <2>1, FinishedIs, ReturnIs DEF TypeOK, OpStatus
<1> QED BY <1>1, <1>2, <1>3, <1>4

-----------------------------------------------------------------------------
(* The shape of the calls after a step.                                    *)

\* A call that has ended, or throws, keeps the shape.
LEMMA EndedShape ==
    ASSUME NEW r \in Runtimes, call'[r].pc \in {"idle", "done"},
           call'[r].target = "queued"
    PROVE  CallShape(r)'
BY DEF CallShape

LEMMA ThrowShape ==
    ASSUME TypeOK, NEW r \in Runtimes, Throw(r)
    PROVE  CallShape(r)'
<1>1. CASE call'[r].pc \in {"idle", "done"} /\ call'[r].target = "queued"
  BY <1>1, EndedShape
<1>2. CASE /\ call'[r].cmd = "fail"
           /\ \/ call'[r].pc = "finish" /\ call'[r].target \in {"paused", "failed"}
              \/ call'[r].pc = "read" /\ call'[r].target = "cancelling"
  BY <1>2 DEF CallShape, Settling, Resuming, Resolving, Outcome
<1> QED BY <1>1, <1>2, ThrowIs

LEMMA ShapeOfOthers ==
    ASSUME TypeInv, NEW r \in Runtimes, OnlyCallOf(r), CallShape(r)'
    PROVE  \A q \in Runtimes : CallShape(q)'
<1> SUFFICES ASSUME NEW q \in Runtimes, q # r PROVE CallShape(q)'
  OBVIOUS
<1>1. call'[q] = call[q] /\ CallShape(q)
  BY DEF OnlyCallOf, TypeInv
<1> QED BY <1>1 DEF CallShape

LEMMA TypeInvFrom ==
    ASSUME TypeInv, NEW r \in Runtimes, OnlyCallOf(r), CallShape(r)',
           run'.status # "absent" \/ NothingBefore',
           run' \in RunRow, step' \in StepRow, attempts' \in Seq(AttemptStatus),
           confs' \in Seq(ConfRow), ops' \in [Ops -> OpStatus], overdue' \in BOOLEAN,
           runSeen' \subseteq Runtimes, stepSeen' \subseteq Runtimes,
           life' \in [Runtimes -> {"new", "up", "down"}],
           active' \in [Runtimes -> Execution]
    PROVE  TypeInv'
<1>1. TypeOK'
  BY DEF TypeOK, OnlyCallOf
<1>2. NothingBefore'
  BY DEF NothingBefore
<1> QED BY <1>1, <1>2, ShapeOfOthers DEF TypeInv

\* Only a runtime that is idle or about to claim can meet an absent run.
LEMMA InsideExists ==
    ASSUME TypeInv, NEW r \in Runtimes,
           call[r].pc \notin {"idle", "claim"} \/ IsActive(r)
    PROVE  run.status # "absent"
BY DEF TypeInv, NothingBefore

LEMMA CallFields ==
    ASSUME TypeInv, NEW r \in Runtimes
    PROVE  /\ TypeOK /\ CallShape(r)
           /\ call[r] \in Call
           /\ call[r].pc \in ProgramPoints /\ call[r].cmd \in Commands
           /\ call[r].target \in RunStatus /\ call[r].op \in Ops \cup {NoOp}
           /\ call[r].n \in Nat /\ call[r].conf \in Nat /\ call[r].verdict \in OpStatus
BY DEF TypeInv, TypeOK, Call

-----------------------------------------------------------------------------
(* The actions.                                                            *)

LEMMA CreateRunType ==
    ASSUME TypeInv, ConstantsAssumption, NEW r \in Runtimes, CreateRun(r) PROVE TypeInv'
<1>1. PICK q \in Requests :
        /\ run' = [status |-> "queued", owner |-> r, leased |-> TRUE,
                   pauseRequested |-> FALSE, request |-> q]
        /\ step' = [status |-> "pending", confirm |-> q.confirm]
  BY DEF CreateRun
<1>2. run' \in RunRow /\ step' \in StepRow /\ run'.status = "queued"
  BY <1>1 DEF RunRow, StepRow, RunStatus, StepStatus, ConstantsAssumption, Request
<1>3. OnlyCallOf(r) /\ call'[r].pc = "read" /\ call'[r].cmd = "begin"
      /\ call'[r].target = "planning"
  <2>1. Goto(r, "read", "begin", "planning") /\ TypeOK
    BY DEF CreateRun, TypeInv
  <2> QED BY <2>1, GotoIs, Names
<1>4. CallShape(r)'
  BY <1>2, <1>3 DEF CallShape, Resuming
<1> QED BY <1>2, <1>3, <1>4, TypeInvFrom DEF CreateRun, TypeInv, TypeOK

LEMMA ReadRunType ==
    ASSUME TypeInv, NEW r \in Runtimes, ReadRun(r) PROVE TypeInv'
<1>1. /\ run' = run /\ run.status # "absent" /\ TypeOK /\ CallShape(r)
      /\ runSeen' \subseteq Runtimes
  BY InsideExists DEF ReadRun, store, TypeInv, TypeOK
<1>2. /\ OnlyCallOf(r) /\ CallShape(r)' /\ active' \in [Runtimes -> Execution]
      /\ life' \in [Runtimes -> {"new", "up", "down"}]
  <2>1. CASE Throw(r)
    BY <1>1, <2>1, ThrowIs, ThrowShape
  <2>2. CASE /\ call[r].target = "cancelling"
             /\ Goto(r, "finish", call[r].cmd, "cancelled")
             /\ UNCHANGED <<active, life>>
    <3>1. OnlyCallOf(r) /\ call'[r].pc = "finish" /\ call'[r].cmd = call[r].cmd
          /\ call'[r].target = "cancelled"
      BY <1>1, <2>2, GotoIs, Names, CallFields
    <3>2. call[r].cmd \in Settling
      BY <1>1, <2>2 DEF CallShape, ReadRun
    <3>3. CallShape(r)'
      BY <1>1, <3>1, <3>2 DEF CallShape, Outcome
    <3> QED BY <2>2, <3>1, <3>3 DEF TypeInv, TypeOK
  <2>3. CASE Goto(r, "cas", call[r].cmd, call[r].target) /\ UNCHANGED <<active, life>>
    <3>1. OnlyCallOf(r) /\ call'[r].pc = "cas"
      BY <1>1, <2>3, GotoIs, Names, CallFields
    <3>2. CallShape(r)'
      BY <1>1, <3>1 DEF CallShape
    <3> QED BY <2>3, <3>1, <3>2 DEF TypeInv, TypeOK
  <2> QED BY <2>1, <2>2, <2>3 DEF ReadRun
<1> QED BY <1>1, <1>2, TypeInvFrom DEF ReadRun, store, TypeInv, TypeOK

LEMMA AfterUpdateType ==
    ASSUME TypeInv, NEW r \in Runtimes, call[r].pc = "cas", AfterUpdate(r)
    PROVE  /\ OnlyCallOf(r) /\ CallShape(r)' /\ active' \in [Runtimes -> Execution]
           /\ life' \in [Runtimes -> {"new", "up", "down"}]
<1>1. TypeOK /\ CallShape(r) /\ call[r].cmd \in Commands
  BY CallFields
<1>2. CASE Goto(r, "read", "begin", "running") /\ UNCHANGED <<active, life>>
  <2>1. OnlyCallOf(r) /\ call'[r].pc = "read" /\ call'[r].cmd = "begin"
        /\ call'[r].target = "running"
    BY <1>1, <1>2, GotoIs, Names
  <2>2. CallShape(r)'
    BY <1>1, <2>1 DEF CallShape, Resuming
  <2> QED BY <1>2, <2>1, <2>2 DEF TypeInv, TypeOK
<1>3. CASE /\ call[r].target = "running"
           /\ call' = [call EXCEPT ![r] = [@ EXCEPT !.pc = "start", !.n = 1]]
           /\ UNCHANGED <<active, life>>
  <2>1. OnlyCallOf(r) /\ call'[r].pc = "start" /\ call'[r].target = "running"
    BY <1>1, <1>3 DEF TypeOK, Call, OnlyCallOf, ProgramPoints
  <2>2. CallShape(r)'
    BY <1>1, <2>1 DEF CallShape
  <2> QED BY <1>3, <2>1, <2>2 DEF TypeInv, TypeOK
<1>4. CASE /\ call[r].cmd \in Settling
           /\ Goto(r, "finish", call[r].cmd, "cancelled")
           /\ UNCHANGED <<active, life>>
  <2>1. OnlyCallOf(r) /\ call'[r].pc = "finish" /\ call'[r].cmd = call[r].cmd
        /\ call'[r].target = "cancelled"
    BY <1>1, <1>4, GotoIs, Names
  <2>2. CallShape(r)'
    BY <1>1, <1>4, <2>1 DEF CallShape, Outcome
  <2> QED BY <1>4, <2>1, <2>2 DEF TypeInv, TypeOK
<1>5. CASE /\ active' = [active EXCEPT ![r] = NoExecution]
           /\ life' = IF call[r].cmd = "close" THEN [life EXCEPT ![r] = "down"] ELSE life
           /\ Return(r)
  <2>1. active' \in [Runtimes -> Execution] /\ life' \in [Runtimes -> {"new", "up", "down"}]
    BY <1>1, <1>5 DEF TypeOK, Execution, NoExecution
  <2> QED BY <1>1, <1>5, <2>1, ReturnIs, EndedShape
<1>6. CASE /\ active' = [active EXCEPT ![r].control = "cancel"]
           /\ Finished(r, "applied") /\ UNCHANGED life
  <2>1. active' \in [Runtimes -> Execution] /\ life' \in [Runtimes -> {"new", "up", "down"}]
    BY <1>1, <1>6 DEF TypeOK, Execution
  <2> QED BY <1>1, <1>6, <2>1, FinishedIs, EndedShape, Names
<1>7. CASE /\ call[r].cmd = "cancel"
           /\ Goto(r, "supersede", call[r].cmd, "cancelled")
           /\ UNCHANGED <<active, life>>
  <2>1. OnlyCallOf(r) /\ call'[r].pc = "supersede" /\ call'[r].cmd = "cancel"
        /\ call'[r].target = "cancelled"
    BY <1>1, <1>7, GotoIs, Names
  <2>2. CallShape(r)'
    BY <1>1, <2>1 DEF CallShape, Resuming
  <2> QED BY <1>7, <2>1, <2>2 DEF TypeInv, TypeOK
<1>8. CASE Goto(r, "start", call[r].cmd, "running") /\ UNCHANGED <<active, life>>
  <2>1. OnlyCallOf(r) /\ call'[r].pc = "start" /\ call'[r].target = "running"
    BY <1>1, <1>8, GotoIs, Names
  <2>2. CallShape(r)'
    BY <1>1, <2>1 DEF CallShape
  <2> QED BY <1>8, <2>1, <2>2 DEF TypeInv, TypeOK
<1>9. CASE /\ Finished(r, "failed") \/ Finished(r, "applied")
           /\ UNCHANGED <<active, life>>
  BY <1>1, <1>9, FinishedIs, EndedShape, Names DEF TypeOK
<1> QED BY <1>2, <1>3, <1>4, <1>5, <1>6, <1>7, <1>8, <1>9 DEF AfterUpdate

LEMMA UpdatedIs ==
    ASSUME TypeInv, NEW r \in Runtimes
    PROVE  /\ Updated(r) \in RunRow
           /\ Updated(r).status = call[r].target
           /\ Updated(r).request = run.request
BY CallFields DEF TypeOK, Updated, RunRow

LEMMA UpdateRunType ==
    ASSUME TypeInv, NEW r \in Runtimes, UpdateRun(r) PROVE TypeInv'
<1>1. TypeOK /\ run.status # "absent" /\ run \in RunRow /\ call[r].target \in RunStatus
      /\ call[r].pc = "cas"
  BY InsideExists, CallFields DEF UpdateRun, TypeOK
<1>2. CASE run' = Updated(r) /\ AfterUpdate(r) /\ CanUpdate(r)
  <2>1. run' \in RunRow /\ run'.status # "absent"
    BY <1>1, <1>2, UpdatedIs DEF RunStatus
  <2> QED BY <1>1, <1>2, <2>1, AfterUpdateType, TypeInvFrom DEF UpdateRun, TypeOK
<1>3. CASE Throw(r) /\ UNCHANGED run /\ ~CanUpdate(r)
  BY <1>1, <1>3, ThrowIs, ThrowShape, TypeInvFrom DEF UpdateRun, TypeOK, Forget
<1> QED BY <1>2, <1>3 DEF UpdateRun

LEMMA StartAttemptType ==
    ASSUME TypeInv, NEW r \in Runtimes, StartAttempt(r) PROVE TypeInv'
<1>1. TypeOK /\ CallShape(r) /\ run.status # "absent" /\ call[r].n \in Nat
      /\ call[r].conf \in Nat
  BY InsideExists, CallFields DEF StartAttempt
<1>2. ASSUME Started(r)
      PROVE  /\ OnlyCallOf(r) /\ CallShape(r)' /\ active' \in [Runtimes -> Execution]
             /\ life' \in [Runtimes -> {"new", "up", "down"}]
  <2>1. active' \in [Runtimes -> Execution] /\ life' = life
    BY <1>1, <1>2 DEF TypeOK, Execution, Started
  <2>2. Return(r) \/ Finished(r, "applied")
    BY <1>2 DEF Started
  <2>3. OnlyCallOf(r) /\ CallShape(r)'
    BY <1>1, <1>2, <2>2, ReturnIs, FinishedIs, EndedShape, Names
  <2> QED BY <1>1, <2>1, <2>3 DEF TypeOK
<1>3. /\ run' \in RunRow /\ run'.status # "absent" /\ step' \in StepRow
      /\ attempts' \in Seq(AttemptStatus)
      /\ runSeen' \subseteq Runtimes /\ stepSeen' \subseteq Runtimes
  <2>1. CASE UNCHANGED <<run, step, attempts, runSeen, stepSeen>>
    BY <1>1, <2>1 DEF TypeOK
  <2>2. CASE /\ run' = [run EXCEPT !.status = "paused"] /\ runSeen' = {}
             /\ UNCHANGED <<step, attempts, stepSeen>>
    <3>1. run' \in RunRow /\ run'.status = "paused"
      BY <1>1, <2>2, Names DEF TypeOK, RunRow
    <3> QED BY <1>1, <2>2, <3>1 DEF TypeOK
  <2>3. CASE /\ attempts' = Append(attempts, "running")
             /\ step' = [step EXCEPT !.status = "running"]
             /\ runSeen' = {} /\ stepSeen' = {} /\ UNCHANGED run
    <3>1. attempts' \in Seq(AttemptStatus)
      BY <1>1, <2>3 DEF TypeOK, AttemptStatus
    <3>2. step' \in StepRow
      BY <1>1, <2>3 DEF TypeOK, StepRow, StepStatus
    <3> QED BY <1>1, <2>3, <3>1, <3>2 DEF TypeOK
  <2> QED BY <2>1, <2>2, <2>3 DEF StartAttempt
<1>4. /\ OnlyCallOf(r) /\ CallShape(r)' /\ active' \in [Runtimes -> Execution]
      /\ life' \in [Runtimes -> {"new", "up", "down"}]
  <2>1. Started(r) \/ Throw(r)
    BY DEF StartAttempt
  <2> QED BY <1>1, <1>2, <1>3, <2>1, ThrowIs, ThrowShape
<1> QED BY <1>1, <1>3, <1>4, TypeInvFrom DEF StartAttempt, TypeOK

\* A step of an execution's body that only enters completeRun or failRun.
LEMMA BodyEnds ==
    ASSUME TypeInv, NEW r \in Runtimes, UNCHANGED <<store, runSeen, stepSeen, life, active>>,
           OnlyCallOf(r), CallShape(r)', run.status # "absent"
    PROVE  TypeInv'
BY TypeInvFrom DEF store, TypeInv, TypeOK

LEMMA FailWithShape ==
    ASSUME TypeOK, NEW r \in Runtimes, NEW aborted, FailWith(r, aborted)
    PROVE  OnlyCallOf(r) /\ CallShape(r)'
BY FailWithIs DEF CallShape, Settling, Resuming, Resolving, Outcome

\* An execution is held only while its run was created.
LEMMA BodyReturnsType ==
    ASSUME TypeInv, NEW r \in Runtimes, BodyReturns(r)
    PROVE  TypeInv'
<1>1. TypeOK /\ run' = run
  BY DEF TypeInv, BodyReturns, store
<1>2. \/ FailWith(r, FALSE)
      \/ Goto(r, "read", "complete", "cancelling")
      \/ Goto(r, "finish", "complete", "paused")
      \/ Goto(r, "confirm", "complete", "waiting_confirmation")
      \/ Goto(r, "finish", "complete", "completed")
  BY DEF BodyReturns
<1>3. OnlyCallOf(r) /\ CallShape(r)'
  <2>1. CASE FailWith(r, FALSE)
    BY <1>1, <2>1, FailWithShape
  <2>2. CASE Goto(r, "read", "complete", "cancelling")
    BY <1>1, <2>2, GotoIs, Names DEF CallShape, Settling, Resuming, Resolving
  <2>3. CASE Goto(r, "finish", "complete", "paused")
    BY <1>1, <2>3, GotoIs, Names DEF CallShape, Settling, Resuming, Resolving, Outcome
  <2>4. CASE Goto(r, "confirm", "complete", "waiting_confirmation")
    BY <1>1, <2>4, GotoIs, Names DEF CallShape, Settling, Resuming, Resolving, Outcome
  <2>5. CASE Goto(r, "finish", "complete", "completed")
    BY <1>1, <2>5, GotoIs, Names DEF CallShape, Settling, Resuming, Resolving, Outcome
  <2> QED BY <1>2, <2>1, <2>2, <2>3, <2>4, <2>5
<1> QED BY <1>3, BodyEnds, InsideExists DEF BodyReturns, Busy

LEMMA BodyThrowsType ==
    ASSUME TypeInv, NEW r \in Runtimes, BodyThrows(r)
    PROVE  TypeInv'
<1>1. TypeOK /\ run' = run /\ \E aborted \in BOOLEAN : FailWith(r, aborted)
  BY DEF TypeInv, BodyThrows, store
<1> QED BY <1>1, FailWithShape, BodyEnds, InsideExists DEF BodyThrows, Busy

LEMMA PersistConfirmationType ==
    ASSUME TypeInv, NEW r \in Runtimes, PersistConfirmation(r) PROVE TypeInv'
<1>1. TypeOK /\ CallShape(r) /\ run.status # "absent" /\ run' = run
  BY InsideExists, CallFields DEF PersistConfirmation
<1>2. CASE Throw(r) /\ UNCHANGED confs
  BY <1>1, <1>2, ThrowIs, ThrowShape, TypeInvFrom DEF PersistConfirmation, TypeOK
<1>3. CASE /\ confs' = Append(confs, [status |-> "pending", lapsed |-> FALSE])
           /\ Goto(r, "finish", call[r].cmd, call[r].target)
           /\ UNCHANGED <<active, life>>
  <2>1. confs' \in Seq(ConfRow)
    BY <1>1, <1>3 DEF TypeOK, ConfRow, ConfStatus
  <2>2. OnlyCallOf(r) /\ call'[r].pc = "finish" /\ call'[r].cmd = call[r].cmd
        /\ call'[r].target = call[r].target
    BY <1>1, <1>3, GotoIs, CallFields, Names
  <2>3. CallShape(r)'
    BY <1>1, <2>2 DEF PersistConfirmation, CallShape
  <2> QED BY <1>1, <1>3, <2>1, <2>2, <2>3, TypeInvFrom DEF PersistConfirmation, TypeOK
<1> QED BY <1>2, <1>3 DEF PersistConfirmation

\* What a finished attempt leaves is a status of its attempt and of its step.
LEMMA OutcomeIs ==
    ASSUME NEW target \in DOMAIN Outcome
    PROVE  /\ Outcome[target].attempt \in AttemptStatus \ {"running"}
           /\ Outcome[target].step \in StepStatus \ {"running"}
           /\ Outcome[target].attempt = "done" <=> target = "completed"
           /\ Outcome[target].step = "done" <=> target = "completed"
BY DEF Outcome, AttemptStatus, StepStatus

LEMMA FinishAttemptType ==
    ASSUME TypeInv, NEW r \in Runtimes, FinishAttempt(r) PROVE TypeInv'
<1> DEFINE o == Outcome[call[r].target]
<1>1. /\ TypeOK /\ CallShape(r) /\ run.status # "absent" /\ run' = run
      /\ call[r].target \in DOMAIN Outcome /\ call[r].cmd \in Settling
  BY InsideExists, CallFields DEF FinishAttempt, CallShape
<1>2. o.attempt \in AttemptStatus /\ o.step \in StepStatus
  BY <1>1, OutcomeIs
<1>3. CASE Throw(r) /\ UNCHANGED <<attempts, step, stepSeen>>
  BY <1>1, <1>3, ThrowIs, ThrowShape, TypeInvFrom DEF FinishAttempt, TypeOK
<1>4. CASE /\ active[r].attempt \in DOMAIN attempts
           /\ attempts' = [attempts EXCEPT ![active[r].attempt] = o.attempt]
           /\ step' = [step EXCEPT !.status = o.step]
           /\ stepSeen' = {}
           /\ Goto(r, "read", call[r].cmd, call[r].target)
           /\ UNCHANGED <<active, life>>
  <2> HIDE DEF o
  <2>1. attempts' \in Seq(AttemptStatus)
    BY <1>1, <1>2, <1>4, LenProperties, ExceptSeq DEF TypeOK
  <2>2. step' \in StepRow
    BY <1>1, <1>2, <1>4 DEF TypeOK, StepRow
  <2>3. OnlyCallOf(r) /\ call'[r].pc = "read" /\ call'[r].cmd = call[r].cmd
        /\ call'[r].target = call[r].target
    BY <1>1, <1>4, GotoIs, CallFields, Names
  <2>4. CallShape(r)'
    BY <1>1, <2>3 DEF CallShape, Settling, Resuming
  <2> QED BY <1>1, <1>4, <2>1, <2>2, <2>3, <2>4, TypeInvFrom DEF FinishAttempt, TypeOK
<1> QED BY <1>3, <1>4 DEF FinishAttempt

-----------------------------------------------------------------------------

\* Entering a command leaves the rows and the executions alone.
LEMMA EnterIs ==
    ASSUME TypeInv, NEW r \in Runtimes, NEW cmd \in Commands, NEW o \in Ops \cup {NoOp},
           NEW c \in Nat, NEW target \in RunStatus, NEW verdict \in OpStatus,
           Enter(r, cmd, o, c, target, verdict)
    PROVE  /\ Exists /\ UNCHANGED <<store, life, active>>
           /\ OnlyCallOf(r)
           /\ call'[r].pc = "op" /\ call'[r].cmd = cmd /\ call'[r].target = target
           /\ call'[r].op = o /\ call'[r].conf = c /\ call'[r].verdict = verdict
<1> DEFINE d == [Idle EXCEPT !.pc = "op", !.cmd = cmd, !.op = o,
                             !.target = target, !.conf = c, !.verdict = verdict]
<1>1. /\ d \in Call /\ d.pc = "op" /\ d.cmd = cmd /\ d.target = target
      /\ d.op = o /\ d.conf = c /\ d.verdict = verdict
  BY DEF Idle, Call, ProgramPoints
<1>2. call' = [call EXCEPT ![r] = d] /\ Exists /\ UNCHANGED <<store, life, active>>
  BY DEF Enter
<1> HIDE DEF d
<1> QED BY <1>1, <1>2, CallFields DEF TypeOK, OnlyCallOf

LEMMA EnterType ==
    ASSUME TypeInv, NEW r \in Runtimes, NEW cmd \in Commands, NEW o \in Ops \cup {NoOp},
           NEW c \in Nat, NEW target \in RunStatus, NEW verdict \in OpStatus,
           Enter(r, cmd, o, c, target, verdict),
           runSeen' \subseteq Runtimes, stepSeen' \subseteq Runtimes,
           cmd \in {"pause", "cancel", "approve", "reject"} \cup Resuming,
           cmd \in Resolving => target \in {"paused", "failed"},
           target = "completed" => verdict # "applied"
    PROVE  TypeInv'
<1>1. /\ Exists /\ UNCHANGED <<store, life, active>> /\ OnlyCallOf(r)
      /\ call'[r].pc = "op" /\ call'[r].cmd = cmd /\ call'[r].target = target
      /\ call'[r].verdict = verdict
  BY EnterIs
<1>2. CallShape(r)'
  BY <1>1 DEF CallShape
<1>3. run.status # "absent"
  BY <1>1 DEF Exists, RunStatus
<1> QED BY <1>1, <1>2, <1>3, TypeInvFrom DEF store, TypeInv, TypeOK

LEMMA ControlIs ==
    ASSUME NEW current \in RunStatus, NEW cmd \in {"pause", "cancel"},
           NEW inFlight \in BOOLEAN
    PROVE  /\ ControlStatus(current, cmd, inFlight) \in RunStatus
           /\ ControlStatus(current, cmd, inFlight) = "completed"
                => ~ControlAllowed(current, cmd)
BY DEF ControlStatus, ControlAllowed, RunStatus, RunTerminal

LEMMA RequestControlType ==
    ASSUME TypeInv, NEW r \in Runtimes, NEW o \in OpIds \cup {NoOp},
           NEW cmd \in {"pause", "cancel"}, RequestControl(r, cmd, o)
    PROVE  TypeInv'
<1> DEFINE target == ControlStatus(run.status, cmd, IsActive(r))
           verdict(v) == IF v = "applied" /\ ~ControlAllowed(run.status, cmd)
                         THEN "failed" ELSE v
<1>1. PICK v \in Versions : /\ Enter(r, cmd, o, 0, target, verdict(v))
                            /\ runSeen' = runSeen \cup {r} /\ UNCHANGED stepSeen
  BY DEF RequestControl
<1>2. run.status \in RunStatus
  BY <1>1 DEF Enter, Exists
<1>3. target \in RunStatus /\ (target = "completed" => ~ControlAllowed(run.status, cmd))
  BY <1>2, ControlIs DEF IsActive
<1>4. /\ verdict(v) \in OpStatus
      /\ target = "completed" => verdict(v) # "applied"
  BY <1>3 DEF OpStatus, Versions
<1>5. cmd \in Commands /\ cmd \notin Resolving /\ o \in Ops \cup {NoOp}
  BY DEF Commands, Resolving, Ops
<1>6. runSeen' \subseteq Runtimes /\ stepSeen' \subseteq Runtimes
  BY <1>1 DEF TypeInv, TypeOK
<1> HIDE DEF target, verdict
<1> QED BY <1>1, <1>3, <1>4, <1>5, <1>6, EnterType

LEMMA RequestResumeType ==
    ASSUME TypeInv, NEW r \in Runtimes, NEW o \in OpIds \cup {NoOp},
           NEW cmd \in {"resume", "retry"}, RequestResume(r, cmd, o)
    PROVE  TypeInv'
<1> DEFINE verdict(v) == IF v = "applied" /\ run.status \notin {"paused", "failed"}
                         THEN "failed" ELSE v
<1>1. PICK v \in Versions : Enter(r, cmd, o, 0, "running", verdict(v))
  BY DEF RequestResume
<1>2. verdict(v) \in OpStatus
  BY DEF OpStatus, Versions
<1>3. /\ cmd \in Commands /\ cmd \notin Resolving /\ cmd \in Resuming
      /\ o \in Ops \cup {NoOp}
  BY DEF Commands, Resolving, Resuming, Ops
<1>4. runSeen' \subseteq Runtimes /\ stepSeen' \subseteq Runtimes
  BY DEF RequestResume, TypeInv, TypeOK
<1> HIDE DEF verdict
<1> QED BY <1>1, <1>2, <1>3, <1>4, EnterType, Names

LEMMA RequestResolutionType ==
    ASSUME TypeInv, NEW r \in Runtimes, NEW o \in OpIds \cup {NoOp}, NEW c \in DOMAIN confs,
           NEW cmd \in {"approve", "reject"},
           RequestResolution(r, cmd, o, c) \/ RepeatResolution(r, cmd, o, c)
    PROVE  TypeInv'
<1>1. PICK k \in Nat, target \in {"paused", "failed"}, v \in OpStatus :
        Enter(r, cmd, o, k, target, v)
  <2>1. c \in Nat
    BY LenProperties DEF TypeInv, TypeOK
  <2>2. "applied" \in OpStatus /\ "rejected" \in OpStatus
    BY Names
  <2>3. CASE RepeatResolution(r, cmd, o, c)
    BY <2>2, <2>3 DEF RepeatResolution
  <2>4. CASE RequestResolution(r, cmd, o, c)
    BY <2>1, <2>2, <2>4 DEF RequestResolution, Versions
  <2> QED BY <2>3, <2>4
<1>2. cmd \in Commands /\ o \in Ops \cup {NoOp} /\ target \in RunStatus /\ target # "completed"
  BY DEF Commands, Ops, RunStatus
<1>3. runSeen' \subseteq Runtimes /\ stepSeen' \subseteq Runtimes
  BY DEF RequestResolution, RepeatResolution, TypeInv, TypeOK
<1> QED BY <1>1, <1>2, <1>3, EnterType

LEMMA PauseForMemoryRevisionType ==
    ASSUME TypeInv, NEW r \in Runtimes, PauseForMemoryRevision(r) PROVE TypeInv'
<1> DEFINE target == ControlStatus("running", "pause", IsActive(r))
           d == [Idle EXCEPT !.pc = "op", !.cmd = "pause", !.target = target]
<1>1. TypeOK /\ run.status # "absent" /\ UNCHANGED store
  BY DEF TypeInv, PauseForMemoryRevision
<1>2. target \in {"running", "paused"}
  BY DEF ControlStatus
<1>3. d \in Call /\ d.pc = "op" /\ d.cmd = "pause" /\ d.target = target
  <2> HIDE DEF target
  <2> QED BY <1>2 DEF Idle, Call, ProgramPoints, Commands, RunStatus, OpStatus
<1>4. call' = [call EXCEPT ![r] = d]
  BY DEF PauseForMemoryRevision
<1> HIDE DEF target, d
<1>5. OnlyCallOf(r) /\ call'[r] = d
  BY <1>1, <1>3, <1>4 DEF TypeOK, OnlyCallOf
<1>6. CallShape(r)'
  BY <1>2, <1>3, <1>5 DEF CallShape, Resolving
<1>7. active' \in [Runtimes -> Execution]
  BY <1>1 DEF PauseForMemoryRevision, TypeOK, Execution
<1> QED BY <1>1, <1>5, <1>6, <1>7, TypeInvFrom DEF PauseForMemoryRevision, store, TypeOK

-----------------------------------------------------------------------------

LEMMA CreateControlOperationType ==
    ASSUME TypeInv, NEW r \in Runtimes, CreateControlOperation(r) PROVE TypeInv'
<1>1. /\ TypeOK /\ CallShape(r) /\ run.status # "absent" /\ run' = run
      /\ call[r].pc = "op" /\ call[r].cmd \in Commands /\ call[r].target \in RunStatus
      /\ call[r].verdict \in OpStatus
      /\ runSeen' \subseteq Runtimes /\ stepSeen' \subseteq Runtimes
  BY InsideExists, CallFields DEF CreateControlOperation, Forget, TypeOK
<1>2. CASE Throw(r) /\ UNCHANGED ops
  BY <1>1, <1>2, ThrowIs, ThrowShape, TypeInvFrom DEF CreateControlOperation, TypeOK
<1>3. ASSUME ops' = IF call[r].op \in Ops /\ ops[call[r].op] = "none"
                    THEN [ops EXCEPT ![call[r].op] = "pending"] ELSE ops
      PROVE  ops' \in [Ops -> OpStatus]
  BY <1>1, <1>3 DEF TypeOK, OpStatus
<1>4. CASE /\ ops' \in [Ops -> OpStatus]
           /\ Finished(r, call[r].verdict) /\ UNCHANGED <<active, life>>
  BY <1>1, <1>4, FinishedIs, EndedShape, TypeInvFrom DEF CreateControlOperation, TypeOK
<1>5. CASE /\ ops' \in [Ops -> OpStatus] /\ UNCHANGED life
           /\ call[r].verdict = "applied"
           /\ Goto(r, CASE call[r].cmd \in {"pause", "cancel"} -> "cas"
                        [] call[r].cmd \in Resuming            -> "check"
                        [] OTHER                               -> "resolve",
                   call[r].cmd, call[r].target)
           /\ active' = IF call[r].cmd = "pause" /\ IsActive(r)
                        THEN [active EXCEPT ![r].control = "pause"]
                        ELSE active
  <2> DEFINE pc == CASE call[r].cmd \in {"pause", "cancel"} -> "cas"
                     [] call[r].cmd \in Resuming            -> "check"
                     [] OTHER                               -> "resolve"
  <2>1. /\ pc \in {"cas", "check", "resolve"}
        /\ pc = "check" => call[r].cmd \in Resuming
        /\ pc = "resolve" => call[r].cmd \in Resolving
    BY <1>1 DEF CallShape, Resolving, Resuming
  <2>2. Goto(r, pc, call[r].cmd, call[r].target)
    BY <1>5
  <2> HIDE DEF pc
  <2>3. OnlyCallOf(r) /\ call'[r].pc = pc /\ call'[r].cmd = call[r].cmd
        /\ call'[r].target = call[r].target
    <3>1. pc \in ProgramPoints
      BY <2>1 DEF ProgramPoints
    <3> QED BY <1>1, <2>2, <3>1, GotoIs
  <2>4. CallShape(r)'
    BY <1>1, <1>5, <2>1, <2>3 DEF CallShape
  <2>5. active' \in [Runtimes -> Execution]
    BY <1>1, <1>5 DEF TypeOK, Execution
  <2> QED BY <1>1, <1>5, <2>3, <2>4, <2>5, TypeInvFrom DEF CreateControlOperation, TypeOK
<1> QED BY <1>2, <1>3, <1>4, <1>5 DEF CreateControlOperation

LEMMA CompleteControlOperationType ==
    ASSUME TypeInv, NEW r \in Runtimes, CompleteControlOperation(r) PROVE TypeInv'
<1>1. /\ TypeOK /\ run.status # "absent" /\ run' = run /\ call[r].verdict \in OpStatus
      /\ runSeen' \subseteq Runtimes /\ stepSeen' \subseteq Runtimes
  BY InsideExists, CallFields DEF CompleteControlOperation, TypeOK
<1>2. ops' \in [Ops -> OpStatus]
  BY <1>1 DEF CompleteControlOperation, TypeOK
<1>3. OnlyCallOf(r) /\ CallShape(r)'
  BY <1>1, ReturnIs, EndedShape DEF CompleteControlOperation
<1> QED BY <1>1, <1>2, <1>3, TypeInvFrom DEF CompleteControlOperation, TypeOK

LEMMA SupersedeConfirmationsType ==
    ASSUME TypeInv, NEW r \in Runtimes, SupersedeConfirmations(r) PROVE TypeInv'
<1>1. TypeOK /\ CallShape(r) /\ run.status # "absent" /\ run' = run
  BY InsideExists, CallFields DEF SupersedeConfirmations
<1>2. confs' \in Seq(ConfRow)
  <2>1. Len(confs) \in Nat /\ DOMAIN confs = 1..Len(confs)
        /\ \A c \in DOMAIN confs : confs[c] \in ConfRow
    BY <1>1, LenProperties, ElementOfSeq DEF TypeOK
  <2>2. confs' \in [1..Len(confs) -> ConfRow]
    BY <2>1 DEF SupersedeConfirmations, ConfRow, ConfStatus
  <2> QED BY <2>1, <2>2, RowsAreSeq
<1>3. OnlyCallOf(r) /\ call'[r].pc = "cancelStep" /\ call'[r].cmd = call[r].cmd
      /\ call'[r].target = call[r].target
  BY <1>1, GotoIs, CallFields, Names DEF SupersedeConfirmations
<1>4. CallShape(r)'
  BY <1>1, <1>3 DEF SupersedeConfirmations, CallShape
<1> QED BY <1>1, <1>2, <1>3, <1>4, TypeInvFrom DEF SupersedeConfirmations, TypeOK

LEMMA CancelInactiveStepType ==
    ASSUME TypeInv, NEW r \in Runtimes, CancelInactiveStep(r) PROVE TypeInv'
<1>1. TypeOK /\ CallShape(r) /\ run.status # "absent" /\ run' = run
  BY InsideExists, CallFields DEF CancelInactiveStep
<1>2. step' \in StepRow /\ stepSeen' \subseteq Runtimes
  BY <1>1 DEF CancelInactiveStep, TypeOK, StepRow, StepStatus
<1>3. OnlyCallOf(r) /\ call'[r].pc = "read" /\ call'[r].cmd = call[r].cmd
      /\ call'[r].target = "cancelled"
  BY <1>1, GotoIs, CallFields, Names DEF CancelInactiveStep
<1>4. CallShape(r)'
  BY <1>1, <1>3 DEF CancelInactiveStep, CallShape
<1> QED BY <1>1, <1>2, <1>3, <1>4, TypeInvFrom DEF CancelInactiveStep, TypeOK

LEMMA CheckResumableType ==
    ASSUME TypeInv, NEW r \in Runtimes, CheckResumable(r) PROVE TypeInv'
<1>1. /\ TypeOK /\ CallShape(r) /\ run.status # "absent" /\ run' = run
      /\ call[r].pc = "check" /\ call[r].cmd \in Resuming
      /\ runSeen' \subseteq Runtimes /\ stepSeen' \subseteq Runtimes
  BY InsideExists, CallFields DEF CheckResumable, store, TypeOK, CallShape
<1>2. OnlyCallOf(r) /\ CallShape(r)'
  <2>1. CASE Finished(r, "failed")
    BY <1>1, <2>1, FinishedIs, EndedShape, Names
  <2>2. CASE Goto(r, "cas", call[r].cmd, "paused")
    BY <1>1, <2>2, GotoIs, CallFields, Names DEF CallShape
  <2>3. CASE call' = [call EXCEPT ![r] =
                        [@ EXCEPT !.pc = "reset", !.n = Len(attempts) + 1,
                                  !.conf = IF Receipts(r) = {} THEN 0
                                           ELSE CHOOSE c \in Receipts(r) : TRUE]]
    <3> DEFINE receipt == IF Receipts(r) = {} THEN 0
                          ELSE CHOOSE c \in Receipts(r) : TRUE
               d == [call[r] EXCEPT !.pc = "reset", !.n = Len(attempts) + 1,
                                    !.conf = receipt]
    <3>1. Receipts(r) \subseteq Nat
      <4>1. DOMAIN confs = 1..Len(confs) /\ Len(confs) \in Nat
        BY <1>1, LenProperties DEF TypeOK
      <4> QED BY <4>1 DEF Receipts, ApprovedConfs
    <3>2. receipt \in Nat
      <4>1. CASE Receipts(r) = {}
        BY <4>1
      <4>2. CASE Receipts(r) # {}
        <5>1. (CHOOSE c \in Receipts(r) : TRUE) \in Receipts(r)
          BY <4>2
        <5> QED BY <3>1, <4>2, <5>1
      <4> QED BY <4>1, <4>2
    <3>3. Len(attempts) + 1 \in Nat /\ call[r] \in Call
      BY <1>1, LenProperties DEF TypeOK
    <3> HIDE DEF receipt
    <3>4. d \in Call /\ d.pc = "reset" /\ d.cmd = call[r].cmd /\ d.target = call[r].target
      BY <3>2, <3>3 DEF Call, ProgramPoints
    <3>5. call' = [call EXCEPT ![r] = d]
      BY <2>3 DEF receipt
    <3> HIDE DEF d
    <3>6. OnlyCallOf(r) /\ call'[r] = d
      BY <1>1, <3>4, <3>5 DEF TypeOK, OnlyCallOf
    <3>7. CallShape(r)'
      BY <1>1, <3>4, <3>6 DEF CallShape
    <3> QED BY <3>6, <3>7
  <2> QED BY <2>1, <2>2, <2>3 DEF CheckResumable
<1> QED BY <1>1, <1>2, TypeInvFrom DEF CheckResumable, store, TypeOK

LEMMA ResetStepType ==
    ASSUME TypeInv, NEW r \in Runtimes, ResetStep(r) PROVE TypeInv'
<1>1. TypeOK /\ CallShape(r) /\ run.status # "absent" /\ run' = run
      /\ runSeen' \subseteq Runtimes /\ stepSeen' \subseteq Runtimes
  BY InsideExists, CallFields DEF ResetStep, Forget, TypeOK
<1>2. step' \in StepRow
  BY <1>1 DEF ResetStep, TypeOK, StepRow, StepStatus
<1>3. OnlyCallOf(r) /\ CallShape(r)'
  <2>1. CASE Goto(r, "cas", call[r].cmd, "running")
    BY <1>1, <2>1, GotoIs, CallFields, Names DEF CallShape
  <2>2. CASE Finished(r, "failed")
    BY <1>1, <2>2, FinishedIs, EndedShape, Names
  <2> QED BY <2>1, <2>2 DEF ResetStep
<1> QED BY <1>1, <1>2, <1>3, TypeInvFrom DEF ResetStep, TypeOK

\* Confirmations change their status or lapse; their number only grows.
LEMMA ConfUpdate ==
    ASSUME TypeOK, NEW c \in DOMAIN confs, NEW row \in ConfRow,
           confs' = [confs EXCEPT ![c] = row]
    PROVE  confs' \in Seq(ConfRow)
BY ExceptSeq, LenProperties DEF TypeOK

LEMMA ConfRowIs ==
    ASSUME TypeOK, NEW c \in DOMAIN confs, NEW status \in ConfStatus
    PROVE  /\ [confs[c] EXCEPT !.status = status] \in ConfRow
           /\ [confs[c] EXCEPT !.lapsed = TRUE] \in ConfRow
<1>1. confs[c] \in ConfRow
  BY LenProperties, ElementOfSeq DEF TypeOK
<1> QED BY <1>1 DEF ConfRow

LEMMA ResolveConfirmationType ==
    ASSUME TypeInv, NEW r \in Runtimes, ResolveConfirmation(r) PROVE TypeInv'
<1>1. /\ TypeOK /\ CallShape(r) /\ run.status # "absent" /\ run' = run
      /\ call[r].pc = "resolve" /\ call[r].target \in {"paused", "failed"}
      /\ runSeen' \subseteq Runtimes /\ stepSeen' \subseteq Runtimes
  BY InsideExists, CallFields DEF ResolveConfirmation, Forget, TypeOK, CallShape
<1>2. CASE Finished(r, "failed") /\ UNCHANGED confs
  BY <1>1, <1>2, FinishedIs, EndedShape, Names, TypeInvFrom DEF ResolveConfirmation, TypeOK
<1>3. CASE Return(r) /\ UNCHANGED confs
  BY <1>1, <1>3, ReturnIs, EndedShape, TypeInvFrom DEF ResolveConfirmation, TypeOK
<1>4. CASE /\ call[r].conf \in PendingConfs
           /\ confs' = [confs EXCEPT ![call[r].conf].status =
                           IF call[r].cmd = "approve" THEN "approved" ELSE "rejected"]
           /\ Goto(r, "settle", call[r].cmd, call[r].target)
  <2>1. confs' \in Seq(ConfRow)
    <3> DEFINE status == IF call[r].cmd = "approve" THEN "approved" ELSE "rejected"
    <3>1. status \in ConfStatus /\ call[r].conf \in DOMAIN confs
      BY <1>4 DEF ConfStatus, PendingConfs
    <3>2. confs' = [confs EXCEPT ![call[r].conf] = [@ EXCEPT !.status = status]]
      BY <1>4
    <3> HIDE DEF status
    <3> QED BY <1>1, <3>1, <3>2, ConfUpdate, ConfRowIs
  <2>2. OnlyCallOf(r) /\ call'[r].pc = "settle" /\ call'[r].cmd = call[r].cmd
        /\ call'[r].target = call[r].target
    BY <1>1, <1>4, GotoIs, CallFields, Names
  <2>3. call[r].cmd \in Resolving
    BY <1>1 DEF CallShape
  <2>4. CallShape(r)'
    BY <1>1, <2>2, <2>3 DEF CallShape
  <2> QED BY <1>1, <2>1, <2>2, <2>4, TypeInvFrom DEF ResolveConfirmation, TypeOK
<1> QED BY <1>2, <1>3, <1>4 DEF ResolveConfirmation

LEMMA ExpireConfirmationType ==
    ASSUME TypeInv, NEW r \in Runtimes, NEW c \in DOMAIN confs, ExpireConfirmation(r, c)
    PROVE  TypeInv'
<1>1. TypeOK /\ run' = run /\ run.status # "absent"
  BY DEF ExpireConfirmation, TypeInv, NothingBefore
<1>2. confs' \in Seq(ConfRow)
  <2>1. "expired" \in ConfStatus
    BY DEF ConfStatus
  <2>2. confs' = [confs EXCEPT ![c] = [@ EXCEPT !.status = "expired"]]
    BY DEF ExpireConfirmation
  <2> QED BY <1>1, <2>1, <2>2, ConfUpdate, ConfRowIs
<1>3. OnlyCallOf(r) /\ call'[r].pc = "expireRead" /\ call'[r].cmd = "expire"
      /\ call'[r].target = "failed"
  <2>1. Goto(r, "expireRead", "expire", "failed")
    BY DEF ExpireConfirmation
  <2> QED BY <1>1, <2>1, GotoIs, Names
<1>4. CallShape(r)'
  BY <1>3 DEF CallShape
<1> QED BY <1>1, <1>2, <1>3, <1>4, TypeInvFrom DEF ExpireConfirmation, TypeOK

LEMMA ExpireReadType ==
    ASSUME TypeInv, NEW r \in Runtimes, ExpireRead(r) PROVE TypeInv'
<1>1. /\ TypeOK /\ run.status # "absent" /\ UNCHANGED <<store, life, active>>
      /\ runSeen' \subseteq Runtimes /\ stepSeen' \subseteq Runtimes
  BY InsideExists, CallFields DEF ExpireRead, TypeOK
<1>2. OnlyCallOf(r) /\ CallShape(r)'
  <2>1. CASE Goto(r, "settle", "expire", "failed")
    BY <1>1, <2>1, GotoIs, Names DEF CallShape, Resolving, Resuming
  <2>2. CASE Return(r)
    BY <1>1, <2>2, ReturnIs, EndedShape
  <2> QED BY <2>1, <2>2 DEF ExpireRead
<1> QED BY <1>1, <1>2, TypeInvFrom DEF store, TypeOK

LEMMA SettleStepType ==
    ASSUME TypeInv, NEW r \in Runtimes, SettleStep(r) PROVE TypeInv'
<1>1. TypeOK /\ CallShape(r) /\ run.status # "absent" /\ run' = run
      /\ call[r].pc = "settle" /\ call[r].target \in {"paused", "failed"}
      /\ runSeen' \subseteq Runtimes /\ stepSeen' \subseteq Runtimes
  BY InsideExists, CallFields DEF SettleStep, Forget, TypeOK, CallShape
<1>2. step' \in StepRow
  <2>1. \/ step' = [status |-> "pending", confirm |-> FALSE]
        \/ step' = [step EXCEPT !.status = "failed"]
        \/ step' = step
    BY DEF SettleStep
  <2>2. step \in StepRow /\ "pending" \in StepStatus /\ "failed" \in StepStatus
    BY <1>1 DEF TypeOK, StepStatus
  <2>3. [status |-> "pending", confirm |-> FALSE] \in StepRow
    BY <2>2 DEF StepRow
  <2>4. [step EXCEPT !.status = "failed"] \in StepRow
    BY <2>2 DEF StepRow
  <2> QED BY <2>1, <2>2, <2>3, <2>4
<1>3. OnlyCallOf(r) /\ CallShape(r)'
  <2>1. CASE Goto(r, "cas", call[r].cmd, call[r].target)
    BY <1>1, <2>1, GotoIs, CallFields, Names DEF CallShape
  <2>2. CASE Return(r)
    BY <1>1, <2>2, ReturnIs, EndedShape
  <2> QED BY <2>1, <2>2 DEF SettleStep
<1> QED BY <1>1, <1>2, <1>3, TypeInvFrom DEF SettleStep, TypeOK

-----------------------------------------------------------------------------

LEMMA RegisterRuntimeType ==
    ASSUME TypeInv, NEW r \in Runtimes, RegisterRuntime(r) PROVE TypeInv'
<1>1. TypeOK /\ UNCHANGED <<store, runSeen, stepSeen, active>>
  BY DEF RegisterRuntime, TypeInv
<1>2. OnlyCallOf(r) /\ call'[r].pc = "claim" /\ call'[r].cmd = "recover"
      /\ call'[r].target = "running"
  <2>1. Goto(r, "claim", "recover", "running")
    BY DEF RegisterRuntime
  <2> QED BY <1>1, <2>1, GotoIs, Names
<1>3. CallShape(r)'
  BY <1>2 DEF CallShape
<1>4. life' \in [Runtimes -> {"new", "up", "down"}]
  <2>1. life' = [life EXCEPT ![r] = "up"]
    BY DEF RegisterRuntime
  <2> QED BY <1>1, <2>1 DEF TypeOK
<1>5. run'.status # "absent" \/ NothingBefore'
  BY <1>1, <1>2 DEF TypeInv, NothingBefore, OnlyCallOf, store, IsActive
<1> QED BY <1>1, <1>2, <1>3, <1>4, <1>5, TypeInvFrom DEF store, TypeOK

LEMMA ClaimStaleRunType ==
    ASSUME TypeInv, NEW r \in Runtimes, ClaimStaleRun(r) PROVE TypeInv'
<1>1. TypeOK /\ UNCHANGED <<confs, ops, overdue, life, active>>
  BY DEF ClaimStaleRun, TypeInv
<1>2. CASE /\ run.status = "running"
           /\ run' = [run EXCEPT !.status = "paused", !.owner = r, !.leased = TRUE]
           /\ attempts' = [i \in DOMAIN attempts |->
                              IF attempts[i] = "running" THEN "interrupted"
                              ELSE attempts[i]]
           /\ \/ step' = [step EXCEPT !.status = "pending"] /\ stepSeen' = {}
              \/ UNCHANGED <<step, stepSeen>>
           /\ runSeen' = {r}
           /\ Goto(r, "recover", "recover", "running")
  <2>1. run' \in RunRow /\ run'.status # "absent"
    BY <1>1, <1>2, Names DEF TypeOK, RunRow
  <2>2. step' \in StepRow /\ stepSeen' \subseteq Runtimes /\ runSeen' \subseteq Runtimes
    BY <1>1, <1>2 DEF TypeOK, StepRow, StepStatus
  <2>3. attempts' \in Seq(AttemptStatus)
    <3>1. Len(attempts) \in Nat /\ DOMAIN attempts = 1..Len(attempts)
          /\ \A i \in DOMAIN attempts : attempts[i] \in AttemptStatus
      BY <1>1, LenProperties, ElementOfSeq DEF TypeOK
    <3>2. attempts' \in [1..Len(attempts) -> AttemptStatus]
      BY <1>2, <3>1 DEF AttemptStatus
    <3> QED BY <3>1, <3>2, RowsAreSeq
  <2>4. OnlyCallOf(r) /\ call'[r].pc = "recover" /\ call'[r].cmd = "recover"
        /\ call'[r].target = "running"
    BY <1>1, <1>2, GotoIs, Names
  <2>5. CallShape(r)'
    BY <2>4 DEF CallShape, Resuming
  <2> QED BY <1>1, <2>1, <2>2, <2>3, <2>4, <2>5, TypeInvFrom DEF TypeOK
<1>3. CASE Return(r) /\ UNCHANGED <<run, step, attempts, runSeen, stepSeen>>
  <2>1. OnlyCallOf(r) /\ call'[r].pc = "idle" /\ CallShape(r)'
    BY <1>1, <1>3, ReturnIs, EndedShape
  <2>2. run'.status # "absent" \/ NothingBefore'
    BY <1>1, <1>3, <2>1 DEF TypeInv, NothingBefore, OnlyCallOf, IsActive
  <2> QED BY <1>1, <1>3, <2>1, <2>2, TypeInvFrom DEF TypeOK
<1> QED BY <1>2, <1>3 DEF ClaimStaleRun

LEMMA RecoverRunType ==
    ASSUME TypeInv, NEW r \in Runtimes, RecoverRun(r) PROVE TypeInv'
<1>1. /\ TypeOK /\ CallShape(r) /\ run.status # "absent" /\ UNCHANGED <<store, life, active>>
      /\ call[r].cmd \in Resuming /\ call[r].target # "completed"
      /\ runSeen' \subseteq Runtimes /\ stepSeen' \subseteq Runtimes
  BY InsideExists, CallFields DEF RecoverRun, Forget, TypeOK, CallShape
<1>2. CASE Return(r)
  BY <1>1, <1>2, ReturnIs, EndedShape, TypeInvFrom DEF store, TypeOK
<1>3. CASE call' = [call EXCEPT ![r] =
                      [@ EXCEPT !.pc = "op", !.op = StaleOp,
                                !.verdict = IF r \in runSeen THEN "applied"
                                            ELSE "rejected"]]
  <2> DEFINE verdict == IF r \in runSeen THEN "applied" ELSE "rejected"
             d == [call[r] EXCEPT !.pc = "op", !.op = StaleOp, !.verdict = verdict]
  <2>1. verdict \in OpStatus /\ StaleOp \in Ops /\ call[r] \in Call
    BY Names, CallFields DEF Ops
  <2> HIDE DEF verdict
  <2>2. d \in Call /\ d.pc = "op" /\ d.cmd = call[r].cmd /\ d.target = call[r].target
    BY <2>1 DEF Call, ProgramPoints
  <2>3. call' = [call EXCEPT ![r] = d]
    BY <1>3 DEF verdict
  <2> HIDE DEF d
  <2>4. OnlyCallOf(r) /\ call'[r] = d
    BY <1>1, <2>2, <2>3 DEF TypeOK, OnlyCallOf
  <2>5. CallShape(r)'
    BY <1>1, <2>2, <2>4 DEF CallShape, Resolving, Resuming
  <2> QED BY <1>1, <2>4, <2>5, TypeInvFrom DEF store, TypeOK
<1> QED BY <1>2, <1>3 DEF RecoverRun

-----------------------------------------------------------------------------
(* Steps that leave every call alone.                                      *)

LEMMA CallsStay ==
    ASSUME TypeInv, UNCHANGED call, run' \in RunRow, step' \in StepRow,
           run'.status # "absent" \/ UNCHANGED <<run, active, confs>>,
           attempts' \in Seq(AttemptStatus), confs' \in Seq(ConfRow),
           ops' \in [Ops -> OpStatus], overdue' \in BOOLEAN,
           runSeen' \subseteq Runtimes, stepSeen' \subseteq Runtimes,
           life' \in [Runtimes -> {"new", "up", "down"}],
           active' \in [Runtimes -> Execution]
    PROVE  TypeInv'
<1>1. TypeOK'
  BY DEF TypeInv, TypeOK
<1>2. NothingBefore'
  BY DEF TypeInv, NothingBefore, IsActive
<1>3. \A r \in Runtimes : CallShape(r)'
  BY DEF TypeInv, CallShape
<1> QED BY <1>1, <1>2, <1>3 DEF TypeInv

LEMMA BodyStaysType ==
    ASSUME TypeInv, NEW r \in Runtimes,
           RecordProgress(r) \/ ModelBudgetRefused(r) \/ ConsumeReceipt(r)
    PROVE  TypeInv'
<1>1. TypeOK /\ run' = run /\ run.status # "absent" /\ UNCHANGED call
  BY InsideExists DEF TypeInv, RecordProgress, ModelBudgetRefused, ConsumeReceipt, Busy, store
<1>2. CASE RecordProgress(r)
  BY <1>1, <1>2, CallsStay DEF RecordProgress, store, TypeOK
<1>3. CASE ModelBudgetRefused(r)
  <2>1. active' \in [Runtimes -> Execution]
    BY <1>1, <1>3 DEF ModelBudgetRefused, TypeOK, Execution
  <2> QED BY <1>1, <1>3, <2>1, CallsStay DEF ModelBudgetRefused, store, TypeOK
<1>4. CASE ConsumeReceipt(r)
  <2>1. confs' \in Seq(ConfRow)
    <3>1. "consumed" \in ConfStatus /\ active[r].receipt \in DOMAIN confs
      BY <1>4 DEF ConsumeReceipt, ConfStatus
    <3>2. confs' = [confs EXCEPT ![active[r].receipt] = [@ EXCEPT !.status = "consumed"]]
      BY <1>4 DEF ConsumeReceipt
    <3> QED BY <1>1, <3>1, <3>2, ConfUpdate, ConfRowIs
  <2> QED BY <1>1, <1>4, <2>1, CallsStay DEF ConsumeReceipt, TypeOK
<1> QED BY <1>2, <1>3, <1>4

LEMMA RenewLeaseType ==
    ASSUME TypeInv, NEW r \in Runtimes, RenewLease(r) PROVE TypeInv'
<1>1. TypeOK /\ run' \in RunRow /\ run'.status # "absent"
  BY DEF RenewLease, TypeInv, TypeOK, RunRow
<1> QED BY <1>1, CallsStay DEF RenewLease, TypeOK

LEMMA DeleteRunType ==
    ASSUME TypeInv, NEW r \in Runtimes, DeleteRun(r) PROVE TypeInv'
<1>1. TypeOK /\ run' \in RunRow /\ run'.status # "absent"
  BY DEF DeleteRun, TypeInv, TypeOK, RunRow
<1>2. step' \in StepRow /\ ops' \in [Ops -> OpStatus]
  BY DEF DeleteRun, StepRow, StepStatus, OpStatus
<1>3. attempts' \in Seq(AttemptStatus) /\ confs' \in Seq(ConfRow)
  BY EmptySeq DEF DeleteRun
<1> QED BY <1>1, <1>2, <1>3, CallsStay DEF DeleteRun, TypeOK

LEMMA EnvironmentType ==
    ASSUME TypeInv, Environment PROVE TypeInv'
<1>1. TypeOK
  BY DEF TypeInv
<1>2. CASE LeaseLapses
  <2>1. run' \in RunRow /\ run'.status # "absent"
    BY <1>1, <1>2 DEF LeaseLapses, TypeOK, RunRow, Exists, RunStatus
  <2> QED BY <1>1, <1>2, <2>1, CallsStay DEF LeaseLapses, TypeOK
<1>3. CASE DeadlinePasses
  BY <1>1, <1>3, CallsStay DEF DeadlinePasses, TypeOK
<1>4. CASE \E c \in DOMAIN confs : ConfirmationLapses(c)
  <2>1. PICK c \in DOMAIN confs : ConfirmationLapses(c)
    BY <1>4
  <2>2. confs' \in Seq(ConfRow)
    <3>1. confs[c].status \in ConfStatus
      <4>1. confs[c] \in ConfRow
        BY <1>1, LenProperties, ElementOfSeq DEF TypeOK
      <4> QED BY <4>1 DEF ConfRow
    <3>2. confs' = [confs EXCEPT ![c] = [@ EXCEPT !.lapsed = TRUE]]
      BY <2>1 DEF ConfirmationLapses
    <3> QED BY <1>1, <3>1, <3>2, ConfUpdate, ConfRowIs
  <2>3. run.status # "absent"
    BY <2>1 DEF TypeInv, NothingBefore
  <2> QED BY <1>1, <2>1, <2>2, <2>3, CallsStay DEF ConfirmationLapses, TypeOK
<1> QED BY <1>2, <1>3, <1>4 DEF Environment

-----------------------------------------------------------------------------

LEMMA CloseType ==
    ASSUME TypeInv, NEW r \in Runtimes, Close(r) PROVE TypeInv'
<1>1. TypeOK /\ UNCHANGED <<store, runSeen, stepSeen>>
  BY DEF TypeInv, Close
<1>2. CASE /\ IsActive(r)
           /\ active' = [active EXCEPT ![r].control = "pause"]
           /\ Goto(r, "finish", "close", "paused")
           /\ UNCHANGED life
  <2>1. active' \in [Runtimes -> Execution]
    BY <1>1, <1>2 DEF TypeOK, Execution
  <2>2. OnlyCallOf(r) /\ call'[r].pc = "finish" /\ call'[r].cmd = "close"
        /\ call'[r].target = "paused"
    BY <1>1, <1>2, GotoIs, Names
  <2>3. CallShape(r)'
    BY <2>2 DEF CallShape, Settling, Outcome
  <2>4. run'.status # "absent"
    BY <1>1, <1>2, InsideExists DEF store
  <2> QED BY <1>1, <1>2, <2>1, <2>2, <2>3, <2>4, TypeInvFrom DEF store, TypeOK
<1>3. CASE life' = [life EXCEPT ![r] = "down"] /\ UNCHANGED <<active, call>>
  BY <1>1, <1>3, CallsStay DEF store, TypeOK
<1> QED BY <1>2, <1>3 DEF Close

LEMMA CrashType ==
    ASSUME TypeInv, NEW r \in Runtimes, Crash(r) PROVE TypeInv'
<1>1. TypeOK /\ UNCHANGED store /\ runSeen' \subseteq Runtimes /\ stepSeen' \subseteq Runtimes
  BY DEF TypeInv, Crash, TypeOK
<1>2. /\ OnlyCallOf(r) /\ call'[r].pc = "idle" /\ CallShape(r)'
  BY <1>1, ReturnIs, EndedShape DEF Crash
<1>3. active' = [active EXCEPT ![r] = NoExecution] /\ life' = [life EXCEPT ![r] = "down"]
  BY DEF Crash
<1>4. /\ active' \in [Runtimes -> Execution]
      /\ life' \in [Runtimes -> {"new", "up", "down"}]
  BY <1>1, <1>3 DEF TypeOK, Execution, NoExecution
<1>5. run'.status # "absent" \/ NothingBefore'
  BY <1>1, <1>2, <1>3 DEF TypeInv, TypeOK, NothingBefore, OnlyCallOf, IsActive, NoExecution, store
<1> QED BY <1>1, <1>2, <1>4, <1>5, TypeInvFrom DEF store, TypeOK

-----------------------------------------------------------------------------
(* Type correctness.                                                       *)

LEMMA InitType == ASSUME ConstantsAssumption, Init PROVE TypeInv
<1>1. run \in RunRow
  BY DEF Init, RunRow, Request
<1>2. step \in StepRow /\ attempts \in Seq(AttemptStatus) /\ confs \in Seq(ConfRow)
  BY EmptySeq DEF Init, StepRow, StepStatus
<1>3. ops \in [Ops -> OpStatus] /\ overdue \in BOOLEAN
  BY DEF Init, OpStatus
<1>4. /\ runSeen \subseteq Runtimes /\ stepSeen \subseteq Runtimes
      /\ life \in [Runtimes -> {"new", "up", "down"}]
  BY DEF Init
<1>5. active \in [Runtimes -> Execution] /\ call \in [Runtimes -> Call]
  <2>1. NoExecution \in Execution
    BY DEF NoExecution, Execution
  <2> QED BY <2>1, IdleIs DEF Init
<1>6. \A r \in Runtimes : CallShape(r) /\ call[r].pc = "idle" /\ ~IsActive(r)
  BY IdleIs DEF Init, CallShape, IsActive, NoExecution
<1>7. NothingBefore
  BY <1>6 DEF Init, NothingBefore
<1> QED BY <1>1, <1>2, <1>3, <1>4, <1>5, <1>6, <1>7 DEF TypeInv, TypeOK

LEMMA ProceedType ==
    ASSUME TypeInv, NEW r \in Runtimes, Proceed(r) PROVE TypeInv'
BY ReadRunType, UpdateRunType, StartAttemptType, PersistConfirmationType,
   FinishAttemptType, CreateControlOperationType, CompleteControlOperationType,
   SupersedeConfirmationsType, CancelInactiveStepType, CheckResumableType,
   ResetStepType, ResolveConfirmationType, ExpireReadType, SettleStepType,
   ClaimStaleRunType, RecoverRunType DEF Proceed

LEMMA CommandType ==
    ASSUME TypeInv, ConstantsAssumption, NEW r \in Runtimes, Command(r) PROVE TypeInv'
<1>1. CASE CreateRun(r) \/ PauseForMemoryRevision(r) \/ DeleteRun(r)
  BY <1>1, CreateRunType, PauseForMemoryRevisionType, DeleteRunType
<1>2. CASE \E o \in OpIds \cup {NoOp}, cmd \in Sent \cap {"pause", "cancel"} :
             RequestControl(r, cmd, o)
  BY <1>2, RequestControlType
<1>3. CASE \E o \in OpIds \cup {NoOp}, cmd \in Sent \cap {"resume", "retry"} :
             RequestResume(r, cmd, o)
  BY <1>3, RequestResumeType
<1>4. CASE \E o \in OpIds \cup {NoOp}, c \in DOMAIN confs,
              cmd \in Sent \cap {"approve", "reject"} :
             RequestResolution(r, cmd, o, c) \/ RepeatResolution(r, cmd, o, c)
  BY <1>4, RequestResolutionType
<1> QED BY <1>1, <1>2, <1>3, <1>4 DEF Command

LEMMA NextType == ASSUME TypeInv, ConstantsAssumption, [Next]_vars PROVE TypeInv'
<1>1. ASSUME NEW r \in Runtimes, RegisterRuntime(r) PROVE TypeInv'
  BY <1>1, RegisterRuntimeType
<1>2. ASSUME NEW r \in Runtimes, Proceed(r) PROVE TypeInv'
  BY <1>2, ProceedType
<1>3. ASSUME NEW r \in Runtimes, Command(r) PROVE TypeInv'
  BY <1>3, CommandType
<1>4. ASSUME NEW r \in Runtimes, Body(r) PROVE TypeInv'
  BY <1>4, BodyReturnsType, BodyThrowsType, BodyStaysType DEF Body
<1>5. ASSUME NEW r \in Runtimes, Heartbeat(r) PROVE TypeInv'
  BY <1>5, RenewLeaseType, ExpireConfirmationType DEF Heartbeat
<1>6. ASSUME NEW r \in Runtimes, Close(r) \/ Crash(r) PROVE TypeInv'
  BY <1>6, CloseType, CrashType
<1>7. CASE Environment
  BY <1>7, EnvironmentType
<1>8. CASE UNCHANGED vars
  BY <1>8 DEF TypeInv, TypeOK, NothingBefore, CallShape, IsActive, vars
<1> QED BY <1>1, <1>2, <1>3, <1>4, <1>5, <1>6, <1>7, <1>8 DEF Next

\* Every reachable state is made of well-formed rows and methods, and each
\* method is where its command and target can bring it.
THEOREM TypeInvariance == Spec => []TypeInv
<1>1. Init => TypeInv
  BY InitType, ConstantsAssumption
<1>2. TypeInv /\ [Next]_vars => TypeInv'
  BY NextType, ConstantsAssumption
<1> QED BY <1>1, <1>2, PTL DEF Spec

\* Type correctness for any number of runtimes, requests and attempts.
THEOREM TypeCorrectness == Spec => []TypeOK
<1>1. TypeInv => TypeOK
  BY DEF TypeInv
<1> QED BY <1>1, TypeInvariance, PTL

-----------------------------------------------------------------------------
\* What every step does to the rows of a run that is still there: attempts
\* are added, or end; a success and an approval stay.
RowsGrow ==
    Exists' =>
        /\ Exists
        /\ Len(attempts') >= Len(attempts)
        /\ Len(attempts') = Len(attempts) =>
             \A i \in DOMAIN attempts' : attempts'[i] = "running" => attempts[i] = "running"
        /\ Succeeded => Succeeded'
        /\ ~step.confirm => ~step'.confirm
        /\ Approved => Approved'

\* A copy of the step that is still current has seen its status.
CopiesHold(r) ==
    /\ stepSeen' \subseteq stepSeen \cup {r}
    /\ stepSeen' = {} \/ step'.status = step.status

-----------------------------------------------------------------------------
(* What the rows are for a run of which TypeOK holds.                      *)

LEMMA Rows ==
    ASSUME TypeOK
    PROVE  /\ Len(attempts) \in Nat /\ DOMAIN attempts = 1..Len(attempts)
           /\ \A i \in DOMAIN attempts : attempts[i] \in AttemptStatus
           /\ Len(confs) \in Nat /\ DOMAIN confs = 1..Len(confs)
           /\ \A c \in DOMAIN confs : confs[c] \in ConfRow
           /\ step.status \in StepStatus /\ step.confirm \in BOOLEAN
BY LenProperties, ElementOfSeq DEF TypeOK, StepRow

LEMMA CallInvOfOthers ==
    ASSUME IInv, TypeOK', NEW r \in Runtimes, OnlyCallOf(r), RowsGrow, CopiesHold(r),
           NEW q \in Runtimes, q # r
    PROVE  CallInv(q)'
<1>1. call'[q] = call[q] /\ CallInv(q) /\ call[q] \in Call
  BY DEF OnlyCallOf, IInv, TypeInv, TypeOK
<1>2. CopyIsChecked(q)'
  BY <1>1 DEF CallInv, CopyIsChecked, CopiesHold
<1>3. StartsNext(q)'
  <2>1. SUFFICES ASSUME Exists',
                        \/ call[q].pc \in {"reset", "start"}
                        \/ /\ call[q].pc = "cas" /\ call[q].cmd \in Resuming
                           /\ call[q].target = "running"
                 PROVE  /\ call[q].n \in 1..MaxSteps /\ call[q].n <= Len(attempts') + 1
                        /\ call[q].n = Len(attempts') + 1 =>
                             \A i \in DOMAIN attempts' : attempts'[i] # "running"
    BY <1>1 DEF StartsNext
  <2>2. /\ call[q].n \in 1..MaxSteps /\ call[q].n <= Len(attempts) + 1
        /\ call[q].n = Len(attempts) + 1 =>
             \A i \in DOMAIN attempts : attempts[i] # "running"
    BY <1>1, <2>1 DEF CallInv, StartsNext, RowsGrow
  <2>3. /\ Len(attempts') \in Nat /\ Len(attempts) \in Nat
        /\ DOMAIN attempts' = 1..Len(attempts') /\ DOMAIN attempts = 1..Len(attempts)
    BY Rows, LenProperties DEF IInv, TypeInv, TypeOK
  <2>4. /\ Len(attempts') >= Len(attempts)
        /\ Len(attempts') = Len(attempts) =>
             \A i \in DOMAIN attempts' : attempts'[i] = "running" => attempts[i] = "running"
    BY <2>1 DEF RowsGrow
  <2>5. CASE Len(attempts') = Len(attempts)
    BY <2>2, <2>3, <2>4, <2>5
  <2>6. CASE Len(attempts') > Len(attempts)
    BY <2>2, <2>3, <2>6
  <2>7. Len(attempts') = Len(attempts) \/ Len(attempts') > Len(attempts)
    <3>1. Len(attempts') >= Len(attempts) /\ Len(attempts') \in Nat /\ Len(attempts) \in Nat
      BY <2>3, <2>4
    <3> QED BY <3>1
  <2> QED BY <2>5, <2>6, <2>7
<1>4. MovesOnFacts(q)'
  BY <1>1 DEF CallInv, MovesOnFacts, RowsGrow
<1> QED BY <1>2, <1>3, <1>4 DEF CallInv

LEMMA Induct ==
    ASSUME IInv, TypeInv', NEW r \in Runtimes, OnlyCallOf(r), RowsGrow, CopiesHold(r),
           StoreInv', CallInv(r)'
    PROVE  IInv'
<1>1. \A q \in Runtimes : CallInv(q)'
  BY CallInvOfOthers DEF TypeInv
<1> QED BY <1>1 DEF IInv

\* At most points of a method the invariant says nothing of the call.
LEMMA FreeCall ==
    ASSUME NEW r \in Runtimes,
           call'[r].pc \notin {"reset", "start", "cas", "op", "resolve", "settle"},
           call'[r].target # "completed"
    PROVE  CallInv(r)'
BY DEF CallInv, CopyIsChecked, StartsNext, MovesOnFacts

LEMMA ThrowFree ==
    ASSUME TypeOK, NEW r \in Runtimes, Throw(r) PROVE OnlyCallOf(r) /\ CallInv(r)'
BY ThrowIs, FreeCall

LEMMA ReturnFree ==
    ASSUME TypeOK, NEW r \in Runtimes, Return(r) PROVE OnlyCallOf(r) /\ CallInv(r)'
BY ReturnIs, FreeCall

LEMMA FinishedFree ==
    ASSUME TypeOK, NEW r \in Runtimes, NEW v \in OpStatus, Finished(r, v)
    PROVE  OnlyCallOf(r) /\ CallInv(r)'
BY FinishedIs, FreeCall

\* A step that changes neither the step nor its attempts nor a decision.
LEMMA RowsStay ==
    ASSUME IInv, UNCHANGED <<step, attempts>>, Exists' => Exists,
           run'.request = run.request, Approved => Approved',
           run'.status = "completed" => run.status = "completed" \/ Succeeded,
           Exists' \/ (runSeen' = {} /\ attempts = <<>>),
           overdue' = overdue \/ MayOverrun
    PROVE  RowsGrow /\ StoreInv'
<1>1. RowsExist'
  BY DEF IInv, StoreInv, RowsExist
<1>2. RunningIsLatest' /\ DoneIsLatest'
  BY DEF IInv, StoreInv, RunningIsLatest, DoneIsLatest, Succeeded
<1>3. ApprovalIsKept'
  BY DEF IInv, StoreInv, ApprovalIsKept
<1>4. RowsGrow
  <2>1. Len(attempts) \in Nat
    BY Rows DEF IInv, TypeInv
  <2> QED BY <2>1 DEF RowsGrow, Succeeded
<1> QED BY <1>1, <1>2, <1>3, <1>4 DEF StoreInv

\* Such a step by r, which may have read the rows.
LEMMA QuietStep ==
    ASSUME IInv, TypeInv', NEW r \in Runtimes, OnlyCallOf(r), CallInv(r)',
           UNCHANGED <<step, attempts>>, Exists' => Exists,
           run'.request = run.request, Approved => Approved',
           run'.status = "completed" => run.status = "completed" \/ Succeeded,
           Exists' \/ (runSeen' = {} /\ attempts = <<>>),
           overdue' = overdue \/ MayOverrun,
           stepSeen' \subseteq stepSeen \cup {r}
    PROVE  IInv'
<1>1. RowsGrow /\ StoreInv'
  BY RowsStay
<1>2. CopiesHold(r)
  BY DEF CopiesHold
<1> QED BY <1>1, <1>2, Induct

-----------------------------------------------------------------------------
(* The actions that leave the step and its attempts alone.                 *)

LEMMA TypeOfIInv == ASSUME IInv PROVE TypeInv /\ TypeOK
BY DEF IInv, TypeInv

LEMMA CallOfIInv ==
    ASSUME IInv, NEW r \in Runtimes
    PROVE  CallShape(r) /\ CopyIsChecked(r) /\ StartsNext(r) /\ MovesOnFacts(r)
BY DEF IInv, TypeInv, CallInv

\* A copy of the run row that is current is of a run that is there.
LEMMA SeenExists == ASSUME IInv, NEW r \in runSeen PROVE Exists
BY DEF IInv, StoreInv, RowsExist

\* Nothing is left of a run that is not there.
LEMMA NothingLeft == ASSUME IInv, ~Exists PROVE runSeen = {} /\ attempts = <<>>
BY DEF IInv, StoreInv, RowsExist

LEMMA ReadRunInv ==
    ASSUME IInv, TypeInv', NEW r \in Runtimes, ReadRun(r) PROVE IInv'
<1>1. TypeOK /\ TypeInv /\ UNCHANGED store /\ UNCHANGED stepSeen
  BY TypeOfIInv DEF ReadRun
<1>2. Exists' \/ (runSeen' = {} /\ attempts = <<>>)
  <2>1. CASE Exists
    BY <1>1, <2>1 DEF store, Exists
  <2>2. CASE ~Exists
    BY <1>1, <2>2, NothingLeft DEF ReadRun
  <2> QED BY <2>1, <2>2
<1>3. OnlyCallOf(r) /\ CallInv(r)'
  <2>1. CASE Throw(r)
    BY <1>1, <2>1, ThrowFree
  <2>2. CASE Exists /\ Goto(r, "finish", call[r].cmd, "cancelled")
    BY <1>1, <2>2, GotoIs, CallFields, Names, FreeCall
  <2>3. CASE Exists /\ Goto(r, "cas", call[r].cmd, call[r].target)
    <3>1. /\ OnlyCallOf(r) /\ call'[r].pc = "cas" /\ call'[r].cmd = call[r].cmd
          /\ call'[r].target = call[r].target
      BY <1>1, <2>3, GotoIs, CallFields, Names
    <3>2. CopyIsChecked(r)'
      BY <3>1 DEF CopyIsChecked
    <3>3. StartsNext(r)'
      BY <3>1, CallOfIInv DEF StartsNext, CallShape, ReadRun
    <3>4. MovesOnFacts(r)'
      BY <1>1, <3>1, CallOfIInv DEF MovesOnFacts, ReadRun, store, Succeeded, Exists
    <3> QED BY <3>1, <3>2, <3>3, <3>4 DEF CallInv
  <2> QED BY <2>1, <2>2, <2>3 DEF ReadRun
<1> QED BY <1>1, <1>2, <1>3, QuietStep DEF store, Exists, Approved

LEMMA UpdateRunInv ==
    ASSUME IInv, TypeInv', NEW r \in Runtimes, UpdateRun(r) PROVE IInv'
<1>1. TypeOK /\ TypeInv /\ call[r].pc = "cas" /\ UNCHANGED <<step, attempts, confs, ops, overdue>>
  BY TypeOfIInv DEF UpdateRun
<1>2. CASE run' = Updated(r) /\ AfterUpdate(r) /\ r \in runSeen
  <2>1. /\ Exists /\ Exists' /\ run'.request = run.request /\ run'.status = call[r].target
    BY <1>1, <1>2, SeenExists, UpdatedIs, CallFields DEF Exists
  <2>2. run'.status = "completed" => Succeeded
    BY <1>1, <2>1, CallOfIInv DEF MovesOnFacts
  <2>3. OnlyCallOf(r) /\ CallInv(r)'
    <3>1. CASE call' = [call EXCEPT ![r] = [@ EXCEPT !.pc = "start", !.n = 1]]
               /\ call[r].target = "running"
      <4>1. OnlyCallOf(r) /\ call'[r].pc = "start" /\ call'[r].target = "running"
            /\ call'[r].n = 1
        BY <1>1, <3>1 DEF TypeOK, Call, OnlyCallOf, ProgramPoints
      <4>2. StartsNext(r)'
        BY <1>1, <4>1, Rows, ConstantsAssumption DEF StartsNext
      <4> QED BY <4>1, <4>2 DEF CallInv, CopyIsChecked, MovesOnFacts
    <3>2. CASE Goto(r, "start", call[r].cmd, "running") /\ call[r].cmd \in Resuming
               /\ call[r].target = "running"
      <4>1. OnlyCallOf(r) /\ call'[r].pc = "start" /\ call'[r].target = "running"
            /\ call'[r].n = call[r].n
        BY <1>1, <3>2, GotoIs, CallFields, Names
      <4>2. StartsNext(r)'
        BY <1>1, <2>1, <3>2, <4>1, CallOfIInv DEF StartsNext
      <4> QED BY <4>1, <4>2 DEF CallInv, CopyIsChecked, MovesOnFacts
    <3>3. CASE Goto(r, "read", "begin", "running")
      BY <1>1, <3>3, GotoIs, Names, FreeCall
    <3>4. CASE Goto(r, "finish", call[r].cmd, "cancelled")
      BY <1>1, <3>4, GotoIs, CallFields, Names, FreeCall
    <3>5. CASE Goto(r, "supersede", call[r].cmd, "cancelled")
      BY <1>1, <3>5, GotoIs, CallFields, Names, FreeCall
    <3>6. CASE Return(r) \/ Finished(r, "applied") \/ Finished(r, "failed")
      BY <1>1, <3>6, ReturnFree, FinishedFree, Names
    <3> QED BY <1>2, <3>1, <3>2, <3>3, <3>4, <3>5, <3>6 DEF AfterUpdate
  <2>4. stepSeen' \subseteq stepSeen \cup {r}
    BY <1>1 DEF UpdateRun, Forget
  <2>5. Approved => Approved'
    BY <1>1 DEF Approved
  <2> QED BY <1>1, <2>1, <2>2, <2>3, <2>4, <2>5, QuietStep
<1>3. CASE Throw(r) /\ Forget(r) /\ UNCHANGED run
  <2>1. Exists' \/ (runSeen' = {} /\ attempts = <<>>)
    BY <1>3, NothingLeft DEF Exists, Forget
  <2>2. (Exists' => Exists) /\ (Approved => Approved') /\ stepSeen' \subseteq stepSeen \cup {r}
    BY <1>1, <1>3 DEF Exists, Approved, Forget
  <2>3. OnlyCallOf(r) /\ CallInv(r)'
    BY <1>1, <1>3, ThrowFree
  <2> QED BY <1>1, <1>3, <2>1, <2>2, <2>3, QuietStep
<1> QED BY <1>2, <1>3 DEF UpdateRun, CanUpdate

\* A body only enters completeRun or failRun.
LEMMA BodyEndsInv ==
    ASSUME IInv, TypeInv', NEW r \in Runtimes, BodyReturns(r) \/ BodyThrows(r) PROVE IInv'
<1>1. TypeOK /\ TypeInv /\ UNCHANGED <<store, runSeen, stepSeen>>
  BY TypeOfIInv DEF BodyReturns, BodyThrows
<1>2. ASSUME NEW aborted, FailWith(r, aborted)
      PROVE  OnlyCallOf(r) /\ CallInv(r)'
  BY <1>1, <1>2, FailWithIs, FreeCall
<1>3. OnlyCallOf(r) /\ CallInv(r)'
  <2>1. CASE \E aborted \in BOOLEAN : FailWith(r, aborted)
    BY <1>2, <2>1
  <2>2. CASE Goto(r, "read", "complete", "cancelling")
    BY <1>1, <2>2, GotoIs, Names, FreeCall
  <2>3. CASE Goto(r, "finish", "complete", "paused")
    BY <1>1, <2>3, GotoIs, Names, FreeCall
  <2>4. CASE Goto(r, "confirm", "complete", "waiting_confirmation")
    BY <1>1, <2>4, GotoIs, Names, FreeCall
  <2>5. CASE Goto(r, "finish", "complete", "completed") /\ ~step.confirm
    <3>1. OnlyCallOf(r) /\ call'[r].pc = "finish" /\ call'[r].target = "completed"
      BY <1>1, <2>5, GotoIs, Names
    <3>2. ~step'.confirm
      BY <1>1, <2>5 DEF store
    <3> QED BY <3>1, <3>2 DEF CallInv, CopyIsChecked, StartsNext, MovesOnFacts
  <2> QED BY <2>1, <2>2, <2>3, <2>4, <2>5 DEF BodyReturns, BodyThrows
<1>4. Exists' \/ (runSeen' = {} /\ attempts = <<>>)
  BY <1>1, NothingLeft DEF store, Exists
<1> QED BY <1>1, <1>3, <1>4, QuietStep DEF store, Exists, Approved

LEMMA PersistConfirmationInv ==
    ASSUME IInv, TypeInv', NEW r \in Runtimes, PersistConfirmation(r) PROVE IInv'
<1>1. /\ TypeOK /\ TypeInv /\ call[r].pc = "confirm"
      /\ UNCHANGED <<run, step, attempts, ops, overdue, runSeen, stepSeen>>
  BY TypeOfIInv DEF PersistConfirmation
<1>2. Exists' \/ (runSeen' = {} /\ attempts = <<>>)
  BY <1>1, NothingLeft DEF Exists
<1>3. OnlyCallOf(r) /\ CallInv(r)' /\ (Approved => Approved')
  <2>1. CASE Throw(r) /\ UNCHANGED confs
    BY <1>1, <2>1, ThrowFree DEF Approved
  <2>2. CASE /\ Goto(r, "finish", call[r].cmd, call[r].target)
             /\ confs' = Append(confs, [status |-> "pending", lapsed |-> FALSE])
    <3>1. Approved => Approved'
      BY <1>1, <2>2, Rows, AppendProperties DEF Approved
    <3>2. call[r].target # "completed"
      BY <1>1, CallOfIInv DEF CallShape
    <3> QED BY <1>1, <2>2, <3>1, <3>2, GotoIs, CallFields, Names, FreeCall
  <2> QED BY <2>1, <2>2 DEF PersistConfirmation
<1> QED BY <1>1, <1>2, <1>3, QuietStep DEF Exists

\* Entering a command.
LEMMA EnterInv ==
    ASSUME IInv, TypeInv', NEW r \in Runtimes, NEW cmd \in Commands,
           NEW o \in Ops \cup {NoOp}, NEW c \in Nat, NEW target \in RunStatus,
           NEW verdict \in OpStatus, Enter(r, cmd, o, c, target, verdict),
           runSeen' \subseteq runSeen \cup {r}, stepSeen' \subseteq stepSeen \cup {r},
           cmd \in Resolving => c = 0 \/ step.status = "waiting_confirmation"
    PROVE  IInv'
<1>1. /\ Exists /\ UNCHANGED <<store, life, active>> /\ OnlyCallOf(r)
      /\ call'[r].pc = "op" /\ call'[r].cmd = cmd /\ call'[r].conf = c
  BY TypeOfIInv, EnterIs
<1>2. CallInv(r)'
  BY <1>1 DEF CallInv, CopyIsChecked, StartsNext, MovesOnFacts, store
<1> QED BY <1>1, <1>2, QuietStep DEF store, Exists, Approved

LEMMA RequestControlInv ==
    ASSUME IInv, TypeInv', NEW r \in Runtimes, NEW o \in OpIds \cup {NoOp},
           NEW cmd \in {"pause", "cancel"}, RequestControl(r, cmd, o)
    PROVE  IInv'
<1> DEFINE target == ControlStatus(run.status, cmd, IsActive(r))
           verdict(v) == IF v = "applied" /\ ~ControlAllowed(run.status, cmd)
                         THEN "failed" ELSE v
<1>1. PICK v \in Versions : /\ Enter(r, cmd, o, 0, target, verdict(v))
                            /\ runSeen' = runSeen \cup {r} /\ UNCHANGED stepSeen
  BY DEF RequestControl
<1>2. target \in RunStatus /\ verdict(v) \in OpStatus
  BY <1>1, ControlIs DEF Enter, Exists, IsActive, OpStatus, Versions
<1>3. cmd \in Commands /\ cmd \notin Resolving /\ o \in Ops \cup {NoOp}
  BY DEF Commands, Resolving, Ops
<1> HIDE DEF target, verdict
<1> QED BY <1>1, <1>2, <1>3, EnterInv

LEMMA RequestResumeInv ==
    ASSUME IInv, TypeInv', NEW r \in Runtimes, NEW o \in OpIds \cup {NoOp},
           NEW cmd \in {"resume", "retry"}, RequestResume(r, cmd, o)
    PROVE  IInv'
<1> DEFINE verdict(v) == IF v = "applied" /\ run.status \notin {"paused", "failed"}
                         THEN "failed" ELSE v
<1>1. PICK v \in Versions : Enter(r, cmd, o, 0, "running", verdict(v))
  BY DEF RequestResume
<1>2. verdict(v) \in OpStatus /\ UNCHANGED <<runSeen, stepSeen>>
  BY DEF OpStatus, Versions, RequestResume
<1>3. cmd \in Commands /\ cmd \notin Resolving /\ o \in Ops \cup {NoOp}
  BY DEF Commands, Resolving, Ops
<1> HIDE DEF verdict
<1> QED BY <1>1, <1>2, <1>3, EnterInv, Names

LEMMA RequestResolutionInv ==
    ASSUME IInv, TypeInv', NEW r \in Runtimes, NEW o \in OpIds \cup {NoOp},
           NEW c \in DOMAIN confs, NEW cmd \in {"approve", "reject"},
           RequestResolution(r, cmd, o, c) \/ RepeatResolution(r, cmd, o, c)
    PROVE  IInv'
<1>1. c \in Nat /\ cmd \in Commands /\ o \in Ops \cup {NoOp}
  BY TypeOfIInv, Rows DEF Commands, Ops
<1>2. CASE RepeatResolution(r, cmd, o, c)
  BY <1>1, <1>2, EnterInv, Names DEF RepeatResolution
<1>3. CASE RequestResolution(r, cmd, o, c)
  <2>1. PICK v \in Versions :
          Enter(r, cmd, o, c, IF cmd = "approve" THEN "paused" ELSE "failed", v)
    BY <1>3 DEF RequestResolution
  <2>2. v \in OpStatus /\ (IF cmd = "approve" THEN "paused" ELSE "failed") \in RunStatus
    BY Names DEF Versions
  <2>3. /\ step.status = "waiting_confirmation"
        /\ runSeen' = runSeen \cup {r} /\ stepSeen' = stepSeen \cup {r}
    BY <1>3 DEF RequestResolution
  <2> QED BY <1>1, <2>1, <2>2, <2>3, EnterInv
<1> QED BY <1>2, <1>3

LEMMA PauseForMemoryRevisionInv ==
    ASSUME IInv, TypeInv', NEW r \in Runtimes, PauseForMemoryRevision(r) PROVE IInv'
<1> DEFINE target == ControlStatus("running", "pause", IsActive(r))
           d == [Idle EXCEPT !.pc = "op", !.cmd = "pause", !.target = target]
<1>1. TypeOK /\ Exists /\ UNCHANGED <<store, stepSeen>>
  BY TypeOfIInv, Names DEF PauseForMemoryRevision, Exists
<1>2. d \in Call /\ d.pc = "op" /\ d.cmd = "pause" /\ d.target # "completed"
  <2>1. target \in {"running", "paused"}
    BY DEF ControlStatus
  <2> HIDE DEF target
  <2> QED BY <2>1 DEF Idle, Call, ProgramPoints, Commands, RunStatus, OpStatus
<1>3. call' = [call EXCEPT ![r] = d]
  BY DEF PauseForMemoryRevision
<1> HIDE DEF target, d
<1>4. OnlyCallOf(r) /\ call'[r] = d
  BY <1>1, <1>2, <1>3 DEF TypeOK, OnlyCallOf
<1>5. CallInv(r)'
  BY <1>2, <1>4 DEF CallInv, CopyIsChecked, StartsNext, MovesOnFacts, Resolving
<1> QED BY <1>1, <1>4, <1>5, QuietStep DEF store, Exists, Approved

-----------------------------------------------------------------------------

LEMMA CreateControlOperationInv ==
    ASSUME IInv, TypeInv', NEW r \in Runtimes, CreateControlOperation(r) PROVE IInv'
<1>1. /\ TypeOK /\ TypeInv /\ call[r].pc = "op"
      /\ UNCHANGED <<run, step, attempts, confs, overdue>>
      /\ runSeen' \subseteq runSeen /\ stepSeen' \subseteq stepSeen
  BY TypeOfIInv DEF CreateControlOperation, Forget
<1>2. Exists' \/ (runSeen' = {} /\ attempts = <<>>)
  BY <1>1, NothingLeft DEF Exists
<1>3. OnlyCallOf(r) /\ CallInv(r)'
  <2>1. CASE Throw(r)
    BY <1>1, <2>1, ThrowFree
  <2>2. CASE Finished(r, call[r].verdict)
    BY <1>1, <2>2, CallFields, FinishedFree
  <2>3. CASE /\ call[r].verdict = "applied"
             /\ ~(call[r].cmd \in Resolving /\ call[r].conf = 0)
             /\ Goto(r, CASE call[r].cmd \in {"pause", "cancel"} -> "cas"
                          [] call[r].cmd \in Resuming            -> "check"
                          [] OTHER                               -> "resolve",
                     call[r].cmd, call[r].target)
    <3> DEFINE pc == CASE call[r].cmd \in {"pause", "cancel"} -> "cas"
                       [] call[r].cmd \in Resuming            -> "check"
                       [] OTHER                               -> "resolve"
    <3>1. /\ pc \in {"cas", "check", "resolve"}
          /\ pc = "cas" => call[r].cmd \notin Resuming
          /\ pc = "resolve" => call[r].cmd \in Resolving
      BY <1>1, CallOfIInv DEF CallShape, Resolving, Resuming
    <3>2. Goto(r, pc, call[r].cmd, call[r].target)
      BY <2>3
    <3> HIDE DEF pc
    <3>3. /\ OnlyCallOf(r) /\ call'[r].pc = pc /\ call'[r].cmd = call[r].cmd
          /\ call'[r].target = call[r].target /\ call'[r].conf = call[r].conf
      <4>1. pc \in ProgramPoints
        BY <3>1 DEF ProgramPoints
      <4> QED BY <1>1, <3>2, <4>1, GotoIs, CallFields
    <3>4. CopyIsChecked(r)'
      BY <1>1, <2>3, <3>1, <3>3, CallOfIInv DEF CopyIsChecked
    <3>5. StartsNext(r)'
      BY <3>1, <3>3 DEF StartsNext
    <3>6. call[r].target # "completed"
      BY <1>1, <2>3, CallOfIInv DEF CallShape
    <3>7. MovesOnFacts(r)'
      BY <3>1, <3>3, <3>6 DEF MovesOnFacts
    <3> QED BY <3>3, <3>4, <3>5, <3>7 DEF CallInv
  <2> QED BY <2>1, <2>2, <2>3 DEF CreateControlOperation
<1> QED BY <1>1, <1>2, <1>3, QuietStep DEF Exists, Approved

LEMMA CompleteControlOperationInv ==
    ASSUME IInv, TypeInv', NEW r \in Runtimes, CompleteControlOperation(r) PROVE IInv'
<1>1. /\ TypeOK /\ TypeInv /\ UNCHANGED <<run, step, attempts, confs, overdue>>
      /\ runSeen' \subseteq runSeen /\ stepSeen' \subseteq stepSeen
  BY TypeOfIInv DEF CompleteControlOperation
<1>2. Exists' \/ (runSeen' = {} /\ attempts = <<>>)
  BY <1>1, NothingLeft DEF Exists
<1>3. OnlyCallOf(r) /\ CallInv(r)'
  BY <1>1, ReturnFree DEF CompleteControlOperation
<1> QED BY <1>1, <1>2, <1>3, QuietStep DEF Exists, Approved

LEMMA SupersedeConfirmationsInv ==
    ASSUME IInv, TypeInv', NEW r \in Runtimes, SupersedeConfirmations(r) PROVE IInv'
<1>1. /\ TypeOK /\ TypeInv /\ call[r].pc = "supersede"
      /\ UNCHANGED <<run, step, attempts, ops, overdue, runSeen, stepSeen>>
  BY TypeOfIInv DEF SupersedeConfirmations
<1>2. Exists' \/ (runSeen' = {} /\ attempts = <<>>)
  BY <1>1, NothingLeft DEF Exists
<1>3. Approved => Approved'
  BY DEF SupersedeConfirmations, Approved, PendingConfs
<1>4. call[r].target # "completed"
  BY <1>1, CallOfIInv DEF CallShape
<1>5. OnlyCallOf(r) /\ CallInv(r)'
  <2>1. Goto(r, "cancelStep", call[r].cmd, call[r].target)
    BY DEF SupersedeConfirmations
  <2> QED BY <1>1, <1>4, <2>1, GotoIs, CallFields, Names, FreeCall
<1> QED BY <1>1, <1>2, <1>3, <1>5, QuietStep DEF Exists

LEMMA CheckResumableInv ==
    ASSUME IInv, TypeInv', NEW r \in Runtimes, CheckResumable(r) PROVE IInv'
<1>1. TypeOK /\ TypeInv /\ call[r].pc = "check" /\ UNCHANGED store
      /\ stepSeen' \subseteq stepSeen \cup {r}
  BY TypeOfIInv DEF CheckResumable
<1>2. Exists' \/ (runSeen' = {} /\ attempts = <<>>)
  <2>1. CASE Exists
    BY <1>1, <2>1 DEF store, Exists
  <2>2. CASE ~Exists
    BY <1>1, <2>2, NothingLeft DEF CheckResumable
  <2> QED BY <2>1, <2>2
<1>3. call[r].target # "completed"
  BY <1>1, CallOfIInv DEF CallShape
<1>4. OnlyCallOf(r) /\ CallInv(r)'
  <2>1. CASE Finished(r, "failed")
    BY <1>1, <2>1, FinishedFree, Names
  <2>2. CASE Goto(r, "cas", call[r].cmd, "paused")
    <3>1. OnlyCallOf(r) /\ call'[r].pc = "cas" /\ call'[r].target = "paused"
      BY <1>1, <2>2, GotoIs, CallFields, Names
    <3> QED BY <3>1 DEF CallInv, CopyIsChecked, StartsNext, MovesOnFacts
  <2>3. CASE /\ ~Exhausted /\ Resumable(r)
             /\ call' = [call EXCEPT ![r] =
                          [@ EXCEPT !.pc = "reset", !.n = Len(attempts) + 1,
                                    !.conf = IF Receipts(r) = {} THEN 0
                                             ELSE CHOOSE c \in Receipts(r) : TRUE]]
    <3> DEFINE receipt == IF Receipts(r) = {} THEN 0
                          ELSE CHOOSE c \in Receipts(r) : TRUE
               d == [call[r] EXCEPT !.pc = "reset", !.n = Len(attempts) + 1,
                                    !.conf = receipt]
    <3>1. call' = [call EXCEPT ![r] = d]
      BY <2>3 DEF receipt
    <3> HIDE DEF receipt
    <3>2. d.pc = "reset" /\ d.n = Len(attempts) + 1 /\ d.target = call[r].target
      <4>1. call[r] \in Call
        BY <1>1 DEF TypeOK
      <4> QED BY <4>1 DEF Call
    <3> HIDE DEF d
    <3>3. OnlyCallOf(r) /\ call'[r] = d
      BY <1>1, <3>1 DEF TypeOK, TypeInv, OnlyCallOf
    <3>4. step.status \in {"failed", "pending"}
      BY <2>3 DEF Resumable
    <3>5. \A i \in DOMAIN attempts : attempts[i] # "running"
      BY <3>4 DEF IInv, StoreInv, RunningIsLatest
    <3>6. Len(attempts) + 1 \in 1..MaxSteps
      BY <1>1, <2>3, Rows, ConstantsAssumption DEF Exhausted
    <3>7. StartsNext(r)'
      BY <1>1, <3>2, <3>3, <3>5, <3>6, Rows DEF StartsNext, store
    <3>8. CopyIsChecked(r)' /\ MovesOnFacts(r)'
      BY <1>1, <1>3, <3>2, <3>3, <3>4 DEF CopyIsChecked, MovesOnFacts, store
    <3> QED BY <3>3, <3>7, <3>8 DEF CallInv
  <2> QED BY <2>1, <2>2, <2>3 DEF CheckResumable
<1> QED BY <1>1, <1>2, <1>4, QuietStep DEF store, Exists, Approved

LEMMA ResolveConfirmationInv ==
    ASSUME IInv, TypeInv', NEW r \in Runtimes, ResolveConfirmation(r) PROVE IInv'
<1>1. /\ TypeOK /\ TypeInv /\ call[r].pc = "resolve"
      /\ UNCHANGED <<run, step, attempts, overdue>>
      /\ runSeen' \subseteq runSeen /\ stepSeen' \subseteq stepSeen
  BY TypeOfIInv DEF ResolveConfirmation, Forget
<1>2. Exists' \/ (runSeen' = {} /\ attempts = <<>>)
  BY <1>1, NothingLeft DEF Exists
<1>3. OnlyCallOf(r) /\ CallInv(r)' /\ (Approved => Approved')
  <2>1. CASE (Finished(r, "failed") \/ Return(r)) /\ UNCHANGED confs
    BY <1>1, <2>1, FinishedFree, ReturnFree, Names DEF Approved
  <2>2. CASE /\ call[r].conf \in PendingConfs
             /\ confs' = [confs EXCEPT ![call[r].conf].status =
                             IF call[r].cmd = "approve" THEN "approved" ELSE "rejected"]
             /\ Goto(r, "settle", call[r].cmd, call[r].target)
    <3>1. /\ OnlyCallOf(r) /\ call'[r].pc = "settle" /\ call'[r].cmd = call[r].cmd
          /\ call'[r].target = call[r].target
      BY <1>1, <2>2, GotoIs, CallFields, Names
    <3>2. /\ Approved => Approved'
          /\ call[r].cmd = "approve" => Approved'
      <4>1. /\ call[r].conf \in DOMAIN confs /\ DOMAIN confs' = DOMAIN confs
            /\ confs[call[r].conf] \in ConfRow
            /\ confs[call[r].conf].status = "pending"
        BY <1>1, <2>2, Rows DEF PendingConfs
      <4>2. \A c \in DOMAIN confs : c # call[r].conf => confs'[c] = confs[c]
        BY <1>1, <2>2, Rows
      <4>3. call[r].cmd = "approve" => confs'[call[r].conf].status = "approved"
        BY <2>2, <4>1 DEF ConfRow
      <4> QED BY <4>1, <4>2, <4>3 DEF Approved
    <3>3. call[r].target # "completed"
      BY <1>1, CallOfIInv DEF CallShape
    <3>4. CopyIsChecked(r)'
      BY <1>1, <2>2, <3>1, CallOfIInv DEF CopyIsChecked
    <3> QED BY <3>1, <3>2, <3>3, <3>4 DEF CallInv, StartsNext, MovesOnFacts
  <2> QED BY <2>1, <2>2 DEF ResolveConfirmation
<1> QED BY <1>1, <1>2, <1>3, QuietStep DEF Exists

\* A confirmation whose approval was not recorded changes its row.
LEMMA ApprovalStays ==
    ASSUME TypeOK, NEW c \in DOMAIN confs, confs[c].status = "pending",
           confs' = [confs EXCEPT ![c].status = "expired"]
    PROVE  Approved => Approved'
BY Rows DEF Approved

LEMMA ExpireConfirmationInv ==
    ASSUME IInv, TypeInv', NEW r \in Runtimes, NEW c \in DOMAIN confs, ExpireConfirmation(r, c)
    PROVE  IInv'
<1>1. TypeOK /\ TypeInv /\ UNCHANGED <<run, step, attempts, overdue, runSeen, stepSeen>>
  BY TypeOfIInv DEF ExpireConfirmation
<1>2. Exists' \/ (runSeen' = {} /\ attempts = <<>>)
  BY <1>1, NothingLeft DEF Exists
<1>3. Approved => Approved'
  BY <1>1, ApprovalStays DEF ExpireConfirmation, PendingConfs
<1>4. OnlyCallOf(r) /\ CallInv(r)'
  <2>1. Goto(r, "expireRead", "expire", "failed")
    BY DEF ExpireConfirmation
  <2> QED BY <1>1, <2>1, GotoIs, Names, FreeCall
<1> QED BY <1>1, <1>2, <1>3, <1>4, QuietStep DEF Exists

LEMMA ExpireReadInv ==
    ASSUME IInv, TypeInv', NEW r \in Runtimes, ExpireRead(r) PROVE IInv'
<1>1. TypeOK /\ TypeInv /\ UNCHANGED store /\ stepSeen' \subseteq stepSeen \cup {r}
  BY TypeOfIInv DEF ExpireRead
<1>2. Exists' \/ (runSeen' = {} /\ attempts = <<>>)
  <2>1. CASE Exists
    BY <1>1, <2>1 DEF store, Exists
  <2>2. CASE ~Exists
    BY <1>1, <2>2, NothingLeft DEF ExpireRead, Exists, RunStatus
  <2> QED BY <2>1, <2>2
<1>3. OnlyCallOf(r) /\ CallInv(r)'
  <2>1. CASE Goto(r, "settle", "expire", "failed") /\ step.status = "waiting_confirmation"
    <3>1. /\ OnlyCallOf(r) /\ call'[r].pc = "settle" /\ call'[r].cmd = "expire"
          /\ call'[r].target = "failed"
      BY <1>1, <2>1, GotoIs, Names
    <3> QED BY <1>1, <2>1, <3>1 DEF CallInv, CopyIsChecked, StartsNext, MovesOnFacts, store
  <2>2. CASE Return(r)
    BY <1>1, <2>2, ReturnFree
  <2> QED BY <2>1, <2>2 DEF ExpireRead
<1> QED BY <1>1, <1>2, <1>3, QuietStep DEF store, Exists, Approved

LEMMA RegisterRuntimeInv ==
    ASSUME IInv, TypeInv', NEW r \in Runtimes, RegisterRuntime(r) PROVE IInv'
<1>1. TypeOK /\ UNCHANGED <<store, runSeen, stepSeen>>
  BY TypeOfIInv DEF RegisterRuntime
<1>2. Exists' \/ (runSeen' = {} /\ attempts = <<>>)
  BY <1>1, NothingLeft DEF store, Exists
<1>3. OnlyCallOf(r) /\ CallInv(r)'
  <2>1. Goto(r, "claim", "recover", "running")
    BY DEF RegisterRuntime
  <2> QED BY <1>1, <2>1, GotoIs, Names, FreeCall
<1> QED BY <1>1, <1>2, <1>3, QuietStep DEF store, Exists, Approved

LEMMA RecoverRunInv ==
    ASSUME IInv, TypeInv', NEW r \in Runtimes, RecoverRun(r) PROVE IInv'
<1>1. /\ TypeOK /\ TypeInv /\ call[r].pc = "recover" /\ UNCHANGED store
      /\ runSeen' \subseteq runSeen /\ stepSeen' \subseteq stepSeen
  BY TypeOfIInv DEF RecoverRun, Forget
<1>2. Exists' \/ (runSeen' = {} /\ attempts = <<>>)
  BY <1>1, NothingLeft DEF store, Exists
<1>3. OnlyCallOf(r) /\ CallInv(r)'
  <2>1. CASE Return(r)
    BY <1>1, <2>1, ReturnFree
  <2>2. CASE call' = [call EXCEPT ![r] =
                        [@ EXCEPT !.pc = "op", !.op = StaleOp,
                                  !.verdict = IF r \in runSeen THEN "applied"
                                              ELSE "rejected"]]
    <3> DEFINE d == [call[r] EXCEPT !.pc = "op", !.op = StaleOp,
                                    !.verdict = IF r \in runSeen THEN "applied"
                                                ELSE "rejected"]
    <3>1. call' = [call EXCEPT ![r] = d]
      BY <2>2
    <3>2. d.pc = "op" /\ d.cmd = call[r].cmd
      <4>1. call[r] \in Call
        BY <1>1 DEF TypeOK
      <4> QED BY <4>1 DEF Call
    <3> HIDE DEF d
    <3>3. OnlyCallOf(r) /\ call'[r] = d
      BY <1>1, <3>1 DEF TypeOK, TypeInv, OnlyCallOf
    <3>4. call[r].cmd \in Resuming
      BY <1>1, CallOfIInv DEF CallShape
    <3> QED BY <3>2, <3>3, <3>4
            DEF CallInv, CopyIsChecked, StartsNext, MovesOnFacts, Resuming, Resolving
  <2> QED BY <2>1, <2>2 DEF RecoverRun
<1> QED BY <1>1, <1>2, <1>3, QuietStep DEF store, Exists, Approved

LEMMA CrashInv ==
    ASSUME IInv, TypeInv', NEW r \in Runtimes, Crash(r) PROVE IInv'
<1>1. /\ TypeOK /\ TypeInv /\ UNCHANGED store
      /\ runSeen' \subseteq runSeen /\ stepSeen' \subseteq stepSeen
  BY TypeOfIInv DEF Crash
<1>2. Exists' \/ (runSeen' = {} /\ attempts = <<>>)
  BY <1>1, NothingLeft DEF store, Exists
<1>3. OnlyCallOf(r) /\ CallInv(r)'
  BY <1>1, ReturnFree DEF Crash
<1> QED BY <1>1, <1>2, <1>3, QuietStep DEF store, Exists, Approved

\* Steps that leave every call alone.
LEMMA CallsStayInv ==
    ASSUME IInv, TypeInv', UNCHANGED <<step, attempts, call>>, Exists' => Exists,
           run'.request = run.request, Approved => Approved',
           run'.status = "completed" => run.status = "completed" \/ Succeeded,
           Exists' \/ (runSeen' = {} /\ attempts = <<>>),
           overdue' = overdue \/ MayOverrun,
           stepSeen' \subseteq stepSeen
    PROVE  IInv'
<1>1. StoreInv'
  BY RowsStay
<1>2. ASSUME NEW r \in Runtimes PROVE CallInv(r)'
  <2>1. CopyIsChecked(r) /\ StartsNext(r) /\ MovesOnFacts(r)
    BY CallOfIInv
  <2>2. CopyIsChecked(r)' /\ StartsNext(r)'
    BY <2>1 DEF CopyIsChecked, StartsNext
  <2>3. MovesOnFacts(r)'
    BY <2>1 DEF MovesOnFacts, Succeeded
  <2> QED BY <2>2, <2>3 DEF CallInv
<1> QED BY <1>1, <1>2 DEF IInv

LEMMA CloseInv ==
    ASSUME IInv, TypeInv', NEW r \in Runtimes, Close(r) PROVE IInv'
<1>1. TypeOK /\ TypeInv /\ UNCHANGED <<store, runSeen, stepSeen>>
  BY TypeOfIInv DEF Close
<1>2. Exists' \/ (runSeen' = {} /\ attempts = <<>>)
  BY <1>1, NothingLeft DEF store, Exists
<1>3. CASE Goto(r, "finish", "close", "paused")
  <2>1. OnlyCallOf(r) /\ CallInv(r)'
    BY <1>1, <1>3, GotoIs, Names, FreeCall
  <2> QED BY <1>1, <1>2, <2>1, QuietStep DEF store, Exists, Approved
<1>4. CASE UNCHANGED call
  BY <1>1, <1>2, <1>4, CallsStayInv DEF store, Exists, Approved
<1> QED BY <1>3, <1>4 DEF Close

LEMMA BodyStaysInv ==
    ASSUME IInv, TypeInv', NEW r \in Runtimes,
           RecordProgress(r) \/ ModelBudgetRefused(r) \/ ConsumeReceipt(r)
    PROVE  IInv'
<1>1. /\ TypeOK /\ UNCHANGED <<run, step, attempts, overdue, call, stepSeen>>
      /\ runSeen' \subseteq runSeen
  BY TypeOfIInv DEF RecordProgress, ModelBudgetRefused, ConsumeReceipt, store
<1>2. Exists' \/ (runSeen' = {} /\ attempts = <<>>)
  BY <1>1, NothingLeft DEF Exists
<1>3. Approved => Approved'
  <2>1. CASE UNCHANGED confs
    BY <2>1 DEF Approved
  <2>2. CASE ConsumeReceipt(r)
    <3>1. /\ active[r].receipt \in DOMAIN confs
          /\ confs' = [confs EXCEPT ![active[r].receipt].status = "consumed"]
      BY <2>2 DEF ConsumeReceipt
    <3> QED BY <1>1, <3>1, Rows DEF Approved, ConfRow
  <2> QED BY <2>1, <2>2 DEF RecordProgress, ModelBudgetRefused, store
<1> QED BY <1>1, <1>2, <1>3, CallsStayInv DEF Exists

LEMMA LeaseInv ==
    ASSUME IInv, TypeInv', LeaseLapses \/ \E r \in Runtimes : RenewLease(r) PROVE IInv'
<1>1. /\ TypeOK /\ UNCHANGED <<step, attempts, confs, overdue, call, runSeen, stepSeen>>
  BY TypeOfIInv DEF LeaseLapses, RenewLease
<1>2. run'.status = run.status /\ run'.request = run.request
  BY <1>1 DEF LeaseLapses, RenewLease, TypeOK, RunRow
<1>3. Exists' \/ (runSeen' = {} /\ attempts = <<>>)
  BY <1>1, <1>2, NothingLeft DEF Exists
<1> QED BY <1>1, <1>2, <1>3, CallsStayInv DEF Exists, Approved

LEMMA ClockInv ==
    ASSUME IInv, TypeInv', DeadlinePasses \/ \E c \in DOMAIN confs : ConfirmationLapses(c)
    PROVE  IInv'
<1>1. /\ TypeOK /\ UNCHANGED <<run, step, attempts, call, runSeen, stepSeen>>
      /\ overdue' = overdue \/ MayOverrun
  BY TypeOfIInv DEF DeadlinePasses, ConfirmationLapses
<1>2. Exists' \/ (runSeen' = {} /\ attempts = <<>>)
  BY <1>1, NothingLeft DEF Exists
<1>3. Approved => Approved'
  <2>1. CASE UNCHANGED confs
    BY <2>1 DEF Approved
  <2>2. CASE \E c \in DOMAIN confs : ConfirmationLapses(c)
    <3>1. PICK c \in DOMAIN confs : confs' = [confs EXCEPT ![c].lapsed = TRUE]
      BY <2>2 DEF ConfirmationLapses
    <3>2. \A d \in DOMAIN confs : confs'[d].status = confs[d].status
      BY <1>1, <3>1, Rows DEF ConfRow
    <3>3. DOMAIN confs' = DOMAIN confs
      BY <1>1, <3>1, Rows
    <3> QED BY <3>2, <3>3 DEF Approved
  <2> QED BY <2>1, <2>2 DEF DeadlinePasses
<1> QED BY <1>1, <1>2, <1>3, CallsStayInv DEF Exists

-----------------------------------------------------------------------------
(* The actions that create, delete or change the step and its attempts.    *)

LEMMA CreateRunInv ==
    ASSUME IInv, TypeInv', NEW r \in Runtimes, CreateRun(r) PROVE IInv'
<1>1. /\ TypeOK /\ TypeInv /\ run.status = "absent" /\ stepSeen' = {}
      /\ UNCHANGED <<attempts, confs, overdue>> /\ runSeen' = {}
  BY TypeOfIInv DEF CreateRun
<1>2. PICK q \in Requests :
        /\ run' = [status |-> "queued", owner |-> r, leased |-> TRUE,
                   pauseRequested |-> FALSE, request |-> q]
        /\ step' = [status |-> "pending", confirm |-> q.confirm]
  BY DEF CreateRun
<1>3. attempts = <<>>
  BY <1>1, NothingLeft DEF Exists, RunStatus
<1>4. StoreInv'
  <2>1. RowsExist'
    BY <1>1, <1>3 DEF IInv, StoreInv, RowsExist
  <2>2. RunningIsLatest' /\ DoneIsLatest'
    BY <1>1, <1>2, <1>3 DEF RunningIsLatest, DoneIsLatest, Succeeded
  <2>3. ApprovalIsKept'
    BY <1>2 DEF ApprovalIsKept
  <2> QED BY <2>1, <2>2, <2>3 DEF StoreInv
<1>5. OnlyCallOf(r) /\ CallInv(r)'
  <2>1. Goto(r, "read", "begin", "planning")
    BY DEF CreateRun
  <2> QED BY <1>1, <2>1, GotoIs, Names, FreeCall
<1>6. ASSUME NEW p \in Runtimes, p # r PROVE CallInv(p)'
  <2>1. call'[p] = call[p] /\ call[p].pc \in {"idle", "claim"} /\ CallShape(p)
    BY <1>1, <1>5, <1>6 DEF OnlyCallOf, TypeInv, NothingBefore
  <2>2. call[p].target # "completed"
    BY <2>1 DEF CallShape
  <2> QED BY <2>1, <2>2, FreeCall
<1> QED BY <1>4, <1>5, <1>6 DEF IInv

LEMMA DeleteRunInv ==
    ASSUME IInv, TypeInv', NEW r \in Runtimes, DeleteRun(r) PROVE IInv'
<1>1. /\ TypeOK /\ TypeInv /\ run'.status = "deleted" /\ step'.status = "pending"
      /\ attempts' = <<>> /\ runSeen' = {} /\ stepSeen' = {} /\ UNCHANGED <<overdue, call>>
  <2>1. TypeOK /\ TypeInv
    BY TypeOfIInv
  <2>2. run'.status = "deleted"
    BY <2>1 DEF DeleteRun, TypeOK, RunRow
  <2> QED BY <2>1, <2>2 DEF DeleteRun
<1>2. ~Exists'
  BY <1>1 DEF Exists, RunStatus
<1>3. StoreInv'
  <2>1. RowsExist'
    BY <1>1 DEF IInv, StoreInv, RowsExist
  <2>2. RunningIsLatest' /\ DoneIsLatest'
    BY <1>1 DEF RunningIsLatest, DoneIsLatest, Succeeded
  <2>3. ApprovalIsKept'
    BY <1>1, <1>2 DEF ApprovalIsKept
  <2> QED BY <2>1, <2>2, <2>3 DEF StoreInv
<1>4. \A q \in Runtimes : CallInv(q)'
  BY <1>1, <1>2 DEF CallInv, CopyIsChecked, StartsNext, MovesOnFacts
<1> QED BY <1>3, <1>4 DEF IInv

\* The step changes between two attempts; the attempts stay.
LEMMA StepMoves ==
    ASSUME IInv, UNCHANGED <<run, attempts, confs, overdue>>, runSeen' \subseteq runSeen,
           step'.status # "done", step.status # "done",
           step'.status = "cancelled" \/ step.status \notin {"running", "cancelled"},
           step'.confirm = step.confirm \/ (step'.confirm = FALSE /\ (Exists => Approved))
    PROVE  RowsGrow /\ StoreInv'
<1>1. TypeOK /\ ~Succeeded /\ UNCHANGED <<Succeeded, Approved, Exists>>
  BY TypeOfIInv DEF IInv, StoreInv, DoneIsLatest, Succeeded, Approved, Exists
<1>2. RowsExist'
  BY DEF IInv, StoreInv, RowsExist, Exists
<1>3. RunningIsLatest'
  BY DEF IInv, StoreInv, RunningIsLatest
<1>4. DoneIsLatest'
  BY <1>1 DEF IInv, StoreInv, DoneIsLatest
<1>5. ApprovalIsKept'
  BY <1>1 DEF IInv, StoreInv, ApprovalIsKept
<1>6. RowsGrow
  BY <1>1, Rows DEF RowsGrow
<1> QED BY <1>2, <1>3, <1>4, <1>5, <1>6 DEF StoreInv

LEMMA CancelInactiveStepInv ==
    ASSUME IInv, TypeInv', NEW r \in Runtimes, CancelInactiveStep(r) PROVE IInv'
<1>1. /\ TypeOK /\ TypeInv /\ UNCHANGED <<run, attempts, confs, ops, overdue, runSeen>>
  BY TypeOfIInv DEF CancelInactiveStep
<1>2. OnlyCallOf(r) /\ CallInv(r)'
  <2>1. Goto(r, "read", call[r].cmd, "cancelled")
    BY DEF CancelInactiveStep
  <2> QED BY <1>1, <2>1, GotoIs, CallFields, Names, FreeCall
<1>3. CASE UNCHANGED <<step, stepSeen>>
  <2>1. Exists' \/ (runSeen' = {} /\ attempts = <<>>)
    BY <1>1, NothingLeft DEF Exists
  <2> QED BY <1>1, <1>2, <1>3, <2>1, QuietStep DEF Exists, Approved
<1>4. CASE /\ step.status \in {"pending", "running", "failed", "waiting_confirmation"}
           /\ step' = [step EXCEPT !.status = "cancelled"]
           /\ stepSeen' = {}
  <2>1. step'.status = "cancelled" /\ step'.confirm = step.confirm
    BY <1>1, <1>4 DEF TypeOK, StepRow
  <2>2. RowsGrow /\ StoreInv'
    BY <1>1, <1>4, <2>1, StepMoves
  <2> QED BY <1>2, <1>4, <2>2, Induct DEF CopiesHold
<1> QED BY <1>3, <1>4 DEF CancelInactiveStep

LEMMA ResetStepInv ==
    ASSUME IInv, TypeInv', NEW r \in Runtimes, ResetStep(r) PROVE IInv'
<1>1. /\ TypeOK /\ TypeInv /\ call[r].pc = "reset"
      /\ UNCHANGED <<run, attempts, confs, ops, overdue>>
  BY TypeOfIInv DEF ResetStep
<1>2. CASE Finished(r, "failed") /\ Forget(r) /\ UNCHANGED step
  <2>1. Exists' \/ (runSeen' = {} /\ attempts = <<>>)
    BY <1>1, <1>2, NothingLeft DEF Exists, Forget
  <2> QED BY <1>1, <1>2, <2>1, FinishedFree, Names, QuietStep DEF Exists, Approved, Forget
<1>3. CASE /\ r \in stepSeen
           /\ step' = [step EXCEPT !.status = "pending"]
           /\ stepSeen' = {} /\ UNCHANGED runSeen
           /\ Goto(r, "cas", call[r].cmd, "running")
  <2>1. step'.status = "pending" /\ step'.confirm = step.confirm
    BY <1>1, <1>3 DEF TypeOK, StepRow
  <2>2. step.status \in {"failed", "pending"}
    BY <1>1, <1>3, CallOfIInv DEF CopyIsChecked
  <2>3. /\ OnlyCallOf(r) /\ call'[r].pc = "cas" /\ call'[r].target = "running"
        /\ call'[r].n = call[r].n
    BY <1>1, <1>3, GotoIs, CallFields, Names
  <2>4. StartsNext(r)'
    BY <1>1, <2>3, CallOfIInv DEF StartsNext, Exists
  <2>5. CallInv(r)'
    BY <2>3, <2>4 DEF CallInv, CopyIsChecked, MovesOnFacts
  <2>6. RowsGrow /\ StoreInv'
    BY <1>1, <1>3, <2>1, <2>2, StepMoves
  <2> QED BY <1>3, <2>3, <2>5, <2>6, Induct DEF CopiesHold
<1> QED BY <1>2, <1>3 DEF ResetStep

LEMMA SettleStepInv ==
    ASSUME IInv, TypeInv', NEW r \in Runtimes, SettleStep(r) PROVE IInv'
<1>1. /\ TypeOK /\ TypeInv /\ call[r].pc = "settle"
      /\ UNCHANGED <<run, attempts, confs, ops, overdue>>
  BY TypeOfIInv DEF SettleStep
<1>2. CASE Return(r) /\ Forget(r) /\ UNCHANGED step
  <2>1. Exists' \/ (runSeen' = {} /\ attempts = <<>>)
    BY <1>1, <1>2, NothingLeft DEF Exists, Forget
  <2> QED BY <1>1, <1>2, <2>1, ReturnFree, QuietStep DEF Exists, Approved, Forget
<1>3. CASE /\ r \in stepSeen
           /\ step' = IF call[r].cmd = "approve"
                      THEN [status |-> "pending", confirm |-> FALSE]
                      ELSE [step EXCEPT !.status = "failed"]
           /\ stepSeen' = {} /\ UNCHANGED runSeen
           /\ Goto(r, "cas", call[r].cmd, call[r].target)
  <2>1. /\ step'.status \in {"pending", "failed"}
        /\ step'.confirm = step.confirm \/ (call[r].cmd = "approve" /\ step'.confirm = FALSE)
    <3>1. CASE call[r].cmd = "approve"
      BY <1>3, <3>1
    <3>2. CASE call[r].cmd # "approve"
      BY <1>1, <1>3, <3>2 DEF TypeOK, StepRow
    <3> QED BY <3>1, <3>2
  <2>2. step.status = "waiting_confirmation"
    BY <1>1, <1>3, CallOfIInv DEF CopyIsChecked
  <2>3. call[r].cmd = "approve" /\ Exists => Approved
    BY <1>1, CallOfIInv DEF MovesOnFacts
  <2>4. /\ OnlyCallOf(r) /\ call'[r].pc = "cas" /\ call'[r].cmd = call[r].cmd
        /\ call'[r].target = call[r].target
    BY <1>1, <1>3, GotoIs, CallFields, Names
  <2>5. CallInv(r)'
    <3>1. call[r].cmd \in Resolving /\ call[r].target # "completed"
      BY <1>1, CallOfIInv DEF CallShape
    <3> QED BY <2>4, <3>1
            DEF CallInv, CopyIsChecked, StartsNext, MovesOnFacts, Resolving, Resuming
  <2>6. RowsGrow /\ StoreInv'
    BY <1>1, <1>3, <2>1, <2>2, <2>3, StepMoves
  <2> QED BY <1>3, <2>4, <2>5, <2>6, Induct DEF CopiesHold
<1> QED BY <1>2, <1>3 DEF SettleStep

\* An attempt ends: it was the latest, and the run was not completed.
LEMMA FinishAttemptInv ==
    ASSUME IInv, TypeInv', NEW r \in Runtimes, FinishAttempt(r) PROVE IInv'
<1> DEFINE o == Outcome[call[r].target]
           n == active[r].attempt
<1>1. /\ TypeOK /\ TypeInv /\ call[r].pc = "finish" /\ call[r].target \in DOMAIN Outcome
      /\ UNCHANGED <<run, confs, ops, overdue, runSeen>>
  BY TypeOfIInv, CallOfIInv DEF FinishAttempt, CallShape
<1>2. CASE Throw(r) /\ UNCHANGED <<attempts, step, stepSeen>>
  <2>1. Exists' \/ (runSeen' = {} /\ attempts = <<>>)
    BY <1>1, <1>2, NothingLeft DEF Exists
  <2> QED BY <1>1, <1>2, <2>1, ThrowFree, QuietStep DEF Exists, Approved
<1>3. CASE /\ n \in DOMAIN attempts /\ attempts[n] = "running"
           /\ attempts' = [attempts EXCEPT ![n] = o.attempt]
           /\ step' = [step EXCEPT !.status = o.step]
           /\ stepSeen' = {}
           /\ Goto(r, "read", call[r].cmd, call[r].target)
  <2>1. /\ o.attempt # "running" /\ (o.attempt = "done" <=> call[r].target = "completed")
        /\ o.step = "done" <=> call[r].target = "completed"
    BY <1>1, OutcomeIs
  <2>2. step'.status = o.step /\ step'.confirm = step.confirm
    BY <1>1, <1>3 DEF TypeOK, StepRow
  <2> HIDE DEF o, n
  <2>3. n = Len(attempts) /\ n \in Nat /\ Exists /\ attempts # <<>>
    BY <1>1, <1>3, Rows, NothingLeft DEF IInv, StoreInv, RunningIsLatest
  <2>4. /\ DOMAIN attempts' = DOMAIN attempts /\ Len(attempts') = Len(attempts)
        /\ \A i \in DOMAIN attempts' :
             attempts'[i] = IF i = Len(attempts) THEN o.attempt ELSE attempts[i]
    BY <1>1, <1>3, <2>3, Rows
  <2>5. \A i \in DOMAIN attempts' : attempts'[i] # "running"
    BY <2>1, <2>4 DEF IInv, StoreInv, RunningIsLatest
  <2>6. ~Succeeded /\ run.status # "completed"
    BY <1>3, <2>3 DEF Succeeded, IInv, StoreInv, DoneIsLatest
  <2>7. attempts' # <<>> /\ (Succeeded' <=> call[r].target = "completed")
    BY <1>1, <2>1, <2>3, <2>4, Rows DEF Succeeded
  <2>8. call[r].target = "completed" => ~step.confirm
    BY <1>1, <2>3, CallOfIInv DEF MovesOnFacts
  <2>9. StoreInv'
    <3>1. RowsExist'
      BY <1>1, <2>3 DEF IInv, StoreInv, RowsExist, Exists
    <3>2. RunningIsLatest'
      BY <2>5 DEF RunningIsLatest
    <3>3. \A i \in DOMAIN attempts' : attempts'[i] = "done" => i = Len(attempts')
      BY <2>4 DEF IInv, StoreInv, DoneIsLatest
    <3>4. DoneIsLatest'
      BY <1>1, <2>1, <2>2, <2>6, <2>7, <3>3 DEF DoneIsLatest
    <3>5. ApprovalIsKept'
      BY <1>1, <2>1, <2>2, <2>8 DEF IInv, StoreInv, ApprovalIsKept, Approved, Exists
    <3> QED BY <3>1, <3>2, <3>4, <3>5 DEF StoreInv
  <2>10. RowsGrow
    <3>1. Len(attempts) \in Nat
      BY <1>1, Rows
    <3> QED BY <1>1, <2>2, <2>3, <2>4, <2>5, <2>6, <3>1 DEF RowsGrow, Approved
  <2>11. /\ OnlyCallOf(r) /\ call'[r].pc = "read" /\ call'[r].cmd = call[r].cmd
         /\ call'[r].target = call[r].target
    BY <1>1, <1>3, GotoIs, CallFields, Names
  <2>12. CallInv(r)'
    BY <2>7, <2>11 DEF CallInv, CopyIsChecked, StartsNext, MovesOnFacts
  <2> QED BY <1>3, <2>9, <2>10, <2>11, <2>12, Induct DEF CopiesHold
<1> QED BY <1>2, <1>3 DEF FinishAttempt

\* A new attempt: nothing ran, nothing had succeeded.
LEMMA StartAttemptInv ==
    ASSUME IInv, TypeInv', NEW r \in Runtimes, StartAttempt(r) PROVE IInv'
<1> DEFINE n == call[r].n
<1>1. TypeOK /\ TypeInv /\ call[r].pc = "start" /\ UNCHANGED <<confs, ops, overdue>>
  BY TypeOfIInv DEF StartAttempt
<1>2. OnlyCallOf(r) /\ CallInv(r)'
  <2>1. Throw(r) \/ Return(r) \/ Finished(r, "applied")
    BY DEF StartAttempt, Started
  <2> QED BY <1>1, <2>1, ThrowFree, ReturnFree, FinishedFree, Names
<1>3. CASE UNCHANGED <<run, step, attempts, runSeen, stepSeen>>
  <2>1. Exists' \/ (runSeen' = {} /\ attempts = <<>>)
    BY <1>1, <1>3, NothingLeft DEF Exists
  <2> QED BY <1>1, <1>2, <1>3, <2>1, QuietStep DEF Exists, Approved
<1>4. CASE /\ Exists /\ run' = [run EXCEPT !.status = "paused"]
           /\ runSeen' = {} /\ UNCHANGED <<step, attempts, stepSeen>>
  <2>1. run'.status = "paused" /\ run'.request = run.request /\ Exists'
    BY <1>1, <1>4, Names DEF TypeOK, RunRow, Exists
  <2> QED BY <1>1, <1>2, <1>4, <2>1, QuietStep DEF Approved
<1>5. CASE /\ Exists /\ n \notin DOMAIN attempts
           /\ step.status \in {"pending", "running"}
           /\ attempts' = Append(attempts, "running")
           /\ step' = [step EXCEPT !.status = "running"]
           /\ runSeen' = {} /\ stepSeen' = {} /\ UNCHANGED run
  <2>1. step'.status = "running" /\ step'.confirm = step.confirm
    BY <1>1, <1>5 DEF TypeOK, StepRow
  <2>2. /\ Len(attempts) \in Nat /\ DOMAIN attempts = 1..Len(attempts)
        /\ Len(attempts') = Len(attempts) + 1 /\ DOMAIN attempts' = 1..(Len(attempts) + 1)
        /\ \A i \in 1..Len(attempts) : attempts'[i] = attempts[i]
        /\ attempts'[Len(attempts) + 1] = "running" /\ attempts' # <<>>
    <3>1. "running" \in AttemptStatus /\ attempts \in Seq(AttemptStatus)
      BY <1>1 DEF AttemptStatus, TypeOK
    <3>2. attempts' \in Seq(AttemptStatus) /\ attempts' # <<>>
      BY <1>5, <3>1, AppendProperties
    <3> QED BY <1>5, <3>1, <3>2, AppendProperties, LenProperties
  <2>3. n \in 1..MaxSteps /\ n <= Len(attempts) + 1
        /\ (n = Len(attempts) + 1 => \A i \in DOMAIN attempts : attempts[i] # "running")
    BY <1>1, <1>5, CallOfIInv DEF StartsNext
  <2>4. \A i \in DOMAIN attempts : attempts[i] # "running"
    <3>1. n = Len(attempts) + 1
      BY <1>5, <2>2, <2>3, ConstantsAssumption
    <3> QED BY <2>3, <3>1
  <2>5. ~Succeeded /\ run.status # "completed"
    BY <1>5 DEF IInv, StoreInv, DoneIsLatest
  <2>6. \A i \in DOMAIN attempts : attempts[i] # "done"
    BY <2>2, <2>5 DEF IInv, StoreInv, DoneIsLatest, Succeeded
  <2>7. ~Succeeded'
    BY <2>2 DEF Succeeded
  <2>8. StoreInv'
    <3>1. RowsExist'
      BY <1>1, <1>5 DEF IInv, StoreInv, RowsExist, Exists
    <3>2. RunningIsLatest'
      BY <2>1, <2>2, <2>4 DEF RunningIsLatest
    <3>3. DoneIsLatest'
      <4>1. \A i \in DOMAIN attempts' : attempts'[i] # "done"
        BY <2>2, <2>6
      <4> QED BY <1>5, <2>1, <2>5, <2>7, <4>1 DEF DoneIsLatest
    <3>4. ApprovalIsKept'
      BY <1>1, <1>5, <2>1 DEF IInv, StoreInv, ApprovalIsKept, Approved, Exists
    <3> QED BY <3>1, <3>2, <3>3, <3>4 DEF StoreInv
  <2>9. RowsGrow
    <3>1. Len(attempts') >= Len(attempts) /\ Len(attempts') # Len(attempts)
      <4>1. Len(attempts) \in Nat /\ Len(attempts') = Len(attempts) + 1
        BY <2>2
      <4> HIDE DEF n
      <4> QED BY ONLY <4>1
    <3>2. (Approved => Approved') /\ Exists
      BY <1>1, <1>5 DEF Approved
    <3> HIDE DEF n
    <3> QED BY <2>1, <2>5, <3>1, <3>2 DEF RowsGrow
  <2> QED BY <1>2, <1>5, <2>8, <2>9, Induct DEF CopiesHold
<1> QED BY <1>3, <1>4, <1>5 DEF StartAttempt

\* The claim ends the running attempts, and a success keeps its step.
LEMMA ClaimStaleRunInv ==
    ASSUME IInv, TypeInv', NEW r \in Runtimes, ClaimStaleRun(r) PROVE IInv'
<1>1. TypeOK /\ TypeInv /\ UNCHANGED <<confs, ops, overdue>>
  BY TypeOfIInv DEF ClaimStaleRun
<1>2. CASE Return(r) /\ UNCHANGED <<run, step, attempts, runSeen, stepSeen>>
  <2>1. Exists' \/ (runSeen' = {} /\ attempts = <<>>)
    BY <1>1, <1>2, NothingLeft DEF Exists
  <2> QED BY <1>1, <1>2, <2>1, ReturnFree, QuietStep DEF Exists, Approved
<1>3. CASE /\ run.status = "running"
           /\ run' = [run EXCEPT !.status = "paused", !.owner = r, !.leased = TRUE]
           /\ attempts' = [i \in DOMAIN attempts |->
                              IF attempts[i] = "running" THEN "interrupted"
                              ELSE attempts[i]]
           /\ \/ /\ step.status = "running"
                 /\ step' = [step EXCEPT !.status = "pending"] /\ stepSeen' = {}
              \/ UNCHANGED <<step, stepSeen>>
           /\ Goto(r, "recover", "recover", "running")
  <2>1. run'.status = "paused" /\ run'.request = run.request /\ Exists /\ Exists'
    BY <1>1, <1>3, Names DEF TypeOK, RunRow, Exists
  <2>2. /\ step'.confirm = step.confirm
        /\ (step'.status = "done" <=> step.status = "done")
        /\ stepSeen' = {} \/ (step' = step /\ stepSeen' = stepSeen)
    BY <1>1, <1>3 DEF TypeOK, StepRow
  <2>3. /\ Len(attempts) \in Nat /\ Len(attempts') = Len(attempts)
        /\ DOMAIN attempts = 1..Len(attempts) /\ DOMAIN attempts' = DOMAIN attempts
        /\ attempts = <<>> <=> attempts' = <<>>
    <3>1. Len(attempts) \in Nat /\ DOMAIN attempts = 1..Len(attempts)
      BY <1>1, Rows
    <3>2. DOMAIN attempts' = DOMAIN attempts
      BY <1>3
    <3>3. attempts' \in Seq(AttemptStatus) /\ attempts \in Seq(AttemptStatus)
      BY <1>1 DEF TypeInv, TypeOK
    <3>4. Len(attempts') = Len(attempts)
      BY <3>1, <3>2, <3>3, LenProperties
    <3> QED BY <3>1, <3>2, <3>3, <3>4, EmptySeq
  <2>4. \A i \in DOMAIN attempts' :
          attempts'[i] # "running" /\ (attempts'[i] = "done" <=> attempts[i] = "done")
    BY <1>3
  <2>5. Succeeded' <=> Succeeded
    BY <2>3, <2>4 DEF Succeeded
  <2>6. StoreInv'
    <3>1. RowsExist'
      BY <1>1, <2>1 DEF IInv, StoreInv, RowsExist
    <3>2. RunningIsLatest'
      BY <2>4 DEF RunningIsLatest
    <3>3. DoneIsLatest'
      BY <2>1, <2>2, <2>3, <2>4, <2>5 DEF IInv, StoreInv, DoneIsLatest
    <3>4. ApprovalIsKept'
      BY <1>1, <2>1, <2>2 DEF IInv, StoreInv, ApprovalIsKept, Approved
    <3> QED BY <3>1, <3>2, <3>3, <3>4 DEF StoreInv
  <2>7. RowsGrow
    BY <1>1, <2>1, <2>2, <2>3, <2>4, <2>5 DEF RowsGrow, Approved
  <2>8. CopiesHold(r)
    BY <2>2 DEF CopiesHold
  <2>9. OnlyCallOf(r) /\ CallInv(r)'
    BY <1>1, <1>3, GotoIs, Names, FreeCall
  <2> QED BY <2>6, <2>7, <2>8, <2>9, Induct
<1> QED BY <1>2, <1>3 DEF ClaimStaleRun

-----------------------------------------------------------------------------
(* The invariant.                                                          *)

LEMMA InitInv == Init => IInv
<1> SUFFICES ASSUME Init PROVE IInv
  OBVIOUS
<1>1. TypeInv
  BY InitType, ConstantsAssumption
<1>2. StoreInv
  BY DEF Init, StoreInv, RowsExist, RunningIsLatest, DoneIsLatest, ApprovalIsKept,
         Succeeded, Exists, RunStatus
<1>3. ASSUME NEW r \in Runtimes PROVE CallInv(r)
  <2>1. call[r].pc = "idle" /\ call[r].target = "queued"
    BY IdleIs DEF Init
  <2> QED BY <2>1 DEF CallInv, CopyIsChecked, StartsNext, MovesOnFacts
<1> QED BY <1>1, <1>2, <1>3 DEF IInv

LEMMA ProceedInv ==
    ASSUME IInv, TypeInv', NEW r \in Runtimes, Proceed(r) PROVE IInv'
BY ReadRunInv, UpdateRunInv, StartAttemptInv, PersistConfirmationInv, FinishAttemptInv,
   CreateControlOperationInv, CompleteControlOperationInv, SupersedeConfirmationsInv,
   CancelInactiveStepInv, CheckResumableInv, ResetStepInv, ResolveConfirmationInv,
   ExpireReadInv, SettleStepInv, ClaimStaleRunInv, RecoverRunInv DEF Proceed

LEMMA CommandInv ==
    ASSUME IInv, TypeInv', NEW r \in Runtimes, Command(r) PROVE IInv'
<1>1. CASE CreateRun(r) \/ PauseForMemoryRevision(r) \/ DeleteRun(r)
  BY <1>1, CreateRunInv, PauseForMemoryRevisionInv, DeleteRunInv
<1>2. CASE \E o \in OpIds \cup {NoOp}, cmd \in Sent \cap {"pause", "cancel"} :
             RequestControl(r, cmd, o)
  BY <1>2, RequestControlInv
<1>3. CASE \E o \in OpIds \cup {NoOp}, cmd \in Sent \cap {"resume", "retry"} :
             RequestResume(r, cmd, o)
  BY <1>3, RequestResumeInv
<1>4. CASE \E o \in OpIds \cup {NoOp}, c \in DOMAIN confs,
              cmd \in Sent \cap {"approve", "reject"} :
             RequestResolution(r, cmd, o, c) \/ RepeatResolution(r, cmd, o, c)
  BY <1>4, RequestResolutionInv
<1> QED BY <1>1, <1>2, <1>3, <1>4 DEF Command

LEMMA NextInv == IInv /\ [Next]_vars => IInv'
<1> SUFFICES ASSUME IInv, [Next]_vars PROVE IInv'
  OBVIOUS
<1>1. TypeInv'
  BY TypeOfIInv, NextType, ConstantsAssumption
<1>2. ASSUME NEW r \in Runtimes, RegisterRuntime(r) PROVE IInv'
  BY <1>1, <1>2, RegisterRuntimeInv
<1>3. ASSUME NEW r \in Runtimes, Proceed(r) PROVE IInv'
  BY <1>1, <1>3, ProceedInv
<1>4. ASSUME NEW r \in Runtimes, Command(r) PROVE IInv'
  BY <1>1, <1>4, CommandInv
<1>5. ASSUME NEW r \in Runtimes, Body(r) PROVE IInv'
  BY <1>1, <1>5, BodyEndsInv, BodyStaysInv DEF Body
<1>6. ASSUME NEW r \in Runtimes, Heartbeat(r) PROVE IInv'
  BY <1>1, <1>6, LeaseInv, ExpireConfirmationInv DEF Heartbeat
<1>7. ASSUME NEW r \in Runtimes, Close(r) \/ Crash(r) PROVE IInv'
  BY <1>1, <1>7, CloseInv, CrashInv
<1>8. CASE Environment
  BY <1>1, <1>8, LeaseInv, ClockInv DEF Environment
<1>9. CASE UNCHANGED vars
  <2>1. UNCHANGED <<step, attempts, call, run, overdue, stepSeen, runSeen, confs>>
    BY <1>9 DEF vars
  <2>2. Exists' \/ (runSeen' = {} /\ attempts = <<>>)
    BY <2>1, NothingLeft DEF Exists
  <2> QED BY <1>1, <2>1, <2>2, CallsStayInv DEF Exists, Approved
<1> QED BY <1>2, <1>3, <1>4, <1>5, <1>6, <1>7, <1>8, <1>9 DEF Next

\* What the rows say about each other, and what every runtime inside a method
\* knows about them, holds in every reachable state.
THEOREM Invariance == Spec => []IInv
<1> QED BY InitInv, NextInv, PTL DEF Spec

-----------------------------------------------------------------------------
(* The safety properties that follow.                                      *)

\* However runtimes race, crash and recover, one attempt at most is running
\* and it is the latest.
THEOREM OneAttemptRuns == Spec => []OneRunningAttempt
<1>1. IInv => OneRunningAttempt
  BY DEF IInv, StoreInv, RunningIsLatest, OneRunningAttempt, RunningAttempts
<1> QED BY <1>1, Invariance, PTL

\* A completed run has a done step and exactly one successful attempt, its
\* latest: no fenced-out runtime completes a run, or works after completion.
THEOREM CompletionIsEarned == Spec => []CompletedIsDone
<1>1. IInv => CompletedIsDone
  <2> SUFFICES ASSUME IInv, run.status = "completed" PROVE CompletedIsDone
    BY DEF CompletedIsDone
  <2>1. Succeeded /\ step.status = "done"
    BY DEF IInv, StoreInv, DoneIsLatest
  <2>2. Len(attempts) \in DOMAIN attempts
    <3>1. Len(attempts) \in Nat /\ DOMAIN attempts = 1..Len(attempts)
      BY TypeOfIInv, Rows
    <3>2. Len(attempts) # 0
      BY <2>1, TypeOfIInv, EmptySeq DEF Succeeded, TypeOK
    <3> QED BY <3>1, <3>2
  <2> QED BY <2>1, <2>2 DEF CompletedIsDone, DoneAttempts, IInv, StoreInv, DoneIsLatest, Succeeded
<1> QED BY <1>1, Invariance, PTL

\* A step that asked for a confirmation is done only after an approval.
THEOREM DoneNeedsApproval == Spec => []DoneWasApproved
<1>1. IInv => DoneWasApproved
  <2> SUFFICES ASSUME IInv, step.status = "done", run.request.confirm
               PROVE  \E c \in DOMAIN confs : confs[c].status \in {"approved", "consumed"}
    BY DEF DoneWasApproved
  <2>1. Exists
    BY NothingLeft DEF IInv, StoreInv, DoneIsLatest, Succeeded
  <2> QED BY <2>1 DEF IInv, StoreInv, ApprovalIsKept, Approved
<1> QED BY <1>1, Invariance, PTL

-----------------------------------------------------------------------------
(* The status of a run, and the lifecycle it implements.                   *)

\* What a step does to the status of the run and to its attempts.
StatusStep ==
    \/ run.status = "absent" /\ run'.status = "queued" /\ UNCHANGED attempts
    \/ run.status \in RunTerminal /\ run'.status = "deleted" /\ attempts' = <<>>
    \/ /\ run.status \in RunStatus /\ run'.status \in RunTransitions[run.status]
       /\ run'.status = "completed" => Succeeded
       /\ UNCHANGED attempts
    \/ /\ MayOverrun /\ run.status \in RunStatus /\ run'.status = "paused"
       /\ UNCHANGED attempts
    \/ /\ run.status \in RunStatus /\ UNCHANGED run
       /\ RunningAttempts = {} /\ ~Succeeded
       /\ attempts' = Append(attempts, "running")
    \/ /\ run.status \in RunStatus /\ UNCHANGED run
       /\ attempts # <<>> /\ attempts[Len(attempts)] = "running"
       /\ \E end \in AttemptStatus \ {"running"} :
            attempts' = [attempts EXCEPT ![Len(attempts)] = end]
    \/ /\ run.status = "running" /\ run'.status = "paused"
       /\ attempts # <<>> /\ attempts[Len(attempts)] = "running"
       /\ attempts' = [attempts EXCEPT ![Len(attempts)] = "interrupted"]
    \/ run'.status = run.status /\ UNCHANGED attempts

LEMMA UpdateRunStatus ==
    ASSUME IInv, NEW r \in Runtimes, UpdateRun(r) PROVE StatusStep
<1>1. CASE run' = Updated(r) /\ CanUpdate(r)
  <2>1. run'.status = call[r].target /\ Exists
    BY <1>1, TypeOfIInv, UpdatedIs, SeenExists DEF CanUpdate
  <2>2. call[r].target = "completed" => Succeeded
    BY <2>1, CallOfIInv DEF MovesOnFacts, UpdateRun
  <2> QED BY <1>1, <2>1, <2>2 DEF UpdateRun, CanUpdate, RunMayBecome, StatusStep, Exists
<1>2. CASE UNCHANGED run
  BY <1>2 DEF UpdateRun, StatusStep
<1> QED BY <1>1, <1>2 DEF UpdateRun

LEMMA StartAttemptStatus ==
    ASSUME IInv, NEW r \in Runtimes, StartAttempt(r) PROVE StatusStep
<1>1. TypeOK /\ call[r].pc = "start"
  BY TypeOfIInv DEF StartAttempt
<1>2. ASSUME Exists, call[r].n \notin DOMAIN attempts
      PROVE  /\ Len(attempts) < MaxSteps
             /\ \A i \in DOMAIN attempts : attempts[i] # "running"
  <2>1. /\ call[r].n \in 1..MaxSteps /\ call[r].n <= Len(attempts) + 1
        /\ call[r].n = Len(attempts) + 1 =>
             \A i \in DOMAIN attempts : attempts[i] # "running"
    BY <1>1, <1>2, CallOfIInv DEF StartsNext
  <2>2. Len(attempts) \in Nat /\ DOMAIN attempts = 1..Len(attempts)
    BY <1>1, Rows
  <2>3. call[r].n = Len(attempts) + 1
    BY <1>2, <2>1, <2>2, ConstantsAssumption
  <2> QED BY <2>1, <2>2, <2>3, ConstantsAssumption
<1>3. CASE UNCHANGED <<run, attempts>>
  BY <1>3 DEF StatusStep
<1>4. CASE /\ Exists /\ call[r].n \notin DOMAIN attempts /\ Exhausted
           /\ run' = [run EXCEPT !.status = "paused"] /\ UNCHANGED attempts
  <2>1. run'.status = "paused"
    BY <1>1, <1>4 DEF TypeOK, RunRow
  <2>2. overdue
    <3>1. Len(attempts) \in Nat /\ Len(attempts) < MaxSteps
      BY <1>1, <1>2, <1>4, Rows
    <3> QED BY <1>4, <3>1, ConstantsAssumption DEF Exhausted
  <2>3. MayOverrun
    BY <2>2 DEF IInv, StoreInv, RowsExist
  <2> QED BY <1>4, <2>1, <2>3 DEF StatusStep, Exists
<1>5. CASE /\ Exists /\ call[r].n \notin DOMAIN attempts
           /\ step.status \in {"pending", "running"}
           /\ attempts' = Append(attempts, "running") /\ UNCHANGED run
  <2>1. RunningAttempts = {}
    BY <1>2, <1>5 DEF RunningAttempts
  <2>2. ~Succeeded
    BY <1>5 DEF IInv, StoreInv, DoneIsLatest
  <2> QED BY <1>5, <2>1, <2>2 DEF StatusStep, Exists
<1> QED BY <1>3, <1>4, <1>5 DEF StartAttempt

LEMMA FinishAttemptStatus ==
    ASSUME IInv, NEW r \in Runtimes, FinishAttempt(r) PROVE StatusStep
<1>1. CASE UNCHANGED attempts
  BY <1>1 DEF FinishAttempt, StatusStep
<1>2. CASE /\ active[r].attempt \in DOMAIN attempts
           /\ attempts[active[r].attempt] = "running"
           /\ attempts' = [attempts EXCEPT ![active[r].attempt] =
                             Outcome[call[r].target].attempt]
  <2>1. active[r].attempt = Len(attempts) /\ Exists /\ attempts # <<>>
    BY <1>2, NothingLeft DEF IInv, StoreInv, RunningIsLatest
  <2>2. Outcome[call[r].target].attempt \in AttemptStatus \ {"running"}
    BY CallOfIInv, OutcomeIs DEF FinishAttempt, CallShape
  <2> QED BY <1>2, <2>1, <2>2 DEF FinishAttempt, StatusStep, Exists
<1> QED BY <1>1, <1>2 DEF FinishAttempt

LEMMA ClaimStaleRunStatus ==
    ASSUME IInv, NEW r \in Runtimes, ClaimStaleRun(r) PROVE StatusStep
<1>1. CASE UNCHANGED <<run, attempts>>
  BY <1>1 DEF StatusStep
<1>2. CASE /\ run.status = "running"
           /\ run' = [run EXCEPT !.status = "paused", !.owner = r, !.leased = TRUE]
           /\ attempts' = [i \in DOMAIN attempts |->
                              IF attempts[i] = "running" THEN "interrupted"
                              ELSE attempts[i]]
  <2>1. run'.status = "paused"
    BY <1>2, TypeOfIInv DEF TypeOK, RunRow
  <2>2. /\ \A i \in DOMAIN attempts : attempts[i] = "running" => i = Len(attempts)
        /\ Len(attempts) \in Nat /\ DOMAIN attempts = 1..Len(attempts)
        /\ attempts \in Seq(AttemptStatus)
    BY TypeOfIInv, Rows DEF IInv, StoreInv, RunningIsLatest, TypeOK
  <2>3. CASE \E i \in DOMAIN attempts : attempts[i] = "running"
    <3>1. attempts # <<>> /\ attempts[Len(attempts)] = "running"
      BY <2>2, <2>3
    <3>2. attempts' = [attempts EXCEPT ![Len(attempts)] = "interrupted"]
      BY <1>2, <2>2, <3>1
    <3> QED BY <1>2, <2>1, <3>1, <3>2 DEF StatusStep
  <2>4. CASE \A i \in DOMAIN attempts : attempts[i] # "running"
    <3>1. attempts' = attempts
      BY <1>2, <2>2, <2>4
    <3>2. "paused" \in RunTransitions["running"] /\ "running" \in RunStatus
      BY DEF RunTransitions, RunStatus
    <3> QED BY <1>2, <2>1, <3>1, <3>2 DEF StatusStep
  <2> QED BY <2>3, <2>4
<1> QED BY <1>1, <1>2 DEF ClaimStaleRun

LEMMA DeleteRunStatus ==
    ASSUME IInv, NEW r \in Runtimes, DeleteRun(r) PROVE StatusStep
<1>1. run'.status = "deleted"
  BY TypeOfIInv DEF DeleteRun, TypeOK, RunRow
<1> QED BY <1>1 DEF DeleteRun, StatusStep

LEMMA CreateRunStatus ==
    ASSUME IInv, NEW r \in Runtimes, CreateRun(r) PROVE StatusStep
BY DEF CreateRun, StatusStep

\* Every other step leaves the status and the attempts alone.
LEMMA StatusStays == ASSUME run'.status = run.status, UNCHANGED attempts PROVE StatusStep
BY DEF StatusStep

LEMMA ProceedStatus ==
    ASSUME IInv, NEW r \in Runtimes, Proceed(r) PROVE StatusStep
<1>1. CASE UpdateRun(r)     BY <1>1, UpdateRunStatus
<1>2. CASE StartAttempt(r)  BY <1>2, StartAttemptStatus
<1>3. CASE FinishAttempt(r) BY <1>3, FinishAttemptStatus
<1>4. CASE ClaimStaleRun(r) BY <1>4, ClaimStaleRunStatus
<1>5. CASE ReadRun(r) \/ CheckResumable(r) \/ ExpireRead(r) \/ RecoverRun(r)
  BY <1>5, StatusStays DEF ReadRun, CheckResumable, ExpireRead, RecoverRun, store
<1>6. CASE PersistConfirmation(r) \/ CreateControlOperation(r) \/ CompleteControlOperation(r)
  BY <1>6, StatusStays DEF PersistConfirmation, CreateControlOperation,
                           CompleteControlOperation
<1>7. CASE SupersedeConfirmations(r) \/ CancelInactiveStep(r) \/ ResetStep(r)
  BY <1>7, StatusStays DEF SupersedeConfirmations, CancelInactiveStep, ResetStep
<1>8. CASE ResolveConfirmation(r) \/ SettleStep(r)
  BY <1>8, StatusStays DEF ResolveConfirmation, SettleStep
<1> QED BY <1>1, <1>2, <1>3, <1>4, <1>5, <1>6, <1>7, <1>8 DEF Proceed

LEMMA CommandStatus ==
    ASSUME NEW r \in Runtimes, IInv, Command(r) PROVE StatusStep
<1>1. CASE CreateRun(r)              BY <1>1, CreateRunStatus
<1>2. CASE DeleteRun(r)              BY <1>2, DeleteRunStatus
<1>3. CASE PauseForMemoryRevision(r) BY <1>3, StatusStays DEF PauseForMemoryRevision, store
<1>4. CASE ~(CreateRun(r) \/ DeleteRun(r) \/ PauseForMemoryRevision(r))
  BY <1>4, StatusStays DEF Command, RequestControl, RequestResume, RequestResolution,
                           RepeatResolution, Enter, store
<1> QED BY <1>1, <1>2, <1>3, <1>4

LEMMA NextStatus == ASSUME IInv, [Next]_vars PROVE StatusStep
<1>1. ASSUME NEW r \in Runtimes, RegisterRuntime(r) \/ Close(r) \/ Crash(r) PROVE StatusStep
  BY <1>1, StatusStays DEF RegisterRuntime, Close, Crash, store
<1>2. ASSUME NEW r \in Runtimes, Body(r) PROVE StatusStep
  BY <1>2, StatusStays DEF Body, BodyReturns, BodyThrows, RecordProgress,
                           ModelBudgetRefused, ConsumeReceipt, store
<1>3. ASSUME NEW r \in Runtimes, Heartbeat(r) PROVE StatusStep
  <2>1. CASE RenewLease(r)
    <3>1. run'.status = run.status /\ UNCHANGED attempts
      BY <2>1, TypeOfIInv DEF RenewLease, TypeOK, RunRow
    <3> QED BY <3>1, StatusStays
  <2>2. CASE \E c \in DOMAIN confs : ExpireConfirmation(r, c)
    BY <2>2, StatusStays DEF ExpireConfirmation
  <2> QED BY <1>3, <2>1, <2>2 DEF Heartbeat
<1>4. CASE Environment
  <2>1. CASE LeaseLapses
    <3>1. run'.status = run.status /\ UNCHANGED attempts
      BY <2>1, TypeOfIInv DEF LeaseLapses, TypeOK, RunRow
    <3> QED BY <3>1, StatusStays
  <2>2. CASE DeadlinePasses \/ \E c \in DOMAIN confs : ConfirmationLapses(c)
    BY <2>2, StatusStays DEF DeadlinePasses, ConfirmationLapses
  <2> QED BY <1>4, <2>1, <2>2 DEF Environment
<1>5. CASE UNCHANGED vars
  BY <1>5, StatusStays DEF vars
<1> QED BY <1>1, <1>2, <1>3, <1>4, <1>5, ProceedStatus, CommandStatus DEF Next

\* While no deadline passes, every change of a run's status is one that the
\* transition table allows, also those the store writes without asserting it.
THEOREM StatusFollowsTable == ~MayOverrun => (Spec => RunFollowsTable)
<1> SUFFICES ASSUME ~MayOverrun PROVE Spec => RunFollowsTable
  OBVIOUS
<1> DEFINE A == run'.status \in RunStatus /\ run.status \in RunStatus =>
                  RunMayBecome(run.status, run'.status)
<1>1. IInv /\ [Next]_vars => [A]_vars
  <2> SUFFICES ASSUME IInv, [Next]_vars, run'.status \in RunStatus, run.status \in RunStatus
               PROVE  RunMayBecome(run.status, run'.status)
    OBVIOUS
  <2>1. StatusStep
    BY NextStatus
  <2>2. "paused" \in RunTransitions["running"]
    BY DEF RunTransitions
  <2>3. "absent" \notin RunStatus /\ "deleted" \notin RunStatus
    BY DEF RunStatus
  <2> QED BY <2>1, <2>2, <2>3 DEF StatusStep, RunMayBecome
<1> QED BY <1>1, Invariance, PTL DEF Spec, RunFollowsTable

\* The coordinator implements the lifecycle of a run: whatever its runtimes
\* do, watchers see attempts one at a time, none after a success, and a
\* completion only after a success.
THEOREM LifecycleImplemented == Spec => ImplementsLifecycle
<1>1. Init => Lifecycle!Init
  BY DEF Init, Lifecycle!Init
<1>2. IInv /\ [Next]_vars => [Lifecycle!Next]_(Lifecycle!vars)
  <2> SUFFICES ASSUME IInv, [Next]_vars
               PROVE  Lifecycle!Next \/ UNCHANGED Lifecycle!vars
    OBVIOUS
  <2>1. StatusStep /\ TypeOK
    BY NextStatus, TypeOfIInv
  <2>2. /\ Lifecycle!RunStatus = RunStatus /\ Lifecycle!RunTransitions = RunTransitions
        /\ Lifecycle!RunTerminal = RunTerminal /\ Lifecycle!AttemptStatus = AttemptStatus
    BY DEF RunStatus, RunTransitions, RunTerminal, AttemptStatus, Lifecycle!RunStatus,
           Lifecycle!RunTransitions, Lifecycle!RunTerminal, Lifecycle!AttemptStatus
  <2>3. Len(attempts) \in Nat /\ DOMAIN attempts = 1..Len(attempts)
        /\ (Len(attempts) > 0 <=> attempts # <<>>)
    BY <2>1, Rows, EmptySeq DEF TypeOK
  <2>4. Lifecycle!Last = Len(attempts)
    BY DEF Lifecycle!Last
  <2>5. Lifecycle!Succeeded <=> Succeeded
    BY <2>3, <2>4 DEF Lifecycle!Succeeded, Succeeded
  <2>6. Lifecycle!Working <=> attempts # <<>> /\ attempts[Len(attempts)] = "running"
    BY <2>3, <2>4 DEF Lifecycle!Working
  <2>7. \A end : Lifecycle!Ended(end) = [attempts EXCEPT ![Len(attempts)] = end]
    BY <2>4 DEF Lifecycle!Ended
  <2>8. CASE run.status = "absent" /\ run'.status = "queued" /\ UNCHANGED attempts
    BY <2>8 DEF Lifecycle!Next, Lifecycle!Submit
  <2>9. CASE run.status \in RunTerminal /\ run'.status = "deleted" /\ attempts' = <<>>
    BY <2>2, <2>9 DEF Lifecycle!Next, Lifecycle!Delete
  <2>10. CASE /\ run.status \in RunStatus /\ run'.status \in RunTransitions[run.status]
              /\ run'.status = "completed" => Succeeded
              /\ UNCHANGED attempts
    BY <2>2, <2>5, <2>10 DEF Lifecycle!Next, Lifecycle!Move
  <2>11. CASE /\ MayOverrun /\ run.status \in RunStatus /\ run'.status = "paused"
              /\ UNCHANGED attempts
    BY <2>2, <2>11 DEF Lifecycle!Next, Lifecycle!Overrun
  <2>12. CASE /\ run.status \in RunStatus /\ UNCHANGED run
              /\ RunningAttempts = {} /\ ~Succeeded
              /\ attempts' = Append(attempts, "running")
    <3>1. ~Lifecycle!Working /\ ~Lifecycle!Succeeded
      BY <2>3, <2>5, <2>6, <2>12 DEF RunningAttempts
    <3> QED BY <2>2, <2>12, <3>1 DEF Lifecycle!Next, Lifecycle!Begin
  <2>13. CASE /\ run.status \in RunStatus /\ UNCHANGED run
              /\ attempts # <<>> /\ attempts[Len(attempts)] = "running"
              /\ \E end \in AttemptStatus \ {"running"} :
                   attempts' = [attempts EXCEPT ![Len(attempts)] = end]
    BY <2>2, <2>6, <2>7, <2>13 DEF Lifecycle!Next, Lifecycle!End
  <2>14. CASE /\ run.status = "running" /\ run'.status = "paused"
              /\ attempts # <<>> /\ attempts[Len(attempts)] = "running"
              /\ attempts' = [attempts EXCEPT ![Len(attempts)] = "interrupted"]
    BY <2>6, <2>7, <2>14 DEF Lifecycle!Next, Lifecycle!Recover
  <2>15. CASE run'.status = run.status /\ UNCHANGED attempts
    BY <2>15 DEF Lifecycle!vars
  <2> QED BY <2>1, <2>8, <2>9, <2>10, <2>11, <2>12, <2>13, <2>14, <2>15 DEF StatusStep
<1> QED BY <1>1, <1>2, Invariance, PTL DEF Spec, ImplementsLifecycle, Lifecycle!Spec

-----------------------------------------------------------------------------
(* Runtimes that do not overlap.  Then what one of them is about to do is  *)
(* still due when it does it, wherever earlier ones crashed.               *)

\* One runtime is up, and no other is inside a method or holds an execution.
OneUp ==
    /\ \A r, q \in Runtimes : life[r] = "up" /\ life[q] = "up" => r = q
    /\ \A r \in Runtimes : life[r] # "up" => call[r].pc = "idle" /\ ~IsActive(r)

Settled == {"done", "failed", "skipped", "cancelled"}

\* The rows of a cancelled run, and of one that is not there yet.
RowsFit == CancelledIsSettled /\ (run.status = "absent" => step.status = "pending")

\* The run of an execution is at work, and so is its step until the attempt ends;
\* of the methods that write the run's status, only those that know of the
\* execution are entered.
ExecutionFits(r) ==
    LET c == call[r] IN
    IsActive(r) =>
        /\ run.status \in {"running", "cancelling"}
        /\ \A i \in DOMAIN attempts :
             i = active[r].attempt /\ attempts[i] = "running" => step.status = "running"
        /\ c.pc \notin {"claim", "start", "supersede", "cancelStep"}
        /\ c.pc \in {"read", "cas"} => c.cmd # "begin"
        /\ \/ c.pc \in {"read", "cas"} /\ c.cmd \notin Settling
           \/ c.pc = "op" /\ c.cmd \in {"pause", "cancel"}
           => c.target \in {"running", "cancelling"}

\* The status a method found is the one it replaces.
StatusIsFound(r) ==
    LET c == call[r] IN
    /\ \/ c.pc = "op" /\ c.cmd \in Resuming /\ c.verdict = "applied"
       \/ c.pc \in {"recover", "check", "reset"}
       \/ c.pc = "cas" /\ c.cmd \in Resuming
       => run.status \in {"paused", "failed"}
    /\ c.pc = "start" => run.status = "running"
    /\ \/ c.pc = "op" /\ c.cmd \in Resolving /\ c.conf # 0
       \/ c.pc \in {"resolve", "settle"}
       \/ c.pc = "cas" /\ c.cmd \in Resolving
       => run.status = "waiting_confirmation"
    /\ c.pc = "read" => c.cmd \notin Resolving
    /\ c.pc \in {"supersede", "cancelStep"} =>
         c.cmd = "cancel" /\ run.status = "cancelling" /\ r \in stepSeen

\* The attempt a method is about to start is a new one, and a cancel settles the
\* step before the run.
StepIsFound(r) ==
    LET c == call[r] IN
    /\ \/ c.pc \in {"reset", "start"}
       \/ c.pc = "cas" /\ c.cmd \in Resuming /\ c.target = "running"
       => c.n \notin DOMAIN attempts
    /\ c.pc \in {"read", "cas"} /\ c.cmd = "begin" => attempts = <<>>
    /\ \/ c.pc \in {"read", "cas"}
       \/ c.pc = "op" /\ c.cmd \in {"pause", "cancel"}
       => (c.target = "cancelled" => step.status \in Settled)

Fits(r) == ExecutionFits(r) /\ StatusIsFound(r) /\ StepIsFound(r)

AloneInv == OneUp /\ RowsFit /\ \A r \in Runtimes : Fits(r)

-----------------------------------------------------------------------------
(* What a step of the runtime that is up leaves alone.                     *)

ActsAlone(r) ==
    /\ OnlyCallOf(r)
    /\ \A q \in Runtimes \ {r} : active'[q] = active[q] /\ life'[q] = life[q]

\* Points of a method that rest on nothing it found.
Calm(c) ==
    \/ c.pc \in {"idle", "done", "confirm", "finish", "expireRead"}
    \/ c.pc = "read" /\ c.cmd \in Settling /\ c.target # "cancelled"

LEMMA InsideIsUp ==
    ASSUME AloneInv, NEW r \in Runtimes, call[r].pc # "idle" \/ IsActive(r)
    PROVE  life[r] = "up"
BY DEF AloneInv, OneUp

LEMMA AloneStep ==
    ASSUME TypeOK, AloneInv, NEW r \in Runtimes, life[r] = "up", ActsAlone(r),
           life'[r] = "up" \/ (call'[r].pc = "idle" /\ ~IsActive(r)'),
           RowsFit', Fits(r)'
    PROVE  AloneInv'
<1>1. ASSUME NEW q \in Runtimes, q # r
      PROVE  life'[q] # "up" /\ call'[q].pc = "idle" /\ ~IsActive(q)'
  BY <1>1 DEF AloneInv, OneUp, ActsAlone, OnlyCallOf, IsActive
<1>2. OneUp'
  BY <1>1 DEF OneUp
<1>3. ASSUME NEW q \in Runtimes, q # r PROVE Fits(q)'
  <2>1. ~IsActive(q)' /\ call'[q].pc = "idle"
    BY <1>1, <1>3
  <2> QED BY <2>1 DEF Fits, ExecutionFits, StatusIsFound, StepIsFound
<1> QED BY <1>2, <1>3 DEF AloneInv

\* An execution keeps its attempt, or there is none.
ExecutionStays(r) ==
    IsActive(r)' => /\ IsActive(r) /\ active'[r].attempt = active[r].attempt
                    /\ run'.status = run.status \/ run'.status \in {"running", "cancelling"}
                    /\ UNCHANGED <<step, attempts>>

LEMMA CalmFits ==
    ASSUME AloneInv, NEW r \in Runtimes, Calm(call'[r]), ExecutionStays(r)
    PROVE  Fits(r)'
<1>1. StatusIsFound(r)' /\ StepIsFound(r)'
  BY DEF Calm, StatusIsFound, StepIsFound, Settling, Resuming, Resolving
<1>2. ExecutionFits(r)'
  BY DEF AloneInv, Fits, ExecutionFits, ExecutionStays, Calm, Settling
<1> QED BY <1>1, <1>2 DEF Fits

LEMMA RowsStayFit ==
    ASSUME AloneInv, run'.status = run.status, step'.status = step.status PROVE RowsFit'
BY DEF AloneInv, RowsFit, CancelledIsSettled

\* A method that ends, or throws, where the rows stay.
LEMMA ReturnAlone ==
    ASSUME TypeOK, NEW r \in Runtimes, Return(r), UNCHANGED <<active, life>>
    PROVE  ActsAlone(r) /\ Calm(call'[r])
BY ReturnIs DEF ActsAlone, Calm

LEMMA FinishedAlone ==
    ASSUME TypeOK, NEW r \in Runtimes, NEW v \in OpStatus, Finished(r, v),
           UNCHANGED <<active, life>>
    PROVE  ActsAlone(r) /\ Calm(call'[r])
BY FinishedIs DEF ActsAlone, Calm

LEMMA ThrowAlone ==
    ASSUME TypeOK, NEW r \in Runtimes, life[r] = "up", Throw(r)
    PROVE  /\ ActsAlone(r) /\ Calm(call'[r])
           /\ life'[r] = "up" \/ (call'[r].pc = "idle" /\ ~IsActive(r)')
           /\ IsActive(r)' => IsActive(r) /\ active'[r].attempt = active[r].attempt
<1>1. OnlyCallOf(r) /\ Calm(call'[r])
  <2>1. "fail" \in Settling
    BY DEF Settling
  <2> QED BY <2>1, ThrowIs DEF Calm
<1>2. active \in [Runtimes -> Execution] /\ life \in [Runtimes -> {"new", "up", "down"}]
  BY DEF TypeOK
<1>3. CASE UNCHANGED <<active, life>>
  BY <1>1, <1>3 DEF ActsAlone, IsActive
<1>4. CASE active' = [active EXCEPT ![r].body = "lost"] /\ UNCHANGED life
  BY <1>1, <1>2, <1>4 DEF ActsAlone, IsActive, Execution
<1>5. CASE /\ active' = [active EXCEPT ![r] = NoExecution]
           /\ life' = [life EXCEPT ![r] = "down"] /\ Return(r)
  BY <1>1, <1>2, <1>5, ReturnIs DEF ActsAlone, IsActive, NoExecution
<1> QED BY <1>3, <1>4, <1>5 DEF Throw

LEMMA CalmStep ==
    ASSUME TypeOK, AloneInv, NEW r \in Runtimes, life[r] = "up", ActsAlone(r),
           life'[r] = "up" \/ (call'[r].pc = "idle" /\ ~IsActive(r)'),
           RowsFit', Calm(call'[r]), ExecutionStays(r)
    PROVE  AloneInv'
BY CalmFits, AloneStep

LEMMA ThrowStep ==
    ASSUME TypeOK, AloneInv, NEW r \in Runtimes, life[r] = "up", Throw(r), RowsFit',
           IsActive(r) => run'.status = run.status /\ UNCHANGED <<step, attempts>>
    PROVE  AloneInv'
<1>1. ExecutionStays(r)
  BY ThrowAlone DEF ExecutionStays
<1> QED BY <1>1, ThrowAlone, CalmStep

\* Steps in which no method goes on.
LEMMA CallsStayAlone ==
    ASSUME AloneInv, UNCHANGED <<call, life, step, attempts>>, run'.status = run.status,
           stepSeen' = stepSeen,
           \A q \in Runtimes : active'[q].attempt = active[q].attempt
    PROVE  AloneInv'
<1>1. OneUp' /\ RowsFit'
  BY RowsStayFit DEF AloneInv, OneUp, IsActive
<1>2. ASSUME NEW q \in Runtimes PROVE Fits(q)'
  <2>1. ExecutionFits(q)'
    BY DEF AloneInv, Fits, ExecutionFits, IsActive
  <2>2. StatusIsFound(q)' /\ StepIsFound(q)'
    BY DEF AloneInv, Fits, StatusIsFound, StepIsFound
  <2> QED BY <2>1, <2>2 DEF Fits
<1> QED BY <1>1, <1>2 DEF AloneInv

-----------------------------------------------------------------------------
(* The transactions of a method.                                           *)

LEMMA FitsOf ==
    ASSUME AloneInv, NEW r \in Runtimes
    PROVE  ExecutionFits(r) /\ StatusIsFound(r) /\ StepIsFound(r)
BY DEF AloneInv, Fits

LEMMA ReadRunAlone ==
    ASSUME IInv, AloneInv, NEW r \in Runtimes, ReadRun(r) PROVE AloneInv'
<1>1. /\ TypeOK /\ TypeInv /\ call[r].pc = "read" /\ life[r] = "up"
      /\ UNCHANGED <<run, step, attempts>>
  BY TypeOfIInv, InsideIsUp DEF ReadRun, store
<1>2. RowsFit'
  BY <1>1, RowsStayFit
<1>3. CASE Throw(r)
  BY <1>1, <1>2, <1>3, ThrowStep
<1>4. CASE Goto(r, "finish", call[r].cmd, "cancelled") /\ UNCHANGED <<active, life>>
  <2>1. ActsAlone(r) /\ Calm(call'[r]) /\ ExecutionStays(r) /\ life'[r] = "up"
    BY <1>1, <1>4, GotoIs, CallFields, Names DEF ActsAlone, Calm, ExecutionStays, IsActive
  <2> QED BY <1>1, <1>2, <2>1, CalmStep
<1>5. CASE Goto(r, "cas", call[r].cmd, call[r].target) /\ UNCHANGED <<active, life>>
  <2>1. /\ OnlyCallOf(r) /\ call'[r].pc = "cas" /\ call'[r].cmd = call[r].cmd
        /\ call'[r].target = call[r].target
    BY <1>1, <1>5, GotoIs, CallFields, Names
  <2>2. call[r].cmd \notin Resuming
    BY <1>1, CallOfIInv DEF CallShape
  <2>3. ExecutionFits(r)'
    BY <1>1, <1>5, <2>1, FitsOf DEF ExecutionFits, IsActive
  <2>4. StatusIsFound(r)' /\ StepIsFound(r)'
    BY <1>1, <2>1, <2>2, FitsOf DEF StatusIsFound, StepIsFound
  <2> QED BY <1>1, <1>2, <1>5, <2>1, <2>3, <2>4, AloneStep DEF ActsAlone, Fits
<1> QED BY <1>3, <1>4, <1>5 DEF ReadRun

LEMMA UpdateRunAlone ==
    ASSUME IInv, AloneInv, NEW r \in Runtimes, UpdateRun(r) PROVE AloneInv'
<1>1. /\ TypeOK /\ TypeInv /\ call[r].pc = "cas" /\ life[r] = "up"
      /\ UNCHANGED <<step, attempts>> /\ call[r].target \in RunStatus
      /\ active \in [Runtimes -> Execution] /\ life \in [Runtimes -> {"new", "up", "down"}]
  BY TypeOfIInv, InsideIsUp, CallFields DEF UpdateRun, TypeOK
<1>2. CASE CanUpdate(r) /\ run' = Updated(r) /\ AfterUpdate(r)
  <2>1. run'.status = call[r].target
    BY <1>1, <1>2, UpdatedIs
  <2>2. RowsFit'
    <3>1. call[r].target = "cancelled" => step.status \in Settled
      BY <1>1, FitsOf DEF StepIsFound
    <3>2. call[r].target # "absent"
      BY <1>1 DEF RunStatus
    <3> QED BY <1>1, <2>1, <3>1, <3>2 DEF RowsFit, CancelledIsSettled, Settled
  <2>3. IsActive(r) => /\ call[r].cmd # "begin"
                       /\ call[r].cmd \notin Settling => call[r].target \in {"running", "cancelling"}
                       /\ call[r].cmd \notin Resuming \cup Resolving
    BY <1>1, FitsOf DEF ExecutionFits, StatusIsFound
  <2>4. CASE call[r].cmd = "begin" /\ Goto(r, "read", "begin", "running") /\ UNCHANGED <<active, life>>
    <3>1. /\ OnlyCallOf(r) /\ call'[r].pc = "read" /\ call'[r].cmd = "begin"
          /\ call'[r].target = "running"
      BY <1>1, <2>4, GotoIs, Names
    <3>2. Fits(r)'
      BY <1>1, <2>3, <2>4, <3>1, FitsOf DEF Fits, ExecutionFits, StatusIsFound, StepIsFound,
                                            IsActive, Resuming, Resolving
    <3> QED BY <1>1, <2>2, <2>4, <3>1, <3>2, AloneStep DEF ActsAlone
  <2>5. CASE /\ call[r].cmd = "begin" /\ call[r].target = "running" /\ UNCHANGED <<active, life>>
             /\ call' = [call EXCEPT ![r] = [@ EXCEPT !.pc = "start", !.n = 1]]
    <3>1. OnlyCallOf(r) /\ call'[r].pc = "start" /\ call'[r].n = 1
      BY <1>1, <2>5 DEF TypeOK, Call, OnlyCallOf, ProgramPoints
    <3>2. 1 \notin DOMAIN attempts
      BY <1>1, <2>5, FitsOf DEF StepIsFound
    <3>3. ~IsActive(r)' /\ life'[r] = "up"
      BY <1>1, <2>3, <2>5 DEF IsActive
    <3>4. Fits(r)'
      BY <1>1, <2>1, <2>5, <3>1, <3>2, <3>3 DEF Fits, ExecutionFits, StatusIsFound, StepIsFound
    <3> QED BY <1>1, <2>2, <2>5, <3>1, <3>3, <3>4, AloneStep DEF ActsAlone
  <2>6. CASE /\ call[r].cmd \in Settling /\ call[r].target = "cancelling"
             /\ Goto(r, "finish", call[r].cmd, "cancelled") /\ UNCHANGED <<active, life>>
    <3>1. ActsAlone(r) /\ Calm(call'[r]) /\ ExecutionStays(r) /\ life'[r] = "up"
      BY <1>1, <2>1, <2>6, GotoIs, CallFields, Names DEF ActsAlone, Calm, ExecutionStays, IsActive
    <3> QED BY <1>1, <2>2, <3>1, CalmStep
  <2>7. CASE /\ active' = [active EXCEPT ![r] = NoExecution] /\ Return(r)
             /\ life' = life \/ life' = [life EXCEPT ![r] = "down"]
    <3>1. OnlyCallOf(r) /\ Calm(call'[r]) /\ call'[r].pc = "idle"
      BY <1>1, <2>7, ReturnIs DEF Calm
    <3>2. ~IsActive(r)' /\ ActsAlone(r)
      BY <1>1, <2>7, <3>1 DEF IsActive, NoExecution, ActsAlone
    <3> QED BY <1>1, <2>2, <3>1, <3>2, CalmStep DEF ExecutionStays
  <2>8. CASE /\ call[r].target = "cancelling" /\ UNCHANGED life /\ Finished(r, "applied")
             /\ active' = [active EXCEPT ![r].control = "cancel"]
    <3>1. OnlyCallOf(r) /\ Calm(call'[r])
      BY <1>1, <2>8, FinishedIs, Names DEF Calm
    <3>2. active'[r].attempt = active[r].attempt /\ ActsAlone(r)
      BY <1>1, <2>8, <3>1 DEF Execution, ActsAlone
    <3>3. ExecutionStays(r) /\ life'[r] = "up"
      BY <1>1, <2>1, <2>8, <3>2 DEF ExecutionStays, IsActive
    <3> QED BY <1>1, <2>2, <3>1, <3>2, <3>3, CalmStep
  <2>9. CASE /\ call[r].cmd = "cancel" /\ call[r].target = "cancelling" /\ ~IsActive(r)
             /\ Goto(r, "supersede", call[r].cmd, "cancelled") /\ UNCHANGED <<active, life>>
    <3>1. /\ OnlyCallOf(r) /\ call'[r].pc = "supersede" /\ call'[r].cmd = "cancel"
          /\ ~IsActive(r)' /\ life'[r] = "up"
      BY <1>1, <2>9, GotoIs, CallFields, Names DEF IsActive
    <3>2. r \in stepSeen'
      BY <1>1, <1>2, <2>9 DEF UpdateRun
    <3>3. Fits(r)'
      BY <2>1, <2>9, <3>1, <3>2 DEF Fits, ExecutionFits, StatusIsFound, StepIsFound
    <3> QED BY <1>1, <2>2, <2>9, <3>1, <3>3, AloneStep DEF ActsAlone
  <2>10. CASE /\ call[r].cmd \in Resuming /\ call[r].target = "running"
              /\ Goto(r, "start", call[r].cmd, "running") /\ UNCHANGED <<active, life>>
    <3>1. /\ OnlyCallOf(r) /\ call'[r].pc = "start" /\ call'[r].n = call[r].n
          /\ ~IsActive(r)' /\ life'[r] = "up"
      BY <1>1, <2>3, <2>10, GotoIs, CallFields, Names DEF IsActive
    <3>2. call[r].n \notin DOMAIN attempts
      BY <1>1, <2>10, FitsOf DEF StepIsFound
    <3>3. Fits(r)'
      BY <1>1, <2>1, <2>10, <3>1, <3>2 DEF Fits, ExecutionFits, StatusIsFound, StepIsFound
    <3> QED BY <1>1, <2>2, <2>10, <3>1, <3>3, AloneStep DEF ActsAlone
  <2>11. CASE /\ Finished(r, "failed") \/ Finished(r, "applied")
              /\ UNCHANGED <<active, life>> /\ call[r].cmd \notin Settling
    <3>1. ActsAlone(r) /\ Calm(call'[r]) /\ life'[r] = "up"
      BY <1>1, <2>11, FinishedAlone, Names
    <3>2. ExecutionStays(r)
      BY <1>1, <2>1, <2>3, <2>11 DEF ExecutionStays, IsActive
    <3> QED BY <1>1, <2>2, <3>1, <3>2, CalmStep
  <2> QED BY <1>2, <2>4, <2>5, <2>6, <2>7, <2>8, <2>9, <2>10, <2>11
          DEF AfterUpdate, Settling, Resuming, Resolving
<1>3. CASE Throw(r) /\ UNCHANGED run
  BY <1>1, <1>3, RowsStayFit, ThrowStep
<1> QED BY <1>2, <1>3 DEF UpdateRun

LEMMA StartAttemptAlone ==
    ASSUME IInv, AloneInv, NEW r \in Runtimes, StartAttempt(r) PROVE AloneInv'
<1>1. /\ TypeOK /\ TypeInv /\ call[r].pc = "start" /\ life[r] = "up"
      /\ active \in [Runtimes -> Execution]
  BY TypeOfIInv, InsideIsUp DEF StartAttempt, TypeOK
<1>2. run.status = "running" /\ ~IsActive(r) /\ call[r].n \notin DOMAIN attempts
  BY <1>1, FitsOf DEF ExecutionFits, StatusIsFound, StepIsFound
<1>3. CASE Throw(r) /\ UNCHANGED step /\ (UNCHANGED run \/ run' = [run EXCEPT !.status = "paused"])
  <2>1. RowsFit'
    BY <1>1, <1>2, <1>3 DEF RowsFit, CancelledIsSettled, TypeOK, RunRow
  <2> QED BY <1>1, <1>2, <1>3, <2>1, ThrowStep
<1>4. CASE /\ Started(r) /\ UNCHANGED run /\ step' = [step EXCEPT !.status = "running"]
  <2>1. OnlyCallOf(r) /\ Calm(call'[r])
    BY <1>1, <1>4, ReturnIs, FinishedIs, Names DEF Started, Calm
  <2>2. ActsAlone(r) /\ life'[r] = "up"
    BY <1>1, <1>4, <2>1 DEF Started, ActsAlone
  <2>3. RowsFit' /\ step'.status = "running"
    BY <1>1, <1>2, <1>4 DEF RowsFit, CancelledIsSettled, TypeOK, StepRow
  <2>4. Fits(r)'
    BY <1>2, <1>4, <2>1, <2>3 DEF Fits, ExecutionFits, StatusIsFound, StepIsFound, Calm,
                                  Settling, Resuming, Resolving
  <2> QED BY <1>1, <2>2, <2>3, <2>4, AloneStep
<1> QED BY <1>2, <1>3, <1>4 DEF StartAttempt

LEMMA FinishAttemptAlone ==
    ASSUME IInv, AloneInv, NEW r \in Runtimes, FinishAttempt(r) PROVE AloneInv'
<1>1. /\ TypeOK /\ TypeInv /\ call[r].pc = "finish" /\ life[r] = "up" /\ UNCHANGED run
  BY TypeOfIInv, InsideIsUp DEF FinishAttempt
<1>2. call[r].cmd \in Settling /\ call[r].target \in DOMAIN Outcome
  BY <1>1, CallOfIInv DEF CallShape
<1> DEFINE n == active[r].attempt
           o == Outcome[call[r].target]
<1>3. CASE /\ n \in DOMAIN attempts /\ attempts' = [attempts EXCEPT ![n] = o.attempt]
           /\ step' = [step EXCEPT !.status = o.step]
           /\ Goto(r, "read", call[r].cmd, call[r].target) /\ UNCHANGED <<active, life>>
  <2>1. /\ OnlyCallOf(r) /\ call'[r].pc = "read" /\ call'[r].cmd = call[r].cmd
        /\ call'[r].target = call[r].target
    BY <1>1, <1>3, GotoIs, CallFields, Names
  <2>2. IsActive(r) /\ run.status \in {"running", "cancelling"}
    BY <1>1, <1>3, Rows, FitsOf DEF IsActive, ExecutionFits
  <2>3. /\ step'.status = o.step /\ o.attempt # "running"
        /\ call[r].target = "cancelled" => o.step = "cancelled"
    BY <1>1, <1>2, <1>3 DEF TypeOK, StepRow, Outcome
  <2>4. attempts'[n] = o.attempt
    BY <1>3
  <2>5. RowsFit'
    BY <1>1, <2>2 DEF RowsFit, CancelledIsSettled
  <2>6. ExecutionFits(r)'
    BY <1>1, <1>2, <1>3, <2>1, <2>2, <2>3, <2>4 DEF ExecutionFits, Settling
  <2>7. StatusIsFound(r)' /\ StepIsFound(r)'
    BY <1>2, <2>1, <2>3 DEF StatusIsFound, StepIsFound, Settling, Resolving, Settled
  <2> QED BY <1>1, <1>3, <2>1, <2>5, <2>6, <2>7, AloneStep DEF ActsAlone, Fits
<1>4. CASE Throw(r) /\ UNCHANGED <<attempts, step>>
  BY <1>1, <1>4, RowsStayFit, ThrowStep
<1> QED BY <1>3, <1>4 DEF FinishAttempt

LEMMA PersistConfirmationAlone ==
    ASSUME IInv, AloneInv, NEW r \in Runtimes, PersistConfirmation(r) PROVE AloneInv'
<1>1. /\ TypeOK /\ TypeInv /\ call[r].pc = "confirm" /\ life[r] = "up"
      /\ UNCHANGED <<run, step, attempts>>
  BY TypeOfIInv, InsideIsUp DEF PersistConfirmation
<1>2. RowsFit'
  BY <1>1, RowsStayFit
<1>3. CASE Throw(r)
  BY <1>1, <1>2, <1>3, ThrowStep
<1>4. CASE Goto(r, "finish", call[r].cmd, call[r].target) /\ UNCHANGED <<active, life>>
  <2>1. ActsAlone(r) /\ Calm(call'[r]) /\ ExecutionStays(r) /\ life'[r] = "up"
    BY <1>1, <1>4, GotoIs, CallFields, Names DEF ActsAlone, Calm, ExecutionStays, IsActive
  <2> QED BY <1>1, <1>2, <2>1, CalmStep
<1> QED BY <1>3, <1>4 DEF PersistConfirmation

LEMMA CreateControlOperationAlone ==
    ASSUME IInv, AloneInv, NEW r \in Runtimes, CreateControlOperation(r) PROVE AloneInv'
<1>1. /\ TypeOK /\ TypeInv /\ call[r].pc = "op" /\ life[r] = "up"
      /\ UNCHANGED <<run, step, attempts>> /\ active \in [Runtimes -> Execution]
  BY TypeOfIInv, InsideIsUp DEF CreateControlOperation, TypeOK
<1>2. RowsFit'
  BY <1>1, RowsStayFit
<1>3. CASE Throw(r)
  BY <1>1, <1>2, <1>3, ThrowStep
<1>4. CASE Finished(r, call[r].verdict) /\ UNCHANGED <<active, life>>
  <2>1. ActsAlone(r) /\ Calm(call'[r]) /\ ExecutionStays(r) /\ life'[r] = "up"
    BY <1>1, <1>4, FinishedAlone, CallFields DEF ExecutionStays, IsActive
  <2> QED BY <1>1, <1>2, <2>1, CalmStep
<1>5. ASSUME call[r].verdict = "applied", ~(call[r].cmd \in Resolving /\ call[r].conf = 0),
             UNCHANGED <<life, runSeen, stepSeen>>,
             active' = active \/ active' = [active EXCEPT ![r].control = "pause"],
             NEW pc \in {"cas", "check", "resolve"}, Goto(r, pc, call[r].cmd, call[r].target),
             call[r].cmd \in {"pause", "cancel"} => pc = "cas",
             call[r].cmd \in Resuming => pc = "check",
             call[r].cmd \notin {"pause", "cancel"} \cup Resuming => pc = "resolve"
      PROVE  AloneInv'
  <2>1. /\ OnlyCallOf(r) /\ call'[r].pc = pc /\ call'[r].cmd = call[r].cmd
        /\ call'[r].target = call[r].target /\ call'[r].conf = call[r].conf
    BY <1>1, <1>5, GotoIs, CallFields, Names DEF ProgramPoints
  <2>2. call[r].cmd \in {"pause", "cancel", "approve", "reject"} \cup Resuming
    BY <1>1, CallOfIInv DEF CallShape
  <2>3. active'[r].attempt = active[r].attempt /\ ActsAlone(r)
    <3>1. CASE active' = active
      BY <1>5, <2>1, <3>1 DEF ActsAlone
    <3>2. CASE active' = [active EXCEPT ![r].control = "pause"]
      BY <1>1, <1>5, <2>1, <3>2 DEF Execution, ActsAlone
    <3> QED BY <1>5, <3>1, <3>2
  <2>4. ExecutionFits(r)'
    BY <1>1, <1>5, <2>1, <2>2, <2>3, FitsOf DEF ExecutionFits, IsActive, Resuming, Settling
  <2>5. StatusIsFound(r)'
    BY <1>1, <1>5, <2>1, <2>2, FitsOf DEF StatusIsFound, Resuming, Resolving
  <2>6. StepIsFound(r)'
    BY <1>1, <1>5, <2>1, <2>2, FitsOf DEF StepIsFound, Resuming
  <2> QED BY <1>1, <1>2, <1>5, <2>3, <2>4, <2>5, <2>6, AloneStep DEF Fits
<1>6. \/ Throw(r)
      \/ Finished(r, call[r].verdict) /\ UNCHANGED <<active, life>>
      \/ /\ call[r].verdict = "applied" /\ ~(call[r].cmd \in Resolving /\ call[r].conf = 0)
         /\ UNCHANGED <<life, runSeen, stepSeen>>
         /\ active' = active \/ active' = [active EXCEPT ![r].control = "pause"]
         /\ Goto(r, CASE call[r].cmd \in {"pause", "cancel"} -> "cas"
                      [] call[r].cmd \in Resuming            -> "check"
                      [] OTHER                               -> "resolve",
                 call[r].cmd, call[r].target)
  BY DEF CreateControlOperation
<1>7. Resuming \cap {"pause", "cancel"} = {}
  BY DEF Resuming
<1>8. CASE call[r].cmd \in {"pause", "cancel"}
  BY <1>3, <1>4, <1>5, <1>6, <1>7, <1>8
<1>9. CASE call[r].cmd \in Resuming
  BY <1>3, <1>4, <1>5, <1>6, <1>7, <1>9
<1>10. CASE call[r].cmd \notin {"pause", "cancel"} \cup Resuming
  BY <1>3, <1>4, <1>5, <1>6, <1>10
<1> QED BY <1>8, <1>9, <1>10

LEMMA CompleteControlOperationAlone ==
    ASSUME IInv, AloneInv, NEW r \in Runtimes, CompleteControlOperation(r) PROVE AloneInv'
<1>1. /\ TypeOK /\ life[r] = "up" /\ Return(r) /\ UNCHANGED <<run, step, attempts, active, life>>
  BY TypeOfIInv, InsideIsUp DEF CompleteControlOperation
<1>2. ActsAlone(r) /\ Calm(call'[r]) /\ ExecutionStays(r) /\ life'[r] = "up"
  BY <1>1, ReturnAlone DEF ExecutionStays, IsActive
<1> QED BY <1>1, <1>2, RowsStayFit, CalmStep

LEMMA SupersedeConfirmationsAlone ==
    ASSUME IInv, AloneInv, NEW r \in Runtimes, SupersedeConfirmations(r) PROVE AloneInv'
<1>1. /\ TypeOK /\ TypeInv /\ call[r].pc = "supersede" /\ life[r] = "up"
      /\ UNCHANGED <<run, step, attempts, stepSeen, active, life>>
  BY TypeOfIInv, InsideIsUp DEF SupersedeConfirmations
<1>2. OnlyCallOf(r) /\ call'[r].pc = "cancelStep" /\ call'[r].cmd = call[r].cmd
  BY <1>1, GotoIs, CallFields, Names DEF SupersedeConfirmations
<1>3. ~IsActive(r)'
  BY <1>1, FitsOf DEF ExecutionFits, IsActive
<1>4. Fits(r)'
  BY <1>1, <1>2, <1>3, FitsOf DEF Fits, ExecutionFits, StatusIsFound, StepIsFound
<1> QED BY <1>1, <1>2, <1>4, RowsStayFit, AloneStep DEF ActsAlone

LEMMA CancelInactiveStepAlone ==
    ASSUME IInv, AloneInv, NEW r \in Runtimes, CancelInactiveStep(r) PROVE AloneInv'
<1>1. /\ TypeOK /\ TypeInv /\ call[r].pc = "cancelStep" /\ life[r] = "up"
      /\ UNCHANGED <<run, attempts, active, life>>
  BY TypeOfIInv, InsideIsUp DEF CancelInactiveStep
<1>2. /\ OnlyCallOf(r) /\ call'[r].pc = "read" /\ call'[r].cmd = call[r].cmd
      /\ call'[r].target = "cancelled"
  BY <1>1, GotoIs, CallFields, Names DEF CancelInactiveStep
<1>3. ~IsActive(r)' /\ call[r].cmd = "cancel" /\ run.status = "cancelling" /\ r \in stepSeen
  BY <1>1, FitsOf DEF ExecutionFits, StatusIsFound, IsActive
<1>4. step'.status \in Settled
  BY <1>1, <1>3, Rows DEF CancelInactiveStep, StepStatus, Settled, TypeOK, StepRow
<1>5. RowsFit' /\ Fits(r)'
  BY <1>1, <1>2, <1>3, <1>4 DEF RowsFit, CancelledIsSettled, Fits, ExecutionFits, StatusIsFound,
                                StepIsFound, Resuming, Resolving
<1> QED BY <1>1, <1>2, <1>5, AloneStep DEF ActsAlone

LEMMA CheckResumableAlone ==
    ASSUME IInv, TypeOK', AloneInv, NEW r \in Runtimes, CheckResumable(r) PROVE AloneInv'
<1>1. /\ TypeOK /\ TypeInv /\ call[r].pc = "check" /\ life[r] = "up"
      /\ UNCHANGED <<run, step, attempts, active, life>> /\ call[r].cmd \in Resuming
  BY TypeOfIInv, InsideIsUp, CallOfIInv DEF CheckResumable, store, CallShape
<1>2. run.status \in {"paused", "failed"} /\ ~IsActive(r)'
  BY <1>1, FitsOf DEF StatusIsFound, ExecutionFits, IsActive
<1>3. RowsFit'
  BY <1>1, RowsStayFit
<1>4. CASE Finished(r, "failed")
  <2>1. ActsAlone(r) /\ Calm(call'[r]) /\ ExecutionStays(r) /\ life'[r] = "up"
    BY <1>1, <1>2, <1>4, FinishedAlone, Names DEF ExecutionStays
  <2> QED BY <1>1, <1>3, <2>1, CalmStep
<1>5. CASE Goto(r, "cas", call[r].cmd, "paused")
  <2>1. /\ OnlyCallOf(r) /\ call'[r].pc = "cas" /\ call'[r].cmd = call[r].cmd
        /\ call'[r].target = "paused"
    BY <1>1, <1>5, GotoIs, CallFields, Names
  <2>2. Fits(r)'
    BY <1>1, <1>2, <2>1 DEF Fits, ExecutionFits, StatusIsFound, StepIsFound, Resuming, Resolving
  <2> QED BY <1>1, <1>3, <2>1, <2>2, AloneStep DEF ActsAlone
<1>6. ASSUME NEW c,
             call' = [call EXCEPT ![r] = [@ EXCEPT !.pc = "reset", !.n = Len(attempts) + 1,
                                                   !.conf = c]]
      PROVE  AloneInv'
  <2>1. /\ call'[r].pc = "reset" /\ call'[r].n = Len(attempts) + 1
        /\ OnlyCallOf(r)
    BY <1>1, <1>6 DEF TypeOK, Call, OnlyCallOf
  <2>2. Len(attempts) + 1 \notin DOMAIN attempts
    BY <1>1, Rows
  <2>3. Fits(r)'
    BY <1>1, <1>2, <2>1, <2>2 DEF Fits, ExecutionFits, StatusIsFound, StepIsFound
  <2> QED BY <1>1, <1>3, <2>1, <2>3, AloneStep DEF ActsAlone
<1> QED BY <1>4, <1>5, <1>6 DEF CheckResumable

LEMMA ResetStepAlone ==
    ASSUME IInv, AloneInv, NEW r \in Runtimes, ResetStep(r) PROVE AloneInv'
<1>1. /\ TypeOK /\ TypeInv /\ call[r].pc = "reset" /\ life[r] = "up"
      /\ UNCHANGED <<run, attempts, active, life>> /\ call[r].cmd \in Resuming
  BY TypeOfIInv, InsideIsUp, CallOfIInv DEF ResetStep, CallShape
<1>2. run.status \in {"paused", "failed"} /\ ~IsActive(r)'
  BY <1>1, FitsOf DEF StatusIsFound, ExecutionFits, IsActive
<1>3. RowsFit'
  BY <1>1, <1>2 DEF RowsFit, CancelledIsSettled
<1>4. CASE Finished(r, "failed")
  <2>1. ActsAlone(r) /\ Calm(call'[r]) /\ ExecutionStays(r) /\ life'[r] = "up"
    BY <1>1, <1>2, <1>4, FinishedAlone, Names DEF ExecutionStays
  <2> QED BY <1>1, <1>3, <2>1, CalmStep
<1>5. CASE Goto(r, "cas", call[r].cmd, "running")
  <2>1. /\ OnlyCallOf(r) /\ call'[r].pc = "cas" /\ call'[r].cmd = call[r].cmd
        /\ call'[r].target = "running" /\ call'[r].n = call[r].n
    BY <1>1, <1>5, GotoIs, CallFields, Names
  <2>2. Fits(r)'
    BY <1>1, <1>2, <2>1, FitsOf DEF Fits, ExecutionFits, StatusIsFound, StepIsFound,
                                    Resuming, Resolving
  <2> QED BY <1>1, <1>3, <2>1, <2>2, AloneStep DEF ActsAlone
<1> QED BY <1>4, <1>5 DEF ResetStep

LEMMA ResolveConfirmationAlone ==
    ASSUME IInv, AloneInv, NEW r \in Runtimes, ResolveConfirmation(r) PROVE AloneInv'
<1>1. /\ TypeOK /\ TypeInv /\ call[r].pc = "resolve" /\ life[r] = "up"
      /\ UNCHANGED <<run, step, attempts, active, life>> /\ call[r].cmd \in Resolving
  BY TypeOfIInv, InsideIsUp, CallOfIInv DEF ResolveConfirmation, CallShape
<1>2. run.status = "waiting_confirmation" /\ ~IsActive(r)'
  BY <1>1, FitsOf DEF StatusIsFound, ExecutionFits, IsActive
<1>3. RowsFit'
  BY <1>1, RowsStayFit
<1>4. CASE Finished(r, "failed") \/ Return(r)
  <2>1. ActsAlone(r) /\ Calm(call'[r]) /\ ExecutionStays(r) /\ life'[r] = "up"
    BY <1>1, <1>2, <1>4, FinishedAlone, ReturnAlone, Names DEF ExecutionStays
  <2> QED BY <1>1, <1>3, <2>1, CalmStep
<1>5. CASE Goto(r, "settle", call[r].cmd, call[r].target)
  <2>1. OnlyCallOf(r) /\ call'[r].pc = "settle"
    BY <1>1, <1>5, GotoIs, CallFields, Names
  <2>2. Fits(r)'
    BY <1>1, <1>2, <2>1 DEF Fits, ExecutionFits, StatusIsFound, StepIsFound
  <2> QED BY <1>1, <1>3, <2>1, <2>2, AloneStep DEF ActsAlone
<1> QED BY <1>4, <1>5 DEF ResolveConfirmation

LEMMA ExpireReadAlone ==
    ASSUME IInv, AloneInv, NEW r \in Runtimes, ExpireRead(r) PROVE AloneInv'
<1>1. /\ TypeOK /\ TypeInv /\ call[r].pc = "expireRead" /\ life[r] = "up"
      /\ UNCHANGED <<run, step, attempts, active, life>>
  BY TypeOfIInv, InsideIsUp DEF ExpireRead, store
<1>2. RowsFit'
  BY <1>1, RowsStayFit
<1>3. CASE Return(r)
  <2>1. ActsAlone(r) /\ Calm(call'[r]) /\ ExecutionStays(r) /\ life'[r] = "up"
    BY <1>1, <1>3, ReturnAlone DEF ExecutionStays, IsActive
  <2> QED BY <1>1, <1>2, <2>1, CalmStep
<1>4. CASE run.status = "waiting_confirmation" /\ Goto(r, "settle", "expire", "failed")
  <2>1. OnlyCallOf(r) /\ call'[r].pc = "settle"
    BY <1>1, <1>4, GotoIs, Names
  <2>2. ~IsActive(r)'
    BY <1>1, <1>4, FitsOf DEF ExecutionFits, IsActive
  <2>3. Fits(r)'
    BY <1>1, <1>4, <2>1, <2>2 DEF Fits, ExecutionFits, StatusIsFound, StepIsFound
  <2> QED BY <1>1, <1>2, <2>1, <2>3, AloneStep DEF ActsAlone
<1> QED BY <1>3, <1>4 DEF ExpireRead

LEMMA SettleStepAlone ==
    ASSUME IInv, AloneInv, NEW r \in Runtimes, SettleStep(r) PROVE AloneInv'
<1>1. /\ TypeOK /\ TypeInv /\ call[r].pc = "settle" /\ life[r] = "up"
      /\ UNCHANGED <<run, attempts, active, life>>
      /\ call[r].cmd \in Resolving /\ call[r].target \in {"paused", "failed"}
  BY TypeOfIInv, InsideIsUp, CallOfIInv DEF SettleStep, CallShape
<1>2. run.status = "waiting_confirmation" /\ ~IsActive(r)'
  BY <1>1, FitsOf DEF StatusIsFound, ExecutionFits, IsActive
<1>3. RowsFit'
  BY <1>1, <1>2 DEF RowsFit, CancelledIsSettled
<1>4. CASE Return(r)
  <2>1. ActsAlone(r) /\ Calm(call'[r]) /\ ExecutionStays(r) /\ life'[r] = "up"
    BY <1>1, <1>2, <1>4, ReturnAlone DEF ExecutionStays
  <2> QED BY <1>1, <1>3, <2>1, CalmStep
<1>5. CASE Goto(r, "cas", call[r].cmd, call[r].target)
  <2>1. /\ OnlyCallOf(r) /\ call'[r].pc = "cas" /\ call'[r].cmd = call[r].cmd
        /\ call'[r].target = call[r].target
    BY <1>1, <1>5, GotoIs, CallFields, Names
  <2>2. Fits(r)'
    BY <1>1, <1>2, <2>1 DEF Fits, ExecutionFits, StatusIsFound, StepIsFound, Resuming, Resolving
  <2> QED BY <1>1, <1>3, <2>1, <2>2, AloneStep DEF ActsAlone
<1> QED BY <1>4, <1>5 DEF SettleStep

LEMMA ClaimStaleRunAlone ==
    ASSUME IInv, AloneInv, NEW r \in Runtimes, ClaimStaleRun(r) PROVE AloneInv'
<1>1. /\ TypeOK /\ TypeInv /\ call[r].pc = "claim" /\ life[r] = "up" /\ UNCHANGED <<active, life>>
  BY TypeOfIInv, InsideIsUp DEF ClaimStaleRun
<1>2. ~IsActive(r)'
  BY <1>1, FitsOf DEF ExecutionFits, IsActive
<1>3. CASE Return(r) /\ UNCHANGED <<run, step>>
  <2>1. ActsAlone(r) /\ Calm(call'[r]) /\ ExecutionStays(r) /\ life'[r] = "up"
    BY <1>1, <1>2, <1>3, ReturnAlone DEF ExecutionStays
  <2> QED BY <1>1, <1>3, <2>1, RowsStayFit, CalmStep
<1>4. CASE /\ run' = [run EXCEPT !.status = "paused", !.owner = r, !.leased = TRUE]
           /\ Goto(r, "recover", "recover", "running")
  <2>1. OnlyCallOf(r) /\ call'[r].pc = "recover" /\ run'.status = "paused"
    BY <1>1, <1>4, GotoIs, Names DEF TypeOK, RunRow
  <2>2. RowsFit' /\ Fits(r)'
    BY <1>2, <2>1 DEF RowsFit, CancelledIsSettled, Fits, ExecutionFits, StatusIsFound,
                      StepIsFound
  <2> QED BY <1>1, <2>1, <2>2, AloneStep DEF ActsAlone
<1> QED BY <1>3, <1>4 DEF ClaimStaleRun

LEMMA RecoverRunAlone ==
    ASSUME IInv, TypeOK', AloneInv, NEW r \in Runtimes, RecoverRun(r) PROVE AloneInv'
<1>1. /\ TypeOK /\ TypeInv /\ call[r].pc = "recover" /\ life[r] = "up"
      /\ UNCHANGED <<run, step, attempts, active, life>> /\ call[r].cmd \in Resuming
  BY TypeOfIInv, InsideIsUp, CallOfIInv DEF RecoverRun, store, CallShape
<1>2. run.status \in {"paused", "failed"} /\ ~IsActive(r)'
  BY <1>1, FitsOf DEF StatusIsFound, ExecutionFits, IsActive
<1>3. RowsFit'
  BY <1>1, RowsStayFit
<1>4. CASE Return(r)
  <2>1. ActsAlone(r) /\ Calm(call'[r]) /\ ExecutionStays(r) /\ life'[r] = "up"
    BY <1>1, <1>2, <1>4, ReturnAlone DEF ExecutionStays
  <2> QED BY <1>1, <1>3, <2>1, CalmStep
<1>5. ASSUME NEW v, call' = [call EXCEPT ![r] = [@ EXCEPT !.pc = "op", !.op = StaleOp,
                                                          !.verdict = v]]
      PROVE  AloneInv'
  <2>1. OnlyCallOf(r) /\ call'[r].pc = "op" /\ call'[r].cmd = call[r].cmd
    BY <1>1, <1>5 DEF TypeOK, Call, OnlyCallOf
  <2>2. Fits(r)'
    BY <1>1, <1>2, <2>1 DEF Fits, ExecutionFits, StatusIsFound, StepIsFound, Resuming, Resolving
  <2> QED BY <1>1, <1>3, <2>1, <2>2, AloneStep DEF ActsAlone
<1> QED BY <1>4, <1>5 DEF RecoverRun

-----------------------------------------------------------------------------
(* Commands, bodies and the life of the runtimes.                          *)

LEMMA CreateRunAlone ==
    ASSUME IInv, AloneInv, NEW r \in Runtimes, CreateRun(r) PROVE AloneInv'
<1>1. /\ TypeOK /\ TypeInv /\ life[r] = "up" /\ UNCHANGED <<attempts, active, life>>
      /\ ~IsActive(r)' /\ run'.status = "queued"
  BY TypeOfIInv DEF CreateRun, Up, IsActive
<1>2. attempts = <<>>
  BY NothingLeft DEF CreateRun, Exists, RunStatus
<1>3. /\ OnlyCallOf(r) /\ call'[r].pc = "read" /\ call'[r].cmd = "begin"
      /\ call'[r].target = "planning"
  BY <1>1, GotoIs, Names DEF CreateRun
<1>4. RowsFit' /\ Fits(r)'
  BY <1>1, <1>2, <1>3 DEF RowsFit, CancelledIsSettled, Fits, ExecutionFits, StatusIsFound,
                          StepIsFound, Resuming, Resolving
<1> QED BY <1>1, <1>3, <1>4, AloneStep DEF ActsAlone

LEMMA EnterAlone ==
    ASSUME IInv, AloneInv, NEW r \in Runtimes, NEW cmd \in Commands,
           NEW o \in Ops \cup {NoOp}, NEW c \in Nat, NEW target \in RunStatus,
           NEW verdict \in OpStatus, Enter(r, cmd, o, c, target, verdict),
           IsActive(r) /\ cmd \in {"pause", "cancel"} => target \in {"running", "cancelling"},
           cmd \in {"pause", "cancel"} => target # "cancelled",
           cmd \in Resuming /\ verdict = "applied" => run.status \in {"paused", "failed"},
           cmd \in Resolving /\ c # 0 => run.status = "waiting_confirmation"
    PROVE  AloneInv'
<1>1. /\ TypeOK /\ UNCHANGED <<run, step, attempts, active, life>>
      /\ OnlyCallOf(r) /\ call'[r].pc = "op" /\ call'[r].cmd = cmd /\ call'[r].target = target
      /\ call'[r].conf = c /\ call'[r].verdict = verdict
  BY TypeOfIInv, EnterIs DEF store
<1>2. ExecutionFits(r)'
  BY <1>1, FitsOf DEF ExecutionFits, IsActive
<1>3. StatusIsFound(r)' /\ StepIsFound(r)'
  BY <1>1 DEF StatusIsFound, StepIsFound
<1>4. life[r] = "up"
  BY DEF Enter, Up
<1> QED BY <1>1, <1>2, <1>3, <1>4, RowsStayFit, AloneStep DEF ActsAlone, Fits

LEMMA RequestControlAlone ==
    ASSUME IInv, AloneInv, NEW r \in Runtimes, NEW o \in OpIds \cup {NoOp},
           NEW cmd \in {"pause", "cancel"}, RequestControl(r, cmd, o)
    PROVE  AloneInv'
<1> DEFINE target == ControlStatus(run.status, cmd, IsActive(r))
           verdict(v) == IF v = "applied" /\ ~ControlAllowed(run.status, cmd)
                         THEN "failed" ELSE v
<1>1. PICK v \in Versions : Enter(r, cmd, o, 0, target, verdict(v))
  BY DEF RequestControl
<1>2. target \in RunStatus /\ verdict(v) \in OpStatus
  BY <1>1, ControlIs DEF Enter, Exists, IsActive, OpStatus, Versions
<1>3. cmd \in Commands /\ cmd \notin Resolving \cup Resuming /\ o \in Ops \cup {NoOp}
  BY DEF Commands, Resolving, Resuming, Ops
<1>4. /\ IsActive(r) => target \in {"running", "cancelling"}
      /\ target # "cancelled"
  BY FitsOf DEF ExecutionFits, ControlStatus
<1> HIDE DEF target, verdict
<1> QED BY <1>1, <1>2, <1>3, <1>4, EnterAlone

LEMMA RequestResumeAlone ==
    ASSUME IInv, AloneInv, NEW r \in Runtimes, NEW o \in OpIds \cup {NoOp},
           NEW cmd \in {"resume", "retry"}, RequestResume(r, cmd, o)
    PROVE  AloneInv'
<1> DEFINE verdict(v) == IF v = "applied" /\ run.status \notin {"paused", "failed"}
                         THEN "failed" ELSE v
<1>1. PICK v \in Versions : Enter(r, cmd, o, 0, "running", verdict(v))
  BY DEF RequestResume
<1>2. /\ verdict(v) \in OpStatus
      /\ verdict(v) = "applied" => run.status \in {"paused", "failed"}
  BY DEF OpStatus, Versions
<1>3. cmd \in Commands /\ cmd \notin Resolving /\ o \in Ops \cup {NoOp} /\ "running" \in RunStatus
  BY DEF Commands, Resolving, Ops, RunStatus
<1> HIDE DEF verdict
<1> QED BY <1>1, <1>2, <1>3, EnterAlone

LEMMA ResolutionAlone ==
    ASSUME IInv, AloneInv, NEW r \in Runtimes, NEW o \in OpIds \cup {NoOp},
           NEW c \in DOMAIN confs, NEW cmd \in {"approve", "reject"},
           RequestResolution(r, cmd, o, c) \/ RepeatResolution(r, cmd, o, c)
    PROVE  AloneInv'
<1>1. /\ cmd \in Commands /\ cmd \notin Resuming /\ o \in Ops \cup {NoOp}
      /\ c \in Nat /\ "paused" \in RunStatus /\ "failed" \in RunStatus
      /\ "applied" \in OpStatus /\ Versions \subseteq OpStatus
  BY TypeOfIInv, Rows DEF Commands, Resuming, Ops, RunStatus, OpStatus, Versions
<1>2. CASE RequestResolution(r, cmd, o, c)
  <2> DEFINE target == IF cmd = "approve" THEN "paused" ELSE "failed"
  <2>1. target \in RunStatus
    BY <1>1
  <2>2. PICK v \in Versions : Enter(r, cmd, o, c, target, v)
    BY <1>2 DEF RequestResolution
  <2>3. run.status = "waiting_confirmation"
    BY <1>2 DEF RequestResolution
  <2> HIDE DEF target
  <2> QED BY <1>1, <2>1, <2>2, <2>3, EnterAlone
<1>3. CASE RepeatResolution(r, cmd, o, c)
  <2>1. Enter(r, cmd, o, 0, "paused", "applied")
    BY <1>3 DEF RepeatResolution
  <2> QED BY <1>1, <2>1, EnterAlone
<1> QED BY <1>2, <1>3

LEMMA PauseForMemoryRevisionAlone ==
    ASSUME IInv, TypeOK', AloneInv, NEW r \in Runtimes, PauseForMemoryRevision(r) PROVE AloneInv'
<1> DEFINE target == ControlStatus("running", "pause", IsActive(r))
<1>1. /\ TypeOK /\ life[r] = "up" /\ UNCHANGED <<run, step, attempts, life>>
      /\ run.status = "running" /\ active \in [Runtimes -> Execution]
  BY TypeOfIInv DEF PauseForMemoryRevision, Up, store, TypeOK
<1>2. target = IF IsActive(r) THEN "running" ELSE "paused"
  BY DEF ControlStatus
<1> HIDE DEF target
<1>3. /\ OnlyCallOf(r) /\ call'[r].pc = "op" /\ call'[r].cmd = "pause" /\ call'[r].target = target
  BY <1>1 DEF PauseForMemoryRevision, target, TypeOK, Call, Idle, OnlyCallOf
<1>4. active'[r].attempt = active[r].attempt /\ ActsAlone(r)
  <2>1. CASE active' = active
    BY <1>1, <1>3, <2>1 DEF ActsAlone
  <2>2. CASE active' = [active EXCEPT ![r].control = "pause"]
    BY <1>1, <1>3, <2>2 DEF Execution, ActsAlone
  <2> QED BY <2>1, <2>2 DEF PauseForMemoryRevision
<1>5. ExecutionFits(r)'
  BY <1>1, <1>2, <1>3, <1>4, FitsOf DEF ExecutionFits, IsActive
<1>6. StatusIsFound(r)' /\ StepIsFound(r)'
  BY <1>2, <1>3 DEF StatusIsFound, StepIsFound, Resuming, Resolving
<1> QED BY <1>1, <1>4, <1>5, <1>6, RowsStayFit, AloneStep DEF Fits

LEMMA BodyEndsAlone ==
    ASSUME IInv, AloneInv, NEW r \in Runtimes, BodyReturns(r) \/ BodyThrows(r) PROVE AloneInv'
<1>1. /\ TypeOK /\ life[r] = "up" /\ UNCHANGED <<run, step, attempts, active, life>>
  BY TypeOfIInv DEF BodyReturns, BodyThrows, Up, store
<1>2. OnlyCallOf(r) /\ Calm(call'[r])
  <2>1. ASSUME NEW aborted, FailWith(r, aborted) PROVE OnlyCallOf(r) /\ Calm(call'[r])
    BY <1>1, <2>1, FailWithIs DEF Calm, Settling
  <2>2. CASE \E aborted \in BOOLEAN : FailWith(r, aborted)
    BY <2>1, <2>2
  <2>3. CASE \/ Goto(r, "finish", "complete", "paused")
             \/ Goto(r, "finish", "complete", "completed")
             \/ Goto(r, "confirm", "complete", "waiting_confirmation")
             \/ Goto(r, "read", "complete", "cancelling")
    BY <1>1, <2>3, GotoIs, Names DEF Calm, Settling
  <2> QED BY <2>2, <2>3 DEF BodyReturns, BodyThrows
<1>3. ActsAlone(r) /\ ExecutionStays(r)
  BY <1>1, <1>2 DEF ActsAlone, ExecutionStays, IsActive
<1> QED BY <1>1, <1>2, <1>3, RowsStayFit, CalmStep

LEMMA BodyAlone ==
    ASSUME IInv, AloneInv, NEW r \in Runtimes, Body(r) PROVE AloneInv'
<1>1. TypeOK /\ active \in [Runtimes -> Execution]
  BY TypeOfIInv DEF TypeOK
<1>2. CASE BodyReturns(r) \/ BodyThrows(r)
  BY <1>2, BodyEndsAlone
<1>3. CASE RecordProgress(r) \/ ConsumeReceipt(r)
  BY <1>3, CallsStayAlone DEF RecordProgress, ConsumeReceipt, store
<1>4. CASE ModelBudgetRefused(r)
  <2>1. \A q \in Runtimes : active'[q].attempt = active[q].attempt
    BY <1>1, <1>4 DEF ModelBudgetRefused, Execution
  <2> QED BY <1>4, <2>1, CallsStayAlone DEF ModelBudgetRefused, store
<1> QED BY <1>2, <1>3, <1>4 DEF Body

LEMMA HeartbeatAlone ==
    ASSUME IInv, AloneInv, NEW r \in Runtimes, Heartbeat(r) PROVE AloneInv'
<1>1. TypeOK
  BY TypeOfIInv
<1>2. CASE RenewLease(r)
  <2>1. run'.status = run.status
    BY <1>1, <1>2 DEF RenewLease, TypeOK, RunRow
  <2> QED BY <1>2, <2>1, CallsStayAlone DEF RenewLease
<1>3. ASSUME NEW c \in DOMAIN confs, ExpireConfirmation(r, c) PROVE AloneInv'
  <2>1. life[r] = "up" /\ UNCHANGED <<run, step, attempts, active, life>>
    BY <1>3 DEF ExpireConfirmation, Up
  <2>2. ActsAlone(r) /\ Calm(call'[r]) /\ ExecutionStays(r)
    BY <1>1, <1>3, <2>1, GotoIs, Names DEF ExpireConfirmation, ActsAlone, Calm,
                                           ExecutionStays, IsActive
  <2> QED BY <1>1, <2>1, <2>2, RowsStayFit, CalmStep
<1> QED BY <1>2, <1>3 DEF Heartbeat

LEMMA DeleteRunAlone ==
    ASSUME IInv, AloneInv, NEW r \in Runtimes, DeleteRun(r) PROVE AloneInv'
<1>1. /\ TypeOK /\ life[r] = "up" /\ UNCHANGED <<active, life, call>> /\ ~IsActive(r)
      /\ call[r].pc = "idle"
  BY TypeOfIInv DEF DeleteRun, Up
<1>2. ActsAlone(r) /\ Calm(call'[r]) /\ ExecutionStays(r)
  BY <1>1 DEF ActsAlone, OnlyCallOf, Calm, ExecutionStays, IsActive, TypeOK
<1>3. run'.status = "deleted"
  BY <1>1 DEF DeleteRun, TypeOK, RunRow
<1>4. RowsFit'
  BY <1>3 DEF RowsFit, CancelledIsSettled
<1> QED BY <1>1, <1>2, <1>4, CalmStep

LEMMA LifeAlone ==
    ASSUME IInv, AloneInv, NEW r \in Runtimes, Close(r) \/ Crash(r) PROVE AloneInv'
<1>1. /\ TypeOK /\ life[r] = "up" /\ UNCHANGED <<run, step, attempts>>
      /\ active \in [Runtimes -> Execution] /\ life \in [Runtimes -> {"new", "up", "down"}]
  BY TypeOfIInv DEF Close, Crash, Up, store, TypeOK
<1>2. CASE Close(r) /\ IsActive(r)
  <2>1. OnlyCallOf(r) /\ Calm(call'[r]) /\ UNCHANGED life
    BY <1>1, <1>2, GotoIs, Names DEF Close, Calm
  <2>2. ActsAlone(r) /\ ExecutionStays(r)
    BY <1>1, <1>2, <2>1 DEF Close, ActsAlone, ExecutionStays, IsActive, Execution
  <2> QED BY <1>1, <2>1, <2>2, RowsStayFit, CalmStep
<1>3. CASE Close(r) /\ ~IsActive(r)
  <2>1. /\ life' = [life EXCEPT ![r] = "down"] /\ UNCHANGED <<active, call>>
    BY <1>3 DEF Close
  <2>2. OneUp'
    BY <1>1, <1>3, <2>1 DEF OneUp, AloneInv, IsActive, Close, Up
  <2>3. \A q \in Runtimes : Fits(q)'
    BY <1>1, <1>3, <2>1 DEF AloneInv, Fits, ExecutionFits, StatusIsFound, StepIsFound, IsActive,
                            Close
  <2> QED BY <1>1, <2>2, <2>3, RowsStayFit DEF AloneInv
<1>4. CASE Crash(r)
  <2>1. OnlyCallOf(r) /\ Calm(call'[r]) /\ call'[r].pc = "idle"
    BY <1>1, <1>4, ReturnIs DEF Crash, Calm
  <2>2. ActsAlone(r) /\ ~IsActive(r)'
    BY <1>1, <1>4, <2>1 DEF Crash, ActsAlone, IsActive, NoExecution
  <2> QED BY <1>1, <2>1, <2>2, RowsStayFit, CalmStep DEF ExecutionStays
<1> QED BY <1>2, <1>3, <1>4

LEMMA RegisterRuntimeAlone ==
    ASSUME IInv, AloneInv, ~MayOverlap, NEW r \in Runtimes, RegisterRuntime(r) PROVE AloneInv'
<1>1. /\ TypeOK /\ UNCHANGED <<run, step, attempts, active>> /\ life' = [life EXCEPT ![r] = "up"]
      /\ life \in [Runtimes -> {"new", "up", "down"}]
  BY TypeOfIInv DEF RegisterRuntime, store, TypeOK
<1>2. \A q \in Runtimes : life[q] # "up" /\ call[q].pc = "idle" /\ ~IsActive(q)
  BY DEF RegisterRuntime, AloneInv, OneUp
<1>3. OnlyCallOf(r) /\ call'[r].pc = "claim"
  BY <1>1, GotoIs, Names DEF RegisterRuntime
<1>4. \A q \in Runtimes : ~IsActive(q)' /\ (q # r => life'[q] # "up" /\ call'[q].pc = "idle")
  BY <1>1, <1>2, <1>3 DEF OnlyCallOf, IsActive
<1>5. OneUp' /\ \A q \in Runtimes : Fits(q)'
  BY <1>1, <1>3, <1>4 DEF OneUp, Fits, ExecutionFits, StatusIsFound, StepIsFound
<1> QED BY <1>1, <1>5, RowsStayFit DEF AloneInv

LEMMA ProceedAlone ==
    ASSUME IInv, IInv', AloneInv, NEW r \in Runtimes, Proceed(r) PROVE AloneInv'
<1>1. TypeOK'
  BY DEF IInv, TypeInv
<1> QED BY <1>1, ReadRunAlone, UpdateRunAlone, StartAttemptAlone, PersistConfirmationAlone,
           FinishAttemptAlone, CreateControlOperationAlone, CompleteControlOperationAlone,
           SupersedeConfirmationsAlone, CancelInactiveStepAlone, CheckResumableAlone,
           ResetStepAlone, ResolveConfirmationAlone, ExpireReadAlone, SettleStepAlone,
           ClaimStaleRunAlone, RecoverRunAlone DEF Proceed

LEMMA CommandAlone ==
    ASSUME IInv, IInv', AloneInv, NEW r \in Runtimes, Command(r) PROVE AloneInv'
<1>1. TypeOK'
  BY DEF IInv, TypeInv
<1>2. ASSUME NEW o \in OpIds \cup {NoOp}, NEW cmd \in Sent \cap {"pause", "cancel"},
             RequestControl(r, cmd, o)
      PROVE  AloneInv'
  BY <1>2, RequestControlAlone
<1>3. ASSUME NEW o \in OpIds \cup {NoOp}, NEW cmd \in Sent \cap {"resume", "retry"},
             RequestResume(r, cmd, o)
      PROVE  AloneInv'
  BY <1>3, RequestResumeAlone
<1>4. ASSUME NEW o \in OpIds \cup {NoOp}, NEW c \in DOMAIN confs,
             NEW cmd \in Sent \cap {"approve", "reject"},
             RequestResolution(r, cmd, o, c) \/ RepeatResolution(r, cmd, o, c)
      PROVE  AloneInv'
  BY <1>4, ResolutionAlone
<1> QED BY <1>1, <1>2, <1>3, <1>4, CreateRunAlone, PauseForMemoryRevisionAlone, DeleteRunAlone
        DEF Command

LEMMA EnvironmentAlone ==
    ASSUME IInv, AloneInv, Environment PROVE AloneInv'
<1>1. CASE LeaseLapses
  <2>1. run'.status = run.status
    BY <1>1, TypeOfIInv DEF LeaseLapses, TypeOK, RunRow
  <2> QED BY <1>1, <2>1, CallsStayAlone DEF LeaseLapses
<1>2. CASE DeadlinePasses \/ \E c \in DOMAIN confs : ConfirmationLapses(c)
  BY <1>2, CallsStayAlone DEF DeadlinePasses, ConfirmationLapses
<1> QED BY <1>1, <1>2 DEF Environment

LEMMA NextAlone ==
    ASSUME IInv, IInv', AloneInv, ~MayOverlap, [Next]_vars PROVE AloneInv'
<1>1. CASE UNCHANGED vars
  BY <1>1, CallsStayAlone DEF vars
<1>2. ASSUME NEW r \in Runtimes,
             \/ RegisterRuntime(r) \/ Proceed(r) \/ Command(r) \/ Body(r)
             \/ Heartbeat(r) \/ Close(r) \/ Crash(r)
      PROVE  AloneInv'
  BY <1>2, RegisterRuntimeAlone, ProceedAlone, CommandAlone, BodyAlone, HeartbeatAlone, LifeAlone
<1> QED BY <1>1, <1>2, EnvironmentAlone DEF Next

LEMMA InitAlone == Init => AloneInv
<1> SUFFICES ASSUME Init PROVE AloneInv
  OBVIOUS
<1>1. \A r \in Runtimes : life[r] = "new" /\ call[r].pc = "idle" /\ ~IsActive(r)
  BY IdleIs DEF Init, IsActive, NoExecution
<1>2. OneUp /\ RowsFit
  BY <1>1 DEF OneUp, RowsFit, CancelledIsSettled, Init
<1>3. \A r \in Runtimes : Fits(r)
  BY <1>1 DEF Fits, ExecutionFits, StatusIsFound, StepIsFound
<1> QED BY <1>2, <1>3 DEF AloneInv

\* As long as runtimes do not overlap, what the one that is up is about to do is
\* still due, over any number of crashes and launches.
THEOREM AloneInvariance == ASSUME ~MayOverlap PROVE Spec => []AloneInv
<1>1. IInv /\ IInv' /\ AloneInv /\ [Next]_vars => AloneInv'
  BY NextAlone
<1> QED BY <1>1, InitAlone, Invariance, PTL DEF Spec

\* A cancelled run has no step left that is active or pending, as long as
\* runtimes do not overlap.
THEOREM CancelledIsSettledAlways == ASSUME ~MayOverlap PROVE Spec => []CancelledIsSettled
<1>1. AloneInv => CancelledIsSettled
  BY DEF AloneInv, RowsFit
<1> QED BY <1>1, AloneInvariance, PTL

\* What a step may do to the status of a step that has ended, while the run is there.
LEMMA EndedStays ==
    ASSUME IInv, AloneInv, [Next]_vars, run'.status \in RunStatus,
           step.status \in {"done", "skipped", "cancelled"}
    PROVE  step'.status = step.status
<1>1. ASSUME NEW r \in Runtimes, Proceed(r) PROVE step'.status = step.status
  <2>1. CASE StartAttempt(r)
    BY <2>1 DEF StartAttempt
  <2>2. CASE FinishAttempt(r)
    <3> DEFINE n == active[r].attempt
    <3>1. CASE n \in DOMAIN attempts /\ attempts[n] = "running"
      <4>1. IsActive(r)
        BY <3>1, TypeOfIInv, Rows DEF IsActive
      <4> QED BY <3>1, <4>1, FitsOf DEF ExecutionFits
    <3>2. CASE UNCHANGED step
      BY <3>2
    <3> QED BY <2>2, <3>1, <3>2 DEF FinishAttempt
  <2>3. CASE CancelInactiveStep(r)
    BY <2>3 DEF CancelInactiveStep
  <2>4. CASE ResetStep(r)
    BY <2>4, CallOfIInv DEF ResetStep, CopyIsChecked
  <2>5. CASE SettleStep(r)
    BY <2>5, CallOfIInv DEF SettleStep, CopyIsChecked
  <2>6. CASE ClaimStaleRun(r)
    BY <2>6 DEF ClaimStaleRun
  <2>7. CASE ReadRun(r) \/ UpdateRun(r) \/ PersistConfirmation(r) \/ CreateControlOperation(r)
    BY <2>7 DEF ReadRun, UpdateRun, PersistConfirmation, CreateControlOperation, store
  <2>8. CASE \/ CompleteControlOperation(r) \/ SupersedeConfirmations(r)
             \/ CheckResumable(r) \/ ResolveConfirmation(r) \/ ExpireRead(r) \/ RecoverRun(r)
    BY <2>8 DEF CompleteControlOperation, SupersedeConfirmations, CheckResumable,
                ResolveConfirmation, ExpireRead, RecoverRun, store
  <2> QED BY <1>1, <2>1, <2>2, <2>3, <2>4, <2>5, <2>6, <2>7, <2>8 DEF Proceed
<1>2. ASSUME NEW r \in Runtimes, Command(r) PROVE step'.status = step.status
  <2>1. CASE CreateRun(r)
    BY <2>1 DEF CreateRun, AloneInv, RowsFit
  <2>2. CASE DeleteRun(r)
    <3>1. run'.status = "deleted"
      BY <2>2, TypeOfIInv DEF DeleteRun, TypeOK, RunRow
    <3> QED BY <3>1 DEF RunStatus
  <2>3. CASE PauseForMemoryRevision(r)
    BY <2>3 DEF PauseForMemoryRevision, store
  <2>4. CASE ~(CreateRun(r) \/ DeleteRun(r) \/ PauseForMemoryRevision(r))
    BY <1>2, <2>4 DEF Command, RequestControl, RequestResume, RequestResolution,
                      RepeatResolution, Enter, store
  <2> QED BY <2>1, <2>2, <2>3, <2>4
<1>3. ASSUME NEW r \in Runtimes, Body(r) \/ RegisterRuntime(r) \/ Close(r) \/ Crash(r)
      PROVE  step'.status = step.status
  BY <1>3 DEF Body, BodyReturns, BodyThrows, RecordProgress, ModelBudgetRefused, ConsumeReceipt,
              RegisterRuntime, Close, Crash, store
<1>4. ASSUME NEW r \in Runtimes, Heartbeat(r) PROVE step'.status = step.status
  BY <1>4 DEF Heartbeat, RenewLease, ExpireConfirmation
<1>5. CASE Environment
  BY <1>5 DEF Environment, LeaseLapses, DeadlinePasses, ConfirmationLapses
<1>6. CASE UNCHANGED vars
  BY <1>6 DEF vars
<1> QED BY <1>1, <1>2, <1>3, <1>4, <1>5, <1>6 DEF Next

\* A step that has ended stays as it ended, as long as runtimes do not overlap.
THEOREM EndedStepsStayEndedAlways == ASSUME ~MayOverlap PROVE Spec => EndedStepsStayEnded
<1> DEFINE A == step.status \in {"done", "skipped", "cancelled"} /\ run'.status \in RunStatus =>
                  step'.status = step.status
<1>1. IInv /\ AloneInv /\ [Next]_vars => [A]_vars
  BY EndedStays
<1> QED BY <1>1, AloneInvariance, Invariance, PTL DEF Spec, EndedStepsStayEnded

-----------------------------------------------------------------------------
(* Runtimes that neither overlap nor crash.                                *)

\* A method that is about to settle a confirmation, or the run that waited for it.
Decides(c) == c.pc \in {"expireRead", "settle"} \/ (c.pc = "cas" /\ c.cmd \in Resolving)

\* A run that waits has a step that waits and a confirmation that can be answered,
\* or its settlement has begun.
WaitingFits ==
    run.status = "waiting_confirmation" =>
        \/ \E r \in Runtimes : call[r].pc = "cas" /\ call[r].cmd \in Resolving
        \/ /\ step.status = "waiting_confirmation"
           /\ PendingConfs # {} \/ \E r \in Runtimes : Decides(call[r])

\* What a method needs to settle a confirmation, or to let the run wait for one.
SettlesNext(r) ==
    LET c == call[r] IN
    /\ \/ c.pc = "op" /\ c.cmd \in Resolving /\ c.conf # 0
       \/ c.pc \in {"resolve", "settle"}
       => r \in runSeen /\ r \in stepSeen
    /\ \/ c.pc = "op" /\ c.cmd \in Resolving /\ c.conf # 0
       \/ c.pc = "resolve"
       => c.conf \in PendingConfs
    /\ c.pc = "cas" /\ c.cmd \in Resolving => r \in runSeen /\ c.target \in {"paused", "failed"}
    /\ c.pc = "op" /\ c.cmd \in {"pause", "cancel"} => c.target # "waiting_confirmation"
    /\ c.pc \in {"finish", "read", "cas"} /\ c.target = "waiting_confirmation" =>
         /\ PendingConfs # {}
         /\ c.pc # "finish" => step.status = "waiting_confirmation"

WaitInv == WaitingFits /\ \A r \in Runtimes : SettlesNext(r)

LEMMA OthersAreIdle ==
    ASSUME AloneInv, NEW r \in Runtimes, life[r] = "up", NEW q \in Runtimes, q # r
    PROVE  call[q].pc = "idle"
BY DEF AloneInv, OneUp

LEMMA WaitStep ==
    ASSUME AloneInv, NEW r \in Runtimes, life[r] = "up", OnlyCallOf(r),
           SettlesNext(r)', WaitingFits'
    PROVE  WaitInv'
<1>1. ASSUME NEW q \in Runtimes, q # r PROVE SettlesNext(q)'
  <2>1. call'[q].pc = "idle"
    BY <1>1, OthersAreIdle DEF OnlyCallOf
  <2> QED BY <2>1 DEF SettlesNext
<1> QED BY <1>1 DEF WaitInv

LEMMA WaitsOf ==
    ASSUME AloneInv, WaitInv, NEW r \in Runtimes, life[r] = "up"
    PROVE  /\ SettlesNext(r)
           /\ run.status = "waiting_confirmation" =>
                \/ call[r].pc = "cas" /\ call[r].cmd \in Resolving
                \/ /\ step.status = "waiting_confirmation"
                   /\ PendingConfs # {} \/ Decides(call[r])
<1>1. \A q \in Runtimes : ~Decides(call[q]) \/ q = r
  BY OthersAreIdle DEF Decides
<1> QED BY <1>1 DEF WaitInv, WaitingFits, Decides

\* A step at a point that decides nothing leaves the run waiting as it was.
LEMMA StillWaits ==
    ASSUME AloneInv, WaitInv, NEW r \in Runtimes, life[r] = "up", ~Decides(call[r]),
           run'.status = run.status, step'.status = step.status,
           PendingConfs # {} => PendingConfs' # {}
    PROVE  WaitingFits'
<1>1. run.status = "waiting_confirmation" =>
        step.status = "waiting_confirmation" /\ PendingConfs # {}
  BY WaitsOf DEF Decides
<1> QED BY <1>1 DEF WaitingFits

LEMMA WaitsNot == ASSUME run'.status # "waiting_confirmation" PROVE WaitingFits'
BY DEF WaitingFits

\* Most points of a method need nothing to settle a confirmation.
LEMMA FreeWait ==
    ASSUME NEW r \in Runtimes, call'[r].pc \notin {"op", "resolve", "settle", "cas"},
           call'[r].pc \in {"finish", "read"} => call'[r].target # "waiting_confirmation"
    PROVE  SettlesNext(r)'
BY DEF SettlesNext

LEMMA ThrowWait ==
    ASSUME TypeOK, NEW r \in Runtimes, Throw(r) PROVE OnlyCallOf(r) /\ SettlesNext(r)'
BY ThrowIs, FreeWait

LEMMA EndWait ==
    ASSUME TypeOK, NEW r \in Runtimes, NEW v \in OpStatus, Finished(r, v) \/ Return(r)
    PROVE  OnlyCallOf(r) /\ SettlesNext(r)'
BY FinishedIs, ReturnIs, FreeWait

LEMMA PendingStays == ASSUME UNCHANGED confs PROVE PendingConfs' = PendingConfs
BY DEF PendingConfs

LEMMA UpFacts ==
    ASSUME IInv, AloneInv, WaitInv, NEW r \in Runtimes, call[r].pc # "idle"
    PROVE  /\ TypeOK /\ TypeInv /\ life[r] = "up"
           /\ SettlesNext(r) /\ ExecutionFits(r) /\ StatusIsFound(r) /\ StepIsFound(r)
           /\ CallShape(r) /\ CopyIsChecked(r)
BY TypeOfIInv, InsideIsUp, WaitsOf, FitsOf, CallOfIInv

LEMMA ReadRunWait ==
    ASSUME IInv, AloneInv, WaitInv, NEW r \in Runtimes, ReadRun(r) PROVE WaitInv'
<1>1. /\ call[r].pc = "read" /\ UNCHANGED <<run, step, confs>>
      /\ TypeOK /\ TypeInv /\ life[r] = "up" /\ SettlesNext(r) /\ StatusIsFound(r)
  BY UpFacts DEF ReadRun, store
<1>2. WaitingFits'
  BY <1>1, PendingStays, StillWaits DEF Decides
<1>3. CASE Throw(r)
  BY <1>1, <1>2, <1>3, ThrowWait, WaitStep
<1>4. CASE Goto(r, "finish", call[r].cmd, "cancelled")
  <2>1. OnlyCallOf(r) /\ SettlesNext(r)'
    BY <1>1, <1>4, GotoIs, CallFields, Names, FreeWait
  <2> QED BY <1>1, <1>2, <2>1, WaitStep
<1>5. CASE Goto(r, "cas", call[r].cmd, call[r].target)
  <2>1. /\ OnlyCallOf(r) /\ call'[r].pc = "cas" /\ call'[r].cmd = call[r].cmd
        /\ call'[r].target = call[r].target
    BY <1>1, <1>5, GotoIs, CallFields, Names
  <2>2. SettlesNext(r)'
    BY <1>1, <2>1, PendingStays DEF SettlesNext, StatusIsFound
  <2> QED BY <1>1, <1>2, <2>1, <2>2, WaitStep
<1> QED BY <1>3, <1>4, <1>5 DEF ReadRun

LEMMA UpdateRunWait ==
    ASSUME IInv, AloneInv, WaitInv, NEW r \in Runtimes, UpdateRun(r) PROVE WaitInv'
<1>1. /\ call[r].pc = "cas" /\ UNCHANGED <<step, confs>>
      /\ TypeOK /\ TypeInv /\ life[r] = "up" /\ SettlesNext(r) /\ StatusIsFound(r)
  BY UpFacts DEF UpdateRun
<1>2. CASE run' = Updated(r) /\ AfterUpdate(r)
  <2>1. run'.status = call[r].target
    BY <1>1, <1>2, UpdatedIs
  <2>2. WaitingFits'
    BY <1>1, <2>1, PendingStays DEF SettlesNext, WaitingFits
  <2>3. OnlyCallOf(r) /\ SettlesNext(r)'
    <3>1. CASE call' = [call EXCEPT ![r] = [@ EXCEPT !.pc = "start", !.n = 1]]
      <4>1. call \in [Runtimes -> Call] /\ 1 \in Nat /\ "start" \in ProgramPoints
        BY <1>1, Names DEF TypeOK
      <4>2. OnlyCallOf(r) /\ call'[r].pc = "start"
        BY <3>1, <4>1 DEF Call, OnlyCallOf
      <4> QED BY <4>2, FreeWait
    <3>2. CASE \/ Goto(r, "read", "begin", "running") \/ Goto(r, "start", call[r].cmd, call[r].target)
               \/ Goto(r, "finish", call[r].cmd, "cancelled")
               \/ Goto(r, "supersede", call[r].cmd, "cancelled")
      BY <1>1, <3>2, GotoIs, CallFields, Names, FreeWait
    <3>3. CASE Return(r) \/ Finished(r, "applied") \/ Finished(r, "failed")
      BY <1>1, <3>3, EndWait, Names
    <3> QED BY <1>2, <3>1, <3>2, <3>3 DEF AfterUpdate
  <2> QED BY <1>1, <2>2, <2>3, WaitStep
<1>3. CASE ~CanUpdate(r) /\ Throw(r) /\ UNCHANGED run
  <2>1. ~Decides(call[r])
    <3> SUFFICES ASSUME call[r].cmd \in Resolving PROVE FALSE
      BY <1>1 DEF Decides
    <3>1. /\ run.status = "waiting_confirmation" /\ r \in runSeen
          /\ call[r].target \in {"paused", "failed"}
      BY <1>1 DEF SettlesNext, StatusIsFound
    <3> QED BY <1>3, <3>1 DEF CanUpdate, RunMayBecome, RunTransitions
  <2>2. WaitingFits'
    BY <1>1, <1>3, <2>1, PendingStays, StillWaits
  <2> QED BY <1>1, <1>3, <2>2, ThrowWait, WaitStep
<1> QED BY <1>2, <1>3 DEF UpdateRun

LEMMA StartAttemptWait ==
    ASSUME IInv, AloneInv, WaitInv, NEW r \in Runtimes, StartAttempt(r) PROVE WaitInv'
<1>1. call[r].pc = "start" /\ TypeOK /\ life[r] = "up" /\ StatusIsFound(r)
  BY UpFacts DEF StartAttempt
<1>2. run.status = "running"
  BY <1>1 DEF StatusIsFound
<1>3. run'.status # "waiting_confirmation"
  BY <1>1, <1>2 DEF StartAttempt, TypeOK, RunRow
<1>4. OnlyCallOf(r) /\ SettlesNext(r)'
  BY <1>1, ThrowWait, EndWait, Names DEF StartAttempt, Started
<1> QED BY <1>1, <1>3, <1>4, WaitsNot, WaitStep

LEMMA PersistConfirmationWait ==
    ASSUME IInv, AloneInv, WaitInv, NEW r \in Runtimes, PersistConfirmation(r) PROVE WaitInv'
<1>1. /\ call[r].pc = "confirm" /\ UNCHANGED <<run, step>>
      /\ TypeOK /\ TypeInv /\ life[r] = "up"
  BY UpFacts DEF PersistConfirmation
<1>2. CASE Throw(r) /\ UNCHANGED confs
  <2>1. WaitingFits'
    BY <1>1, <1>2, PendingStays, StillWaits DEF Decides
  <2> QED BY <1>1, <1>2, <2>1, ThrowWait, WaitStep
<1>3. CASE /\ confs' = Append(confs, [status |-> "pending", lapsed |-> FALSE])
           /\ Goto(r, "finish", call[r].cmd, call[r].target)
  <2>1. PendingConfs' # {}
    <3>1. confs \in Seq(ConfRow) /\ [status |-> "pending", lapsed |-> FALSE] \in ConfRow
      BY <1>1 DEF TypeOK, ConfRow, ConfStatus
    <3>2. /\ Len(confs) + 1 \in DOMAIN confs'
          /\ confs'[Len(confs) + 1] = [status |-> "pending", lapsed |-> FALSE]
      BY <1>3, <3>1, AppendProperties, LenProperties
    <3> QED BY <3>2 DEF PendingConfs
  <2>2. OnlyCallOf(r) /\ call'[r].pc = "finish"
    BY <1>1, <1>3, GotoIs, CallFields, Names
  <2>3. SettlesNext(r)' /\ WaitingFits'
    BY <1>1, <2>1, <2>2, StillWaits DEF SettlesNext, Decides
  <2> QED BY <1>1, <2>2, <2>3, WaitStep
<1> QED BY <1>2, <1>3 DEF PersistConfirmation

LEMMA FinishAttemptWait ==
    ASSUME IInv, AloneInv, WaitInv, NEW r \in Runtimes, FinishAttempt(r) PROVE WaitInv'
<1>1. /\ call[r].pc = "finish" /\ UNCHANGED <<run, confs>> /\ TypeOK /\ TypeInv /\ life[r] = "up"
      /\ SettlesNext(r) /\ ExecutionFits(r) /\ call[r].target \in DOMAIN Outcome
  BY UpFacts DEF FinishAttempt, CallShape
<1> DEFINE n == active[r].attempt
           o == Outcome[call[r].target]
<1>2. CASE /\ n \in DOMAIN attempts /\ step' = [step EXCEPT !.status = o.step]
           /\ Goto(r, "read", call[r].cmd, call[r].target)
  <2>1. /\ OnlyCallOf(r) /\ call'[r].pc = "read" /\ call'[r].cmd = call[r].cmd
        /\ call'[r].target = call[r].target
    BY <1>1, <1>2, GotoIs, CallFields, Names
  <2>2. run'.status # "waiting_confirmation"
    BY <1>1, <1>2, Rows DEF IsActive, ExecutionFits
  <2>3. call[r].target = "waiting_confirmation" => step'.status = "waiting_confirmation"
    BY <1>1, <1>2 DEF TypeOK, StepRow, Outcome
  <2>4. SettlesNext(r)'
    BY <1>1, <2>1, <2>3, PendingStays DEF SettlesNext
  <2> QED BY <1>1, <2>1, <2>2, <2>4, WaitsNot, WaitStep
<1>3. CASE Throw(r) /\ UNCHANGED <<attempts, step>>
  <2>1. WaitingFits'
    BY <1>1, <1>3, PendingStays, StillWaits DEF Decides
  <2> QED BY <1>1, <1>3, <2>1, ThrowWait, WaitStep
<1> QED BY <1>2, <1>3 DEF FinishAttempt

LEMMA CreateControlOperationWait ==
    ASSUME IInv, AloneInv, WaitInv, NEW r \in Runtimes, CreateControlOperation(r) PROVE WaitInv'
<1>1. /\ call[r].pc = "op" /\ UNCHANGED <<run, step, confs>> /\ TypeOK /\ TypeInv
      /\ life[r] = "up" /\ SettlesNext(r) /\ CallShape(r)
  BY UpFacts DEF CreateControlOperation
<1>2. WaitingFits'
  BY <1>1, PendingStays, StillWaits DEF Decides
<1>3. CASE Throw(r) \/ Finished(r, call[r].verdict)
  BY <1>1, <1>2, <1>3, ThrowWait, EndWait, CallFields, WaitStep
<1>4. ASSUME ~(call[r].cmd \in Resolving /\ call[r].conf = 0), UNCHANGED <<runSeen, stepSeen>>,
             NEW pc \in {"cas", "check", "resolve"}, Goto(r, pc, call[r].cmd, call[r].target),
             pc = "cas" => call[r].cmd \in {"pause", "cancel"},
             pc = "resolve" => call[r].cmd \notin {"pause", "cancel"} \cup Resuming
      PROVE  WaitInv'
  <2>1. /\ OnlyCallOf(r) /\ call'[r].pc = pc /\ call'[r].cmd = call[r].cmd
        /\ call'[r].target = call[r].target /\ call'[r].conf = call[r].conf
    BY <1>1, <1>4, GotoIs, CallFields, Names DEF ProgramPoints
  <2>2. pc = "resolve" => call[r].cmd \in Resolving
    BY <1>1, <1>4 DEF CallShape, Resolving
  <2>3. SettlesNext(r)'
    BY <1>1, <1>4, <2>1, <2>2, PendingStays DEF SettlesNext, Resolving
  <2> QED BY <1>1, <1>2, <2>1, <2>3, WaitStep
<1>5. \/ Throw(r)
      \/ Finished(r, call[r].verdict)
      \/ /\ ~(call[r].cmd \in Resolving /\ call[r].conf = 0) /\ UNCHANGED <<runSeen, stepSeen>>
         /\ Goto(r, CASE call[r].cmd \in {"pause", "cancel"} -> "cas"
                      [] call[r].cmd \in Resuming            -> "check"
                      [] OTHER                               -> "resolve",
                 call[r].cmd, call[r].target)
  BY DEF CreateControlOperation
<1>6. Resuming \cap {"pause", "cancel"} = {}
  BY DEF Resuming
<1>7. CASE call[r].cmd \in {"pause", "cancel"}
  BY <1>3, <1>4, <1>5, <1>6, <1>7
<1>8. CASE call[r].cmd \in Resuming
  BY <1>3, <1>4, <1>5, <1>6, <1>8
<1>9. CASE call[r].cmd \notin {"pause", "cancel"} \cup Resuming
  BY <1>3, <1>4, <1>5, <1>9
<1> QED BY <1>7, <1>8, <1>9

LEMMA CompleteControlOperationWait ==
    ASSUME IInv, AloneInv, WaitInv, NEW r \in Runtimes, CompleteControlOperation(r) PROVE WaitInv'
<1>1. /\ call[r].pc = "done" /\ UNCHANGED <<run, step, confs>> /\ TypeOK /\ life[r] = "up"
      /\ Return(r)
  BY UpFacts DEF CompleteControlOperation
<1>2. WaitingFits'
  BY <1>1, PendingStays, StillWaits DEF Decides
<1> QED BY <1>1, <1>2, EndWait, Names, WaitStep

LEMMA CancelWait ==
    ASSUME IInv, AloneInv, WaitInv, NEW r \in Runtimes,
           SupersedeConfirmations(r) \/ CancelInactiveStep(r)
    PROVE  WaitInv'
<1>1. /\ call[r].pc \in {"supersede", "cancelStep"} /\ UNCHANGED run /\ TypeOK /\ TypeInv
      /\ life[r] = "up" /\ StatusIsFound(r)
  BY UpFacts DEF SupersedeConfirmations, CancelInactiveStep
<1>2. WaitingFits'
  BY <1>1, WaitsNot DEF StatusIsFound
<1>3. OnlyCallOf(r) /\ SettlesNext(r)'
  BY <1>1, GotoIs, CallFields, Names, FreeWait DEF SupersedeConfirmations, CancelInactiveStep
<1> QED BY <1>1, <1>2, <1>3, WaitStep

LEMMA ResumeWait ==
    ASSUME IInv, TypeOK', AloneInv, WaitInv, NEW r \in Runtimes,
           CheckResumable(r) \/ ResetStep(r) \/ RecoverRun(r)
    PROVE  WaitInv'
<1>1. /\ call[r].pc \in {"check", "reset", "recover"} /\ UNCHANGED run /\ TypeOK /\ TypeInv
      /\ life[r] = "up" /\ StatusIsFound(r) /\ call[r].cmd \in Resuming
  BY UpFacts DEF CheckResumable, ResetStep, RecoverRun, store, CallShape
<1>2. WaitingFits'
  BY <1>1, WaitsNot DEF StatusIsFound
<1>3. CASE Finished(r, "failed") \/ Return(r)
  BY <1>1, <1>2, <1>3, EndWait, Names, WaitStep
<1>4. CASE Goto(r, "cas", call[r].cmd, "paused") \/ Goto(r, "cas", call[r].cmd, "running")
  <2>1. /\ OnlyCallOf(r) /\ call'[r].pc = "cas" /\ call'[r].cmd = call[r].cmd
        /\ call'[r].target \in {"paused", "running"}
    BY <1>1, <1>4, GotoIs, CallFields, Names
  <2>2. SettlesNext(r)'
    BY <1>1, <2>1 DEF SettlesNext, Resuming, Resolving
  <2> QED BY <1>1, <1>2, <2>1, <2>2, WaitStep
<1>5. ASSUME NEW c, call' = [call EXCEPT ![r] = [@ EXCEPT !.pc = "reset",
                                          !.n = Len(attempts) + 1, !.conf = c]]
      PROVE  WaitInv'
  <2>1. OnlyCallOf(r) /\ call'[r].pc = "reset"
    BY <1>1, <1>5 DEF TypeOK, Call, OnlyCallOf
  <2> QED BY <1>1, <1>2, <2>1, FreeWait, WaitStep
<1>6. ASSUME NEW v, call' = [call EXCEPT ![r] = [@ EXCEPT !.pc = "op", !.op = StaleOp,
                                                          !.verdict = v]]
      PROVE  WaitInv'
  <2>1. OnlyCallOf(r) /\ call'[r].pc = "op" /\ call'[r].cmd = call[r].cmd
    BY <1>1, <1>6 DEF TypeOK, Call, OnlyCallOf
  <2>2. SettlesNext(r)'
    BY <1>1, <2>1 DEF SettlesNext, Resuming, Resolving
  <2> QED BY <1>1, <1>2, <2>1, <2>2, WaitStep
<1> QED BY <1>3, <1>4, <1>5, <1>6 DEF CheckResumable, ResetStep, RecoverRun

LEMMA ResolveConfirmationWait ==
    ASSUME IInv, AloneInv, WaitInv, NEW r \in Runtimes, ResolveConfirmation(r) PROVE WaitInv'
<1>1. /\ call[r].pc = "resolve" /\ UNCHANGED <<run, step>> /\ TypeOK /\ TypeInv
      /\ life[r] = "up" /\ SettlesNext(r) /\ CopyIsChecked(r)
  BY UpFacts DEF ResolveConfirmation
<1>2. r \in runSeen /\ r \in stepSeen /\ step.status = "waiting_confirmation"
  BY <1>1 DEF SettlesNext, CopyIsChecked
<1>3. CASE Return(r) /\ UNCHANGED confs
  <2>1. WaitingFits'
    BY <1>1, <1>3, PendingStays, StillWaits DEF Decides
  <2> QED BY <1>1, <1>3, <2>1, EndWait, Names, WaitStep
<1>4. CASE Goto(r, "settle", call[r].cmd, call[r].target) /\ UNCHANGED <<runSeen, stepSeen>>
  <2>1. OnlyCallOf(r) /\ call'[r].pc = "settle"
    BY <1>1, <1>4, GotoIs, CallFields, Names
  <2>2. SettlesNext(r)' /\ WaitingFits'
    BY <1>1, <1>2, <1>4, <2>1 DEF SettlesNext, WaitingFits, Decides
  <2> QED BY <1>1, <2>1, <2>2, WaitStep
<1>5. call[r].conf \in PendingConfs
  BY <1>1 DEF SettlesNext
<1> QED BY <1>3, <1>4, <1>5 DEF ResolveConfirmation

LEMMA ExpireReadWait ==
    ASSUME IInv, AloneInv, WaitInv, NEW r \in Runtimes, ExpireRead(r) PROVE WaitInv'
<1>1. /\ call[r].pc = "expireRead" /\ UNCHANGED <<run, step>> /\ TypeOK /\ life[r] = "up"
  BY UpFacts DEF ExpireRead, store
<1>2. CASE ~(run.status = "waiting_confirmation" /\ step.status = "waiting_confirmation")
           /\ Return(r)
  <2>1. WaitingFits'
    BY <1>1, <1>2, WaitsOf, WaitsNot
  <2> QED BY <1>1, <1>2, <2>1, EndWait, Names, WaitStep
<1>3. CASE /\ step.status = "waiting_confirmation" /\ Goto(r, "settle", "expire", "failed")
           /\ runSeen' = runSeen \cup {r} /\ stepSeen' = stepSeen \cup {r}
  <2>1. OnlyCallOf(r) /\ call'[r].pc = "settle"
    BY <1>1, <1>3, GotoIs, Names
  <2>2. SettlesNext(r)' /\ WaitingFits'
    BY <1>1, <1>3, <2>1 DEF SettlesNext, WaitingFits, Decides
  <2> QED BY <1>1, <2>1, <2>2, WaitStep
<1> QED BY <1>2, <1>3 DEF ExpireRead

LEMMA SettleStepWait ==
    ASSUME IInv, AloneInv, WaitInv, NEW r \in Runtimes, SettleStep(r) PROVE WaitInv'
<1>1. /\ call[r].pc = "settle" /\ UNCHANGED <<run, confs>> /\ TypeOK /\ TypeInv /\ life[r] = "up"
      /\ SettlesNext(r) /\ CallShape(r)
  BY UpFacts DEF SettleStep
<1>2. /\ r \in runSeen /\ r \in stepSeen
      /\ call[r].cmd \in Resolving /\ call[r].target \in {"paused", "failed"}
  BY <1>1 DEF SettlesNext, CallShape
<1>3. Goto(r, "cas", call[r].cmd, call[r].target) /\ UNCHANGED runSeen
  BY <1>2 DEF SettleStep
<1>4. /\ OnlyCallOf(r) /\ call'[r].pc = "cas" /\ call'[r].cmd = call[r].cmd
      /\ call'[r].target = call[r].target
  BY <1>1, <1>3, GotoIs, CallFields, Names
<1>5. SettlesNext(r)' /\ WaitingFits'
  BY <1>2, <1>3, <1>4 DEF SettlesNext, WaitingFits
<1> QED BY <1>1, <1>4, <1>5, WaitStep

LEMMA ClaimStaleRunWait ==
    ASSUME IInv, AloneInv, WaitInv, NEW r \in Runtimes, ClaimStaleRun(r) PROVE WaitInv'
<1>1. /\ call[r].pc = "claim" /\ UNCHANGED confs /\ TypeOK /\ life[r] = "up"
  BY UpFacts DEF ClaimStaleRun
<1>2. CASE Return(r) /\ UNCHANGED <<run, step>>
  <2>1. WaitingFits'
    BY <1>1, <1>2, PendingStays, StillWaits DEF Decides
  <2> QED BY <1>1, <1>2, <2>1, EndWait, Names, WaitStep
<1>3. CASE /\ run' = [run EXCEPT !.status = "paused", !.owner = r, !.leased = TRUE]
           /\ Goto(r, "recover", "recover", "running")
  <2>1. WaitingFits'
    BY <1>1, <1>3, WaitsNot DEF TypeOK, RunRow
  <2>2. OnlyCallOf(r) /\ SettlesNext(r)'
    BY <1>1, <1>3, GotoIs, Names, FreeWait
  <2> QED BY <1>1, <2>1, <2>2, WaitStep
<1> QED BY <1>2, <1>3 DEF ClaimStaleRun

\* What an idle runtime finds.
LEMMA UpIdle ==
    ASSUME IInv, AloneInv, WaitInv, NEW r \in Runtimes, Up(r)
    PROVE  TypeOK /\ TypeInv /\ life[r] = "up" /\ ~Decides(call[r]) /\ call[r].pc = "idle"
BY TypeOfIInv DEF Up, Decides

LEMMA CreateRunWait ==
    ASSUME IInv, AloneInv, WaitInv, NEW r \in Runtimes, CreateRun(r) PROVE WaitInv'
<1>1. TypeOK /\ life[r] = "up" /\ run'.status = "queued"
  BY UpIdle DEF CreateRun
<1>2. OnlyCallOf(r) /\ SettlesNext(r)'
  BY <1>1, GotoIs, Names, FreeWait DEF CreateRun
<1> QED BY <1>1, <1>2, WaitsNot, WaitStep

LEMMA EnterWait ==
    ASSUME IInv, AloneInv, WaitInv, NEW r \in Runtimes, NEW cmd \in Commands,
           NEW o \in Ops \cup {NoOp}, NEW c \in Nat, NEW target \in RunStatus,
           NEW verdict \in OpStatus, Enter(r, cmd, o, c, target, verdict),
           cmd \in {"pause", "cancel"} => target # "waiting_confirmation",
           cmd \in Resolving /\ c # 0 => r \in runSeen' /\ r \in stepSeen' /\ c \in PendingConfs
    PROVE  WaitInv'
<1>1. TypeOK /\ TypeInv /\ life[r] = "up" /\ ~Decides(call[r])
  BY UpIdle DEF Enter
<1>2. /\ UNCHANGED <<run, step, confs>>
      /\ OnlyCallOf(r) /\ call'[r].pc = "op" /\ call'[r].cmd = cmd /\ call'[r].target = target
      /\ call'[r].conf = c
  BY <1>1, EnterIs DEF store
<1>3. WaitingFits' /\ SettlesNext(r)'
  BY <1>1, <1>2, PendingStays, StillWaits DEF SettlesNext
<1> QED BY <1>1, <1>2, <1>3, WaitStep

LEMMA RequestControlWait ==
    ASSUME IInv, AloneInv, WaitInv, NEW r \in Runtimes, NEW o \in OpIds \cup {NoOp},
           NEW cmd \in {"pause", "cancel"}, RequestControl(r, cmd, o)
    PROVE  WaitInv'
<1> DEFINE target == ControlStatus(run.status, cmd, IsActive(r))
           verdict(v) == IF v = "applied" /\ ~ControlAllowed(run.status, cmd)
                         THEN "failed" ELSE v
<1>1. PICK v \in Versions : Enter(r, cmd, o, 0, target, verdict(v))
  BY DEF RequestControl
<1>2. target \in RunStatus /\ verdict(v) \in OpStatus
  BY <1>1, ControlIs DEF Enter, Exists, IsActive, OpStatus, Versions
<1>3. cmd \in Commands /\ cmd \notin Resolving /\ o \in Ops \cup {NoOp}
  BY DEF Commands, Resolving, Ops
<1>4. target # "waiting_confirmation"
  BY FitsOf DEF ExecutionFits, ControlStatus
<1> HIDE DEF target, verdict
<1> QED BY <1>1, <1>2, <1>3, <1>4, EnterWait

LEMMA RequestResumeWait ==
    ASSUME IInv, AloneInv, WaitInv, NEW r \in Runtimes, NEW o \in OpIds \cup {NoOp},
           NEW cmd \in {"resume", "retry"}, RequestResume(r, cmd, o)
    PROVE  WaitInv'
<1> DEFINE verdict(v) == IF v = "applied" /\ run.status \notin {"paused", "failed"}
                         THEN "failed" ELSE v
<1>1. PICK v \in Versions : Enter(r, cmd, o, 0, "running", verdict(v))
  BY DEF RequestResume
<1>2. verdict(v) \in OpStatus
  BY DEF OpStatus, Versions
<1>3. cmd \in Commands /\ cmd \notin Resolving /\ o \in Ops \cup {NoOp} /\ "running" \in RunStatus
  BY DEF Commands, Resolving, Ops, RunStatus
<1> HIDE DEF verdict
<1> QED BY <1>1, <1>2, <1>3, EnterWait

LEMMA ResolutionWait ==
    ASSUME IInv, AloneInv, WaitInv, NEW r \in Runtimes, NEW o \in OpIds \cup {NoOp},
           NEW c \in DOMAIN confs, NEW cmd \in {"approve", "reject"},
           RequestResolution(r, cmd, o, c) \/ RepeatResolution(r, cmd, o, c)
    PROVE  WaitInv'
<1>1. /\ cmd \in Commands /\ o \in Ops \cup {NoOp}
      /\ c \in Nat /\ "paused" \in RunStatus /\ "failed" \in RunStatus
      /\ "applied" \in OpStatus /\ Versions \subseteq OpStatus
  BY TypeOfIInv, Rows DEF Commands, Ops, RunStatus, OpStatus, Versions
<1>2. CASE RequestResolution(r, cmd, o, c)
  <2> DEFINE target == IF cmd = "approve" THEN "paused" ELSE "failed"
  <2>1. target \in RunStatus
    BY <1>1
  <2>2. PICK v \in Versions : Enter(r, cmd, o, c, target, v)
    BY <1>2 DEF RequestResolution
  <2>3. r \in runSeen' /\ r \in stepSeen' /\ c \in PendingConfs
    BY <1>2 DEF RequestResolution
  <2> HIDE DEF target
  <2> QED BY <1>1, <2>1, <2>2, <2>3, EnterWait
<1>3. CASE RepeatResolution(r, cmd, o, c)
  <2>1. Enter(r, cmd, o, 0, "paused", "applied")
    BY <1>3 DEF RepeatResolution
  <2> QED BY <1>1, <2>1, EnterWait
<1> QED BY <1>2, <1>3

LEMMA PauseForMemoryRevisionWait ==
    ASSUME IInv, TypeOK', AloneInv, WaitInv, NEW r \in Runtimes, PauseForMemoryRevision(r)
    PROVE  WaitInv'
<1> DEFINE target == ControlStatus("running", "pause", IsActive(r))
<1>1. TypeOK /\ life[r] = "up" /\ run'.status # "waiting_confirmation"
  BY UpIdle DEF PauseForMemoryRevision, store
<1>2. target # "waiting_confirmation"
  BY DEF ControlStatus
<1> HIDE DEF target
<1>3. /\ OnlyCallOf(r) /\ call'[r].pc = "op" /\ call'[r].cmd = "pause" /\ call'[r].target = target
  BY <1>1 DEF PauseForMemoryRevision, target, TypeOK, Call, Idle, OnlyCallOf
<1>4. SettlesNext(r)'
  BY <1>2, <1>3 DEF SettlesNext, Resolving
<1> QED BY <1>1, <1>3, <1>4, WaitsNot, WaitStep

\* An idle runtime's step in which it enters no method.
LEMMA IdleWait ==
    ASSUME IInv, AloneInv, WaitInv, NEW r \in Runtimes, Up(r), UNCHANGED call,
           run'.status = run.status, step'.status = step.status, PendingConfs' = PendingConfs
    PROVE  WaitInv'
<1>1. TypeOK /\ life[r] = "up" /\ call[r].pc = "idle" /\ OnlyCallOf(r)
  BY UpIdle DEF OnlyCallOf, TypeOK
<1>2. WaitingFits' /\ SettlesNext(r)'
  BY <1>1, UpIdle, StillWaits, FreeWait
<1> QED BY <1>1, <1>2, WaitStep

LEMMA BodyWait ==
    ASSUME IInv, AloneInv, WaitInv, NEW r \in Runtimes, Body(r) PROVE WaitInv'
<1>1. CASE BodyReturns(r) \/ BodyThrows(r)
  <2>1. TypeOK /\ life[r] = "up" /\ ~Decides(call[r]) /\ UNCHANGED <<run, step, confs>>
    BY <1>1, UpIdle DEF BodyReturns, BodyThrows, store
  <2>2. WaitingFits'
    BY <2>1, PendingStays, StillWaits
  <2>3. ASSUME NEW aborted, FailWith(r, aborted) PROVE OnlyCallOf(r) /\ SettlesNext(r)'
    BY <2>1, <2>3, FailWithIs, FreeWait
  <2>4. CASE \/ Goto(r, "finish", "complete", "paused")
             \/ Goto(r, "finish", "complete", "completed")
             \/ Goto(r, "confirm", "complete", "waiting_confirmation")
             \/ Goto(r, "read", "complete", "cancelling")
    BY <2>1, <2>2, <2>4, GotoIs, Names, FreeWait, WaitStep
  <2>5. CASE \E aborted \in BOOLEAN : FailWith(r, aborted)
    BY <2>1, <2>2, <2>3, <2>5, WaitStep
  <2> QED BY <1>1, <2>4, <2>5 DEF BodyReturns, BodyThrows
<1>2. CASE RecordProgress(r) \/ ModelBudgetRefused(r)
  BY <1>2, PendingStays, IdleWait DEF RecordProgress, ModelBudgetRefused, store
<1>3. CASE ConsumeReceipt(r)
  <2>1. PendingConfs' = PendingConfs
    BY <1>3, TypeOfIInv, Rows DEF ConsumeReceipt, PendingConfs, ConfRow
  <2> QED BY <1>3, <2>1, IdleWait DEF ConsumeReceipt
<1> QED BY <1>1, <1>2, <1>3 DEF Body

LEMMA HeartbeatWait ==
    ASSUME IInv, AloneInv, WaitInv, NEW r \in Runtimes, Heartbeat(r) PROVE WaitInv'
<1>1. CASE RenewLease(r)
  <2>1. run'.status = run.status
    BY <1>1, TypeOfIInv DEF RenewLease, TypeOK, RunRow
  <2> QED BY <1>1, <2>1, PendingStays, IdleWait DEF RenewLease
<1>2. ASSUME NEW c \in DOMAIN confs, ExpireConfirmation(r, c) PROVE WaitInv'
  <2>1. TypeOK /\ life[r] = "up" /\ ~Decides(call[r]) /\ UNCHANGED <<run, step>>
    BY <1>2, UpIdle DEF ExpireConfirmation
  <2>2. OnlyCallOf(r) /\ call'[r].pc = "expireRead"
    BY <1>2, <2>1, GotoIs, Names DEF ExpireConfirmation
  <2>3. WaitingFits'
    BY <2>1, <2>2, WaitsOf DEF WaitingFits, Decides
  <2> QED BY <2>1, <2>2, <2>3, FreeWait, WaitStep
<1> QED BY <1>1, <1>2 DEF Heartbeat

LEMMA DeleteRunWait ==
    ASSUME IInv, AloneInv, WaitInv, NEW r \in Runtimes, DeleteRun(r) PROVE WaitInv'
<1>1. TypeOK /\ life[r] = "up" /\ call[r].pc = "idle" /\ UNCHANGED call
  BY UpIdle DEF DeleteRun
<1>2. run'.status = "deleted"
  BY <1>1 DEF DeleteRun, TypeOK, RunRow
<1>3. OnlyCallOf(r) /\ SettlesNext(r)'
  BY <1>1, FreeWait DEF OnlyCallOf, TypeOK
<1> QED BY <1>1, <1>2, <1>3, WaitsNot, WaitStep

LEMMA CloseWait ==
    ASSUME IInv, AloneInv, WaitInv, NEW r \in Runtimes, Close(r) PROVE WaitInv'
<1>1. TypeOK /\ life[r] = "up" /\ ~Decides(call[r]) /\ UNCHANGED <<run, step, confs>>
  BY UpIdle DEF Close, store
<1>2. WaitingFits'
  BY <1>1, PendingStays, StillWaits
<1>3. CASE Goto(r, "finish", "close", "paused")
  BY <1>1, <1>2, <1>3, GotoIs, Names, FreeWait, WaitStep
<1>4. CASE UNCHANGED call
  BY <1>1, <1>4, PendingStays, IdleWait DEF Close
<1> QED BY <1>3, <1>4 DEF Close

LEMMA RegisterRuntimeWait ==
    ASSUME IInv, AloneInv, WaitInv, ~MayOverlap, NEW r \in Runtimes, RegisterRuntime(r)
    PROVE  WaitInv'
<1>1. TypeOK /\ UNCHANGED <<run, step, confs>>
  BY TypeOfIInv DEF RegisterRuntime, store
<1>2. \A q \in Runtimes : call[q].pc = "idle"
  BY DEF RegisterRuntime, AloneInv, OneUp
<1>3. OnlyCallOf(r) /\ call'[r].pc = "claim"
  BY <1>1, GotoIs, Names DEF RegisterRuntime
<1>4. \A q \in Runtimes : call'[q].pc \in {"idle", "claim"}
  BY <1>2, <1>3 DEF OnlyCallOf
<1>5. WaitingFits'
  BY <1>1, <1>2, PendingStays DEF WaitInv, WaitingFits, Decides
<1> QED BY <1>4, <1>5 DEF WaitInv, SettlesNext

LEMMA EnvironmentWait ==
    ASSUME IInv, AloneInv, WaitInv, Environment \/ UNCHANGED vars PROVE WaitInv'
<1>1. /\ run'.status = run.status /\ UNCHANGED <<step, runSeen, stepSeen, call>>
      /\ PendingConfs' = PendingConfs
  <2>1. CASE LeaseLapses
    <3>1. run'.status = run.status
      BY <2>1, TypeOfIInv DEF LeaseLapses, TypeOK, RunRow
    <3> QED BY <2>1, <3>1, PendingStays DEF LeaseLapses
  <2>2. CASE DeadlinePasses \/ UNCHANGED vars
    BY <2>2, PendingStays DEF DeadlinePasses, vars
  <2>3. ASSUME NEW c \in DOMAIN confs, ConfirmationLapses(c)
        PROVE  /\ PendingConfs' = PendingConfs
               /\ UNCHANGED <<run, step, runSeen, stepSeen, call>>
    BY <2>3, TypeOfIInv, Rows DEF ConfirmationLapses, PendingConfs, ConfRow
  <2> QED BY <2>1, <2>2, <2>3 DEF Environment
<1>2. WaitingFits'
  BY <1>1 DEF WaitInv, WaitingFits
<1>3. ASSUME NEW q \in Runtimes PROVE SettlesNext(q)'
  BY <1>1 DEF WaitInv, SettlesNext
<1> QED BY <1>2, <1>3 DEF WaitInv

LEMMA ProceedWait ==
    ASSUME IInv, IInv', AloneInv, WaitInv, NEW r \in Runtimes, Proceed(r) PROVE WaitInv'
<1>1. TypeOK'
  BY DEF IInv, TypeInv
<1> QED BY <1>1, ReadRunWait, UpdateRunWait, StartAttemptWait, PersistConfirmationWait,
           FinishAttemptWait, CreateControlOperationWait, CompleteControlOperationWait,
           CancelWait, ResumeWait, ResolveConfirmationWait, ExpireReadWait, SettleStepWait,
           ClaimStaleRunWait DEF Proceed

LEMMA CommandWait ==
    ASSUME IInv, IInv', AloneInv, WaitInv, NEW r \in Runtimes, Command(r) PROVE WaitInv'
<1>1. TypeOK'
  BY DEF IInv, TypeInv
<1>2. ASSUME NEW o \in OpIds \cup {NoOp}, NEW cmd \in Sent \cap {"pause", "cancel"},
             RequestControl(r, cmd, o)
      PROVE  WaitInv'
  BY <1>2, RequestControlWait
<1>3. ASSUME NEW o \in OpIds \cup {NoOp}, NEW cmd \in Sent \cap {"resume", "retry"},
             RequestResume(r, cmd, o)
      PROVE  WaitInv'
  BY <1>3, RequestResumeWait
<1>4. ASSUME NEW o \in OpIds \cup {NoOp}, NEW c \in DOMAIN confs,
             NEW cmd \in Sent \cap {"approve", "reject"},
             RequestResolution(r, cmd, o, c) \/ RepeatResolution(r, cmd, o, c)
      PROVE  WaitInv'
  BY <1>4, ResolutionWait
<1> QED BY <1>1, <1>2, <1>3, <1>4, CreateRunWait, PauseForMemoryRevisionWait, DeleteRunWait
        DEF Command

LEMMA NextWait ==
    ASSUME IInv, IInv', AloneInv, WaitInv, ~MayOverlap, ~MayCrash, [Next]_vars PROVE WaitInv'
<1>1. ASSUME NEW r \in Runtimes,
             \/ RegisterRuntime(r) \/ Proceed(r) \/ Command(r) \/ Body(r)
             \/ Heartbeat(r) \/ Close(r) \/ Crash(r)
      PROVE  WaitInv'
  BY <1>1, RegisterRuntimeWait, ProceedWait, CommandWait, BodyWait, HeartbeatWait, CloseWait
     DEF Crash
<1> QED BY <1>1, EnvironmentWait DEF Next

\* As long as runtimes neither overlap nor crash, a run that waits is answered or
\* settled: nothing that settles it is lost on the way.
THEOREM WaitInvariance == ASSUME ~MayOverlap, ~MayCrash PROVE Spec => []WaitInv
<1>1. Init => WaitInv
  <2> SUFFICES ASSUME Init PROVE WaitInv
    OBVIOUS
  <2>1. \A r \in Runtimes : call[r].pc = "idle"
    BY IdleIs DEF Init
  <2> QED BY <2>1 DEF Init, WaitInv, WaitingFits, SettlesNext
<1>2. IInv /\ IInv' /\ AloneInv /\ WaitInv /\ [Next]_vars => WaitInv'
  BY NextWait
<1> QED BY <1>1, <1>2, Invariance, AloneInvariance, PTL DEF Spec

\* A run that waits for a confirmation has one that can be answered, and the step
\* that the answer settles, as long as runtimes neither overlap nor crash.
THEOREM WaitingIsAnswerableAlways ==
    ASSUME ~MayOverlap, ~MayCrash PROVE Spec => []WaitingIsAnswerable
<1>1. WaitInv => WaitingIsAnswerable
  BY DEF WaitInv, WaitingFits, WaitingIsAnswerable, Decides
<1> QED BY <1>1, WaitInvariance, PTL

=============================================================================
