----------------------------- MODULE NovelTasks -----------------------------
(***************************************************************************)
(* The background tasks of NovelAgentControlService                        *)
(* (apps/desktop-shell/src/main/novel-agent-control-service.ts): a task    *)
(* runs the files of a project one after another, each as a durable run    *)
(* of its own, under a budget; the user pauses, resumes and cancels it,    *)
(* and the application may quit or crash at any moment.                    *)
(*                                                                         *)
(* Everything the service knows is one object in memory and one JSON file. *)
(* A mutation changes the object and then awaits the writing of the file,  *)
(* one mutation after another behind a barrier; whoever only reads sees    *)
(* the object as it is, written or not.                                    *)
(***************************************************************************)
EXTENDS Naturals, FiniteSets

CONSTANTS
    Tasks,
    Operations,   \* operation ids: the commands users give, each perhaps more than once
    Units,        \* total_units of a task, the number of its files
    Budgets,      \* the values of budget.max_steps
    MaxLaunches   \* bound: launches of the application

ASSUME TasksAssumption ==
    /\ Tasks # {} /\ Units \in Nat \ {0} /\ Budgets \subseteq Nat \ {0} /\ MaxLaunches \in Nat

VARIABLES
    mem,       \* the state object: the tasks, and the consumed operation ids
    disk,      \* the state file
    writer,    \* who awaits the writing of the file, behind the barrier
    runner,    \* runTask of each task, "off" when it is not in scheduledTasks
    request,   \* controlBackgroundTask with each operation id
    unitRun,   \* the durable run of each unit, in the project's execution store
    launches   \* launches so far; 0 processes when the application is down

vars == <<mem, disk, writer, runner, request, unitRun, launches>>

Nobody    == <<"nobody", 0>>
Runner(t) == <<"runner", t>>
Asker(o)  == <<"request", o>>
Quitting  == <<"quit", 0>>

Status  == {"absent", "queued", "running", "paused", "paused_budget_exhausted",
            "completed", "failed", "cancelled"}
Actions == {"pause", "resume", "cancel"}
UnitIds == 1..Units

NewTask  == [status |-> "absent", done |-> 0, steps |-> 0, budget |-> 1]
Off      == [pc |-> "off", unit |-> 1, result |-> ""]
NoAsk    == [pc |-> "idle", task |-> CHOOSE t \in Tasks : TRUE, action |-> "pause",
             expected |-> "queued", times |-> 0, answered |-> FALSE]

Up == launches.up

Init ==
    /\ mem = [task |-> [t \in Tasks |-> NewTask], ops |-> {}]
    /\ disk = mem
    /\ writer = Nobody
    /\ runner = [t \in Tasks |-> Off]
    /\ request = [o \in Operations |-> NoAsk]
    /\ unitRun = [t \in Tasks |-> [u \in UnitIds |-> "none"]]
    /\ launches = [count |-> 1, up |-> TRUE]

(***************************************************************************)
(* mutate and writeState.                                                  *)
(***************************************************************************)

\* The barrier is free, the object changes, and `who' awaits the file.
Mutate(who, m) == writer = Nobody /\ mem' = m /\ writer' = who

SetTask(t, row) == [mem EXCEPT !.task[t] = row]
StatusOf(t)     == mem.task[t].status

\* The process ends: what it held in memory is gone, whoever awaited an answer
\* gets none, and the units that were running stay behind in their store.
Down(file) ==
    /\ launches' = [launches EXCEPT !.up = FALSE]
    /\ mem' = file /\ disk' = file /\ writer' = Nobody
    /\ runner' = [t \in Tasks |-> Off]
    /\ request' = [o \in Operations |-> IF request[o].pc \in {"reserve", "apply", "applied"}
                                        THEN [request[o] EXCEPT !.pc = "lost"] ELSE request[o]]
    /\ unitRun' = [t \in Tasks |-> [u \in UnitIds |->
                     IF unitRun[t][u] = "running" THEN "stopped" ELSE unitRun[t][u]]]

WriteState ==
    /\ writer # Nobody
    /\ IF writer = Quitting
       THEN Down(mem)
       ELSE /\ disk' = mem /\ writer' = Nobody
            /\ UNCHANGED <<mem, runner, request, unitRun, launches>>

(***************************************************************************)
(* createBackgroundTask and scheduleTask.                                  *)
(***************************************************************************)

Go(t, pc)     == runner' = [runner EXCEPT ![t].pc = pc]
Finish(t, st) == runner' = [runner EXCEPT ![t].pc = "finish", ![t].result = st]

\* The task is in the object and in the file before it is scheduled.
Create(t) ==
    /\ Up /\ StatusOf(t) = "absent" /\ runner[t].pc = "off"
    /\ \E b \in Budgets :
         Mutate(Runner(t), SetTask(t, [NewTask EXCEPT !.status = "queued", !.budget = b]))
    /\ Go(t, "scheduled")
    /\ UNCHANGED <<disk, request, unitRun, launches>>

(***************************************************************************)
(* runTask.                                                                *)
(***************************************************************************)

\* The runner does not await the file.
At(t, pc) == Up /\ runner[t].pc = pc /\ writer # Runner(t)

Wake(t) ==
    /\ At(t, "scheduled")
    /\ Go(t, IF StatusOf(t) = "queued" THEN "claim" ELSE "off")
    /\ UNCHANGED <<mem, disk, writer, request, unitRun, launches>>

\* The status is looked at again, and the run goes on whatever it is.
Claim(t) ==
    /\ At(t, "claim")
    /\ Mutate(Runner(t), IF StatusOf(t) = "queued"
                         THEN [mem EXCEPT !.task[t].status = "running"] ELSE mem)
    /\ runner' = [runner EXCEPT ![t].pc = "unit", ![t].unit = 1]
    /\ UNCHANGED <<disk, request, unitRun, launches>>

\* Mutant: the budget is compared with the units of this launch.
NextUnitAfresh(t) ==
    /\ At(t, "unit")
    /\ LET u == runner[t].unit
           b == mem.task[t]
       IN  \/ u > Units /\ Finish(t, "completed")
           \/ u <= Units /\ u <= b.done /\ runner' = [runner EXCEPT ![t].unit = u + 1]
           \/ u <= Units /\ u > b.done /\ b.status # "running" /\ runner' = [runner EXCEPT ![t] = Off]
           \/ u <= Units /\ u > b.done /\ b.status = "running" /\ Go(t, "begin")
    /\ UNCHANGED <<mem, disk, writer, request, unitRun, launches>>

\* Mutant: a task whose budget is exhausted is left without being finished.
NextUnitLeaves(t) ==
    /\ At(t, "unit")
    /\ LET u == runner[t].unit
           b == mem.task[t]
       IN  \/ u > Units /\ Finish(t, "completed")
           \/ u <= Units /\ u <= b.done /\ runner' = [runner EXCEPT ![t].unit = u + 1]
           \/ u <= Units /\ u > b.done /\ b.status # "running" /\ runner' = [runner EXCEPT ![t] = Off]
           \/ /\ u <= Units /\ u > b.done /\ b.status = "running"
              /\ IF b.steps < b.budget THEN Go(t, "begin") ELSE runner' = [runner EXCEPT ![t] = Off]
    /\ UNCHANGED <<mem, disk, writer, request, unitRun, launches>>

\* The head of the loop: a unit already counted is skipped, a task that is no
\* longer running is left.  An exhausted budget and a passed deadline end the
\* task, and so does an input that has been edited: either may be found at any
\* unit.  After the last unit the report is saved once more.
NextUnit(t) ==
    /\ At(t, "unit")
    /\ LET u == runner[t].unit
           b == mem.task[t]
       IN  \/ u > Units /\ (Finish(t, "completed") \/ Finish(t, "failed"))
           \/ u <= Units /\ u <= b.done /\ runner' = [runner EXCEPT ![t].unit = u + 1]
           \/ u <= Units /\ u > b.done /\ b.status # "running" /\ runner' = [runner EXCEPT ![t] = Off]
           \/ /\ u <= Units /\ u > b.done /\ b.status = "running"
              /\ \/ b.steps < b.budget /\ (Go(t, "begin") \/ Finish(t, "failed"))
                 \/ Finish(t, "paused_budget_exhausted")
    /\ UNCHANGED <<mem, disk, writer, request, unitRun, launches>>

\* beginRun under a request id that names the task, the unit and its input: a
\* run that completed answers again, any other is refused.
BeginUnit(t) ==
    /\ At(t, "begin")
    /\ LET u == runner[t].unit
       IN  CASE unitRun[t][u] = "none" ->
                  /\ unitRun' = [unitRun EXCEPT ![t][u] = "running"] /\ Go(t, "model")
             [] unitRun[t][u] = "completed" -> Go(t, "count") /\ UNCHANGED unitRun
             [] OTHER -> Finish(t, "failed") /\ UNCHANGED unitRun
    /\ UNCHANGED <<mem, disk, writer, request, launches>>

\* Mutant: a unit that failed is counted like any other.
UnitAnswersAnyhow(t) ==
    /\ At(t, "model")
    /\ \E outcome \in {"completed", "failed"} :
         unitRun' = [unitRun EXCEPT ![t][runner[t].unit] = outcome]
    /\ Go(t, "count")
    /\ UNCHANGED <<mem, disk, writer, request, launches>>

\* The model answers and the report so far is saved, or one of the two fails, or
\* the run goes over its budget.
UnitAnswers(t) ==
    /\ At(t, "model")
    /\ \E outcome \in {"completed", "failed"} :
         /\ unitRun' = [unitRun EXCEPT ![t][runner[t].unit] = outcome]
         /\ \/ outcome = "completed" /\ Go(t, "count")
            \/ Finish(t, "failed")
            \/ outcome = "failed" /\ Finish(t, "paused_budget_exhausted")
    /\ UNCHANGED <<mem, disk, writer, request, launches>>

\* A unit counts only if the task is still running.
Count(t) ==
    /\ At(t, "count")
    /\ Mutate(Runner(t), IF StatusOf(t) = "running"
                         THEN SetTask(t, [mem.task[t] EXCEPT !.done = @ + 1, !.steps = @ + 1])
                         ELSE mem)
    /\ runner' = [runner EXCEPT ![t].pc = "unit", ![t].unit = @ + 1]
    /\ UNCHANGED <<disk, request, unitRun, launches>>

\* Mutant: the task ends as its run did, whatever has become of it since.
FinishTaskAnyhow(t) ==
    /\ At(t, "finish")
    /\ Mutate(Runner(t), [mem EXCEPT !.task[t].status = runner[t].result])
    /\ runner' = [runner EXCEPT ![t] = [Off EXCEPT !.pc = "ended"]]
    /\ UNCHANGED <<disk, request, unitRun, launches>>

\* finishTask leaves a cancelled and a paused task as it is.
FinishTask(t) ==
    /\ At(t, "finish")
    /\ Mutate(Runner(t), IF StatusOf(t) \in {"cancelled", "paused"} THEN mem
                         ELSE [mem EXCEPT !.task[t].status = runner[t].result])
    /\ runner' = [runner EXCEPT ![t] = [Off EXCEPT !.pc = "ended"]]
    /\ UNCHANGED <<disk, request, unitRun, launches>>

\* The task leaves scheduledTasks when runTask has returned.
Return(t) ==
    /\ At(t, "ended")
    /\ runner' = [runner EXCEPT ![t] = Off]
    /\ UNCHANGED <<mem, disk, writer, request, unitRun, launches>>

(***************************************************************************)
(* controlBackgroundTask: the operation id is consumed in one mutation,    *)
(* the action taken in the next.                                           *)
(***************************************************************************)

Asking(o, pc) == Up /\ request[o].pc = pc /\ writer # Asker(o)
Asked(o, pc)  == request' = [request EXCEPT ![o].pc = pc]
Throw(o)      == Asked(o, IF request[o].answered THEN "done" ELSE "refused")

\* What the service accepts in a status, which is also what the workbench offers.
Offered(s) ==
    CASE s = "paused"                                -> {"resume", "cancel"}
      [] s \in {"queued", "running"}                 -> {"pause", "cancel"}
      [] s \in {"failed", "paused_budget_exhausted"} -> {"cancel"}
      [] OTHER                                       -> {}

\* The user acts on the status the workbench shows.
Ask(o) ==
    /\ Up /\ request[o].pc = "idle"
    /\ \E t \in Tasks : \E a \in Offered(StatusOf(t)) :
         request' = [request EXCEPT ![o] = [pc |-> "reserve", task |-> t, action |-> a,
                                            expected |-> StatusOf(t), times |-> 0,
                                            answered |-> FALSE]]
    /\ UNCHANGED <<mem, disk, writer, runner, unitRun, launches>>

\* The same request once more: its answer was lost, or it is sent twice.
Repeat(o) ==
    /\ Up /\ request[o].pc \in {"lost", "done"}
    /\ Asked(o, "reserve")
    /\ UNCHANGED <<mem, disk, writer, runner, unitRun, launches>>

\* Mutant: an operation id is consumed again.
ReserveAgain(o) ==
    /\ Asking(o, "reserve") /\ writer = Nobody
    /\ Mutate(Asker(o), [mem EXCEPT !.ops = @ \cup {o}]) /\ Asked(o, "apply")
    /\ UNCHANGED <<disk, runner, unitRun, launches>>

Reserve(o) ==
    /\ Asking(o, "reserve") /\ writer = Nobody
    /\ IF o \in mem.ops
       THEN Throw(o) /\ UNCHANGED <<mem, writer>>
       ELSE Mutate(Asker(o), [mem EXCEPT !.ops = @ \cup {o}]) /\ Asked(o, "apply")
    /\ UNCHANGED <<disk, runner, unitRun, launches>>

\* The status that follows: a task resumed after its deadline has no budget left.
After(action) ==
    CASE action = "resume" -> {"queued", "paused_budget_exhausted"}
      [] action = "pause"  -> {"paused"}
      [] action = "cancel" -> {"cancelled"}

Apply(o) ==
    /\ Asking(o, "apply") /\ writer = Nobody
    /\ LET q == request[o]
       IN  IF StatusOf(q.task) # q.expected
           THEN Throw(o) /\ UNCHANGED <<mem, writer>>
           ELSE /\ \E st \in After(q.action) :
                     Mutate(Asker(o), [mem EXCEPT !.task[q.task].status = st])
                /\ request' = [request EXCEPT ![o].pc = "applied", ![o].times = @ + 1]
    /\ UNCHANGED <<disk, runner, unitRun, launches>>

\* A task found queued is scheduled, unless it is scheduled already.
Answer(o) ==
    /\ Asking(o, "applied")
    /\ request' = [request EXCEPT ![o].pc = "done", ![o].answered = TRUE]
    /\ LET t == request[o].task
       IN  IF StatusOf(t) = "queued" /\ runner[t].pc = "off" THEN Go(t, "scheduled")
                                                             ELSE UNCHANGED runner
    /\ UNCHANGED <<mem, disk, writer, unitRun, launches>>

(***************************************************************************)
(* The application and its surroundings.                                   *)
(***************************************************************************)

Interrupted(s) == s \in {"queued", "running"}
Paused(m)      == [m EXCEPT !.task = [t \in Tasks |->
                     IF Interrupted(m.task[t].status) THEN [m.task[t] EXCEPT !.status = "paused"]
                                                      ELSE m.task[t]]]

\* pauseAll, then the process ends; without a task to pause it ends at once.
Quit ==
    /\ Up /\ writer = Nobody
    /\ IF \E t \in Tasks : Interrupted(StatusOf(t))
       THEN Mutate(Quitting, Paused(mem)) /\ UNCHANGED launches
            /\ UNCHANGED <<disk, runner, request, unitRun>>
       ELSE Down(mem)

Crash == Up /\ Down(disk)

\* loadState reads the file and pauses what was queued or running.
Launch ==
    /\ ~Up /\ launches.count < MaxLaunches
    /\ launches' = [count |-> launches.count + 1, up |-> TRUE]
    /\ mem' = Paused(disk) /\ disk' = Paused(disk)
    /\ UNCHANGED <<writer, runner, request, unitRun>>

RunTask(t) ==
    \/ Wake(t) \/ Claim(t) \/ NextUnit(t) \/ BeginUnit(t) \/ UnitAnswers(t) \/ Count(t)
    \/ FinishTask(t) \/ Return(t)

Control(o) == Reserve(o) \/ Apply(o) \/ Answer(o)

Next ==
    \/ \E t \in Tasks : Create(t) \/ RunTask(t)
    \/ \E o \in Operations : Ask(o) \/ Repeat(o) \/ Control(o)
    \/ WriteState \/ Quit \/ Crash \/ Launch

\* While the application is up its event loop runs every continuation, files are
\* written, and a model call answers or fails.  The barrier serves the mutations
\* in the order of their calls, so each is strongly fair.
Fairness ==
    /\ \A t \in Tasks : SF_vars(RunTask(t))
    /\ \A o \in Operations : SF_vars(Control(o))
    /\ WF_vars(WriteState)

Spec == Init /\ [][Next]_vars /\ Fairness

-----------------------------------------------------------------------------
(***************************************************************************)
(* Properties.                                                             *)
(***************************************************************************)

Rows == [status : Status, done : 0..Units, steps : 0..Units, budget : Budgets \cup {1}]

States == [task : [Tasks -> Rows], ops : SUBSET Operations]

\* The shape of the state.
TypeOK ==
    /\ mem \in States /\ disk \in States
    /\ writer \in {Nobody, Quitting} \cup {Runner(t) : t \in Tasks} \cup {Asker(o) : o \in Operations}
    /\ runner \in [Tasks -> [pc : {"off", "scheduled", "claim", "unit", "begin", "model", "count",
                                   "finish", "ended"},
                             unit : 1..(Units + 1), result : Status \cup {""}]]
    /\ request \in [Operations -> [pc : {"idle", "reserve", "apply", "applied", "done", "refused", "lost"},
                                   task : Tasks, action : Actions, expected : Status, times : Nat,
                                   answered : BOOLEAN]]
    /\ unitRun \in [Tasks -> [UnitIds -> {"none", "running", "completed", "failed", "stopped"}]]
    /\ launches \in [count : 1..(MaxLaunches + 1), up : BOOLEAN]

Ran(t) == {u \in UnitIds : unitRun[t][u] = "completed"}

\* A task is completed only when every unit has a run that completed, however
\* often it was paused, resumed and restarted in between; and what is counted
\* as done is a prefix of the units, each with a completed run.
CompletedRanEverything ==
    \A t \in Tasks : /\ StatusOf(t) = "completed" => Ran(t) = UnitIds
                     /\ 1..mem.task[t].done \subseteq Ran(t)

\* The step budget bounds the runs that were started, not only those counted:
\* a unit whose run was not counted is the next one to be tried.
RunsWithinBudget ==
    \A t \in Tasks : Cardinality({u \in UnitIds : unitRun[t][u] # "none"}) <= mem.task[t].budget

\* Once the user is told that a task is cancelled it stays so, in memory and
\* on disk, through everything its runner still does and through a crash.
CancelledForGood ==
    \A o \in Operations : request[o].pc = "done" /\ request[o].action = "cancel" =>
        mem.task[request[o].task].status = "cancelled" /\ disk.task[request[o].task].status = "cancelled"

\* A command is carried out at most once, however often it is sent, also when
\* the application crashed after the id was consumed.
CommandOnce == \A o \in Operations : request[o].times <= 1

\* A running task ends, or is paused, or the application goes down.
RunningEnds == \A t \in Tasks : (Up /\ StatusOf(t) = "running") ~> (~Up \/ StatusOf(t) # "running")

=============================================================================
