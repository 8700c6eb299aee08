-------------------------- MODULE NovelTasksProofs --------------------------
(***************************************************************************)
(* The invariant of NovelTasks, for any number of tasks, units, commands   *)
(* and launches, and what follows from it.                                 *)
(***************************************************************************)
EXTENDS NovelTasks, FiniteSetTheorems, TLAPS

-----------------------------------------------------------------------------
(* The invariant, in parts that speak of one row, one runner, one command. *)

Done(runs)    == {u \in UnitIds : runs[u] = "completed"}
Started(runs) == {u \in UnitIds : runs[u] # "none"}

\* What a row of a task, in memory or in the file, says of its units' runs.
RowFits(row, runs) ==
    /\ row.steps = row.done
    /\ 1..row.done \subseteq Done(runs)
    /\ row.status = "completed" => Done(runs) = UnitIds
    /\ Started(runs) \subseteq 1..row.budget
    /\ row.status = "absent" => Started(runs) = {}

\* What a runner knows at its place in runTask.  After a unit that was not
\* counted it is one unit further, and leaves at the next look at the status.
RunnerFits(rn, row, runs) ==
    /\ rn.pc # "off" => row.status # "absent"
    /\ rn.pc \in {"unit", "begin", "model", "count"} => 1..(rn.unit - 1) \subseteq Done(runs)
    /\ rn.pc = "unit" => \/ rn.unit <= row.done + 1
                         \/ rn.unit = row.done + 2 /\ row.status # "running"
    /\ rn.pc \in {"begin", "model", "count"} => rn.unit = row.done + 1 /\ rn.unit \in UnitIds
    /\ rn.pc = "begin" => rn.unit <= row.budget
    /\ rn.pc = "model" => runs[rn.unit] = "running"
    /\ rn.pc = "count" => rn.unit \in Done(runs)
    /\ rn.pc = "finish" => rn.result \in {"completed", "failed", "paused_budget_exhausted"}
    /\ rn.pc = "finish" /\ rn.result = "completed" => Done(runs) = UnitIds

\* Only the runner itself makes the row in memory differ from the file in these.
SameTask(row, filed) ==
    row.budget = filed.budget /\ (row.status = "absent" <=> filed.status = "absent")

Actionable == {"queued", "running", "paused", "failed", "paused_budget_exhausted"}

\* What is known of a command: m and d are the object and the file, and
\* `waiting' says that its mutation is not in the file yet.
RequestFits(o, q, m, d, waiting) ==
    /\ q.expected \in Actionable
    /\ q.times <= 1
    /\ q.times > 0 => o \in m.ops /\ o \in d.ops
    /\ q.pc = "apply" => q.times = 0 /\ o \in m.ops
    /\ q.pc = "applied" /\ q.action = "cancel" =>
         /\ m.task[q.task].status = "cancelled"
         /\ ~waiting => d.task[q.task].status = "cancelled"
    /\ q.answered /\ q.action = "cancel" =>
         m.task[q.task].status = "cancelled" /\ d.task[q.task].status = "cancelled"
    /\ q.pc = "done" => q.answered

TaskInv(t) ==
    /\ RowFits(mem.task[t], unitRun[t]) /\ RowFits(disk.task[t], unitRun[t])
    /\ RunnerFits(runner[t], mem.task[t], unitRun[t])
    /\ writer # Runner(t) => SameTask(mem.task[t], disk.task[t])

RequestInv(o) == RequestFits(o, request[o], mem, disk, writer = Asker(o))

TasksInv ==
    /\ TypeOK
    /\ writer = Nobody => mem = disk
    /\ ~Up => writer = Nobody
    /\ \A t \in Tasks : TaskInv(t)
    /\ \A o \in Operations : RequestInv(o)

-----------------------------------------------------------------------------
(* Names for the parts of the shape, and what the helpers return.          *)

RunnerRows == [pc : {"off", "scheduled", "claim", "unit", "begin", "model", "count", "finish",
                     "ended"},
               unit : 1..(Units + 1), result : Status \cup {""}]

RequestRows == [pc : {"idle", "reserve", "apply", "applied", "done", "refused", "lost"},
                task : Tasks, action : Actions, expected : Status, times : Nat,
                answered : BOOLEAN]

RunStates == {"none", "running", "completed", "failed", "stopped"}

\* Who may await the file are different from one another.
LEMMA WritersDiffer ==
    /\ \A t \in Tasks, o \in Operations : Runner(t) # Asker(o)
    /\ \A t \in Tasks : Runner(t) # Nobody /\ Runner(t) # Quitting
    /\ \A o \in Operations : Asker(o) # Nobody /\ Asker(o) # Quitting
    /\ \A s, t \in Tasks : Runner(s) = Runner(t) => s = t
    /\ \A o, p \in Operations : Asker(o) = Asker(p) => o = p
    /\ Nobody # Quitting
BY DEF Runner, Asker, Nobody, Quitting

\* What TypeOK says of a single task and a single command.
LEMMA ShapeOfTask ==
    ASSUME TypeOK, NEW t \in Tasks
    PROVE  /\ mem.task[t] \in Rows /\ disk.task[t] \in Rows
           /\ runner[t] \in RunnerRows
           /\ unitRun[t] \in [UnitIds -> RunStates]
BY DEF TypeOK, States, RunnerRows, RunStates

LEMMA ShapeOfRequest ==
    ASSUME TypeOK, NEW o \in Operations
    PROVE  request[o] \in RequestRows
BY DEF TypeOK, RequestRows

\* A change of one task's row leaves the rest of the object alone.
LEMMA OneRow ==
    ASSUME TypeOK, NEW t \in Tasks, NEW row \in Rows,
           mem' = [mem EXCEPT !.task = [mem.task EXCEPT ![t] = row]]
    PROVE  /\ mem' \in States /\ mem'.ops = mem.ops
           /\ mem'.task[t] = row
           /\ \A s \in Tasks : s # t => mem'.task[s] = mem.task[s]
BY DEF TypeOK, States

LEMMA OneRunner ==
    ASSUME TypeOK, NEW t \in Tasks, NEW rn \in RunnerRows, runner' = [runner EXCEPT ![t] = rn]
    PROVE  /\ runner' \in [Tasks -> RunnerRows] /\ runner'[t] = rn
           /\ \A s \in Tasks : s # t => runner'[s] = runner[s]
BY DEF TypeOK, RunnerRows

\* A task none of whose parts changed, while someone else writes.
LEMMA TaskStays ==
    ASSUME NEW t \in Tasks, TaskInv(t),
           mem'.task[t] = mem.task[t], disk'.task[t] = disk.task[t],
           runner'[t] = runner[t], unitRun'[t] = unitRun[t],
           writer = Runner(t) => writer' = Runner(t)
    PROVE  TaskInv(t)'
BY DEF TaskInv

\* A command that did not move, while the object and the file keep the ids that
\* were consumed and the tasks that were cancelled.
LEMMA RequestStays ==
    ASSUME TypeOK, NEW o \in Operations, RequestInv(o),
           request'[o] = request[o],
           o \in mem.ops => o \in mem'.ops,
           o \in disk.ops => o \in disk'.ops,
           \A t \in Tasks : mem.task[t].status = "cancelled" => mem'.task[t].status = "cancelled",
           \A t \in Tasks : disk.task[t].status = "cancelled" => disk'.task[t].status = "cancelled",
           writer = Asker(o) => writer' = Asker(o)
    PROVE  RequestInv(o)'
<1>1. request[o].task \in Tasks
  BY ShapeOfRequest DEF RequestRows
<1> QED
  BY <1>1 DEF RequestInv, RequestFits

-----------------------------------------------------------------------------
(* One lemma per action of a runner.                                       *)

\* A runner that moves on its own: only what it knows has to be shown.
LEMMA RunnerMoves ==
    ASSUME TasksInv, NEW t \in Tasks, NEW rn \in RunnerRows,
           runner' = [runner EXCEPT ![t] = rn],
           RunnerFits(rn, mem.task[t], unitRun[t]),
           UNCHANGED <<mem, disk, writer, request, unitRun, launches>>
    PROVE  TasksInv'
<1>1. /\ runner' \in [Tasks -> RunnerRows] /\ runner'[t] = rn
      /\ \A s \in Tasks : s # t => runner'[s] = runner[s]
  BY OneRunner DEF TasksInv
<1>2. TypeOK'
  BY <1>1 DEF TasksInv, TypeOK, RunnerRows
<1>3. ASSUME NEW s \in Tasks PROVE TaskInv(s)'
  <2>1. CASE s = t
    BY <1>1, <2>1 DEF TasksInv, TaskInv
  <2>2. CASE s # t
    BY <1>1, <2>2, TaskStays DEF TasksInv
  <2> QED BY <2>1, <2>2
<1>4. ASSUME NEW o \in Operations PROVE RequestInv(o)'
  BY DEF TasksInv, RequestInv
<1> QED
  BY <1>2, <1>3, <1>4 DEF TasksInv, Up

\* A runner that changes its task's row behind the barrier, and its place.
LEMMA RunnerWrites ==
    ASSUME TasksInv, NEW t \in Tasks, NEW row \in Rows, NEW rn \in RunnerRows,
           Up, writer = Nobody, writer' = Runner(t),
           mem' = [mem EXCEPT !.task = [mem.task EXCEPT ![t] = row]],
           runner' = [runner EXCEPT ![t] = rn],
           RowFits(row, unitRun[t]), RunnerFits(rn, row, unitRun[t]),
           mem.task[t].status = "cancelled" => row.status = "cancelled",
           UNCHANGED <<disk, request, unitRun, launches>>
    PROVE  TasksInv'
<1>1. /\ runner' \in [Tasks -> RunnerRows] /\ runner'[t] = rn
      /\ \A s \in Tasks : s # t => runner'[s] = runner[s]
  BY OneRunner DEF TasksInv
<1>2. /\ mem' \in States /\ mem'.ops = mem.ops /\ mem'.task[t] = row
      /\ \A s \in Tasks : s # t => mem'.task[s] = mem.task[s]
  BY OneRow DEF TasksInv
<1>3. TypeOK'
  <2>1. writer' \in {Runner(s) : s \in Tasks}
    OBVIOUS
  <2> QED
    BY <1>1, <1>2, <2>1 DEF TasksInv, TypeOK, RunnerRows
<1>4. ASSUME NEW s \in Tasks PROVE TaskInv(s)'
  <2>1. CASE s = t
    BY <1>1, <1>2, <2>1 DEF TasksInv, TaskInv
  <2>2. CASE s # t
    BY <1>1, <1>2, <2>2, TaskStays, WritersDiffer DEF TasksInv
  <2> QED BY <2>1, <2>2
<1>5. ASSUME NEW o \in Operations PROVE RequestInv(o)'
  <2>1. \A s \in Tasks : mem.task[s].status = "cancelled" => mem'.task[s].status = "cancelled"
    BY <1>2
  <2> QED
    BY <1>2, <2>1, RequestStays, WritersDiffer DEF TasksInv
<1>6. writer' # Nobody
  BY WritersDiffer
<1> QED
  BY <1>3, <1>4, <1>5, <1>6 DEF TasksInv, Up

\* What the invariant says of one task, in one place.
LEMMA FactsOfTask ==
    ASSUME TasksInv, NEW t \in Tasks
    PROVE  /\ mem.task[t] \in Rows /\ disk.task[t] \in Rows
           /\ runner[t] \in RunnerRows /\ unitRun[t] \in [UnitIds -> RunStates]
           /\ RowFits(mem.task[t], unitRun[t]) /\ RowFits(disk.task[t], unitRun[t])
           /\ RunnerFits(runner[t], mem.task[t], unitRun[t])
           /\ writer # Runner(t) => SameTask(mem.task[t], disk.task[t])
           /\ writer = Nobody => mem = disk
BY ShapeOfTask DEF TasksInv, TaskInv

LEMMA UnitsAreNumbers ==
    /\ Units \in Nat
    /\ \A b \in Budgets \cup {1} : b \in Nat
    /\ \A u \in 1..(Units + 1) : u \in Nat /\ u > 0
    /\ 0 \in 0..Units /\ 1 \in 1..(Units + 1)
    /\ \A n \in 0..Units : n \in Nat
BY TasksAssumption

\* The fields of a row and of a runner.
LEMMA RowFields ==
    ASSUME NEW row \in Rows
    PROVE  /\ row.status \in Status /\ row.done \in 0..Units /\ row.steps \in 0..Units
           /\ row.done \in Nat /\ row.budget \in Budgets \cup {1} /\ row.budget \in Nat
<1>1. row.budget \in Budgets \cup {1}
  BY DEF Rows
<1>2. row.budget \in Nat
  BY <1>1, UnitsAreNumbers
<1>3. row.status \in Status /\ row.done \in 0..Units /\ row.steps \in 0..Units
  BY DEF Rows
<1> QED
  BY <1>1, <1>2, <1>3, UnitsAreNumbers

LEMMA RunnerFields ==
    ASSUME NEW rn \in RunnerRows
    PROVE  /\ rn.unit \in 1..(Units + 1) /\ rn.unit \in Nat /\ rn.unit > 0 /\ Units \in Nat
           /\ rn.result \in Status \cup {""}
<1>1. rn.unit \in 1..(Units + 1) /\ rn.result \in Status \cup {""}
  BY DEF RunnerRows
<1> QED
  BY <1>1, UnitsAreNumbers

LEMMA WakeKeeps ==
    ASSUME TasksInv, NEW t \in Tasks, Wake(t) PROVE TasksInv'
<1> DEFINE rn == [runner[t] EXCEPT !.pc = IF StatusOf(t) = "queued" THEN "claim" ELSE "off"]
<1>1. runner' = [runner EXCEPT ![t] = rn]
  BY FactsOfTask DEF Wake, Go, RunnerRows
<1>2. rn \in RunnerRows /\ RunnerFits(rn, mem.task[t], unitRun[t])
  BY FactsOfTask DEF RunnerRows, RunnerFits, StatusOf
<1> QED
  BY <1>1, <1>2, RunnerMoves DEF Wake

LEMMA ReturnKeeps ==
    ASSUME TasksInv, NEW t \in Tasks, Return(t) PROVE TasksInv'
<1>1. Off \in RunnerRows /\ RunnerFits(Off, mem.task[t], unitRun[t])
  BY TasksAssumption DEF Off, RunnerRows, RunnerFits
<1> QED
  BY <1>1, RunnerMoves DEF Return

LEMMA ClaimKeeps ==
    ASSUME TasksInv, NEW t \in Tasks, Claim(t) PROVE TasksInv'
<1> DEFINE row == IF StatusOf(t) = "queued" THEN [mem.task[t] EXCEPT !.status = "running"]
                  ELSE mem.task[t]
           rn  == [runner[t] EXCEPT !.pc = "unit", !.unit = 1]
<1>1. runner[t].pc = "claim" /\ writer = Nobody /\ writer' = Runner(t) /\ Up
  BY DEF Claim, At, Mutate
<1>2. mem' = [mem EXCEPT !.task = [mem.task EXCEPT ![t] = row]]
  BY DEF Claim, Mutate, StatusOf, TasksInv, TypeOK, States
<1>3. runner' = [runner EXCEPT ![t] = rn]
  BY FactsOfTask DEF Claim, RunnerRows
<1>4. row \in Rows
  BY FactsOfTask DEF Rows, Status
<1>4a. runner[t] \in RunnerRows /\ 1 \in 1..(Units + 1)
  BY FactsOfTask, TasksAssumption
<1>5. rn \in RunnerRows /\ rn.pc = "unit" /\ rn.unit = 1
  BY <1>4a DEF RunnerRows
<1>6. RowFits(row, unitRun[t])
  BY FactsOfTask DEF RowFits, Rows
<1>7. RunnerFits(rn, row, unitRun[t])
  <2>1. row.done = mem.task[t].done /\ row.done \in Nat /\ row.status # "absent"
    BY <1>1, FactsOfTask DEF RunnerFits, Rows
  <2> HIDE DEF row, rn
  <2> QED BY <1>5, <2>1 DEF RunnerFits
<1>8. mem.task[t].status = "cancelled" => row.status = "cancelled"
  BY DEF StatusOf
<1> HIDE DEF row, rn
<1> QED
  BY <1>1, <1>2, <1>3, <1>4, <1>5, <1>6, <1>7, <1>8, RunnerWrites DEF Claim

\* The new row of a task that is created.
LEMMA CreateKeeps ==
    ASSUME TasksInv, NEW t \in Tasks, Create(t) PROVE TasksInv'
<1>1. PICK b \in Budgets :
         Mutate(Runner(t), SetTask(t, [NewTask EXCEPT !.status = "queued", !.budget = b]))
  BY DEF Create
<1> DEFINE row == [NewTask EXCEPT !.status = "queued", !.budget = b]
           rn  == [runner[t] EXCEPT !.pc = "scheduled"]
<1>2. mem.task[t].status = "absent" /\ writer = Nobody /\ writer' = Runner(t) /\ Up
  BY <1>1 DEF Create, Mutate, StatusOf
<1>3. mem' = [mem EXCEPT !.task = [mem.task EXCEPT ![t] = row]]
  BY <1>1 DEF Mutate, SetTask, TasksInv, TypeOK, States
<1>4. runner' = [runner EXCEPT ![t] = rn]
  BY FactsOfTask DEF Create, Go, RunnerRows
<1>5. row \in Rows
  BY UnitsAreNumbers DEF Rows, Status, NewTask
<1>5a. row.status = "queued" /\ row.done = 0 /\ row.steps = 0 /\ row.budget = b
  BY DEF NewTask
<1>6. rn \in RunnerRows /\ rn.pc = "scheduled"
  BY FactsOfTask DEF RunnerRows
<1>7. RowFits(row, unitRun[t])
  <2>1. Started(unitRun[t]) = {}
    BY <1>2, FactsOfTask DEF RowFits
  <2> HIDE DEF row
  <2> QED BY <1>5a, <2>1 DEF RowFits
<1>8. RunnerFits(rn, row, unitRun[t])
  BY <1>5a, <1>6 DEF RunnerFits
<1>9. mem.task[t].status = "cancelled" => row.status = "cancelled"
  BY <1>2
<1> HIDE DEF row, rn
<1> QED
  BY <1>2, <1>3, <1>4, <1>5, <1>6, <1>7, <1>8, <1>9, RunnerWrites DEF Create

\* A finished loop has gone through every unit.
LEMMA NextUnitKeeps ==
    ASSUME TasksInv, NEW t \in Tasks, NextUnit(t) PROVE TasksInv'
<1> DEFINE u == runner[t].unit
           b == mem.task[t]
<1>1. /\ runner[t].pc = "unit" /\ runner[t] \in RunnerRows /\ b \in Rows
      /\ u \in 1..(Units + 1) /\ Units \in Nat /\ b.done \in 0..Units
      /\ b.budget \in Nat /\ b.steps = b.done
  <2>1. runner[t].pc = "unit"
    BY DEF NextUnit, At
  <2>2. runner[t] \in RunnerRows /\ b \in Rows /\ b.steps = b.done
    BY FactsOfTask DEF RowFits
  <2> QED
    BY <2>1, <2>2, RowFields, RunnerFields
<1>2. /\ RunnerFits(runner[t], b, unitRun[t]) /\ 1..(u - 1) \subseteq Done(unitRun[t])
      /\ u <= b.done + 1 \/ (u = b.done + 2 /\ b.status # "running")
      /\ 1..b.done \subseteq Done(unitRun[t]) /\ b.status # "absent"
  BY <1>1, FactsOfTask DEF RunnerFits, RowFits
<1>3. ASSUME NEW st \in {"completed", "failed", "paused_budget_exhausted"}, Finish(t, st),
             st = "completed" => u > Units
      PROVE  TasksInv'
  <2> DEFINE rn == [runner[t] EXCEPT !.pc = "finish", !.result = st]
  <2>1. runner' = [runner EXCEPT ![t] = rn]
    BY <1>1, <1>3 DEF Finish, RunnerRows
  <2>2. rn \in RunnerRows /\ rn.pc = "finish" /\ rn.result = st
    BY <1>1 DEF RunnerRows, Status
  <2>3. u > Units => Done(unitRun[t]) = UnitIds
    BY <1>1, <1>2 DEF Done, UnitIds
  <2>4. RunnerFits(rn, b, unitRun[t])
    BY <1>2, <1>3, <2>2, <2>3 DEF RunnerFits
  <2> QED
    BY <2>1, <2>2, <2>4, RunnerMoves DEF NextUnit
<1>4. CASE u <= Units /\ u <= b.done /\ runner' = [runner EXCEPT ![t].unit = u + 1]
  <2> DEFINE rn == [runner[t] EXCEPT !.unit = u + 1]
  <2>1. runner' = [runner EXCEPT ![t] = rn]
    BY <1>1, <1>4 DEF RunnerRows
  <2>2. rn \in RunnerRows /\ rn.pc = "unit" /\ rn.unit = u + 1
    <3>1. u + 1 \in 1..(Units + 1)
      BY <1>1, <1>4
    <3> QED BY <1>1, <3>1 DEF RunnerRows
  <2>3. 1..((u + 1) - 1) \subseteq Done(unitRun[t])
    BY <1>1, <1>2, <1>4
  <2>4. RunnerFits(rn, b, unitRun[t])
    BY <1>1, <1>2, <1>4, <2>2, <2>3 DEF RunnerFits
  <2> QED
    BY <2>1, <2>2, <2>4, RunnerMoves DEF NextUnit
<1>5. CASE runner' = [runner EXCEPT ![t] = Off]
  <2>1. Off \in RunnerRows /\ RunnerFits(Off, b, unitRun[t])
    BY TasksAssumption DEF Off, RunnerRows, RunnerFits
  <2> QED
    BY <1>5, <2>1, RunnerMoves DEF NextUnit
<1>6. CASE u <= Units /\ u > b.done /\ b.status = "running" /\ b.steps < b.budget /\ Go(t, "begin")
  <2> DEFINE rn == [runner[t] EXCEPT !.pc = "begin"]
  <2>1. runner' = [runner EXCEPT ![t] = rn]
    BY <1>1, <1>6 DEF Go, RunnerRows
  <2>2. rn \in RunnerRows /\ rn.pc = "begin" /\ rn.unit = u
    BY <1>1 DEF RunnerRows
  <2>3. u = b.done + 1 /\ u \in UnitIds /\ u <= b.budget
    BY <1>1, <1>2, <1>6 DEF UnitIds
  <2>4. RunnerFits(rn, b, unitRun[t])
    BY <1>2, <2>2, <2>3 DEF RunnerFits
  <2> QED
    BY <2>1, <2>2, <2>4, RunnerMoves DEF NextUnit
<1> QED
  BY <1>3, <1>4, <1>5, <1>6 DEF NextUnit

\* A unit is counted after its run completed, and is the next one of the prefix.
LEMMA CountKeeps ==
    ASSUME TasksInv, NEW t \in Tasks, Count(t) PROVE TasksInv'
<1> DEFINE b   == mem.task[t]
           row == IF b.status = "running" THEN [b EXCEPT !.done = @ + 1, !.steps = @ + 1] ELSE b
           v   == runner[t].unit + 1
           rn  == [runner[t] EXCEPT !.pc = "unit", !.unit = v]
<1>1. runner[t].pc = "count" /\ writer = Nobody /\ writer' = Runner(t) /\ Up
  BY DEF Count, At, Mutate
<1>2. /\ runner[t] \in RunnerRows /\ b \in Rows /\ RowFits(b, unitRun[t])
      /\ RunnerFits(runner[t], b, unitRun[t])
  BY FactsOfTask
<1>2a. /\ Units \in Nat /\ b.done \in Nat /\ b.steps = b.done /\ b.status # "absent"
       /\ runner[t].unit = b.done + 1 /\ runner[t].unit \in 1..Units
       /\ runner[t].unit \in Done(unitRun[t]) /\ 1..b.done \subseteq Done(unitRun[t])
  <2>1. Units \in Nat /\ b.done \in Nat
    BY <1>2, RowFields, RunnerFields
  <2> QED
    BY <1>1, <1>2, <2>1 DEF RunnerFits, RowFits, UnitIds
<1>3. mem' = [mem EXCEPT !.task = [mem.task EXCEPT ![t] = row]]
  <2>1. CASE b.status = "running"
    BY <2>1 DEF Count, Mutate, SetTask, StatusOf, TasksInv, TypeOK, States
  <2>2. CASE b.status # "running"
    BY <2>2 DEF Count, Mutate, StatusOf, TasksInv, TypeOK, States
  <2> QED BY <2>1, <2>2
<1>4. runner' = [runner EXCEPT ![t] = rn]
  BY <1>2 DEF Count, RunnerRows
<1>5. /\ row \in Rows /\ row.status = b.status /\ row.budget = b.budget /\ row.steps = row.done
      /\ row.done = IF b.status = "running" THEN b.done + 1 ELSE b.done
  <2>1. b.done + 1 \in 0..Units
    BY <1>2a
  <2> QED
    BY <1>2, <1>2a, <2>1 DEF Rows
<1>6. rn \in RunnerRows /\ rn.pc = "unit" /\ rn.unit = b.done + 2
  <2>1. v \in 1..(Units + 1) /\ v = b.done + 2
    BY <1>2a
  <2> HIDE DEF v
  <2> QED
    BY <1>2, <2>1 DEF RunnerRows
<1>7. 1..(b.done + 1) \subseteq Done(unitRun[t])
  BY <1>2a
<1> HIDE DEF row, rn
<1>8. RowFits(row, unitRun[t])
  BY <1>2, <1>2a, <1>5, <1>7 DEF RowFits
<1>9. RunnerFits(rn, row, unitRun[t])
  <2>1. 1..(rn.unit - 1) \subseteq Done(unitRun[t])
    BY <1>2a, <1>6, <1>7
  <2> QED
    BY <1>2a, <1>5, <1>6, <2>1 DEF RunnerFits
<1> QED
  BY <1>1, <1>3, <1>4, <1>5, <1>6, <1>8, <1>9, RunnerWrites DEF Count

LEMMA FinishTaskKeeps ==
    ASSUME TasksInv, NEW t \in Tasks, FinishTask(t) PROVE TasksInv'
<1> DEFINE b   == mem.task[t]
           row == IF StatusOf(t) \in {"cancelled", "paused"} THEN b
                  ELSE [b EXCEPT !.status = runner[t].result]
           rn  == [Off EXCEPT !.pc = "ended"]
<1>1. runner[t].pc = "finish" /\ writer = Nobody /\ writer' = Runner(t) /\ Up
  BY DEF FinishTask, At, Mutate
<1>2. /\ b \in Rows /\ RowFits(b, unitRun[t]) /\ b.status # "absent"
      /\ runner[t].result \in {"completed", "failed", "paused_budget_exhausted"}
      /\ runner[t].result = "completed" => Done(unitRun[t]) = UnitIds
  BY <1>1, FactsOfTask DEF RunnerFits
<1>3. mem' = [mem EXCEPT !.task = [mem.task EXCEPT ![t] = row]]
  BY DEF FinishTask, Mutate, StatusOf, TasksInv, TypeOK, States
<1>4. rn \in RunnerRows /\ rn.pc = "ended" /\ rn.pc # "off"
  <2>1. 1 \in 1..(Units + 1)
    BY TasksAssumption
  <2> QED BY <2>1 DEF RunnerRows, Off
<1>5. row \in Rows
  BY <1>2 DEF Rows, Status
<1>6. /\ row.status # "absent"
      /\ row.status = "completed" => Done(unitRun[t]) = UnitIds
      /\ row.done = b.done /\ row.steps = b.steps /\ row.budget = b.budget
      /\ b.status = "cancelled" => row.status = "cancelled"
  <2>1. b.status = "completed" => Done(unitRun[t]) = UnitIds
    BY <1>2 DEF RowFits
  <2> QED
    BY <1>2, <2>1 DEF Rows, StatusOf
<1>7. runner' = [runner EXCEPT ![t] = rn]
  BY DEF FinishTask
<1> HIDE DEF row, rn
<1>8. RowFits(row, unitRun[t])
  BY <1>2, <1>6 DEF RowFits
<1>9. RunnerFits(rn, row, unitRun[t])
  BY <1>4, <1>6 DEF RunnerFits
<1> QED
  BY <1>1, <1>3, <1>4, <1>5, <1>6, <1>7, <1>8, <1>9, RunnerWrites DEF FinishTask

\* A runner that moves while the run of its unit changes.
LEMMA RunnerRuns ==
    ASSUME TasksInv, NEW t \in Tasks, NEW rn \in RunnerRows, NEW runs \in [UnitIds -> RunStates],
           runner' = [runner EXCEPT ![t] = rn],
           unitRun' = [unitRun EXCEPT ![t] = runs],
           RowFits(mem.task[t], runs), RowFits(disk.task[t], runs),
           RunnerFits(rn, mem.task[t], runs),
           UNCHANGED <<mem, disk, writer, request, launches>>
    PROVE  TasksInv'
<1>1. /\ runner' \in [Tasks -> RunnerRows] /\ runner'[t] = rn
      /\ \A s \in Tasks : s # t => runner'[s] = runner[s]
  BY OneRunner DEF TasksInv
<1>2. /\ unitRun' \in [Tasks -> [UnitIds -> RunStates]] /\ unitRun'[t] = runs
      /\ \A s \in Tasks : s # t => unitRun'[s] = unitRun[s]
  BY DEF TasksInv, TypeOK, RunStates
<1>3. TypeOK'
  BY <1>1, <1>2 DEF TasksInv, TypeOK, RunnerRows, RunStates
<1>4. ASSUME NEW s \in Tasks PROVE TaskInv(s)'
  <2>1. CASE s = t
    BY <1>1, <1>2, <2>1 DEF TasksInv, TaskInv
  <2>2. CASE s # t
    BY <1>1, <1>2, <2>2, TaskStays DEF TasksInv
  <2> QED BY <2>1, <2>2
<1>5. ASSUME NEW o \in Operations PROVE RequestInv(o)'
  BY DEF TasksInv, RequestInv
<1> QED
  BY <1>3, <1>4, <1>5 DEF TasksInv, Up

\* A unit that is begun is within the budget, and the file has the same budget.
LEMMA BeginUnitKeeps ==
    ASSUME TasksInv, NEW t \in Tasks, BeginUnit(t) PROVE TasksInv'
<1> DEFINE u == runner[t].unit
           b == mem.task[t]
           d == disk.task[t]
<1>1. /\ runner[t].pc = "begin" /\ runner[t] \in RunnerRows /\ b \in Rows /\ d \in Rows
      /\ unitRun[t] \in [UnitIds -> RunStates]
      /\ RowFits(b, unitRun[t]) /\ RowFits(d, unitRun[t])
      /\ RunnerFits(runner[t], b, unitRun[t]) /\ SameTask(b, d)
  BY FactsOfTask DEF BeginUnit, At
<1>2. /\ u \in UnitIds /\ u = b.done + 1 /\ u <= b.budget /\ u <= d.budget
      /\ 1..(u - 1) \subseteq Done(unitRun[t])
      /\ b.status # "absent" /\ d.status # "absent"
  BY <1>1 DEF RunnerFits, SameTask
<1>3. CASE unitRun[t][u] = "none" /\ Go(t, "model")
           /\ unitRun' = [unitRun EXCEPT ![t][u] = "running"]
  <2> DEFINE rn   == [runner[t] EXCEPT !.pc = "model"]
             runs == [unitRun[t] EXCEPT ![u] = "running"]
  <2>1. runner' = [runner EXCEPT ![t] = rn] /\ unitRun' = [unitRun EXCEPT ![t] = runs]
    BY <1>1, <1>3 DEF Go, RunnerRows
  <2>2. rn \in RunnerRows /\ rn.pc = "model" /\ rn.unit = u
    BY <1>1 DEF RunnerRows
  <2>3. runs \in [UnitIds -> RunStates] /\ runs[u] = "running"
    BY <1>1, <1>2 DEF RunStates
  <2>4. Done(runs) = Done(unitRun[t]) /\ Started(runs) = Started(unitRun[t]) \cup {u}
    BY <1>1, <1>2, <1>3 DEF Done, Started
  <2>5. u \in 1..b.budget /\ u \in 1..d.budget
    <3>1. u \in Nat /\ u > 0 /\ b.budget \in Nat /\ d.budget \in Nat
      BY <1>1, RowFields, RunnerFields
    <3> QED BY <1>2, <3>1
  <2> HIDE DEF runs
  <2>6. RowFits(b, runs) /\ RowFits(d, runs)
    BY <1>1, <1>2, <2>4, <2>5 DEF RowFits
  <2>7. RunnerFits(rn, b, runs)
    BY <1>2, <2>2, <2>3, <2>4 DEF RunnerFits
  <2> QED
    BY <2>1, <2>2, <2>3, <2>6, <2>7, RunnerRuns DEF BeginUnit
<1>4. CASE unitRun[t][u] = "completed" /\ Go(t, "count") /\ UNCHANGED unitRun
  <2> DEFINE rn == [runner[t] EXCEPT !.pc = "count"]
  <2>1. runner' = [runner EXCEPT ![t] = rn]
    BY <1>1, <1>4 DEF Go, RunnerRows
  <2>2. rn \in RunnerRows /\ rn.pc = "count" /\ rn.unit = u
    BY <1>1 DEF RunnerRows
  <2>3. u \in Done(unitRun[t])
    BY <1>2, <1>4 DEF Done
  <2>4. RunnerFits(rn, b, unitRun[t])
    BY <1>2, <2>2, <2>3 DEF RunnerFits
  <2> QED
    BY <1>4, <2>1, <2>2, <2>4, RunnerMoves DEF BeginUnit
<1>5. CASE Finish(t, "failed") /\ UNCHANGED unitRun
  <2> DEFINE rn == [runner[t] EXCEPT !.pc = "finish", !.result = "failed"]
  <2>1. runner' = [runner EXCEPT ![t] = rn]
    BY <1>1, <1>5 DEF Finish, RunnerRows
  <2>2. rn \in RunnerRows /\ rn.pc = "finish" /\ rn.result = "failed"
    BY <1>1 DEF RunnerRows, Status
  <2>3. RunnerFits(rn, b, unitRun[t])
    BY <1>2, <2>2 DEF RunnerFits
  <2> QED
    BY <1>5, <2>1, <2>2, <2>3, RunnerMoves DEF BeginUnit
<1> QED
  BY <1>3, <1>4, <1>5 DEF BeginUnit

\* The run of a unit ends as it will; one that completed was running before.
LEMMA UnitAnswersKeeps ==
    ASSUME TasksInv, NEW t \in Tasks, UnitAnswers(t) PROVE TasksInv'
<1> DEFINE u == runner[t].unit
           b == mem.task[t]
           d == disk.task[t]
<1>1. /\ runner[t].pc = "model" /\ runner[t] \in RunnerRows
      /\ unitRun[t] \in [UnitIds -> RunStates]
      /\ RowFits(b, unitRun[t]) /\ RowFits(d, unitRun[t])
      /\ RunnerFits(runner[t], b, unitRun[t])
  BY FactsOfTask DEF UnitAnswers, At
<1>2. /\ u \in UnitIds /\ u = b.done + 1 /\ unitRun[t][u] = "running"
      /\ 1..(u - 1) \subseteq Done(unitRun[t]) /\ b.status # "absent"
  BY <1>1 DEF RunnerFits
<1>3. PICK outcome \in {"completed", "failed"} :
        /\ unitRun' = [unitRun EXCEPT ![t][u] = outcome]
        /\ \/ outcome = "completed" /\ Go(t, "count")
           \/ Finish(t, "failed")
           \/ outcome = "failed" /\ Finish(t, "paused_budget_exhausted")
  BY DEF UnitAnswers
<1> DEFINE runs == [unitRun[t] EXCEPT ![u] = outcome]
<1>4. unitRun' = [unitRun EXCEPT ![t] = runs]
  BY <1>3
<1>5. runs \in [UnitIds -> RunStates] /\ runs[u] = outcome
  BY <1>1, <1>2, <1>3 DEF RunStates
<1>6. Done(unitRun[t]) \subseteq Done(runs) /\ Started(runs) = Started(unitRun[t])
  BY <1>1, <1>2, <1>3 DEF Done, Started
<1>7. Done(runs) \subseteq UnitIds /\ (outcome = "completed" => u \in Done(runs))
  BY <1>2, <1>5 DEF Done
<1> HIDE DEF runs
<1>8. RowFits(b, runs) /\ RowFits(d, runs)
  BY <1>1, <1>6, <1>7 DEF RowFits
<1>9. CASE outcome = "completed" /\ Go(t, "count")
  <2> DEFINE rn == [runner[t] EXCEPT !.pc = "count"]
  <2>1. runner' = [runner EXCEPT ![t] = rn]
    BY <1>1, <1>9 DEF Go, RunnerRows
  <2>2. rn \in RunnerRows /\ rn.pc = "count" /\ rn.unit = u
    BY <1>1 DEF RunnerRows
  <2>3. RunnerFits(rn, b, runs)
    BY <1>2, <1>6, <1>7, <1>9, <2>2 DEF RunnerFits
  <2> QED
    BY <1>4, <1>5, <1>8, <2>1, <2>2, <2>3, RunnerRuns DEF UnitAnswers
<1>10. ASSUME NEW st \in {"failed", "paused_budget_exhausted"}, Finish(t, st)
       PROVE  TasksInv'
  <2> DEFINE rn == [runner[t] EXCEPT !.pc = "finish", !.result = st]
  <2>1. runner' = [runner EXCEPT ![t] = rn]
    BY <1>1, <1>10 DEF Finish, RunnerRows
  <2>2. rn \in RunnerRows /\ rn.pc = "finish" /\ rn.result = st
    BY <1>1 DEF RunnerRows, Status
  <2>3. RunnerFits(rn, b, runs)
    BY <1>2, <2>2 DEF RunnerFits
  <2> QED
    BY <1>4, <1>5, <1>8, <2>1, <2>2, <2>3, RunnerRuns DEF UnitAnswers
<1> QED
  BY <1>3, <1>9, <1>10

LEMMA RunTaskKeeps ==
    ASSUME TasksInv, NEW t \in Tasks, RunTask(t) PROVE TasksInv'
BY WakeKeeps, ClaimKeeps, NextUnitKeeps, BeginUnitKeeps, UnitAnswersKeeps, CountKeeps,
   FinishTaskKeeps, ReturnKeeps
   DEF RunTask

-----------------------------------------------------------------------------
(* One lemma per step of a command.                                        *)

\* A command that moves on, while the object and the file stay as they are.
LEMMA RequestMoves ==
    ASSUME TasksInv, NEW o \in Operations, NEW q \in RequestRows,
           request' = [request EXCEPT ![o] = q],
           RequestFits(o, q, mem, disk, writer = Asker(o)),
           UNCHANGED <<mem, disk, writer, runner, unitRun, launches>>
    PROVE  TasksInv'
<1>1. /\ request' \in [Operations -> RequestRows] /\ request'[o] = q
      /\ \A p \in Operations : p # o => request'[p] = request[p]
  BY DEF TasksInv, TypeOK, RequestRows
<1>2. TypeOK'
  BY <1>1 DEF TasksInv, TypeOK, RequestRows
<1>3. ASSUME NEW t \in Tasks PROVE TaskInv(t)'
  BY DEF TasksInv, TaskInv
<1>4. ASSUME NEW p \in Operations PROVE RequestInv(p)'
  <2>1. CASE p = o
    BY <1>1, <2>1 DEF TasksInv, RequestInv
  <2>2. CASE p # o
    BY <1>1, <2>2 DEF TasksInv, RequestInv
  <2> QED BY <2>1, <2>2
<1> QED
  BY <1>2, <1>3, <1>4 DEF TasksInv, Up

LEMMA FactsOfRequest ==
    ASSUME TasksInv, NEW o \in Operations
    PROVE  /\ request[o] \in RequestRows
           /\ RequestFits(o, request[o], mem, disk, writer = Asker(o))
           /\ writer = Nobody => mem = disk
BY ShapeOfRequest DEF TasksInv, RequestInv

LEMMA AskKeeps ==
    ASSUME TasksInv, NEW o \in Operations, Ask(o) PROVE TasksInv'
<1>1. PICK t \in Tasks : \E a \in Offered(StatusOf(t)) :
        request' = [request EXCEPT ![o] = [pc |-> "reserve", task |-> t, action |-> a,
                                           expected |-> StatusOf(t), times |-> 0,
                                           answered |-> FALSE]]
  BY DEF Ask
<1>1a. PICK a \in Offered(StatusOf(t)) :
        request' = [request EXCEPT ![o] = [pc |-> "reserve", task |-> t, action |-> a,
                                           expected |-> StatusOf(t), times |-> 0,
                                           answered |-> FALSE]]
  BY <1>1
<1> DEFINE q == [pc |-> "reserve", task |-> t, action |-> a, expected |-> StatusOf(t),
                 times |-> 0, answered |-> FALSE]
<1>2. a \in Actions /\ StatusOf(t) \in Actionable
  BY DEF Offered, Actions, Actionable
<1>3. q \in RequestRows
  BY <1>2 DEF RequestRows, Actionable, Status
<1>4. RequestFits(o, q, mem, disk, writer = Asker(o))
  BY <1>2 DEF RequestFits
<1> QED
  BY <1>1a, <1>3, <1>4, RequestMoves DEF Ask

LEMMA RepeatKeeps ==
    ASSUME TasksInv, NEW o \in Operations, Repeat(o) PROVE TasksInv'
<1> DEFINE q == [request[o] EXCEPT !.pc = "reserve"]
<1>1. request' = [request EXCEPT ![o] = q]
  BY FactsOfRequest DEF Repeat, Asked, RequestRows
<1>2. q \in RequestRows
  BY FactsOfRequest DEF RequestRows
<1>3. RequestFits(o, q, mem, disk, writer = Asker(o))
  BY FactsOfRequest DEF RequestFits, RequestRows
<1> QED
  BY <1>1, <1>2, <1>3, RequestMoves DEF Repeat

\* A command that is refused, or answered as it was before.
LEMMA ThrowKeeps ==
    ASSUME TasksInv, NEW o \in Operations, Throw(o),
           UNCHANGED <<mem, disk, writer, runner, unitRun, launches>>
    PROVE  TasksInv'
<1> DEFINE q == [request[o] EXCEPT !.pc = IF request[o].answered THEN "done" ELSE "refused"]
<1>1. request' = [request EXCEPT ![o] = q]
  BY FactsOfRequest DEF Throw, Asked, RequestRows
<1>2. q \in RequestRows
  BY FactsOfRequest DEF RequestRows
<1>3. RequestFits(o, q, mem, disk, writer = Asker(o))
  BY FactsOfRequest DEF RequestFits, RequestRows
<1> QED
  BY <1>1, <1>2, <1>3, RequestMoves

\* The id joins those consumed, in the object first.
LEMMA ReserveKeeps ==
    ASSUME TasksInv, NEW o \in Operations, Reserve(o) PROVE TasksInv'
<1>1. CASE o \in mem.ops
  BY <1>1, ThrowKeeps DEF Reserve
<1>2. CASE o \notin mem.ops
  <2> DEFINE q == [request[o] EXCEPT !.pc = "apply"]
  <2>1. /\ mem' = [mem EXCEPT !.ops = @ \cup {o}] /\ writer = Nobody /\ writer' = Asker(o)
        /\ Asked(o, "apply") /\ UNCHANGED <<disk, runner, unitRun, launches>>
    BY <1>2 DEF Reserve, Mutate
  <2>2. /\ request' \in [Operations -> RequestRows] /\ request'[o] = q /\ q \in RequestRows
        /\ \A p \in Operations : p # o => request'[p] = request[p]
    <3>1. q \in RequestRows /\ request' = [request EXCEPT ![o] = q]
      BY <2>1, FactsOfRequest DEF Asked, RequestRows
    <3> HIDE DEF q
    <3> QED BY <3>1 DEF TasksInv, TypeOK, RequestRows
  <2>3. mem' \in States /\ mem'.task = mem.task /\ mem'.ops = mem.ops \cup {o}
    BY <2>1 DEF TasksInv, TypeOK, States
  <2>4. TypeOK'
    BY <2>1, <2>2, <2>3 DEF TasksInv, TypeOK, RequestRows
  <2>5. ASSUME NEW t \in Tasks PROVE TaskInv(t)'
    BY <2>1, <2>3, TaskStays, WritersDiffer DEF TasksInv
  <2>6. ASSUME NEW p \in Operations PROVE RequestInv(p)'
    <3>1. CASE p = o
      <4>1. q.pc = "apply" /\ q.times = request[o].times /\ q.action = request[o].action
            /\ q.task = request[o].task /\ q.answered = request[o].answered
            /\ q.expected = request[o].expected
        BY FactsOfRequest DEF RequestRows
      <4>2. request[o].times = 0
        BY <1>2, FactsOfRequest DEF RequestFits, RequestRows
      <4> HIDE DEF q
      <4>3. RequestFits(o, q, mem', disk, TRUE)
        BY <2>3, <4>1, <4>2, FactsOfRequest DEF RequestFits
      <4> QED
        BY <2>1, <2>2, <3>1, <4>3 DEF RequestInv
    <3>2. CASE p # o
      BY <2>1, <2>2, <2>3, <3>2, RequestStays, WritersDiffer DEF TasksInv
    <3> QED BY <3>1, <3>2
  <2>7. writer' # Nobody
    BY <2>1, WritersDiffer
  <2>8. Up'
    BY <2>1 DEF Reserve, Asking, Up
  <2> QED
    BY <2>4, <2>5, <2>6, <2>7, <2>8 DEF TasksInv
<1> QED
  BY <1>1, <1>2

\* The status changes at most once for an id, from one that is still open.
LEMMA ApplyKeeps ==
    ASSUME TasksInv, NEW o \in Operations, Apply(o) PROVE TasksInv'
<1> DEFINE q == request[o]
           t == q.task
           b == mem.task[t]
<1>1. q \in RequestRows /\ t \in Tasks /\ q.pc = "apply" /\ writer = Nobody /\ mem = disk
  BY FactsOfRequest DEF Apply, Asking, RequestRows
<1>2. CASE StatusOf(t) # q.expected
  BY <1>2, ThrowKeeps DEF Apply
<1>3. CASE StatusOf(t) = q.expected
  <2>1. PICK st \in After(q.action) : Mutate(Asker(o), [mem EXCEPT !.task[t].status = st])
    BY <1>3 DEF Apply
  <2> DEFINE row == [b EXCEPT !.status = st]
             r   == [q EXCEPT !.pc = "applied", !.times = @ + 1]
  <2>2. /\ writer' = Asker(o) /\ UNCHANGED <<disk, runner, unitRun, launches>>
        /\ mem' = [mem EXCEPT !.task = [mem.task EXCEPT ![t] = row]]
    BY <2>1, <1>3, <1>1 DEF Apply, Mutate, TasksInv, TypeOK, States
  <2>3. /\ st \in {"queued", "paused_budget_exhausted", "paused", "cancelled"}
        /\ q.action = "cancel" => st = "cancelled"
    BY <1>1, <2>1 DEF After, RequestRows, Actions
  <2>4. /\ b \in Rows /\ b.status \in Actionable
        /\ RowFits(b, unitRun[t]) /\ RunnerFits(runner[t], b, unitRun[t])
        /\ q.times = 0 /\ o \in mem.ops
        /\ ~(q.answered /\ q.action = "cancel")
    BY <1>1, <1>3, FactsOfRequest, FactsOfTask DEF RequestFits, StatusOf, Actionable
  <2>5. /\ row \in Rows /\ row.status = st /\ row.done = b.done /\ row.steps = b.steps
        /\ row.budget = b.budget
    BY <2>3, <2>4 DEF Rows, Status
  <2>6. r \in RequestRows /\ request' = [request EXCEPT ![o] = r]
    <3>1. q.times \in Nat /\ q.times + 1 \in Nat
      BY <2>4
    <3> QED
      BY <1>1, <1>3, <3>1 DEF Apply, RequestRows
  <2>7. /\ r.pc = "applied" /\ r.times = 1 /\ r.task = t /\ r.action = q.action
        /\ r.expected = q.expected /\ r.answered = q.answered
    BY <1>1, <2>4 DEF RequestRows
  <2> HIDE DEF row, r
  <2>8. /\ mem' \in States /\ mem'.ops = mem.ops /\ mem'.task[t] = row
        /\ \A s \in Tasks : s # t => mem'.task[s] = mem.task[s]
    BY <1>1, <2>2, <2>5, OneRow DEF TasksInv
  <2>9. /\ request' \in [Operations -> RequestRows] /\ request'[o] = r
        /\ \A p \in Operations : p # o => request'[p] = request[p]
    BY <2>6 DEF TasksInv, TypeOK, RequestRows
  <2>10. TypeOK'
    BY <2>2, <2>8, <2>9 DEF TasksInv, TypeOK, RequestRows
  <2>11. ASSUME NEW s \in Tasks PROVE TaskInv(s)'
    <3>1. CASE s = t
      <4>1. RowFits(row, unitRun[t])
        BY <2>3, <2>4, <2>5 DEF RowFits, Actionable
      <4>2. RunnerFits(runner[t], row, unitRun[t])
        BY <2>3, <2>4, <2>5 DEF RunnerFits
      <4>3. SameTask(row, disk.task[t])
        BY <1>1, <2>3, <2>4, <2>5 DEF SameTask, Actionable
      <4> QED
        BY <1>1, <2>2, <2>4, <2>8, <3>1, <4>1, <4>2, <4>3 DEF TaskInv
    <3>2. CASE s # t
      BY <1>1, <2>2, <2>8, <3>2, TaskStays, WritersDiffer DEF TasksInv
    <3> QED BY <3>1, <3>2
  <2>12. ASSUME NEW p \in Operations PROVE RequestInv(p)'
    <3>1. CASE p = o
      <4>1. RequestFits(o, r, mem', disk, TRUE)
        BY <1>1, <2>3, <2>4, <2>5, <2>7, <2>8, FactsOfRequest DEF RequestFits
      <4> QED
        BY <2>2, <2>9, <3>1, <4>1 DEF RequestInv
    <3>2. CASE p # o
      <4>1. \A s \in Tasks : mem.task[s].status = "cancelled" => mem'.task[s].status = "cancelled"
        BY <2>4, <2>8 DEF Actionable
      <4> QED
        BY <1>1, <2>2, <2>8, <2>9, <3>2, <4>1, RequestStays, WritersDiffer DEF TasksInv
    <3> QED BY <3>1, <3>2
  <2>13. writer' # Nobody
    BY <2>2, WritersDiffer
  <2>14. Up'
    BY <2>2 DEF Apply, Asking, Up
  <2> QED
    BY <2>10, <2>11, <2>12, <2>13, <2>14 DEF TasksInv
<1> QED
  BY <1>2, <1>3

\* The answer comes after the file, so what it says is true of both.
LEMMA AnswerKeeps ==
    ASSUME TasksInv, NEW o \in Operations, Answer(o) PROVE TasksInv'
<1> DEFINE q == [request[o] EXCEPT !.pc = "done", !.answered = TRUE]
           t == request[o].task
<1>1. /\ request[o].pc = "applied" /\ writer # Asker(o) /\ t \in Tasks
      /\ RequestFits(o, request[o], mem, disk, FALSE)
  BY FactsOfRequest DEF Answer, Asking, RequestRows
<1>2. q \in RequestRows /\ request' = [request EXCEPT ![o] = q]
  BY FactsOfRequest DEF Answer, RequestRows
<1>3. /\ q.pc = "done" /\ q.answered /\ q.times = request[o].times
      /\ q.task = request[o].task /\ q.action = request[o].action
      /\ q.expected = request[o].expected
  BY FactsOfRequest DEF RequestRows
<1> HIDE DEF q
<1>4. RequestFits(o, q, mem, disk, FALSE)
  BY <1>1, <1>3 DEF RequestFits
<1>5. CASE UNCHANGED runner
  BY <1>1, <1>2, <1>4, <1>5, RequestMoves DEF Answer
<1>6. CASE StatusOf(t) = "queued" /\ runner[t].pc = "off" /\ Go(t, "scheduled")
  <2> DEFINE rn == [runner[t] EXCEPT !.pc = "scheduled"]
  <2>1. runner' = [runner EXCEPT ![t] = rn] /\ rn \in RunnerRows /\ rn.pc = "scheduled"
    BY <1>1, <1>6, FactsOfTask DEF Go, RunnerRows
  <2>2. RunnerFits(rn, mem.task[t], unitRun[t])
    BY <1>6, <2>1 DEF RunnerFits, StatusOf
  <2> HIDE DEF rn
  <2>3. UNCHANGED <<mem, disk, writer, unitRun, launches>>
    BY DEF Answer
  <2>4. /\ runner' \in [Tasks -> RunnerRows] /\ runner'[t] = rn
        /\ \A s \in Tasks : s # t => runner'[s] = runner[s]
    BY <1>1, <2>1, OneRunner DEF TasksInv
  <2>5. /\ request' \in [Operations -> RequestRows] /\ request'[o] = q
        /\ \A p \in Operations : p # o => request'[p] = request[p]
    BY <1>2 DEF TasksInv, TypeOK, RequestRows
  <2>6. TypeOK'
    BY <2>3, <2>4, <2>5 DEF TasksInv, TypeOK, RequestRows, RunnerRows
  <2>7. ASSUME NEW s \in Tasks PROVE TaskInv(s)'
    <3>1. CASE s = t
      BY <2>2, <2>3, <2>4, <3>1 DEF TasksInv, TaskInv
    <3>2. CASE s # t
      BY <2>3, <2>4, <3>2, TaskStays DEF TasksInv
    <3> QED BY <3>1, <3>2
  <2>8. ASSUME NEW p \in Operations PROVE RequestInv(p)'
    BY <1>1, <1>4, <2>3, <2>5 DEF TasksInv, RequestInv
  <2> QED
    BY <2>3, <2>6, <2>7, <2>8 DEF TasksInv, Up
<1> QED
  BY <1>5, <1>6 DEF Answer

-----------------------------------------------------------------------------
(* The barrier, and the application that goes and comes.                   *)

\* What is left of a command when the process is gone.
LEMMA RequestLost ==
    ASSUME TasksInv, NEW o \in Operations, NEW file, file = mem \/ file = disk,
           NEW r,
           r = IF request[o].pc \in {"reserve", "apply", "applied"}
               THEN [request[o] EXCEPT !.pc = "lost"] ELSE request[o]
    PROVE  r \in RequestRows /\ RequestFits(o, r, file, file, FALSE)
<1> DEFINE q == request[o]
<1>1. /\ r \in RequestRows /\ r.times = q.times /\ r.task = q.task /\ r.action = q.action
      /\ r.answered = q.answered /\ r.expected = q.expected
      /\ r.pc \notin {"apply", "applied"} /\ (r.pc = "done" => q.pc = "done")
  BY FactsOfRequest DEF RequestRows
<1> QED
  BY <1>1, FactsOfRequest DEF RequestFits

LEMMA DownKeeps ==
    ASSUME TasksInv, NEW file \in States, file = mem \/ file = disk, Down(file)
    PROVE  TasksInv'
<1>1. /\ mem' = file /\ disk' = file /\ writer' = Nobody
      /\ runner' \in [Tasks -> RunnerRows] /\ \A t \in Tasks : runner'[t] = Off
  <2>1. Off \in RunnerRows
    BY UnitsAreNumbers DEF Off, RunnerRows
  <2> QED
    BY <2>1 DEF Down
<1>2. /\ unitRun' \in [Tasks -> [UnitIds -> RunStates]]
      /\ \A t \in Tasks : Done(unitRun'[t]) = Done(unitRun[t])
                          /\ Started(unitRun'[t]) = Started(unitRun[t])
  <2>1. unitRun \in [Tasks -> [UnitIds -> RunStates]]
    BY DEF TasksInv, TypeOK, RunStates
  <2>2. unitRun' = [t \in Tasks |-> [u \in UnitIds |->
                     IF unitRun[t][u] = "running" THEN "stopped" ELSE unitRun[t][u]]]
    BY DEF Down
  <2>3. unitRun' \in [Tasks -> [UnitIds -> RunStates]]
    BY <2>1, <2>2 DEF RunStates
  <2>4. ASSUME NEW t \in Tasks
        PROVE  /\ Done(unitRun'[t]) = Done(unitRun[t])
               /\ Started(unitRun'[t]) = Started(unitRun[t])
    BY <2>2 DEF Done, Started
  <2> QED BY <2>3, <2>4
<1>3. ASSUME NEW o \in Operations
      PROVE  request'[o] \in RequestRows /\ RequestFits(o, request'[o], file, file, FALSE)
  <2>1. request'[o] = IF request[o].pc \in {"reserve", "apply", "applied"}
                      THEN [request[o] EXCEPT !.pc = "lost"] ELSE request[o]
    BY DEF Down
  <2> QED
    BY <2>1, RequestLost
<1>4. TypeOK'
  <2>1. request' \in [Operations -> RequestRows]
    BY <1>3 DEF Down
  <2>2. launches' \in [count : 1..(MaxLaunches + 1), up : BOOLEAN]
    BY DEF Down, TasksInv, TypeOK
  <2> QED
    BY <1>1, <1>2, <2>1, <2>2 DEF TypeOK, RequestRows, RunnerRows, RunStates
<1>5. ASSUME NEW t \in Tasks PROVE TaskInv(t)'
  <2>1. RowFits(file.task[t], unitRun'[t])
    BY <1>2, FactsOfTask DEF RowFits
  <2>2. RunnerFits(Off, file.task[t], unitRun'[t])
    BY DEF RunnerFits, Off
  <2>3. SameTask(file.task[t], file.task[t])
    BY DEF SameTask
  <2> QED
    BY <1>1, <2>1, <2>2, <2>3 DEF TaskInv
<1>6. ASSUME NEW o \in Operations PROVE RequestInv(o)'
  <2>1. (writer' = Asker(o)) = FALSE
    BY <1>1, WritersDiffer
  <2> QED
    BY <1>1, <1>3, <2>1 DEF RequestInv
<1> QED
  BY <1>1, <1>4, <1>5, <1>6 DEF TasksInv

LEMMA CrashKeeps ==
    ASSUME TasksInv, Crash PROVE TasksInv'
BY DownKeeps DEF Crash, TasksInv, TypeOK

\* The file catches up with the object; whoever waited goes on.
LEMMA WriteStateKeeps ==
    ASSUME TasksInv, WriteState PROVE TasksInv'
<1>1. CASE writer = Quitting
  BY <1>1, DownKeeps DEF WriteState, TasksInv, TypeOK
<1>2. CASE writer # Quitting
  <2>1. disk' = mem /\ writer' = Nobody /\ UNCHANGED <<mem, runner, request, unitRun, launches>>
    BY <1>2 DEF WriteState
  <2>2. TypeOK'
    BY <2>1 DEF TasksInv, TypeOK
  <2>3. ASSUME NEW t \in Tasks PROVE TaskInv(t)'
    <3>1. SameTask(mem.task[t], mem.task[t])
      BY DEF SameTask
    <3> QED
      BY <2>1, <3>1 DEF TasksInv, TaskInv
  <2>4. ASSUME NEW o \in Operations PROVE RequestInv(o)'
    <3>1. RequestFits(o, request[o], mem, mem, FALSE)
      BY FactsOfRequest DEF RequestFits
    <3>2. (writer' = Asker(o)) = FALSE
      BY <2>1, WritersDiffer
    <3> QED
      BY <2>1, <3>1, <3>2 DEF RequestInv
  <2> QED
    BY <2>1, <2>2, <2>3, <2>4 DEF TasksInv
<1> QED
  BY <1>1, <1>2

\* A row that is paused keeps everything but its status.
LEMMA PausedRows ==
    ASSUME NEW m \in States
    PROVE  /\ Paused(m) \in States /\ Paused(m).ops = m.ops
           /\ \A t \in Tasks :
                /\ Paused(m).task[t] \in Rows
                /\ Paused(m).task[t].done = m.task[t].done
                /\ Paused(m).task[t].steps = m.task[t].steps
                /\ Paused(m).task[t].budget = m.task[t].budget
                /\ Paused(m).task[t].status = IF Interrupted(m.task[t].status) THEN "paused"
                                              ELSE m.task[t].status
<1> DEFINE rows == [t \in Tasks |-> IF Interrupted(m.task[t].status)
                                    THEN [m.task[t] EXCEPT !.status = "paused"] ELSE m.task[t]]
<1>1. Paused(m) = [m EXCEPT !.task = rows]
  BY DEF Paused
<1>2. ASSUME NEW t \in Tasks
      PROVE  /\ rows[t] \in Rows /\ rows[t].done = m.task[t].done
             /\ rows[t].steps = m.task[t].steps /\ rows[t].budget = m.task[t].budget
             /\ rows[t].status = IF Interrupted(m.task[t].status) THEN "paused"
                                 ELSE m.task[t].status
  BY DEF States, Rows, Status
<1>3. rows \in [Tasks -> Rows]
  BY <1>2
<1> HIDE DEF rows
<1> QED
  BY <1>1, <1>2, <1>3 DEF States

LEMMA PausedFits ==
    ASSUME NEW m \in States, NEW t \in Tasks, NEW runs, NEW rn
    PROVE  /\ RowFits(m.task[t], runs) => RowFits(Paused(m).task[t], runs)
           /\ RunnerFits(rn, m.task[t], runs) => RunnerFits(rn, Paused(m).task[t], runs)
           /\ Paused(m).task[t].budget = m.task[t].budget
           /\ Paused(m).task[t].status = "absent" <=> m.task[t].status = "absent"
           /\ m.task[t].status = "cancelled" => Paused(m).task[t].status = "cancelled"
<1>1. /\ Paused(m).task[t].done = m.task[t].done /\ Paused(m).task[t].steps = m.task[t].steps
      /\ Paused(m).task[t].budget = m.task[t].budget
      /\ Paused(m).task[t].status = IF m.task[t].status \in {"queued", "running"} THEN "paused"
                                    ELSE m.task[t].status
  BY PausedRows DEF Interrupted
<1>2. RowFits(m.task[t], runs) => RowFits(Paused(m).task[t], runs)
  BY <1>1 DEF RowFits
<1>3. RunnerFits(rn, m.task[t], runs) => RunnerFits(rn, Paused(m).task[t], runs)
  BY <1>1 DEF RunnerFits
<1> QED
  BY <1>1, <1>2, <1>3

LEMMA QuitKeeps ==
    ASSUME TasksInv, Quit PROVE TasksInv'
<1>1. CASE Down(mem)
  BY <1>1, DownKeeps DEF TasksInv, TypeOK
<1>2. CASE Mutate(Quitting, Paused(mem)) /\ UNCHANGED <<disk, runner, request, unitRun, launches>>
  <2>1. /\ writer = Nobody /\ writer' = Quitting /\ mem' = Paused(mem) /\ mem \in States
        /\ mem = disk
    BY <1>2 DEF Mutate, TasksInv, TypeOK
  <2>2. TypeOK'
    BY <1>2, <2>1, PausedRows DEF TasksInv, TypeOK
  <2>3. ASSUME NEW t \in Tasks PROVE TaskInv(t)'
    <3>1. SameTask(mem'.task[t], disk'.task[t])
      BY <1>2, <2>1, PausedFits DEF SameTask
    <3> QED
      BY <1>2, <2>1, <3>1, PausedFits DEF TasksInv, TaskInv
  <2>4. ASSUME NEW o \in Operations PROVE RequestInv(o)'
    BY <1>2, <2>1, PausedRows, PausedFits, RequestStays, WritersDiffer DEF TasksInv
  <2>5. Up'
    BY <1>2 DEF Quit, Up
  <2> QED
    BY <2>1, <2>2, <2>3, <2>4, <2>5, WritersDiffer DEF TasksInv
<1> QED
  BY <1>1, <1>2 DEF Quit

\* While the application is down nobody waits, and no runner runs.
LEMMA LaunchKeeps ==
    ASSUME TasksInv, Launch PROVE TasksInv'
<1>1. /\ writer = Nobody /\ mem = disk /\ disk \in States
      /\ mem' = Paused(disk) /\ disk' = Paused(disk)
      /\ UNCHANGED <<writer, runner, request, unitRun>>
  BY DEF Launch, TasksInv, TypeOK
<1>2. TypeOK'
  <2>1. launches' = [count |-> launches.count + 1, up |-> TRUE] /\ launches.count < MaxLaunches
    BY DEF Launch
  <2>2. launches.count \in 1..(MaxLaunches + 1) /\ MaxLaunches \in Nat
    BY TasksAssumption DEF TasksInv, TypeOK
  <2>3. launches.count + 1 \in 1..(MaxLaunches + 1)
    BY <2>1, <2>2
  <2>4. launches' \in [count : 1..(MaxLaunches + 1), up : BOOLEAN]
    BY <2>1, <2>3
  <2> QED
    BY <1>1, <2>4, PausedRows DEF TasksInv, TypeOK
<1>3. ASSUME NEW t \in Tasks PROVE TaskInv(t)'
  <2>1. SameTask(mem'.task[t], disk'.task[t])
    BY <1>1 DEF SameTask
  <2> QED
    BY <1>1, <2>1, PausedFits DEF TasksInv, TaskInv
<1>4. ASSUME NEW o \in Operations PROVE RequestInv(o)'
  BY <1>1, PausedRows, PausedFits, RequestStays DEF TasksInv
<1> QED
  BY <1>1, <1>2, <1>3, <1>4 DEF TasksInv, Launch, Up

-----------------------------------------------------------------------------
(* What holds of every run of the service.                                 *)

LEMMA InitTasksInv == Init => TasksInv
<1> SUFFICES ASSUME Init PROVE TasksInv
  OBVIOUS
<1>1. NewTask \in Rows /\ Off \in RunnerRows /\ NoAsk \in RequestRows
  <2>1. (CHOOSE t \in Tasks : TRUE) \in Tasks
    BY TasksAssumption
  <2> QED
    BY <2>1, UnitsAreNumbers
       DEF NewTask, Rows, Status, Off, RunnerRows, NoAsk, RequestRows, Actions
<1>2. mem \in States /\ disk = mem /\ \A t \in Tasks : mem.task[t] = NewTask
  BY <1>1 DEF Init, States
<1>3. TypeOK
  <2>1. launches \in [count : 1..(MaxLaunches + 1), up : BOOLEAN]
    <3>1. 1 \in 1..(MaxLaunches + 1)
      BY TasksAssumption
    <3> QED BY <3>1 DEF Init
  <2> QED
    BY <1>1, <1>2, <2>1 DEF Init, TypeOK, RunnerRows, RequestRows
<1>4. ASSUME NEW t \in Tasks PROVE TaskInv(t)
  <2> DEFINE runs == unitRun[t]
  <2>1. runs = [u \in UnitIds |-> "none"] /\ runner[t] = Off
    BY DEF Init
  <2>2. Started(runs) = {}
    BY <2>1 DEF Started
  <2>3. RowFits(NewTask, runs)
    BY <2>2 DEF RowFits, NewTask
  <2>4. RunnerFits(Off, NewTask, runs) /\ SameTask(NewTask, NewTask)
    BY DEF RunnerFits, Off, SameTask
  <2> QED
    BY <1>2, <2>1, <2>3, <2>4 DEF TaskInv
<1>5. ASSUME NEW o \in Operations PROVE RequestInv(o)
  BY DEF Init, RequestInv, RequestFits, NoAsk, Actionable
<1> QED
  BY <1>2, <1>3, <1>4, <1>5 DEF TasksInv, Init, Up

LEMMA NextTasksInv == TasksInv /\ [Next]_vars => TasksInv'
<1> SUFFICES ASSUME TasksInv, [Next]_vars PROVE TasksInv'
  OBVIOUS
<1>1. ASSUME NEW t \in Tasks, Create(t) \/ RunTask(t) PROVE TasksInv'
  BY <1>1, CreateKeeps, RunTaskKeeps
<1>2. ASSUME NEW o \in Operations, Ask(o) \/ Repeat(o) \/ Control(o) PROVE TasksInv'
  BY <1>2, AskKeeps, RepeatKeeps, ReserveKeeps, ApplyKeeps, AnswerKeeps DEF Control
<1>3. CASE WriteState \/ Quit \/ Crash \/ Launch
  BY <1>3, WriteStateKeeps, QuitKeeps, CrashKeeps, LaunchKeeps
<1>4. CASE UNCHANGED vars
  BY <1>4 DEF vars, TasksInv, TypeOK, TaskInv, RequestInv, Up
<1> QED
  BY <1>1, <1>2, <1>3, <1>4 DEF Next

\* The state keeps its shape, and object, file, runners, runs of the units and
\* commands fit together, whatever the user, the units and the process do.
THEOREM TasksInvariance == Spec => []TasksInv
<1> QED
  BY InitTasksInv, NextTasksInv, PTL DEF Spec

LEMMA InvTypeOK == TasksInv => TypeOK
BY DEF TasksInv

\* Every variable keeps its shape (novel-agent-control-service.ts: the state
\* object, its file, the runners and the runs they await).
THEOREM TypeCorrect == Spec => []TypeOK
BY TasksInvariance, InvTypeOK, PTL

LEMMA InvCompletedRanEverything == TasksInv => CompletedRanEverything
<1> SUFFICES ASSUME TasksInv, NEW t \in Tasks
             PROVE  /\ StatusOf(t) = "completed" => Ran(t) = UnitIds
                    /\ 1..mem.task[t].done \subseteq Ran(t)
  BY DEF CompletedRanEverything
<1> QED
  BY FactsOfTask DEF RowFits, Done, Ran, StatusOf

\* A task that the service calls completed has a completed run for each of its
\* units, and the units it counts as done are a prefix with completed runs.
THEOREM CompletedRanEverythingAlways == Spec => []CompletedRanEverything
BY TasksInvariance, InvCompletedRanEverything, PTL

LEMMA InvRunsWithinBudget == TasksInv => RunsWithinBudget
<1> SUFFICES ASSUME TasksInv, NEW t \in Tasks
             PROVE  Cardinality({u \in UnitIds : unitRun[t][u] # "none"}) <= mem.task[t].budget
  BY DEF RunsWithinBudget
<1> DEFINE started == {u \in UnitIds : unitRun[t][u] # "none"}
           b == mem.task[t].budget
<1>1. started \subseteq 1..b /\ b \in Nat
  BY FactsOfTask, RowFields DEF RowFits, Started
<1> HIDE DEF started, b
<1>2. IsFiniteSet(1..b) /\ Cardinality(1..b) = b
  BY <1>1, FS_Interval
<1>3. Cardinality(started) <= Cardinality(1..b)
  BY <1>1, <1>2, FS_Subset
<1> QED
  BY <1>1, <1>2, <1>3 DEF started, b

\* The step budget of a task bounds the runs it ever starts, over pauses,
\* crashes and relaunches, and not only those it counts.
THEOREM RunsWithinBudgetAlways == Spec => []RunsWithinBudget
BY TasksInvariance, InvRunsWithinBudget, PTL

LEMMA InvCancelledForGood == TasksInv => CancelledForGood
BY FactsOfRequest DEF RequestFits, CancelledForGood

\* A task whose cancellation was answered stays cancelled, in memory and in the
\* file, whatever its runner still does and whenever the process dies.
THEOREM CancelledForGoodAlways == Spec => []CancelledForGood
BY TasksInvariance, InvCancelledForGood, PTL

LEMMA InvCommandOnce == TasksInv => CommandOnce
BY FactsOfRequest DEF RequestFits, CommandOnce

\* An operation id changes a task at most once, however often it is sent and
\* wherever a crash falls between consuming the id and acting on it.
THEOREM CommandOnceAlways == Spec => []CommandOnce
BY TasksInvariance, InvCommandOnce, PTL

=============================================================================
