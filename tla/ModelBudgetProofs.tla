------------------------- MODULE ModelBudgetProofs -------------------------
(***************************************************************************)
(* The invariant of ModelBudget, for any number of runtimes, of requests   *)
(* and of attempts, and what follows from it.                              *)
(***************************************************************************)
EXTENDS ModelBudget, FiniteSetTheorems, TLAPS

-----------------------------------------------------------------------------
(* What the helpers of the steps change.                                   *)

\* The other requests are left alone, and c stays the request it was.
SameRequest(c) ==
    /\ DOMAIN call' = Calls
    /\ \A d \in Calls \ {c} : call'[d] = call[d]
    /\ IsRequest(call'[c])
    /\ call'[c].runtime = call[c].runtime /\ call'[c].attempt = call[c].attempt

LEMMA GotoIs ==
    ASSUME Shape, NEW c \in Calls, NEW pc \in PCs, Goto(c, pc)
    PROVE  SameRequest(c) /\ call'[c].pc = pc /\ call'[c].billed = call[c].billed
BY DEF Shape, Goto, SameRequest, IsRequest

\* The executions go on, and whoever was told to stop still is.
SameExecutions ==
    /\ exec' \in [Runtimes -> Execution]
    /\ \A p \in Runtimes :
         /\ exec'[p].attempt = exec[p].attempt
         /\ exec[p].control # "" => exec'[p].control # ""

LEMMA UnchangedExecutions ==
    ASSUME Shape, UNCHANGED exec
    PROVE  SameExecutions
BY DEF Shape, SameExecutions

LEMMA PausedIs ==
    ASSUME Shape, NEW p \in Runtimes, exec' = PausedForBudget(p)
    PROVE  /\ SameExecutions
           /\ exec'[p].attempt # 0 => exec'[p].control # ""
<1>1. exec \in [Runtimes -> Execution]
  BY DEF Shape
<1>2. CASE exec[p].attempt = 0
  BY <1>1, <1>2 DEF PausedForBudget, SameExecutions
<1>3. CASE exec[p].attempt # 0
  <2> DEFINE e == [exec[p] EXCEPT !.control = "pause", !.aborted = TRUE]
  <2>1. e \in Execution /\ e.attempt = exec[p].attempt /\ e.control = "pause"
    BY <1>1 DEF Execution
  <2>2. exec' = [exec EXCEPT ![p] = e]
    BY <1>3 DEF PausedForBudget
  <2> HIDE DEF e
  <2> QED BY <1>1, <2>1, <2>2 DEF SameExecutions
<1> QED BY <1>2, <1>3

\* The execution of c, if there is one, has been told to pause or to cancel.
ToldToStop(c) ==
    exec'[call[c].runtime].attempt # 0 => exec'[call[c].runtime].control # ""

LEMMA RefuseIs ==
    ASSUME Shape, NEW c \in Calls, Refuse(c)
    PROVE  /\ SameRequest(c) /\ call'[c].pc = "refused" /\ call'[c].billed = call[c].billed
           /\ SameExecutions
           /\ ToldToStop(c)
<1>1. "refused" \in PCs /\ call[c].runtime \in Runtimes
  BY DEF PCs, Ended, Shape, IsRequest
<1> QED BY <1>1, GotoIs, PausedIs DEF Refuse, ToldToStop

-----------------------------------------------------------------------------
(* Counting.                                                               *)

LEMMA RowsAreFinite ==
    /\ MaxCalls \in Nat
    /\ IsFiniteSet(Pending) /\ Cardinality(Pending) \in Nat
    /\ IsFiniteSet(Settled) /\ Cardinality(Settled) \in Nat
    /\ IsFiniteSet(Dispatched) /\ Cardinality(Dispatched) \in Nat
<1>1. /\ Pending \in SUBSET Calls /\ Settled \in SUBSET Calls
      /\ Dispatched \in SUBSET Calls /\ IsFiniteSet(Calls)
  BY BudgetAssumption DEF Pending, Settled, Dispatched
<1> QED BY <1>1, FS_Subset, FS_CardinalityType, BudgetAssumption

\* A step that leaves the rows and the usage alone leaves the count alone.
LEMMA SameRows ==
    ASSUME CallsCounted, UNCHANGED <<res, used>>
    PROVE  CallsCounted'
BY DEF CallsCounted, CallsWithinBudget, Pending, Settled

\* A reservation within the limits.
LEMMA CountReserved ==
    ASSUME Shape, CallsCounted, NEW c \in Calls, res[c].status = "none",
           used.calls + Cardinality(Pending) + 1 <= MaxCalls,
           res'[c].status = "reserved", \A d \in Calls \ {c} : res'[d] = res[d],
           used' = used
    PROVE  CallsCounted'
<1>1. Pending' = Pending \cup {c} /\ Settled' = Settled /\ c \notin Pending
  BY DEF Pending, Settled
<1>2. Cardinality(Pending') = Cardinality(Pending) + 1
  BY <1>1, RowsAreFinite, FS_AddElement
<1>3. used.calls \in Nat
  BY DEF Shape
<1> QED BY <1>1, <1>2, <1>3, RowsAreFinite DEF CallsCounted, CallsWithinBudget

\* A row that stays what it is.
LEMMA CountKept ==
    ASSUME CallsCounted, \A d \in Calls : res'[d].status = res[d].status, used' = used
    PROVE  CallsCounted'
<1>1. Pending' = Pending /\ Settled' = Settled
  BY DEF Pending, Settled
<1> QED BY <1>1 DEF CallsCounted, CallsWithinBudget

\* A row that was not settled is released.
LEMMA CountReleased ==
    ASSUME Shape, CallsCounted, NEW c \in Calls, res[c].status # "settled",
           res'[c].status = "released", \A d \in Calls \ {c} : res'[d] = res[d],
           used' = used
    PROVE  CallsCounted'
<1>1. Pending' = Pending \ {c} /\ Settled' = Settled
  BY DEF Pending, Settled
<1>2. Cardinality(Pending') <= Cardinality(Pending) /\ Cardinality(Pending') \in Nat
  <2>1. Pending' \in SUBSET Pending
    BY <1>1
  <2> QED BY <2>1, RowsAreFinite, FS_Subset, FS_CardinalityType
<1>3. used.calls \in Nat
  BY DEF Shape
<1> QED BY <1>1, <1>2, <1>3, RowsAreFinite DEF CallsCounted, CallsWithinBudget

\* A reserved row is settled and charged.
LEMMA CountSettled ==
    ASSUME Shape, CallsCounted, NEW c \in Calls, res[c].status = "reserved",
           res'[c].status = "settled", \A d \in Calls \ {c} : res'[d] = res[d],
           used'.calls = used.calls + 1
    PROVE  CallsCounted'
<1>1. /\ Pending' = Pending \ {c} /\ c \in Pending
      /\ Settled' = Settled \cup {c} /\ c \notin Settled
  BY DEF Pending, Settled
<1>2. /\ Cardinality(Pending') = Cardinality(Pending) - 1
      /\ Cardinality(Settled') = Cardinality(Settled) + 1
  BY <1>1, RowsAreFinite, FS_RemoveElement, FS_AddElement
<1>3. used.calls \in Nat
  BY DEF Shape
<1> QED BY <1>1, <1>2, <1>3, RowsAreFinite DEF CallsCounted, CallsWithinBudget

\* A reconciliation settles what was dispatched and leaves nothing reserved.
LEMMA CountReconciled ==
    ASSUME Shape, CallsCounted, res' = ReconciledRows, used' = ReconciledUsage
    PROVE  CallsCounted' /\ Pending' = {}
<1>1. \A c \in Calls :
        res'[c].status = IF c \in Dispatched THEN "settled"
                         ELSE IF c \in Pending THEN "released" ELSE res[c].status
  BY DEF Shape, IsRow, ReconciledRows, SettledRow
<1>2. /\ Settled' = Settled \cup Dispatched /\ Settled \cap Dispatched = {}
      /\ Pending' = {} /\ Dispatched \in SUBSET Pending
  BY <1>1 DEF Pending, Settled, Dispatched
<1>3. used'.calls = used.calls + Cardinality(Dispatched)
  BY DEF ReconciledUsage
<1>4. Cardinality(Settled') = Cardinality(Settled) + Cardinality(Dispatched)
  <2>1. Cardinality(Settled \cap Dispatched) = 0
    BY <1>2, FS_EmptySet
  <2>2. Cardinality(Settled \cup Dispatched)
          = Cardinality(Settled) + Cardinality(Dispatched) - Cardinality(Settled \cap Dispatched)
    BY RowsAreFinite, FS_Union
  <2> QED BY <1>2, <2>1, <2>2, RowsAreFinite
<1>5. Cardinality(Dispatched) <= Cardinality(Pending) /\ Cardinality(Pending') = 0
  BY <1>2, RowsAreFinite, FS_Subset, FS_EmptySet
<1>6. used.calls \in Nat
  BY DEF Shape
<1> QED BY <1>2, <1>3, <1>4, <1>5, <1>6, RowsAreFinite DEF CallsCounted, CallsWithinBudget


-----------------------------------------------------------------------------
(* The steps of a request.                                                 *)

\* The row of c may change; the others are left alone.
SameRow(c) ==
    /\ DOMAIN res' = Calls
    /\ \A d \in Calls \ {c} : res'[d] = res[d]
    /\ IsRow(res'[c])

\* What a step of c must see to for the rest of the invariant.
Accounted(c) ==
    /\ call'[c].pc \notin {"new", "ready"}
    /\ call'[c].pc \in {"marked", "asked", "answered"} => res'[c].dispatched
    /\ call'[c].billed > 0 => res'[c].dispatched
    /\ call'[c].pc = "reserved" => ~res'[c].dispatched
    /\ res'[c].dispatched => res'[c].status \in {"reserved", "settled"}
    /\ res'[c].status = "settled" => res'[c].dispatched
    /\ res'[c].status = "reserved" => res[c].status = "reserved" \/ AttemptRuns(c)
    /\ call'[c].pc = "refused" => ToldToStop(c)

LEMMA RequestStep ==
    ASSUME BInv, NEW c \in Calls, SameRequest(c), SameRow(c), SameExecutions, Accounted(c),
           UNCHANGED run, used'.calls \in Nat, call[c].pc \notin Ended \cup {"new"}
    PROVE  Shape' /\ RowsAgree' /\ OneWorker' /\ RefusalIsKnown' /\ NothingLeftBehind'
<1>1. Shape'
  BY DEF BInv, Shape, SameRequest, SameRow, SameExecutions
<1>2. RowsAgree'
  BY DEF BInv, RowsAgree, SameRequest, SameRow, Accounted
<1>3. /\ \A d \in Calls : call'[d].attempt = call[d].attempt /\ call'[d].runtime = call[d].runtime
      /\ \A p \in Runtimes : exec'[p].attempt = exec[p].attempt
  BY DEF SameRequest, SameExecutions
<1>4. OneWorker'
  BY <1>3 DEF BInv, OneWorker
<1>5. RefusalIsKnown'
  <2>1. run.status = "completed" => call[c].attempt # run.attempt
    BY DEF BInv, RefusalIsKnown
  <2>2. \A d \in Calls : call[d].runtime \in Runtimes
    BY DEF BInv, Shape, IsRequest
  <2>3. run.attempt # 0
    BY DEF BInv, Shape
  <2>4. ASSUME NEW d \in Calls, call'[d].pc = "refused", call'[d].attempt = run'.attempt,
               exec'[call'[d].runtime].attempt = run'.attempt
        PROVE  exec'[call'[d].runtime].control # ""
    <3>1. CASE d = c
      BY <1>3, <2>3, <2>4, <3>1 DEF Accounted, ToldToStop
    <3>2. CASE d # c
      <4>1. call'[d] = call[d]
        BY <3>2 DEF SameRequest
      <4>2. exec[call[d].runtime].control # ""
        BY <1>3, <2>2, <2>4, <4>1 DEF BInv, RefusalIsKnown
      <4> QED BY <2>2, <4>1, <4>2 DEF SameExecutions
    <3> QED BY <3>1, <3>2
  <2>5. ASSUME run'.status = "completed"
        PROVE  /\ ~run'.working
               /\ \A p \in Runtimes : exec'[p].attempt # run'.attempt
               /\ \A d \in Calls : call'[d].attempt = run'.attempt =>
                                    call'[d].pc \in Ended \ {"refused"}
    BY <1>3, <2>1, <2>5 DEF BInv, RefusalIsKnown, SameRequest
  <2> QED BY <2>4, <2>5 DEF RefusalIsKnown
<1>6. NothingLeftBehind'
  <2>1. \A d \in Pending' : d \in Pending \/ (d = c /\ AttemptRuns(c))
    BY DEF Pending, SameRow, Accounted
  <2> QED BY <1>3, <2>1 DEF BInv, NothingLeftBehind, AttemptRuns, Pending
<1> QED BY <1>1, <1>2, <1>4, <1>5, <1>6

LEMMA KeepRow ==
    ASSUME BInv, NEW c \in Calls, UNCHANGED <<res, used>>
    PROVE  SameRow(c) /\ used'.calls \in Nat /\ CallsCounted'
BY SameRows DEF BInv, Shape, SameRow

LEMMA ThrowIfAbortedKeeps ==
    ASSUME BInv, NEW c \in Calls, ThrowIfAborted(c)
    PROVE  BInv'
<1>1. Shape /\ "failed" \in PCs /\ call[c].pc \notin Ended \cup {"new"}
  BY DEF BInv, PCs, Ended, ThrowIfAborted, Step
<1>2. /\ SameRequest(c) /\ call'[c].pc = "failed" /\ call'[c].billed = call[c].billed
      /\ SameExecutions /\ SameRow(c) /\ used'.calls \in Nat /\ CallsCounted'
  BY <1>1, GotoIs, UnchangedExecutions, KeepRow DEF ThrowIfAborted
<1>3. Accounted(c)
  BY <1>2 DEF Accounted, BInv, RowsAgree, ThrowIfAborted
<1>4. UNCHANGED run
  BY DEF ThrowIfAborted
<1> QED BY <1>1, <1>2, <1>3, <1>4, RequestStep DEF BInv

LEMMA BeforeDispatchKeeps ==
    ASSUME BInv, NEW c \in Calls, NEW cap \in Caps, BeforeDispatch(c, cap)
    PROVE  BInv'
<1>1. /\ Shape /\ CallsCounted /\ res[c].status = "none" /\ ~res[c].dispatched
      /\ call[c].pc \notin Ended \cup {"new"} /\ call[c].billed = 0
  BY DEF BInv, BeforeDispatch, Step, Ended, RowsAgree, Shape, IsRequest
<1>2. UNCHANGED <<run, used>> /\ used'.calls \in Nat
  BY DEF BeforeDispatch, BInv, Shape
<1> DEFINE tokens == Least(call[c].remaining, cap)
<1>3. CASE AttemptRuns(c) /\ WithinLimits(tokens) /\ run.status = "running" /\ ~overdue
  <2>1. /\ res' = [res EXCEPT ![c] = [NoReservation EXCEPT !.status = "reserved",
                                                           !.tokens = tokens]]
        /\ Goto(c, "reserved") /\ UNCHANGED exec
    BY <1>3 DEF BeforeDispatch
  <2>2. /\ SameRow(c) /\ res'[c].status = "reserved" /\ ~res'[c].dispatched
    BY <1>1, <2>1 DEF Shape, SameRow, IsRow, NoReservation
  <2>3. SameRequest(c) /\ call'[c].pc = "reserved" /\ call'[c].billed = 0 /\ SameExecutions
    <3>1. "reserved" \in PCs
      BY DEF PCs
    <3> QED BY <1>1, <2>1, <3>1, GotoIs, UnchangedExecutions
  <2>4. Accounted(c)
    BY <1>3, <2>2, <2>3 DEF Accounted
  <2>5. CallsCounted'
    BY <1>1, <1>2, <1>3, <2>2, CountReserved DEF WithinLimits, SameRow
  <2> QED BY <1>1, <1>2, <2>2, <2>3, <2>4, <2>5, RequestStep DEF BInv
<1>4. CASE Refuse(c) /\ UNCHANGED res
  <2>1. /\ SameRequest(c) /\ call'[c].pc = "refused" /\ call'[c].billed = call[c].billed
        /\ SameExecutions
        /\ ToldToStop(c)
    BY <1>1, <1>4, RefuseIs
  <2>2. SameRow(c) /\ CallsCounted'
    BY <1>2, <1>4, KeepRow
  <2>3. Accounted(c)
    <3>1. call'[c].billed = 0 /\ res'[c].status = "none" /\ ~res'[c].dispatched
      BY <1>1, <1>4, <2>1
    <3> QED BY <2>1, <3>1 DEF Accounted
  <2> QED BY <1>1, <1>2, <2>1, <2>2, <2>3, RequestStep DEF BInv
<1> QED BY <1>3, <1>4 DEF BeforeDispatch

LEMMA OnDispatchStartedKeeps ==
    ASSUME BInv, NEW c \in Calls, OnDispatchStarted(c)
    PROVE  BInv'
<1>1. /\ Shape /\ CallsCounted /\ ~res[c].dispatched /\ res[c].status # "settled"
      /\ call[c].pc \notin Ended \cup {"new"} /\ call[c].billed = 0
  BY DEF BInv, OnDispatchStarted, Step, Ended, RowsAgree, Shape, IsRequest
<1>2. UNCHANGED <<run, used>> /\ used'.calls \in Nat
  BY DEF OnDispatchStarted, BInv, Shape
<1>3. CASE /\ res[c].status = "reserved" /\ AttemptRuns(c)
           /\ res' = [res EXCEPT ![c].dispatched = TRUE]
           /\ Goto(c, "marked") /\ UNCHANGED exec
  <2>1. /\ SameRow(c) /\ res'[c].status = "reserved" /\ res'[c].dispatched
    BY <1>1, <1>3 DEF Shape, SameRow, IsRow
  <2>2. SameRequest(c) /\ call'[c].pc = "marked" /\ SameExecutions
    <3>1. "marked" \in PCs
      BY DEF PCs
    <3> QED BY <1>1, <1>3, <3>1, GotoIs, UnchangedExecutions
  <2>3. Accounted(c)
    BY <1>3, <2>1, <2>2 DEF Accounted
  <2>4. CallsCounted'
    BY <1>1, <1>2, <1>3, <2>1, CountKept DEF SameRow
  <2> QED BY <1>1, <1>2, <2>1, <2>2, <2>3, <2>4, RequestStep DEF BInv
<1>4. CASE res' = [res EXCEPT ![c].status = "released"] /\ Refuse(c)
  <2>1. SameRow(c) /\ res'[c].status = "released" /\ ~res'[c].dispatched
    BY <1>1, <1>4 DEF Shape, SameRow, IsRow
  <2>2. /\ SameRequest(c) /\ call'[c].pc = "refused" /\ call'[c].billed = 0
        /\ SameExecutions /\ ToldToStop(c)
    BY <1>1, <1>4, RefuseIs
  <2>3. Accounted(c)
    BY <2>1, <2>2 DEF Accounted
  <2>4. CallsCounted'
    BY <1>1, <1>2, <2>1, CountReleased DEF SameRow
  <2> QED BY <1>1, <1>2, <2>1, <2>2, <2>3, <2>4, RequestStep DEF BInv
<1> QED BY <1>3, <1>4 DEF OnDispatchStarted

LEMMA FetchKeeps ==
    ASSUME BInv, NEW c \in Calls, Fetch(c)
    PROVE  BInv'
<1>1. /\ Shape /\ res[c].dispatched /\ call[c].pc \notin Ended \cup {"new"}
      /\ res[c].status \in {"reserved", "settled"}
  BY DEF BInv, Fetch, Step, Ended, RowsAgree
<1>2. SameRequest(c) /\ call'[c].pc = "asked"
  <2>1. PICK n \in Bills : call' = [call EXCEPT ![c] = [@ EXCEPT !.pc = "asked", !.billed = n]]
    BY DEF Fetch
  <2>2. n \in Nat /\ "asked" \in PCs
    BY BudgetAssumption DEF PCs
  <2> QED BY <1>1, <2>1, <2>2 DEF Shape, SameRequest, IsRequest
<1>3. SameExecutions /\ SameRow(c) /\ used'.calls \in Nat /\ CallsCounted' /\ UNCHANGED <<run, res>>
  BY <1>1, UnchangedExecutions, KeepRow DEF Fetch
<1>4. Accounted(c)
  BY <1>1, <1>2, <1>3 DEF Accounted
<1> QED BY <1>1, <1>2, <1>3, <1>4, RequestStep DEF BInv

LEMMA AnswerKeeps ==
    ASSUME BInv, NEW c \in Calls, Answer(c)
    PROVE  BInv'
<1>1. /\ Shape /\ res[c].dispatched /\ call[c].pc \notin Ended \cup {"new"}
      /\ res[c].status \in {"reserved", "settled"}
  BY DEF BInv, Answer, Step, Ended, RowsAgree
<1>2. SameRequest(c) /\ call'[c].pc = "answered"
  <2>1. PICK reported \in BOOLEAN :
          call' = [call EXCEPT ![c] = [@ EXCEPT !.pc = "answered", !.reported = reported]]
    BY DEF Answer
  <2>2. "answered" \in PCs
    BY DEF PCs
  <2> QED BY <1>1, <2>1, <2>2 DEF Shape, SameRequest, IsRequest
<1>3. SameExecutions /\ SameRow(c) /\ used'.calls \in Nat /\ CallsCounted' /\ UNCHANGED <<run, res>>
  BY <1>1, UnchangedExecutions, KeepRow DEF Answer
<1>4. Accounted(c)
  BY <1>1, <1>2, <1>3 DEF Accounted
<1> QED BY <1>1, <1>2, <1>3, <1>4, RequestStep DEF BInv

LEMMA OnDispatchFinishedKeeps ==
    ASSUME BInv, NEW c \in Calls, OnDispatchFinished(c)
    PROVE  BInv'
<1>1. /\ Shape /\ CallsCounted /\ res[c].dispatched /\ call[c].pc \notin Ended \cup {"new"}
      /\ res[c].status \in {"reserved", "settled"}
  BY DEF BInv, OnDispatchFinished, Step, Ended, RowsAgree
<1>2. UNCHANGED run
  BY DEF OnDispatchFinished
<1> DEFINE pc == IF call[c].reported THEN "done" ELSE "failed"
<1>3. pc \in PCs /\ pc \notin {"new", "ready", "reserved", "refused"}
  BY DEF PCs, Ended
<1> HIDE DEF pc
<1>4. CASE /\ res[c].status = "reserved"
           /\ res' = [res EXCEPT ![c] = SettledRow(c, Charge(c), Source(c))]
           /\ used' = [calls |-> used.calls + 1, tokens |-> used.tokens + Charge(c)]
           /\ Goto(c, pc) /\ UNCHANGED exec
  <2>1. SameRow(c) /\ res'[c].status = "settled" /\ res'[c].dispatched
    BY <1>1, <1>4 DEF Shape, SameRow, IsRow, SettledRow
  <2>2. SameRequest(c) /\ call'[c].pc = pc /\ SameExecutions
    BY <1>1, <1>3, <1>4, GotoIs, UnchangedExecutions
  <2>3. Accounted(c)
    BY <1>3, <2>1, <2>2 DEF Accounted
  <2>4. used'.calls = used.calls + 1 /\ used'.calls \in Nat
    BY <1>1, <1>4 DEF Shape
  <2>5. CallsCounted'
    BY <1>1, <1>4, <2>1, <2>4, CountSettled DEF SameRow
  <2> QED BY <1>1, <1>2, <2>1, <2>2, <2>3, <2>4, <2>5, RequestStep DEF BInv
<1>5. CASE Goto(c, pc) /\ UNCHANGED <<res, used, exec>>
  <2>1. SameRequest(c) /\ call'[c].pc = pc /\ SameExecutions
    BY <1>1, <1>3, <1>5, GotoIs, UnchangedExecutions
  <2>2. SameRow(c) /\ used'.calls \in Nat /\ CallsCounted'
    BY <1>5, KeepRow
  <2>3. Accounted(c)
    BY <1>1, <1>3, <1>5, <2>1 DEF Accounted
  <2> QED BY <1>1, <1>2, <2>1, <2>2, <2>3, RequestStep DEF BInv
<1>6. CASE Refuse(c) /\ UNCHANGED <<res, used>>
  <2>1. SameRequest(c) /\ call'[c].pc = "refused" /\ SameExecutions /\ ToldToStop(c)
    BY <1>1, <1>6, RefuseIs
  <2>2. SameRow(c) /\ used'.calls \in Nat /\ CallsCounted'
    BY <1>6, KeepRow
  <2>3. Accounted(c)
    BY <1>1, <1>6, <2>1 DEF Accounted
  <2> QED BY <1>1, <1>2, <2>1, <2>2, <2>3, RequestStep DEF BInv
<1> QED BY <1>4, <1>5, <1>6 DEF OnDispatchFinished, pc

-----------------------------------------------------------------------------
(* A body makes a request.                                                 *)

\* Request d is made by the execution of p; at most a failed one is done with.
Asked(p, d) ==
    /\ DOMAIN call' = Calls
    /\ IsRequest(call'[d]) /\ call'[d].runtime = p /\ call'[d].attempt = exec[p].attempt
    /\ call'[d].billed = 0 /\ call'[d].pc \in {"ready", "failed", "refused"}
    /\ \A e \in Calls \ {d} :
         /\ IsRequest(call'[e])
         /\ call'[e].runtime = call[e].runtime /\ call'[e].attempt = call[e].attempt
         /\ call'[e].billed = call[e].billed
         /\ call'[e].pc = call[e].pc \/ (call[e].pc = "failed" /\ call'[e].pc = "done")

\* A refusal has told the execution of p to stop.
RefusalStops(p, d) == call'[d].pc = "refused" => exec'[p].control # ""

LEMMA AskedStep ==
    ASSUME BInv, NEW p \in Runtimes, NEW d \in Calls, call[d].pc = "new", Asked(p, d),
           exec[p].attempt # 0, SameExecutions, run' = run, used' = used, res' = res,
           RefusalStops(p, d)
    PROVE  BInv'
<1>1. Shape'
  BY DEF BInv, Shape, Asked, SameExecutions
<1>2. /\ res[d].status = "none" /\ ~res[d].dispatched /\ d \notin Pending
      /\ call'[d].runtime = p /\ call'[d].attempt = exec[p].attempt /\ call'[d].billed = 0
      /\ call'[d].pc \in {"ready", "failed", "refused"}
  BY DEF BInv, RowsAgree, Shape, IsRow, Asked, Pending
<1>3. ASSUME NEW c \in Calls, c # d
      PROVE  /\ call'[c].runtime = call[c].runtime /\ call'[c].attempt = call[c].attempt
             /\ call'[c].billed = call[c].billed
             /\ call'[c].pc = call[c].pc \/ (call[c].pc = "failed" /\ call'[c].pc = "done")
  BY <1>3 DEF Asked
<1>4. \A q \in Runtimes : exec'[q].attempt = exec[q].attempt
  BY DEF SameExecutions
<1>5. RowsAgree'
  BY <1>2, <1>3 DEF BInv, RowsAgree
<1>6. OneWorker'
  <2>1. ASSUME NEW c \in Calls
        PROVE  call'[c].attempt <= run.attempt
    BY <1>2, <1>3 DEF BInv, OneWorker
  <2>2. ASSUME NEW c \in Calls, NEW q \in Runtimes,
               exec[q].attempt = call'[c].attempt, exec[q].attempt # 0
        PROVE  call'[c].runtime = q
    BY <1>2, <1>3, <2>2 DEF BInv, OneWorker
  <2>3. /\ \A q \in Runtimes : exec'[q].attempt <= run'.attempt
        /\ \A q, r \in Runtimes :
             exec'[q].attempt = exec'[r].attempt /\ exec'[q].attempt # 0 => q = r
    BY <1>4 DEF BInv, OneWorker
  <2> QED BY <1>4, <2>1, <2>2, <2>3 DEF OneWorker
<1>7. RefusalIsKnown'
  <2>1. ASSUME NEW c \in Calls, call'[c].pc = "refused", call'[c].attempt = run.attempt,
               exec'[call'[c].runtime].attempt = run.attempt
        PROVE  exec'[call'[c].runtime].control # ""
    <3>1. CASE c = d
      BY <1>2, <2>1, <3>1 DEF RefusalStops
    <3>2. CASE c # d
      <4>1. /\ call[c].pc = "refused" /\ call[c].attempt = run.attempt
            /\ call'[c].runtime = call[c].runtime /\ call[c].runtime \in Runtimes
        BY <1>3, <2>1, <3>2 DEF BInv, Shape, IsRequest
      <4>2. exec[call[c].runtime].control # ""
        BY <1>4, <2>1, <4>1 DEF BInv, RefusalIsKnown
      <4> QED BY <4>1, <4>2 DEF SameExecutions
    <3> QED BY <3>1, <3>2
  <2>2. ASSUME run.status = "completed"
        PROVE  /\ ~run.working
               /\ \A q \in Runtimes : exec'[q].attempt # run.attempt
               /\ \A c \in Calls : call'[c].attempt = run.attempt =>
                                    call'[c].pc \in Ended \ {"refused"}
    <3>1. /\ ~run.working
          /\ \A q \in Runtimes : exec[q].attempt # run.attempt
          /\ \A c \in Calls : call[c].attempt = run.attempt => call[c].pc \in Ended \ {"refused"}
      BY <2>2 DEF BInv, RefusalIsKnown
    <3>2. ASSUME NEW c \in Calls, call'[c].attempt = run.attempt
          PROVE  call'[c].pc \in Ended \ {"refused"}
      BY <1>2, <1>3, <3>1, <3>2 DEF Ended
    <3> QED BY <1>4, <3>1, <3>2
  <2> QED BY <2>1, <2>2 DEF RefusalIsKnown
<1>8. NothingLeftBehind'
  <2>1. Pending' = Pending
    BY DEF Pending
  <2>2. \A c \in Pending : call'[c].attempt = call[c].attempt
    BY <1>2, <1>3 DEF Pending
  <2> QED BY <2>1, <2>2 DEF BInv, NothingLeftBehind
<1>9. CallsCounted'
  BY SameRows DEF BInv
<1> QED BY <1>1, <1>5, <1>6, <1>7, <1>8, <1>9 DEF BInv

LEMMA AskKeeps ==
    ASSUME BInv, NEW p \in Runtimes, NEW c \in Calls, Ask(p, c)
    PROVE  BInv'
<1>1. /\ Shape /\ call[c].pc = "new" /\ exec[p].attempt # 0 /\ exec[p].attempt \in Nat
      /\ UNCHANGED <<run, used, res>>
  BY DEF BInv, Ask, Works, Shape, Execution
<1>2. ASSUME NEW pc \in {"ready", "failed", "refused"},
             call' = [call EXCEPT ![c] = [NewCall(p) EXCEPT !.pc = pc,
                        !.attempt = exec[p].attempt, !.remaining = MaxTokens - used.tokens]]
      PROVE  Asked(p, c) /\ call'[c].pc = pc
  <2>1. pc \in PCs
    BY DEF PCs, Ended
  <2> QED BY <1>1, <1>2, <2>1 DEF Shape, IsRequest, NewCall, Asked
<1>3. /\ \/ UNCHANGED exec
         \/ exec' = PausedForBudget(p)
      /\ \E pc \in {"ready", "failed", "refused"} :
           /\ call' = [call EXCEPT ![c] = [NewCall(p) EXCEPT !.pc = pc,
                        !.attempt = exec[p].attempt, !.remaining = MaxTokens - used.tokens]]
           /\ pc = "refused" => exec' = PausedForBudget(p)
  BY DEF Ask
<1>4. SameExecutions
  BY <1>1, <1>3, UnchangedExecutions, PausedIs
<1>5. Asked(p, c) /\ (call'[c].pc = "refused" => exec' = PausedForBudget(p))
  BY <1>2, <1>3
<1>6. RefusalStops(p, c)
  BY <1>1, <1>4, <1>5, PausedIs DEF SameExecutions, RefusalStops
<1> QED BY <1>1, <1>4, <1>5, <1>6, AskedStep

LEMMA RepeatKeeps ==
    ASSUME BInv, NEW c \in Calls, NEW d \in Calls, Repeat(c, d)
    PROVE  BInv'
<1> DEFINE p == call[c].runtime
<1>1. /\ Shape /\ call[d].pc = "new" /\ call[c].pc = "failed" /\ c # d
      /\ exec[p].attempt # 0 /\ exec[p].attempt = call[c].attempt
      /\ UNCHANGED <<run, used, res, exec>>
  BY DEF BInv, Repeat, Works, Step
<1>2. p \in Runtimes /\ call[c].attempt \in Nat
  BY <1>1 DEF Shape, IsRequest
<1>3. Asked(p, d) /\ call'[d].pc = "ready"
  <2>1. "ready" \in PCs /\ "done" \in PCs
    BY DEF PCs, Ended
  <2>2. call' = [call EXCEPT ![c] = [@ EXCEPT !.pc = "done"],
                             ![d] = [NewCall(p) EXCEPT !.pc = "ready",
                                       !.attempt = call[c].attempt,
                                       !.remaining = call[c].remaining]]
    BY DEF Repeat
  <2> QED BY <1>1, <1>2, <2>1, <2>2 DEF Shape, IsRequest, NewCall, Asked
<1>4. SameExecutions
  BY <1>1, UnchangedExecutions
<1>5. RefusalStops(p, d)
  BY <1>3 DEF RefusalStops
<1> QED BY <1>1, <1>2, <1>3, <1>4, <1>5, AskedStep

-----------------------------------------------------------------------------
(* The run and its executions: no step but Resume starts anything.         *)

\* Executions end or go on, and whoever was told to stop still is.
NoNewExecution ==
    /\ exec' \in [Runtimes -> Execution]
    /\ \A p \in Runtimes :
         \/ exec'[p].attempt = 0
         \/ /\ exec'[p].attempt = exec[p].attempt
            /\ exec[p].control # "" => exec'[p].control # ""

\* Requests go on, or nobody waits for them any more.
SomeLost ==
    /\ DOMAIN call' = Calls
    /\ \A c \in Calls :
         /\ IsRequest(call'[c])
         /\ call'[c].runtime = call[c].runtime /\ call'[c].attempt = call[c].attempt
         /\ call'[c].billed = call[c].billed
         /\ call'[c].pc = call[c].pc \/ call'[c].pc \in {"lost", "abandoned"}

\* The attempt in hand stops, or goes on.
NoNewAttempt ==
    /\ run' \in [status : RunStatus, attempt : Nat \ {0}, working : BOOLEAN]
    /\ run'.attempt = run.attempt
    /\ run'.working => run.working

\* A run that completes now has nobody left to go on with it.
CompletesClean ==
    run'.status = "completed" =>
        \/ run.status = "completed"
        \/ /\ ~run'.working
           /\ \A p \in Runtimes : exec'[p].attempt # run.attempt
           /\ \A c \in Calls : call[c].attempt = run.attempt => call[c].pc \in Ended \ {"refused"}

LEMMA RunStep ==
    ASSUME BInv, NoNewExecution, SomeLost, NoNewAttempt, CompletesClean,
           used' = used, res' = res
    PROVE  BInv'
<1>1. Shape'
  BY DEF BInv, Shape, NoNewExecution, SomeLost, NoNewAttempt
<1>2. RowsAgree'
  <2>1. ASSUME NEW c \in Calls
        PROVE  /\ call'[c].attempt = call[c].attempt /\ call'[c].billed = call[c].billed
               /\ call'[c].pc = call[c].pc \/ call'[c].pc \in {"lost", "abandoned"}
    BY DEF SomeLost
  <2> QED BY <2>1 DEF BInv, RowsAgree
<1>3. /\ \A c \in Calls : call'[c].runtime = call[c].runtime /\ call'[c].attempt = call[c].attempt
      /\ \A p \in Runtimes : exec'[p].attempt \in {0, exec[p].attempt}
      /\ run'.attempt = run.attempt /\ run.attempt \in Nat \ {0}
  BY DEF SomeLost, NoNewExecution, NoNewAttempt, BInv, Shape
<1>4. OneWorker'
  <2>1. \A p \in Runtimes : exec'[p].attempt <= run'.attempt
    BY <1>3 DEF BInv, OneWorker
  <2>2. \A c \in Calls : call'[c].attempt <= run'.attempt
    BY <1>3 DEF BInv, OneWorker
  <2>3. ASSUME NEW p \in Runtimes, NEW q \in Runtimes,
               exec'[p].attempt = exec'[q].attempt, exec'[p].attempt # 0
        PROVE  p = q
    BY <1>3, <2>3 DEF BInv, OneWorker
  <2>4. ASSUME NEW c \in Calls, NEW p \in Runtimes,
               exec'[p].attempt = call'[c].attempt, exec'[p].attempt # 0
        PROVE  call'[c].runtime = p
    BY <1>3, <2>4 DEF BInv, OneWorker
  <2> QED BY <2>1, <2>2, <2>3, <2>4 DEF OneWorker
<1>5. RefusalIsKnown'
  <2>1. ASSUME NEW c \in Calls, call'[c].pc = "refused", call'[c].attempt = run.attempt,
               exec'[call'[c].runtime].attempt = run.attempt
        PROVE  exec'[call'[c].runtime].control # ""
    <3>1. /\ call[c].pc = "refused" /\ call[c].attempt = run.attempt
          /\ call'[c].runtime = call[c].runtime /\ call[c].runtime \in Runtimes
      BY <1>3, <2>1 DEF SomeLost, BInv, Shape, IsRequest
    <3>2. exec[call[c].runtime].attempt = run.attempt
      BY <1>3, <2>1, <3>1
    <3>3. exec[call[c].runtime].control # ""
      BY <3>1, <3>2 DEF BInv, RefusalIsKnown
    <3> QED BY <1>3, <2>1, <3>1, <3>3 DEF NoNewExecution
  <2>2. ASSUME run'.status = "completed"
        PROVE  /\ ~run'.working
               /\ \A p \in Runtimes : exec'[p].attempt # run.attempt
               /\ \A c \in Calls : call[c].attempt = run.attempt => call[c].pc \in Ended \ {"refused"}
    <3>1. CASE run.status = "completed"
      <4>1. /\ ~run.working
            /\ \A p \in Runtimes : exec[p].attempt # run.attempt
            /\ \A c \in Calls : call[c].attempt = run.attempt => call[c].pc \in Ended \ {"refused"}
        BY <3>1 DEF BInv, RefusalIsKnown
      <4> QED BY <1>3, <4>1 DEF NoNewAttempt
    <3> QED BY <2>2, <3>1 DEF CompletesClean
  <2>3. ASSUME run'.status = "completed", NEW c \in Calls, call'[c].attempt = run.attempt
        PROVE  call'[c].pc \in Ended \ {"refused"}
    <3>1. call[c].pc \in Ended \ {"refused"}
      BY <1>3, <2>2, <2>3
    <3>2. call'[c].pc = call[c].pc \/ call'[c].pc \in {"lost", "abandoned"}
      BY DEF SomeLost
    <3> QED BY <3>1, <3>2 DEF Ended
  <2> QED BY <1>3, <2>1, <2>2, <2>3 DEF RefusalIsKnown
<1>6. NothingLeftBehind'
  <2>1. Pending' = Pending /\ \A c \in Pending : c \in Calls
    BY DEF Pending
  <2> QED BY <1>3, <2>1 DEF BInv, NothingLeftBehind, NoNewAttempt
<1>7. CallsCounted'
  BY SameRows DEF BInv
<1> QED BY <1>1, <1>2, <1>4, <1>5, <1>6, <1>7 DEF BInv

LEMMA SameCalls ==
    ASSUME BInv, UNCHANGED call
    PROVE  SomeLost
BY DEF BInv, Shape, SomeLost

LEMMA NoExecutionIs == NoExecution \in Execution /\ NoExecution.attempt = 0
BY DEF NoExecution, Execution

\* How an execution ends: the run completes only with the attempt of p.
LEMMA SettleIs ==
    ASSUME BInv, NEW p \in Runtimes, NEW to \in RunStatus, Settle(p, to)
    PROVE  /\ NoNewExecution /\ NoNewAttempt
           /\ \A q \in Runtimes \ {p} : exec'[q] = exec[q]
           /\ run'.status = "completed" =>
                \/ run.status = "completed"
                \/ /\ to = "completed" /\ run.attempt = exec[p].attempt
                   /\ ~run'.working /\ exec'[p].attempt = 0
<1> DEFINE from     == IF to = "cancelled" /\ "cancelling" \in RunTransitions[run.status]
                       THEN "cancelling" ELSE run.status
           finished == /\ run.working /\ run.attempt = exec[p].attempt
                       /\ to = "cancelled" => from = "cancelling"
           settled  == finished /\ RunMayBecome(from, to)
<1>1. /\ run \in [status : RunStatus, attempt : Nat \ {0}, working : BOOLEAN]
      /\ exec \in [Runtimes -> Execution]
  BY DEF BInv, Shape
<1>2. /\ run' = [run EXCEPT !.status = IF settled THEN to ELSE from,
                            !.working = @ /\ ~finished]
      /\ exec' = [exec EXCEPT ![p] = IF settled THEN NoExecution ELSE [@ EXCEPT !.lost = TRUE]]
  BY DEF Settle
<1>3. /\ from \in RunStatus /\ finished \in BOOLEAN /\ settled \in BOOLEAN
      /\ from = "completed" => run.status = "completed"
      /\ settled => finished
      /\ finished => run.attempt = exec[p].attempt
  BY <1>1 DEF RunStatus
<1> HIDE DEF from, finished, settled
<1>4. NoNewAttempt
  BY <1>1, <1>2, <1>3 DEF NoNewAttempt
<1>5. [exec[p] EXCEPT !.lost = TRUE] \in Execution
  BY <1>1 DEF Execution
<1>6. NoNewExecution /\ \A q \in Runtimes \ {p} : exec'[q] = exec[q]
  <2> DEFINE e == IF settled THEN NoExecution ELSE [exec[p] EXCEPT !.lost = TRUE]
  <2>1. /\ e \in Execution
        /\ \/ e.attempt = 0
           \/ e.attempt = exec[p].attempt /\ (exec[p].control # "" => e.control # "")
    BY <1>1, <1>5, NoExecutionIs DEF Execution
  <2>2. exec' = [exec EXCEPT ![p] = e]
    BY <1>2
  <2> HIDE DEF e
  <2> QED BY <1>1, <2>1, <2>2 DEF NoNewExecution
<1>7. run'.status = (IF settled THEN to ELSE from) /\ run'.working = (run.working /\ ~finished)
  BY <1>1, <1>2
<1>8. settled => exec'[p].attempt = 0
  BY <1>1, <1>2, NoExecutionIs
<1> QED BY <1>3, <1>4, <1>6, <1>7, <1>8

LEMMA CompleteRunKeeps ==
    ASSUME BInv, NEW p \in Runtimes, CompleteRun(p)
    PROVE  BInv'
<1> DEFINE to == IF run.status = "cancelling" \/ exec[p].control = "cancel" THEN "cancelled"
                 ELSE IF run.status = "paused" \/ exec[p].control = "pause" THEN "paused"
                 ELSE "completed"
<1>1. /\ Works(p) /\ InFlight(p) = {} /\ Settle(p, to)
      /\ used' = used /\ res' = res /\ UNCHANGED call
  BY DEF CompleteRun
<1>2. to \in RunStatus /\ (to = "completed" => exec[p].control \notin {"cancel", "pause"})
  BY DEF RunStatus
<1> HIDE DEF to
<1>3. /\ NoNewExecution /\ NoNewAttempt /\ SomeLost
      /\ \A q \in Runtimes \ {p} : exec'[q] = exec[q]
      /\ run'.status = "completed" =>
           \/ run.status = "completed"
           \/ /\ to = "completed" /\ run.attempt = exec[p].attempt
              /\ ~run'.working /\ exec'[p].attempt = 0
  BY <1>1, <1>2, SettleIs, SameCalls
<1>4. CompletesClean
  <2>1. SUFFICES ASSUME to = "completed", run.attempt = exec[p].attempt,
                        ~run'.working, exec'[p].attempt = 0
                 PROVE  /\ \A q \in Runtimes : exec'[q].attempt # run.attempt
                        /\ \A c \in Calls : call[c].attempt = run.attempt =>
                                             call[c].pc \in Ended \ {"refused"}
    BY <1>3 DEF CompletesClean
  <2>2. run.attempt \in Nat \ {0} /\ exec[p].control = ""
    BY <1>2, <2>1 DEF BInv, Shape, Execution
  <2>3. ASSUME NEW q \in Runtimes, exec'[q].attempt = run.attempt
        PROVE  FALSE
    <3>1. q # p /\ exec[q].attempt = exec[p].attempt /\ exec[q].attempt # 0
      BY <1>3, <2>1, <2>2, <2>3
    <3> QED BY <3>1 DEF BInv, OneWorker
  <2>4. ASSUME NEW c \in Calls, call[c].attempt = run.attempt
        PROVE  call[c].pc \in Ended \ {"refused"}
    <3>1. call[c].runtime = p /\ call[c].pc # "new"
      BY <2>1, <2>2, <2>4 DEF BInv, OneWorker, RowsAgree
    <3>2. call[c].pc \in Ended
      BY <1>1, <2>1, <2>4, <3>1 DEF InFlight
    <3>3. call[c].pc # "refused"
      BY <2>1, <2>2, <2>4, <3>1 DEF BInv, RefusalIsKnown
    <3> QED BY <3>2, <3>3
  <2> QED BY <2>3, <2>4
<1> QED BY <1>1, <1>3, <1>4, RunStep

LEMMA FailTargetIs ==
    ASSUME NEW p \in Runtimes
    PROVE  FailTarget(p) \in RunStatus /\ FailTarget(p) # "completed"
BY DEF FailTarget, RunStatus

LEMMA FailRunKeeps ==
    ASSUME BInv, NEW p \in Runtimes, FailRun(p)
    PROVE  BInv'
<1>1. Settle(p, FailTarget(p)) /\ used' = used /\ res' = res /\ UNCHANGED call
  BY DEF FailRun
<1>2. NoNewExecution /\ NoNewAttempt /\ SomeLost /\ CompletesClean
  BY <1>1, FailTargetIs, SettleIs, SameCalls DEF CompletesClean
<1> QED BY <1>1, <1>2, RunStep

LEMMA FailStreamKeeps ==
    ASSUME BInv, NEW p \in Runtimes, NEW c \in Calls, FailStream(p, c)
    PROVE  BInv'
<1>1. Settle(p, FailTarget(p)) /\ used' = used /\ res' = res /\ Goto(c, "abandoned")
  BY DEF FailStream
<1>2. NoNewExecution /\ NoNewAttempt /\ CompletesClean
  BY <1>1, FailTargetIs, SettleIs DEF CompletesClean
<1>3. SomeLost
  <2>1. Shape /\ "abandoned" \in PCs
    BY DEF BInv, PCs, Ended
  <2>2. SameRequest(c) /\ call'[c].pc = "abandoned" /\ call'[c].billed = call[c].billed
    BY <1>1, <2>1, GotoIs
  <2> QED BY <2>1, <2>2 DEF SomeLost, SameRequest, Shape
<1> QED BY <1>1, <1>2, <1>3, RunStep

LEMMA RequestPauseKeeps ==
    ASSUME BInv, NEW p \in Runtimes, RequestPause(p)
    PROVE  BInv'
<1>1. /\ run \in [status : RunStatus, attempt : Nat \ {0}, working : BOOLEAN]
      /\ exec \in [Runtimes -> Execution]
      /\ used' = used /\ res' = res /\ UNCHANGED call
  BY DEF BInv, Shape, RequestPause
<1>2. \E to \in {run.status, "paused"} : run' = [run EXCEPT !.status = to]
  BY DEF RequestPause, ControlStatus
<1>3. NoNewAttempt /\ CompletesClean
  BY <1>1, <1>2 DEF NoNewAttempt, CompletesClean, RunStatus
<1>4. NoNewExecution
  <2>1. [exec[p] EXCEPT !.control = "pause"] \in Execution
    BY <1>1 DEF Execution
  <2>2. CASE UNCHANGED exec
    BY <1>1, <2>2 DEF NoNewExecution
  <2>3. CASE exec' = [exec EXCEPT ![p] = [@ EXCEPT !.control = "pause"]]
    BY <1>1, <2>1, <2>3 DEF NoNewExecution, Execution
  <2> QED BY <2>2, <2>3 DEF RequestPause
<1> QED BY <1>1, <1>3, <1>4, SameCalls, RunStep

LEMMA RequestCancelKeeps ==
    ASSUME BInv, NEW p \in Runtimes, RequestCancel(p)
    PROVE  BInv'
<1>1. /\ run \in [status : RunStatus, attempt : Nat \ {0}, working : BOOLEAN]
      /\ exec \in [Runtimes -> Execution]
      /\ used' = used /\ res' = res /\ UNCHANGED call
  BY DEF BInv, Shape, RequestCancel
<1>2. \E to \in {"cancelled", "cancelling"} : run' = [run EXCEPT !.status = to]
  BY DEF RequestCancel
<1>3. NoNewAttempt /\ CompletesClean
  BY <1>1, <1>2 DEF NoNewAttempt, CompletesClean, RunStatus
<1>4. NoNewExecution
  <2> DEFINE e == [exec[p] EXCEPT !.control = "cancel", !.aborted = TRUE]
  <2>1. e \in Execution /\ e.attempt = exec[p].attempt /\ e.control = "cancel"
    BY <1>1 DEF Execution
  <2>2. UNCHANGED exec \/ exec' = [exec EXCEPT ![p] = e]
    BY DEF RequestCancel
  <2> HIDE DEF e
  <2>3. CASE UNCHANGED exec
    BY <1>1, <2>3 DEF NoNewExecution
  <2>4. CASE exec' = [exec EXCEPT ![p] = e]
    BY <1>1, <2>1, <2>4 DEF NoNewExecution
  <2> QED BY <2>2, <2>3, <2>4
<1> QED BY <1>1, <1>3, <1>4, SameCalls, RunStep

LEMMA SameExecs ==
    ASSUME BInv, UNCHANGED exec
    PROVE  NoNewExecution
BY DEF BInv, Shape, NoNewExecution

LEMMA ClaimStaleRunKeeps ==
    ASSUME BInv, NEW p \in Runtimes, ClaimStaleRun(p)
    PROVE  BInv'
<1>1. /\ run' = [run EXCEPT !.status = "paused", !.working = FALSE]
      /\ used' = used /\ res' = res /\ UNCHANGED exec /\ UNCHANGED call
  BY DEF ClaimStaleRun
<1>2. NoNewAttempt /\ CompletesClean
  BY <1>1 DEF NoNewAttempt, CompletesClean, RunStatus, BInv, Shape
<1> QED BY <1>1, <1>2, SameCalls, SameExecs, RunStep

LEMMA CrashKeeps ==
    ASSUME BInv, NEW p \in Runtimes, Crash(p)
    PROVE  BInv'
<1>1. /\ exec' = [exec EXCEPT ![p] = NoExecution]
      /\ call' = [c \in Calls |->
                    IF call[c].runtime = p /\ call[c].pc \notin Ended \cup {"new"}
                    THEN [call[c] EXCEPT !.pc = "lost"] ELSE call[c]]
      /\ run' = run /\ used' = used /\ res' = res
  BY DEF Crash
<1>2. NoNewAttempt /\ CompletesClean
  BY <1>1 DEF NoNewAttempt, CompletesClean, BInv, Shape
<1>3. NoNewExecution
  BY <1>1, NoExecutionIs DEF NoNewExecution, BInv, Shape
<1>4. SomeLost
  <2>1. "lost" \in PCs
    BY DEF PCs, Ended
  <2> QED BY <1>1, <2>1 DEF SomeLost, BInv, Shape, IsRequest
<1> QED BY <1>1, <1>2, <1>3, <1>4, RunStep

LEMMA NothingChanges ==
    ASSUME BInv, UNCHANGED <<run, used, res, exec, call>>
    PROVE  BInv'
BY DEF BInv, Shape, RowsAgree, OneWorker, RefusalIsKnown, CallsCounted,
       CallsWithinBudget, NothingLeftBehind, Pending, Settled

-----------------------------------------------------------------------------
(* A new attempt.                                                          *)

LEMMA ReconciledRowsAre ==
    ASSUME BInv, res' = ReconciledRows
    PROVE  /\ DOMAIN res' = Calls
           /\ \A c \in Calls :
                /\ IsRow(res'[c]) /\ res'[c].dispatched = res[c].dispatched
                /\ res'[c].status =
                     IF res[c].status # "reserved" THEN res[c].status
                     ELSE IF res[c].dispatched THEN "settled" ELSE "released"
<1>1. \A c \in Calls : IsRow(res[c])
  BY DEF BInv, Shape
<1>2. DOMAIN res' = Calls
  BY DEF ReconciledRows
<1>3. ASSUME NEW c \in Calls
      PROVE  /\ IsRow(res'[c]) /\ res'[c].dispatched = res[c].dispatched
             /\ res'[c].status =
                  IF res[c].status # "reserved" THEN res[c].status
                  ELSE IF res[c].dispatched THEN "settled" ELSE "released"
  <2>1. CASE c \in Dispatched
    <3>1. res'[c] = SettledRow(c, res[c].tokens, "reservation")
      BY <2>1 DEF ReconciledRows
    <3> QED BY <1>1, <2>1, <3>1 DEF SettledRow, IsRow, Dispatched, Pending
  <2>2. CASE c \in Pending \ Dispatched
    <3>1. res'[c] = [res[c] EXCEPT !.status = "released"]
      BY <2>2 DEF ReconciledRows
    <3> QED BY <1>1, <2>2, <3>1 DEF IsRow, Dispatched, Pending
  <2>3. CASE c \notin Pending
    <3>1. res'[c] = res[c]
      BY <2>3 DEF ReconciledRows, Dispatched
    <3> QED BY <1>1, <2>3, <3>1 DEF Pending
  <2> QED BY <2>1, <2>2, <2>3
<1> QED BY <1>2, <1>3

LEMMA ResumeKeeps ==
    ASSUME BInv, NEW p \in Runtimes, Resume(p)
    PROVE  BInv'
<1>1. /\ res' = ReconciledRows /\ used' = ReconciledUsage /\ call' = call
      /\ run.status \in {"paused", "failed"} /\ exec[p].attempt = 0
      /\ run \in [status : RunStatus, attempt : Nat \ {0}, working : BOOLEAN]
      /\ exec \in [Runtimes -> Execution]
  BY DEF Resume, BInv, Shape
<1>2. CallsCounted' /\ Pending' = {} /\ NothingLeftBehind'
  BY <1>1, CountReconciled DEF BInv, NothingLeftBehind
<1>3. RowsAgree'
  BY <1>1, ReconciledRowsAre DEF BInv, RowsAgree, Shape, IsRow
<1>4. /\ DOMAIN res' = Calls /\ DOMAIN call' = Calls
      /\ \A c \in Calls : IsRow(res'[c]) /\ IsRequest(call'[c])
      /\ used'.calls \in Nat
  <2>1. used'.calls = used.calls + Cardinality(Dispatched) /\ used.calls \in Nat
    BY <1>1 DEF ReconciledUsage, BInv, Shape
  <2> QED BY <1>1, <2>1, ReconciledRowsAre, RowsAreFinite DEF BInv, Shape
<1>5. CASE (run' = run \/ run' = [run EXCEPT !.status = "paused"]) /\ exec' = exec
  <2>1. /\ run' \in [status : RunStatus, attempt : Nat \ {0}, working : BOOLEAN]
        /\ run'.attempt = run.attempt /\ run'.status # "completed"
    BY <1>1, <1>5 DEF RunStatus
  <2>2. Shape'
    BY <1>1, <1>4, <1>5, <2>1 DEF Shape
  <2>3. OneWorker'
    BY <1>1, <1>5, <2>1 DEF BInv, OneWorker
  <2>4. RefusalIsKnown'
    BY <1>1, <1>5, <2>1 DEF BInv, RefusalIsKnown
  <2> QED BY <1>2, <1>3, <2>2, <2>3, <2>4 DEF BInv
<1>6. CASE /\ run' = [status |-> "running", attempt |-> run.attempt + 1, working |-> TRUE]
           /\ exec' = [exec EXCEPT ![p] = [NoExecution EXCEPT !.attempt = run.attempt + 1]]
  <2>1. /\ run' \in [status : RunStatus, attempt : Nat \ {0}, working : BOOLEAN]
        /\ run'.attempt = run.attempt + 1 /\ run'.status = "running"
    BY <1>1, <1>6 DEF RunStatus
  <2>2. /\ exec' \in [Runtimes -> Execution] /\ exec'[p].attempt = run.attempt + 1
        /\ \A q \in Runtimes \ {p} : exec'[q] = exec[q]
    <3> DEFINE e == [NoExecution EXCEPT !.attempt = run.attempt + 1]
    <3>1. run.attempt + 1 \in Nat
      BY <1>1
    <3>2. e \in Execution /\ e.attempt = run.attempt + 1
      BY <3>1, NoExecutionIs DEF Execution
    <3>3. exec' = [exec EXCEPT ![p] = e]
      BY <1>6
    <3> HIDE DEF e
    <3> QED BY <1>1, <3>2, <3>3
  <2>3. Shape'
    BY <1>4, <2>1, <2>2 DEF Shape
  <2>4. /\ \A q \in Runtimes : exec[q].attempt <= run.attempt /\ exec[q].attempt \in Nat
        /\ \A c \in Calls : call[c].attempt <= run.attempt /\ call[c].attempt \in Nat
        /\ run.attempt \in Nat
    BY <1>1 DEF BInv, OneWorker, Shape, IsRequest, Execution
  <2>5. OneWorker'
    <3>1. ASSUME NEW q \in Runtimes
          PROVE  exec'[q].attempt <= run'.attempt
      <4>1. CASE q = p
        BY <2>1, <2>2, <2>4, <4>1
      <4>2. CASE q # p
        <5>1. exec'[q] = exec[q]
          BY <2>2, <4>2
        <5> QED BY <2>1, <2>4, <5>1
      <4> QED BY <4>1, <4>2
    <3>2. \A c \in Calls : call'[c].attempt <= run'.attempt
      BY <1>1, <2>1, <2>4
    <3>3. ASSUME NEW q \in Runtimes, NEW r \in Runtimes,
                 exec'[q].attempt = exec'[r].attempt, exec'[q].attempt # 0
          PROVE  q = r
      BY <2>2, <2>4, <3>3 DEF BInv, OneWorker
    <3>4. ASSUME NEW c \in Calls, NEW q \in Runtimes,
                 exec'[q].attempt = call'[c].attempt, exec'[q].attempt # 0
          PROVE  call'[c].runtime = q
      BY <1>1, <2>2, <2>4, <3>4 DEF BInv, OneWorker
    <3> QED BY <3>1, <3>2, <3>3, <3>4 DEF OneWorker
  <2>6. RefusalIsKnown'
    <3>1. \A c \in Calls : call'[c].attempt # run'.attempt
      BY <1>1, <2>1, <2>4
    <3> QED BY <2>1, <3>1 DEF RefusalIsKnown
  <2> QED BY <1>2, <1>3, <2>3, <2>5, <2>6 DEF BInv
<1> QED BY <1>5, <1>6 DEF Resume

-----------------------------------------------------------------------------
(* The invariant, and what follows from it.                                *)

LEMMA InitHolds == Init => BInv
<1> SUFFICES ASSUME Init PROVE BInv
  OBVIOUS
<1>1. PICK p \in Runtimes :
        /\ run = [status |-> "running", attempt |-> 1, working |-> TRUE]
        /\ used = [calls |-> 0, tokens |-> 0]
        /\ res = [c \in Calls |-> NoReservation]
        /\ exec = [q \in Runtimes |->
                     IF q = p THEN [NoExecution EXCEPT !.attempt = 1] ELSE NoExecution]
        /\ call = [c \in Calls |-> NewCall(p)]
  BY DEF Init
<1>2. /\ \A c \in Calls : /\ IsRow(res[c]) /\ res[c].status = "none" /\ ~res[c].dispatched
                          /\ IsRequest(call[c]) /\ call[c].pc = "new"
                          /\ call[c].attempt = 0 /\ call[c].billed = 0
      /\ DOMAIN res = Calls /\ DOMAIN call = Calls
  BY <1>1 DEF NoReservation, NewCall, IsRow, IsRequest, PCs
<1>3. /\ exec \in [Runtimes -> Execution]
      /\ \A q \in Runtimes : exec[q].attempt = IF q = p THEN 1 ELSE 0
  BY <1>1 DEF NoExecution, Execution
<1>4. run \in [status : RunStatus, attempt : Nat \ {0}, working : BOOLEAN] /\ used.calls = 0
  BY <1>1 DEF RunStatus
<1>5. Shape /\ RowsAgree
  BY <1>2, <1>3, <1>4 DEF Shape, RowsAgree
<1>6. OneWorker /\ RefusalIsKnown
  <2>1. run.attempt = 1 /\ run.status = "running"
    BY <1>1
  <2>2. /\ \A q \in Runtimes : exec[q].attempt \in {0, 1} /\ (exec[q].attempt # 0 => q = p)
        /\ \A c \in Calls : call[c].attempt = 0
    BY <1>2, <1>3
  <2>3. OneWorker
    <3>1. /\ \A q \in Runtimes : exec[q].attempt <= run.attempt
          /\ \A c \in Calls : call[c].attempt <= run.attempt
      BY <2>1, <2>2
    <3>2. \A q, r \in Runtimes :
            exec[q].attempt = exec[r].attempt /\ exec[q].attempt # 0 => q = r
      BY <2>2
    <3>3. \A c \in Calls, q \in Runtimes :
            exec[q].attempt = call[c].attempt /\ exec[q].attempt # 0 => call[c].runtime = q
      BY <2>2
    <3> QED BY <3>1, <3>2, <3>3 DEF OneWorker
  <2>4. RefusalIsKnown
    <3>1. \A c \in Calls : call[c].attempt # run.attempt
      BY <2>1, <2>2
    <3> QED BY <2>1, <3>1 DEF RefusalIsKnown
  <2> QED BY <2>3, <2>4
<1>7. Pending = {} /\ Settled = {}
  BY <1>2 DEF Pending, Settled
<1>8. CallsCounted
  BY <1>4, <1>7, FS_EmptySet, BudgetAssumption DEF CallsCounted, CallsWithinBudget
<1> QED BY <1>5, <1>6, <1>7, <1>8 DEF BInv, NothingLeftBehind

LEMMA NextKeeps == BInv /\ [Next]_vars => BInv'
<1> SUFFICES ASSUME BInv, [Next]_vars PROVE BInv'
  OBVIOUS
<1>1. CASE UNCHANGED vars
  BY <1>1, NothingChanges DEF vars
<1>2. CASE DeadlinePasses
  BY <1>2, NothingChanges DEF DeadlinePasses
<1>3. ASSUME NEW c \in Calls,
             \/ \E p \in Runtimes : Ask(p, c) \/ FailStream(p, c)
             \/ \E d \in Calls : Repeat(c, d)
             \/ ThrowIfAborted(c) \/ \E cap \in Caps : BeforeDispatch(c, cap)
             \/ OnDispatchStarted(c) \/ Fetch(c) \/ Answer(c) \/ OnDispatchFinished(c)
      PROVE  BInv'
  BY <1>3, AskKeeps, FailStreamKeeps, RepeatKeeps, ThrowIfAbortedKeeps, BeforeDispatchKeeps,
     OnDispatchStartedKeeps, FetchKeeps, AnswerKeeps, OnDispatchFinishedKeeps
<1>4. ASSUME NEW p \in Runtimes,
             \/ CompleteRun(p) \/ FailRun(p) \/ RequestPause(p) \/ RequestCancel(p)
             \/ ClaimStaleRun(p) \/ Resume(p) \/ Crash(p)
      PROVE  BInv'
  BY <1>4, CompleteRunKeeps, FailRunKeeps, RequestPauseKeeps, RequestCancelKeeps,
     ClaimStaleRunKeeps, ResumeKeeps, CrashKeeps
<1> QED BY <1>1, <1>2, <1>3, <1>4 DEF Next

\* In every reachable state rows and requests agree, each attempt has one
\* runtime, a refusal is known to the execution it concerns, and the calls
\* charged are the rows settled (kernel/execution-store.ts, runtime.ts).
THEOREM BudgetInvariance == Spec => []BInv
BY InitHolds, NextKeeps, PTL DEF Spec

\* However many processes reserve, settle and reconcile, calls made and calls
\* reserved never exceed max_model_calls
\* (assertModelBudgetReservationWithinLimits).
THEOREM CallsStayWithinBudget == Spec => []CallsWithinBudget
<1>1. BInv => CallsWithinBudget
  BY DEF BInv, CallsCounted
<1> QED BY <1>1, BudgetInvariance, PTL

\* While an attempt works no reservation of an earlier one is left
\* (resumeRun, reconcileModelBudgetReservations).
THEOREM NothingIsLeftBehind == Spec => []NothingLeftBehind
<1>1. BInv => NothingLeftBehind
  BY DEF BInv
<1> QED BY <1>1, BudgetInvariance, PTL

\* A request that may have left the process is dispatched in the store and
\* is never released, wherever its process crashed (onDispatchStarted).
THEOREM SentCallsAreAccounted == Spec => []SentIsAccounted
<1>1. BInv => SentIsAccounted
  BY DEF BInv, RowsAgree, SentIsAccounted
<1> QED BY <1>1, BudgetInvariance, PTL

\* A run does not complete with an attempt whose request the budget refused
\* (pauseActiveRunForBudget, completeRun).
THEOREM RefusedDoesNotComplete == Spec => []RefusedIsNotCompleted
<1>1. BInv => RefusedIsNotCompleted
  BY DEF BInv, RefusalIsKnown, RefusedIsNotCompleted
<1> QED BY <1>1, BudgetInvariance, PTL

-----------------------------------------------------------------------------
(* Sums.                                                                   *)

\* A finite set of requests, each with a natural number.
Countable(f, S) == IsFiniteSet(S) /\ \A c \in S : f[c] \in Nat

LEMMA UnitsOfOne ==
    ASSUME NEW c, NEW n \in Nat
    PROVE  IsFiniteSet({c} \X (1..n)) /\ Cardinality({c} \X (1..n)) = n
<1>1. IsFiniteSet(1..n) /\ Cardinality(1..n) = n
  BY FS_Interval
<1>2. IsFiniteSet({c}) /\ Cardinality({c}) = 1
  BY FS_Singleton
<1> QED BY <1>1, <1>2, FS_Product

LEMMA TotalIsNumber ==
    ASSUME NEW f, NEW S, Countable(f, S)
    PROVE  IsFiniteSet(Units(f, S)) /\ Total(f, S) \in Nat
<1> DEFINE g == [c \in S |-> {c} \X (1..f[c])]
           T == {{c} \X (1..f[c]) : c \in S}
<1>1. g \in Surjection(S, T)
  BY DEF Surjection
<1>2. IsFiniteSet(T)
  BY <1>1, FS_Surjection DEF Countable
<1>3. ASSUME NEW c \in S
      PROVE  IsFiniteSet({c} \X (1..f[c]))
  BY UnitsOfOne DEF Countable
<1>4. \A t \in T : IsFiniteSet(t)
  BY <1>3
<1> HIDE DEF T
<1>5. IsFiniteSet(UNION T)
  BY <1>2, <1>4, FS_UNION
<1> QED BY <1>5, FS_CardinalityType DEF Units, Total, T

LEMMA TotalOfNone ==
    ASSUME NEW f
    PROVE  Total(f, {}) = 0
<1>1. Units(f, {}) = {}
  BY DEF Units
<1> QED BY <1>1, FS_EmptySet DEF Total

LEMMA DisjointSum ==
    ASSUME NEW A, NEW B, IsFiniteSet(A), IsFiniteSet(B), A \cap B = {}
    PROVE  Cardinality(A \cup B) = Cardinality(A) + Cardinality(B)
<1>1. Cardinality(A \cup B) = Cardinality(A) + Cardinality(B) - Cardinality(A \cap B)
  BY FS_Union
<1>2. Cardinality(A \cap B) = 0 /\ Cardinality(A) \in Nat /\ Cardinality(B) \in Nat
  BY FS_EmptySet, FS_CardinalityType
<1> QED BY <1>1, <1>2

LEMMA TotalOfUnion ==
    ASSUME NEW f, NEW S, NEW T, Countable(f, S), Countable(f, T), S \cap T = {}
    PROVE  Total(f, S \cup T) = Total(f, S) + Total(f, T)
<1>1. Units(f, S \cup T) = Units(f, S) \cup Units(f, T)
  BY DEF Units
<1>2. Units(f, S) \cap Units(f, T) = {}
  <2>1. \A x \in Units(f, S) : x[1] \in S
    BY DEF Units
  <2>2. \A x \in Units(f, T) : x[1] \in T
    BY DEF Units
  <2> QED BY <2>1, <2>2
<1>3. IsFiniteSet(Units(f, S)) /\ IsFiniteSet(Units(f, T))
  BY TotalIsNumber
<1> QED BY <1>1, <1>2, <1>3, DisjointSum DEF Total

LEMMA TotalOfOne ==
    ASSUME NEW f, NEW c, f[c] \in Nat
    PROVE  Countable(f, {c}) /\ Total(f, {c}) = f[c]
<1>1. Units(f, {c}) = {c} \X (1..f[c])
  BY DEF Units
<1>2. Cardinality({c} \X (1..f[c])) = f[c]
  BY UnitsOfOne
<1>3. Countable(f, {c})
  BY FS_Singleton DEF Countable
<1> QED BY <1>1, <1>2, <1>3 DEF Total

\* Only the numbers of the requests that are counted matter.
LEMMA TotalIsLocal ==
    ASSUME NEW f, NEW g, NEW S, \A c \in S : f[c] = g[c]
    PROVE  Total(f, S) = Total(g, S)
<1>1. Units(f, S) = Units(g, S)
  BY DEF Units
<1> QED BY <1>1 DEF Total

LEMMA TotalGrows ==
    ASSUME NEW f, NEW g, NEW S, NEW T, Countable(f, S), Countable(g, T),
           \A c \in S : f[c] > 0 => c \in T /\ f[c] <= g[c]
    PROVE  Total(f, S) <= Total(g, T)
<1>1. Units(f, S) \subseteq Units(g, T)
  <2>1. ASSUME NEW c \in S, NEW n \in 1..f[c]
        PROVE  c \in T /\ n \in 1..g[c]
    <3>1. f[c] \in Nat /\ f[c] > 0
      BY <2>1 DEF Countable
    <3>2. c \in T /\ f[c] <= g[c] /\ g[c] \in Nat
      BY <3>1 DEF Countable
    <3> QED BY <3>1, <3>2
  <2> QED BY <2>1 DEF Units
<1> QED BY <1>1, TotalIsNumber, FS_Subset DEF Total

\* One request joins those counted.
LEMMA TotalWithOne ==
    ASSUME NEW f, NEW S, NEW c, Countable(f, S), c \notin S, f[c] \in Nat
    PROVE  Total(f, S \cup {c}) = Total(f, S) + f[c]
<1>1. S \cap {c} = {}
  OBVIOUS
<1>2. Countable(f, {c}) /\ Total(f, {c}) = f[c]
  BY TotalOfOne
<1>3. Total(f, S \cup {c}) = Total(f, S) + Total(f, {c})
  BY <1>1, <1>2, TotalOfUnion
<1> QED BY <1>2, <1>3

LEMMA TotalWithoutOne ==
    ASSUME NEW f, NEW S, NEW c \in S, Countable(f, S)
    PROVE  Total(f, S) = Total(f, S \ {c}) + f[c]
<1>1. S = (S \ {c}) \cup {c} /\ c \notin S \ {c} /\ f[c] \in Nat
  BY DEF Countable
<1>2. Countable(f, S \ {c})
  BY FS_Subset DEF Countable
<1> QED BY <1>1, <1>2, TotalWithOne

-----------------------------------------------------------------------------
(* Tokens.                                                                 *)

\* The fields that BInv leaves out, as numbers.
NumbersAreNumbers ==
    /\ used \in [calls : Nat, tokens : Nat]
    /\ \A c \in Calls :
         /\ res[c].tokens \in Nat /\ res[c].charged \in Nat
         /\ res[c].source \in {"", "provider", "reservation"}
         /\ call[c].remaining \in Int /\ call[c].reported \in BOOLEAN
    /\ overdue \in BOOLEAN /\ up \subseteq Runtimes

\* A row is charged what it had reserved, or what was billed for a request that
\* is over; and whoever is about to reserve found something left.
BillsAreKept ==
    \A c \in Calls :
        /\ call[c].pc = "ready" => call[c].remaining > 0
        /\ res[c].status = "settled" =>
             \/ res[c].charged = res[c].tokens
             \/ call[c].pc \in Ended /\ res[c].charged = call[c].billed

SumsAgree == used.tokens = Charges /\ TokensWithinBudget

TokensInv == NumbersAreNumbers /\ BillsAreKept /\ SumsAgree

\* The numbers of the rows and requests can be summed.
LEMMA RowsAreCountable ==
    ASSUME BInv, TokensInv
    PROVE  /\ Countable(Tokens, Pending) /\ Countable(Tokens, Dispatched)
           /\ Countable(Charged, Settled) /\ Countable(Billed, Calls)
           /\ \A c \in Calls : /\ Tokens[c] = res[c].tokens /\ Charged[c] = res[c].charged
                               /\ Billed[c] = call[c].billed
           /\ PendingTokens \in Nat /\ Charges \in Nat
           /\ used.tokens \in Nat /\ MaxTokens \in Nat
<1>1. \A c \in Calls : /\ Tokens[c] = res[c].tokens /\ Charged[c] = res[c].charged
                       /\ Billed[c] = call[c].billed
  BY DEF Tokens, Charged, Billed
<1>2. \A c \in Calls : res[c].tokens \in Nat /\ res[c].charged \in Nat /\ call[c].billed \in Nat
  BY DEF TokensInv, NumbersAreNumbers, BInv, Shape, IsRequest
<1>3. /\ Countable(Tokens, Pending) /\ Countable(Tokens, Dispatched)
      /\ Countable(Charged, Settled)
  BY <1>1, <1>2, RowsAreFinite DEF Countable, Pending, Settled, Dispatched
<1>4. Countable(Billed, Calls)
  BY <1>1, <1>2, BudgetAssumption DEF Countable
<1>5. PendingTokens \in Nat /\ Charges \in Nat
  BY <1>3, TotalIsNumber DEF PendingTokens, Charges
<1>6. used.tokens \in Nat
  BY DEF TokensInv, NumbersAreNumbers
<1>7. MaxTokens \in Nat
  BY BudgetAssumption
<1> QED BY <1>1, <1>3, <1>4, <1>5, <1>6, <1>7

\* What is reserved and what is charged, where neither changes.
LEMMA SumsStay ==
    ASSUME SumsAgree, UNCHANGED <<res, used>>
    PROVE  SumsAgree'
BY DEF SumsAgree, TokensWithinBudget, PendingTokens, Charges, Tokens, Charged, Pending, Settled

\* A reservation of tokens within the limits.
LEMMA SumsReserved ==
    ASSUME BInv, TokensInv, NEW c \in Calls, NEW tokens \in Nat,
           res[c].status = "none", res'[c].status = "reserved", res'[c].tokens = tokens,
           \A d \in Calls \ {c} : res'[d] = res[d],
           used.tokens + PendingTokens + tokens <= MaxTokens, used' = used
    PROVE  SumsAgree'
<1>1. Pending' = Pending \cup {c} /\ Settled' = Settled /\ c \notin Pending /\ c \notin Settled
  BY DEF Pending, Settled
<1>2. /\ \A d \in Pending : Tokens'[d] = Tokens[d]
      /\ \A d \in Settled : Charged'[d] = Charged[d]
      /\ Tokens'[c] = tokens
  BY <1>1 DEF Tokens, Charged, Pending, Settled
<1>3. Countable(Tokens', Pending)
  BY <1>2, RowsAreCountable DEF Countable
<1>4. PendingTokens' = PendingTokens + tokens
  <2>1. Total(Tokens', Pending \cup {c}) = Total(Tokens', Pending) + Tokens'[c]
    <3>1. Tokens'[c] \in Nat /\ c \notin Pending
      BY <1>1, <1>2
    <3> QED BY <1>3, <3>1, TotalWithOne
  <2>2. Total(Tokens', Pending) = Total(Tokens, Pending)
    BY <1>2, TotalIsLocal
  <2> QED BY <1>1, <1>2, <2>1, <2>2 DEF PendingTokens
<1>5. Charges' = Charges
  BY <1>1, <1>2, TotalIsLocal DEF Charges
<1> QED BY <1>4, <1>5, RowsAreCountable DEF TokensInv, SumsAgree, TokensWithinBudget

\* Rows whose tokens stay, of which fewer are reserved.
LEMMA SumsReleased ==
    ASSUME BInv, TokensInv, used' = used, Settled' = Settled,
           Pending' \subseteq Pending,
           \A c \in Calls : res'[c].tokens = res[c].tokens /\ res'[c].charged = res[c].charged
    PROVE  SumsAgree'
<1>1. /\ \A c \in Pending : Tokens'[c] = Tokens[c]
      /\ \A c \in Settled : Charged'[c] = Charged[c]
  BY DEF Tokens, Charged, Pending, Settled
<1>2. Charges' = Charges
  BY <1>1, TotalIsLocal DEF Charges
<1>3. Countable(Tokens', Pending')
  BY <1>1, RowsAreCountable, FS_Subset DEF Countable
<1>4. PendingTokens' <= PendingTokens /\ PendingTokens' \in Nat
  <2>1. \A c \in Pending' : Tokens'[c] > 0 => c \in Pending /\ Tokens'[c] <= Tokens[c]
    BY <1>1, RowsAreCountable DEF Countable
  <2> QED BY <1>3, <2>1, RowsAreCountable, TotalGrows, TotalIsNumber DEF PendingTokens
<1> QED BY <1>2, <1>4, RowsAreCountable DEF TokensInv, SumsAgree, TokensWithinBudget

\* A reserved row is settled, and charged no more than it had reserved.
LEMMA SumsSettled ==
    ASSUME BInv, TokensInv, NEW c \in Calls, NEW charge \in Nat, charge <= res[c].tokens,
           res[c].status = "reserved", res'[c].status = "settled",
           res'[c].charged = charge, \A d \in Calls \ {c} : res'[d] = res[d],
           used'.tokens = used.tokens + charge
    PROVE  SumsAgree'
<1>1. /\ Pending' = Pending \ {c} /\ c \in Pending
      /\ Settled' = Settled \cup {c} /\ c \notin Settled
  BY DEF Pending, Settled
<1>2. /\ \A d \in Pending \ {c} : Tokens'[d] = Tokens[d]
      /\ \A d \in Settled : Charged'[d] = Charged[d]
      /\ Charged'[c] = charge /\ Tokens[c] = res[c].tokens /\ Tokens[c] \in Nat
  BY <1>1, RowsAreCountable DEF Tokens, Charged, Pending, Settled, Countable
<1>3. PendingTokens = PendingTokens' + Tokens[c] /\ PendingTokens' \in Nat
  <2>1. Total(Tokens, Pending) = Total(Tokens, Pending \ {c}) + Tokens[c]
    BY <1>1, RowsAreCountable, TotalWithoutOne
  <2>2. Total(Tokens', Pending \ {c}) = Total(Tokens, Pending \ {c})
    BY <1>2, TotalIsLocal
  <2>3. Countable(Tokens, Pending \ {c})
    BY RowsAreCountable, FS_Subset DEF Countable
  <2> QED BY <1>1, <2>1, <2>2, <2>3, TotalIsNumber DEF PendingTokens
<1>4. Charges' = Charges + charge
  <2>1. Countable(Charged', Settled)
    BY <1>2, RowsAreCountable DEF Countable
  <2>2. Total(Charged', Settled \cup {c}) = Total(Charged', Settled) + charge
    BY <1>1, <1>2, <2>1, TotalWithOne
  <2>3. Total(Charged', Settled) = Total(Charged, Settled)
    BY <1>2, TotalIsLocal
  <2> QED BY <1>1, <2>2, <2>3 DEF Charges
<1>5. used'.tokens = Charges'
  BY <1>4 DEF TokensInv, SumsAgree
<1>6. used.tokens + charge + PendingTokens' <= MaxTokens
  <2>1. used.tokens + PendingTokens <= MaxTokens
    BY DEF TokensInv, SumsAgree, TokensWithinBudget
  <2> QED BY <1>2, <1>3, <2>1, RowsAreCountable
<1> QED BY <1>5, <1>6 DEF SumsAgree, TokensWithinBudget

\* A reconciliation charges what was dispatched as it was reserved.
LEMMA SumsReconciled ==
    ASSUME BInv, TokensInv, res' = ReconciledRows, used' = ReconciledUsage
    PROVE  SumsAgree'
<1>1. /\ \A c \in Calls :
           res'[c].status = IF c \in Dispatched THEN "settled"
                            ELSE IF c \in Pending THEN "released" ELSE res[c].status
      /\ \A c \in Dispatched : res'[c].charged = res[c].tokens
      /\ \A c \in Settled : res'[c].charged = res[c].charged
  BY DEF BInv, Shape, IsRow, ReconciledRows, SettledRow, Dispatched, Pending, Settled
<1>2. /\ Settled' = Settled \cup Dispatched /\ Settled \cap Dispatched = {}
      /\ Pending' = {} /\ Dispatched \subseteq Pending
  BY <1>1 DEF Pending, Settled, Dispatched
<1>3. /\ \A c \in Settled : Charged'[c] = Charged[c]
      /\ \A c \in Dispatched : Charged'[c] = Tokens[c]
  BY <1>1 DEF Charged, Tokens, Settled, Dispatched, Pending
<1>4. Countable(Charged', Settled) /\ Countable(Charged', Dispatched)
  BY <1>3, RowsAreCountable DEF Countable
<1>5. Charges' = Charges + Total(Tokens, Dispatched)
  <2>1. Total(Charged', Settled \cup Dispatched)
          = Total(Charged', Settled) + Total(Charged', Dispatched)
    BY <1>2, <1>4, TotalOfUnion
  <2>2. /\ Total(Charged', Settled) = Total(Charged, Settled)
        /\ Total(Charged', Dispatched) = Total(Tokens, Dispatched)
    BY <1>3, TotalIsLocal
  <2> QED BY <1>2, <2>1, <2>2 DEF Charges
<1>6. used'.tokens = used.tokens + Total(Tokens, Dispatched)
  BY DEF ReconciledUsage
<1>7. PendingTokens' = 0
  BY <1>2, TotalOfNone DEF PendingTokens
<1>8. Total(Tokens, Dispatched) <= PendingTokens /\ Total(Tokens, Dispatched) \in Nat
  <2>1. \A c \in Dispatched : Tokens[c] > 0 => c \in Pending /\ Tokens[c] <= Tokens[c]
    BY <1>2, RowsAreCountable DEF Countable
  <2> QED BY <2>1, RowsAreCountable, TotalGrows, TotalIsNumber DEF PendingTokens
<1> QED BY <1>5, <1>6, <1>7, <1>8, RowsAreCountable DEF TokensInv, SumsAgree, TokensWithinBudget

\* A step that leaves the rows and the usage alone.
LEMMA QuietTokens ==
    ASSUME TokensInv, UNCHANGED <<res, used>>, overdue' \in BOOLEAN, up' \subseteq Runtimes,
           \A c \in Calls :
             /\ call'[c].remaining \in Int /\ call'[c].reported \in BOOLEAN
             /\ call'[c].pc = "ready" => call'[c].remaining > 0
             /\ call[c].pc \in Ended => call'[c].pc \in Ended /\ call'[c].billed = call[c].billed
    PROVE  TokensInv'
<1>1. NumbersAreNumbers'
  BY DEF TokensInv, NumbersAreNumbers
<1>2. BillsAreKept'
  BY DEF TokensInv, BillsAreKept
<1>3. SumsAgree'
  BY SumsStay DEF TokensInv
<1> QED BY <1>1, <1>2, <1>3 DEF TokensInv

\* Requests that only change their place, none of which becomes ready.
OnlyPlaces ==
    \A c \in Calls :
        /\ call'[c].remaining = call[c].remaining /\ call'[c].reported = call[c].reported
        /\ call'[c].billed = call[c].billed
        /\ call'[c].pc = call[c].pc \/ call'[c].pc \notin {"ready", "new"}
        /\ call[c].pc \in Ended => call'[c].pc \in Ended

LEMMA PlacesOnly ==
    ASSUME TokensInv, UNCHANGED <<res, used>>, overdue' \in BOOLEAN, up' \subseteq Runtimes,
           OnlyPlaces
    PROVE  TokensInv'
<1>1. ASSUME NEW c \in Calls
      PROVE  /\ call'[c].remaining \in Int /\ call'[c].reported \in BOOLEAN
             /\ call'[c].pc = "ready" => call'[c].remaining > 0
             /\ call[c].pc \in Ended => call'[c].pc \in Ended /\ call'[c].billed = call[c].billed
  BY DEF OnlyPlaces, TokensInv, NumbersAreNumbers, BillsAreKept
<1> QED BY <1>1, QuietTokens

LEMMA GotoPlaces ==
    ASSUME BInv, NEW c \in Calls, NEW pc \in PCs, pc \notin {"ready", "new"}, Goto(c, pc),
           call[c].pc \in Ended => pc \in Ended
    PROVE  OnlyPlaces
BY DEF BInv, Shape, IsRequest, Goto, OnlyPlaces

LEMMA AskTokens ==
    ASSUME BInv, TokensInv, NEW p \in Runtimes, NEW c \in Calls, Ask(p, c)
    PROVE  TokensInv'
<1> DEFINE remaining == MaxTokens - used.tokens
<1>1. remaining \in Int /\ UNCHANGED <<res, used, overdue, up>> /\ call[c].pc = "new"
  BY RowsAreCountable DEF Ask
<1>2. PICK pc \in {"ready", "failed", "refused"} :
        /\ call' = [call EXCEPT ![c] = [NewCall(p) EXCEPT !.pc = pc,
                      !.attempt = exec[p].attempt, !.remaining = remaining]]
        /\ pc = "ready" => remaining > 0
  BY DEF Ask
<1> HIDE DEF remaining
<1>3. /\ call'[c].pc = pc /\ call'[c].remaining = remaining /\ call'[c].reported = FALSE
      /\ \A d \in Calls \ {c} : call'[d] = call[d]
  BY <1>2 DEF BInv, Shape, NewCall
<1>4. ASSUME NEW d \in Calls
      PROVE  /\ call'[d].remaining \in Int /\ call'[d].reported \in BOOLEAN
             /\ call'[d].pc = "ready" => call'[d].remaining > 0
             /\ call[d].pc \in Ended => call'[d].pc \in Ended /\ call'[d].billed = call[d].billed
  <2>1. CASE d = c
    BY <1>1, <1>2, <1>3, <2>1 DEF Ended
  <2>2. CASE d # c
    BY <1>3, <2>2 DEF TokensInv, NumbersAreNumbers, BillsAreKept
  <2> QED BY <2>1, <2>2
<1>5. overdue' \in BOOLEAN /\ up' \subseteq Runtimes
  BY <1>1 DEF TokensInv, NumbersAreNumbers
<1> QED BY <1>1, <1>4, <1>5, QuietTokens

LEMMA RepeatTokens ==
    ASSUME BInv, TokensInv, NEW c \in Calls, NEW d \in Calls, Repeat(c, d)
    PROVE  TokensInv'
<1>1. /\ call[c].pc = "failed" /\ call[d].pc = "new" /\ call[c].remaining > 0
      /\ call[c].remaining \in Int /\ UNCHANGED <<res, used, overdue, up>>
  BY DEF Repeat, Step, TokensInv, NumbersAreNumbers
<1>2. /\ call'[c].pc = "done" /\ call'[c].remaining = call[c].remaining
      /\ call'[c].reported = call[c].reported /\ call'[c].billed = call[c].billed
      /\ call'[d].remaining = call[c].remaining /\ call'[d].reported = FALSE
      /\ \A e \in Calls \ {c, d} : call'[e] = call[e]
  BY <1>1 DEF Repeat, BInv, Shape, IsRequest, NewCall
<1>3. ASSUME NEW e \in Calls
      PROVE  /\ call'[e].remaining \in Int /\ call'[e].reported \in BOOLEAN
             /\ call'[e].pc = "ready" => call'[e].remaining > 0
             /\ call[e].pc \in Ended => call'[e].pc \in Ended /\ call'[e].billed = call[e].billed
  <2>1. CASE e = c
    BY <1>1, <1>2, <2>1 DEF Ended, TokensInv, NumbersAreNumbers
  <2>2. CASE e = d
    BY <1>1, <1>2, <2>2 DEF Ended
  <2>3. CASE e \notin {c, d}
    BY <1>2, <2>3 DEF TokensInv, NumbersAreNumbers, BillsAreKept
  <2> QED BY <2>1, <2>2, <2>3
<1>4. overdue' \in BOOLEAN /\ up' \subseteq Runtimes
  BY <1>1 DEF TokensInv, NumbersAreNumbers
<1> QED BY <1>1, <1>3, <1>4, QuietTokens

\* What is billed is fixed while the request is under way.
LEMMA FetchTokens ==
    ASSUME BInv, TokensInv, NEW c \in Calls, Fetch(c) \/ Answer(c)
    PROVE  TokensInv'
<1>1. /\ call[c].pc \notin Ended /\ UNCHANGED <<res, used, overdue, up>>
      /\ call'[c].remaining = call[c].remaining /\ call'[c].reported \in BOOLEAN
      /\ call'[c].pc # "ready" /\ \A d \in Calls \ {c} : call'[d] = call[d]
  <2> USE DEF BInv, Shape, IsRequest
  <2>1. UNCHANGED <<res, used, overdue, up>> /\ call[c].pc \in {"marked", "asked"}
    BY DEF Fetch, Answer, Step
  <2>2. call[c].pc \notin Ended /\ call[c].reported \in BOOLEAN
    BY <2>1 DEF Ended, TokensInv, NumbersAreNumbers
  <2>3. CASE Fetch(c)
    <3>1. PICK n \in Bills :
            call' = [call EXCEPT ![c] = [@ EXCEPT !.pc = "asked", !.billed = n]]
      BY <2>3 DEF Fetch
    <3> QED BY <2>1, <2>2, <3>1
  <2>4. CASE Answer(c)
    <3>1. PICK reported \in BOOLEAN :
            call' = [call EXCEPT ![c] = [@ EXCEPT !.pc = "answered", !.reported = reported]]
      BY <2>4 DEF Answer
    <3> QED BY <2>1, <2>2, <3>1
  <2> QED BY <2>3, <2>4
<1>2. ASSUME NEW d \in Calls
      PROVE  /\ call'[d].remaining \in Int /\ call'[d].reported \in BOOLEAN
             /\ call'[d].pc = "ready" => call'[d].remaining > 0
             /\ call[d].pc \in Ended => call'[d].pc \in Ended /\ call'[d].billed = call[d].billed
  BY <1>1 DEF TokensInv, NumbersAreNumbers, BillsAreKept
<1>3. overdue' \in BOOLEAN /\ up' \subseteq Runtimes
  BY <1>1 DEF TokensInv, NumbersAreNumbers
<1> QED BY <1>1, <1>2, <1>3, QuietTokens

LEMMA ThrowIfAbortedTokens ==
    ASSUME BInv, TokensInv, NEW c \in Calls, ThrowIfAborted(c)
    PROVE  TokensInv'
<1>1. OnlyPlaces
  BY GotoPlaces DEF ThrowIfAborted, PCs, Ended
<1> QED BY <1>1, PlacesOnly DEF ThrowIfAborted, TokensInv, NumbersAreNumbers

\* A request that reserves.
LEMMA BeforeDispatchTokens ==
    ASSUME BInv, TokensInv, NEW c \in Calls, NEW cap \in Caps, BeforeDispatch(c, cap)
    PROVE  TokensInv'
<1> DEFINE tokens == Least(call[c].remaining, cap)
<1>1. /\ res[c].status = "none" /\ call[c].pc = "ready" /\ tokens \in Nat
      /\ used' = used /\ overdue' \in BOOLEAN /\ up' \subseteq Runtimes
  <2>1. res[c].status = "none" /\ call[c].pc = "ready"
    BY DEF BeforeDispatch, Step, BInv, RowsAgree
  <2>2. call[c].remaining \in Int /\ call[c].remaining > 0
    BY <2>1 DEF TokensInv, NumbersAreNumbers, BillsAreKept
  <2>3. tokens \in Nat
    BY <2>2, BudgetAssumption DEF Least
  <2> QED BY <2>1, <2>3 DEF BeforeDispatch, TokensInv, NumbersAreNumbers
<1>2. CASE Refuse(c) /\ UNCHANGED res
  <2>1. OnlyPlaces
    BY <1>1, <1>2, GotoPlaces DEF Refuse, PCs, Ended
  <2> QED BY <1>1, <1>2, <2>1, PlacesOnly
<1>3. CASE /\ WithinLimits(tokens) /\ Goto(c, "reserved")
           /\ res' = [res EXCEPT ![c] = [NoReservation EXCEPT !.status = "reserved",
                                                              !.tokens = tokens]]
  <2> HIDE DEF tokens
  <2>1. /\ res'[c].status = "reserved" /\ res'[c].tokens = tokens /\ res'[c].charged = 0
        /\ res'[c].source = "" /\ \A d \in Calls \ {c} : res'[d] = res[d]
    BY <1>3 DEF BInv, Shape, NoReservation
  <2>2. OnlyPlaces
    BY <1>1, <1>3, GotoPlaces DEF PCs, Ended
  <2>3. SumsAgree'
    BY <1>1, <1>3, <2>1, SumsReserved DEF WithinLimits
  <2>4. NumbersAreNumbers'
    <3>1. ASSUME NEW d \in Calls
          PROVE  /\ res'[d].tokens \in Nat /\ res'[d].charged \in Nat
                 /\ res'[d].source \in {"", "provider", "reservation"}
      <4>1. CASE d = c
        <5>1. 0 \in Nat
          OBVIOUS
        <5> QED BY <1>1, <2>1, <4>1, <5>1
      <4>2. CASE d # c
        BY <2>1, <4>2 DEF TokensInv, NumbersAreNumbers
      <4> QED BY <4>1, <4>2
    <3> QED BY <1>1, <2>2, <3>1 DEF TokensInv, NumbersAreNumbers, OnlyPlaces
  <2>5. BillsAreKept'
    BY <2>1, <2>2 DEF TokensInv, BillsAreKept, OnlyPlaces
  <2> QED BY <2>3, <2>4, <2>5 DEF TokensInv
<1> QED BY <1>2, <1>3 DEF BeforeDispatch

\* A request that is marked as dispatched, or refused and released.
LEMMA OnDispatchStartedTokens ==
    ASSUME BInv, TokensInv, NEW c \in Calls, OnDispatchStarted(c)
    PROVE  TokensInv'
<1>1. /\ res[c].status # "settled" /\ call[c].pc = "reserved"
      /\ used' = used /\ overdue' \in BOOLEAN /\ up' \subseteq Runtimes
  BY DEF OnDispatchStarted, Step, BInv, RowsAgree, TokensInv, NumbersAreNumbers
<1>2. OnlyPlaces
  BY <1>1, GotoPlaces DEF OnDispatchStarted, Refuse, PCs, Ended
<1>3. /\ \A d \in Calls \ {c} : res'[d] = res[d]
      /\ res'[c].tokens = res[c].tokens /\ res'[c].charged = res[c].charged
      /\ res'[c].source = res[c].source
      /\ res'[c].status \in {res[c].status, "released"}
  BY DEF OnDispatchStarted, BInv, Shape, IsRow
<1>4. Settled' = Settled /\ Pending' \subseteq Pending
  BY <1>1, <1>3 DEF Settled, Pending
<1>5. SumsAgree'
  BY <1>1, <1>3, <1>4, SumsReleased
<1>6. NumbersAreNumbers'
  BY <1>1, <1>2, <1>3 DEF TokensInv, NumbersAreNumbers, OnlyPlaces
<1>7. BillsAreKept'
  BY <1>1, <1>2, <1>3 DEF TokensInv, BillsAreKept, OnlyPlaces
<1> QED BY <1>5, <1>6, <1>7 DEF TokensInv

\* A request that is settled.
LEMMA OnDispatchFinishedTokens ==
    ASSUME BInv, TokensInv, NEW c \in Calls, OnDispatchFinished(c)
    PROVE  TokensInv'
<1>1. call[c].pc = "answered" /\ overdue' \in BOOLEAN /\ up' \subseteq Runtimes
  BY DEF OnDispatchFinished, Step, TokensInv, NumbersAreNumbers
<1>2. OnlyPlaces /\ call'[c].pc \in Ended
  <2>1. PICK pc \in {"done", "failed", "refused"} : Goto(c, pc)
    BY DEF OnDispatchFinished, Refuse
  <2>2. pc \in PCs /\ pc \in Ended /\ pc \notin {"ready", "new"}
    BY DEF PCs, Ended
  <2>3. call'[c].pc = pc
    BY <2>1, <2>2, GotoIs DEF BInv
  <2> QED BY <2>1, <2>2, <2>3, GotoPlaces
<1>3. CASE UNCHANGED <<res, used>>
  BY <1>1, <1>2, <1>3, PlacesOnly
<1>4. CASE /\ res[c].status = "reserved" /\ Charge(c) <= res[c].tokens
           /\ res' = [res EXCEPT ![c] = SettledRow(c, Charge(c), Source(c))]
           /\ used' = [calls |-> used.calls + 1, tokens |-> used.tokens + Charge(c)]
  <2>1. /\ Charge(c) \in Nat /\ Source(c) \in {"", "provider", "reservation"}
        /\ Charge(c) \in {res[c].tokens, call[c].billed}
    BY DEF Charge, Source, TokensInv, NumbersAreNumbers, BInv, Shape, IsRequest
  <2>2. /\ res'[c].status = "settled" /\ res'[c].charged = Charge(c)
        /\ res'[c].source = Source(c) /\ res'[c].tokens = res[c].tokens
        /\ \A d \in Calls \ {c} : res'[d] = res[d]
    BY <1>4 DEF SettledRow, BInv, Shape, IsRow
  <2>3. /\ used'.tokens = used.tokens + Charge(c)
        /\ used' \in [calls : Nat, tokens : Nat]
    <3>1. used.calls \in Nat /\ used.tokens \in Nat
      BY DEF TokensInv, NumbersAreNumbers
    <3>2. used.calls + 1 \in Nat /\ used.tokens + Charge(c) \in Nat
      <4>1. PICK n : n = Charge(c)
        OBVIOUS
      <4>2. n \in Nat
        BY <2>1, <4>1
      <4>3. used.calls + 1 \in Nat /\ used.tokens + n \in Nat
        BY <3>1, <4>2
      <4> QED BY <4>1, <4>3
    <3> QED BY <1>4, <3>2
  <2>4. SumsAgree'
    BY <1>4, <2>1, <2>2, <2>3, SumsSettled
  <2>5. NumbersAreNumbers'
    BY <1>1, <1>2, <2>1, <2>2, <2>3 DEF TokensInv, NumbersAreNumbers, OnlyPlaces
  <2>6. BillsAreKept'
    BY <1>2, <2>1, <2>2 DEF TokensInv, BillsAreKept, OnlyPlaces
  <2> QED BY <2>4, <2>5, <2>6 DEF TokensInv
<1> QED BY <1>3, <1>4 DEF OnDispatchFinished

LEMMA ResumeTokens ==
    ASSUME BInv, TokensInv, NEW p \in Runtimes, Resume(p)
    PROVE  TokensInv'
<1>1. /\ res' = ReconciledRows /\ used' = ReconciledUsage /\ UNCHANGED <<overdue, call, up>>
  BY DEF Resume
<1>2. SumsAgree'
  BY <1>1, SumsReconciled
<1>3. ASSUME NEW c \in Calls
      PROVE  /\ res'[c].tokens = res[c].tokens
             /\ res'[c].charged \in Nat /\ res'[c].source \in {"", "provider", "reservation"}
             /\ res'[c].status = "settled" =>
                  \/ res'[c].charged = res'[c].tokens
                  \/ call[c].pc \in Ended /\ res'[c].charged = call[c].billed
  BY <1>1 DEF ReconciledRows, SettledRow, BInv, Shape, IsRow, TokensInv, NumbersAreNumbers,
              BillsAreKept
<1>4. used' \in [calls : Nat, tokens : Nat]
  <2>1. /\ used.calls + Cardinality(Dispatched) \in Nat
        /\ used.tokens + Total(Tokens, Dispatched) \in Nat
    <3>1. used.calls \in Nat /\ used.tokens \in Nat
      BY DEF TokensInv, NumbersAreNumbers
    <3>2. Cardinality(Dispatched) \in Nat /\ Total(Tokens, Dispatched) \in Nat
      BY RowsAreCountable, RowsAreFinite, TotalIsNumber
    <3> QED BY <3>1, <3>2
  <2> QED BY <1>1, <2>1 DEF ReconciledUsage
<1>5. NumbersAreNumbers'
  BY <1>1, <1>3, <1>4 DEF TokensInv, NumbersAreNumbers
<1>6. BillsAreKept'
  BY <1>1, <1>3 DEF TokensInv, BillsAreKept
<1> QED BY <1>2, <1>5, <1>6 DEF TokensInv

LEMMA FailStreamTokens ==
    ASSUME BInv, TokensInv, NEW p \in Runtimes, NEW c \in Calls, FailStream(p, c)
    PROVE  TokensInv'
<1>1. /\ UNCHANGED <<used, res, overdue, up>> /\ Goto(c, "abandoned")
      /\ overdue' \in BOOLEAN /\ up' \subseteq Runtimes
  BY DEF FailStream, TokensInv, NumbersAreNumbers
<1>2. OnlyPlaces
  BY <1>1, GotoPlaces DEF PCs, Ended
<1> QED BY <1>1, <1>2, PlacesOnly

\* The steps of the run leave its requests alone, but a crash loses them.
LEMMA RunTokens ==
    ASSUME BInv, TokensInv, NEW p \in Runtimes,
           \/ CompleteRun(p) \/ FailRun(p) \/ RequestPause(p) \/ RequestCancel(p)
           \/ ClaimStaleRun(p) \/ Crash(p)
    PROVE  TokensInv'
<1>1. UNCHANGED <<used, res>> /\ overdue' \in BOOLEAN /\ up' \subseteq Runtimes
  BY DEF CompleteRun, FailRun, RequestPause, RequestCancel, ClaimStaleRun, Crash,
         TokensInv, NumbersAreNumbers
<1>2. OnlyPlaces
  <2>1. CASE UNCHANGED call
    BY <2>1 DEF OnlyPlaces
  <2>2. CASE Crash(p)
    <3>1. ASSUME NEW c \in Calls
          PROVE  \/ call'[c] = call[c]
                 \/ /\ call[c].pc \notin Ended /\ call'[c].pc = "lost"
                    /\ call'[c].remaining = call[c].remaining
                    /\ call'[c].reported = call[c].reported
                    /\ call'[c].billed = call[c].billed
      BY <2>2 DEF Crash, BInv, Shape, IsRequest
    <3> QED BY <3>1 DEF OnlyPlaces, Ended
  <2> QED
    BY <2>1, <2>2 DEF CompleteRun, FailRun, RequestPause, RequestCancel, ClaimStaleRun
<1> QED BY <1>1, <1>2, PlacesOnly

LEMMA TokensInit == Init => TokensInv
<1> SUFFICES ASSUME Init PROVE TokensInv
  OBVIOUS
<1>1. PICK p \in Runtimes :
        /\ used = [calls |-> 0, tokens |-> 0]
        /\ res = [c \in Calls |-> NoReservation]
        /\ overdue = FALSE /\ up = Runtimes
        /\ call = [c \in Calls |-> NewCall(p)]
  BY DEF Init
<1>2. 0 \in Nat /\ 0 \in Int
  OBVIOUS
<1>3. NumbersAreNumbers
  BY <1>1, <1>2 DEF NumbersAreNumbers, NoReservation, NewCall
<1>4. BillsAreKept /\ Pending = {} /\ Settled = {}
  BY <1>1 DEF BillsAreKept, NoReservation, NewCall, Pending, Settled
<1>5. SumsAgree
  <2>1. PendingTokens = 0 /\ Charges = 0
    BY <1>4, TotalOfNone DEF PendingTokens, Charges
  <2> QED BY <1>1, <2>1, BudgetAssumption DEF SumsAgree, TokensWithinBudget
<1> QED BY <1>3, <1>4, <1>5 DEF TokensInv

LEMMA TokensNext == BInv /\ TokensInv /\ [Next]_vars => TokensInv'
<1> SUFFICES ASSUME BInv, TokensInv, [Next]_vars PROVE TokensInv'
  OBVIOUS
<1>1. CASE UNCHANGED vars \/ DeadlinePasses
  <2>1. UNCHANGED <<used, res, call, up>> /\ overdue' \in BOOLEAN
    BY <1>1 DEF vars, DeadlinePasses, TokensInv, NumbersAreNumbers
  <2>2. OnlyPlaces /\ up' \subseteq Runtimes
    BY <2>1 DEF OnlyPlaces, TokensInv, NumbersAreNumbers
  <2> QED BY <2>1, <2>2, PlacesOnly
<1>2. ASSUME NEW c \in Calls,
             \/ \E p \in Runtimes : Ask(p, c) \/ FailStream(p, c)
             \/ \E d \in Calls : Repeat(c, d)
             \/ ThrowIfAborted(c) \/ \E cap \in Caps : BeforeDispatch(c, cap)
             \/ OnDispatchStarted(c) \/ Fetch(c) \/ Answer(c) \/ OnDispatchFinished(c)
      PROVE  TokensInv'
  BY <1>2, AskTokens, FailStreamTokens, RepeatTokens, ThrowIfAbortedTokens,
     BeforeDispatchTokens, OnDispatchStartedTokens, FetchTokens, OnDispatchFinishedTokens
<1>3. ASSUME NEW p \in Runtimes,
             \/ CompleteRun(p) \/ FailRun(p) \/ RequestPause(p) \/ RequestCancel(p)
             \/ ClaimStaleRun(p) \/ Resume(p) \/ Crash(p)
      PROVE  TokensInv'
  BY <1>3, RunTokens, ResumeTokens
<1> QED BY <1>1, <1>2, <1>3 DEF Next

\* Besides, the tokens used are those charged to the rows settled, and what is
\* used and reserved together is within the budget (kernel/execution-store.ts).
THEOREM TokensInvariance == Spec => [](BInv /\ TokensInv)
<1>1. Init => BInv /\ TokensInv
  BY InitHolds, TokensInit
<1>2. BInv /\ TokensInv /\ [Next]_vars => BInv' /\ TokensInv'
  BY NextKeeps, TokensNext
<1> QED BY <1>1, <1>2, PTL DEF Spec

\* However many processes reserve, settle and reconcile, the tokens used and
\* the tokens reserved never exceed max_output_tokens
\* (assertModelBudgetReservationWithinLimits).
THEOREM TokensStayWithinBudget == Spec => []TokensWithinBudget
<1>1. TokensInv => TokensWithinBudget
  BY DEF TokensInv, SumsAgree
<1> QED BY <1>1, TokensInvariance, PTL

\* Each settled reservation is charged once, and nothing else is, whoever
\* settles it (settleModelBudgetReservationInTransaction).
THEOREM ChargedOnceAlways == Spec => []ChargedOnce
<1>1. BInv /\ TokensInv => ChargedOnce
  BY DEF BInv, CallsCounted, TokensInv, SumsAgree, ChargedOnce
<1> QED BY <1>1, TokensInvariance, PTL

\* Whatever was billed is reserved or was charged.
LEMMA BilledIsHeld ==
    ASSUME BInv, TokensInv, \A c \in Calls : call[c].billed <= res[c].tokens
    PROVE  Total(Billed, Calls) <= MaxTokens
<1> DEFINE held == [c \in Calls |-> IF c \in Pending THEN Tokens[c] ELSE Charged[c]]
<1>1. /\ \A c \in Pending : held[c] = Tokens[c]
      /\ \A c \in Settled : held[c] = Charged[c]
      /\ Pending \cap Settled = {}
  BY DEF Pending, Settled
<1> HIDE DEF held
<1>2. Countable(held, Pending) /\ Countable(held, Settled)
  BY <1>1, RowsAreCountable DEF Countable
<1>3. Total(held, Pending \cup Settled) = PendingTokens + Charges
  <2>1. Total(held, Pending) = PendingTokens /\ Total(held, Settled) = Charges
    BY <1>1, TotalIsLocal DEF PendingTokens, Charges
  <2> QED BY <1>1, <1>2, <2>1, TotalOfUnion
<1>4. ASSUME NEW c \in Calls, Billed[c] > 0
      PROVE  c \in Pending \cup Settled /\ Billed[c] <= held[c]
  <2>1. /\ Billed[c] = call[c].billed /\ Charged[c] = res[c].charged
        /\ Tokens[c] = res[c].tokens
    BY RowsAreCountable
  <2>2. res[c].status \in {"reserved", "settled"}
    BY <1>4, <2>1 DEF BInv, RowsAgree
  <2>3. CASE res[c].status = "reserved"
    BY <1>1, <2>1, <2>3 DEF Pending
  <2>4. CASE res[c].status = "settled"
    <3>1. res[c].charged \in {res[c].tokens, call[c].billed}
      BY <2>4 DEF TokensInv, BillsAreKept
    <3>2. call[c].billed \in Nat
      BY DEF BInv, Shape, IsRequest
    <3>3. c \in Settled /\ held[c] = res[c].charged
      BY <1>1, <2>1, <2>4 DEF Settled
    <3> QED BY <2>1, <3>1, <3>2, <3>3
  <2> QED BY <2>2, <2>3, <2>4
<1>5. Countable(held, Pending \cup Settled)
  <2>1. IsFiniteSet(Pending \cup Settled)
    BY <1>2, FS_Union DEF Countable
  <2> QED BY <1>2, <2>1 DEF Countable
<1>6. Countable(Billed, Calls)
  BY RowsAreCountable
<1>7. Total(Billed, Calls) <= Total(held, Pending \cup Settled)
  BY <1>4, <1>5, <1>6, TotalGrows
<1> QED BY <1>3, <1>5, <1>6, <1>7, RowsAreCountable, TotalIsNumber
        DEF TokensInv, SumsAgree, TokensWithinBudget

\* If no answer is billed above its own reservation, the provider bills no more
\* than the budget: whatever was billed is reserved, or was charged
\* (onDispatchStarted, reconcileModelBudgetReservations).
THEOREM BilledStaysWithinBudget == Spec => []BilledWithinBudget
<1>1. BInv /\ TokensInv => BilledWithinBudget
  BY BilledIsHeld DEF BilledWithinBudget
<1> QED BY <1>1, TokensInvariance, PTL

\* The rows and the requests, as sets of records.
Rows == [status : {"none", "reserved", "settled", "released"}, dispatched : BOOLEAN,
         tokens : Nat, charged : Nat, source : {"", "provider", "reservation"}]

Requests == [pc : PCs, runtime : Runtimes, attempt : Nat, remaining : Int, billed : Nat,
             reported : BOOLEAN]

LEMMA TypeIs ==
    ASSUME BInv, TokensInv, res \in [Calls -> Rows], call \in [Calls -> Requests]
    PROVE  TypeOK
<1>1. run \in [status : RunStatus, attempt : Nat, working : BOOLEAN]
  BY DEF BInv, Shape
<1> QED BY <1>1 DEF TypeOK, BInv, Shape, TokensInv, NumbersAreNumbers, Rows, Requests

LEMMA TypesInit == Init => TypeOK
<1> SUFFICES ASSUME Init PROVE TypeOK
  OBVIOUS
<1>1. PICK p \in Runtimes : /\ res = [c \in Calls |-> NoReservation]
                           /\ call = [c \in Calls |-> NewCall(p)]
  BY DEF Init
<1>2. NoReservation \in Rows
  BY DEF NoReservation, Rows
<1>3. NewCall(p) \in Requests
  BY DEF NewCall, Requests, PCs
<1> QED BY <1>1, <1>2, <1>3, InitHolds, TokensInit, TypeIs

LEMMA RowsKept ==
    ASSUME BInv, TokensInv, TypeOK, [Next]_vars, TokensInv'
    PROVE  res' \in [Calls -> Rows]
<1>1. res \in [Calls -> Rows]
  BY DEF TypeOK, Rows
<1>2. CASE UNCHANGED res
  BY <1>1, <1>2
<1>3. ASSUME NEW c \in Calls, NEW r \in Rows, res' = [res EXCEPT ![c] = r]
      PROVE  res' \in [Calls -> Rows]
  BY <1>1, <1>3
<1>4. ASSUME NEW c \in Calls, NEW cap \in Caps, BeforeDispatch(c, cap)
      PROVE  res' \in [Calls -> Rows]
  <2> DEFINE tokens == Least(call[c].remaining, cap)
  <2>1. CASE res' = [res EXCEPT ![c] = [NoReservation EXCEPT !.status = "reserved",
                                                              !.tokens = tokens]]
    <3>1. res'[c].tokens = tokens /\ res'[c].tokens \in Nat
      BY <1>1, <2>1 DEF TokensInv, NumbersAreNumbers, NoReservation
    <3> HIDE DEF tokens
    <3>2. [NoReservation EXCEPT !.status = "reserved", !.tokens = tokens] \in Rows
      BY <3>1 DEF NoReservation, Rows
    <3> QED BY <1>3, <2>1, <3>2
  <2> QED BY <1>2, <1>4, <2>1 DEF BeforeDispatch
<1>5. ASSUME NEW c \in Calls, OnDispatchStarted(c)
      PROVE  res' \in [Calls -> Rows]
  <2>1. [res[c] EXCEPT !.dispatched = TRUE] \in Rows
    BY <1>1 DEF Rows
  <2>2. [res[c] EXCEPT !.status = "released"] \in Rows
    BY <1>1 DEF Rows
  <2> QED BY <1>3, <1>5, <2>1, <2>2 DEF OnDispatchStarted
<1>6. ASSUME NEW c \in Calls, NEW charge \in Nat, NEW source \in {"", "provider", "reservation"}
      PROVE  SettledRow(c, charge, source) \in Rows
  BY <1>1 DEF SettledRow, Rows
<1>7. ASSUME NEW c \in Calls, OnDispatchFinished(c)
      PROVE  res' \in [Calls -> Rows]
  <2>1. Charge(c) \in Nat /\ Source(c) \in {"", "provider", "reservation"}
    BY DEF Charge, Source, TokensInv, NumbersAreNumbers, BInv, Shape, IsRequest
  <2>2. SettledRow(c, Charge(c), Source(c)) \in Rows
    BY <1>6, <2>1
  <2> QED BY <1>2, <1>3, <1>7, <2>2 DEF OnDispatchFinished
<1>8. ASSUME NEW p \in Runtimes, Resume(p)
      PROVE  res' \in [Calls -> Rows]
  <2>1. ASSUME NEW c \in Calls
        PROVE  /\ SettledRow(c, res[c].tokens, "reservation") \in Rows
               /\ [res[c] EXCEPT !.status = "released"] \in Rows
    <3>1. res[c].tokens \in Nat
      BY DEF TokensInv, NumbersAreNumbers
    <3>2. SettledRow(c, res[c].tokens, "reservation") \in Rows
      BY <1>6, <3>1
    <3>3. [res[c] EXCEPT !.status = "released"] \in Rows
      BY <1>1 DEF Rows
    <3> QED BY <3>2, <3>3
  <2> QED BY <1>1, <1>8, <2>1 DEF Resume, ReconciledRows
<1>9. UNCHANGED res \/ (\E c \in Calls : \/ \E cap \in Caps : BeforeDispatch(c, cap)
                                        \/ OnDispatchStarted(c) \/ OnDispatchFinished(c))
      \/ \E p \in Runtimes : Resume(p)
  BY DEF Next, vars, Ask, FailStream, Repeat, ThrowIfAborted, Fetch, Answer, CompleteRun,
         FailRun, RequestPause, RequestCancel, ClaimStaleRun, Crash, DeadlinePasses
<1> QED BY <1>2, <1>4, <1>5, <1>7, <1>8, <1>9

LEMMA RequestsKept ==
    ASSUME BInv, TokensInv, TypeOK, [Next]_vars, BInv', TokensInv'
    PROVE  call' \in [Calls -> Requests]
<1>1. call \in [Calls -> Requests]
  BY DEF TypeOK, Requests
<1>2. CASE UNCHANGED call
  BY <1>1, <1>2
<1>3. ASSUME NEW c \in Calls, NEW pc \in PCs, Goto(c, pc)
      PROVE  call' \in [Calls -> Requests]
  <2>1. [call[c] EXCEPT !.pc = pc] \in Requests
    BY <1>1 DEF Requests
  <2> QED BY <1>1, <1>3, <2>1 DEF Goto
<1>4. ASSUME NEW p \in Runtimes, NEW pc \in PCs, NEW attempt \in Nat, NEW remaining \in Int
      PROVE  [NewCall(p) EXCEPT !.pc = pc, !.attempt = attempt, !.remaining = remaining]
               \in Requests
  BY DEF NewCall, Requests
<1>5. ASSUME NEW p \in Runtimes, NEW c \in Calls, Ask(p, c)
      PROVE  call' \in [Calls -> Requests]
  <2> DEFINE remaining == MaxTokens - used.tokens
  <2>1. remaining \in Int /\ exec[p].attempt \in Nat
    <3>1. exec[p] \in Execution
      BY DEF BInv, Shape
    <3>2. exec[p].attempt \in Nat
      BY <3>1 DEF Execution
    <3>3. remaining \in Int
      BY RowsAreCountable
    <3> QED BY <3>2, <3>3
  <2>2. PICK pc \in {"ready", "failed", "refused"} :
          call' = [call EXCEPT ![c] = [NewCall(p) EXCEPT !.pc = pc,
                      !.attempt = exec[p].attempt, !.remaining = remaining]]
    BY <1>5 DEF Ask
  <2> HIDE DEF remaining
  <2>3. pc \in PCs
    BY DEF PCs, Ended
  <2> QED BY <1>1, <1>4, <2>1, <2>2, <2>3
<1>6. ASSUME NEW c \in Calls, NEW d \in Calls, Repeat(c, d)
      PROVE  call' \in [Calls -> Requests]
  <2>1. /\ call[c].runtime \in Runtimes /\ call[c].attempt \in Nat
        /\ call[c].remaining \in Int /\ "ready" \in PCs /\ "done" \in PCs
    BY <1>1 DEF Requests, PCs, Ended
  <2>2. /\ [call[c] EXCEPT !.pc = "done"] \in Requests
        /\ [NewCall(call[c].runtime) EXCEPT !.pc = "ready", !.attempt = call[c].attempt,
               !.remaining = call[c].remaining] \in Requests
    <3>1. [call[c] EXCEPT !.pc = "done"] \in Requests
      BY <1>1, <2>1 DEF Requests
    <3> QED BY <1>4, <2>1, <3>1
  <2> QED BY <1>1, <1>6, <2>2 DEF Repeat
<1>7. ASSUME NEW c \in Calls, Fetch(c) \/ Answer(c)
      PROVE  call' \in [Calls -> Requests]
  <2>1. ASSUME NEW n \in Bills
        PROVE  [call[c] EXCEPT !.pc = "asked", !.billed = n] \in Requests
    <3>1. n \in Nat /\ "asked" \in PCs
      BY BudgetAssumption DEF PCs
    <3> QED BY <1>1, <3>1 DEF Requests
  <2>2. ASSUME NEW reported \in BOOLEAN
        PROVE  [call[c] EXCEPT !.pc = "answered", !.reported = reported] \in Requests
    BY <1>1 DEF Requests, PCs
  <2>3. CASE Fetch(c)
    BY <1>1, <2>1, <2>3 DEF Fetch
  <2>4. CASE Answer(c)
    BY <1>1, <2>2, <2>4 DEF Answer
  <2> QED BY <1>7, <2>3, <2>4
<1>8. ASSUME NEW p \in Runtimes, Crash(p)
      PROVE  call' \in [Calls -> Requests]
  <2>1. \A c \in Calls : [call[c] EXCEPT !.pc = "lost"] \in Requests
    BY <1>1 DEF Requests, PCs, Ended
  <2> QED BY <1>1, <1>8, <2>1 DEF Crash
<1>9. ASSUME NEW c \in Calls,
             \/ ThrowIfAborted(c) \/ \E cap \in Caps : BeforeDispatch(c, cap)
             \/ OnDispatchStarted(c) \/ OnDispatchFinished(c)
             \/ \E p \in Runtimes : FailStream(p, c)
      PROVE  call' \in [Calls -> Requests]
  <2>1. PICK pc \in Ended \cup {"reserved", "marked"} : Goto(c, pc)
    BY <1>9 DEF ThrowIfAborted, BeforeDispatch, OnDispatchStarted, OnDispatchFinished,
                FailStream, Refuse, Ended
  <2> QED BY <1>3, <2>1 DEF PCs
<1>10. CASE UNCHANGED vars
  BY <1>2, <1>10 DEF vars
<1>11. CASE Next
  BY <1>2, <1>5, <1>6, <1>7, <1>8, <1>9, <1>11
     DEF Next, CompleteRun, FailRun, RequestPause, RequestCancel, ClaimStaleRun, Resume,
         DeadlinePasses
<1> QED BY <1>10, <1>11

\* Every variable keeps its shape (kernel/execution-store.ts, model-client.ts).
THEOREM TypeCorrect == Spec => []TypeOK
<1>1. Init => BInv /\ TokensInv /\ TypeOK
  BY InitHolds, TokensInit, TypesInit
<1>2. BInv /\ TokensInv /\ TypeOK /\ [Next]_vars => BInv' /\ TokensInv' /\ TypeOK'
  <2> SUFFICES ASSUME BInv, TokensInv, TypeOK, [Next]_vars
               PROVE  BInv' /\ TokensInv' /\ TypeOK'
    OBVIOUS
  <2>1. BInv' /\ TokensInv'
    BY NextKeeps, TokensNext
  <2>2. res' \in [Calls -> Rows] /\ call' \in [Calls -> Requests]
    BY <2>1, RowsKept, RequestsKept
  <2>3. TypeOK'
    <3>1. run' \in [status : RunStatus, attempt : Nat, working : BOOLEAN]
      BY <2>1 DEF BInv, Shape
    <3> QED BY <2>1, <2>2, <3>1 DEF TypeOK, BInv, Shape, TokensInv, NumbersAreNumbers,
                                    Rows, Requests
  <2> QED BY <2>1, <2>3
<1> QED BY <1>1, <1>2, PTL DEF Spec

=============================================================================
