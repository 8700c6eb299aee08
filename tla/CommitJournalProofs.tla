------------------------ MODULE CommitJournalProofs ------------------------
(***************************************************************************)
(* The invariant of CommitJournal, for any number of writes, of texts and  *)
(* of edits, and what follows from it.                                     *)
(***************************************************************************)
EXTENDS CommitJournal, TLAPS

-----------------------------------------------------------------------------
(* What the helpers of the steps change.                                   *)

LEMMA SetCallIs ==
    ASSUME Shape, NEW a \in Attempts, NEW m \in Memory, SetCall(a, m)
    PROVE  /\ call' \in [Attempts -> Memory] /\ call'[a] = m
           /\ \A b \in Attempts \ {a} : call'[b] = call[b]
BY DEF Shape, SetCall

\* Entries and histories only grow, and an entry keeps its text and its run.
Grows ==
    /\ Entries \subseteq Entries'
    /\ \A j \in Entries : journals'[j].new = journals[j].new /\ journals'[j].run = journals[j].run
    /\ applied \subseteq applied' /\ shown \subseteq shown'

LEMMA SameGrows ==
    ASSUME UNCHANGED <<journals, history>>
    PROVE  Grows
BY DEF Grows, Entries, history

LEMMA StagedIs ==
    ASSUME Shape, NEW j \in Entries, NEW stage \in Stages, NEW mark \in {"none", "new", "base"}
    PROVE  /\ Staged(j, stage, mark) \in Seq(Row)
           /\ DOMAIN Staged(j, stage, mark) = Entries
           /\ Staged(j, stage, mark)[j].stage = stage /\ Staged(j, stage, mark)[j].mark = mark
           /\ Staged(j, stage, mark)[j].new = journals[j].new
           /\ Staged(j, stage, mark)[j].run = journals[j].run
           /\ \A k \in Entries \ {j} : Staged(j, stage, mark)[k] = journals[k]
<1> DEFINE row == [journals[j] EXCEPT !.stage = stage, !.mark = mark, !.version = @ + 1]
<1>1. journals \in Seq(Row) /\ Entries = 1..Len(journals) /\ Len(journals) \in Nat
  BY DEF Shape, Entries
<1>2. journals[j] \in Row
  BY <1>1
<1>3. /\ row \in Row /\ row.stage = stage /\ row.mark = mark
      /\ row.new = journals[j].new /\ row.run = journals[j].run
  <2> DEFINE v == journals[j].version + 1
  <2>1. v \in Nat \ {0}
    BY <1>2 DEF Row
  <2> HIDE DEF v
  <2>2. [journals[j] EXCEPT !.stage = stage, !.mark = mark, !.version = v] \in Row
    BY <1>2, <2>1 DEF Row
  <2>3. row = [journals[j] EXCEPT !.stage = stage, !.mark = mark, !.version = v]
    BY DEF v
  <2> QED BY <1>2, <2>2, <2>3 DEF Row
<1>4. Staged(j, stage, mark) = [journals EXCEPT ![j] = row]
  BY <1>1 DEF Staged
<1> HIDE DEF row
<1>5. /\ Staged(j, stage, mark) \in Seq(Row)
      /\ DOMAIN Staged(j, stage, mark) = Entries
  BY <1>1, <1>3, <1>4
<1>6. /\ Staged(j, stage, mark)[j] = row
      /\ \A k \in Entries \ {j} : Staged(j, stage, mark)[k] = journals[k]
  BY <1>1, <1>4
<1> QED BY <1>3, <1>5, <1>6

\* A call that does not move keeps what it knows.
LEMMA OtherCall ==
    ASSUME NEW b \in Attempts, CallInv(b), call'[b] = call[b], Grows,
           b \in replaced' => b \in replaced,
           b \in UnderWay /\ file' = call[b].text => b \in shown'
    PROVE  CallInv(b)'
<1>1. (b \in UnderWay)' <=> b \in UnderWay
  BY DEF UnderWay
<1>2. EntryInv(b)'
  BY DEF CallInv, EntryInv, OwnEntry, Grows, WithEntry, InRecovery, WithOwn
<1>3. KnowledgeInv(b)'
  BY <1>1 DEF CallInv, EntryInv, KnowledgeInv, Knows, Grows, WithEntry
<1>4. OnceInv(b)'
  BY DEF CallInv, OnceInv
<1> QED BY <1>2, <1>3, <1>4 DEF CallInv

-----------------------------------------------------------------------------
(* What CallInv says of a call, as a predicate of its memory.              *)

HasOwn(a, m)   == /\ m.entry \in Entries
                  /\ journals[m.entry].new = m.text /\ journals[m.entry].run = RunOf[a]
Answers(m)     == m.pc = "release" /\ m.next = "ok"
AtWorkNow(m)   == m.pc \notin Ended \cup {"idle"}

FitsEntry(a, m) ==
    /\ m.entry \in Entries \cup {0}
    /\ m.related \subseteq Entries /\ m.pending \subseteq m.related
    /\ \A j \in m.related : journals[j].run = RunOf[a]
    /\ m.pc \in WithEntry => m.entry \in Entries
    /\ m.pc \in InRecovery => m.next \in {"replay", "duplicate"}
    /\ m.pc \in WithOwn => HasOwn(a, m)
    /\ Answers(m) => HasOwn(a, m)

FitsKnown(a, m) ==
    /\ m.pc \in {"commit", "finalize", "ok"} => m.entry \in applied /\ a \in shown
    /\ Answers(m) => m.entry \in applied /\ a \in shown
    /\ m.pc = "settle" /\ m.actual = journals[m.entry].new => m.entry \in applied
    /\ m.pc = "close" => m.entry \in applied
    /\ m.pc = "replaying" => a \in shown
    /\ AtWorkNow(m) /\ file = m.text => a \in shown

FitsOnce(a, m) ==
    a \in replaced => m.pc \in AfterWrite \/ (m.pc = "release" /\ m.next \in {"ok", "failed"})

Fits(a, m) == FitsEntry(a, m) /\ FitsKnown(a, m) /\ FitsOnce(a, m)

LEMMA FitsIs ==
    ASSUME NEW a \in Attempts
    PROVE  CallInv(a) <=> Fits(a, call[a])
<1>1. EntryInv(a) <=> FitsEntry(a, call[a])
  BY DEF EntryInv, FitsEntry, OwnEntry, HasOwn, Answers
<1>2. KnowledgeInv(a) <=> FitsKnown(a, call[a])
  BY DEF KnowledgeInv, FitsKnown, Knows, Answers, AtWorkNow, UnderWay
<1>3. OnceInv(a) <=> FitsOnce(a, call[a])
  BY DEF OnceInv, FitsOnce
<1> QED BY <1>1, <1>2, <1>3 DEF CallInv, Fits

\* A call at rest in the invariant: its memory, and what it knows.
LEMMA Known ==
    ASSUME JInv, NEW a \in Attempts
    PROVE  Shape /\ call[a] \in Memory /\ Fits(a, call[a])
BY FitsIs DEF JInv, Shape

\* The memory is what it was set to, in the next state.
LEMMA FitsNext ==
    ASSUME Shape, NEW a \in Attempts, NEW m \in Memory, SetCall(a, m), Fits(a, m)'
    PROVE  CallInv(a)'
<1>1. call'[a] = m
  BY SetCallIs
<1>2. EntryInv(a)' <=> FitsEntry(a, m)'
  BY <1>1 DEF EntryInv, FitsEntry, OwnEntry, HasOwn, Answers
<1>3. KnowledgeInv(a)' <=> FitsKnown(a, m)'
  BY <1>1 DEF KnowledgeInv, FitsKnown, Knows, Answers, AtWorkNow, UnderWay
<1>4. OnceInv(a)' <=> FitsOnce(a, m)'
  BY <1>1 DEF OnceInv, FitsOnce
<1> QED BY <1>2, <1>3, <1>4 DEF CallInv, Fits

-----------------------------------------------------------------------------
(* The two kinds of step.                                                  *)

\* A step of one call that touches at most the lease besides its memory.
LEMMA MemoryStep ==
    ASSUME JInv, NEW a \in Attempts, NEW m \in Memory, SetCall(a, m), lease' \in LeaseRows,
           UNCHANGED <<file, journals, edits, history>>, Fits(a, m)
    PROVE  JInv'
<1>0. CallInv(a)'
  <2>1. Fits(a, m)' <=> Fits(a, m)
    BY DEF Fits, FitsEntry, FitsKnown, FitsOnce, HasOwn, Answers, AtWorkNow, Entries, history
  <2> QED BY <2>1, FitsNext DEF JInv
<1>1. Shape /\ Shape'
  BY SetCallIs DEF JInv, Shape, history
<1>2. AppliedIsKept' /\ FinalizedWasWritten' /\ DocumentIsJournaled'
  BY DEF JInv, AppliedIsKept, FinalizedWasWritten, DocumentIsJournaled, Entries, history
<1>3. ASSUME NEW b \in Attempts PROVE CallInv(b)'
  <2>1. CASE b = a
    BY <1>0, <2>1
  <2>2. CASE b # a
    <3>1. call'[b] = call[b] /\ Grows /\ CallInv(b)
      BY <1>1, <2>2, SetCallIs, SameGrows DEF JInv
    <3>2. b \in UnderWay /\ file' = call[b].text => b \in shown'
      BY <3>1 DEF CallInv, KnowledgeInv, history
    <3>3. b \in replaced' => b \in replaced
      BY DEF history
    <3> QED BY <3>1, <3>2, <3>3, OtherCall
  <2> QED BY <2>1, <2>2
<1> QED BY <1>1, <1>2, <1>3 DEF JInv

\* A step of one call that moves an entry to another stage.
LEMMA StageStep ==
    ASSUME JInv, NEW a \in Attempts, NEW m \in Memory, SetCall(a, m),
           NEW j \in Entries, NEW stage \in Stages, NEW mark \in {"none", "new", "base"},
           journals' = Staged(j, stage, mark),
           stage = "finalized" /\ mark # "base" => j \in applied,
           UNCHANGED <<file, lease, edits, history>>, Fits(a, m)
    PROVE  JInv'
<1>0. CallInv(a)'
  <2>1. /\ Entries' = Entries
        /\ \A k \in Entries : journals'[k].new = journals[k].new /\ journals'[k].run = journals[k].run
    BY StagedIs DEF JInv, Entries
  <2>2. FitsEntry(a, m)'
    BY <2>1 DEF Fits, FitsEntry, HasOwn, Answers
  <2>3. FitsKnown(a, m)' /\ FitsOnce(a, m)'
    BY <2>1 DEF Fits, FitsEntry, FitsKnown, FitsOnce, WithEntry, Answers, AtWorkNow, history
  <2> QED BY <2>2, <2>3, FitsNext DEF JInv, Fits
<1>1. Shape /\ Shape'
  BY SetCallIs, StagedIs DEF JInv, Shape, history
<1>2. /\ Entries' = Entries /\ Grows
      /\ journals'[j].stage = stage /\ journals'[j].mark = mark
      /\ \A k \in Entries \ {j} : journals'[k] = journals[k]
  BY <1>1, StagedIs DEF Grows, Entries, history
<1>3. AppliedIsKept' /\ FinalizedWasWritten' /\ DocumentIsJournaled'
  BY <1>2 DEF JInv, AppliedIsKept, FinalizedWasWritten, DocumentIsJournaled, Grows, history
<1>4. ASSUME NEW b \in Attempts PROVE CallInv(b)'
  <2>1. CASE b = a
    BY <1>0, <2>1
  <2>2. CASE b # a
    <3>1. call'[b] = call[b] /\ CallInv(b)
      BY <1>1, <2>2, SetCallIs DEF JInv
    <3>2. b \in UnderWay /\ file' = call[b].text => b \in shown'
      BY <3>1 DEF CallInv, KnowledgeInv, history
    <3>3. b \in replaced' => b \in replaced
      BY DEF history
    <3> QED BY <1>2, <3>1, <3>2, <3>3, OtherCall
  <2> QED BY <2>1, <2>2
<1> QED BY <1>1, <1>3, <1>4 DEF JInv

\* The commonest step: the call goes to another place in the code.
LEMMA GotoStep ==
    ASSUME JInv, NEW a \in Attempts, NEW pc \in PCs, Goto(a, pc), lease' \in LeaseRows,
           UNCHANGED <<file, journals, edits, history>>, Fits(a, [call[a] EXCEPT !.pc = pc])
    PROVE  JInv'
<1>1. [call[a] EXCEPT !.pc = pc] \in Memory
  BY Known DEF Memory
<1> QED BY <1>1, MemoryStep DEF Goto

-----------------------------------------------------------------------------
(* The start of write, and findAppliedReplay.                              *)

LEMMA ReadBaseStep ==
    ASSUME JInv, NEW a \in Attempts, ReadBase(a)
    PROVE  JInv'
<1>0. Shape /\ call[a] \in Memory /\ Fits(a, call[a])
  BY Known
<1> DEFINE m == [call[a] EXCEPT !.pc = "list", !.base = file]
<1>1. m \in Memory
  BY <1>0 DEF Memory, PCs, Shape
<1>2. Fits(a, m)
  BY <1>0 DEF ReadBase, Fits, FitsEntry, FitsKnown, FitsOnce, HasOwn, Answers, AtWorkNow,
       Memory, WithEntry, InRecovery, WithOwn, AfterWrite, Ended
<1>3. lease' \in LeaseRows
  BY <1>0 DEF Shape, ReadBase
<1> QED BY <1>1, <1>2, <1>3, MemoryStep DEF ReadBase

LEMMA ListRelatedStep ==
    ASSUME JInv, NEW a \in Attempts, ListRelated(a)
    PROVE  JInv'
<1>0. Shape /\ call[a] \in Memory /\ Fits(a, call[a])
  BY Known
<1> DEFINE pc == IF Related(a) = {} THEN "lease" ELSE "replay"
           open == {j \in Related(a) : journals[j].stage # "finalized"}
           m == [call[a] EXCEPT !.pc = pc, !.related = Related(a), !.pending = open]
<1>1. /\ Related(a) \subseteq Entries /\ \A j \in Related(a) : journals[j].run = RunOf[a]
      /\ open \subseteq Related(a) /\ Entries \subseteq Nat
      /\ pc \in {"lease", "replay"}
  BY <1>0 DEF Related, Shape, Entries
<1> HIDE DEF pc, open
<1>2. m \in Memory
  BY <1>0, <1>1 DEF Memory, PCs
<1>3. Fits(a, m)
  BY <1>0, <1>1 DEF ListRelated, Fits, FitsEntry, FitsKnown, FitsOnce, HasOwn, Answers, AtWorkNow,
       Memory, WithEntry, InRecovery, WithOwn, AfterWrite, Ended
<1>4. lease' \in LeaseRows
  BY <1>0 DEF Shape, ListRelated
<1> QED BY <1>2, <1>3, <1>4, MemoryStep DEF ListRelated, pc, open

LEMMA RecoverNextStep ==
    ASSUME JInv, NEW a \in Attempts, RecoverNext(a)
    PROVE  JInv'
<1>0. Shape /\ call[a] \in Memory /\ Fits(a, call[a])
  BY Known
<1>1. PICK j \in call[a].pending :
        SetCall(a, [call[a] EXCEPT !.pc = "recover", !.back = "replay", !.entry = j,
                                   !.pending = @ \ {j}])
  BY DEF RecoverNext
<1> DEFINE m == [call[a] EXCEPT !.pc = "recover", !.back = "replay", !.entry = j,
                                !.pending = @ \ {j}]
<1>2. j \in Entries /\ j \in Nat
  BY <1>0 DEF Fits, FitsEntry, Shape, Entries
<1>3. m \in Memory
  BY <1>0, <1>2 DEF Memory, PCs
<1>4. Fits(a, m)
  BY <1>0, <1>2 DEF RecoverNext, Fits, FitsEntry, FitsKnown, FitsOnce, HasOwn, Answers, AtWorkNow,
       Memory, WithEntry, InRecovery, WithOwn, AfterWrite, Ended
<1>5. lease' \in LeaseRows
  BY <1>0 DEF Shape, RecoverNext
<1> QED BY <1>1, <1>3, <1>4, <1>5, MemoryStep DEF RecoverNext

LEMMA ReadForReplayStep ==
    ASSUME JInv, NEW a \in Attempts, ReadForReplay(a)
    PROVE  JInv'
<1>0. Shape /\ call[a] \in Memory /\ Fits(a, call[a])
  BY Known
<1> DEFINE pc == IF file = call[a].text THEN "replaying" ELSE "lease"
<1>1. pc \in PCs /\ lease' \in LeaseRows
  BY <1>0 DEF PCs, Shape, ReadForReplay
<1>2. Fits(a, [call[a] EXCEPT !.pc = pc])
  BY <1>0 DEF ReadForReplay, Fits, FitsEntry, FitsKnown, FitsOnce, HasOwn, Answers, AtWorkNow,
       Memory, WithEntry, InRecovery, WithOwn, AfterWrite, Ended
<1> QED BY <1>1, <1>2, GotoStep DEF ReadForReplay

LEMMA ReplayStep ==
    ASSUME JInv, NEW a \in Attempts, Replay(a)
    PROVE  JInv'
<1>0. lease' \in LeaseRows
  BY Known DEF Shape, Replay
<1>1. CASE Goto(a, "lease")
  <2>1. call[a] \in Memory /\ Fits(a, call[a]) /\ call[a].pc = "replaying"
    BY Known DEF Replay
  <2>2. Fits(a, [call[a] EXCEPT !.pc = "lease"])
    BY <2>1 DEF Fits, FitsEntry, FitsKnown, FitsOnce, HasOwn, Answers, AtWorkNow,
       Memory, WithEntry, InRecovery, WithOwn, AfterWrite, Ended
  <2>3. "lease" \in PCs
    BY DEF PCs
  <2> QED BY <1>0, <1>1, <2>2, <2>3, GotoStep DEF Replay
<1>2. ASSUME NEW j \in call[a].related, journals[j].stage = "finalized",
             journals[j].new = call[a].text, journals[j].mark # "base",
             SetCall(a, [call[a] EXCEPT !.pc = "ok", !.entry = j])
      PROVE  JInv'
  <2> DEFINE m == [call[a] EXCEPT !.pc = "ok", !.entry = j]
  <2>1. j \in Entries /\ j \in Nat /\ journals[j].run = RunOf[a]
    BY Known DEF Fits, FitsEntry, Shape, Entries
  <2>2. j \in applied
    BY <1>2, <2>1 DEF JInv, FinalizedWasWritten
  <2>3. call[a] \in Memory /\ Fits(a, call[a]) /\ call[a].pc = "replaying"
    BY Known DEF Replay
  <2>4. m \in Memory
    BY <2>1, <2>3 DEF Memory, PCs, Ended
  <2>5. /\ m.pc = "ok" /\ m.entry = j /\ m.text = call[a].text
        /\ m.related = call[a].related /\ m.pending = call[a].pending
    BY <2>3 DEF Memory
  <2>6. FitsEntry(a, m)
    BY <1>2, <2>1, <2>3, <2>5 DEF Fits, FitsEntry, HasOwn, Answers, WithEntry, InRecovery, WithOwn
  <2>7. FitsKnown(a, m) /\ FitsOnce(a, m)
    BY <2>2, <2>3, <2>5 DEF Fits, FitsKnown, FitsOnce, Answers, AtWorkNow, AfterWrite, Ended
  <2> QED BY <1>0, <1>2, <2>4, <2>6, <2>7, MemoryStep DEF Replay, Fits
<1> QED BY <1>1, <1>2 DEF Replay

-----------------------------------------------------------------------------
(* recoverJournal.                                                         *)

LEMMA RowIs ==
    ASSUME Shape, NEW j \in Entries
    PROVE  /\ journals[j] \in Row /\ journals[j].mark \in {"none", "new", "base"}
           /\ journals[j].version \in Nat /\ journals[j].stage \in Stages
<1>1. journals[j] \in Row
  BY DEF Shape, Entries
<1> QED BY <1>1 DEF Row

\* markRecoveryRequired changes the entry or leaves it alone.
LEMMA FlagStep ==
    ASSUME JInv, NEW a \in Attempts, NEW m \in Memory, SetCall(a, m), NEW j \in Entries,
           journals' = Flagged(j), UNCHANGED <<file, lease, edits, history>>, Fits(a, m)
    PROVE  JInv'
<1>1. Shape /\ journals[j].mark \in {"none", "new", "base"} /\ "recovery_required" \in Stages
  BY RowIs DEF JInv, Stages
<1>2. CASE journals[j].stage \in Open
  <2>1. journals' = Staged(j, "recovery_required", journals[j].mark)
    BY <1>2 DEF Flagged
  <2> QED BY <1>1, <2>1, StageStep
<1>3. CASE journals[j].stage \notin Open
  <2>1. UNCHANGED <<file, journals, edits, history>> /\ lease' \in LeaseRows
    BY <1>1, <1>3 DEF Flagged, Shape
  <2> QED BY <2>1, MemoryStep
<1> QED BY <1>2, <1>3

\* advance takes the entry on, or finds that its row was changed meanwhile.
LEMMA AdvanceStep ==
    ASSUME JInv, NEW a \in Attempts, NEW j \in Entries, NEW stage \in Stages,
           NEW mark \in {"none", "new", "base"}, NEW then \in PCs, NEW otherwise \in PCs,
           Advance(a, j, stage, mark, then, otherwise),
           stage = "finalized" /\ mark # "base" => j \in applied,
           UNCHANGED <<file, lease, edits, history>>,
           Fits(a, [call[a] EXCEPT !.pc = then, !.row = @ + 1]),
           Fits(a, [call[a] EXCEPT !.pc = otherwise])
    PROVE  JInv'
<1>0. Shape /\ call[a] \in Memory
  BY Known
<1>1. CASE journals[j].version = call[a].row
  <2> DEFINE row == call[a].row + 1
  <2>1. row \in Nat
    BY <1>0 DEF Memory
  <2> HIDE DEF row
  <2>2. [call[a] EXCEPT !.pc = then, !.row = row] \in Memory
    BY <1>0, <2>1 DEF Memory
  <2> QED BY <1>1, <2>2, StageStep DEF Advance, row
<1>2. CASE journals[j].version # call[a].row
  <2>1. UNCHANGED <<file, journals, edits, history>> /\ lease' \in LeaseRows
    BY <1>0, <1>2 DEF Advance, Shape
  <2> QED BY <1>2, <2>1, GotoStep DEF Advance
<1> QED BY <1>1, <1>2

\* The rows that the store's transactions on the lease can make.
LEMMA AcquiredIs ==
    ASSUME Shape, NEW o \in {NoLease.owner} \cup ({"write"} \X Attempts) \cup ({"recovery"} \X Nat)
    PROVE  Acquired(o) \in LeaseRows
BY DEF Shape, Acquired, LeaseRows

LEMMA ReleasedIs ==
    ASSUME Shape, NEW c, NEW o
    PROVE  Released(c, o) \in LeaseRows
<1> DEFINE v == lease.version + 1
<1>1. lease \in LeaseRows /\ v \in Nat
  BY DEF Shape, LeaseRows
<1> HIDE DEF v
<1>2. [lease EXCEPT !.version = v, !.state = "released"] \in LeaseRows
  BY <1>1 DEF LeaseRows
<1> QED BY <1>1, <1>2 DEF Released, v

LEMMA RecoverElsewhereStep ==
    ASSUME JInv, NEW a \in Attempts, RecoverElsewhere(a)
    PROVE  JInv'
<1>0. Shape /\ call[a] \in Memory /\ Fits(a, call[a])
  BY Known
<1> DEFINE m == [call[a] EXCEPT !.pc = call[a].back]
<1>1. call[a].pc = "recover" /\ call[a].entry \in Entries
  BY <1>0 DEF RecoverElsewhere, Fits, FitsEntry, WithEntry
<1>2. m \in Memory
  BY <1>0 DEF Memory, PCs
<1>3. Fits(a, m)
  BY <1>0, <1>1 DEF Fits, FitsEntry, FitsKnown, FitsOnce, HasOwn, Answers, AtWorkNow,
       Memory, WithEntry, InRecovery, WithOwn, AfterWrite, Ended
<1> QED BY <1>1, <1>2, <1>3, FlagStep DEF RecoverElsewhere, Goto

LEMMA RecoverLeaseStep ==
    ASSUME JInv, NEW a \in Attempts, RecoverLease(a)
    PROVE  JInv'
<1>0. Shape /\ call[a] \in Memory /\ Fits(a, call[a])
  BY Known
<1>1. call[a].pc = "recover" /\ call[a].entry \in Entries
  BY <1>0 DEF RecoverLease, Fits, FitsEntry, WithEntry
<1> DEFINE row == Acquired(Recovery(call[a].entry))
<1>2. row \in LeaseRows
  BY <1>0, AcquiredIs DEF Recovery, Memory
<1>3. CASE CanAcquire(Recovery(call[a].entry))
  <2> DEFINE m == [call[a] EXCEPT !.pc = "inspect", !.next = call[a].back,
                                  !.token = row.token, !.leaseVersion = row.version]
  <2>1. row.token \in Nat /\ row.version \in Nat
    BY <1>2 DEF LeaseRows
  <2> HIDE DEF row
  <2>2. m \in Memory
    BY <1>0, <2>1 DEF Memory, PCs
  <2>3. Fits(a, m)
    BY <1>0, <1>1 DEF Fits, FitsEntry, FitsKnown, FitsOnce, HasOwn, Answers, AtWorkNow,
       Memory, WithEntry, InRecovery, WithOwn, AfterWrite, Ended
  <2>4. lease' = row /\ SetCall(a, m) /\ UNCHANGED <<file, journals, edits, history>>
    BY <1>3 DEF RecoverLease, row
  <2> QED BY <1>2, <2>2, <2>3, <2>4, MemoryStep
<1>4. CASE ~CanAcquire(Recovery(call[a].entry))
  <2>1. Goto(a, call[a].back) /\ UNCHANGED <<file, lease, journals, edits, history>>
    BY <1>4 DEF RecoverLease
  <2>2. call[a].back \in PCs /\ lease' \in LeaseRows
    BY <1>0, <2>1 DEF Memory, PCs, Shape
  <2>3. Fits(a, [call[a] EXCEPT !.pc = call[a].back])
    BY <1>0, <1>1 DEF Fits, FitsEntry, FitsKnown, FitsOnce, HasOwn, Answers, AtWorkNow,
       Memory, WithEntry, InRecovery, WithOwn, AfterWrite, Ended
  <2> QED BY <2>1, <2>2, <2>3, GotoStep
<1> QED BY <1>3, <1>4

LEMMA InspectStep ==
    ASSUME JInv, NEW a \in Attempts, Inspect(a)
    PROVE  JInv'
<1>0. Shape /\ call[a] \in Memory /\ Fits(a, call[a])
  BY Known
<1> DEFINE m == [call[a] EXCEPT !.pc = "settle", !.actual = file]
<1>1. call[a].entry \in Entries
  BY <1>0 DEF Inspect, Fits, FitsEntry, WithEntry
<1>2. m \in Memory /\ lease' \in LeaseRows
  <2>1. m \in Memory
    BY <1>0 DEF Memory, PCs, Shape
  <2> QED BY <1>0, <2>1 DEF Inspect, Shape
<1>3. file = journals[call[a].entry].new => call[a].entry \in applied
  BY <1>1 DEF JInv, AppliedIsKept
<1>4. Fits(a, m)
  BY <1>0, <1>1, <1>3 DEF Inspect, Fits, FitsEntry, FitsKnown, FitsOnce, HasOwn, Answers, AtWorkNow,
       Memory, WithEntry, InRecovery, WithOwn, AfterWrite, Ended
<1> QED BY <1>2, <1>4, MemoryStep DEF Inspect

LEMMA SettleStep ==
    ASSUME JInv, NEW a \in Attempts, Settle(a)
    PROVE  JInv'
<1>0. Shape /\ call[a] \in Memory /\ Fits(a, call[a])
  BY Known
<1> DEFINE j == call[a].entry
           Moved(pc, row) == [call[a] EXCEPT !.pc = pc, !.row = row]
<1>1. /\ call[a].pc = "settle" /\ j \in Entries /\ call[a].next \in {"replay", "duplicate"}
      /\ a \notin replaced
  BY <1>0 DEF Settle, Fits, FitsEntry, FitsOnce, WithEntry, InRecovery, AfterWrite, Ended
<1>2. /\ journals[j].version \in Nat /\ journals[j].mark \in {"none", "new", "base"}
      /\ "db_committed" \in Stages /\ "finalized" \in Stages
  BY <1>0, <1>1, RowIs DEF Stages, Open
<1>3. ASSUME NEW row \in Nat
      PROVE  /\ Moved("close", row) \in Memory
             /\ Moved("release", row) \in Memory /\ Fits(a, Moved("release", row))
             /\ call[a].actual = journals[j].new => Fits(a, Moved("close", row))
  <2>1. Moved("close", row) \in Memory /\ Moved("release", row) \in Memory
    BY <1>0 DEF Memory, PCs
  <2>2. Fits(a, Moved("release", row))
    BY <1>0, <1>1 DEF Fits, FitsEntry, FitsKnown, FitsOnce, HasOwn, Answers, AtWorkNow,
       Memory, WithEntry, InRecovery, WithOwn, AfterWrite, Ended
  <2>3. call[a].actual = journals[j].new => Fits(a, Moved("close", row))
    BY <1>0, <1>1 DEF Fits, FitsEntry, FitsKnown, FitsOnce, HasOwn, Answers, AtWorkNow,
       Memory, WithEntry, InRecovery, WithOwn, AfterWrite, Ended
  <2> QED BY <2>1, <2>2, <2>3
<1>4. UNCHANGED <<file, lease, edits, history>>
  BY DEF Settle
<1> HIDE DEF Moved
<1>5. CASE call[a].actual = journals[j].new
  <2>1. CASE journals[j].stage = "db_committed"
    <3>1. SetCall(a, Moved("close", journals[j].version)) /\ UNCHANGED journals
      BY <1>5, <2>1 DEF Settle, Moved
    <3>2. lease' \in LeaseRows
      BY <1>0, <1>4 DEF Shape
    <3> QED BY <1>2, <1>3, <1>4, <1>5, <3>1, <3>2, MemoryStep
  <2>2. CASE journals[j].stage # "db_committed"
    <3>1. /\ SetCall(a, Moved("close", journals[j].version + 1))
          /\ journals' = Staged(j, "db_committed", "new")
      BY <1>5, <2>2 DEF Settle, Moved
    <3>2. journals[j].version + 1 \in Nat
      BY <1>2
    <3> QED BY <1>1, <1>2, <1>3, <1>4, <1>5, <3>1, <3>2, StageStep
  <2> QED BY <2>1, <2>2
<1>6. CASE call[a].actual # journals[j].new /\ call[a].actual = journals[j].base
  <2>1. SetCall(a, Moved("release", 0)) /\ journals' = Staged(j, "finalized", "base")
    BY <1>6 DEF Settle, Moved
  <2> QED BY <1>1, <1>2, <1>3, <1>4, <2>1, StageStep
<1>7. CASE call[a].actual # journals[j].new /\ call[a].actual # journals[j].base
  <2>1. SetCall(a, Moved("release", 0)) /\ journals' = Flagged(j)
    BY <1>7 DEF Settle, Moved
  <2> QED BY <1>1, <1>3, <1>4, <2>1, FlagStep
<1> QED BY <1>5, <1>6, <1>7

LEMMA CloseStep ==
    ASSUME JInv, NEW a \in Attempts, Close(a)
    PROVE  JInv'
<1>0. Shape /\ call[a] \in Memory /\ Fits(a, call[a])
  BY Known
<1>1. /\ call[a].pc = "close" /\ call[a].entry \in Entries /\ call[a].entry \in applied
      /\ call[a].next \in {"replay", "duplicate"} /\ a \notin replaced
  BY <1>0 DEF Close, Fits, FitsEntry, FitsKnown, FitsOnce, WithEntry, InRecovery, AfterWrite, Ended
<1>2. Fits(a, [call[a] EXCEPT !.pc = "release", !.row = @ + 1])
  BY <1>0, <1>1 DEF Fits, FitsEntry, FitsKnown, FitsOnce, HasOwn, Answers, AtWorkNow,
       Memory, WithEntry, InRecovery, WithOwn, AfterWrite, Ended
<1>3. Fits(a, [call[a] EXCEPT !.pc = "abandon"])
  BY <1>0, <1>1 DEF Fits, FitsEntry, FitsKnown, FitsOnce, HasOwn, Answers, AtWorkNow,
       Memory, WithEntry, InRecovery, WithOwn, AfterWrite, Ended
<1>4. "finalized" \in Stages /\ "release" \in PCs /\ "abandon" \in PCs
  BY DEF Stages, PCs
<1> QED BY <1>1, <1>2, <1>3, <1>4, AdvanceStep DEF Close

LEMMA AbandonStep ==
    ASSUME JInv, NEW a \in Attempts, Abandon(a)
    PROVE  JInv'
<1>0. Shape /\ call[a] \in Memory /\ Fits(a, call[a])
  BY Known
<1>1. Fits(a, [call[a] EXCEPT !.pc = "failed"])
  BY <1>0 DEF Abandon, Fits, FitsEntry, FitsKnown, FitsOnce, HasOwn, Answers, AtWorkNow,
       Memory, WithEntry, InRecovery, WithOwn, AfterWrite, Ended
<1>2. "failed" \in PCs /\ lease' \in LeaseRows
  BY <1>0, ReleasedIs DEF PCs, Ended, Abandon
<1> QED BY <1>1, <1>2, GotoStep DEF Abandon

LEMMA ReleaseStep ==
    ASSUME JInv, NEW a \in Attempts, Release(a)
    PROVE  JInv'
<1>0. Shape /\ call[a] \in Memory /\ Fits(a, call[a])
  BY Known
<1> DEFINE m == [call[a] EXCEPT !.pc = call[a].next, !.next = "failed", !.row = 0]
<1>1. m \in Memory
  BY <1>0 DEF Memory, PCs, Ended
<1>2. Fits(a, m)
  BY <1>0 DEF Release, Fits, FitsEntry, FitsKnown, FitsOnce, HasOwn, Answers, AtWorkNow,
       Memory, WithEntry, InRecovery, WithOwn, AfterWrite, Ended
<1>3. lease' \in LeaseRows
  BY <1>0, ReleasedIs DEF Release
<1> QED BY <1>1, <1>2, <1>3, MemoryStep DEF Release

-----------------------------------------------------------------------------
(* The lease and the entry of the write.                                   *)

LEMMA AcquireLeaseStep ==
    ASSUME JInv, NEW a \in Attempts, AcquireLease(a)
    PROVE  JInv'
<1>0. Shape /\ call[a] \in Memory /\ Fits(a, call[a])
  BY Known
<1> DEFINE row == Acquired(Writer(a))
<1>1. row \in LeaseRows
  BY <1>0, AcquiredIs DEF Writer
<1>2. CASE CanAcquire(Writer(a))
  <2> DEFINE m == [call[a] EXCEPT !.pc = "create", !.token = row.token,
                                  !.leaseVersion = row.version]
  <2>1. row.token \in Nat /\ row.version \in Nat
    BY <1>1 DEF LeaseRows
  <2>2. lease' = row /\ SetCall(a, m) /\ UNCHANGED <<file, journals, edits, history>>
    BY <1>2 DEF AcquireLease
  <2> HIDE DEF row
  <2>3. m \in Memory
    BY <1>0, <2>1 DEF Memory, PCs
  <2>4. Fits(a, m)
    BY <1>0 DEF AcquireLease, Fits, FitsEntry, FitsKnown, FitsOnce, HasOwn, Answers, AtWorkNow,
       Memory, WithEntry, InRecovery, WithOwn, AfterWrite, Ended
  <2> QED BY <1>1, <2>2, <2>3, <2>4, MemoryStep
<1>3. CASE ~CanAcquire(Writer(a))
  <2>1. Fits(a, [call[a] EXCEPT !.pc = "failed"])
    BY <1>0 DEF AcquireLease, Fits, FitsEntry, FitsKnown, FitsOnce, HasOwn, Answers, AtWorkNow,
       Memory, WithEntry, InRecovery, WithOwn, AfterWrite, Ended
  <2>2. "failed" \in PCs /\ lease' \in LeaseRows
    BY <1>0, <1>3 DEF PCs, Ended, AcquireLease, Shape
  <2> QED BY <1>3, <2>1, <2>2, GotoStep DEF AcquireLease
<1> QED BY <1>2, <1>3

LEMMA FindDuplicateStep ==
    ASSUME JInv, NEW a \in Attempts, FindDuplicate(a)
    PROVE  JInv'
<1>0. Shape /\ call[a] \in Memory /\ Fits(a, call[a])
  BY Known
<1>1. PICK j \in Entries :
        SetCall(a, [call[a] EXCEPT
          !.pc = IF journals[j].stage = "finalized" THEN "duplicate" ELSE "recover",
          !.entry = j, !.back = "duplicate"])
  BY DEF FindDuplicate
<1> DEFINE pc == IF journals[j].stage = "finalized" THEN "duplicate" ELSE "recover"
           m == [call[a] EXCEPT !.pc = pc, !.entry = j, !.back = "duplicate"]
<1>2. j \in Nat /\ pc \in {"duplicate", "recover"}
  BY <1>0 DEF Shape, Entries
<1> HIDE DEF pc
<1>3. m \in Memory
  BY <1>0, <1>2 DEF Memory, PCs
<1>4. Fits(a, m)
  BY <1>0, <1>2 DEF FindDuplicate, Fits, FitsEntry, FitsKnown, FitsOnce, HasOwn, Answers, AtWorkNow,
       Memory, WithEntry, InRecovery, WithOwn, AfterWrite, Ended
<1>5. lease' \in LeaseRows
  BY <1>0, ReleasedIs DEF FindDuplicate
<1> QED BY <1>1, <1>3, <1>4, <1>5, MemoryStep DEF FindDuplicate, pc

LEMMA CheckDuplicateStep ==
    ASSUME JInv, NEW a \in Attempts, CheckDuplicate(a)
    PROVE  JInv'
<1>0. Shape /\ call[a] \in Memory /\ Fits(a, call[a])
  BY Known
<1> DEFINE j == journals[call[a].entry]
           same == j.run = RunOf[a] /\ j.step = StepOf[a] /\ j.new = call[a].text
           pc == IF same THEN "compare" ELSE "failed"
           m == [call[a] EXCEPT !.pc = pc, !.unapplied = (j.mark = "base")]
<1>1. call[a].pc = "duplicate" /\ call[a].entry \in Entries
  BY <1>0 DEF CheckDuplicate, Fits, FitsEntry, WithEntry
<1>2. pc \in {"compare", "failed"} /\ (pc = "compare" => HasOwn(a, call[a]))
  BY <1>1 DEF HasOwn
<1>3. SetCall(a, m) /\ UNCHANGED <<file, lease, journals, edits, history>>
  BY DEF CheckDuplicate
<1> HIDE DEF pc
<1>4. m \in Memory /\ lease' \in LeaseRows
  <2>1. m \in Memory
    BY <1>0, <1>2 DEF Memory, PCs, Ended
  <2> QED BY <1>0, <1>3, <2>1 DEF Shape
<1>5. Fits(a, m)
  BY <1>0, <1>1, <1>2 DEF Fits, FitsEntry, FitsKnown, FitsOnce, HasOwn, Answers, AtWorkNow,
       Memory, WithEntry, InRecovery, WithOwn, AfterWrite, Ended
<1> QED BY <1>3, <1>4, <1>5, MemoryStep

\* The document holds the text of the entry: the entry has been on disk.
LEMMA CompareStep ==
    ASSUME JInv, NEW a \in Attempts, Compare(a)
    PROVE  JInv'
<1>0. Shape /\ call[a] \in Memory /\ Fits(a, call[a])
  BY Known
<1>1. call[a].pc = "compare" /\ HasOwn(a, call[a]) /\ lease' \in LeaseRows
  BY <1>0 DEF Compare, Fits, FitsEntry, WithOwn, Shape
<1>2. CASE Goto(a, "ok") /\ file = call[a].text
  <2>1. call[a].entry \in applied
    BY <1>1, <1>2 DEF JInv, AppliedIsKept, HasOwn
  <2>2. Fits(a, [call[a] EXCEPT !.pc = "ok"])
    BY <1>0, <1>1, <1>2, <2>1 DEF Fits, FitsEntry, FitsKnown, FitsOnce, HasOwn, Answers, AtWorkNow,
       Memory, WithEntry, InRecovery, WithOwn, AfterWrite, Ended
  <2>3. "ok" \in PCs
    BY DEF PCs, Ended
  <2> QED BY <1>1, <1>2, <2>2, <2>3, GotoStep DEF Compare
<1>3. CASE Goto(a, "failed")
  <2>1. Fits(a, [call[a] EXCEPT !.pc = "failed"])
    BY <1>0, <1>1 DEF Fits, FitsEntry, FitsKnown, FitsOnce, HasOwn, Answers, AtWorkNow,
       Memory, WithEntry, InRecovery, WithOwn, AfterWrite, Ended
  <2>2. "failed" \in PCs
    BY DEF PCs, Ended
  <2> QED BY <1>1, <1>3, <2>1, <2>2, GotoStep DEF Compare
<1>4. CASE SetCall(a, [NewCall EXCEPT !.pc = "open", !.text = call[a].text, !.scope = a])
  <2> DEFINE m == [NewCall EXCEPT !.pc = "open", !.text = call[a].text, !.scope = a]
  <2>1. m \in Memory
    BY <1>0, JournalAssumption DEF Memory, NewCall, PCs, Scopes
  <2>2. Fits(a, m)
    BY <1>0, <1>1 DEF NewCall, Fits, FitsEntry, FitsKnown, FitsOnce, HasOwn, Answers, AtWorkNow,
       Memory, WithEntry, InRecovery, WithOwn, AfterWrite, Ended
  <2> QED BY <1>1, <1>4, <2>1, <2>2, MemoryStep DEF Compare
<1> QED BY <1>2, <1>3, <1>4 DEF Compare

-----------------------------------------------------------------------------
(* saveDocument with the journal's stages, and the end of write.           *)

LEMMA ReadBeforeSaveStep ==
    ASSUME JInv, NEW a \in Attempts, ReadBeforeSave(a)
    PROVE  JInv'
<1>0. Shape /\ call[a] \in Memory /\ Fits(a, call[a])
  BY Known
<1> DEFINE pc == IF file = call[a].text THEN "verify" ELSE "temp"
<1>1. Fits(a, [call[a] EXCEPT !.pc = pc])
  BY <1>0 DEF ReadBeforeSave, Fits, FitsEntry, FitsKnown, FitsOnce, HasOwn, Answers, AtWorkNow,
       Memory, WithEntry, InRecovery, WithOwn, AfterWrite, Ended
<1>2. pc \in PCs /\ lease' \in LeaseRows
  BY <1>0 DEF PCs, ReadBeforeSave, Shape
<1> QED BY <1>1, <1>2, GotoStep DEF ReadBeforeSave

LEMMA TempWrittenStep ==
    ASSUME JInv, NEW a \in Attempts, TempWritten(a)
    PROVE  JInv'
<1>0. Shape /\ call[a] \in Memory /\ Fits(a, call[a])
  BY Known
<1> DEFINE j == call[a].entry
<1>1. call[a].pc = "temp" /\ j \in Entries
  BY <1>0 DEF TempWritten, Fits, FitsEntry, HasOwn, WithOwn
<1>2. journals[j].mark \in {"none", "new", "base"} /\ "temp_written" \in Stages
  BY <1>0, <1>1, RowIs DEF Stages, Open
<1>3. Fits(a, [call[a] EXCEPT !.pc = "check", !.row = @ + 1])
  BY <1>0, <1>1 DEF Fits, FitsEntry, FitsKnown, FitsOnce, HasOwn, Answers, AtWorkNow,
       Memory, WithEntry, InRecovery, WithOwn, AfterWrite, Ended
<1>4. Fits(a, [call[a] EXCEPT !.pc = "throw"])
  BY <1>0, <1>1 DEF Fits, FitsEntry, FitsKnown, FitsOnce, HasOwn, Answers, AtWorkNow,
       Memory, WithEntry, InRecovery, WithOwn, AfterWrite, Ended
<1>5. "check" \in PCs /\ "throw" \in PCs
  BY DEF PCs
<1> QED BY <1>1, <1>2, <1>3, <1>4, <1>5, AdvanceStep DEF TempWritten

LEMMA CheckLeaseStep ==
    ASSUME JInv, NEW a \in Attempts, CheckLease(a)
    PROVE  JInv'
<1>0. Shape /\ call[a] \in Memory /\ Fits(a, call[a])
  BY Known
<1> DEFINE pc == IF Holds(call[a], Writer(a)) /\ lease.state = "held" THEN "replace" ELSE "throw"
<1>1. Fits(a, [call[a] EXCEPT !.pc = pc])
  BY <1>0 DEF CheckLease, Fits, FitsEntry, FitsKnown, FitsOnce, HasOwn, Answers, AtWorkNow,
       Memory, WithEntry, InRecovery, WithOwn, AfterWrite, Ended
<1>2. pc \in PCs /\ lease' \in LeaseRows
  BY <1>0 DEF PCs, CheckLease, Shape
<1> QED BY <1>1, <1>2, GotoStep DEF CheckLease

LEMMA FileReplacedStep ==
    ASSUME JInv, NEW a \in Attempts, FileReplaced(a)
    PROVE  JInv'
<1>0. Shape /\ call[a] \in Memory /\ Fits(a, call[a])
  BY Known
<1> DEFINE j == call[a].entry
<1>1. call[a].pc = "replaced" /\ j \in Entries
  BY <1>0 DEF FileReplaced, Fits, FitsEntry, HasOwn, WithOwn
<1>2. journals[j].mark \in {"none", "new", "base"} /\ "file_replaced" \in Stages
  BY <1>0, <1>1, RowIs DEF Stages, Open
<1>3. Fits(a, [call[a] EXCEPT !.pc = "verify", !.row = @ + 1])
  BY <1>0, <1>1 DEF Fits, FitsEntry, FitsKnown, FitsOnce, HasOwn, Answers, AtWorkNow,
       Memory, WithEntry, InRecovery, WithOwn, AfterWrite, Ended
<1>4. Fits(a, [call[a] EXCEPT !.pc = "throw"])
  BY <1>0, <1>1 DEF Fits, FitsEntry, FitsKnown, FitsOnce, HasOwn, Answers, AtWorkNow,
       Memory, WithEntry, InRecovery, WithOwn, AfterWrite, Ended
<1>5. "verify" \in PCs /\ "throw" \in PCs
  BY DEF PCs
<1> QED BY <1>1, <1>2, <1>3, <1>4, <1>5, AdvanceStep DEF FileReplaced

LEMMA VerifyStep ==
    ASSUME JInv, NEW a \in Attempts, Verify(a)
    PROVE  JInv'
<1>0. Shape /\ call[a] \in Memory /\ Fits(a, call[a])
  BY Known
<1> DEFINE pc == IF file = call[a].text THEN "commit" ELSE "throw"
<1>1. call[a].pc = "verify" /\ HasOwn(a, call[a])
  BY <1>0 DEF Verify, Fits, FitsEntry, WithOwn
<1>2. file = call[a].text => call[a].entry \in applied
  BY <1>1 DEF JInv, AppliedIsKept, HasOwn
<1>3. Fits(a, [call[a] EXCEPT !.pc = pc])
  BY <1>0, <1>1, <1>2 DEF Fits, FitsEntry, FitsKnown, FitsOnce, HasOwn, Answers, AtWorkNow,
       Memory, WithEntry, InRecovery, WithOwn, AfterWrite, Ended
<1>4. pc \in PCs /\ lease' \in LeaseRows
  BY <1>0 DEF PCs, Verify, Shape
<1> QED BY <1>3, <1>4, GotoStep DEF Verify

LEMMA DbCommittedStep ==
    ASSUME JInv, NEW a \in Attempts, DbCommitted(a)
    PROVE  JInv'
<1>0. Shape /\ call[a] \in Memory /\ Fits(a, call[a])
  BY Known
<1> DEFINE j == call[a].entry
<1>1. call[a].pc = "commit" /\ j \in Entries
  BY <1>0 DEF DbCommitted, Fits, FitsEntry, HasOwn, WithOwn
<1>2. journals[j].mark \in {"none", "new", "base"} /\ "db_committed" \in Stages
  BY <1>0, <1>1, RowIs DEF Stages, Open
<1>3. Fits(a, [call[a] EXCEPT !.pc = "finalize", !.row = @ + 1])
  BY <1>0, <1>1 DEF Fits, FitsEntry, FitsKnown, FitsOnce, HasOwn, Answers, AtWorkNow,
       Memory, WithEntry, InRecovery, WithOwn, AfterWrite, Ended
<1>4. Fits(a, [call[a] EXCEPT !.pc = "throw"])
  BY <1>0, <1>1 DEF Fits, FitsEntry, FitsKnown, FitsOnce, HasOwn, Answers, AtWorkNow,
       Memory, WithEntry, InRecovery, WithOwn, AfterWrite, Ended
<1>5. "finalize" \in PCs /\ "throw" \in PCs
  BY DEF PCs
<1> QED BY <1>1, <1>2, <1>3, <1>4, <1>5, AdvanceStep DEF DbCommitted

LEMMA FinalizeStep ==
    ASSUME JInv, NEW a \in Attempts, Finalize(a)
    PROVE  JInv'
<1>0. Shape /\ call[a] \in Memory /\ Fits(a, call[a])
  BY Known
<1> DEFINE j == call[a].entry
           m == [call[a] EXCEPT !.pc = "release", !.next = "ok"]
<1>1. call[a].pc = "finalize" /\ j \in Entries /\ j \in applied
  BY <1>0 DEF Finalize, Fits, FitsEntry, FitsKnown, HasOwn, WithOwn
<1>2. journals[j].mark \in {"none", "new", "base"} /\ "finalized" \in Stages
  BY <1>0, <1>1, RowIs DEF Stages
<1>3. CASE journals[j].version = call[a].row
  <2>1. m \in Memory
    BY <1>0 DEF Memory, PCs
  <2>2. Fits(a, m)
    BY <1>0, <1>1 DEF Fits, FitsEntry, FitsKnown, FitsOnce, HasOwn, Answers, AtWorkNow,
       Memory, WithEntry, InRecovery, WithOwn, AfterWrite, Ended
  <2> QED BY <1>1, <1>2, <1>3, <2>1, <2>2, StageStep DEF Finalize
<1>4. CASE journals[j].version # call[a].row
  <2>1. Fits(a, [call[a] EXCEPT !.pc = "throw"])
    BY <1>0, <1>1 DEF Fits, FitsEntry, FitsKnown, FitsOnce, HasOwn, Answers, AtWorkNow,
       Memory, WithEntry, InRecovery, WithOwn, AfterWrite, Ended
  <2>2. "throw" \in PCs /\ lease' \in LeaseRows
    BY <1>0, <1>4 DEF PCs, Finalize, Shape
  <2> QED BY <1>4, <2>1, <2>2, GotoStep DEF Finalize
<1> QED BY <1>3, <1>4

LEMMA ThrowStep ==
    ASSUME JInv, NEW a \in Attempts, Throw(a)
    PROVE  JInv'
<1>0. Shape /\ call[a] \in Memory /\ Fits(a, call[a])
  BY Known
<1> DEFINE m == [call[a] EXCEPT !.pc = "release", !.next = "failed"]
<1>1. call[a].pc = "throw" /\ call[a].entry \in Entries
  BY <1>0 DEF Throw, Fits, FitsEntry, HasOwn, WithOwn
<1>2. m \in Memory
  BY <1>0 DEF Memory, PCs
<1>3. Fits(a, m)
  BY <1>0, <1>1 DEF Fits, FitsEntry, FitsKnown, FitsOnce, HasOwn, Answers, AtWorkNow,
       Memory, WithEntry, InRecovery, WithOwn, AfterWrite, Ended
<1> QED BY <1>1, <1>2, <1>3, FlagStep DEF Throw

LEMMA ErrorStep ==
    ASSUME JInv, NEW a \in Attempts, Error(a)
    PROVE  JInv'
<1>0. Shape /\ call[a] \in Memory /\ Fits(a, call[a])
  BY Known
<1>1. lease' \in LeaseRows /\ "failed" \in PCs /\ "throw" \in PCs
  BY <1>0 DEF Error, Shape, PCs, Ended
<1>2. CASE call[a].pc \in OutsideTry /\ Goto(a, "failed")
  <2>1. Fits(a, [call[a] EXCEPT !.pc = "failed"])
    BY <1>0, <1>2 DEF OutsideTry, Fits, FitsEntry, FitsKnown, FitsOnce, HasOwn, Answers, AtWorkNow,
       Memory, WithEntry, InRecovery, WithOwn, AfterWrite, Ended
  <2> QED BY <1>1, <1>2, <2>1, GotoStep DEF Error
<1>3. CASE call[a].pc \in InsideTry /\ Goto(a, "throw")
  <2>1. Fits(a, [call[a] EXCEPT !.pc = "throw"])
    BY <1>0, <1>3 DEF InsideTry, Fits, FitsEntry, FitsKnown, FitsOnce, HasOwn, Answers, AtWorkNow,
       Memory, WithEntry, InRecovery, WithOwn, AfterWrite, Ended
  <2> QED BY <1>1, <1>3, <2>1, GotoStep DEF Error
<1> QED BY <1>2, <1>3 DEF Error

LEMMA CrashStep ==
    ASSUME JInv, NEW a \in Attempts, Crash(a)
    PROVE  JInv'
<1>0. Shape /\ call[a] \in Memory /\ Fits(a, call[a])
  BY Known
<1> DEFINE m == [NewCall EXCEPT !.pc = "crashed", !.text = call[a].text]
<1>1. m \in Memory
  BY <1>0, JournalAssumption DEF Memory, NewCall, PCs, Scopes, Ended
<1>2. Fits(a, m)
  BY DEF NewCall, Fits, FitsEntry, FitsKnown, FitsOnce, HasOwn, Answers, AtWorkNow,
       Memory, WithEntry, InRecovery, WithOwn, AfterWrite, Ended
<1>3. lease' \in LeaseRows
  BY <1>0 DEF Crash, Shape
<1> QED BY <1>1, <1>2, <1>3, MemoryStep DEF Crash

\* The new entry holds the text of its call, and of nobody else's knowledge.
LEMMA CreateJournalStep ==
    ASSUME JInv, NEW a \in Attempts, CreateJournal(a)
    PROVE  JInv'
<1>0. Shape /\ call[a] \in Memory /\ Fits(a, call[a]) /\ call[a].pc = "create"
  BY Known DEF CreateJournal
<1> DEFINE n == Len(journals) + 1
           row == [run |-> RunOf[a], step |-> StepOf[a], key |-> Key(a), token |-> call[a].token,
                   base |-> call[a].base, new |-> call[a].text, stage |-> "prepared",
                   mark |-> "none", version |-> 1]
<1>1. row \in Row /\ row.new = call[a].text /\ row.run = RunOf[a] /\ row.stage = "prepared"
  BY <1>0 DEF Row, Memory, Key, Stages, Open
<1>2. /\ SetCall(a, [call[a] EXCEPT !.pc = "save", !.entry = n, !.row = 1])
      /\ journals' = Append(journals, row)
      /\ applied' = IF file = call[a].text THEN applied \cup {n} ELSE applied
      /\ UNCHANGED <<file, lease, edits, shown, replaced>>
  BY DEF CreateJournal
<1> HIDE DEF row
<1>3. journals \in Seq(Row) /\ Len(journals) \in Nat /\ Entries = 1..Len(journals)
  BY <1>0 DEF Shape, Entries
<1>4. /\ journals' \in Seq(Row) /\ Entries' = 1..n /\ n \in Entries' /\ n \in Nat
      /\ journals'[n] = row /\ \A j \in Entries : journals'[j] = journals[j]
      /\ Entries \subseteq Entries' /\ \A j \in Entries' : j = n \/ j \in Entries
  BY <1>1, <1>2, <1>3 DEF Entries
<1> HIDE DEF n
<1>5. PICK m \in Memory : m = [call[a] EXCEPT !.pc = "save", !.entry = n, !.row = 1]
  BY <1>0, <1>4 DEF Memory, PCs
<1>6. Grows
  BY <1>2, <1>3, <1>4 DEF Grows
<1>7. Shape'
  BY <1>0, <1>2, <1>4, <1>5, SetCallIs DEF Shape
<1>8. AppliedIsKept' /\ FinalizedWasWritten' /\ DocumentIsJournaled'
  <2>1. AppliedIsKept'
    BY <1>1, <1>2, <1>4 DEF JInv, AppliedIsKept
  <2>2. FinalizedWasWritten'
    BY <1>1, <1>2, <1>4 DEF JInv, FinalizedWasWritten
  <2>3. DocumentIsJournaled'
    BY <1>2, <1>4, <1>6 DEF JInv, DocumentIsJournaled, Grows
  <2> QED BY <2>1, <2>2, <2>3
<1>9. CallInv(a)'
  <2>1. /\ m.pc = "save" /\ m.entry = n /\ m.text = call[a].text
        /\ m.related = call[a].related /\ m.pending = call[a].pending
    BY <1>0, <1>5 DEF Memory
  <2>2. FitsEntry(a, m)'
    BY <1>0, <1>1, <1>4, <1>6, <2>1 DEF Fits, FitsEntry, HasOwn, Answers, WithEntry, InRecovery,
         WithOwn, Grows
  <2>3. FitsKnown(a, m)' /\ FitsOnce(a, m)'
    BY <1>0, <1>2, <2>1 DEF Fits, FitsKnown, FitsOnce, Answers, AtWorkNow, AfterWrite, Ended
  <2>4. Fits(a, m)'
    BY <2>2, <2>3 DEF Fits
  <2> QED BY <1>0, <1>2, <1>5, <2>4, FitsNext
<1>10. ASSUME NEW b \in Attempts \ {a} PROVE CallInv(b)'
  <2>1. call'[b] = call[b] /\ CallInv(b)
    BY <1>0, <1>2, <1>5, SetCallIs DEF JInv
  <2>2. b \in UnderWay /\ file' = call[b].text => b \in shown'
    BY <1>2, <2>1 DEF CallInv, KnowledgeInv
  <2>3. b \in replaced' => b \in replaced
    BY <1>2
  <2> QED BY <1>6, <2>1, <2>2, <2>3, OtherCall
<1> QED BY <1>7, <1>8, <1>9, <1>10 DEF JInv

-----------------------------------------------------------------------------
(* The steps that change the document.                                     *)

\* What every change of the document keeps.
LEMMA WriteFileKeeps ==
    ASSUME JInv, NEW t \in Texts, WriteFile(t), UNCHANGED journals
    PROVE  /\ AppliedIsKept' /\ FinalizedWasWritten' /\ Grows
           /\ file' \in Texts /\ shown' \subseteq Attempts
           /\ \A b \in UnderWay : file' = call[b].text => b \in shown'
<1>1. Entries' = Entries
  BY DEF Entries
<1> QED BY <1>1 DEF JInv, Shape, WriteFile, AppliedIsKept, FinalizedWasWritten, Grows, UnderWay

\* A rename puts the text of the call's own entry there.
LEMMA ReplaceStep ==
    ASSUME JInv, NEW a \in Attempts, Replace(a)
    PROVE  JInv'
<1>0. /\ Shape /\ call[a] \in Memory /\ Fits(a, call[a])
      /\ call[a].pc = "replace" /\ call[a].text \in Texts
      /\ WriteFile(call[a].text) /\ UNCHANGED <<lease, journals, edits>>
      /\ replaced' = replaced \cup {a} /\ Goto(a, "replaced")
  BY Known DEF Replace, Memory
<1>1. PICK m \in Memory : m = [call[a] EXCEPT !.pc = "replaced"] /\ SetCall(a, m)
  BY <1>0 DEF Memory, PCs, Goto
<1>2. /\ AppliedIsKept' /\ FinalizedWasWritten' /\ Grows
      /\ file' \in Texts /\ shown' \subseteq Attempts
      /\ \A b \in UnderWay : file' = call[b].text => b \in shown'
  BY <1>0, WriteFileKeeps
<1>3. Shape'
  BY <1>0, <1>1, <1>2, SetCallIs DEF Shape
<1>4. Entries' = Entries /\ file' = call[a].text
  BY <1>0 DEF Entries, WriteFile
<1>5. DocumentIsJournaled'
  BY <1>0, <1>4 DEF Fits, FitsEntry, HasOwn, WithOwn, DocumentIsJournaled
<1>6. CallInv(a)'
  <2>1. /\ m.pc = "replaced" /\ m.entry = call[a].entry /\ m.text = call[a].text
        /\ m.related = call[a].related /\ m.pending = call[a].pending
    BY <1>0, <1>1 DEF Memory
  <2>2. FitsEntry(a, m)'
    BY <1>0, <1>4, <2>1 DEF Fits, FitsEntry, HasOwn, Answers, WithEntry, InRecovery, WithOwn
  <2>3. a \in UnderWay
    BY <1>0 DEF UnderWay, Ended
  <2>4. FitsKnown(a, m)' /\ FitsOnce(a, m)'
    BY <1>2, <1>4, <2>1, <2>3 DEF FitsKnown, FitsOnce, Answers, AtWorkNow, AfterWrite
  <2>5. Fits(a, m)'
    BY <2>2, <2>4 DEF Fits
  <2> QED BY <1>0, <1>1, <2>5, FitsNext
<1>7. ASSUME NEW b \in Attempts \ {a} PROVE CallInv(b)'
  <2>1. call'[b] = call[b] /\ CallInv(b)
    BY <1>0, <1>1, SetCallIs DEF JInv
  <2>2. b \in replaced' => b \in replaced
    BY <1>0
  <2> QED BY <1>2, <2>1, <2>2, OtherCall
<1> QED BY <1>2, <1>3, <1>5, <1>6, <1>7 DEF JInv

LEMMA EditorSavesStep ==
    ASSUME JInv, NEW t \in Texts, EditorSaves(t)
    PROVE  JInv'
<1>0. Shape /\ WriteFile(t) /\ edits' = edits + 1 /\ UNCHANGED <<lease, journals, call, replaced>>
  BY DEF JInv, EditorSaves
<1>1. /\ AppliedIsKept' /\ FinalizedWasWritten' /\ Grows
      /\ file' \in Texts /\ shown' \subseteq Attempts
      /\ \A b \in UnderWay : file' = call[b].text => b \in shown'
  BY <1>0, WriteFileKeeps
<1>2. Shape' /\ edits' > 0
  BY <1>0, <1>1 DEF Shape
<1>3. ASSUME NEW b \in Attempts PROVE CallInv(b)'
  BY <1>0, <1>1, OtherCall DEF JInv
<1> QED BY <1>1, <1>2, <1>3 DEF JInv, DocumentIsJournaled

-----------------------------------------------------------------------------
(* The start of a write, and the clock of its lease.                       *)

LEMMA StartStep ==
    ASSUME JInv, NEW a \in Attempts, NEW t \in Wanted, Start(a, t)
    PROVE  JInv'
<1>0. /\ Shape /\ Fits(a, call[a]) /\ call[a].pc = "idle" /\ t \in Texts
      /\ UNCHANGED <<file, lease, journals, edits, applied, replaced>>
      /\ shown' = IF file = t THEN shown \cup {a} ELSE shown
  BY Known, JournalAssumption DEF Start
<1> DEFINE m == [NewCall EXCEPT !.pc = "open", !.text = t]
<1>1. m \in Memory /\ SetCall(a, m)
  BY <1>0, JournalAssumption DEF Memory, NewCall, PCs, Scopes, Start
<1>2. /\ m.pc = "open" /\ m.entry = 0 /\ m.text = t /\ m.related = {} /\ m.pending = {}
  BY DEF NewCall
<1>3. Entries' = Entries /\ Grows
  BY <1>0 DEF Entries, Grows
<1>4. Shape'
  BY <1>0, <1>1, SetCallIs DEF Shape
<1>5. AppliedIsKept' /\ FinalizedWasWritten' /\ DocumentIsJournaled'
  BY <1>0, <1>3 DEF JInv, AppliedIsKept, FinalizedWasWritten, DocumentIsJournaled
<1>6. CallInv(a)'
  <2>1. a \notin replaced
    BY <1>0 DEF Fits, FitsOnce, AfterWrite
  <2>2. FitsEntry(a, m)'
    BY <1>2 DEF FitsEntry, Answers, WithEntry, InRecovery, WithOwn
  <2>3. FitsKnown(a, m)' /\ FitsOnce(a, m)'
    BY <1>0, <1>2, <2>1 DEF FitsKnown, FitsOnce, Answers, AtWorkNow
  <2>4. Fits(a, m)'
    BY <2>2, <2>3 DEF Fits
  <2> QED BY <1>0, <1>1, <2>4, FitsNext
<1>7. ASSUME NEW b \in Attempts \ {a} PROVE CallInv(b)'
  <2>1. call'[b] = call[b] /\ CallInv(b)
    BY <1>0, <1>1, SetCallIs DEF JInv
  <2>2. b \in UnderWay /\ file' = call[b].text => b \in shown'
    BY <1>0, <2>1 DEF CallInv, KnowledgeInv
  <2>3. b \in replaced' => b \in replaced
    BY <1>0
  <2> QED BY <1>3, <2>1, <2>2, <2>3, OtherCall
<1> QED BY <1>4, <1>5, <1>6, <1>7 DEF JInv

\* The lease has no part in the invariant but its shape.
LEMMA LeaseOnlyStep ==
    ASSUME JInv, lease' \in LeaseRows, UNCHANGED <<file, journals, call, edits, history>>
    PROVE  JInv'
<1>1. Shape'
  BY DEF JInv, Shape, history
<1>2. AppliedIsKept' /\ FinalizedWasWritten' /\ DocumentIsJournaled' /\ Grows
  BY SameGrows DEF JInv, AppliedIsKept, FinalizedWasWritten, DocumentIsJournaled, Entries, history
<1>3. ASSUME NEW b \in Attempts PROVE CallInv(b)'
  <2>1. call'[b] = call[b] /\ CallInv(b) /\ (b \in replaced' => b \in replaced)
    BY DEF JInv, history
  <2>2. b \in UnderWay /\ file' = call[b].text => b \in shown'
    BY <2>1 DEF CallInv, KnowledgeInv, history
  <2> QED BY <1>2, <2>1, <2>2, OtherCall
<1> QED BY <1>1, <1>2, <1>3 DEF JInv

LEMMA LeaseExpiresStep ==
    ASSUME JInv, LeaseExpires
    PROVE  JInv'
<1>1. lease' \in LeaseRows
  BY DEF JInv, Shape, LeaseExpires, LeaseRows
<1> QED BY <1>1, LeaseOnlyStep DEF LeaseExpires

-----------------------------------------------------------------------------
(* The invariant.                                                          *)

LEMMA InitJInv ==
    ASSUME Init
    PROVE  JInv
<1>1. NewCall \in Memory
  BY JournalAssumption DEF NewCall, Memory, PCs, Scopes
<1>2. Shape
  <2>1. lease \in LeaseRows
    BY DEF Init, NoLease, LeaseRows
  <2>2. journals \in Seq(Row) /\ Entries = {}
    BY DEF Init, Entries
  <2> QED BY <1>1, <2>1, <2>2, JournalAssumption DEF Init, Shape
<1>3. Entries = {}
  BY DEF Init, Entries
<1>4. AppliedIsKept /\ FinalizedWasWritten /\ DocumentIsJournaled
  BY <1>3 DEF Init, AppliedIsKept, FinalizedWasWritten, DocumentIsJournaled
<1>5. ASSUME NEW a \in Attempts PROVE CallInv(a)
  <2>1. call[a] = NewCall /\ replaced = {}
    BY DEF Init
  <2>2. Fits(a, NewCall)
    BY <2>1 DEF NewCall, Fits, FitsEntry, FitsKnown, FitsOnce, HasOwn, Answers, AtWorkNow,
       WithEntry, InRecovery, WithOwn
  <2> QED BY <2>1, <2>2, FitsIs
<1> QED BY <1>2, <1>4, <1>5 DEF JInv

LEMMA StepKeeps ==
    ASSUME JInv, NEW a \in Attempts, Step(a)
    PROVE  JInv'
BY ReadBaseStep, ListRelatedStep, RecoverNextStep, ReadForReplayStep, ReplayStep,
   RecoverElsewhereStep, RecoverLeaseStep, InspectStep, SettleStep, CloseStep, AbandonStep,
   ReleaseStep, AcquireLeaseStep, CreateJournalStep, FindDuplicateStep, CheckDuplicateStep,
   CompareStep, ReadBeforeSaveStep, TempWrittenStep, CheckLeaseStep, ReplaceStep,
   FileReplacedStep, VerifyStep, DbCommittedStep, FinalizeStep, ThrowStep, ErrorStep DEF Step

LEMMA NextJInv ==
    ASSUME JInv, [Next]_vars
    PROVE  JInv'
<1>1. ASSUME NEW a \in Attempts, Step(a) PROVE JInv'
  BY <1>1, StepKeeps
<1>2. ASSUME NEW a \in Attempts, Crash(a) PROVE JInv'
  BY <1>2, CrashStep
<1>3. ASSUME NEW a \in Attempts, NEW t \in Wanted, Start(a, t) PROVE JInv'
  BY <1>3, StartStep
<1>4. CASE LeaseExpires
  BY <1>4, LeaseExpiresStep
<1>5. ASSUME NEW t \in Texts, EditorSaves(t) PROVE JInv'
  BY <1>5, EditorSavesStep
<1>6. CASE UNCHANGED vars
  <2>1. lease' \in LeaseRows /\ UNCHANGED <<file, journals, call, edits, history>>
    BY <1>6 DEF JInv, Shape, vars, history
  <2> QED BY <2>1, LeaseOnlyStep
<1> QED BY <1>1, <1>2, <1>3, <1>4, <1>5, <1>6 DEF Next

\* The journal and the document agree in every reachable state, for any number
\* of writes, texts, edits and relaunches: an entry that is closed as written
\* has been on disk (commit-journal-service.ts: recoverJournal, write).
THEOREM JournalInvariance == Spec => []JInv
<1>1. Init => JInv
  BY InitJInv
<1>2. JInv /\ [Next]_vars => JInv'
  BY NextJInv
<1> QED BY <1>1, <1>2, PTL DEF Spec

\* A write that answers names an entry of its own run whose text it was asked
\* to write and which has been on disk.
THEOREM AnswersAreJournaled == Spec => []AnswerIsJournaled
<1>1. JInv => AnswerIsJournaled
  <2> SUFFICES ASSUME JInv, NEW a \in Attempts, call[a].pc = "ok"
               PROVE  /\ journals[call[a].entry].new = call[a].text
                      /\ journals[call[a].entry].run = RunOf[a]
                      /\ call[a].entry \in applied
    BY DEF AnswerIsJournaled
  <2> QED BY DEF JInv, CallInv, EntryInv, KnowledgeInv, Knows, OwnEntry, WithOwn
<1> QED BY <1>1, JournalInvariance, PTL

-----------------------------------------------------------------------------
(* The fencing tokens.                                                     *)

TokenGrows == /\ lease'.token >= lease.token
              /\ lease'.owner # lease.owner => lease'.token > lease.token

LEMMA AcquiredGrows ==
    ASSUME Shape, NEW o, CanAcquire(o), lease' = Acquired(o)
    PROVE  TokenGrows
BY DEF Shape, LeaseRows, CanAcquire, Acquired, TokenGrows

LEMMA ReleasedGrows ==
    ASSUME Shape, NEW c, NEW o, lease' = Released(c, o)
    PROVE  TokenGrows
<1>1. lease'.token = lease.token /\ lease'.owner = lease.owner
  BY DEF Shape, LeaseRows, Released
<1> QED BY <1>1 DEF Shape, LeaseRows, TokenGrows

LEMMA SameLeaseGrows ==
    ASSUME Shape, UNCHANGED lease
    PROVE  TokenGrows
BY DEF Shape, LeaseRows, TokenGrows

LEMMA StepGrows ==
    ASSUME Shape, NEW a \in Attempts, Step(a)
    PROVE  TokenGrows
<1>1. CASE RecoverLease(a)
  BY <1>1, AcquiredGrows, SameLeaseGrows DEF RecoverLease
<1>2. CASE AcquireLease(a)
  BY <1>2, AcquiredGrows, SameLeaseGrows DEF AcquireLease
<1>3. CASE Abandon(a)
  BY <1>3, ReleasedGrows DEF Abandon
<1>4. CASE Release(a)
  BY <1>4, ReleasedGrows DEF Release
<1>5. CASE FindDuplicate(a)
  BY <1>5, ReleasedGrows DEF FindDuplicate
<1>6. CASE UNCHANGED lease
  BY <1>6, SameLeaseGrows
<1>7. CASE ReadBase(a) \/ ListRelated(a) \/ RecoverNext(a) \/ ReadForReplay(a) \/ Replay(a)
  BY <1>6, <1>7 DEF ReadBase, ListRelated, RecoverNext, ReadForReplay, Replay
<1>8. CASE RecoverElsewhere(a) \/ Inspect(a) \/ Settle(a) \/ Close(a) \/ CreateJournal(a)
             \/ CheckDuplicate(a) \/ Compare(a) \/ ReadBeforeSave(a) \/ TempWritten(a)
  BY <1>6, <1>8 DEF RecoverElsewhere, Inspect, Settle, Close, CreateJournal, CheckDuplicate,
     Compare, ReadBeforeSave, TempWritten
<1>9. CASE CheckLease(a) \/ Replace(a) \/ FileReplaced(a) \/ Verify(a) \/ DbCommitted(a)
             \/ Finalize(a) \/ Throw(a) \/ Error(a)
  BY <1>6, <1>9 DEF CheckLease, Replace, FileReplaced, Verify, DbCommitted, Finalize, Throw, Error
<1> QED BY <1>1, <1>2, <1>3, <1>4, <1>5, <1>7, <1>8, <1>9 DEF Step

\* A lease changes hands only with a larger fencing token, and a token never
\* comes back (execution-store.ts: acquireWriteLease, releaseWriteLease).
THEOREM TokensAreFresh == Spec => LeaseChangesToken
<1>1. JInv /\ [Next]_vars => [TokenGrows]_vars
  <2> SUFFICES ASSUME JInv, Next PROVE TokenGrows
    OBVIOUS
  <2>1. Shape
    BY DEF JInv
  <2>2. ASSUME NEW a \in Attempts, Step(a) PROVE TokenGrows
    BY <2>1, <2>2, StepGrows
  <2>3. ASSUME NEW a \in Attempts, Crash(a) PROVE TokenGrows
    BY <2>1, <2>3, SameLeaseGrows DEF Crash
  <2>4. ASSUME NEW a \in Attempts, NEW t \in Wanted, Start(a, t) PROVE TokenGrows
    BY <2>1, <2>4, SameLeaseGrows DEF Start
  <2>5. CASE LeaseExpires
    <3>1. lease'.token = lease.token /\ lease'.owner = lease.owner
      BY <2>1, <2>5 DEF LeaseExpires, Shape, LeaseRows
    <3> QED BY <2>1, <3>1 DEF Shape, LeaseRows, TokenGrows
  <2>6. ASSUME NEW t \in Texts, EditorSaves(t) PROVE TokenGrows
    BY <2>1, <2>6, SameLeaseGrows DEF EditorSaves
  <2> QED BY <2>2, <2>3, <2>4, <2>5, <2>6 DEF Next
<1> QED BY <1>1, JournalInvariance, PTL DEF Spec, LeaseChangesToken, TokenGrows

-----------------------------------------------------------------------------
(* The refinement of DocumentWrites.                                       *)

\* A step that a reader of the document may see only as the end of the write.
Quiet(a) ==
    /\ \A b \in Attempts \ {a} : call'[b] = call[b]
    /\ call'[a].text = call[a].text /\ call'[a].pc # "idle"
    /\ UNCHANGED <<file, shown, replaced>>

LEMMA QuietStep ==
    ASSUME JInv, JInv', NEW a \in UnderWay, Quiet(a)
    PROVE  [Writes!Next]_(Writes!vars)
<1>1. a \in Attempts /\ Phases[a] = "running"
  BY DEF UnderWay, Phases, PhaseOf, Ended
<1>2. Wishes' = Wishes
  BY DEF Quiet, Wishes
<1>3. Phases' = [Phases EXCEPT ![a] = PhaseOf(call'[a].pc)]
  BY DEF Quiet, Phases
<1>4. CASE call'[a].pc = "ok"
  <2>1. a \in shown /\ Phases' = [Phases EXCEPT ![a] = "ok"]
    BY <1>1, <1>3, <1>4 DEF JInv, CallInv, KnowledgeInv, Knows, PhaseOf, Quiet
  <2>2. Writes!Answer(a)
    BY <1>1, <1>2, <2>1 DEF Writes!Answer, Quiet
  <2> QED BY <1>1, <2>2 DEF Writes!Next
<1>5. CASE call'[a].pc \in {"failed", "crashed"}
  <2>1. Phases' = [Phases EXCEPT ![a] = "failed"]
    BY <1>3, <1>5 DEF PhaseOf
  <2>2. Writes!Fail(a)
    BY <1>1, <1>2, <2>1 DEF Writes!Fail, Quiet
  <2> QED BY <1>1, <2>2 DEF Writes!Next
<1>6. CASE call'[a].pc \notin Ended
  <2>1. PhaseOf(call'[a].pc) = "running"
    BY <1>6 DEF PhaseOf, Ended, Quiet
  <2>2. Phases' = Phases
    BY <1>1, <1>3, <2>1 DEF Phases
  <2> QED BY <1>2, <2>2 DEF Writes!vars, Quiet
<1> QED BY <1>4, <1>5, <1>6 DEF Ended

\* A call that is set to a memory with its own text is quiet.
LEMMA SetIsQuiet ==
    ASSUME JInv, NEW a \in Attempts, NEW m, SetCall(a, m), m.text = call[a].text, m.pc # "idle",
           UNCHANGED <<file, shown, replaced>>
    PROVE  Quiet(a)
BY DEF JInv, Shape, SetCall, Quiet

LEMMA StepIsQuiet ==
    ASSUME JInv, NEW a \in Attempts, Step(a), ~Replace(a)
    PROVE  Quiet(a)
<1>0. Shape /\ call[a] \in Memory
  BY Known
<1>1. CASE ReadBase(a) \/ ListRelated(a) \/ RecoverNext(a) \/ ReadForReplay(a)
  BY <1>0, <1>1, SetIsQuiet DEF ReadBase, ListRelated, RecoverNext, ReadForReplay, Goto, history, Memory
<1>2. CASE Replay(a)
  BY <1>0, <1>2, SetIsQuiet DEF Replay, Goto, history, Memory
<1>3. CASE RecoverElsewhere(a) \/ RecoverLease(a) \/ Inspect(a)
  BY <1>0, <1>3, SetIsQuiet DEF RecoverElsewhere, RecoverLease, Inspect, Goto, history, Memory
<1>4. CASE Settle(a)
  BY <1>0, <1>4, SetIsQuiet DEF Settle, history, Memory
<1>5. CASE Close(a)
  BY <1>0, <1>5, SetIsQuiet DEF Close, Advance, Goto, history, Memory
<1>6. CASE Abandon(a) \/ Release(a) \/ AcquireLease(a)
  BY <1>0, <1>6, SetIsQuiet DEF Abandon, Release, AcquireLease, Goto, history, Memory
<1>7. CASE CreateJournal(a) \/ FindDuplicate(a)
  BY <1>0, <1>7, SetIsQuiet DEF CreateJournal, FindDuplicate, history, Memory
<1>8. CASE CheckDuplicate(a) \/ Compare(a)
  BY <1>0, <1>8, SetIsQuiet DEF CheckDuplicate, Compare, Goto, NewCall, history, Memory
<1>9. CASE ReadBeforeSave(a) \/ CheckLease(a) \/ Verify(a) \/ Error(a)
  BY <1>0, <1>9, SetIsQuiet DEF ReadBeforeSave, CheckLease, Verify, Error, Goto, history, Memory
<1>10. CASE TempWritten(a) \/ FileReplaced(a) \/ DbCommitted(a)
  BY <1>0, <1>10, SetIsQuiet DEF TempWritten, FileReplaced, DbCommitted, Advance, Goto, history, Memory
<1>11. CASE Finalize(a) \/ Throw(a)
  BY <1>0, <1>11, SetIsQuiet DEF Finalize, Throw, Goto, history, Memory
<1> QED BY <1>1, <1>2, <1>3, <1>4, <1>5, <1>6, <1>7, <1>8, <1>9, <1>10, <1>11 DEF Step

\* Every step of write and of recoverJournal is taken by a call under way.
LEMMA StepIsUnderWay ==
    ASSUME NEW a \in Attempts, Step(a)
    PROVE  a \in UnderWay
BY DEF UnderWay, Ended, Step, ReadBase, ListRelated, RecoverNext, ReadForReplay, Replay,
   RecoverElsewhere, RecoverLease, Inspect, Settle, Close, Abandon, Release, AcquireLease,
   CreateJournal, FindDuplicate, CheckDuplicate, Compare, ReadBeforeSave, TempWritten,
   CheckLease, Replace, FileReplaced, Verify, DbCommitted, Finalize, Throw, Error,
   OutsideTry, InsideTry

\* A document that changes is seen by the calls under way that wanted its text.
LEMMA RunningIs ==
    ASSUME NEW t
    PROVE  Writes!Running(t) = {a \in UnderWay : call[a].text = t}
BY DEF Writes!Running, UnderWay, Phases, Wishes, PhaseOf, Ended

LEMMA ReplaceIsPut ==
    ASSUME JInv, NEW a \in Attempts, Replace(a)
    PROVE  Writes!Put(a)
<1>0. /\ Shape /\ call[a] \in Memory /\ Fits(a, call[a]) /\ call[a].pc = "replace"
      /\ SetCall(a, [call[a] EXCEPT !.pc = "replaced"])
  BY Known DEF Replace, Goto
<1>1. Phases[a] = "running" /\ a \notin replaced /\ Wishes[a] = call[a].text
  BY <1>0 DEF Phases, PhaseOf, Wishes, Fits, FitsOnce, AfterWrite
<1>2. call'[a].pc = "replaced" /\ call'[a].text = call[a].text
      /\ \A b \in Attempts \ {a} : call'[b] = call[b]
  BY <1>0 DEF Shape, Memory, SetCall
<1>3. Phases' = Phases /\ Wishes' = Wishes
  BY <1>0, <1>2 DEF Phases, Wishes, PhaseOf
<1> QED BY <1>1, <1>3, RunningIs DEF Writes!Put, Replace, WriteFile

LEMMA StartIsBegin ==
    ASSUME JInv, NEW a \in Attempts, NEW t \in Wanted, Start(a, t)
    PROVE  Writes!Begin(a, t)
<1>0. call[a].pc = "idle" /\ SetCall(a, [NewCall EXCEPT !.pc = "open", !.text = t]) /\ Shape
  BY DEF Start, JInv
<1>1. call'[a].pc = "open" /\ call'[a].text = t /\ \A b \in Attempts \ {a} : call'[b] = call[b]
  BY <1>0 DEF Shape, SetCall, NewCall
<1>2. Phases[a] = "idle" /\ Phases' = [Phases EXCEPT ![a] = "running"]
  BY <1>0, <1>1 DEF Phases, PhaseOf
<1>3. Wishes' = [Wishes EXCEPT ![a] = t]
  BY <1>1 DEF Wishes
<1> QED BY <1>2, <1>3 DEF Writes!Begin, Start

LEMMA StepImplements ==
    ASSUME JInv, JInv', [Next]_vars
    PROVE  [Writes!Next]_(Writes!vars)
<1>1. ASSUME NEW a \in Attempts, Step(a) PROVE [Writes!Next]_(Writes!vars)
  <2>1. CASE Replace(a)
    BY <2>1, ReplaceIsPut DEF Writes!Next
  <2>2. CASE ~Replace(a)
    BY <1>1, <2>2, StepIsQuiet, StepIsUnderWay, QuietStep
  <2> QED BY <2>1, <2>2
<1>2. ASSUME NEW a \in Attempts, Crash(a) PROVE [Writes!Next]_(Writes!vars)
  <2>1. SetCall(a, [NewCall EXCEPT !.pc = "crashed", !.text = call[a].text]) /\ a \in UnderWay
        /\ UNCHANGED <<file, shown, replaced>>
    BY <1>2 DEF Crash, history
  <2>2. Quiet(a)
    BY <2>1, SetIsQuiet DEF NewCall
  <2> QED BY <2>1, <2>2, QuietStep
<1>3. ASSUME NEW a \in Attempts, NEW t \in Wanted, Start(a, t) PROVE [Writes!Next]_(Writes!vars)
  BY <1>3, StartIsBegin, JournalAssumption DEF Writes!Next
<1>4. CASE UNCHANGED <<file, call, shown, replaced>>
  BY <1>4 DEF Writes!vars, Phases, Wishes
<1>5. ASSUME NEW t \in Texts, EditorSaves(t) PROVE [Writes!Next]_(Writes!vars)
  <2>1. Phases' = Phases /\ Wishes' = Wishes
    BY <1>5 DEF EditorSaves, Phases, Wishes
  <2>2. Writes!Edit(t)
    BY <1>5, <2>1, RunningIs DEF Writes!Edit, EditorSaves, WriteFile
  <2> QED BY <2>2 DEF Writes!Next
<1>6. LeaseExpires \/ UNCHANGED vars => UNCHANGED <<file, call, shown, replaced>>
  BY DEF LeaseExpires, vars, history
<1> QED BY <1>1, <1>2, <1>3, <1>4, <1>5, <1>6 DEF Next

\* To the runs and to the reader of the document, the journal with its leases,
\* crashes and recoveries is DocumentWrites: each write puts its text there at
\* most once and answers only when it was there (commit-journal-service.ts: write).
THEOREM JournalImplementsWrites == Spec => ImplementsWrites
<1>1. Init => Writes!Init
  BY DEF Init, NewCall, Phases, Wishes, PhaseOf, Writes!Init
<1>2. JInv /\ JInv' /\ [Next]_vars => [Writes!Next]_(Writes!vars)
  BY StepImplements
<1> QED BY <1>1, <1>2, JournalInvariance, PTL DEF Spec, ImplementsWrites, Writes!Spec
-----------------------------------------------------------------------------
(* What is left behind.                                                    *)

\* The places of a write that has its entry and its lease.
Trying == {"save", "temp", "check", "replace", "replaced", "verify", "commit", "finalize",
           "throw"}

\* A call that will close entry j: the write that created it, or a recovery
\* that has staged it and has not been overtaken.
Closes(a, j) ==
    /\ call[a].entry = j
    /\ call[a].pc \in Trying \/ (call[a].pc = "close" /\ call[a].row = journals[j].version)

\* A call that will give the lease back: nobody has taken it since.
Holding == Trying \cup {"create", "inspect", "settle", "close", "abandon", "release"}

Returns(a) ==
    /\ call[a].pc \in Holding
    /\ lease.owner = OwnerOf(a)
    /\ lease.token = call[a].token /\ lease.version = call[a].leaseVersion

\* What follows the release is known while it is due, and only then.
NextInv(a) ==
    /\ call[a].pc \in {"inspect", "settle", "close", "abandon"}
         => call[a].next \in {"replay", "duplicate"}
    /\ call[a].pc \notin {"inspect", "settle", "close", "abandon", "release"} \cup Ended
         => call[a].next = "failed"

NoCrash == \A a \in Attempts : call[a].pc # "crashed"

BehindInv ==
    /\ \A a \in Attempts : NextInv(a)
    /\ NoCrash => /\ \A j \in Entries : journals[j].stage \in Open =>
                       \E a \in Attempts : Closes(a, j)
                  /\ lease.state = "held" => \E a \in Attempts : Returns(a)

\* A step of one call: whatever it closes is closed or still its own, and so is
\* the lease.
LEMMA BehindStep ==
    ASSUME BehindInv, NEW a \in Attempts, call[a].pc # "crashed",
           \A b \in Attempts \ {a} : call'[b] = call[b],
           NextInv(a)',
           \A j \in Entries' : journals'[j].stage \in Open =>
             \/ Closes(a, j)'
             \/ j \in Entries /\ journals'[j] = journals[j] /\ ~Closes(a, j),
           lease'.state = "held" => Returns(a)' \/ (lease' = lease /\ ~Returns(a))
    PROVE  BehindInv'
<1>1. \A b \in Attempts : NextInv(b)'
  <2>1. \A b \in Attempts \ {a} : NextInv(b)'
    BY DEF BehindInv, NextInv
  <2> QED BY <2>1
<1>2. NoCrash' => NoCrash
  BY DEF NoCrash
<1>3. ASSUME NoCrash, NEW j \in Entries', journals'[j].stage \in Open
      PROVE  \E b \in Attempts : Closes(b, j)'
  <2>1. CASE j \in Entries /\ journals'[j] = journals[j] /\ ~Closes(a, j)
    <3>1. PICK b \in Attempts : Closes(b, j)
      BY <1>3, <2>1 DEF BehindInv
    <3>2. Closes(b, j)'
      BY <2>1, <3>1 DEF Closes
    <3> QED BY <3>2
  <2> QED BY <1>3, <2>1
<1>4. ASSUME NoCrash, lease'.state = "held"
      PROVE  \E b \in Attempts : Returns(b)'
  <2>1. CASE lease' = lease /\ ~Returns(a)
    <3>1. PICK b \in Attempts : Returns(b)
      BY <1>4, <2>1 DEF BehindInv
    <3>2. Returns(b)'
      BY <2>1, <3>1 DEF Returns, OwnerOf, Writer, Recovery
    <3> QED BY <3>2
  <2> QED BY <1>4, <2>1
<1> QED BY <1>1, <1>2, <1>3, <1>4 DEF BehindInv

\* What a call keeps when it only moves.
OnlyMoves(a) ==
    /\ call'[a].entry = call[a].entry /\ call'[a].next = call[a].next
    /\ call'[a].token = call[a].token /\ call'[a].leaseVersion = call[a].leaseVersion

LEMMA GotoMoves ==
    ASSUME Shape, NEW a \in Attempts, NEW pc, Goto(a, pc)
    PROVE  /\ OnlyMoves(a) /\ call'[a].pc = pc /\ call'[a].row = call[a].row
           /\ \A b \in Attempts \ {a} : call'[b] = call[b]
BY DEF Shape, Memory, Goto, SetCall, OnlyMoves

\* A call that has neither an entry nor the lease.
LEMMA BehindFree ==
    ASSUME BehindInv, NEW a \in Attempts, call[a].pc # "crashed",
           \A b \in Attempts \ {a} : call'[b] = call[b],
           call[a].pc \notin Holding, UNCHANGED <<journals, lease>>, NextInv(a)'
    PROVE  BehindInv'
<1>1. \A j \in Entries : ~Closes(a, j)
  BY DEF Closes, Holding
<1>2. ~Returns(a)
  BY DEF Returns
<1> QED BY <1>1, <1>2, BehindStep DEF Entries

\* A write inside its try block, whose entry may go on.
LEMMA BehindTrying ==
    ASSUME BehindInv, NEW a \in Attempts, call[a].pc \in Trying, call'[a].pc \in Trying,
           OnlyMoves(a), \A b \in Attempts \ {a} : call'[b] = call[b],
           Entries' = Entries,
           \A j \in Entries : j = call[a].entry \/ journals'[j] = journals[j],
           UNCHANGED lease
    PROVE  BehindInv'
<1>1. NextInv(a)' /\ call[a].pc # "crashed"
  BY DEF BehindInv, NextInv, Trying, OnlyMoves, Ended
<1>2. \A j \in Entries : Closes(a, j)' \/ (journals'[j] = journals[j] /\ ~Closes(a, j))
  BY DEF Closes, OnlyMoves
<1>3. Returns(a)' \/ ~Returns(a)
  BY <1>1 DEF Returns, Holding, OnlyMoves, OwnerOf, Writer, Recovery
<1> QED BY <1>1, <1>2, <1>3, BehindStep
LEMMA StartBehind ==
    ASSUME BehindInv, Shape, NEW a \in Attempts, NEW t \in Wanted, Start(a, t)
    PROVE  BehindInv'
<1>1. /\ call[a].pc = "idle" /\ UNCHANGED <<journals, lease>>
      /\ call'[a].pc = "open" /\ call'[a].next = "failed"
      /\ \A b \in Attempts \ {a} : call'[b] = call[b]
  BY DEF Start, Shape, SetCall, NewCall
<1> QED BY <1>1, BehindFree DEF Holding, Trying, NextInv

\* The places before a write has its entry, and between two recoveries.
LEMMA FreeBehind ==
    ASSUME JInv, BehindInv, Shape, NEW a \in Attempts,
           \/ ReadBase(a) \/ ListRelated(a) \/ RecoverNext(a) \/ ReadForReplay(a) \/ Replay(a)
           \/ CheckDuplicate(a) \/ Compare(a) \/ (Error(a) /\ call[a].pc \in OutsideTry)
    PROVE  BehindInv'
<1> DEFINE places == {"open", "list", "replay", "replaying", "recover", "duplicate", "compare"}
           then == {"open", "list", "replay", "replaying", "recover", "lease", "compare",
                    "ok", "failed"}
<1>1. call[a].pc \in places /\ UNCHANGED <<journals, lease>>
  BY DEF ReadBase, ListRelated, RecoverNext, ReadForReplay, Replay, CheckDuplicate, Compare,
         Error, OutsideTry
<1>2. \A b \in Attempts \ {a} : call'[b] = call[b]
  BY DEF ReadBase, ListRelated, RecoverNext, ReadForReplay, Replay, CheckDuplicate, Compare,
         Error, Goto, SetCall, Shape
<1>3. call[a].next = "failed"
  BY <1>1 DEF BehindInv, NextInv, Ended
<1>4. call'[a].pc \in then /\ call'[a].next = "failed"
  <2>1. ASSUME NEW pc \in then, Goto(a, pc)
        PROVE  call'[a].pc \in then /\ call'[a].next = "failed"
    BY <1>3, <2>1, GotoMoves DEF OnlyMoves
  <2>2. ASSUME NEW m, SetCall(a, m)
        PROVE  call'[a] = m
    BY <2>2 DEF SetCall, Shape
  <2>3. call[a] \in Memory
    BY DEF Shape
  <2>4. CASE ReadBase(a)
    <3>1. SetCall(a, [call[a] EXCEPT !.pc = "list", !.base = file])
      BY <2>4 DEF ReadBase
    <3>2. call'[a] = [call[a] EXCEPT !.pc = "list", !.base = file]
      BY <2>2, <3>1
    <3> QED BY <1>3, <2>3, <3>2 DEF Memory
  <2>5. CASE ListRelated(a)
    <3> DEFINE related == Related(a)
               pending == {j \in Related(a) : journals[j].stage # "finalized"}
               pc == IF Related(a) = {} THEN "lease" ELSE "replay"
               m == [call[a] EXCEPT !.pc = pc, !.related = related, !.pending = pending]
    <3>1. SetCall(a, m) /\ pc \in then
      BY <2>5 DEF ListRelated
    <3>2. call'[a] = m
      BY <2>2, <3>1
    <3> HIDE DEF related, pending, pc
    <3>3. m.pc = pc /\ m.next = call[a].next
      BY <2>3 DEF Memory
    <3> QED BY <1>3, <3>1, <3>2, <3>3
  <2>6. CASE RecoverNext(a)
    <3>1. PICK j \in call[a].pending :
            SetCall(a, [call[a] EXCEPT !.pc = "recover", !.back = "replay", !.entry = j,
                                       !.pending = @ \ {j}])
      BY <2>6 DEF RecoverNext
    <3>2. call'[a] = [call[a] EXCEPT !.pc = "recover", !.back = "replay", !.entry = j,
                                     !.pending = @ \ {j}]
      BY <2>2, <3>1
    <3> QED BY <1>3, <2>3, <3>2 DEF Memory
  <2>7. CASE ReadForReplay(a)
    BY <2>1, <2>7 DEF ReadForReplay
  <2>8. CASE Replay(a)
    <3>1. CASE Goto(a, "lease")
      BY <2>1, <3>1
    <3>2. CASE \E j \in Entries : SetCall(a, [call[a] EXCEPT !.pc = "ok", !.entry = j])
      <4>1. PICK j \in Entries : call'[a] = [call[a] EXCEPT !.pc = "ok", !.entry = j]
        BY <2>2, <3>2
      <4> QED BY <1>3, <2>3, <4>1 DEF Memory
    <3>3. call[a].related \subseteq Entries
      BY DEF JInv, CallInv, EntryInv
    <3> QED BY <2>8, <3>1, <3>2, <3>3 DEF Replay
  <2>9. CASE CheckDuplicate(a)
    <3>1. PICK pc \in {"compare", "failed"}, u \in BOOLEAN :
            SetCall(a, [call[a] EXCEPT !.pc = pc, !.unapplied = u])
      BY <2>9 DEF CheckDuplicate
    <3>2. call'[a] = [call[a] EXCEPT !.pc = pc, !.unapplied = u]
      BY <2>2, <3>1
    <3> QED BY <1>3, <2>3, <3>1, <3>2 DEF Memory
  <2>10. CASE Compare(a)
    <3>1. CASE \E pc \in {"ok", "failed"} : Goto(a, pc)
      BY <2>1, <3>1
    <3>2. CASE SetCall(a, [NewCall EXCEPT !.pc = "open", !.text = call[a].text, !.scope = a])
      BY <2>2, <3>2 DEF NewCall
    <3> QED BY <2>10, <3>1, <3>2 DEF Compare
  <2>11. CASE Error(a) /\ call[a].pc \in OutsideTry
    BY <2>1, <2>11 DEF Error, OutsideTry, InsideTry
  <2> QED BY <2>4, <2>5, <2>6, <2>7, <2>8, <2>9, <2>10, <2>11
<1>5. NextInv(a)'
  BY <1>4 DEF NextInv
<1>6. call[a].pc # "crashed" /\ call[a].pc \notin Holding
  BY <1>1 DEF Holding, Trying
<1> QED BY <1>1, <1>2, <1>5, <1>6, BehindFree

\* Inside the try block, where only the place changes.
LEMMA TryBehind ==
    ASSUME BehindInv, Shape, NEW a \in Attempts,
           \/ ReadBeforeSave(a) \/ CheckLease(a) \/ Replace(a) \/ Verify(a)
           \/ (Error(a) /\ call[a].pc \in InsideTry)
    PROVE  BehindInv'
<1>1. UNCHANGED <<journals, lease>> /\ call[a].pc \in Trying
  BY DEF ReadBeforeSave, CheckLease, Replace, Verify, Error, InsideTry, Trying
<1>2. PICK pc \in Trying : Goto(a, pc)
  BY DEF ReadBeforeSave, CheckLease, Replace, Verify, Error, InsideTry, OutsideTry, Trying
<1>3. Entries' = Entries
  BY <1>1 DEF Entries
<1> QED BY <1>1, <1>2, <1>3, GotoMoves, BehindTrying

\* The entry advances under the call's version, or the call throws.
LEMMA AdvanceMoves ==
    ASSUME JInv, NEW a \in Attempts, call[a].entry \in Entries,
           NEW stage \in Stages, NEW mark \in {"none", "new", "base"}, NEW then \in PCs,
           NEW otherwise \in PCs, Advance(a, call[a].entry, stage, mark, then, otherwise)
    PROVE  /\ OnlyMoves(a) /\ \A b \in Attempts \ {a} : call'[b] = call[b]
           /\ Entries' = Entries
           /\ \A j \in Entries : j = call[a].entry \/ journals'[j] = journals[j]
           /\ \/ /\ call'[a].pc = then /\ journals'[call[a].entry].stage = stage
                 /\ journals[call[a].entry].version = call[a].row
              \/ /\ call'[a].pc = otherwise /\ UNCHANGED journals
                 /\ journals[call[a].entry].version # call[a].row
<1> DEFINE j == call[a].entry
<1>0. Shape
  BY DEF JInv
<1>1. CASE journals[j].version = call[a].row
  <2>1. journals' = Staged(j, stage, mark)
    BY <1>1 DEF Advance
  <2>2. /\ Entries' = Entries /\ journals'[j].stage = stage
        /\ \A k \in Entries \ {j} : journals'[k] = journals[k]
    BY <1>0, <2>1, StagedIs DEF Entries
  <2>3. /\ call'[a].pc = then /\ OnlyMoves(a)
        /\ \A b \in Attempts \ {a} : call'[b] = call[b]
    BY <1>0, <1>1 DEF Advance, SetCall, Shape, Memory, OnlyMoves
  <2> QED BY <1>1, <2>2, <2>3
<1>2. CASE journals[j].version # call[a].row
  <2>1. Goto(a, otherwise) /\ UNCHANGED journals
    BY <1>2 DEF Advance
  <2>2. Entries' = Entries
    BY <2>1 DEF Entries
  <2> QED BY <1>0, <1>2, <2>1, <2>2, GotoMoves
<1> QED BY <1>1, <1>2

LEMMA AdvanceBehind ==
    ASSUME JInv, BehindInv, NEW a \in Attempts,
           TempWritten(a) \/ FileReplaced(a) \/ DbCommitted(a)
    PROVE  BehindInv'
<1>1. call[a].entry \in Entries /\ call[a].pc \in Trying /\ UNCHANGED lease
  BY DEF TempWritten, FileReplaced, DbCommitted, JInv, CallInv, EntryInv, OwnEntry, WithOwn,
         Trying
<1>2. journals[call[a].entry].mark \in {"none", "new", "base"}
  BY <1>1, RowIs DEF JInv
<1>3. PICK stage \in Stages, mark \in {"none", "new", "base"}, then \in Trying :
        Advance(a, call[a].entry, stage, mark, then, "throw")
  BY <1>2 DEF TempWritten, FileReplaced, DbCommitted, Stages, Open, Trying
<1>4. then \in PCs /\ "throw" \in PCs
  BY DEF PCs, Trying
<1>5. /\ OnlyMoves(a) /\ \A b \in Attempts \ {a} : call'[b] = call[b]
      /\ Entries' = Entries
      /\ \A j \in Entries : j = call[a].entry \/ journals'[j] = journals[j]
      /\ call'[a].pc = then \/ call'[a].pc = "throw"
  BY <1>1, <1>3, <1>4, AdvanceMoves
<1>6. call'[a].pc \in Trying
  BY <1>5 DEF Trying
<1> QED BY <1>1, <1>5, <1>6, BehindTrying
LEMMA RowMoves ==
    ASSUME Shape, NEW a \in Attempts, NEW pc, NEW row,
           SetCall(a, [call[a] EXCEPT !.pc = pc, !.row = row])
    PROVE  /\ OnlyMoves(a) /\ call'[a].pc = pc /\ call'[a].row = row
           /\ \A b \in Attempts \ {a} : call'[b] = call[b]
BY DEF Shape, Memory, SetCall, OnlyMoves

LEMMA FlaggedIs ==
    ASSUME Shape, NEW j \in Entries
    PROVE  /\ DOMAIN Flagged(j) = Entries /\ Flagged(j)[j].stage \notin Open
           /\ \A k \in Entries \ {j} : Flagged(j)[k] = journals[k]
<1>1. journals[j].mark \in {"none", "new", "base"}
  BY RowIs
<1>2. CASE journals[j].stage \in Open
  <2>1. Flagged(j) = Staged(j, "recovery_required", journals[j].mark)
    BY <1>2 DEF Flagged
  <2>2. "recovery_required" \in Stages /\ "recovery_required" \notin Open
    BY DEF Stages, Open
  <2> QED BY <1>1, <2>1, <2>2, StagedIs
<1>3. CASE journals[j].stage \notin Open
  BY <1>3 DEF Flagged, Entries
<1> QED BY <1>2, <1>3

\* A step that closes the entry of its call.
LEMMA BehindClosing ==
    ASSUME BehindInv, NEW a \in Attempts, call[a].pc # "crashed",
           \A b \in Attempts \ {a} : call'[b] = call[b], NextInv(a)',
           Entries' = Entries,
           \A j \in Entries : IF j = call[a].entry THEN journals'[j].stage \notin Open
                                                   ELSE journals'[j] = journals[j],
           lease' = lease, Returns(a)' \/ ~Returns(a)
    PROVE  BehindInv'
<1>1. \A j \in Entries \ {call[a].entry} : ~Closes(a, j)
  BY DEF Closes
<1> QED BY <1>1, BehindStep

LEMMA RecoverElsewhereBehind ==
    ASSUME JInv, BehindInv, NEW a \in Attempts, RecoverElsewhere(a)
    PROVE  BehindInv'
<1>1. /\ Shape /\ call[a].pc = "recover" /\ call[a].entry \in Entries
      /\ call[a].next = "failed" /\ call[a].back \in {"replay", "duplicate"}
  BY DEF RecoverElsewhere, JInv, Shape, Memory, CallInv, EntryInv, WithEntry, BehindInv,
         NextInv, Ended
<1>2. /\ OnlyMoves(a) /\ call'[a].pc = call[a].back
      /\ \A b \in Attempts \ {a} : call'[b] = call[b]
  BY <1>1, GotoMoves DEF RecoverElsewhere
<1>3. NextInv(a)' /\ ~Returns(a)
  BY <1>1, <1>2 DEF NextInv, OnlyMoves, Returns, Holding, Trying
<1>4. journals' = Flagged(call[a].entry) /\ lease' = lease
  BY DEF RecoverElsewhere
<1>5. /\ Entries' = Entries
      /\ \A j \in Entries : IF j = call[a].entry THEN journals'[j].stage \notin Open
                                                 ELSE journals'[j] = journals[j]
  BY <1>1, <1>4, FlaggedIs DEF Entries
<1> QED BY <1>1, <1>2, <1>3, <1>4, <1>5, BehindClosing

LEMMA ThrowBehind ==
    ASSUME JInv, BehindInv, NEW a \in Attempts, Throw(a)
    PROVE  BehindInv'
<1>1. Shape /\ call[a].pc = "throw" /\ call[a].entry \in Entries /\ call[a].next = "failed"
  BY DEF Throw, JInv, CallInv, EntryInv, OwnEntry, WithOwn, BehindInv, NextInv, Ended
<1>2. /\ OnlyMoves(a) /\ call'[a].pc = "release"
      /\ \A b \in Attempts \ {a} : call'[b] = call[b]
  BY <1>1 DEF Throw, SetCall, Shape, Memory, OnlyMoves
<1>3. journals' = Flagged(call[a].entry) /\ lease' = lease
  BY DEF Throw
<1>4. NextInv(a)' /\ (Returns(a)' \/ ~Returns(a))
  BY <1>1, <1>2, <1>3 DEF NextInv, OnlyMoves, Returns, Holding, OwnerOf, Writer, Recovery
<1>5. /\ Entries' = Entries
      /\ \A j \in Entries : IF j = call[a].entry THEN journals'[j].stage \notin Open
                                                 ELSE journals'[j] = journals[j]
  BY <1>1, <1>3, FlaggedIs DEF Entries
<1> QED BY <1>1, <1>2, <1>3, <1>4, <1>5, BehindClosing

LEMMA FinalizeBehind ==
    ASSUME JInv, BehindInv, NEW a \in Attempts, Finalize(a)
    PROVE  BehindInv'
<1> DEFINE j == call[a].entry
<1>1. /\ Shape /\ call[a].pc = "finalize" /\ call[a].entry \in Entries
      /\ call[a].next = "failed" /\ lease' = lease
  BY DEF Finalize, JInv, CallInv, EntryInv, OwnEntry, WithOwn, BehindInv, NextInv, Ended
<1>2. CASE journals[j].version = call[a].row
  <2>1. /\ journals' = Staged(j, "finalized", journals[j].mark)
        /\ SetCall(a, [call[a] EXCEPT !.pc = "release", !.next = "ok"])
    BY <1>2 DEF Finalize
  <2>2. journals[j].mark \in {"none", "new", "base"} /\ "finalized" \in Stages \ Open
    BY <1>1, RowIs DEF Stages, Open
  <2>3. /\ Entries' = Entries
        /\ \A k \in Entries : IF k = j THEN journals'[k].stage \notin Open
                                       ELSE journals'[k] = journals[k]
    BY <1>1, <2>1, <2>2, StagedIs DEF Entries
  <2>4. /\ call'[a].pc = "release" /\ call'[a].next = "ok" /\ call'[a].entry = j
        /\ call'[a].token = call[a].token /\ call'[a].leaseVersion = call[a].leaseVersion
        /\ \A b \in Attempts \ {a} : call'[b] = call[b]
    BY <1>1, <2>1 DEF SetCall, Shape, Memory
  <2>5. NextInv(a)' /\ (Returns(a)' \/ ~Returns(a))
    BY <1>1, <2>4 DEF NextInv, Returns, Holding, OwnerOf, Writer, Recovery
  <2> QED BY <1>1, <2>3, <2>4, <2>5, BehindClosing
<1>3. CASE journals[j].version # call[a].row
  <2>1. Goto(a, "throw") /\ UNCHANGED journals
    BY <1>3 DEF Finalize
  <2>2. Entries' = Entries
    BY <2>1 DEF Entries
  <2>3. call[a].pc \in Trying /\ "throw" \in Trying
    BY <1>1 DEF Trying
  <2> QED BY <1>1, <2>1, <2>2, <2>3, GotoMoves, BehindTrying
<1> QED BY <1>2, <1>3

LEMMA CloseBehind ==
    ASSUME JInv, BehindInv, NEW a \in Attempts, Close(a)
    PROVE  BehindInv'
<1> DEFINE j == call[a].entry
<1>1. /\ Shape /\ call[a].pc = "close" /\ call[a].entry \in Entries
      /\ call[a].next \in {"replay", "duplicate"} /\ lease' = lease
  BY DEF Close, JInv, CallInv, EntryInv, WithEntry, BehindInv, NextInv, Ended
<1>2. /\ "finalized" \in Stages /\ "finalized" \notin Open
      /\ "release" \in PCs /\ "abandon" \in PCs
  BY DEF Stages, Open, PCs
<1>3. Advance(a, j, "finalized", "new", "release", "abandon")
  BY DEF Close
<1>4. /\ OnlyMoves(a) /\ \A b \in Attempts \ {a} : call'[b] = call[b]
      /\ Entries' = Entries
      /\ \A k \in Entries : k = j \/ journals'[k] = journals[k]
      /\ \/ call'[a].pc = "release" /\ journals'[j].stage = "finalized"
         \/ /\ call'[a].pc = "abandon" /\ UNCHANGED journals
            /\ journals[j].version # call[a].row
  BY <1>1, <1>2, <1>3, AdvanceMoves
<1>5. NextInv(a)' /\ (Returns(a)' \/ ~Returns(a))
  BY <1>1, <1>4 DEF NextInv, Returns, Holding, OnlyMoves, OwnerOf, Writer, Recovery
<1>6. CASE call'[a].pc = "release" /\ journals'[j].stage = "finalized"
  BY <1>1, <1>2, <1>4, <1>5, <1>6, BehindClosing
<1>7. CASE UNCHANGED journals /\ journals[j].version # call[a].row
  <2>1. \A k \in Entries : ~Closes(a, k)
    BY <1>1, <1>7 DEF Closes, Trying
  <2> QED BY <1>1, <1>4, <1>5, <1>7, <2>1, BehindStep
<1> QED BY <1>4, <1>6, <1>7
LEMMA SettleBehind ==
    ASSUME JInv, BehindInv, NEW a \in Attempts, Settle(a)
    PROVE  BehindInv'
<1> DEFINE j == call[a].entry
<1>1. /\ Shape /\ call[a].pc = "settle" /\ call[a].entry \in Entries
      /\ call[a].next \in {"replay", "duplicate"} /\ lease' = lease
  BY DEF Settle, JInv, CallInv, EntryInv, WithEntry, BehindInv, NextInv, Ended
<1>2. /\ "finalized" \in Stages \ Open /\ "db_committed" \in Stages
      /\ journals[j].version \in Nat /\ \A k \in Entries : ~Closes(a, k)
  BY <1>1, RowIs DEF Stages, Open, Closes, Trying
<1>3. ASSUME NEW pc \in {"close", "release"}, NEW row,
             SetCall(a, [call[a] EXCEPT !.pc = pc, !.row = row])
      PROVE  /\ call'[a].entry = j /\ call'[a].pc = pc /\ call'[a].row = row
             /\ \A b \in Attempts \ {a} : call'[b] = call[b]
             /\ NextInv(a)' /\ (Returns(a)' \/ ~Returns(a))
  <2>1. /\ OnlyMoves(a) /\ call'[a].pc = pc /\ call'[a].row = row
        /\ \A b \in Attempts \ {a} : call'[b] = call[b]
    BY <1>1, <1>3, RowMoves
  <2> QED BY <1>1, <2>1 DEF NextInv, Returns, Holding, OnlyMoves, OwnerOf, Writer, Recovery
<1>4. CASE /\ UNCHANGED journals
           /\ SetCall(a, [call[a] EXCEPT !.pc = "close", !.row = journals[j].version])
  <2>1. /\ call'[a].entry = j /\ call'[a].pc = "close" /\ call'[a].row = journals[j].version
        /\ \A b \in Attempts \ {a} : call'[b] = call[b]
        /\ NextInv(a)' /\ (Returns(a)' \/ ~Returns(a))
    BY <1>3, <1>4
  <2>2. Entries' = Entries /\ journals' = journals
    BY <1>4 DEF Entries
  <2> QED BY <1>1, <1>2, <2>1, <2>2, BehindStep
<1>5. CASE /\ journals' = Staged(j, "db_committed", "new")
           /\ SetCall(a, [call[a] EXCEPT !.pc = "close", !.row = journals[j].version + 1])
  <2>1. /\ call'[a].entry = j /\ call'[a].pc = "close"
        /\ call'[a].row = journals[j].version + 1
        /\ \A b \in Attempts \ {a} : call'[b] = call[b]
        /\ NextInv(a)' /\ (Returns(a)' \/ ~Returns(a))
    BY <1>3, <1>5
  <2>2. Entries' = Entries /\ \A k \in Entries \ {j} : journals'[k] = journals[k]
    BY <1>1, <1>2, <1>5, StagedIs DEF Entries
  <2>3. journals'[j].version = journals[j].version + 1
    <3>1. journals[j] \in Row /\ j \in DOMAIN journals
      BY <1>1, RowIs DEF Entries
    <3> QED BY <1>5, <3>1 DEF Staged, Row
  <2>4. Closes(a, j)'
    BY <2>1, <2>3 DEF Closes
  <2> QED BY <1>1, <1>2, <2>1, <2>2, <2>4, BehindStep
<1>6. CASE /\ journals' = Staged(j, "finalized", "base") \/ journals' = Flagged(j)
           /\ SetCall(a, [call[a] EXCEPT !.pc = "release", !.row = 0])
  <2>1. /\ \A b \in Attempts \ {a} : call'[b] = call[b]
        /\ NextInv(a)' /\ (Returns(a)' \/ ~Returns(a))
    BY <1>3, <1>6
  <2>2. /\ Entries' = Entries
        /\ \A k \in Entries : IF k = j THEN journals'[k].stage \notin Open
                                       ELSE journals'[k] = journals[k]
    BY <1>1, <1>2, <1>6, StagedIs, FlaggedIs DEF Entries
  <2> QED BY <1>1, <2>1, <2>2, BehindClosing
<1> QED BY <1>4, <1>5, <1>6 DEF Settle

LEMMA InspectBehind ==
    ASSUME JInv, BehindInv, NEW a \in Attempts, Inspect(a)
    PROVE  BehindInv'
<1>1. /\ Shape /\ call[a].pc = "inspect" /\ UNCHANGED <<journals, lease>>
      /\ call[a].next \in {"replay", "duplicate"}
  BY DEF Inspect, JInv, BehindInv, NextInv
<1>2. /\ OnlyMoves(a) /\ call'[a].pc = "settle"
      /\ \A b \in Attempts \ {a} : call'[b] = call[b]
  BY <1>1 DEF Inspect, SetCall, Shape, Memory, OnlyMoves
<1>3. NextInv(a)' /\ (Returns(a)' \/ ~Returns(a))
  BY <1>1, <1>2 DEF NextInv, Returns, Holding, OnlyMoves, OwnerOf, Writer, Recovery
<1>4. \A j \in Entries : ~Closes(a, j)
  BY <1>1 DEF Closes, Trying
<1> QED BY <1>1, <1>2, <1>3, <1>4, BehindStep DEF Entries

\* A lease that is taken will be given back; one that is not leaves the call free.
LEMMA RecoverLeaseBehind ==
    ASSUME JInv, BehindInv, NEW a \in Attempts, RecoverLease(a)
    PROVE  BehindInv'
<1> DEFINE o == Recovery(call[a].entry)
<1>1. /\ Shape /\ call[a].pc = "recover" /\ UNCHANGED journals
      /\ call[a].next = "failed" /\ call[a].back \in {"replay", "duplicate"}
  BY DEF RecoverLease, JInv, Shape, Memory, BehindInv, NextInv, Ended
<1>2. CASE CanAcquire(o)
  <2>1. /\ lease' = Acquired(o)
        /\ SetCall(a, [call[a] EXCEPT !.pc = "inspect", !.next = call[a].back,
                         !.token = Acquired(o).token, !.leaseVersion = Acquired(o).version])
    BY <1>2 DEF RecoverLease
  <2>2. /\ call'[a].pc = "inspect" /\ call'[a].next = call[a].back
        /\ call'[a].token = lease'.token /\ call'[a].leaseVersion = lease'.version
        /\ call'[a].entry = call[a].entry
        /\ \A b \in Attempts \ {a} : call'[b] = call[b]
    BY <1>1, <2>1 DEF SetCall, Shape, Memory
  <2>3. lease'.owner = o
    BY <2>1 DEF Acquired
  <2>4. NextInv(a)' /\ Returns(a)'
    BY <1>1, <2>2, <2>3 DEF NextInv, Returns, Holding, OwnerOf, Recovery
  <2>5. \A j \in Entries : ~Closes(a, j)
    BY <1>1 DEF Closes, Trying
  <2> QED BY <1>1, <2>2, <2>4, <2>5, BehindStep DEF Entries
<1>3. CASE ~CanAcquire(o)
  <2>1. Goto(a, call[a].back) /\ UNCHANGED lease
    BY <1>3 DEF RecoverLease
  <2>2. NextInv(a)' /\ \A b \in Attempts \ {a} : call'[b] = call[b]
    BY <1>1, <2>1, GotoMoves DEF NextInv, OnlyMoves
  <2> QED BY <1>1, <2>1, <2>2, BehindFree DEF Holding, Trying
<1> QED BY <1>2, <1>3

LEMMA AcquireLeaseBehind ==
    ASSUME JInv, BehindInv, NEW a \in Attempts, AcquireLease(a)
    PROVE  BehindInv'
<1> DEFINE o == Writer(a)
<1>1. /\ Shape /\ call[a].pc = "lease" /\ UNCHANGED journals /\ call[a].next = "failed"
  BY DEF AcquireLease, JInv, BehindInv, NextInv, Ended
<1>2. CASE CanAcquire(o)
  <2>1. /\ lease' = Acquired(o)
        /\ SetCall(a, [call[a] EXCEPT !.pc = "create", !.token = Acquired(o).token,
                                      !.leaseVersion = Acquired(o).version])
    BY <1>2 DEF AcquireLease
  <2>2. /\ call'[a].pc = "create" /\ call'[a].next = "failed"
        /\ call'[a].token = lease'.token /\ call'[a].leaseVersion = lease'.version
        /\ \A b \in Attempts \ {a} : call'[b] = call[b]
    BY <1>1, <2>1 DEF SetCall, Shape, Memory
  <2>3. lease'.owner = o
    BY <2>1 DEF Acquired
  <2>4. NextInv(a)' /\ Returns(a)'
    BY <2>2, <2>3 DEF NextInv, Returns, Holding, OwnerOf, Writer
  <2>5. \A j \in Entries : ~Closes(a, j)
    BY <1>1 DEF Closes, Trying
  <2> QED BY <1>1, <2>2, <2>4, <2>5, BehindStep DEF Entries
<1>3. CASE ~CanAcquire(o)
  <2>1. Goto(a, "failed") /\ UNCHANGED lease
    BY <1>3 DEF AcquireLease
  <2>2. NextInv(a)' /\ \A b \in Attempts \ {a} : call'[b] = call[b]
    BY <1>1, <2>1, GotoMoves DEF NextInv, OnlyMoves
  <2> QED BY <1>1, <2>1, <2>2, BehindFree DEF Holding, Trying
<1> QED BY <1>2, <1>3

\* A lease that is given back: if it was the call's to return, it is released.
LEMMA ReleasedReturns ==
    ASSUME NEW a \in Attempts, call[a].pc \in Holding,
           lease' = Released(call[a], OwnerOf(a)), lease'.state = "held", Shape
    PROVE  lease' = lease /\ ~Returns(a)
<1>1. CASE Holds(call[a], OwnerOf(a)) /\ lease.version = call[a].leaseVersion
  <2>1. lease'.state = "released"
    BY <1>1 DEF Released, Shape, LeaseRows
  <2> QED BY <2>1
<1>2. CASE ~(Holds(call[a], OwnerOf(a)) /\ lease.version = call[a].leaseVersion)
  <2>1. lease' = lease
    BY <1>2 DEF Released
  <2> QED BY <1>2, <2>1 DEF Holds, Returns
<1> QED BY <1>1, <1>2

LEMMA ReleaseBehind ==
    ASSUME JInv, BehindInv, NEW a \in Attempts, Release(a) \/ Abandon(a)
    PROVE  BehindInv'
<1>1. /\ Shape /\ call[a].pc \in {"release", "abandon"} /\ UNCHANGED journals
      /\ lease' = Released(call[a], OwnerOf(a))
  BY DEF Release, Abandon, JInv
<1>2. /\ \A b \in Attempts \ {a} : call'[b] = call[b]
      /\ call'[a].next = "failed" \/ call'[a].pc = "failed"
      /\ call'[a].pc \in {"replay", "duplicate", "ok", "failed"}
  <2>1. CASE Release(a)
    BY <1>1, <2>1 DEF Release, SetCall, Shape, Memory
  <2>2. CASE Abandon(a)
    BY <1>1, <2>2, GotoMoves DEF Abandon
  <2> QED BY <2>1, <2>2
<1>3. NextInv(a)'
  BY <1>2 DEF NextInv, Ended
<1>4. \A j \in Entries : ~Closes(a, j)
  BY <1>1 DEF Closes, Trying
<1>5. lease'.state = "held" => lease' = lease /\ ~Returns(a)
  BY <1>1, ReleasedReturns DEF Holding
<1> QED BY <1>1, <1>2, <1>3, <1>4, <1>5, BehindStep DEF Entries

LEMMA FindDuplicateBehind ==
    ASSUME JInv, BehindInv, NEW a \in Attempts, FindDuplicate(a)
    PROVE  BehindInv'
<1>1. /\ Shape /\ call[a].pc = "create" /\ UNCHANGED journals /\ call[a].next = "failed"
      /\ lease' = Released(call[a], OwnerOf(a))
  BY DEF FindDuplicate, JInv, BehindInv, NextInv, OwnerOf, Ended
<1>2. PICK pc \in {"duplicate", "recover"}, j \in Entries :
        SetCall(a, [call[a] EXCEPT !.pc = pc, !.entry = j, !.back = "duplicate"])
  BY DEF FindDuplicate
<1>3. /\ call'[a].pc = pc /\ call'[a].next = "failed"
      /\ \A b \in Attempts \ {a} : call'[b] = call[b]
  BY <1>1, <1>2 DEF SetCall, Shape, Memory
<1>4. NextInv(a)' /\ \A k \in Entries : ~Closes(a, k)
  BY <1>1, <1>3 DEF NextInv, Closes, Trying
<1>5. lease'.state = "held" => lease' = lease /\ ~Returns(a)
  BY <1>1, ReleasedReturns DEF Holding
<1> QED BY <1>1, <1>3, <1>4, <1>5, BehindStep DEF Entries
LEMMA CreateJournalBehind ==
    ASSUME JInv, BehindInv, NEW a \in Attempts, CreateJournal(a)
    PROVE  BehindInv'
<1>0. PICK new : new = Len(journals) + 1
  OBVIOUS
<1>1. /\ Shape /\ call[a].pc = "create" /\ call[a].next = "failed" /\ lease' = lease
  BY DEF CreateJournal, JInv, BehindInv, NextInv, Ended
<1>2. PICK row : journals' = Append(journals, row)
  BY DEF CreateJournal
<1>3. /\ Entries' = Entries \cup {new} /\ new \notin Entries
      /\ \A j \in Entries : journals'[j] = journals[j]
  <2>1. journals \in Seq(Row)
    BY <1>1 DEF Shape
  <2> QED BY <1>0, <1>2, <2>1 DEF Entries
<1>4. SetCall(a, [call[a] EXCEPT !.pc = "save", !.entry = new, !.row = 1])
  BY <1>0 DEF CreateJournal
<1>5. /\ call'[a].pc = "save" /\ call'[a].entry = new /\ call'[a].next = "failed"
      /\ call'[a].token = call[a].token /\ call'[a].leaseVersion = call[a].leaseVersion
      /\ \A b \in Attempts \ {a} : call'[b] = call[b]
  BY <1>1, <1>4 DEF SetCall, Shape, Memory
<1>6. /\ NextInv(a)' /\ (Returns(a)' \/ ~Returns(a))
      /\ \A j \in Entries : ~Closes(a, j)
  BY <1>1, <1>5 DEF NextInv, Returns, Holding, Trying, OwnerOf, Writer, Recovery, Closes
<1>7. Closes(a, new)'
  BY <1>5 DEF Closes, Trying
<1> QED BY <1>1, <1>3, <1>5, <1>6, <1>7, BehindStep

\* A crash excuses whatever is left.
LEMMA CrashBehind ==
    ASSUME JInv, BehindInv, NEW a \in Attempts, Crash(a)
    PROVE  BehindInv'
<1>1. /\ call'[a].pc = "crashed" /\ \A b \in Attempts \ {a} : call'[b] = call[b]
  BY DEF Crash, JInv, Shape, SetCall, NewCall
<1>2. \A b \in Attempts : NextInv(b)'
  <2>1. NextInv(a)'
    BY <1>1 DEF NextInv, Ended
  <2>2. \A b \in Attempts \ {a} : NextInv(b)'
    BY <1>1 DEF BehindInv, NextInv
  <2> QED BY <2>1, <2>2
<1> QED BY <1>1, <1>2 DEF BehindInv, NoCrash

\* The lease runs out, or the editor saves.
LEMMA QuietBehind ==
    ASSUME BehindInv, UNCHANGED <<call, journals>>, lease'.state = "held" => lease' = lease
    PROVE  BehindInv'
BY DEF BehindInv, NextInv, NoCrash, Entries, Closes, Returns, OwnerOf, Writer, Recovery

LEMMA BehindInit == Init => BehindInv
BY DEF Init, BehindInv, NextInv, NoCrash, NewCall, NoLease, Entries

LEMMA StepBehind ==
    ASSUME JInv, BehindInv, NEW a \in Attempts, Step(a)
    PROVE  BehindInv'
<1>1. Shape
  BY DEF JInv
<1>2. CASE Error(a)
  BY <1>1, <1>2, FreeBehind, TryBehind DEF Error
<1> QED BY <1>1, <1>2, FreeBehind, TryBehind, AdvanceBehind, RecoverElsewhereBehind,
        RecoverLeaseBehind, InspectBehind, SettleBehind, CloseBehind, ReleaseBehind,
        AcquireLeaseBehind, CreateJournalBehind, FindDuplicateBehind, FinalizeBehind,
        ThrowBehind DEF Step

LEMMA BehindNext == JInv /\ BehindInv /\ [Next]_vars => BehindInv'
<1> SUFFICES ASSUME JInv, BehindInv, [Next]_vars PROVE BehindInv'
  OBVIOUS
<1>1. ASSUME NEW a \in Attempts, Step(a) \/ Crash(a) \/ \E t \in Wanted : Start(a, t)
      PROVE  BehindInv'
  BY <1>1, StepBehind, CrashBehind, StartBehind DEF JInv
<1>2. CASE LeaseExpires
  <2>1. lease'.state # "held"
    BY <1>2 DEF LeaseExpires, JInv, Shape, LeaseRows
  <2> QED BY <1>2, <2>1, QuietBehind DEF LeaseExpires
<1>3. CASE UNCHANGED vars \/ \E t \in Texts : EditorSaves(t)
  BY <1>3, QuietBehind DEF vars, EditorSaves
<1> QED BY <1>1, <1>2, <1>3 DEF Next

\* As long as no process crashed, every open entry has a call that will close it
\* and a held lease has a call that will give it back: the last that took it.
THEOREM BehindInvariance == Spec => [](JInv /\ BehindInv)
<1>1. Init => JInv /\ BehindInv
  BY InitJInv, BehindInit
<1>2. JInv /\ BehindInv /\ [Next]_vars => JInv' /\ BehindInv'
  BY NextJInv, BehindNext
<1> QED BY <1>1, <1>2, PTL DEF Spec

\* Only a crash leaves an entry open or a lease held: the catch and finally
\* blocks flag the one and give the other back on every path
\* (commit-journal-service.ts: write, recoverJournal).
THEOREM NothingLeftBehind == Spec => []OnlyCrashLeavesBehind
<1>1. BehindInv => OnlyCrashLeavesOpen
  <2> SUFFICES ASSUME BehindInv, NoCrash, NEW j \in Entries, journals[j].stage \in Open
               PROVE  AtWork(j)
    BY DEF OnlyCrashLeavesOpen, NoCrash
  <2>1. PICK a \in Attempts : Closes(a, j)
    BY DEF BehindInv
  <2>2. a \in UnderWay /\ call[a].entry = j
    BY <2>1 DEF Closes, UnderWay, Trying, Ended
  <2> QED BY <2>2 DEF AtWork
<1>2. BehindInv => OnlyCrashKeepsLease
  <2> SUFFICES ASSUME BehindInv, NoCrash, lease.state = "held" PROVE UnderWay # {}
    BY DEF OnlyCrashKeepsLease, NoCrash
  <2>1. PICK a \in Attempts : Returns(a)
    BY DEF BehindInv
  <2>2. a \in UnderWay
    BY <2>1 DEF Returns, Holding, Trying, UnderWay, Ended
  <2> QED BY <2>2
<1>3. BehindInv => OnlyCrashLeavesBehind
  BY <1>1, <1>2 DEF OnlyCrashLeavesBehind
<1> QED BY <1>3, BehindInvariance, PTL
=============================================================================
