--------------------------- MODULE CommitJournal ---------------------------
(***************************************************************************)
(* One document of a project and the commit journal that guards its writes *)
(* by durable runs: CommitJournalService.write and recoverJournal          *)
(* (kernel/commit-journal-service.ts), the write lease and the journal     *)
(* tables of the execution store, and the atomic replacement that          *)
(* DocumentService.saveDocument performs for them.                         *)
(*                                                                         *)
(* A write takes the lease of the document, records its intent, writes a   *)
(* temporary file, checks that it still holds the lease, renames, and      *)
(* closes its journal entry.  Each call is an attempt of a step: the       *)
(* attempts of one step share an idempotency key, run in processes of      *)
(* their own once a run is relaunched, may crash between any two steps,    *)
(* and find each other's entries.  The editor writes the same document     *)
(* and takes no lease.                                                     *)
(*                                                                         *)
(* A text stands for itself and for its SHA-256 hash, which tells texts    *)
(* apart; the document that does not exist is the empty text.              *)
(***************************************************************************)
EXTENDS Naturals, Sequences, FiniteSets

CONSTANTS
    Attempts,    \* calls of write, each by an attempt of a run's step
    RunOf,       \* the run of an attempt
    StepOf,      \* its step
    KeyOf,       \* the idempotency key its step derives for this document
    Texts,       \* contents of the document
    Wanted,      \* those that the runs write
    Original,    \* what it holds at first
    NoAttempt,   \* the part of a key that is not bound to an attempt
    MaxEdits,    \* bound: saves by the editor
    AtOnce       \* bound: writes under way at once, each in a process of its own

ASSUME JournalAssumption ==
    /\ IsFiniteSet(Attempts) /\ NoAttempt \notin Attempts
    /\ Original \in Texts /\ Wanted \subseteq Texts
    /\ MaxEdits \in Nat /\ AtOnce \in Nat

VARIABLES
    file,      \* the document on disk
    lease,     \* its row of agent_write_leases
    journals,  \* agent_commit_journal, in order of creation
    call,      \* the memory of each write
    edits,     \* saves the editor has made
    applied,   \* history: entries whose new text has been on disk since they exist
    shown,     \* history: calls whose text has been on disk since they began
    replaced   \* history: calls that renamed their file over the document

vars    == <<file, lease, journals, call, edits, applied, shown, replaced>>
history == <<applied, shown, replaced>>

Open     == {"prepared", "temp_written", "file_replaced", "db_committed"}
Stages   == Open \cup {"finalized", "recovery_required"}
Ended    == {"ok", "failed", "crashed"}
Entries  == DOMAIN journals
UnderWay == {a \in Attempts : call[a].pc \notin Ended \cup {"idle"}}

\* A lease nobody ever took.
NoLease == [owner |-> <<"none", 0>>, token |-> 0, version |-> 0, state |-> "absent"]

NewCall == [pc |-> "idle", next |-> "failed", back |-> "duplicate", text |-> Original,
            scope |-> NoAttempt, base |-> Original, actual |-> Original,
            related |-> {}, pending |-> {}, entry |-> 0, row |-> 0,
            token |-> 0, leaseVersion |-> 0, unapplied |-> FALSE]

Init ==
    /\ file = Original /\ lease = NoLease /\ journals = <<>>
    /\ call = [a \in Attempts |-> NewCall]
    /\ edits = 0 /\ applied = {} /\ replaced = {}
    /\ shown = {}

Key(a) == <<KeyOf[a], call[a].scope>>

\* findAppliedReplay: the entries of the same run under this key or, when the
\* key is not yet bound to an attempt, under a key derived from it.
Related(a) ==
    {j \in Entries :
        /\ journals[j].run = RunOf[a] /\ journals[j].key[1] = KeyOf[a]
        /\ call[a].scope # NoAttempt => journals[j].key[2] = call[a].scope}

SetCall(a, c) == call' = [call EXCEPT ![a] = c]
Goto(a, pc)   == SetCall(a, [call[a] EXCEPT !.pc = pc])

\* Every change of the document, with what the histories say of it.
WriteFile(t) ==
    /\ file' = t
    /\ applied' = applied \cup {j \in Entries : journals[j].new = t}
    /\ shown' = shown \cup {a \in UnderWay : call[a].text = t}

(***************************************************************************)
(* The store's transactions on the lease and on the journal.               *)
(***************************************************************************)

\* acquireWriteLease: a released or expired lease passes on with a new fencing
\* token; an owner that still holds it takes it again under the same one.
Free         == lease.state \in {"absent", "released", "expired"}
CanAcquire(o) == Free \/ lease.owner = o
Acquired(o)  == [owner |-> o, token |-> IF Free THEN lease.token + 1 ELSE lease.token,
                 version |-> lease.version + 1, state |-> "held"]

\* The lease the call took is still the row's, unreleased.
Holds(c, o) == /\ lease.owner = o /\ lease.token = c.token
               /\ lease.state \in {"held", "expired"}

\* releaseWriteLease compares the version too.
Released(c, o) ==
    IF Holds(c, o) /\ lease.version = c.leaseVersion
    THEN [lease EXCEPT !.version = @ + 1, !.state = "released"]
    ELSE lease

\* updateCommitJournal, under the version and the stage its caller read.
Staged(j, stage, mark) ==
    [journals EXCEPT ![j].stage = stage, ![j].mark = mark, ![j].version = @ + 1]

\* markRecoveryRequired reads the row again, and leaves a closed one alone.
Flagged(j) ==
    IF journals[j].stage \in Open THEN Staged(j, "recovery_required", journals[j].mark)
                                  ELSE journals

\* advance: a lost comparison is an error of the caller.
Advance(a, j, stage, mark, then, otherwise) ==
    IF journals[j].version = call[a].row
    THEN /\ journals' = Staged(j, stage, mark)
         /\ SetCall(a, [call[a] EXCEPT !.pc = then, !.row = @ + 1])
    ELSE /\ Goto(a, otherwise) /\ UNCHANGED journals

Writer(a)   == <<"write", a>>
Recovery(j) == <<"recovery", j>>

\* Who the call acts as: the attempt itself, or the recovery of an entry.
OwnerOf(a) == IF call[a].next \in {"replay", "duplicate"} THEN Recovery(call[a].entry)
                                                          ELSE Writer(a)

(***************************************************************************)
(* The start of write, and findAppliedReplay.                              *)
(***************************************************************************)

Start(a, t) ==
    /\ call[a].pc = "idle" /\ Cardinality(UnderWay) < AtOnce
    /\ SetCall(a, [NewCall EXCEPT !.pc = "open", !.text = t])
    /\ shown' = IF file = t THEN shown \cup {a} ELSE shown
    /\ UNCHANGED <<file, lease, journals, edits, applied, replaced>>

\* The project's identity holds; the text the write starts from is read
\* before any lease is asked for.
ReadBase(a) ==
    /\ call[a].pc = "open"
    /\ SetCall(a, [call[a] EXCEPT !.pc = "list", !.base = file])
    /\ UNCHANGED <<file, lease, journals, edits, history>>

ListRelated(a) ==
    /\ call[a].pc = "list"
    /\ SetCall(a, [call[a] EXCEPT
          !.pc = IF Related(a) = {} THEN "lease" ELSE "replay",
          !.related = Related(a),
          !.pending = {j \in Related(a) : journals[j].stage # "finalized"}])
    /\ UNCHANGED <<file, lease, journals, edits, history>>

\* Mutant: an entry is tried again until its recovery has closed it.
RecoverUntilClosed(a) ==
    /\ call[a].pc = "replay"
    /\ \E j \in call[a].pending :
         /\ \A k \in call[a].pending : j <= k
         /\ SetCall(a, [call[a] EXCEPT !.pc = "recover", !.back = "replay", !.entry = j,
               !.pending = {k \in @ : journals[k].stage # "finalized"}])
    /\ UNCHANGED <<file, lease, journals, edits, history>>

\* Each entry that was open when it was listed is recovered, oldest first.
RecoverNext(a) ==
    /\ call[a].pc = "replay"
    /\ \E j \in call[a].pending :
         /\ \A k \in call[a].pending : j <= k
         /\ SetCall(a, [call[a] EXCEPT !.pc = "recover", !.back = "replay", !.entry = j,
                                       !.pending = @ \ {j}])
    /\ UNCHANGED <<file, lease, journals, edits, history>>

\* Mutant: the document is not read before a finished entry answers.
ReplayUnread(a) ==
    /\ call[a].pc = "replay" /\ call[a].pending = {}
    /\ Goto(a, "replaying")
    /\ UNCHANGED <<file, lease, journals, edits, history>>

ReadForReplay(a) ==
    /\ call[a].pc = "replay" /\ call[a].pending = {}
    /\ Goto(a, IF file = call[a].text THEN "replaying" ELSE "lease")
    /\ UNCHANGED <<file, lease, journals, edits, history>>

\* The document holds the text: an entry that put it there answers the call.
Replay(a) ==
    /\ call[a].pc = "replaying"
    /\ LET done == {j \in call[a].related : /\ journals[j].stage = "finalized"
                                            /\ journals[j].new = call[a].text
                                            /\ journals[j].mark # "base"}
       IN  IF done = {} THEN Goto(a, "lease")
           ELSE \E j \in done : /\ \A k \in done : j <= k
                                /\ SetCall(a, [call[a] EXCEPT !.pc = "ok", !.entry = j])
    /\ UNCHANGED <<file, lease, journals, edits, history>>

(***************************************************************************)
(* recoverJournal, called for an entry read earlier.                       *)
(***************************************************************************)

\* A project that is no longer the run's flags the entry and ends the recovery.
RecoverElsewhere(a) ==
    /\ call[a].pc = "recover"
    /\ journals' = Flagged(call[a].entry)
    /\ Goto(a, call[a].back)
    /\ UNCHANGED <<file, lease, edits, history>>

RecoverLease(a) ==
    /\ call[a].pc = "recover"
    /\ LET o == Recovery(call[a].entry)
       IN  IF CanAcquire(o)
           THEN /\ lease' = Acquired(o)
                /\ SetCall(a, [call[a] EXCEPT !.pc = "inspect", !.next = call[a].back,
                                 !.token = Acquired(o).token,
                                 !.leaseVersion = Acquired(o).version])
           ELSE /\ Goto(a, call[a].back) /\ UNCHANGED lease
    /\ UNCHANGED <<file, journals, edits, history>>

Inspect(a) ==
    /\ call[a].pc = "inspect"
    /\ SetCall(a, [call[a] EXCEPT !.pc = "settle", !.actual = file])
    /\ UNCHANGED <<file, lease, journals, edits, history>>

\* What the document held decides; the row is read again, and its stage is not
\* looked at except to skip a step.  (The read and the update are statements of
\* one synchronous stretch and one step here.)
Settle(a) ==
    /\ call[a].pc = "settle"
    /\ LET j == call[a].entry
           Done(pc, row) == SetCall(a, [call[a] EXCEPT !.pc = pc, !.row = row])
       IN  IF call[a].actual = journals[j].new
           THEN IF journals[j].stage = "db_committed"
                THEN /\ Done("close", journals[j].version) /\ UNCHANGED journals
                ELSE /\ journals' = Staged(j, "db_committed", "new")
                     /\ Done("close", journals[j].version + 1)
           ELSE IF call[a].actual = journals[j].base
                THEN /\ journals' = Staged(j, "finalized", "base")
                     /\ Done("release", 0)
                ELSE /\ journals' = Flagged(j)
                     /\ Done("release", 0)
    /\ UNCHANGED <<file, lease, edits, history>>

Close(a) ==
    /\ call[a].pc = "close"
    /\ LET j == call[a].entry
       IN  Advance(a, j, "finalized", "new", "release", "abandon")
    /\ UNCHANGED <<file, lease, edits, history>>

\* An error of the recovery releases its lease and ends the write.
Abandon(a) ==
    /\ call[a].pc = "abandon"
    /\ lease' = Released(call[a], OwnerOf(a))
    /\ Goto(a, "failed")
    /\ UNCHANGED <<file, journals, edits, history>>

\* The lease goes back, whoever holds it for the call; then what follows.
Release(a) ==
    /\ call[a].pc = "release"
    /\ lease' = Released(call[a], OwnerOf(a))
    /\ SetCall(a, [call[a] EXCEPT !.pc = call[a].next, !.next = "failed", !.row = 0])
    /\ UNCHANGED <<file, journals, edits, history>>

(***************************************************************************)
(* The lease and the entry of the write.                                   *)
(***************************************************************************)

AcquireLease(a) ==
    /\ call[a].pc = "lease"
    /\ LET o == Writer(a)
       IN  IF CanAcquire(o)
           THEN /\ lease' = Acquired(o)
                /\ SetCall(a, [call[a] EXCEPT !.pc = "create", !.token = Acquired(o).token,
                                              !.leaseVersion = Acquired(o).version])
           ELSE /\ Goto(a, "failed") /\ UNCHANGED lease
    /\ UNCHANGED <<file, journals, edits, history>>

\* Mutant: the base and the new text are swapped.
CreateJournalSwapped(a) ==
    /\ call[a].pc = "create"
    /\ ~\E j \in Entries : journals[j].key = Key(a)
    /\ journals' = Append(journals,
          [run |-> RunOf[a], step |-> StepOf[a], key |-> Key(a), token |-> call[a].token,
           base |-> call[a].text, new |-> call[a].base, stage |-> "prepared",
           mark |-> "none", version |-> 1])
    /\ SetCall(a, [call[a] EXCEPT !.pc = "save", !.entry = Len(journals) + 1, !.row = 1])
    /\ UNCHANGED <<file, lease, edits, history>>

\* createCommitJournal answers with the entry that has the key, if there is one;
\* the lease then goes back, and an open entry is recovered first.
CreateJournal(a) ==
    /\ call[a].pc = "create"
    /\ ~\E j \in Entries : journals[j].key = Key(a)
    /\ journals' = Append(journals,
          [run |-> RunOf[a], step |-> StepOf[a], key |-> Key(a), token |-> call[a].token,
           base |-> call[a].base, new |-> call[a].text, stage |-> "prepared",
           mark |-> "none", version |-> 1])
    /\ SetCall(a, [call[a] EXCEPT !.pc = "save", !.entry = Len(journals) + 1, !.row = 1])
    /\ applied' = IF file = call[a].text THEN applied \cup {Len(journals) + 1} ELSE applied
    /\ UNCHANGED <<file, lease, edits, shown, replaced>>

FindDuplicate(a) ==
    /\ call[a].pc = "create"
    /\ \E j \in Entries :
         /\ journals[j].key = Key(a)
         /\ lease' = Released(call[a], Writer(a))
         /\ SetCall(a, [call[a] EXCEPT
               !.pc = IF journals[j].stage = "finalized" THEN "duplicate" ELSE "recover",
               !.entry = j, !.back = "duplicate"])
    /\ UNCHANGED <<file, journals, edits, history>>

\* The entry's row after its recovery: another step's or another text's is a
\* conflict of keys.
CheckDuplicate(a) ==
    /\ call[a].pc = "duplicate"
    /\ LET j == journals[call[a].entry]
       IN  SetCall(a, [call[a] EXCEPT
              !.pc = IF j.run = RunOf[a] /\ j.step = StepOf[a] /\ j.new = call[a].text
                     THEN "compare" ELSE "failed",
              !.unapplied = (j.mark = "base")])
    /\ UNCHANGED <<file, lease, journals, edits, history>>

\* Mutant: the entry is believed, and the document not read.
CompareEntry(a) ==
    /\ call[a].pc = "compare"
    /\ IF ~call[a].unapplied THEN Goto(a, "ok")
       ELSE IF call[a].scope # NoAttempt THEN Goto(a, "failed")
       ELSE SetCall(a, [NewCall EXCEPT !.pc = "open", !.text = call[a].text, !.scope = a])
    /\ UNCHANGED <<file, lease, journals, edits, history>>

\* The text is not there, or the entry says it never was: the write begins again
\* under a key of this attempt, unless it already has one.
Compare(a) ==
    /\ call[a].pc = "compare"
    /\ IF file = call[a].text /\ ~call[a].unapplied THEN Goto(a, "ok")
       ELSE IF call[a].scope # NoAttempt THEN Goto(a, "failed")
       ELSE SetCall(a, [NewCall EXCEPT !.pc = "open", !.text = call[a].text, !.scope = a])
    /\ UNCHANGED <<file, lease, journals, edits, history>>

(***************************************************************************)
(* saveDocument with the journal's stages, and the end of write.           *)
(***************************************************************************)

\* A document that holds the text already is not written.
ReadBeforeSave(a) ==
    /\ call[a].pc = "save"
    /\ Goto(a, IF file = call[a].text THEN "verify" ELSE "temp")
    /\ UNCHANGED <<file, lease, journals, edits, history>>

\* The old text is copied aside and the new one written to the temporary file,
\* each under a name of this entry's own.
TempWritten(a) ==
    /\ call[a].pc = "temp"
    /\ Advance(a, call[a].entry, "temp_written", journals[call[a].entry].mark, "check", "throw")
    /\ UNCHANGED <<file, lease, edits, history>>

\* assertLeaseStillOwned, before the project's identity is awaited.
CheckLease(a) ==
    /\ call[a].pc = "check"
    /\ Goto(a, IF Holds(call[a], Writer(a)) /\ lease.state = "held" THEN "replace" ELSE "throw")
    /\ UNCHANGED <<file, lease, journals, edits, history>>

Replace(a) ==
    /\ call[a].pc = "replace"
    /\ WriteFile(call[a].text)
    /\ replaced' = replaced \cup {a}
    /\ Goto(a, "replaced")
    /\ UNCHANGED <<lease, journals, edits>>

FileReplaced(a) ==
    /\ call[a].pc = "replaced"
    /\ Advance(a, call[a].entry, "file_replaced", journals[call[a].entry].mark, "verify", "throw")
    /\ UNCHANGED <<file, lease, edits, history>>

Verify(a) ==
    /\ call[a].pc = "verify"
    /\ Goto(a, IF file = call[a].text THEN "commit" ELSE "throw")
    /\ UNCHANGED <<file, lease, journals, edits, history>>

DbCommitted(a) ==
    /\ call[a].pc = "commit"
    /\ Advance(a, call[a].entry, "db_committed", journals[call[a].entry].mark, "finalize", "throw")
    /\ UNCHANGED <<file, lease, edits, history>>

Finalize(a) ==
    /\ call[a].pc = "finalize"
    /\ LET j == call[a].entry
       IN  IF journals[j].version = call[a].row
           THEN /\ journals' = Staged(j, "finalized", journals[j].mark)
                /\ SetCall(a, [call[a] EXCEPT !.pc = "release", !.next = "ok"])
           ELSE /\ Goto(a, "throw") /\ UNCHANGED journals
    /\ UNCHANGED <<file, lease, edits, history>>

\* Mutant: the lease is not given back.
ThrowHolding(a) ==
    /\ call[a].pc = "throw"
    /\ journals' = Flagged(call[a].entry)
    /\ Goto(a, "failed")
    /\ UNCHANGED <<file, lease, edits, history>>

\* The catch block: the entry is left to a recovery, and the lease goes back.
Throw(a) ==
    /\ call[a].pc = "throw"
    /\ journals' = Flagged(call[a].entry)
    /\ SetCall(a, [call[a] EXCEPT !.pc = "release", !.next = "failed"])
    /\ UNCHANGED <<file, lease, edits, history>>

\* What the code cannot exclude: a project that is not the run's any more, a
\* path that may not be written, an error of the file system.
OutsideTry == {"open", "recover", "replaying", "compare"}
InsideTry  == {"save", "temp", "replace", "verify"}

Error(a) ==
    /\ \/ call[a].pc \in OutsideTry /\ Goto(a, "failed")
       \/ call[a].pc \in InsideTry /\ Goto(a, "throw")
    /\ UNCHANGED <<file, lease, journals, edits, history>>

(***************************************************************************)
(* The environment.                                                        *)
(***************************************************************************)

Crash(a) ==
    /\ a \in UnderWay
    /\ SetCall(a, [NewCall EXCEPT !.pc = "crashed", !.text = call[a].text])
    /\ UNCHANGED <<file, lease, journals, edits, history>>

LeaseExpires ==
    /\ lease.state = "held"
    /\ lease' = [lease EXCEPT !.state = "expired"]
    /\ UNCHANGED <<file, journals, call, edits, history>>

EditorSaves(t) ==
    /\ edits < MaxEdits /\ t # file
    /\ edits' = edits + 1
    /\ WriteFile(t)
    /\ UNCHANGED <<lease, journals, call, replaced>>

\* What a write does by itself once it is called.
Step(a) ==
    \/ ReadBase(a) \/ ListRelated(a) \/ RecoverNext(a) \/ ReadForReplay(a) \/ Replay(a)
    \/ RecoverElsewhere(a) \/ RecoverLease(a) \/ Inspect(a) \/ Settle(a) \/ Close(a)
    \/ Abandon(a) \/ Release(a) \/ AcquireLease(a) \/ CreateJournal(a) \/ FindDuplicate(a)
    \/ CheckDuplicate(a) \/ Compare(a) \/ ReadBeforeSave(a) \/ TempWritten(a)
    \/ CheckLease(a) \/ Replace(a) \/ FileReplaced(a) \/ Verify(a) \/ DbCommitted(a)
    \/ Finalize(a) \/ Throw(a) \/ Error(a)

Next ==
    \/ \E a \in Attempts : Step(a) \/ Crash(a) \/ \E t \in Wanted : Start(a, t)
    \/ LeaseExpires
    \/ \E t \in Texts : EditorSaves(t)

\* Every file operation and every transaction of a write that has begun
\* finishes: node's event loop runs whatever was scheduled.
Fairness == \A a \in Attempts : WF_vars(Step(a))

Spec == Init /\ [][Next]_vars /\ Fairness

-----------------------------------------------------------------------------
(***************************************************************************)
(* Properties.                                                             *)
(***************************************************************************)

Owners == {NoLease.owner} \cup {Writer(a) : a \in Attempts} \cup {Recovery(j) : j \in Entries}

\* The shape of the state.
TypeOK ==
    /\ file \in Texts
    /\ lease.owner \in Owners /\ lease.token \in Nat /\ lease.version \in Nat
    /\ lease.state \in {"absent", "held", "expired", "released"}
    /\ \A j \in Entries : /\ journals[j].stage \in Stages
                          /\ journals[j].mark \in {"none", "new", "base"}
                          /\ journals[j].new \in Texts /\ journals[j].base \in Texts
                          /\ journals[j].version \in Nat \ {0}
    /\ \A a \in Attempts : /\ call[a].text \in Texts /\ call[a].entry \in Entries \cup {0}
                           /\ call[a].related \subseteq Entries
                           /\ call[a].pending \subseteq call[a].related
    /\ edits \in 0..MaxEdits

\* An entry closed as written has been on disk: whoever closed it, the writer
\* itself or a recovery that judged by a text it read earlier, the document has
\* held the new text at some moment since the entry exists.
FinalizedWasWritten ==
    \A j \in Entries : journals[j].stage = "finalized" /\ journals[j].mark # "base"
                          => j \in applied

\* A write that answers names an entry of its run that holds the text it was
\* asked to write and that has been on disk: what the run records as the
\* product of its step is there, even when another attempt wrote it.
AnswerIsJournaled ==
    \A a \in Attempts : call[a].pc = "ok" =>
        LET j == call[a].entry
        IN  /\ journals[j].new = call[a].text /\ journals[j].run = RunOf[a]
            /\ j \in applied

\* Intent before effect: a text on disk that neither was there first nor came
\* from the editor is the new text of an entry.
DocumentIsJournaled ==
    file = Original \/ edits > 0 \/ \E j \in Entries : journals[j].new = file

\* An entry is left open only by a crash: as long as no call crashed, an entry
\* between its creation and its end belongs to a call that is at work on it.
AtWork(j) == \E a \in UnderWay : call[a].entry = j

OnlyCrashLeavesOpen ==
    (\A a \in Attempts : call[a].pc # "crashed") =>
        \A j \in Entries : journals[j].stage \in Open => AtWork(j)

\* The same of the lease: a call that ended by itself holds it no more.
OnlyCrashKeepsLease ==
    (\A a \in Attempts : call[a].pc # "crashed") /\ lease.state = "held" =>
        UnderWay # {}

\* Nothing is left behind but by a crash: the catch and finally blocks of write
\* and of recoverJournal flag the entry and give the lease back on every path.
OnlyCrashLeavesBehind == OnlyCrashLeavesOpen /\ OnlyCrashKeepsLease

\* A lease changes hands only with a larger fencing token, and a token never
\* comes back: what a writer compares before it renames identifies its tenure.
LeaseChangesToken ==
    [][/\ lease'.token >= lease.token
       /\ lease'.owner # lease.owner => lease'.token > lease.token]_vars

\* The document as its reader sees it.
PhaseOf(pc) == IF pc \in {"idle", "ok"} THEN pc
               ELSE IF pc \in {"failed", "crashed"} THEN "failed" ELSE "running"

Phases == [a \in Attempts |-> PhaseOf(call[a].pc)]
Wishes == [a \in Attempts |-> call[a].text]

Writes == INSTANCE DocumentWrites WITH
    doc <- file, phase <- Phases, wanted <- Wishes, put <- replaced

\* The journal, its leases and its recoveries keep the promise of DocumentWrites.
ImplementsWrites == Writes!Spec

\* Every write that begins is answered, refused, or dies with its process.
EveryWriteEnds ==
    \A a \in Attempts : call[a].pc # "idle" ~> call[a].pc \in Ended

-----------------------------------------------------------------------------
(***************************************************************************)
(* The inductive invariant of the proofs: the shape of the memory and of   *)
(* the rows, and what each call knows, by its place in the code, of the    *)
(* entry it works for, of the document and of what the histories hold.     *)
(***************************************************************************)

PCs == Ended \cup {"idle", "open", "list", "replay", "replaying", "recover", "inspect", "settle",
                   "close", "abandon", "release", "lease", "create", "duplicate", "compare",
                   "save", "temp", "check", "replace", "replaced", "verify", "commit",
                   "finalize", "throw"}

Scopes == Attempts \cup {NoAttempt}

Memory ==
    [pc : PCs, next : {"replay", "duplicate", "ok", "failed"}, back : {"replay", "duplicate"},
     text : Texts, scope : Scopes, base : Texts, actual : Texts, related : SUBSET Nat,
     pending : SUBSET Nat, entry : Nat, row : Nat, token : Nat, leaseVersion : Nat,
     unapplied : BOOLEAN]

Row == [run : {RunOf[a] : a \in Attempts}, step : {StepOf[a] : a \in Attempts},
        key : {KeyOf[a] : a \in Attempts} \X Scopes, token : Nat, base : Texts, new : Texts,
        stage : Stages, mark : {"none", "new", "base"}, version : Nat \ {0}]

LeaseRows == [owner : {NoLease.owner} \cup ({"write"} \X Attempts) \cup ({"recovery"} \X Nat),
              token : Nat, version : Nat, state : {"absent", "held", "expired", "released"}]

Shape ==
    /\ file \in Texts /\ lease \in LeaseRows /\ journals \in Seq(Row)
    /\ call \in [Attempts -> Memory]
    /\ edits \in Nat /\ shown \subseteq Attempts /\ replaced \subseteq Attempts

\* The entry holds what the call was asked to write, for the call's run.
OwnEntry(a) ==
    /\ call[a].entry \in Entries
    /\ journals[call[a].entry].new = call[a].text
    /\ journals[call[a].entry].run = RunOf[a]

Knows(a) == call[a].entry \in applied /\ a \in shown

WithEntry  == {"recover", "inspect", "settle", "close", "abandon", "release", "duplicate"}
WithOwn    == {"compare", "save", "temp", "check", "replace", "replaced", "verify", "commit",
               "finalize", "throw", "ok"}
InRecovery == {"inspect", "settle", "close"}
AfterWrite == {"replaced", "verify", "commit", "finalize", "throw", "ok", "failed", "crashed"}

EntryInv(a) ==
    /\ call[a].entry \in Entries \cup {0}
    /\ call[a].related \subseteq Entries /\ call[a].pending \subseteq call[a].related
    /\ \A j \in call[a].related : journals[j].run = RunOf[a]
    /\ call[a].pc \in WithEntry => call[a].entry \in Entries
    /\ call[a].pc \in InRecovery => call[a].next \in {"replay", "duplicate"}
    /\ call[a].pc \in WithOwn => OwnEntry(a)
    /\ call[a].pc = "release" /\ call[a].next = "ok" => OwnEntry(a)

KnowledgeInv(a) ==
    /\ call[a].pc \in {"commit", "finalize", "ok"} => Knows(a)
    /\ call[a].pc = "release" /\ call[a].next = "ok" => Knows(a)
    /\ call[a].pc = "settle" /\ call[a].actual = journals[call[a].entry].new
         => call[a].entry \in applied
    /\ call[a].pc = "close" => call[a].entry \in applied
    /\ call[a].pc = "replaying" => a \in shown
    /\ a \in UnderWay /\ file = call[a].text => a \in shown

\* A call that has renamed never comes back to its beginning.
OnceInv(a) ==
    a \in replaced => \/ call[a].pc \in AfterWrite
                      \/ call[a].pc = "release" /\ call[a].next \in {"ok", "failed"}

CallInv(a) == EntryInv(a) /\ KnowledgeInv(a) /\ OnceInv(a)

\* The history of an entry is kept up with the document.
AppliedIsKept == \A j \in Entries : journals[j].new = file => j \in applied

JInv ==
    /\ Shape
    /\ AppliedIsKept /\ FinalizedWasWritten /\ DocumentIsJournaled
    /\ \A a \in Attempts : CallInv(a)

=============================================================================
