--------------------------- MODULE NovelTransfers ---------------------------
(***************************************************************************)
(* A transfer of settings from one novel project to another, as            *)
(* NovelAgentControlService carries it out                                 *)
(* (apps/desktop-shell/src/main/novel-agent-control-service.ts): a plan is *)
(* made, the reading of the source is confirmed, and a commit copies the   *)
(* target files aside, claims the plan, replaces the files one by one and  *)
(* declares the plan committed.  A commit that throws puts the copies      *)
(* back; so does the next snapshot of the target project when the          *)
(* application went down in between.                                       *)
(*                                                                         *)
(* Plans share nothing but the state file, so there is one plan here.      *)
(* Mutations of the state queue behind a barrier; the recovery a snapshot  *)
(* runs changes and writes the same state without queueing.                *)
(***************************************************************************)
EXTENDS Naturals, Sequences

CONSTANTS
    Files,        \* the target files of the plan, a sequence
    Existing,     \* those that exist before: the others are created
    Calls,        \* calls of commitTransfer
    MaxLaunches,  \* bound: launches of the application
    MaxEdits,     \* bound: edits the author makes to the target files
    MayOverlap    \* whether a snapshot is taken while a commit is at work

Names == {Files[i] : i \in DOMAIN Files}
None  == "none"
User  == "user"
Snap  == "snapshot"

ASSUME TransfersAssumption ==
    /\ Files \in Seq(Names) /\ Existing \subseteq Names
    /\ User \notin Calls /\ Snap \notin Calls /\ None \notin Calls
    /\ \A i, j \in DOMAIN Files : Files[i] = Files[j] => i = j
    /\ MaxLaunches \in Nat /\ MaxEdits \in Nat /\ MayOverlap \in BOOLEAN

VARIABLES
    mem,       \* the plan in the state object: its status, whether a recovery
               \* is listed for it, whether its source confirmation is there
    disk,      \* the same in the state file
    barrier,   \* who holds the write barrier
    saving,    \* the writing of the state file each actor awaits
    target,    \* the content of each target file
    journal,   \* the copies in the plan's transfer-journals directory
    call,      \* each commitTransfer, and the snapshot
    edits,
    launches

vars == <<mem, disk, barrier, saving, target, journal, call, edits, launches>>

Actors  == Calls \cup {User, Snap}
Workers == Calls \cup {Snap}
NoPlan  == [status |-> None, recovery |-> FALSE, confirmed |-> FALSE]
NoSave  == [pc |-> None, body |-> NoPlan]
NoDir   == [dir |-> FALSE, copy |-> [f \in Names |-> None]]

Before == [f \in Names |-> IF f \in Existing THEN "old" ELSE None]
Idle   == [pc |-> "idle", at |-> 1]
Up     == launches.up
N      == Len(Files)

Init ==
    /\ mem = NoPlan /\ disk = NoPlan
    /\ barrier = None
    /\ saving = [a \in Actors |-> NoSave]
    /\ target = Before
    /\ journal = NoDir
    /\ call = [w \in Workers |-> Idle]
    /\ edits = 0
    /\ launches = [count |-> 1, up |-> TRUE]

(***************************************************************************)
(* mutate and writeState: the object changes, is serialized a moment later,*)
(* and a file of that content replaces the state file.                     *)
(***************************************************************************)

Saved(a)     == saving[a].pc = None
Change(a, m) == mem' = m /\ saving' = [saving EXCEPT ![a].pc = "changed"]
Mutate(a, m) == barrier = None /\ barrier' = a /\ Change(a, m)

Serialize(a) ==
    /\ saving[a].pc = "changed"
    /\ saving' = [saving EXCEPT ![a] = [pc |-> "serialized", body |-> mem]]
    /\ UNCHANGED <<mem, disk, barrier, target, journal, call, edits, launches>>

Land(a) ==
    /\ saving[a].pc = "serialized"
    /\ disk' = saving[a].body
    /\ saving' = [saving EXCEPT ![a] = NoSave]
    /\ barrier' = IF barrier = a THEN None ELSE barrier
    /\ UNCHANGED <<mem, target, journal, call, edits, launches>>

(***************************************************************************)
(* createTransferPlan and confirmTransferSource.                           *)
(***************************************************************************)

CreatePlan ==
    /\ Up /\ mem.status = None /\ Saved(User)
    /\ Mutate(User, [mem EXCEPT !.status = "awaiting_confirmation"])
    /\ UNCHANGED <<disk, target, journal, call, edits, launches>>

ConfirmSource ==
    /\ Up /\ mem.status = "awaiting_confirmation" /\ Saved(User)
    /\ Mutate(User, [mem EXCEPT !.status = "approved", !.confirmed = TRUE])
    /\ UNCHANGED <<disk, target, journal, call, edits, launches>>

(***************************************************************************)
(* commitTransfer.                                                         *)
(***************************************************************************)

At(w, pc)     == Up /\ call[w].pc = pc /\ Saved(w)
Go(w, pc)     == call' = [call EXCEPT ![w] = [pc |-> pc, at |-> 1]]
Step(w)       == call' = [call EXCEPT ![w].at = @ + 1]
File(w)       == Files[call[w].at]
More(w)       == call[w].at <= N
Quiet         == UNCHANGED <<mem, barrier, saving>>

\* The plan and its confirmation are read from the object; either may have expired.
Check(c) ==
    /\ At(c, "idle") /\ mem.status # None
    /\ \/ mem.status = "approved" /\ mem.confirmed /\ Go(c, "prepare")
       \/ Go(c, "refused")
    /\ Quiet /\ UNCHANGED <<disk, target, journal, edits, launches>>

\* Source and target are read and compared with the revisions of the plan; the
\* source may have changed, the target must be what it was.
Prepare(c) ==
    /\ At(c, "prepare")
    /\ \/ target = Before /\ Go(c, "mkdir")
       \/ Go(c, "refused")
    /\ Quiet /\ UNCHANGED <<disk, target, journal, edits, launches>>

Mkdir(c) ==
    /\ At(c, "mkdir")
    /\ journal' = [journal EXCEPT !.dir = TRUE]
    /\ Go(c, "backup")
    /\ Quiet /\ UNCHANGED <<disk, target, edits, launches>>

\* The copy of a file that exists is opened and thereby emptied, whoever wrote it
\* before: every call of the plan writes the same copies.  The directory may have
\* gone meanwhile.  A file that is to be created has no copy.
OpenCopy(c) ==
    /\ At(c, "backup")
    /\ IF ~More(c) THEN Go(c, "claim") /\ UNCHANGED journal
       ELSE IF File(c) \notin Existing THEN Step(c) /\ UNCHANGED journal
       ELSE IF ~journal.dir THEN Go(c, "refused") /\ UNCHANGED journal
       ELSE /\ call' = [call EXCEPT ![c].pc = "copy"]
            /\ journal' = [journal EXCEPT !.copy[File(c)] = "empty"]
    /\ Quiet /\ UNCHANGED <<disk, target, edits, launches>>

\* Mutant: an error of the writing is not noticed.
WriteCopyAnyway(c) ==
    /\ At(c, "copy") /\ More(c)
    /\ call' = [call EXCEPT ![c] = [pc |-> "backup", at |-> @.at + 1]]
    /\ \/ journal' = [journal EXCEPT !.copy[File(c)] = IF @ = None THEN None ELSE "old"]
       \/ UNCHANGED journal
    /\ Quiet /\ UNCHANGED <<disk, target, edits, launches>>

\* The text is written to the open copy, if that has not been removed since; or
\* the writing throws, and the copy is left as it is.
WriteCopy(c) ==
    /\ At(c, "copy") /\ More(c)
    /\ \/ /\ journal' = [journal EXCEPT !.copy[File(c)] = IF @ = None THEN None ELSE "old"]
          /\ call' = [call EXCEPT ![c] = [pc |-> "backup", at |-> @.at + 1]]
       \/ /\ call' = [call EXCEPT ![c].pc = "broken"]
          /\ UNCHANGED journal
    /\ Quiet /\ UNCHANGED <<disk, target, edits, launches>>

\* A call of the plan has opened this copy, and not (or not yet) written it.
Reopened(f) == \E c \in Calls : call[c].pc \in {"copy", "broken"} /\ File(c) = f

\* Mutant: the plan's status is not looked at again.
ClaimAgain(c) ==
    /\ At(c, "claim")
    /\ Mutate(c, [status |-> "committing", recovery |-> TRUE, confirmed |-> FALSE])
    /\ Go(c, "write")
    /\ UNCHANGED <<disk, target, journal, edits, launches>>

Claim(c) ==
    /\ At(c, "claim") /\ barrier = None
    /\ IF mem.status = "approved"
       THEN /\ Mutate(c, [status |-> "committing", recovery |-> TRUE, confirmed |-> FALSE])
            /\ Go(c, "write")
       ELSE Go(c, "refused") /\ Quiet
    /\ UNCHANGED <<disk, target, journal, edits, launches>>

\* Mutant: the last file is not written.
WriteFileShort(c) ==
    /\ At(c, "write")
    /\ \/ call[c].at < N /\ target' = [target EXCEPT ![File(c)] = "new"] /\ Step(c)
       \/ call[c].at >= N /\ Go(c, "clear") /\ UNCHANGED target
    /\ Quiet /\ UNCHANGED <<disk, journal, edits, launches>>

\* Mutant: an error of a file leaves the commit.
WriteFileLeaves(c) ==
    /\ At(c, "write")
    /\ \/ More(c) /\ target' = [target EXCEPT ![File(c)] = "new"] /\ Step(c)
       \/ ~More(c) /\ Go(c, "clear") /\ UNCHANGED target
       \/ More(c) /\ Go(c, "threw") /\ UNCHANGED target
    /\ Quiet /\ UNCHANGED <<disk, journal, edits, launches>>

\* One file is replaced as a whole; if that throws the copies are put back.
WriteFile(c) ==
    /\ At(c, "write")
    /\ \/ More(c) /\ target' = [target EXCEPT ![File(c)] = "new"] /\ Step(c)
       \/ ~More(c) /\ Go(c, "clear") /\ UNCHANGED target
       \/ More(c) /\ Go(c, "restore") /\ UNCHANGED target
    /\ Quiet /\ UNCHANGED <<disk, journal, edits, launches>>

ClearJournal(c) ==
    /\ At(c, "clear")
    /\ journal' = NoDir
    /\ Go(c, "finish")
    /\ Quiet /\ UNCHANGED <<disk, target, edits, launches>>

Settle(c, pc, status, next) ==
    /\ At(c, pc)
    /\ Mutate(c, [mem EXCEPT !.status = status, !.recovery = FALSE])
    /\ Go(c, next)
    /\ UNCHANGED <<disk, target, journal, edits, launches>>

Finish(c) == Settle(c, "finish", "committed", "committed")
Fail(c)   == Settle(c, "fail", "failed", "threw")

\* The caller has its answer when the last writing of the state is through.
Answered(c) == call[c].pc = "committed" /\ Saved(c)

(***************************************************************************)
(* restoreTransferRecovery, of a commit or of a snapshot: from the last    *)
(* file to the first, the copy is put back or the created file removed.    *)
(***************************************************************************)

\* Mutant: only the files that have a copy are restored.
RestoreCopies(w) ==
    /\ At(w, "restore")
    /\ LET f == Files[N + 1 - call[w].at]
       IN  \/ ~More(w) /\ Go(w, "drop") /\ UNCHANGED target
           \/ /\ More(w) /\ Step(w)
              /\ target' = IF journal.copy[f] = None THEN target
                           ELSE [target EXCEPT ![f] = journal.copy[f]]
    /\ Quiet /\ UNCHANGED <<disk, journal, edits, launches>>

Restore(w) ==
    /\ At(w, "restore")
    /\ LET f == Files[N + 1 - call[w].at]
       IN  \/ ~More(w) /\ Go(w, "drop") /\ UNCHANGED target
           \/ /\ More(w) /\ f \notin Existing
              /\ target' = [target EXCEPT ![f] = None] /\ Step(w)
           \/ /\ More(w) /\ f \in Existing /\ journal.copy[f] # None
              /\ target' = [target EXCEPT ![f] = journal.copy[f]] /\ Step(w)
           \/ /\ More(w) /\ f \in Existing /\ journal.copy[f] = None
              /\ Go(w, "threw") /\ UNCHANGED target
    /\ Quiet /\ UNCHANGED <<disk, journal, edits, launches>>

DropJournal(w) ==
    /\ At(w, "drop")
    /\ journal' = NoDir
    /\ Go(w, "fail")
    /\ Quiet /\ UNCHANGED <<disk, target, edits, launches>>

(***************************************************************************)
(* snapshot and recoverProjectTransfers.                                   *)
(***************************************************************************)

Claimed(c) == call[c].pc \in {"write", "clear", "finish", "restore", "drop", "fail"}

\* The recoveries are those of the state as it is; with none there is nothing to do.
Snapshot ==
    /\ At(Snap, "idle") \/ At(Snap, "threw")
    /\ mem.recovery
    /\ MayOverlap \/ \A c \in Calls : ~Claimed(c) /\ Saved(c)
    /\ Go(Snap, "restore")
    /\ Quiet /\ UNCHANGED <<disk, target, journal, edits, launches>>

\* No barrier: the status is changed and the file written beside any mutation.
Recovered ==
    /\ At(Snap, "fail")
    /\ Change(Snap, [mem EXCEPT !.status = IF @ = "committing" THEN "failed" ELSE @,
                                !.recovery = FALSE])
    /\ Go(Snap, "idle")
    /\ UNCHANGED <<disk, barrier, target, journal, edits, launches>>

(***************************************************************************)
(* The author and the application.                                         *)
(***************************************************************************)

Edit(f) ==
    /\ edits < MaxEdits
    /\ edits' = edits + 1
    /\ target' = [target EXCEPT ![f] = "edited"]
    /\ UNCHANGED <<mem, disk, barrier, saving, journal, call, launches>>

Crash ==
    /\ Up
    /\ launches' = [launches EXCEPT !.up = FALSE]
    /\ mem' = disk /\ barrier' = None /\ saving' = [a \in Actors |-> NoSave]
    /\ call' = [w \in Workers |-> IF w = Snap THEN Idle
                                  ELSE IF call[w].pc = "idle" \/ Answered(w) THEN call[w]
                                  ELSE [Idle EXCEPT !.pc = "lost"]]
    /\ UNCHANGED <<disk, target, journal, edits>>

\* loadState forgets a confirmation that has expired.
Launch ==
    /\ ~Up /\ launches.count < MaxLaunches
    /\ launches' = [count |-> launches.count + 1, up |-> TRUE]
    /\ mem' = disk \/ mem' = [disk EXCEPT !.confirmed = FALSE]
    /\ UNCHANGED <<disk, barrier, saving, target, journal, call, edits>>

CommitTransfer(c) ==
    \/ Prepare(c) \/ Mkdir(c) \/ OpenCopy(c) \/ WriteCopy(c) \/ Claim(c) \/ WriteFile(c)
    \/ ClearJournal(c) \/ Finish(c) \/ Fail(c)

WriteState(a) == Serialize(a) \/ Land(a)

Next ==
    \/ CreatePlan \/ ConfirmSource \/ Snapshot \/ Recovered \/ Crash \/ Launch
    \/ \E c \in Calls : Check(c) \/ CommitTransfer(c)
    \/ \E w \in Workers : Restore(w) \/ DropJournal(w)
    \/ \E a \in Actors : WriteState(a)
    \/ \E f \in Names : Edit(f)

\* While the application is up its continuations run and its files are written.
Fairness ==
    /\ \A c \in Calls : SF_vars(CommitTransfer(c))
    /\ \A w \in Workers : WF_vars(Restore(w) \/ DropJournal(w))
    /\ \A a \in Actors : WF_vars(WriteState(a))
    /\ WF_vars(Recovered)

Spec == Init /\ [][Next]_vars /\ Fairness

-----------------------------------------------------------------------------
(***************************************************************************)
(* Properties.                                                             *)
(***************************************************************************)

PlanStates == [status : {None, "awaiting_confirmation", "approved", "committing", "committed", "failed"},
               recovery : BOOLEAN, confirmed : BOOLEAN]
Contents   == {None, "old", "new", "edited", "empty"}

\* The shape of the state.
TypeOK ==
    /\ mem \in PlanStates /\ disk \in PlanStates
    /\ barrier \in Actors \cup {None}
    /\ \A a \in Actors : saving[a].pc \in {None, "changed", "serialized"} /\ saving[a].body \in PlanStates
    /\ target \in [Names -> Contents]
    /\ journal \in [dir : BOOLEAN, copy : [Names -> {None, "old", "empty"}]]
    /\ \A w \in Workers : call[w].at \in 1..(N + 1)
    /\ edits \in 0..MaxEdits
    /\ launches \in [count : 1..(MaxLaunches + 1), up : BOOLEAN]

Working(w) == call[w].pc \in {"write", "clear", "finish", "restore", "drop", "fail"} \/ ~Saved(w)
AtRest     == \A w \in Workers : ~Working(w)

\* Two commits of one plan race through their reads and their copies, but only
\* one of them gets to write.
ClaimedOnce == \A c, d \in Calls : Claimed(c) /\ Claimed(d) => c = d

\* Whole, or else a call of the plan has just emptied it.
Copied(f) == journal.copy[f] = "old" \/ (journal.copy[f] = "empty" /\ Reopened(f))

\* While the plan is being written, the state file lists its recovery and every
\* file already replaced has a copy in the journal.  The copy is whole, with one
\* exception: another call of the same plan, which read the plan before it was
\* claimed, has opened the copy again and is still writing it, or failed to.  A
\* crash in that case, and the recovery after it, leave the file empty.
ReplacedHasCopy ==
    (\E c \in Calls : call[c].pc = "write" /\ Saved(c)) =>
        /\ disk.recovery
        /\ \A f \in Existing : target[f] = "new" => Copied(f)

\* Once a plan has failed none of its texts is left in the target, whoever put
\* the copies back and however often the application crashed meanwhile.  (A copy
\* that another call had emptied is put back as it is.)
FailedIsOld == disk.status = "failed" /\ AtRest => \A f \in Names : target[f] # "new"

\* A commit that has answered has written every file, and the state file says so.
AnswerIsDurable ==
    (\E c \in Calls : Answered(c)) =>
        disk.status = "committed" /\ \A f \in Names : target[f] \in {"new", "edited"}

\* A commit that has claimed the plan settles it, unless the application goes down.
ClaimSettles ==
    \A c \in Calls : (Up /\ Claimed(c)) ~> (~Up \/ mem.status \in {"committed", "failed"})

\* What the plan of the feature promises: after a crash at any point only the
\* complete old state or the complete new state is left, once a snapshot has
\* been taken.  It fails: the journal is removed before the state file says that
\* the plan is committed, and a recovery without its copies removes the created
\* files and then throws.
OldOrNew ==
    edits = 0 /\ AtRest /\ call[Snap].pc # "restore" /\ mem.status \in {"committing", "committed", "failed"}
    /\ (call[Snap].pc = "threw" \/ mem.status # "committing")
        => (\A f \in Names : target[f] = "new") \/ target = Before

=============================================================================
