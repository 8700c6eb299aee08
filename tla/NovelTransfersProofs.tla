------------------------ MODULE NovelTransfersProofs ------------------------
(***************************************************************************)
(* The invariant of NovelTransfers, for any files, any number of commits,  *)
(* of launches and of edits, and what follows from it.  That one commit    *)
(* claims the plan holds whatever else happens; the rest needs that no     *)
(* snapshot is taken while a commit is at work (MayOverlap), as in the run.*)
(***************************************************************************)
EXTENDS NovelTransfers, TLAPS

-----------------------------------------------------------------------------
(* The inductive invariant.                                                *)

PCs == {"idle", "prepare", "mkdir", "backup", "copy", "broken", "claim", "write", "clear", "finish",
        "committed", "restore", "drop", "fail", "threw", "refused", "lost"}

Saving == [pc : {None, "changed", "serialized"}, body : PlanStates]
Place  == [pc : PCs, at : 1..(N + 1)]

Shape ==
    /\ mem \in PlanStates /\ disk \in PlanStates
    /\ barrier \in Actors \cup {None}
    /\ saving \in [Actors -> Saving]
    /\ target \in [Names -> Contents]
    /\ journal \in [dir : BOOLEAN, copy : [Names -> {None, "old", "empty"}]]
    /\ call \in [Workers -> Place]
    /\ edits \in 0..MaxEdits
    /\ launches \in [count : 1..(MaxLaunches + 1), up : BOOLEAN]

\* A plan that nobody has claimed yet.
Early == {None, "awaiting_confirmation", "approved"}

NoneNew   == \A f \in Names : target[f] # "new"
AllNew    == \A f \in Names : target[f] \in {"new", "edited"}
AllCopied == \A f \in Existing : Copied(f)

\* The status, in the object and in the file, and the files of the target.
PlanInv ==
    /\ mem.recovery <=> mem.status = "committing"
    /\ disk.recovery <=> disk.status = "committing"
    /\ mem.status \in Early => disk.status \in Early
    /\ disk.status \in {"failed", "committed"} => mem.status = disk.status
    /\ disk.status \in Early => NoneNew
    /\ mem.status = "failed" => NoneNew
    /\ mem.status = "committed" => AllNew

\* What is being written is the state as it is.
SaveInv ==
    /\ \A a \in Actors : saving[a].pc = "serialized" => saving[a].body = mem
    /\ \A a \in Actors \ {Snap} : ~Saved(a) => barrier = a
    /\ ~Saved(User) => mem.status \in {"awaiting_confirmation", "approved"}
    /\ ~Saved(Snap) => mem.status = "failed"

\* Where a commit is, and what it has copied and written so far.
PlaceInv(c) ==
    /\ Claimed(c) => Up /\ mem.status = "committing" /\ (Saved(c) => disk.status = "committing")
    /\ call[c].pc = "committed" =>
         mem.status = "committed" /\ (Saved(c) => disk.status = "committed")
    /\ call[c].pc \in {"prepare", "mkdir", "backup", "copy", "claim"} =>
         mem.status \notin {None, "awaiting_confirmation"}

FilesInv(c) ==
    /\ call[c].pc \in {"backup", "copy"} /\ mem.status = "approved" =>
         \A i \in 1..N : i < call[c].at /\ Files[i] \in Existing => Copied(Files[i])
    /\ call[c].pc = "copy" /\ mem.status = "approved" =>
         File(c) \in Existing /\ journal.copy[File(c)] # None
    /\ call[c].pc = "claim" /\ mem.status = "approved" => AllCopied
    /\ call[c].pc = "write" =>
         AllCopied /\ \A i \in 1..N : i < call[c].at => target[Files[i]] \in {"new", "edited"}
    /\ call[c].pc \in {"clear", "finish"} => AllNew

\* How far the copies have been put back.
RestoreInv(w) ==
    /\ call[w].pc = "restore" =>
         \A i \in 1..N : i + call[w].at > N + 1 => target[Files[i]] # "new"
    /\ call[w].pc \in {"drop", "fail"} => NoneNew

\* The snapshot restores nothing while a commit is at work.
SnapInv ==
    call[Snap].pc \in {"restore", "drop", "fail"} =>
        Up /\ mem.status = "committing" /\ \A c \in Calls : ~Claimed(c) /\ Saved(c)

\* The snapshot only puts back.
SnapPlace == call[Snap].pc \in {"idle", "restore", "drop", "fail", "threw"}

\* When the application is down nothing is under way.
DownInv ==
    ~Up => /\ \A a \in Actors : Saved(a)
           /\ \A c \in Calls : call[c].pc \in {"idle", "committed", "lost"}

TransferInv ==
    /\ Shape /\ PlanInv /\ SaveInv /\ ClaimedOnce /\ SnapInv /\ SnapPlace /\ DownInv
    /\ \A c \in Calls : PlaceInv(c) /\ FilesInv(c)
    /\ \A w \in Workers : RestoreInv(w)

-----------------------------------------------------------------------------
(* The shape of the state.                                                 *)

LEMMA FilesAre ==
    /\ N \in Nat /\ DOMAIN Files = 1..N
    /\ \A i \in 1..N : Files[i] \in Names
    /\ \A f \in Names : \E i \in 1..N : f = Files[i]
    /\ Existing \subseteq Names
    /\ User # Snap /\ User \notin Workers /\ Snap \notin Calls /\ None \notin Actors
    /\ Calls \subseteq Workers /\ Workers \subseteq Actors /\ User \in Actors
<1>1. Files \in Seq(Names) /\ Existing \subseteq Names
  BY TransfersAssumption
<1>2. N \in Nat /\ DOMAIN Files = 1..N
  BY <1>1 DEF N
<1>3. User # Snap /\ User # None /\ Snap # None
  BY DEF User, Snap, None
<1> QED BY <1>1, <1>2, <1>3, TransfersAssumption DEF Names, Workers, Actors

\* The other workers stay where they are.
Alone(w) == \A v \in Workers \ {w} : call'[v] = call[v]

LEMMA GoIs ==
    ASSUME Shape, NEW w \in Workers, NEW pc \in PCs, Go(w, pc)
    PROVE  /\ call' \in [Workers -> Place] /\ Alone(w)
           /\ call'[w].pc = pc /\ call'[w].at = 1
<1>1. [pc |-> pc, at |-> 1] \in Place
  <2>1. 1 \in 1..(N + 1)
    BY FilesAre
  <2> QED BY <2>1 DEF Place
<1> QED BY <1>1 DEF Go, Shape, Alone

LEMMA StepIs ==
    ASSUME Shape, NEW w \in Workers, More(w), Step(w)
    PROVE  /\ call' \in [Workers -> Place] /\ Alone(w)
           /\ call'[w].pc = call[w].pc /\ call'[w].at = call[w].at + 1
           /\ call[w].at \in 1..N /\ File(w) \in Names
<1>1. call[w] \in Place
  BY DEF Shape
<1>2. call[w].at \in 1..N /\ call[w].at + 1 \in 1..(N + 1)
  BY <1>1, FilesAre DEF Place, More
<1>3. PICK at \in 1..(N + 1) : at = call[w].at + 1
  BY <1>2
<1>4. [call[w] EXCEPT !.at = at] \in Place
  BY <1>1 DEF Place
<1>5. call' = [call EXCEPT ![w] = [call[w] EXCEPT !.at = at]]
  BY <1>1, <1>3 DEF Step, Shape
<1>6. /\ call' \in [Workers -> Place] /\ Alone(w) /\ call'[w] = [call[w] EXCEPT !.at = at]
  BY <1>4, <1>5 DEF Shape, Alone
<1> QED BY <1>1, <1>2, <1>3, <1>6, FilesAre DEF Place, File

\* The place of a worker in the plan's files, counted from the last.
LEMMA BackwardIs ==
    ASSUME Shape, NEW w \in Workers, More(w)
    PROVE  /\ N + 1 - call[w].at \in 1..N /\ Files[N + 1 - call[w].at] \in Names
           /\ call[w].at \in 1..N
<1>1. call[w].at \in 1..(N + 1)
  BY DEF Shape, Place
<1>2. N + 1 - call[w].at \in 1..N /\ call[w].at \in 1..N
  BY <1>1, FilesAre DEF More
<1> QED BY <1>2, FilesAre

\* The state object changes and will be written.
LEMMA ChangeIs ==
    ASSUME Shape, NEW a \in Actors, NEW m \in PlanStates, Change(a, m)
    PROVE  /\ mem' = m /\ saving' \in [Actors -> Saving]
           /\ saving'[a].pc = "changed" /\ \A b \in Actors \ {a} : saving'[b] = saving[b]
<1>1. saving[a] \in Saving
  BY DEF Shape
<1>2. [saving[a] EXCEPT !.pc = "changed"] \in Saving
  BY <1>1 DEF Saving
<1>3. saving' = [saving EXCEPT ![a] = [saving[a] EXCEPT !.pc = "changed"]]
  BY DEF Change
<1>4. /\ saving' \in [Actors -> Saving]
      /\ saving'[a] = [saving[a] EXCEPT !.pc = "changed"]
      /\ \A b \in Actors \ {a} : saving'[b] = saving[b]
  BY <1>2, <1>3 DEF Shape
<1> QED BY <1>1, <1>4 DEF Change, Saving

\* A step of a worker that leaves the state object alone: only its place, the
\* copies and the files of the target change.
Works(w) ==
    /\ Up /\ Saved(w) /\ UNCHANGED <<mem, disk, barrier, saving, edits, launches>>
    /\ call' \in [Workers -> Place] /\ Alone(w)

\* A step that changes the object: the plan has a new status, which actor a will
\* write, unless another actor holds the barrier.
Mutates(a, m) ==
    /\ Up /\ Saved(a) /\ m \in PlanStates /\ mem' = m
    /\ UNCHANGED <<disk, target, journal, edits, launches>>
    /\ saving' \in [Actors -> Saving] /\ saving'[a].pc = "changed"
    /\ \A b \in Actors \ {a} : saving'[b] = saving[b]

LEMMA WorksShape ==
    ASSUME Shape, NEW w \in Workers, Works(w),
           \/ target' = target
           \/ \E f \in Names, text \in Contents : target' = [target EXCEPT ![f] = text],
           \/ journal' \in {journal, NoDir, [journal EXCEPT !.dir = TRUE]}
           \/ \E f \in Names, text \in {None, "old", "empty"} : journal' = [journal EXCEPT !.copy[f] = text]
    PROVE  Shape'
<1>1. target' \in [Names -> Contents]
  BY DEF Shape
<1>2. journal' \in [dir : BOOLEAN, copy : [Names -> {None, "old", "empty"}]]
  <2>1. journal.dir \in BOOLEAN /\ journal.copy \in [Names -> {None, "old", "empty"}]
    BY DEF Shape
  <2>2. ASSUME NEW f \in Names, NEW text \in {None, "old", "empty"},
               journal' = [journal EXCEPT !.copy[f] = text]
        PROVE  journal' \in [dir : BOOLEAN, copy : [Names -> {None, "old", "empty"}]]
    <3>1. [journal.copy EXCEPT ![f] = text] \in [Names -> {None, "old", "empty"}]
      BY <2>1
    <3>2. journal' = [journal EXCEPT !.copy = [journal.copy EXCEPT ![f] = text]]
      BY <2>2 DEF Shape
    <3> QED BY <3>1, <3>2 DEF Shape
  <2>3. NoDir \in [dir : BOOLEAN, copy : [Names -> {None, "old", "empty"}]]
    BY DEF NoDir
  <2>4. [journal EXCEPT !.dir = TRUE] \in [dir : BOOLEAN, copy : [Names -> {None, "old", "empty"}]]
    BY DEF Shape
  <2> QED BY <2>2, <2>3, <2>4 DEF Shape
<1> QED BY <1>1, <1>2 DEF Shape, Works

LEMMA MutatesShape ==
    ASSUME Shape, NEW a \in Actors, NEW m, Mutates(a, m), barrier' \in {a, barrier},
           call' \in [Workers -> Place]
    PROVE  Shape'
BY DEF Shape, Mutates

-----------------------------------------------------------------------------
(* What each step does.                                                    *)

\* A worker that only goes to another place.
LEMMA WalkIs ==
    ASSUME Shape, NEW w \in Workers, NEW pc, At(w, pc), NEW next \in PCs, Go(w, next), Quiet,
           UNCHANGED <<disk, edits, launches>>
    PROVE  Works(w) /\ call[w].pc = pc /\ call'[w].pc = next /\ call'[w].at = 1
BY GoIs DEF At, Works, Quiet

\* A worker that goes on to the next file.
LEMMA NextFileIs ==
    ASSUME Shape, NEW w \in Workers, NEW pc, At(w, pc), More(w), Step(w), Quiet,
           UNCHANGED <<disk, edits, launches>>
    PROVE  /\ Works(w) /\ call[w].pc = pc /\ call'[w].pc = pc
           /\ call'[w].at = call[w].at + 1 /\ call[w].at \in 1..N /\ File(w) \in Names
BY StepIs DEF At, Works, Quiet

LEMMA CheckIs ==
    ASSUME Shape, NEW c \in Calls, Check(c)
    PROVE  /\ Works(c) /\ Shape' /\ UNCHANGED <<target, journal>> /\ call[c].pc = "idle"
           /\ call'[c].pc \in {"prepare", "refused"}
           /\ call'[c].pc = "prepare" => mem.status = "approved"
<1>1. PICK pc \in {"prepare", "refused"} :
        /\ At(c, "idle") /\ Go(c, pc) /\ Quiet /\ UNCHANGED <<disk, target, journal, edits, launches>>
        /\ pc = "prepare" => mem.status = "approved"
  BY DEF Check
<1>2. pc \in PCs /\ c \in Workers
  BY FilesAre DEF PCs
<1> QED BY <1>1, <1>2, WalkIs, WorksShape

LEMMA PrepareIs ==
    ASSUME Shape, NEW c \in Calls, Prepare(c)
    PROVE  /\ Works(c) /\ Shape' /\ UNCHANGED <<target, journal>> /\ call[c].pc = "prepare"
           /\ call'[c].pc \in {"mkdir", "refused"}
<1>1. PICK pc \in {"mkdir", "refused"} :
        /\ At(c, "prepare") /\ Go(c, pc) /\ Quiet
        /\ UNCHANGED <<disk, target, journal, edits, launches>>
  BY DEF Prepare
<1>2. pc \in PCs /\ c \in Workers
  BY FilesAre DEF PCs
<1> QED BY <1>1, <1>2, WalkIs, WorksShape

LEMMA MkdirIs ==
    ASSUME Shape, NEW c \in Calls, Mkdir(c)
    PROVE  /\ Works(c) /\ Shape' /\ UNCHANGED target /\ journal'.copy = journal.copy
           /\ call[c].pc = "mkdir" /\ call'[c].pc = "backup" /\ call'[c].at = 1
<1>1. /\ At(c, "mkdir") /\ Go(c, "backup") /\ Quiet /\ UNCHANGED <<disk, target, edits, launches>>
      /\ journal' = [journal EXCEPT !.dir = TRUE]
  BY DEF Mkdir
<1>2. "backup" \in PCs /\ c \in Workers /\ journal'.copy = journal.copy
  BY <1>1, FilesAre DEF PCs, Shape
<1> QED BY <1>1, <1>2, WalkIs, WorksShape

\* A worker that stays at the file at hand.
LEMMA TurnIs ==
    ASSUME Shape, NEW w \in Workers, NEW pc, At(w, pc), NEW next \in PCs,
           call' = [call EXCEPT ![w].pc = next], Quiet, UNCHANGED <<disk, edits, launches>>
    PROVE  /\ Works(w) /\ call[w].pc = pc /\ call'[w].pc = next
           /\ call'[w].at = call[w].at
<1>1. call[w] \in Place
  BY DEF Shape
<1>2. [call[w] EXCEPT !.pc = next] \in Place
  BY <1>1 DEF Place
<1>3. call' = [call EXCEPT ![w] = [call[w] EXCEPT !.pc = next]]
  BY DEF Shape
<1> QED BY <1>1, <1>2, <1>3 DEF Shape, Alone, At, Works, Quiet, Place

\* The text of one copy changes.
LEMMA CopyIs ==
    ASSUME Shape, NEW f \in Names, NEW text, journal' = [journal EXCEPT !.copy[f] = text]
    PROVE  journal'.copy[f] = text /\ \A g \in Names \ {f} : journal'.copy[g] = journal.copy[g]
<1>1. journal' = [journal EXCEPT !.copy = [journal.copy EXCEPT ![f] = text]]
  BY DEF Shape
<1> QED BY <1>1 DEF Shape

\* The copy of the file at hand is open, or there is nothing to copy.
LEMMA OpenCopyIs ==
    ASSUME Shape, NEW c \in Calls, OpenCopy(c)
    PROVE  /\ Works(c) /\ Shape' /\ UNCHANGED target /\ call[c].pc = "backup"
           /\ \/ call'[c].pc = "claim" /\ ~More(c) /\ UNCHANGED journal
              \/ call'[c].pc = "refused" /\ UNCHANGED journal
              \/ /\ call'[c].pc = "backup" /\ call'[c].at = call[c].at + 1 /\ UNCHANGED journal
                 /\ call[c].at \in 1..N /\ Files[call[c].at] \notin Existing
              \/ /\ call'[c].pc = "copy" /\ call'[c].at = call[c].at
                 /\ call[c].at \in 1..N /\ File(c) \in Existing /\ journal'.copy[File(c)] = "empty"
                 /\ \A g \in Names \ {File(c)} : journal'.copy[g] = journal.copy[g]
<1>1. At(c, "backup") /\ Quiet /\ UNCHANGED <<disk, target, edits, launches>> /\ c \in Workers
  BY FilesAre DEF OpenCopy
<1>2. CASE UNCHANGED journal /\ ~More(c) /\ Go(c, "claim")
  <2>1. "claim" \in PCs
    BY DEF PCs
  <2> QED BY <1>1, <1>2, <2>1, WalkIs, WorksShape
<1>3. CASE UNCHANGED journal /\ Go(c, "refused")
  <2>1. "refused" \in PCs
    BY DEF PCs
  <2> QED BY <1>1, <1>3, <2>1, WalkIs, WorksShape
<1>4. CASE UNCHANGED journal /\ More(c) /\ File(c) \notin Existing /\ Step(c)
  BY <1>1, <1>4, NextFileIs, WorksShape DEF File
<1>5. CASE /\ More(c) /\ File(c) \in Existing /\ call' = [call EXCEPT ![c].pc = "copy"]
           /\ journal' = [journal EXCEPT !.copy[File(c)] = "empty"]
  <2>1. Works(c) /\ call[c].pc = "backup" /\ call'[c].pc = "copy" /\ call'[c].at = call[c].at
    <3>1. "copy" \in PCs
      BY DEF PCs
    <3> QED BY <1>1, <1>5, <3>1, TurnIs
  <2>2. File(c) \in Names /\ call[c].at \in 1..N
    BY <1>1, <1>5, FilesAre DEF More, Shape, Place
  <2>3. PICK f \in Names : f = File(c) /\ journal' = [journal EXCEPT !.copy[f] = "empty"]
    BY <1>5, <2>2
  <2>4. Shape'
    BY <1>1, <2>1, <2>3, WorksShape
  <2> QED BY <1>1, <1>5, <2>1, <2>2, <2>3, <2>4, CopyIs
<1> QED BY <1>2, <1>3, <1>4, <1>5 DEF OpenCopy

\* The open copy is whole, unless it has been removed or the writing throws.
LEMMA WriteCopyIs ==
    ASSUME Shape, NEW c \in Calls, WriteCopy(c)
    PROVE  /\ Works(c) /\ Shape' /\ UNCHANGED target /\ call[c].pc = "copy"
           /\ call[c].at \in 1..N /\ File(c) \in Names
           /\ \/ call'[c].pc = "broken" /\ call'[c].at = call[c].at /\ UNCHANGED journal
              \/ /\ call'[c].pc = "backup" /\ call'[c].at = call[c].at + 1
                 /\ journal'.copy[File(c)] = IF journal.copy[File(c)] = None THEN None ELSE "old"
                 /\ \A g \in Names \ {File(c)} : journal'.copy[g] = journal.copy[g]
<1>1. At(c, "copy") /\ Quiet /\ UNCHANGED <<disk, target, edits, launches>> /\ c \in Workers
  BY FilesAre DEF WriteCopy
<1> call[c].at \in 1..N /\ File(c) \in Names
  BY <1>1, FilesAre DEF WriteCopy, More, File, Shape, Place
<1>2. CASE call' = [call EXCEPT ![c].pc = "broken"] /\ UNCHANGED journal
  <2>1. "broken" \in PCs
    BY DEF PCs
  <2> QED BY <1>1, <1>2, <2>1, TurnIs, WorksShape
<1>3. CASE /\ call' = [call EXCEPT ![c] = [pc |-> "backup", at |-> @.at + 1]]
           /\ journal' = [journal EXCEPT !.copy[File(c)] = IF @ = None THEN None ELSE "old"]
  <2>1. [pc |-> "backup", at |-> call[c].at + 1] \in Place
    <3>1. call[c].at + 1 \in 1..(N + 1)
      BY FilesAre
    <3> QED BY <3>1 DEF Place, PCs
  <2>2. /\ Works(c) /\ call[c].pc = "copy" /\ call'[c].pc = "backup"
        /\ call'[c].at = call[c].at + 1
    BY <1>1, <1>3, <2>1 DEF Shape, Alone, At, Works, Quiet
  <2>3. PICK f \in Names, text \in {None, "old", "empty"} :
          /\ f = File(c) /\ text = IF journal.copy[File(c)] = None THEN None ELSE "old"
          /\ journal' = [journal EXCEPT !.copy[f] = text]
    BY <1>3
  <2>4. Shape'
    BY <1>1, <2>2, <2>3, WorksShape
  <2> QED BY <1>1, <2>2, <2>3, <2>4, CopyIs
<1> QED BY <1>2, <1>3 DEF WriteCopy

LEMMA WriteFileIs ==
    ASSUME Shape, NEW c \in Calls, WriteFile(c)
    PROVE  /\ Works(c) /\ Shape' /\ UNCHANGED journal /\ call[c].pc = "write"
           /\ \/ call'[c].pc = "clear" /\ ~More(c) /\ UNCHANGED target
              \/ call'[c].pc = "restore" /\ call'[c].at = 1 /\ UNCHANGED target
              \/ /\ call'[c].pc = "write" /\ call'[c].at = call[c].at + 1
                 /\ call[c].at \in 1..N /\ Files[call[c].at] \in Names
                 /\ target' = [target EXCEPT ![Files[call[c].at]] = "new"]
<1>1. /\ At(c, "write") /\ Quiet /\ UNCHANGED <<disk, journal, edits, launches>>
      /\ c \in Workers /\ "clear" \in PCs /\ "restore" \in PCs /\ "new" \in Contents
  BY FilesAre DEF WriteFile, PCs, Contents
<1>2. CASE ~More(c) /\ Go(c, "clear") /\ UNCHANGED target
  BY <1>1, <1>2, WalkIs, WorksShape
<1>3. CASE Go(c, "restore") /\ UNCHANGED target
  BY <1>1, <1>3, WalkIs, WorksShape
<1>4. CASE More(c) /\ target' = [target EXCEPT ![File(c)] = "new"] /\ Step(c)
  <2>1. /\ Works(c) /\ call[c].pc = "write" /\ call'[c].pc = "write"
        /\ call'[c].at = call[c].at + 1 /\ call[c].at \in 1..N /\ File(c) \in Names
    BY <1>1, <1>4, NextFileIs
  <2>2. Shape'
    BY <1>1, <1>4, <2>1, WorksShape
  <2> QED BY <1>1, <1>4, <2>1, <2>2 DEF File
<1> QED BY <1>2, <1>3, <1>4 DEF WriteFile

LEMMA ClearJournalIs ==
    ASSUME Shape, NEW c \in Calls, ClearJournal(c)
    PROVE  /\ Works(c) /\ Shape' /\ UNCHANGED target
           /\ call[c].pc = "clear" /\ call'[c].pc = "finish"
<1>1. /\ At(c, "clear") /\ Go(c, "finish") /\ Quiet /\ UNCHANGED <<disk, target, edits, launches>>
      /\ journal' = NoDir /\ "finish" \in PCs /\ c \in Workers
  BY FilesAre DEF ClearJournal, PCs
<1> QED BY <1>1, WalkIs, WorksShape

\* The files are put back from the last to the first.
LEMMA RestoreIs ==
    ASSUME Shape, NEW w \in Workers, Restore(w)
    PROVE  /\ Works(w) /\ Shape' /\ UNCHANGED journal /\ call[w].pc = "restore"
           /\ \/ call'[w].pc = "drop" /\ ~More(w) /\ UNCHANGED target
              \/ call'[w].pc = "threw" /\ UNCHANGED target
              \/ /\ call'[w].pc = "restore" /\ call'[w].at = call[w].at + 1
                 /\ call[w].at \in 1..N /\ N + 1 - call[w].at \in 1..N
                 /\ \E text \in Contents \ {"new"} :
                      target' = [target EXCEPT ![Files[N + 1 - call[w].at]] = text]
<1> DEFINE f == Files[N + 1 - call[w].at]
<1>1. /\ At(w, "restore") /\ Quiet /\ UNCHANGED <<disk, journal, edits, launches>>
      /\ "drop" \in PCs /\ "threw" \in PCs
  BY DEF Restore, PCs
<1>2. CASE ~More(w) /\ Go(w, "drop") /\ UNCHANGED target
  BY <1>1, <1>2, WalkIs, WorksShape
<1>3. CASE Go(w, "threw") /\ UNCHANGED target
  BY <1>1, <1>3, WalkIs, WorksShape
<1>4. CASE /\ More(w) /\ Step(w)
           /\ \E text \in {None, journal.copy[f]} : target' = [target EXCEPT ![f] = text]
  <2>1. /\ Works(w) /\ call[w].pc = "restore" /\ call'[w].pc = "restore"
        /\ call'[w].at = call[w].at + 1 /\ call[w].at \in 1..N
    BY <1>1, <1>4, NextFileIs
  <2>2. N + 1 - call[w].at \in 1..N /\ f \in Names
    BY <1>4, BackwardIs
  <2> HIDE DEF f
  <2>3. PICK text \in {None, journal.copy[f]} : target' = [target EXCEPT ![f] = text]
    BY <1>4
  <2>4. text \in Contents \ {"new"}
    BY <2>2, <2>3 DEF Shape, Contents, None
  <2>5. Shape'
    BY <1>1, <2>1, <2>2, <2>3, <2>4, WorksShape
  <2> QED BY <1>1, <2>1, <2>2, <2>3, <2>4, <2>5 DEF f
<1> QED BY <1>2, <1>3, <1>4 DEF Restore

LEMMA DropJournalIs ==
    ASSUME Shape, NEW w \in Workers, DropJournal(w)
    PROVE  /\ Works(w) /\ Shape' /\ UNCHANGED target
           /\ call[w].pc = "drop" /\ call'[w].pc = "fail"
<1>1. /\ At(w, "drop") /\ Go(w, "fail") /\ Quiet /\ UNCHANGED <<disk, target, edits, launches>>
      /\ journal' = NoDir /\ "fail" \in PCs
  BY DEF DropJournal, PCs
<1> QED BY <1>1, WalkIs, WorksShape

LEMMA SnapshotIs ==
    ASSUME Shape, Snapshot
    PROVE  /\ Works(Snap) /\ Shape' /\ UNCHANGED <<target, journal>> /\ mem.recovery
           /\ call[Snap].pc \in {"idle", "threw"}
           /\ call'[Snap].pc = "restore" /\ call'[Snap].at = 1
           /\ MayOverlap \/ \A c \in Calls : ~Claimed(c) /\ Saved(c)
<1>1. PICK pc \in {"idle", "threw"} :
        /\ At(Snap, pc) /\ Go(Snap, "restore") /\ Quiet
        /\ UNCHANGED <<disk, target, journal, edits, launches>>
        /\ mem.recovery
        /\ MayOverlap \/ \A c \in Calls : ~Claimed(c) /\ Saved(c)
  BY DEF Snapshot
<1>2. "restore" \in PCs /\ Snap \in Workers
  BY DEF PCs, Workers
<1> QED BY <1>1, <1>2, WalkIs, WorksShape

LEMMA MutateIs ==
    ASSUME Shape, NEW a \in Actors, NEW m \in PlanStates, Up, Saved(a), Mutate(a, m),
           UNCHANGED <<disk, target, journal, edits, launches>>
    PROVE  Mutates(a, m) /\ barrier = None /\ barrier' = a
BY ChangeIs DEF Mutate, Mutates

\* The plan is made, and its source confirmed.
LEMMA UserIs ==
    ASSUME Shape, CreatePlan \/ ConfirmSource
    PROVE  \E m \in PlanStates :
             /\ Mutates(User, m) /\ Shape' /\ UNCHANGED call /\ barrier = None /\ barrier' = User
             /\ m.recovery = mem.recovery
             /\ \/ mem.status = None /\ m.status = "awaiting_confirmation"
                \/ mem.status = "awaiting_confirmation" /\ m.status = "approved"
<1>1. PICK m \in PlanStates :
        /\ Up /\ Saved(User) /\ Mutate(User, m) /\ m.recovery = mem.recovery
        /\ UNCHANGED <<disk, target, journal, call, edits, launches>>
        /\ \/ mem.status = None /\ m.status = "awaiting_confirmation"
           \/ mem.status = "awaiting_confirmation" /\ m.status = "approved"
  <2>1. mem \in PlanStates
    BY DEF Shape
  <2>2. CASE CreatePlan
    <3>1. [mem EXCEPT !.status = "awaiting_confirmation"] \in PlanStates
      BY <2>1 DEF PlanStates
    <3> QED BY <2>1, <2>2, <3>1 DEF CreatePlan, PlanStates
  <2>3. CASE ConfirmSource
    <3>1. [mem EXCEPT !.status = "approved", !.confirmed = TRUE] \in PlanStates
      BY <2>1 DEF PlanStates
    <3> QED BY <2>1, <2>3, <3>1 DEF ConfirmSource, PlanStates
  <2> QED BY <2>2, <2>3
<1>2. Mutates(User, m) /\ barrier = None /\ barrier' = User
  BY <1>1, FilesAre, MutateIs
<1>3. Shape'
  BY <1>1, <1>2, FilesAre, MutatesShape DEF Shape
<1> QED BY <1>1, <1>2, <1>3

LEMMA ClaimIs ==
    ASSUME Shape, NEW c \in Calls, Claim(c)
    PROVE  /\ Shape' /\ Alone(c) /\ call[c].pc = "claim"
           /\ \/ Works(c) /\ call'[c].pc = "refused" /\ UNCHANGED <<target, journal>>
              \/ /\ barrier = None /\ barrier' = c /\ mem.status = "approved"
                 /\ Mutates(c, [status |-> "committing", recovery |-> TRUE, confirmed |-> FALSE])
                 /\ call'[c].pc = "write" /\ call'[c].at = 1
<1>1. /\ At(c, "claim") /\ UNCHANGED <<disk, target, journal, edits, launches>>
      /\ c \in Workers /\ c \in Actors /\ "write" \in PCs /\ "refused" \in PCs
  BY FilesAre DEF Claim, PCs
<1>2. CASE Go(c, "refused") /\ Quiet
  <2>1. Works(c) /\ call[c].pc = "claim" /\ call'[c].pc = "refused"
    BY <1>1, <1>2, WalkIs
  <2> QED BY <1>1, <2>1, WorksShape DEF Works
<1>3. CASE /\ mem.status = "approved" /\ Go(c, "write")
           /\ Mutate(c, [status |-> "committing", recovery |-> TRUE, confirmed |-> FALSE])
  <2>1. [status |-> "committing", recovery |-> TRUE, confirmed |-> FALSE] \in PlanStates
    BY DEF PlanStates
  <2>2. /\ Mutates(c, [status |-> "committing", recovery |-> TRUE, confirmed |-> FALSE])
        /\ barrier = None /\ barrier' = c
    BY <1>1, <1>3, <2>1, MutateIs DEF At
  <2>3. /\ call' \in [Workers -> Place] /\ Alone(c) /\ call'[c].pc = "write" /\ call'[c].at = 1
    BY <1>1, <1>3, GoIs
  <2>4. Shape'
    BY <1>1, <2>2, <2>3, MutatesShape
  <2> QED BY <1>1, <1>3, <2>2, <2>3, <2>4 DEF At
<1> QED BY <1>2, <1>3 DEF Claim

\* A plan with another status that no recovery is listed for.
Settled(p, status) == [p EXCEPT !.status = status, !.recovery = FALSE]

Statuses == {None, "awaiting_confirmation", "approved", "committing", "committed", "failed"}

LEMMA SettledIs ==
    ASSUME NEW p \in PlanStates, NEW status \in Statuses
    PROVE  /\ Settled(p, status) \in PlanStates
           /\ Settled(p, status).status = status /\ Settled(p, status).recovery = FALSE
BY DEF PlanStates, Statuses, Settled

\* The plan is declared committed, or failed.
LEMMA SettleIs ==
    ASSUME Shape, NEW c \in Calls, Finish(c) \/ Fail(c)
    PROVE  \E m \in PlanStates :
             /\ Mutates(c, m) /\ Shape' /\ Alone(c) /\ barrier = None /\ barrier' = c
             /\ m.recovery = FALSE
             /\ \/ call[c].pc = "finish" /\ call'[c].pc = "committed" /\ m.status = "committed"
                \/ call[c].pc = "fail" /\ call'[c].pc = "threw" /\ m.status = "failed"
<1>1. c \in Workers /\ c \in Actors /\ mem \in PlanStates
  BY FilesAre DEF Shape
<1>2. PICK pc \in {"finish", "fail"}, status \in {"committed", "failed"},
           next \in {"committed", "threw"} :
        /\ Settle(c, pc, status, next)
        /\ \/ pc = "finish" /\ next = "committed" /\ status = "committed"
           \/ pc = "fail" /\ next = "threw" /\ status = "failed"
  BY DEF Finish, Fail
<1>3. PICK m \in PlanStates : m = Settled(mem, status) /\ m.status = status /\ m.recovery = FALSE
  <2>1. status \in Statuses
    BY <1>2 DEF Statuses
  <2> QED BY <1>1, <2>1, SettledIs
<1>4. next \in PCs
  BY DEF PCs
<1>5. /\ At(c, pc) /\ Mutate(c, m) /\ Go(c, next)
      /\ UNCHANGED <<disk, target, journal, edits, launches>>
  BY <1>2, <1>3 DEF Settle, Settled
<1>6. Mutates(c, m) /\ barrier = None /\ barrier' = c /\ call[c].pc = pc
  BY <1>1, <1>5, MutateIs DEF At
<1>7. call' \in [Workers -> Place] /\ Alone(c) /\ call'[c].pc = next
  BY <1>1, <1>4, <1>5, GoIs
<1>8. Shape'
  BY <1>1, <1>6, <1>7, MutatesShape
<1> QED BY <1>2, <1>3, <1>6, <1>7, <1>8

LEMMA RecoveredIs ==
    ASSUME Shape, Recovered
    PROVE  \E m \in PlanStates :
             /\ Mutates(Snap, m) /\ Shape' /\ Alone(Snap) /\ UNCHANGED barrier
             /\ call[Snap].pc = "fail" /\ call'[Snap].pc = "idle" /\ m.recovery = FALSE
             /\ m.status = IF mem.status = "committing" THEN "failed" ELSE mem.status
<1>1. Snap \in Workers /\ Snap \in Actors /\ mem \in PlanStates /\ "idle" \in PCs
  BY FilesAre DEF Shape, PCs, Workers
<1>2. PICK status \in {None, "awaiting_confirmation", "approved", "committing", "committed",
                       "failed"} :
        status = IF mem.status = "committing" THEN "failed" ELSE mem.status
  BY <1>1 DEF PlanStates
<1>3. PICK m \in PlanStates : m = Settled(mem, status) /\ m.status = status /\ m.recovery = FALSE
  <2>1. status \in Statuses
    BY <1>2 DEF Statuses
  <2> QED BY <1>1, <2>1, SettledIs
<1>4. /\ At(Snap, "fail") /\ Change(Snap, m) /\ Go(Snap, "idle")
      /\ UNCHANGED <<disk, barrier, target, journal, edits, launches>>
  <2>1. m = [mem EXCEPT !.status = IF @ = "committing" THEN "failed" ELSE @,
                        !.recovery = FALSE]
    BY <1>1, <1>2, <1>3 DEF PlanStates, Settled
  <2> QED BY <2>1 DEF Recovered
<1>5. Mutates(Snap, m) /\ call[Snap].pc = "fail"
  BY <1>1, <1>4, ChangeIs DEF At, Mutates
<1>6. call' \in [Workers -> Place] /\ Alone(Snap) /\ call'[Snap].pc = "idle"
  BY <1>1, <1>4, GoIs
<1>7. Shape'
  BY <1>1, <1>4, <1>5, <1>6, MutatesShape
<1> QED BY <1>2, <1>3, <1>4, <1>5, <1>6, <1>7

LEMMA SerializeIs ==
    ASSUME Shape, NEW a \in Actors, Serialize(a)
    PROVE  /\ Shape' /\ saving[a].pc = "changed"
           /\ saving'[a].pc = "serialized" /\ saving'[a].body = mem
           /\ \A b \in Actors \ {a} : saving'[b] = saving[b]
           /\ UNCHANGED <<mem, disk, barrier, target, journal, call, edits, launches>>
<1>1. [pc |-> "serialized", body |-> mem] \in Saving
  BY DEF Shape, Saving
<1> QED BY <1>1 DEF Serialize, Shape

LEMMA LandIs ==
    ASSUME Shape, NEW a \in Actors, Land(a)
    PROVE  /\ Shape' /\ saving[a].pc = "serialized" /\ disk' = saving[a].body
           /\ saving'[a].pc = None /\ \A b \in Actors \ {a} : saving'[b] = saving[b]
           /\ barrier' = IF barrier = a THEN None ELSE barrier
           /\ UNCHANGED <<mem, target, journal, call, edits, launches>>
<1>1. NoSave \in Saving /\ NoSave.pc = None
  BY DEF NoSave, Saving, NoPlan, PlanStates
<1>2. saving[a].body \in PlanStates
  BY DEF Shape, Saving
<1> QED BY <1>1, <1>2 DEF Land, Shape

LEMMA EditIs ==
    ASSUME Shape, NEW f \in Names, Edit(f)
    PROVE  /\ Shape' /\ target' = [target EXCEPT ![f] = "edited"]
           /\ UNCHANGED <<mem, disk, barrier, saving, journal, call, launches>>
<1>1. edits' \in 0..MaxEdits
  BY TransfersAssumption DEF Edit, Shape
<1>2. target' \in [Names -> Contents]
  BY DEF Edit, Shape, Contents
<1> QED BY <1>1, <1>2 DEF Edit, Shape

\* A crash: the answered commits have their answer, the others are lost.
LEMMA CrashIs ==
    ASSUME Shape, Crash
    PROVE  /\ Shape' /\ ~Up' /\ mem' = disk /\ UNCHANGED <<disk, target, journal>>
           /\ \A a \in Actors : Saved(a)' /\ saving'[a].pc = None
           /\ call'[Snap].pc = "idle"
           /\ \A c \in Calls : \/ call'[c].pc = "lost"
                               \/ call'[c] = call[c] /\ call[c].pc = "idle"
                               \/ call'[c] = call[c] /\ Answered(c)
<1>1. Idle \in Place /\ Idle.pc = "idle" /\ [Idle EXCEPT !.pc = "lost"] \in Place
      /\ [Idle EXCEPT !.pc = "lost"].pc = "lost"
  <2>1. 1 \in 1..(N + 1)
    BY FilesAre
  <2> QED BY <2>1 DEF Idle, Place, PCs
<1>2. NoSave \in Saving /\ NoSave.pc = None
  BY DEF NoSave, Saving, NoPlan, PlanStates
<1>3. /\ saving' = [a \in Actors |-> NoSave] /\ mem' = disk /\ barrier' = None
      /\ UNCHANGED <<disk, target, journal, edits>>
      /\ call' = [w \in Workers |-> IF w = Snap THEN Idle
                                  ELSE IF call[w].pc = "idle" \/ Answered(w) THEN call[w]
                                  ELSE [Idle EXCEPT !.pc = "lost"]]
  BY DEF Crash
<1>4. call' \in [Workers -> Place]
  BY <1>1, <1>3 DEF Shape
<1>5. launches' \in [count : 1..(MaxLaunches + 1), up : BOOLEAN] /\ ~Up'
  BY DEF Crash, Shape, Up
<1>6. Shape'
  BY <1>2, <1>3, <1>4, <1>5 DEF Shape
<1>7. /\ call'[Snap].pc = "idle"
      /\ \A c \in Calls : \/ call'[c].pc = "lost"
                          \/ call'[c] = call[c] /\ call[c].pc = "idle"
                          \/ call'[c] = call[c] /\ Answered(c)
  BY <1>1, <1>3, FilesAre DEF Workers
<1>8. \A a \in Actors : Saved(a)' /\ saving'[a].pc = None
  BY <1>2, <1>3 DEF Saved
<1> QED BY <1>3, <1>5, <1>6, <1>7, <1>8

LEMMA LaunchIs ==
    ASSUME Shape, Launch
    PROVE  /\ Shape' /\ ~Up /\ mem'.status = disk.status /\ mem'.recovery = disk.recovery
           /\ UNCHANGED <<disk, barrier, saving, target, journal, call>>
<1>1. disk \in PlanStates /\ [disk EXCEPT !.confirmed = FALSE] \in PlanStates
  BY DEF Shape, PlanStates
<1>2. mem' \in PlanStates /\ mem'.status = disk.status /\ mem'.recovery = disk.recovery
  BY <1>1 DEF Launch, PlanStates
<1>3. launches' \in [count : 1..(MaxLaunches + 1), up : BOOLEAN]
  <2>1. launches.count \in 1..(MaxLaunches + 1) /\ launches.count < MaxLaunches
    BY DEF Launch, Shape
  <2>2. launches.count + 1 \in 1..(MaxLaunches + 1)
    BY <2>1, TransfersAssumption
  <2> QED BY <2>2 DEF Launch
<1> QED BY <1>2, <1>3 DEF Launch, Shape

\* The first state.
LEMMA InitIs ==
    ASSUME Init
    PROVE  /\ Shape /\ NoneNew /\ mem = NoPlan /\ disk = NoPlan
           /\ \A a \in Actors : Saved(a) /\ saving[a].pc = None
           /\ \A w \in Workers : call[w].pc = "idle"
           /\ Up
<1>1. NoPlan \in PlanStates /\ NoSave \in Saving /\ NoSave.pc = None
  BY DEF NoPlan, PlanStates, NoSave, Saving
<1>2. Idle \in Place /\ Idle.pc = "idle"
  <2>1. 1 \in 1..(N + 1)
    BY FilesAre
  <2> QED BY <2>1 DEF Idle, Place, PCs
<1>3. target \in [Names -> Contents] /\ NoneNew
  BY DEF Init, Before, NoneNew, Contents, None
<1>4. journal \in [dir : BOOLEAN, copy : [Names -> {None, "old", "empty"}]]
  BY DEF Init, NoDir
<1>5. edits \in 0..MaxEdits
  BY TransfersAssumption DEF Init
<1>6. launches \in [count : 1..(MaxLaunches + 1), up : BOOLEAN] /\ Up
  <2>1. 1 \in 1..(MaxLaunches + 1)
    BY TransfersAssumption
  <2> QED BY <2>1 DEF Init, Up
<1>7. saving \in [Actors -> Saving] /\ \A a \in Actors : Saved(a) /\ saving[a].pc = None
  BY <1>1 DEF Init, Saved
<1>8. call \in [Workers -> Place] /\ \A w \in Workers : call[w].pc = "idle"
  BY <1>2 DEF Init
<1> QED BY <1>1, <1>3, <1>4, <1>5, <1>6, <1>7, <1>8 DEF Init, Shape

\* Every step is one of these.
LEMMA NextIs ==
    ASSUME Next
    PROVE  \/ CreatePlan \/ ConfirmSource \/ Snapshot \/ Recovered \/ Crash \/ Launch
           \/ \E c \in Calls : \/ Check(c) \/ Prepare(c) \/ Mkdir(c) \/ OpenCopy(c) \/ WriteCopy(c) \/ Claim(c)
                               \/ WriteFile(c) \/ ClearJournal(c) \/ Finish(c) \/ Fail(c)
           \/ \E w \in Workers : Restore(w) \/ DropJournal(w)
           \/ \E a \in Actors : Serialize(a) \/ Land(a)
           \/ \E f \in Names : Edit(f)
BY DEF Next, CommitTransfer, WriteState

LEMMA ShapeNext ==
    ASSUME Shape, [Next]_vars
    PROVE  Shape'
<1>1. CASE UNCHANGED vars
  BY <1>1 DEF Shape, vars
<1>2. CASE Next
  BY <1>2, NextIs, UserIs, SnapshotIs, RecoveredIs, CrashIs, LaunchIs, CheckIs, PrepareIs, MkdirIs,
     OpenCopyIs, WriteCopyIs, ClaimIs, WriteFileIs, ClearJournalIs, SettleIs, RestoreIs, DropJournalIs,
     SerializeIs, LandIs, EditIs
<1> QED BY <1>1, <1>2

\* The model's type invariant (mem, disk, saving and every variable below them)
\* is the shape of the state and says nothing of the places a call goes through.
\* The files of a plan, its status and the copies stay what the service knows.
THEOREM TypeCorrect == Spec => []TypeOK
<1>1. Init => Shape
  BY InitIs
<1>2. Shape /\ [Next]_vars => Shape'
  BY ShapeNext
<1>3. Shape => TypeOK
  BY DEF Shape, TypeOK, Saving, Place
<1> QED BY <1>1, <1>2, <1>3, PTL DEF Spec

-----------------------------------------------------------------------------
(* One commit claims the plan, whatever snapshots are taken meanwhile.     *)

\* The status is changed to committing before anything else is done, and does
\* not go back to approved while the commit that changed it is at work.
ClaimInv == \A c \in Calls : Claimed(c) => Up /\ mem.status \in {"committing", "committed", "failed"}

\* The calls that have claimed the plan had claimed it before.
NoneClaims == \A c \in Calls : Claimed(c)' => Claimed(c)

LEMMA WorksClaims ==
    ASSUME Shape, ClaimInv, ClaimedOnce, NEW w \in Workers, Works(w),
           w \in Calls => (Claimed(w)' => Claimed(w))
    PROVE  ClaimInv' /\ ClaimedOnce'
<1>1. NoneClaims
  BY FilesAre DEF Works, Alone, Claimed, NoneClaims
<1> QED BY <1>1 DEF NoneClaims, ClaimInv, ClaimedOnce, Works, Up

LEMMA MutatesClaims ==
    ASSUME Shape, ClaimInv, ClaimedOnce, NEW a \in Actors, NEW m \in PlanStates, Mutates(a, m),
           NoneClaims,
           mem.status \in {"committing", "committed", "failed"} =>
               m.status \in {"committing", "committed", "failed"}
    PROVE  ClaimInv' /\ ClaimedOnce'
BY DEF NoneClaims, ClaimInv, ClaimedOnce, Mutates, Up

LEMMA SameClaims ==
    ASSUME ClaimInv, ClaimedOnce, UNCHANGED <<mem, call, launches>>
    PROVE  ClaimInv' /\ ClaimedOnce'
<1>1. NoneClaims
  BY DEF Claimed, NoneClaims
<1> QED BY <1>1 DEF NoneClaims, ClaimInv, ClaimedOnce, Up

LEMMA CallClaims ==
    ASSUME Shape, ClaimInv, ClaimedOnce, NEW c \in Calls,
           \/ Check(c) \/ Prepare(c) \/ Mkdir(c) \/ OpenCopy(c) \/ WriteCopy(c) \/ Claim(c)
           \/ WriteFile(c) \/ ClearJournal(c) \/ Finish(c) \/ Fail(c)
    PROVE  ClaimInv' /\ ClaimedOnce'
<1>1. c \in Workers /\ c \in Actors
  BY FilesAre
<1>2. CASE Works(c) /\ (Claimed(c)' => Claimed(c))
  BY <1>1, <1>2, WorksClaims
<1>3. CASE Check(c) \/ Prepare(c) \/ Mkdir(c) \/ OpenCopy(c) \/ WriteCopy(c)
  BY <1>2, <1>3, CheckIs, PrepareIs, MkdirIs, OpenCopyIs, WriteCopyIs DEF Claimed
<1>4. CASE WriteFile(c) \/ ClearJournal(c)
  BY <1>2, <1>4, WriteFileIs, ClearJournalIs DEF Claimed
<1>5. CASE Claim(c)
  <2>1. CASE Works(c) /\ call'[c].pc = "refused"
    BY <1>2, <2>1 DEF Claimed
  <2>2. CASE /\ mem.status = "approved" /\ call'[c].pc = "write"
             /\ Mutates(c, [status |-> "committing", recovery |-> TRUE, confirmed |-> FALSE])
    <3>1. \A d \in Calls : ~Claimed(d)
      BY <2>2 DEF ClaimInv
    <3>2. \A d \in Calls : Claimed(d)' => d = c
      BY <1>1, <1>5, <3>1, ClaimIs, FilesAre DEF Alone, Claimed
    <3>3. Up' /\ mem'.status = "committing"
      BY <2>2 DEF Mutates, Up
    <3> QED BY <3>2, <3>3 DEF ClaimInv, ClaimedOnce
  <2> QED BY <1>5, <2>1, <2>2, ClaimIs
<1>6. CASE Finish(c) \/ Fail(c)
  <2>1. PICK m \in PlanStates :
          /\ Mutates(c, m) /\ Alone(c) /\ m.status \in {"committed", "failed"}
          /\ call'[c].pc \in {"committed", "threw"}
    BY <1>6, SettleIs
  <2>2. NoneClaims
    BY <2>1, FilesAre DEF Alone, Claimed, NoneClaims
  <2> QED BY <1>1, <2>1, <2>2, MutatesClaims
<1> QED BY <1>3, <1>4, <1>5, <1>6

LEMMA ClaimsNext ==
    ASSUME Shape, ClaimInv, ClaimedOnce, [Next]_vars
    PROVE  ClaimInv' /\ ClaimedOnce'
<1>1. CASE UNCHANGED vars
  BY <1>1, SameClaims DEF vars
<1>2. CASE CreatePlan \/ ConfirmSource
  <2>1. PICK m \in PlanStates :
          /\ Mutates(User, m) /\ UNCHANGED call
          /\ mem.status \in {None, "awaiting_confirmation"}
    BY <1>2, UserIs
  <2>2. NoneClaims
    BY <2>1 DEF NoneClaims, Claimed
  <2> QED BY <2>1, <2>2, FilesAre, MutatesClaims DEF None
<1>3. CASE Snapshot
  <2>1. Works(Snap) /\ Snap \in Workers
    BY <1>3, SnapshotIs DEF Workers
  <2> QED BY <2>1, FilesAre, WorksClaims
<1>4. CASE Recovered
  <2>1. PICK m \in PlanStates :
          /\ Mutates(Snap, m) /\ Alone(Snap)
          /\ m.status = IF mem.status = "committing" THEN "failed" ELSE mem.status
    BY <1>4, RecoveredIs
  <2>2. NoneClaims /\ Snap \in Actors
    BY <2>1, FilesAre DEF NoneClaims, Claimed, Alone, Actors
  <2> QED BY <2>1, <2>2, MutatesClaims
<1>5. CASE Crash
  <2>1. \A c \in Calls : ~Claimed(c)'
    BY <1>5, CrashIs DEF Claimed, Answered
  <2> QED BY <2>1 DEF ClaimInv, ClaimedOnce
<1>6. CASE Launch
  <2>1. \A c \in Calls : ~Claimed(c)'
    BY <1>6, LaunchIs DEF Claimed, ClaimInv
  <2> QED BY <2>1 DEF ClaimInv, ClaimedOnce
<1>7. ASSUME NEW w \in Workers, Restore(w) \/ DropJournal(w)
      PROVE  ClaimInv' /\ ClaimedOnce'
  <2>1. Works(w) /\ call[w].pc \in {"restore", "drop"}
    BY <1>7, RestoreIs, DropJournalIs
  <2>2. w \in Calls => (Claimed(w)' => Claimed(w))
    BY <2>1 DEF Claimed
  <2> QED BY <2>1, <2>2, WorksClaims
<1>8. ASSUME NEW a \in Actors, Serialize(a) \/ Land(a)
      PROVE  ClaimInv' /\ ClaimedOnce'
  BY <1>8, SameClaims DEF Serialize, Land
<1>9. ASSUME NEW f \in Names, Edit(f)
      PROVE  ClaimInv' /\ ClaimedOnce'
  BY <1>9, SameClaims DEF Edit
<1> QED BY <1>1, <1>2, <1>3, <1>4, <1>5, <1>6, <1>7, <1>8, <1>9, NextIs, CallClaims

\* Two commits of one plan may both read it, compare its revisions and copy its
\* files aside (commitTransfer does all of that before it queues its mutation);
\* only one of them ever goes on to replace the files, with any number of calls,
\* crashes and snapshots taken at any moment.
THEOREM ClaimedOnceAlways == Spec => []ClaimedOnce
<1>1. Init => Shape /\ ClaimInv /\ ClaimedOnce
  BY InitIs, FilesAre DEF ClaimInv, ClaimedOnce, Claimed
<1>2. Shape /\ ClaimInv /\ ClaimedOnce /\ [Next]_vars => (Shape /\ ClaimInv /\ ClaimedOnce)'
  BY ShapeNext, ClaimsNext
<1> QED BY <1>1, <1>2, PTL DEF Spec

-----------------------------------------------------------------------------
(* What the whole invariant says of a step's first state.                  *)

Busy(w) == call[w].pc \in {"write", "clear", "finish", "restore", "drop", "fail"}

\* The copies that are there stay there, and they stay whole or in somebody's hand.
CopiesStay ==
    \A f \in Existing :
        /\ journal.copy[f] # None => journal'.copy[f] # None
        /\ Copied(f) => Copied(f)'

\* Only a call that is at a copy has one in its hand.
LEMMA CopiesUntouched ==
    ASSUME NEW w \in Workers, Alone(w), journal' = journal,
           w \in Calls => call[w].pc \notin {"copy", "broken"}
    PROVE  CopiesStay
<1>1. ASSUME NEW f, Reopened(f)
      PROVE  Reopened(f)'
  <2>1. PICK d \in Calls : call[d].pc \in {"copy", "broken"} /\ File(d) = f
    BY <1>1 DEF Reopened
  <2>2. call'[d] = call[d]
    BY <2>1, FilesAre DEF Alone
  <2> QED BY <2>1, <2>2 DEF Reopened, File
<1> QED BY <1>1 DEF CopiesStay, Copied

\* A worker that writes or puts back files is the only one.
LEMMA BusyIs ==
    ASSUME TransferInv, NEW w \in Workers, Busy(w)
    PROVE  /\ mem.status = "committing" /\ Up
           /\ disk.status \notin {"failed", "committed"}
           /\ \A v \in Workers \ {w} : ~Busy(v)
           /\ w \in Calls /\ Saved(w) => disk.status = "committing"
<1>1. w \in Calls \/ w = Snap
  BY DEF Workers
<1>2. CASE w \in Calls
  <2>1. Claimed(w)
    BY <1>2 DEF Busy, Claimed
  <2>2. mem.status = "committing" /\ Up /\ (Saved(w) => disk.status = "committing")
    BY <1>2, <2>1 DEF TransferInv, PlaceInv
  <2>3. \A v \in Calls \ {w} : ~Busy(v)
    BY <1>2, <2>1 DEF TransferInv, ClaimedOnce, Busy, Claimed
  <2>4. ~Busy(Snap)
    <3>1. call[Snap].pc \notin {"restore", "drop", "fail"}
      BY <1>2, <2>1 DEF TransferInv, SnapInv
    <3>2. ~(call[Snap].pc \in {"write", "clear", "finish"})
      BY DEF TransferInv, SnapPlace
    <3> QED BY <3>1, <3>2 DEF Busy
  <2> QED BY <1>2, <2>2, <2>3, <2>4 DEF Workers, TransferInv, PlanInv
<1>3. CASE w = Snap
  <2>1. call[Snap].pc \in {"restore", "drop", "fail"}
    BY <1>3 DEF Busy, TransferInv, SnapPlace
  <2>2. mem.status = "committing" /\ Up /\ \A c \in Calls : ~Claimed(c)
    BY <2>1 DEF TransferInv, SnapInv
  <2> QED BY <1>3, <2>2, FilesAre DEF Workers, Busy, Claimed, TransferInv, PlanInv
<1> QED BY <1>1, <1>2, <1>3

\* With the barrier free nothing is being written, but by the snapshot.
LEMMA FreeIs ==
    ASSUME TransferInv, barrier = None, mem.status # "failed"
    PROVE  \A a \in Actors : Saved(a)
BY FilesAre DEF TransferInv, SaveInv

\* The plan's status says who may be under way.
LEMMA EarlyIs ==
    ASSUME TransferInv, mem.status \in Early
    PROVE  /\ \A w \in Workers : ~Busy(w)
           /\ \A c \in Calls : call[c].pc # "committed"
           /\ disk.status \in Early /\ NoneNew /\ mem.recovery = FALSE
<1>1. \A w \in Workers : ~Busy(w)
  BY BusyIs DEF Early, None
<1>2. \A c \in Calls : call[c].pc # "committed"
  BY DEF TransferInv, PlaceInv, Early, None
<1>3. mem.recovery \in BOOLEAN
  BY DEF TransferInv, Shape, PlanStates
<1> QED BY <1>1, <1>2, <1>3 DEF TransferInv, PlanInv, Early, None

-----------------------------------------------------------------------------
(* Steps that leave the plan alone.                                        *)

\* What is left to show of a worker's step is the worker's own part.
LEMMA WorksInv ==
    ASSUME TransferInv, NEW w \in Workers, Works(w), Shape',
           SnapPlace',
           \/ UNCHANGED target
           \/ Busy(w) /\ (disk.status = "committing" \/ (NoneNew => NoneNew')),
           CopiesStay \/ Busy(w),
           w \in Calls => (Claimed(w)' => Claimed(w)) /\ PlaceInv(w)' /\ FilesInv(w)',
           RestoreInv(w)',
           w = Snap /\ call'[Snap].pc \in {"restore", "drop", "fail"} =>
               mem.status = "committing" /\ \A c \in Calls : ~Claimed(c) /\ Saved(c)
    PROVE  TransferInv'
<1>1. /\ UNCHANGED <<mem, disk, barrier, saving>> /\ Up' = Up /\ Up
      /\ \A a \in Actors : Saved(a)' = Saved(a)
      /\ \A v \in Workers \ {w} : call'[v] = call[v]
  BY DEF Works, Up, Saved, Alone
<1>2. PlanInv'
  <2>1. CASE UNCHANGED target
    BY <1>1, <2>1 DEF TransferInv, PlanInv, NoneNew, AllNew
  <2>2. CASE Busy(w) /\ disk.status = "committing"
    BY <1>1, <2>2, BusyIs DEF TransferInv, PlanInv, Early, None
  <2>3. CASE Busy(w) /\ (NoneNew => NoneNew')
    BY <1>1, <2>3, BusyIs DEF TransferInv, PlanInv, Early, None
  <2> QED BY <2>1, <2>2, <2>3
<1>3. SaveInv'
  BY <1>1 DEF TransferInv, SaveInv, Saved
<1>4. ClaimedOnce'
  <2>1. ClaimInv
    BY DEF TransferInv, PlaceInv, ClaimInv
  <2> QED BY <2>1, WorksClaims DEF TransferInv
<1>5. SnapInv'
  <2>1. CASE w = Snap
    BY <1>1, <2>1, FilesAre DEF TransferInv, SnapInv, Claimed
  <2>2. CASE w # Snap
    <3>1. call'[Snap] = call[Snap] /\ w \in Calls
      BY <1>1, <2>2 DEF Workers
    <3>2. \A c \in Calls : ~Claimed(c) => ~Claimed(c)'
      BY <1>1, <3>1, FilesAre DEF Claimed
    <3> QED BY <1>1, <3>1, <3>2, FilesAre DEF TransferInv, SnapInv
  <2> QED BY <2>1, <2>2
<1>6. DownInv'
  BY <1>1 DEF DownInv
<1>7. ASSUME NEW c \in Calls, c # w
      PROVE  PlaceInv(c)' /\ FilesInv(c)'
  <2>1. call'[c] = call[c] /\ Saved(c)' = Saved(c)
    BY <1>1, <1>7, FilesAre
  <2>2. PlaceInv(c)'
    BY <1>1, <2>1 DEF TransferInv, PlaceInv, Claimed
  <2>3. FilesInv(c)'
    <3>1. CASE Busy(w)
      <4>1. mem.status = "committing" /\ ~Busy(c)
        BY <1>7, <3>1, BusyIs, FilesAre
      <4> QED BY <1>1, <2>1, <4>1 DEF FilesInv, Busy
    <3>2. CASE UNCHANGED target /\ CopiesStay
      <4>1. \A i \in 1..N : Files[i] \in Existing /\ Copied(Files[i]) => Copied(Files[i])'
        BY <3>2 DEF CopiesStay
      <4>2. File(c)' = File(c) /\ (AllCopied => AllCopied')
        BY <2>1, <3>2 DEF File, AllCopied, CopiesStay
      <4>3. call[c].pc = "copy" /\ mem.status = "approved" => journal'.copy[File(c)] # None
        BY <3>2 DEF FilesInv, TransferInv, CopiesStay
      <4> QED BY <1>1, <2>1, <3>2, <4>1, <4>2, <4>3 DEF FilesInv, TransferInv, AllNew
    <3> QED BY <3>1, <3>2
  <2> QED BY <2>2, <2>3
<1>8. ASSUME NEW v \in Workers, v # w
      PROVE  RestoreInv(v)'
  <2>1. call'[v] = call[v]
    BY <1>1, <1>8
  <2>2. CASE Busy(w)
    <3>1. ~Busy(v)
      BY <1>8, <2>2, BusyIs
    <3> QED BY <2>1, <3>1 DEF RestoreInv, Busy
  <2>3. CASE UNCHANGED target
    BY <2>1, <2>3 DEF TransferInv, RestoreInv, NoneNew
  <2> QED BY <2>2, <2>3
<1> QED BY <1>2, <1>3, <1>4, <1>5, <1>6, <1>7, <1>8 DEF TransferInv

LEMMA CommitInv ==
    ASSUME TransferInv, NEW c \in Calls, Check(c) \/ Prepare(c) \/ Mkdir(c)
    PROVE  TransferInv'
<1>1. c \in Workers /\ c # Snap /\ Shape /\ N \in Nat
  BY FilesAre DEF TransferInv
<1>2. /\ Works(c) /\ Shape' /\ UNCHANGED target /\ journal'.copy = journal.copy
      /\ call[c].pc \in {"idle", "prepare", "mkdir"}
      /\ call'[c].pc \in {"prepare", "mkdir", "backup", "refused"}
      /\ call'[c].pc = "backup" => call'[c].at = 1
      /\ call[c].pc = "idle" => call'[c].pc = "refused" \/ mem.status = "approved"
  BY <1>1, CheckIs, PrepareIs, MkdirIs
<1>3. UNCHANGED <<mem, disk, saving>> /\ call'[Snap] = call[Snap] /\ Snap \in Workers
  BY <1>1, <1>2 DEF Works, Alone, Workers
<1>4. CopiesStay
  <2>1. ASSUME NEW f, Reopened(f)
        PROVE  Reopened(f)'
    <3>1. PICK d \in Calls : call[d].pc \in {"copy", "broken"} /\ File(d) = f
      BY <2>1 DEF Reopened
    <3>2. call'[d] = call[d]
      BY <1>2, <3>1, FilesAre DEF Works, Alone
    <3> QED BY <3>1, <3>2 DEF Reopened, File
  <2> QED BY <1>2, <2>1 DEF CopiesStay, Copied
<1>5. Claimed(c)' => Claimed(c)
  BY <1>2 DEF Claimed
<1>6. PlaceInv(c)'
  <2>1. call'[c].pc \in {"prepare", "mkdir", "backup", "copy", "claim"} =>
          mem.status \notin {None, "awaiting_confirmation"}
    BY <1>2 DEF TransferInv, PlaceInv, None
  <2> QED BY <1>2, <1>3, <2>1 DEF PlaceInv, Claimed
<1>7. FilesInv(c)'
  <2>1. \A i \in 1..N : ~(i < 1)
    BY <1>1
  <2> QED BY <1>2, <2>1 DEF FilesInv
<1>8. RestoreInv(c)' /\ SnapPlace'
  BY <1>2, <1>3 DEF RestoreInv, TransferInv, SnapPlace
<1> QED BY <1>1, <1>2, <1>4, <1>5, <1>6, <1>7, <1>8, WorksInv

\* The next copy is opened: whoever relied on it relies on this call now.
LEMMA OpenCopyInv ==
    ASSUME TransferInv, NEW c \in Calls, OpenCopy(c)
    PROVE  TransferInv'
<1>1. /\ c \in Workers /\ c # Snap /\ Shape /\ N \in Nat
      /\ call[c].at \in 1..(N + 1) /\ Existing \subseteq Names
  BY FilesAre DEF TransferInv, Shape, Place
<1>2. /\ Works(c) /\ Shape' /\ UNCHANGED target /\ call[c].pc = "backup"
      /\ \/ call'[c].pc = "claim" /\ ~More(c) /\ UNCHANGED journal
         \/ call'[c].pc = "refused" /\ UNCHANGED journal
         \/ /\ call'[c].pc = "backup" /\ call'[c].at = call[c].at + 1 /\ UNCHANGED journal
            /\ call[c].at \in 1..N /\ Files[call[c].at] \notin Existing
         \/ /\ call'[c].pc = "copy" /\ call'[c].at = call[c].at
            /\ call[c].at \in 1..N /\ File(c) \in Existing /\ journal'.copy[File(c)] = "empty"
            /\ \A g \in Names \ {File(c)} : journal'.copy[g] = journal.copy[g]
  BY <1>1, OpenCopyIs
<1>3. UNCHANGED <<mem, disk, saving>> /\ call'[Snap] = call[Snap] /\ Snap \in Workers
  BY <1>1, <1>2 DEF Works, Alone, Workers
<1>4. ASSUME NEW f, Reopened(f)
      PROVE  Reopened(f)'
  <2>1. PICK d \in Calls : call[d].pc \in {"copy", "broken"} /\ File(d) = f
    BY <1>4 DEF Reopened
  <2>2. call'[d] = call[d]
    BY <1>2, <2>1, FilesAre DEF Works, Alone
  <2> QED BY <2>1, <2>2 DEF Reopened, File
<1>5. CopiesStay
  <2>1. CASE UNCHANGED journal
    BY <1>4, <2>1 DEF CopiesStay, Copied
  <2>2. CASE /\ call'[c].pc = "copy" /\ call'[c].at = call[c].at
             /\ File(c) \in Existing /\ journal'.copy[File(c)] = "empty"
             /\ \A g \in Names \ {File(c)} : journal'.copy[g] = journal.copy[g]
    <3>1. PICK f \in Existing : f = File(c)
      BY <2>2
    <3>2. Reopened(f)'
      BY <2>2, <3>1 DEF Reopened, File
    <3>3. Copied(f)'
      BY <2>2, <3>1, <3>2 DEF Copied
    <3>4. \A g \in Existing \ {f} : Copied(g) => Copied(g)'
      BY <1>1, <1>4, <2>2, <3>1 DEF Copied
    <3>5. \A g \in Existing : journal.copy[g] # None => journal'.copy[g] # None
      BY <1>1, <2>2 DEF None
    <3> QED BY <3>3, <3>4, <3>5 DEF CopiesStay
  <2> QED BY <1>2, <2>1, <2>2
<1>6. (Claimed(c)' => Claimed(c)) /\ PlaceInv(c)'
  BY <1>2, <1>3 DEF Claimed, TransferInv, PlaceInv
<1>7. FilesInv(c)'
  <2>1. ASSUME mem.status = "approved"
        PROVE  \A i \in 1..N : i < call[c].at /\ Files[i] \in Existing => Copied(Files[i])'
    BY <1>2, <1>5, <2>1 DEF TransferInv, FilesInv, CopiesStay
  <2>2. CASE call'[c].pc = "claim" /\ ~More(c)
    <3>1. \A i \in 1..N : i < call[c].at
      BY <1>1, <2>2 DEF More
    <3>2. mem.status = "approved" => AllCopied'
      BY <2>1, <3>1, FilesAre DEF AllCopied
    <3> QED BY <1>3, <2>2, <3>2 DEF FilesInv
  <2>3. CASE call'[c].pc = "refused"
    BY <2>3 DEF FilesInv
  <2>4. CASE /\ call'[c].pc = "backup" /\ call'[c].at = call[c].at + 1
             /\ call[c].at \in 1..N /\ Files[call[c].at] \notin Existing
    <3>1. \A i \in 1..N : i < call'[c].at => i < call[c].at \/ i = call[c].at
      BY <1>1, <2>4
    <3>2. mem.status = "approved" =>
            \A i \in 1..N : i < call'[c].at /\ Files[i] \in Existing => Copied(Files[i])'
      BY <2>1, <2>4, <3>1
    <3> QED BY <1>3, <2>4, <3>2 DEF FilesInv
  <2>5. CASE /\ call'[c].pc = "copy" /\ call'[c].at = call[c].at
             /\ call[c].at \in 1..N /\ File(c) \in Existing /\ journal'.copy[File(c)] = "empty"
    <3>1. File(c)' = File(c)
      BY <2>5 DEF File
    <3> QED BY <1>3, <2>1, <2>5, <3>1 DEF FilesInv, None
  <2> QED BY <1>2, <2>2, <2>3, <2>4, <2>5
<1>8. RestoreInv(c)' /\ SnapPlace'
  BY <1>2, <1>3 DEF RestoreInv, TransferInv, SnapPlace
<1> QED BY <1>1, <1>2, <1>5, <1>6, <1>7, <1>8, WorksInv

\* The open copy is written, or given up as it is.
LEMMA WriteCopyInv ==
    ASSUME TransferInv, NEW c \in Calls, WriteCopy(c)
    PROVE  TransferInv'
<1>1. /\ c \in Workers /\ c # Snap /\ Shape /\ N \in Nat
      /\ Existing \subseteq Names
  BY FilesAre DEF TransferInv
<1>2. /\ Works(c) /\ Shape' /\ UNCHANGED target /\ call[c].pc = "copy"
      /\ call[c].at \in 1..N /\ File(c) \in Names
      /\ \/ call'[c].pc = "broken" /\ call'[c].at = call[c].at /\ UNCHANGED journal
         \/ /\ call'[c].pc = "backup" /\ call'[c].at = call[c].at + 1
            /\ journal'.copy[File(c)] = IF journal.copy[File(c)] = None THEN None ELSE "old"
            /\ \A g \in Names \ {File(c)} : journal'.copy[g] = journal.copy[g]
  BY <1>1, WriteCopyIs
<1>3. UNCHANGED <<mem, disk, saving>> /\ call'[Snap] = call[Snap] /\ Snap \in Workers
  BY <1>1, <1>2 DEF Works, Alone, Workers
<1>4. CASE call'[c].pc = "broken" /\ call'[c].at = call[c].at /\ UNCHANGED journal
  <2>1. ASSUME NEW f, Reopened(f)
        PROVE  Reopened(f)'
    <3>1. PICK d \in Calls : call[d].pc \in {"copy", "broken"} /\ File(d) = f
      BY <2>1 DEF Reopened
    <3>2. CASE d = c
      BY <1>4, <3>1, <3>2 DEF Reopened, File
    <3>3. CASE d # c
      <4>1. call'[d] = call[d]
        BY <1>2, <3>3, FilesAre DEF Works, Alone
      <4> QED BY <3>1, <4>1 DEF Reopened, File
    <3> QED BY <3>2, <3>3
  <2>2. CopiesStay
    BY <1>4, <2>1 DEF CopiesStay, Copied
  <2>3. /\ (Claimed(c)' => Claimed(c)) /\ PlaceInv(c)' /\ FilesInv(c)'
        /\ RestoreInv(c)' /\ SnapPlace'
    BY <1>3, <1>4 DEF Claimed, PlaceInv, FilesInv, RestoreInv, TransferInv, SnapPlace
  <2> QED BY <1>1, <1>2, <2>2, <2>3, WorksInv
<1>5. CASE /\ call'[c].pc = "backup" /\ call'[c].at = call[c].at + 1
           /\ journal'.copy[File(c)] = IF journal.copy[File(c)] = None THEN None ELSE "old"
           /\ \A g \in Names \ {File(c)} : journal'.copy[g] = journal.copy[g]
  <2>1. ASSUME NEW f, f # File(c), Reopened(f)
        PROVE  Reopened(f)'
    <3>1. PICK d \in Calls : call[d].pc \in {"copy", "broken"} /\ File(d) = f
      BY <2>1 DEF Reopened
    <3>2. d # c
      BY <2>1, <3>1
    <3>3. call'[d] = call[d]
      BY <1>2, <3>2, FilesAre DEF Works, Alone
    <3> QED BY <3>1, <3>3 DEF Reopened, File
  <2>2. journal.copy[File(c)] # None => journal'.copy[File(c)] = "old"
    BY <1>5
  <2>3. \A g \in Existing : Copied(g) => Copied(g)'
    <3> SUFFICES ASSUME NEW g \in Existing, Copied(g) PROVE Copied(g)'
      OBVIOUS
    <3>1. CASE g = File(c)
      <4>1. journal.copy[File(c)] # None
        BY <3>1 DEF Copied, None
      <4> QED BY <2>2, <3>1, <4>1 DEF Copied
    <3>2. CASE g # File(c)
      BY <1>1, <1>5, <2>1, <3>2 DEF Copied
    <3> QED BY <3>1, <3>2
  <2>4. CopiesStay
    <3>1. \A g \in Existing : journal.copy[g] # None => journal'.copy[g] # None
      BY <1>1, <1>5, <2>2 DEF None
    <3> QED BY <2>3, <3>1 DEF CopiesStay
  <2>5. (Claimed(c)' => Claimed(c)) /\ PlaceInv(c)'
    BY <1>2, <1>3, <1>5 DEF Claimed, TransferInv, PlaceInv
  <2>6. FilesInv(c)'
    <3>1. ASSUME mem.status = "approved"
          PROVE  \A i \in 1..N : i < call'[c].at /\ Files[i] \in Existing => Copied(Files[i])'
      <4>1. PICK f : f = File(c)
        OBVIOUS
      <4>2. Copied(f)'
        BY <1>2, <2>2, <3>1, <4>1 DEF TransferInv, FilesInv, Copied
      <4>3. \A i \in 1..N : i < call'[c].at => i < call[c].at \/ Files[i] = f
        BY <1>1, <1>2, <1>5, <4>1 DEF File
      <4>4. \A i \in 1..N : i < call[c].at /\ Files[i] \in Existing => Copied(Files[i])'
        BY <1>2, <2>3, <3>1 DEF TransferInv, FilesInv
      <4> QED BY <4>2, <4>3, <4>4
    <3> QED BY <1>3, <1>5, <3>1 DEF FilesInv
  <2>7. RestoreInv(c)' /\ SnapPlace'
    BY <1>3, <1>5 DEF RestoreInv, TransferInv, SnapPlace
  <2> QED BY <1>1, <1>2, <2>4, <2>5, <2>6, <2>7, WorksInv
<1> QED BY <1>2, <1>4, <1>5

\* The file at hand is replaced, or there are none left, or one throws.
LEMMA WriteFileInv ==
    ASSUME TransferInv, NEW c \in Calls, WriteFile(c)
    PROVE  TransferInv'
<1>1. /\ c \in Workers /\ c # Snap /\ Shape /\ Snap \in Workers
      /\ N \in Nat /\ call[c].at \in 1..(N + 1)
  BY FilesAre DEF TransferInv, Shape, Place, Workers
<1>2. /\ Works(c) /\ Shape' /\ UNCHANGED journal /\ call[c].pc = "write"
      /\ \/ call'[c].pc = "clear" /\ ~More(c) /\ UNCHANGED target
         \/ call'[c].pc = "restore" /\ call'[c].at = 1 /\ UNCHANGED target
         \/ /\ call'[c].pc = "write" /\ call'[c].at = call[c].at + 1
            /\ call[c].at \in 1..N /\ Files[call[c].at] \in Names
            /\ target' = [target EXCEPT ![Files[call[c].at]] = "new"]
  BY <1>1, WriteFileIs
<1>3. /\ UNCHANGED <<mem, disk, saving, launches>> /\ call'[Snap] = call[Snap] /\ Saved(c)
  BY <1>1, <1>2 DEF Works, Alone
<1>4. Busy(c) /\ disk.status = "committing" /\ mem.status = "committing" /\ Up
  BY <1>1, <1>2, <1>3, BusyIs DEF Busy
<1>5. Claimed(c) /\ PlaceInv(c)'
  BY <1>2, <1>3, <1>4 DEF PlaceInv, Claimed, Up
<1>6. FilesInv(c)'
  <2>1. AllCopied' /\ \A i \in 1..N : i < call[c].at => target[Files[i]] \in {"new", "edited"}
    <3>1. CopiesStay
      BY <1>1, <1>2, CopiesUntouched DEF Works
    <3> QED BY <1>2, <3>1 DEF TransferInv, FilesInv, AllCopied, CopiesStay
  <2>2. CASE call'[c].pc = "clear" /\ ~More(c) /\ UNCHANGED target
    <3>1. call[c].at = N + 1
      BY <1>1, <2>2 DEF More
    <3>2. \A i \in 1..N : i < call[c].at
      BY <1>1, <3>1
    <3>3. AllNew'
      BY <2>1, <2>2, <3>2, FilesAre DEF AllNew
    <3> QED BY <2>2, <3>3 DEF FilesInv
  <2>3. CASE call'[c].pc = "restore"
    BY <2>3 DEF FilesInv
  <2>4. CASE /\ call'[c].pc = "write" /\ call'[c].at = call[c].at + 1
             /\ call[c].at \in 1..N /\ Files[call[c].at] \in Names
             /\ target' = [target EXCEPT ![Files[call[c].at]] = "new"]
    <3>1. \A i \in 1..N : i < call'[c].at => i < call[c].at \/ i = call[c].at
      BY <1>1, <2>4
    <3>2. \A f \in Names : target'[f] = target[f] \/ target'[f] = "new"
      BY <1>1, <2>4 DEF Shape
    <3>3. target'[Files[call[c].at]] = "new"
      BY <1>1, <2>4 DEF Shape
    <3>4. \A i \in 1..N : i < call'[c].at => target'[Files[i]] \in {"new", "edited"}
      BY <2>1, <3>1, <3>2, <3>3, FilesAre
    <3> QED BY <2>1, <2>4, <3>4 DEF FilesInv
  <2> QED BY <1>2, <2>2, <2>3, <2>4
<1>7. RestoreInv(c)'
  <2>1. CASE call'[c].pc = "restore" /\ call'[c].at = 1
    <3>1. \A i \in 1..N : ~(i + 1 > N + 1)
      BY <1>1
    <3> QED BY <2>1, <3>1 DEF RestoreInv
  <2>2. CASE call'[c].pc # "restore"
    BY <1>2, <2>2 DEF RestoreInv
  <2> QED BY <1>2, <2>1, <2>2
<1>8. SnapPlace'
  BY <1>3 DEF TransferInv, SnapPlace
<1> QED BY <1>1, <1>2, <1>4, <1>5, <1>6, <1>7, <1>8, WorksInv

LEMMA ClearJournalInv ==
    ASSUME TransferInv, NEW c \in Calls, ClearJournal(c)
    PROVE  TransferInv'
<1>1. c \in Workers /\ c # Snap /\ Shape /\ Snap \in Workers
  BY FilesAre DEF TransferInv, Workers
<1>2. /\ Works(c) /\ Shape' /\ UNCHANGED target
      /\ call[c].pc = "clear" /\ call'[c].pc = "finish"
  BY <1>1, ClearJournalIs
<1>3. /\ UNCHANGED <<mem, disk, saving, launches>> /\ call'[Snap] = call[Snap] /\ Saved(c)
  BY <1>1, <1>2 DEF Works, Alone
<1>4. Busy(c) /\ disk.status = "committing" /\ mem.status = "committing" /\ Up
  BY <1>1, <1>2, <1>3, BusyIs DEF Busy
<1>5. Claimed(c) /\ PlaceInv(c)'
  BY <1>2, <1>3, <1>4 DEF PlaceInv, Claimed, Up
<1>6. FilesInv(c)' /\ RestoreInv(c)' /\ SnapPlace'
  BY <1>2, <1>3 DEF TransferInv, FilesInv, RestoreInv, AllNew, SnapPlace
<1> QED BY <1>1, <1>2, <1>4, <1>5, <1>6, WorksInv

\* A copy is put back, or a created file removed; then the copies are dropped.
LEMMA RestoreWorksInv ==
    ASSUME TransferInv, NEW w \in Workers, Restore(w) \/ DropJournal(w)
    PROVE  TransferInv'
<1>1. Shape /\ N \in Nat /\ call[w].at \in 1..(N + 1) /\ Snap \in Workers
  BY FilesAre DEF TransferInv, Shape, Place, Workers
<1>2. /\ Works(w) /\ Shape' /\ call[w].pc \in {"restore", "drop"}
      /\ call'[w].pc \in {"restore", "drop", "fail", "threw"}
      /\ \/ UNCHANGED target
         \/ \E i \in 1..N, text \in Contents \ {"new"} : target' = [target EXCEPT ![Files[i]] = text]
  BY <1>1, RestoreIs, DropJournalIs
<1>3. \A f \in Names : target[f] # "new" => target'[f] # "new"
  BY <1>1, <1>2 DEF Shape
<1>4. /\ UNCHANGED <<mem, disk, saving, launches>> /\ Saved(w)
      /\ \A v \in Workers \ {w} : call'[v] = call[v]
  BY <1>1, <1>2 DEF Works, Alone
<1>5. Busy(w) /\ mem.status = "committing" /\ Up /\ (NoneNew => NoneNew')
  BY <1>1, <1>2, <1>3, BusyIs DEF Busy, NoneNew
<1>6. w \in Calls => Claimed(w) /\ PlaceInv(w)' /\ FilesInv(w)'
  <2>1. w \in Calls => disk.status = "committing"
    BY <1>4, <1>5, BusyIs
  <2> QED BY <1>2, <1>4, <1>5, <2>1 DEF PlaceInv, FilesInv, Claimed, Up
<1>7. RestoreInv(w)'
  <2>1. CASE DropJournal(w)
    BY <1>1, <2>1, DropJournalIs DEF TransferInv, RestoreInv, NoneNew
  <2>2. CASE Restore(w)
    <3>1. call[w].pc = "restore" /\
          \A i \in 1..N : i + call[w].at > N + 1 => target[Files[i]] # "new"
      BY <1>1, <2>2, RestoreIs DEF TransferInv, RestoreInv
    <3>2. CASE call'[w].pc = "drop" /\ ~More(w) /\ UNCHANGED target
      <4>1. \A i \in 1..N : i + call[w].at > N + 1
        BY <1>1, <3>2 DEF More
      <4>2. NoneNew'
        BY <3>1, <3>2, <4>1, FilesAre DEF NoneNew
      <4> QED BY <3>2, <4>2 DEF RestoreInv
    <3>3. CASE call'[w].pc = "threw"
      BY <3>3 DEF RestoreInv
    <3>4. CASE /\ call'[w].pc = "restore" /\ call'[w].at = call[w].at + 1
               /\ call[w].at \in 1..N /\ N + 1 - call[w].at \in 1..N
               /\ \E text \in Contents \ {"new"} :
                    target' = [target EXCEPT ![Files[N + 1 - call[w].at]] = text]
      <4>1. PICK j \in 1..N : j = N + 1 - call[w].at
        BY <3>4
      <4>2. target'[Files[j]] # "new"
        BY <1>1, <3>4, <4>1, FilesAre DEF Shape
      <4>3. \A i \in 1..N : i + call'[w].at > N + 1 => i + call[w].at > N + 1 \/ i = j
        BY <1>1, <3>4, <4>1
      <4>4. \A i \in 1..N : i + call'[w].at > N + 1 => target'[Files[i]] # "new"
        BY <1>3, <3>1, <4>2, <4>3, FilesAre
      <4> QED BY <3>4, <4>4 DEF RestoreInv
    <3> QED BY <1>1, <2>2, <3>2, <3>3, <3>4, RestoreIs
  <2> QED BY <2>1, <2>2
<1>8. SnapPlace'
  <2>1. CASE w = Snap
    BY <1>2, <2>1 DEF SnapPlace
  <2>2. CASE w # Snap
    BY <1>1, <1>4, <2>2 DEF TransferInv, SnapPlace
  <2> QED BY <2>1, <2>2
<1>9. w = Snap => \A c \in Calls : ~Claimed(c) /\ Saved(c)
  BY <1>2 DEF TransferInv, SnapInv
<1> QED BY <1>2, <1>5, <1>6, <1>7, <1>8, <1>9, WorksInv

LEMMA SnapshotInv ==
    ASSUME TransferInv, ~MayOverlap, Snapshot
    PROVE  TransferInv'
<1>1. /\ Works(Snap) /\ Shape' /\ UNCHANGED <<target, journal>> /\ mem.recovery
      /\ call'[Snap].pc = "restore" /\ call'[Snap].at = 1
      /\ \A c \in Calls : ~Claimed(c) /\ Saved(c)
  BY SnapshotIs DEF TransferInv
<1>2. mem.status = "committing" /\ Snap \in Workers /\ Snap \notin Calls /\ N \in Nat
  BY <1>1, FilesAre DEF TransferInv, PlanInv, Workers
<1>3. RestoreInv(Snap)'
  <2>1. \A i \in 1..N : ~(i + 1 > N + 1)
    BY <1>2
  <2> QED BY <1>1, <2>1 DEF RestoreInv
<1>4. SnapPlace' /\ CopiesStay
  BY <1>1, <1>2, CopiesUntouched DEF SnapPlace, Works
<1> QED BY <1>1, <1>2, <1>3, <1>4, WorksInv

-----------------------------------------------------------------------------
(* Steps that change the plan, and steps that write it.                    *)

\* The plan is made or approved: nobody is at work on it yet.
LEMMA UserInv ==
    ASSUME TransferInv, CreatePlan \/ ConfirmSource
    PROVE  TransferInv'
<1>1. PICK m \in PlanStates :
        /\ Mutates(User, m) /\ Shape' /\ UNCHANGED call /\ barrier = None /\ barrier' = User
        /\ m.recovery = mem.recovery
        /\ \/ mem.status = None /\ m.status = "awaiting_confirmation"
           \/ mem.status = "awaiting_confirmation" /\ m.status = "approved"
  BY UserIs DEF TransferInv
<1>2. mem.status \in Early /\ mem.status # "failed"
  BY <1>1 DEF Early, None
<1>3. /\ \A w \in Workers : ~Busy(w)
      /\ \A c \in Calls : call[c].pc # "committed"
      /\ disk.status \in Early /\ NoneNew /\ mem.recovery = FALSE
  BY <1>2, EarlyIs
<1>4. /\ mem' = m /\ UNCHANGED <<disk, target, journal, launches>> /\ Up
      /\ saving'[User].pc = "changed"
      /\ \A a \in Actors \ {User} : saving'[a] = saving[a] /\ Saved(a) /\ saving'[a].pc = None
  BY <1>1, <1>2, FreeIs DEF Mutates, Saved
<1>5. m.status \in {"awaiting_confirmation", "approved"} /\ m.recovery = FALSE
  BY <1>1, <1>3
<1>6. PlanInv'
  BY <1>3, <1>4, <1>5 DEF TransferInv, PlanInv, NoneNew, Early, None
<1>7. SaveInv'
  <2>1. User \in Actors /\ Snap \in Actors /\ User # Snap
    BY FilesAre DEF Workers
  <2>2. \A a \in Actors : a = User \/ (saving'[a].pc = None /\ Saved(a)')
    BY <1>4 DEF Saved
  <2>3. saving'[User].pc # "serialized"
    BY <1>4
  <2> QED BY <1>1, <1>4, <1>5, <2>1, <2>2, <2>3 DEF SaveInv, None
<1>8. ClaimedOnce' /\ SnapInv' /\ SnapPlace' /\ DownInv'
  BY <1>1, <1>3, <1>4, FilesAre
     DEF ClaimedOnce, Claimed, Busy, SnapInv, SnapPlace, DownInv, TransferInv, Up, Workers
<1>9. ASSUME NEW c \in Calls
      PROVE  PlaceInv(c)' /\ FilesInv(c)'
  <2>1. /\ ~Busy(c) /\ call[c].pc # "committed"
        /\ call[c].pc \notin {"prepare", "mkdir", "backup", "copy", "claim"}
    BY <1>1, <1>3, FilesAre DEF TransferInv, PlaceInv
  <2> QED BY <1>1, <2>1 DEF PlaceInv, FilesInv, Claimed, Busy
<1>10. \A w \in Workers : RestoreInv(w)'
  BY <1>1, <1>3 DEF RestoreInv, Busy
<1> QED BY <1>1, <1>6, <1>7, <1>8, <1>9, <1>10 DEF TransferInv

\* The plan is claimed: it was approved, so nobody else writes it.
LEMMA ClaimStepInv ==
    ASSUME TransferInv, NEW c \in Calls, Claim(c)
    PROVE  TransferInv'
<1>1. /\ Shape /\ c \in Workers /\ c \in Actors /\ c # Snap /\ c # User
      /\ Snap \in Workers /\ N \in Nat
  BY FilesAre DEF TransferInv, Workers
<1>2. Shape' /\ Alone(c) /\ call[c].pc = "claim"
  BY <1>1, ClaimIs
<1>3. CASE Works(c) /\ call'[c].pc = "refused" /\ UNCHANGED <<target, journal>>
  <2>1. CopiesStay /\ SnapPlace'
    BY <1>1, <1>2, <1>3, CopiesUntouched DEF TransferInv, SnapPlace, Alone
  <2>2. ~Claimed(c)' /\ PlaceInv(c)' /\ FilesInv(c)' /\ RestoreInv(c)'
    BY <1>3 DEF Claimed, PlaceInv, FilesInv, RestoreInv
  <2> QED BY <1>1, <1>2, <1>3, <2>1, <2>2, WorksInv
<1>4. CASE /\ barrier = None /\ barrier' = c /\ mem.status = "approved"
           /\ Mutates(c, [status |-> "committing", recovery |-> TRUE, confirmed |-> FALSE])
           /\ call'[c].pc = "write" /\ call'[c].at = 1
  <2>1. mem.status \in Early /\ mem.status # "failed"
    BY <1>4 DEF Early
  <2>2. /\ \A w \in Workers : ~Busy(w)
        /\ \A d \in Calls : call[d].pc # "committed"
        /\ disk.status \in Early /\ NoneNew
    BY <2>1, EarlyIs
  <2>3. /\ mem'.status = "committing" /\ mem'.recovery = TRUE
        /\ UNCHANGED <<disk, target, journal, launches>> /\ Up
        /\ saving'[c].pc = "changed"
        /\ \A a \in Actors \ {c} : saving'[a] = saving[a] /\ Saved(a) /\ saving'[a].pc = None
        /\ \A v \in Workers \ {c} : call'[v] = call[v]
    BY <1>2, <1>4, <2>1, FreeIs DEF Mutates, Saved, Alone
  <2>4. PlanInv'
    BY <2>2, <2>3 DEF TransferInv, PlanInv, NoneNew, Early, None
  <2>5. SaveInv'
    BY <1>1, <1>4, <2>3, FilesAre DEF SaveInv, Saved, None
  <2>6. \A d \in Calls : Claimed(d)' => d = c
    BY <1>1, <2>2, <2>3, FilesAre DEF Claimed, Busy
  <2>7. ~(call'[Snap].pc \in {"restore", "drop", "fail"}) /\ SnapPlace'
    BY <1>1, <2>2, <2>3 DEF Busy, TransferInv, SnapPlace
  <2>8. ClaimedOnce' /\ SnapInv' /\ DownInv'
    BY <2>3, <2>6, <2>7 DEF ClaimedOnce, SnapInv, DownInv, Up
  <2>9. ASSUME NEW d \in Calls
        PROVE  PlaceInv(d)' /\ FilesInv(d)'
    <3>1. CASE d = c
      <4>1. AllCopied /\ \A i \in 1..N : ~(i < 1)
        BY <1>1, <1>2, <1>4 DEF TransferInv, FilesInv
      <4>2. FilesInv(c)'
        <5>1. CopiesStay
          BY <1>1, <1>2, <2>3, CopiesUntouched
        <5>2. AllCopied'
          BY <4>1, <5>1 DEF AllCopied, CopiesStay
        <5> QED BY <1>4, <2>3, <4>1, <5>2 DEF FilesInv
      <4>3. ~Saved(c)'
        BY <2>3 DEF Saved, None
      <4>4. PlaceInv(c)'
        BY <1>4, <2>3, <4>3 DEF PlaceInv, Up, None
      <4> QED BY <3>1, <4>2, <4>4
    <3>2. CASE d # c
      <4>1. call'[d] = call[d] /\ ~Busy(d) /\ call[d].pc # "committed"
        BY <2>2, <2>3, <3>2, FilesAre
      <4> QED BY <2>3, <4>1 DEF PlaceInv, FilesInv, Claimed, Busy, None
    <3> QED BY <3>1, <3>2
  <2>10. \A w \in Workers : RestoreInv(w)'
    BY <1>4, <2>2, <2>3 DEF RestoreInv, Busy
  <2> QED BY <1>2, <2>4, <2>5, <2>8, <2>7, <2>9, <2>10 DEF TransferInv
<1> QED BY <1>1, <1>3, <1>4, ClaimIs

\* The plan is declared committed, or failed, by the only worker there is.
LEMMA SettledInv ==
    ASSUME TransferInv, NEW w \in Workers, Busy(w), NEW m \in PlanStates, Mutates(w, m), Shape',
           Alone(w), \A a \in Actors : Saved(a), w \in Calls => barrier' = w,
           m.recovery = FALSE, SnapPlace',
           \/ m.status = "failed" /\ NoneNew /\ call'[w].pc \in {"threw", "idle"}
           \/ m.status = "committed" /\ AllNew /\ w \in Calls /\ call'[w].pc = "committed"
    PROVE  TransferInv'
<1>1. /\ mem.status = "committing" /\ Up /\ disk.status \notin {"failed", "committed"}
      /\ \A v \in Workers \ {w} : ~Busy(v)
  BY BusyIs
<1>2. w \in Actors /\ (w = Snap \/ w \in Calls) /\ Snap \in Workers
  BY FilesAre DEF Workers
<1>3. /\ mem' = m /\ UNCHANGED <<disk, target, journal, launches>>
      /\ saving'[w].pc = "changed"
      /\ \A a \in Actors \ {w} : saving'[a] = saving[a] /\ saving'[a].pc = None
      /\ \A v \in Workers \ {w} : call'[v] = call[v]
  BY DEF Mutates, Saved, Alone
<1>4. PlanInv'
  BY <1>1, <1>3 DEF TransferInv, PlanInv, NoneNew, AllNew, Early, None
<1>5. SaveInv'
  <2>1. w = Snap => m.status = "failed"
    BY FilesAre
  <2> QED BY <1>2, <1>3, <2>1, FilesAre DEF SaveInv, Saved, None
<1>6. \A v \in Workers : ~Busy(v)'
  BY <1>1, <1>3 DEF Busy
<1>7. ClaimedOnce' /\ SnapInv' /\ DownInv'
  BY <1>1, <1>2, <1>3, <1>6, FilesAre DEF ClaimedOnce, Claimed, Busy, SnapInv, DownInv, Up
<1>8. ASSUME NEW c \in Calls
      PROVE  PlaceInv(c)' /\ FilesInv(c)'
  <2>1. ~Busy(c)' /\ m.status \notin {None, "awaiting_confirmation", "approved"}
    BY <1>6, FilesAre DEF None
  <2>2. CASE c = w
    <3>1. ~Saved(c)'
      BY <1>3, <2>2 DEF Saved, None
    <3> QED BY <1>3, <2>1, <2>2, <3>1 DEF PlaceInv, FilesInv, Claimed, Busy
  <2>3. CASE c # w
    <3>1. call'[c] = call[c] /\ call[c].pc # "committed"
      BY <1>1, <1>3, <2>3, FilesAre DEF TransferInv, PlaceInv
    <3> QED BY <1>3, <2>1, <3>1 DEF PlaceInv, FilesInv, Claimed, Busy
  <2> QED BY <2>2, <2>3
<1>9. \A v \in Workers : RestoreInv(v)'
  BY <1>6 DEF RestoreInv, Busy
<1> QED BY <1>4, <1>5, <1>7, <1>8, <1>9 DEF TransferInv

LEMMA SettleInv ==
    ASSUME TransferInv, NEW c \in Calls, Finish(c) \/ Fail(c)
    PROVE  TransferInv'
<1>1. c \in Workers /\ c # Snap /\ Shape /\ Snap \in Workers
  BY FilesAre DEF TransferInv, Workers
<1>2. PICK m \in PlanStates :
        /\ Mutates(c, m) /\ Shape' /\ Alone(c) /\ barrier = None /\ barrier' = c
        /\ m.recovery = FALSE
        /\ \/ call[c].pc = "finish" /\ call'[c].pc = "committed" /\ m.status = "committed"
           \/ call[c].pc = "fail" /\ call'[c].pc = "threw" /\ m.status = "failed"
  BY <1>1, SettleIs
<1>3. Busy(c)
  BY <1>2 DEF Busy
<1>4. \A a \in Actors : Saved(a)
  BY <1>1, <1>2, <1>3, BusyIs, FreeIs
<1>5. SnapPlace'
  BY <1>1, <1>2 DEF TransferInv, SnapPlace, Alone
<1>6. /\ call[c].pc = "finish" => AllNew
      /\ call[c].pc = "fail" => NoneNew
  BY <1>1 DEF TransferInv, FilesInv, RestoreInv
<1> QED BY <1>1, <1>2, <1>3, <1>4, <1>5, <1>6, SettledInv

LEMMA RecoveredInv ==
    ASSUME TransferInv, Recovered
    PROVE  TransferInv'
<1>1. Shape /\ Snap \in Workers /\ Snap \notin Calls
  BY FilesAre DEF TransferInv, Workers
<1>2. PICK m \in PlanStates :
        /\ Mutates(Snap, m) /\ Shape' /\ Alone(Snap) /\ UNCHANGED barrier
        /\ call[Snap].pc = "fail" /\ call'[Snap].pc = "idle" /\ m.recovery = FALSE
        /\ m.status = IF mem.status = "committing" THEN "failed" ELSE mem.status
  BY <1>1, RecoveredIs
<1>3. Busy(Snap) /\ NoneNew
  BY <1>1, <1>2 DEF Busy, TransferInv, RestoreInv
<1>4. mem.status = "committing" /\ \A c \in Calls : Saved(c)
  BY <1>2 DEF TransferInv, SnapInv
<1>5. \A a \in Actors : Saved(a)
  <2>1. Saved(Snap) /\ Saved(User)
    BY <1>2, <1>4 DEF Mutates, TransferInv, SaveInv
  <2> QED BY <1>4, <2>1 DEF Actors
<1>6. SnapPlace'
  BY <1>2 DEF SnapPlace
<1> QED BY <1>1, <1>2, <1>3, <1>4, <1>5, <1>6, SettledInv

LEMMA SerializeInv ==
    ASSUME TransferInv, NEW a \in Actors, Serialize(a)
    PROVE  TransferInv'
<1>1. /\ Shape' /\ saving[a].pc = "changed"
      /\ saving'[a].pc = "serialized" /\ saving'[a].body = mem
      /\ \A b \in Actors \ {a} : saving'[b] = saving[b]
      /\ UNCHANGED <<mem, disk, barrier, target, journal, call, launches>>
  BY SerializeIs DEF TransferInv, Serialize
<1>2. \A b \in Actors : Saved(b)' <=> Saved(b)
  BY <1>1 DEF Saved, None
<1>3. SaveInv'
  <2>1. \A b \in Actors : saving'[b].pc = "serialized" => saving'[b].body = mem
    BY <1>1 DEF TransferInv, SaveInv
  <2> QED BY <1>1, <1>2, <2>1, FilesAre DEF TransferInv, SaveInv, Actors
<1>4. PlanInv' /\ ClaimedOnce' /\ SnapPlace' /\ \A w \in Workers : RestoreInv(w)'
  BY <1>1 DEF TransferInv, PlanInv, ClaimedOnce, Claimed, SnapPlace, RestoreInv, NoneNew, AllNew
<1>5. SnapInv' /\ DownInv'
  BY <1>1, <1>2, FilesAre DEF TransferInv, SnapInv, DownInv, Claimed, Up
<1>6. \A c \in Calls : PlaceInv(c)' /\ FilesInv(c)'
  BY <1>1, <1>2, FilesAre
     DEF TransferInv, PlaceInv, FilesInv, Claimed, Up, AllCopied, Copied, Reopened, File, AllNew
<1> QED BY <1>1, <1>3, <1>4, <1>5, <1>6 DEF TransferInv

\* The state file now says what the object says.
LEMMA LandInv ==
    ASSUME TransferInv, NEW a \in Actors, Land(a)
    PROVE  TransferInv'
<1>1. /\ Shape' /\ saving[a].pc = "serialized" /\ disk' = mem
      /\ saving'[a].pc = None /\ \A b \in Actors \ {a} : saving'[b] = saving[b]
      /\ barrier' = IF barrier = a THEN None ELSE barrier
      /\ UNCHANGED <<mem, target, journal, call, launches>>
  BY LandIs DEF TransferInv, SaveInv, Land
<1>2. /\ ~Saved(a) /\ Saved(a)' /\ \A b \in Actors : b # a => (Saved(b)' <=> Saved(b))
  BY <1>1 DEF Saved, None
<1>3. Up
  BY <1>2 DEF TransferInv, DownInv
<1>4. PlanInv'
  <2>1. mem.status \in Early => NoneNew
    BY DEF TransferInv, PlanInv
  <2> QED BY <1>1, <2>1 DEF TransferInv, PlanInv, NoneNew, AllNew
<1>5. SaveInv'
  <2>1. \A b \in Actors : saving'[b].pc = "serialized" => saving'[b].body = mem
    BY <1>1 DEF TransferInv, SaveInv, None
  <2>2. \A b \in Actors \ {Snap} : ~Saved(b)' => barrier' = b
    <3> SUFFICES ASSUME NEW b \in Actors \ {Snap}, ~Saved(b)' PROVE barrier' = b
      OBVIOUS
    <3>1. b # a /\ ~Saved(b)
      BY <1>2
    <3>2. barrier = b
      BY <3>1 DEF TransferInv, SaveInv
    <3> QED BY <1>1, <3>1, <3>2
  <2>3. /\ ~Saved(User)' => mem.status \in {"awaiting_confirmation", "approved"}
        /\ ~Saved(Snap)' => mem.status = "failed"
    BY <1>2, FilesAre DEF TransferInv, SaveInv, Actors
  <2> QED BY <1>1, <2>1, <2>2, <2>3 DEF SaveInv
<1>6. ClaimedOnce' /\ SnapPlace' /\ \A w \in Workers : RestoreInv(w)'
  BY <1>1 DEF TransferInv, ClaimedOnce, Claimed, SnapPlace, RestoreInv, NoneNew
<1>7. SnapInv' /\ DownInv'
  BY <1>1, <1>2, <1>3, FilesAre DEF TransferInv, SnapInv, DownInv, Claimed, Up
<1>8. \A c \in Calls : PlaceInv(c)' /\ FilesInv(c)'
  BY <1>1 DEF TransferInv, PlaceInv, FilesInv, Claimed, Up, AllCopied, Copied, Reopened, File, AllNew
<1> QED BY <1>1, <1>4, <1>5, <1>6, <1>7, <1>8 DEF TransferInv

\* What is unwritten is gone, and with it the calls that have no answer.
LEMMA CrashInv ==
    ASSUME TransferInv, Crash
    PROVE  TransferInv'
<1>1. /\ Shape' /\ ~Up' /\ mem' = disk /\ UNCHANGED <<disk, target, journal>>
      /\ \A a \in Actors : Saved(a)' /\ saving'[a].pc = None
      /\ call'[Snap].pc = "idle"
      /\ \A c \in Calls : \/ call'[c].pc = "lost"
                          \/ call'[c] = call[c] /\ call[c].pc = "idle"
                          \/ call'[c] = call[c] /\ Answered(c)
  BY CrashIs DEF TransferInv
<1>2. PlanInv'
  BY <1>1 DEF TransferInv, PlanInv, NoneNew, AllNew
<1>3. SaveInv' /\ SnapInv' /\ SnapPlace'
  BY <1>1, FilesAre DEF SaveInv, SnapInv, SnapPlace, None, Actors
<1>4. \A c \in Calls : call'[c].pc \in {"idle", "committed", "lost"}
  BY <1>1 DEF Answered
<1>5. \A w \in Workers : ~Busy(w)'
  BY <1>1, <1>4 DEF Busy, Workers
<1>6. DownInv' /\ ClaimedOnce'
  BY <1>1, <1>4 DEF DownInv, ClaimedOnce, Claimed
<1>7. ASSUME NEW c \in Calls
      PROVE  PlaceInv(c)' /\ FilesInv(c)'
  <2>1. call'[c].pc = "committed" => disk.status = "committed"
    BY <1>1 DEF Answered, TransferInv, PlaceInv
  <2> QED BY <1>1, <1>4, <2>1 DEF PlaceInv, FilesInv, Claimed
<1>8. \A w \in Workers : RestoreInv(w)'
  BY <1>5 DEF RestoreInv, Busy
<1> QED BY <1>1, <1>2, <1>3, <1>6, <1>7, <1>8 DEF TransferInv

\* The state file is read again.
LEMMA LaunchInv ==
    ASSUME TransferInv, Launch
    PROVE  TransferInv'
<1>1. /\ Shape' /\ ~Up /\ mem'.status = disk.status /\ mem'.recovery = disk.recovery
      /\ UNCHANGED <<disk, barrier, saving, target, journal, call>>
  BY LaunchIs DEF TransferInv
<1>2. /\ \A a \in Actors : Saved(a) /\ saving[a].pc = None
      /\ \A c \in Calls : call[c].pc \in {"idle", "committed", "lost"}
  BY <1>1 DEF TransferInv, DownInv, Saved
<1>3. \A w \in Workers : ~Busy(w)
  BY <1>1, BusyIs
<1>4. PlanInv'
  BY <1>1 DEF TransferInv, PlanInv, NoneNew, AllNew
<1>5. SaveInv'
  <2>1. \A a \in Actors : Saved(a)' /\ saving'[a].pc # "serialized"
    BY <1>1, <1>2 DEF Saved, None
  <2> QED BY <2>1, FilesAre DEF SaveInv, Actors
<1>6. ClaimedOnce' /\ SnapInv' /\ SnapPlace'
  BY <1>1, <1>3, FilesAre DEF TransferInv, ClaimedOnce, Claimed, Busy, SnapInv, SnapPlace, Workers
<1>7. DownInv'
  BY <1>1, <1>2 DEF DownInv, Saved
<1>8. ASSUME NEW c \in Calls
      PROVE  PlaceInv(c)' /\ FilesInv(c)'
  <2>1. call[c].pc = "committed" => disk.status = "committed"
    BY <1>2, FilesAre DEF TransferInv, PlaceInv
  <2> QED BY <1>1, <1>2, <2>1 DEF PlaceInv, FilesInv, Claimed
<1>9. \A w \in Workers : RestoreInv(w)'
  BY <1>1, <1>3 DEF RestoreInv, Busy
<1> QED BY <1>1, <1>4, <1>5, <1>6, <1>7, <1>8, <1>9 DEF TransferInv

\* The author's text is neither the old nor the new one.
LEMMA EditInv ==
    ASSUME TransferInv, NEW f \in Names, Edit(f)
    PROVE  TransferInv'
<1>1. /\ Shape' /\ target' = [target EXCEPT ![f] = "edited"]
      /\ UNCHANGED <<mem, disk, barrier, saving, journal, call, launches>>
  BY EditIs DEF TransferInv
<1>2. \A g \in Names : target'[g] = target[g] \/ target'[g] = "edited"
  BY <1>1 DEF TransferInv, Shape
<1>3. PlanInv' /\ SaveInv' /\ ClaimedOnce' /\ SnapInv' /\ SnapPlace' /\ DownInv'
  <2>1. PlanInv'
    BY <1>1, <1>2 DEF TransferInv, PlanInv, NoneNew, AllNew
  <2>2. SaveInv' /\ ClaimedOnce' /\ SnapInv' /\ SnapPlace' /\ DownInv'
    BY <1>1 DEF TransferInv, SaveInv, Saved, ClaimedOnce, Claimed, SnapInv, SnapPlace, DownInv, Up
  <2> QED BY <2>1, <2>2
<1>4. ASSUME NEW c \in Calls
      PROVE  PlaceInv(c)' /\ FilesInv(c)'
  <2>1. PlaceInv(c)'
    BY <1>1 DEF TransferInv, PlaceInv, Claimed, Saved, Up
  <2>2. FilesInv(c)'
    BY <1>1, <1>2, FilesAre DEF TransferInv, FilesInv, AllCopied, Copied, Reopened, File, AllNew
  <2> QED BY <2>1, <2>2
<1>5. \A w \in Workers : RestoreInv(w)'
  BY <1>1, <1>2, FilesAre DEF TransferInv, RestoreInv, NoneNew
<1> QED BY <1>1, <1>3, <1>4, <1>5 DEF TransferInv

-----------------------------------------------------------------------------
(* What follows from the invariant.                                        *)

LEMMA TransferInit ==
    ASSUME Init
    PROVE  TransferInv
<1>1. /\ Shape /\ NoneNew /\ mem = NoPlan /\ disk = NoPlan
      /\ \A a \in Actors : Saved(a) /\ saving[a].pc = None
      /\ \A w \in Workers : call[w].pc = "idle"
      /\ Up
  BY InitIs
<1>2. NoPlan.status = None /\ NoPlan.recovery = FALSE
  BY DEF NoPlan
<1>3. PlanInv
  BY <1>1, <1>2 DEF PlanInv, Early, None
<1>4. SaveInv
  <2>1. \A a \in Actors : saving[a].pc # "serialized"
    BY <1>1 DEF None
  <2> QED BY <1>1, <2>1, FilesAre DEF SaveInv, Workers
<1>5. ClaimedOnce /\ SnapInv /\ SnapPlace /\ DownInv
  BY <1>1, FilesAre DEF ClaimedOnce, Claimed, SnapInv, SnapPlace, DownInv, Workers
<1>6. \A c \in Calls : PlaceInv(c) /\ FilesInv(c)
  BY <1>1, FilesAre DEF PlaceInv, FilesInv, Claimed
<1>7. \A w \in Workers : RestoreInv(w)
  BY <1>1 DEF RestoreInv
<1> QED BY <1>1, <1>3, <1>4, <1>5, <1>6, <1>7 DEF TransferInv

LEMMA TransferNext ==
    ASSUME ~MayOverlap, TransferInv, [Next]_vars
    PROVE  TransferInv'
<1>1. CASE UNCHANGED vars
  BY <1>1
     DEF vars, TransferInv, Shape, PlanInv, SaveInv, ClaimedOnce, SnapInv, SnapPlace, DownInv,
         PlaceInv, FilesInv, RestoreInv, NoneNew, AllNew, AllCopied, Copied, Reopened, File,
         Claimed, Saved, Up
<1>2. CASE Next
  BY <1>2, NextIs, UserInv, SnapshotInv, RecoveredInv, CrashInv, LaunchInv, CommitInv, OpenCopyInv,
     WriteCopyInv, ClaimStepInv,
     WriteFileInv, ClearJournalInv, SettleInv, RestoreWorksInv, SerializeInv, LandInv, EditInv
<1> QED BY <1>1, <1>2

\* As long as no snapshot is taken while a commit is at work, the status of the
\* plan in the object and in the file, the copies, the files of the target and
\* the place of every call agree, in every state of the service.
THEOREM TransferInvariance ==
    ASSUME ~MayOverlap
    PROVE  Spec => []TransferInv
<1>1. Init => TransferInv
  BY TransferInit
<1>2. TransferInv /\ [Next]_vars => TransferInv'
  BY TransferNext
<1> QED BY <1>1, <1>2, PTL DEF Spec

\* While a commit replaces files (the loop over the staged files in
\* commitTransfer), the state file lists its recovery and every file it has
\* replaced has its copy in the journal directory: a whole one, unless another
\* call of the same plan opened it again to write it a second time and has not
\* written it.
THEOREM ReplacedHasCopyAlways ==
    ASSUME ~MayOverlap
    PROVE  Spec => []ReplacedHasCopy
<1>1. TransferInv => ReplacedHasCopy
  <2> SUFFICES ASSUME TransferInv, NEW c \in Calls, call[c].pc = "write", Saved(c)
               PROVE  disk.recovery /\ \A f \in Existing : Copied(f)
    BY DEF ReplacedHasCopy
  <2>1. c \in Workers /\ Busy(c)
    BY FilesAre DEF Busy
  <2>2. disk.status = "committing"
    BY <2>1, BusyIs
  <2>3. disk.recovery
    BY <2>2 DEF TransferInv, PlanInv
  <2> QED BY <2>3 DEF TransferInv, FilesInv, AllCopied
<1> QED BY <1>1, TransferInvariance, PTL

\* A plan the state file calls failed has left no file of its own in the target,
\* whether the commit's own error path or a later snapshot put the copies back
\* (restoreTransferRecovery), and however often the application crashed.
THEOREM FailedIsOldAlways ==
    ASSUME ~MayOverlap
    PROVE  Spec => []FailedIsOld
<1>1. TransferInv => FailedIsOld
  BY DEF TransferInv, PlanInv, FailedIsOld, NoneNew
<1> QED BY <1>1, TransferInvariance, PTL

\* A commit that has answered its caller is in the state file, and every target
\* file has the new text, or what the author made of it since; no crash undoes it.
THEOREM AnswerIsDurableAlways ==
    ASSUME ~MayOverlap
    PROVE  Spec => []AnswerIsDurable
<1>1. TransferInv => AnswerIsDurable
  <2> SUFFICES ASSUME TransferInv, NEW c \in Calls, Answered(c)
               PROVE  disk.status = "committed" /\ \A f \in Names : target[f] \in {"new", "edited"}
    BY DEF AnswerIsDurable
  <2> QED BY DEF TransferInv, PlaceInv, PlanInv, Answered, AllNew
<1> QED BY <1>1, TransferInvariance, PTL
=============================================================================
