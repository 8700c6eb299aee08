--------------------------- MODULE GeneratedCache ---------------------------
(***************************************************************************)
(* One generated text on its way into a document of the project: the cache *)
(* entry that holds it (packages/generated-cache/src/service.ts), the      *)
(* stream of the model that fills it, the discard of the user, and         *)
(* commitGeneratedCache of packages/agent-runtime/src/runtime.ts, which    *)
(* writes it to its target under a durable run and a commit journal row    *)
(* and then marks the entry committed.                                     *)
(*                                                                         *)
(* An entry is a directory with a metadata file and a content file.  Every *)
(* operation reads the metadata, awaits, and writes it back whole: nothing *)
(* orders the operations on an entry.  The target is a sequence of pieces: *)
(* the generated text is added to what is there, or replaces it.           *)
(***************************************************************************)
EXTENDS Naturals, Sequences, FiniteSets

CONSTANTS
    Commits,      \* calls of commitGeneratedCache, of one user confirmation or of several
    Deltas,       \* how many pieces of text the model streams
    Drafts,       \* whether a call may bring the text itself instead of a cache id
    Mode,         \* "append" or "replace"
    MaxEdits,     \* bound: edits the user makes to the target
    MaxLaunches   \* bound: launches of the application

ASSUME CacheAssumption ==
    /\ Deltas \in Nat \ {0} /\ Mode \in {"append", "replace"} /\ Drafts \in BOOLEAN
    /\ MaxEdits \in Nat /\ MaxLaunches \in Nat

VARIABLES
    status,   \* the status in the metadata file, "none" without one
    content,  \* the content file
    target,   \* the document
    run,      \* the durable run of each text's commit
    row,      \* the commit journal row of that run's write
    stream,   \* the model's answer arriving
    commit,   \* each commitGeneratedCache
    discard,  \* the user's discard
    edits,
    launches

vars == <<status, content, target, run, row, stream, commit, discard, edits, launches>>

Whole   == [i \in 1..Deltas |-> i]
\* What the content file can hold: a run of deltas, from wherever it was recreated.
Texts   == {<<>>} \cup {SubSeq(Whole, i, j) : i \in 1..Deltas, j \in 1..Deltas}
Gone    == [there |-> FALSE, text |-> <<>>]
Holding(text) == [there |-> TRUE, text |-> text]

Original == <<0>>
Edited   == <<0, 0>>
Up       == launches.up

NoRow    == [stage |-> "none", base |-> <<>>, new |-> <<>>]
NoStream == [pc |-> "idle", at |-> 1, seen |-> "none"]
NoCall   == [pc |-> "idle", text |-> <<>>, new |-> <<>>]

Init ==
    /\ status = "none" /\ content = Gone
    /\ target = <<Original>>
    /\ run = [t \in Texts |-> "none"]
    /\ row = [t \in Texts |-> NoRow]
    /\ stream = NoStream
    /\ commit = [c \in Commits |-> NoCall]
    /\ discard = [pc |-> "idle"]
    /\ edits = 0
    /\ launches = [count |-> 1, up |-> TRUE]

(***************************************************************************)
(* The stream: createWithId, one append per delta, then the refreshes of   *)
(* the metadata that end the turn (updateSavePlan, associate).             *)
(***************************************************************************)

Streaming == stream.pc \notin {"idle", "over"}
Flow(pc)  == stream' = [stream EXCEPT !.pc = pc]

StartStream ==
    /\ Up /\ stream.pc = "idle" /\ \A c \in Commits : commit[c].pc = "idle"
    /\ Flow("create")
    /\ UNCHANGED <<status, content, target, run, row, commit, discard, edits, launches>>

StreamCreates ==
    /\ Up /\ stream.pc = "create"
    /\ content' = Holding(<<>>) /\ status' = "pending"
    /\ Flow("read")
    /\ UNCHANGED <<target, run, row, commit, discard, edits, launches>>

\* The entry is read; unless it is pending the append throws and the entry is
\* marked failed.
StreamReads ==
    /\ Up /\ stream.pc = "read"
    /\ stream' = [stream EXCEPT !.seen = status,
                                !.pc = IF status # "pending" THEN "fail"
                                       ELSE IF stream.at <= Deltas THEN "append" ELSE "touch"]
    /\ UNCHANGED <<status, content, target, run, row, commit, discard, edits, launches>>

\* appendFile creates a file that is not there.
StreamAppends ==
    /\ Up /\ stream.pc = "append"
    /\ content' = Holding(Append(content.text, stream.at))
    /\ stream' = [stream EXCEPT !.pc = "touch", !.at = @ + 1]
    /\ UNCHANGED <<status, target, run, row, commit, discard, edits, launches>>

\* The metadata that was read is written back.  The model may break off here.
StreamTouches ==
    /\ Up /\ stream.pc = "touch"
    /\ status' = stream.seen
    /\ \/ stream.at <= Deltas /\ Flow("read")
       \/ stream.at <= Deltas /\ Flow("fail")
       \/ stream.at > Deltas  /\ (Flow("over") \/ Flow("bind"))
    /\ UNCHANGED <<content, target, run, row, commit, discard, edits, launches>>

\* associate and updateSavePlan read the entry once more; associate does not ask
\* for its status.
StreamBinds ==
    /\ Up /\ stream.pc = "bind" /\ status # "none"
    /\ stream' = [stream EXCEPT !.seen = status, !.pc = "bound"]
    /\ UNCHANGED <<status, content, target, run, row, commit, discard, edits, launches>>

StreamBound ==
    /\ Up /\ stream.pc = "bound"
    /\ status' = stream.seen /\ Flow("over")
    /\ UNCHANGED <<content, target, run, row, commit, discard, edits, launches>>

\* markFailed, whatever the status.
StreamFails ==
    /\ Up /\ stream.pc = "fail"
    /\ status' = IF status = "none" THEN status ELSE "failed"
    /\ Flow("over")
    /\ UNCHANGED <<content, target, run, row, commit, discard, edits, launches>>

(***************************************************************************)
(* discard: the metadata is read, the content deleted, the metadata        *)
(* written back as discarded.                                              *)
(***************************************************************************)

DiscardReads ==
    /\ Up /\ discard.pc = "idle" /\ status # "none"
    /\ discard' = [pc |-> "delete"]
    /\ UNCHANGED <<status, content, target, run, row, stream, commit, edits, launches>>

DiscardDeletes ==
    /\ Up /\ discard.pc = "delete"
    /\ content' = Gone /\ discard' = [pc |-> "write"]
    /\ UNCHANGED <<status, target, run, row, stream, commit, edits, launches>>

DiscardWrites ==
    /\ Up /\ discard.pc = "write"
    /\ status' = "discarded" /\ discard' = [pc |-> "done"]
    /\ UNCHANGED <<content, target, run, row, stream, commit, edits, launches>>

(***************************************************************************)
(* commitGeneratedCache up to its run.  A call without a cache id derives  *)
(* one from the text, so that the same draft finds the same entry.         *)
(***************************************************************************)

At(c, pc) == Up /\ commit[c].pc = pc
Go(c, pc) == commit' = [commit EXCEPT ![c].pc = pc]
Throw(c)  == commit' = [commit EXCEPT ![c] = [NoCall EXCEPT !.pc = "threw"]]
Same      == UNCHANGED <<target, run, row, stream, discard, edits, launches>>

AtWork(c) == commit[c].pc \notin {"idle", "done", "replayed", "threw", "lost"}
Making(c) == commit[c].pc \in {"make", "makemeta", "fill", "put", "putmeta"}

\* The workbench offers the entry once the turn that filled it is over, and again
\* after an answer that was none; it knows the id of a draft's entry once the call
\* that made it has answered.  The same draft may be confirmed again while the
\* first call for it is still at work: both make the entry and fill it.
Start(c) ==
    /\ Up /\ commit[c].pc \in {"idle", "threw", "lost", "done"} /\ ~Streaming
    /\ \/ status # "none" /\ (\A d \in Commits : ~Making(d)) /\ Go(c, "get")
       \/ /\ Drafts /\ stream.pc = "idle"
          /\ Go(c, IF status = "none" THEN "make" ELSE "fill")
    /\ Same /\ UNCHANGED <<status, content>>

\* createAtId empties the content and then writes the metadata.
MakeContent(c) ==
    /\ At(c, "make")
    /\ content' = Holding(<<>>) /\ Go(c, "makemeta")
    /\ Same /\ UNCHANGED status

MakeMeta(c) ==
    /\ At(c, "makemeta")
    /\ status' = "pending" /\ Go(c, "fill")
    /\ Same /\ UNCHANGED content

\* An empty pending entry takes the text of the draft.
Fill(c) ==
    /\ At(c, "fill")
    /\ IF status # "pending" THEN Go(c, "get")
       ELSE IF ~content.there \/ content.text \notin {<<>>, Whole} THEN Throw(c)
       ELSE Go(c, IF content.text = Whole THEN "get" ELSE "put")
    /\ Same /\ UNCHANGED <<status, content>>

\* replace asks for a pending entry, puts the text and writes the metadata back.
PutContent(c) ==
    /\ At(c, "put")
    /\ IF status = "pending" THEN content' = Holding(Whole) /\ Go(c, "putmeta")
                             ELSE Throw(c) /\ UNCHANGED content
    /\ Same /\ UNCHANGED status

PutMeta(c) ==
    /\ At(c, "putmeta")
    /\ status' = "pending" /\ Go(c, "get")
    /\ Same /\ UNCHANGED content

\* An entry that is committed answers again; otherwise it has to be pending and
\* its content there.
Get(c) ==
    /\ At(c, "get")
    /\ IF status = "committed" THEN Go(c, "replayed")
       ELSE IF status # "pending" \/ ~content.there THEN Throw(c)
       ELSE commit' = [commit EXCEPT ![c].pc = "prepare", ![c].text = content.text]
    /\ Same /\ UNCHANGED <<status, content>>

Composed(text) == IF Mode = "append" THEN Append(target, text) ELSE <<text>>

\* prepareTargetCommit reads entry, content and target again; an empty text is
\* refused.
Prepare(c) ==
    /\ At(c, "prepare")
    /\ IF status # "pending" \/ ~content.there \/ content.text = <<>> THEN Throw(c)
       ELSE commit' = [commit EXCEPT ![c].pc = "begin", ![c].new = Composed(content.text)]
    /\ Same /\ UNCHANGED <<status, content>>

\* The request id of the run is the hash of the intent, so that one text has one
\* run: it is begun, resumed after a failure, or answers for having completed.
Begin(c) ==
    /\ At(c, "begin")
    /\ LET t == commit[c].text
       IN  \/ /\ run[t] \in {"none", "failed"}
              /\ run' = [run EXCEPT ![t] = "running"] /\ Go(c, "journal")
           \/ run[t] = "running"   /\ Throw(c) /\ UNCHANGED run
           \/ run[t] = "completed" /\ Go(c, "mark") /\ UNCHANGED run
    /\ UNCHANGED <<status, content, target, row, stream, discard, edits, launches>>

(***************************************************************************)
(* The write, one idempotency key per run and target (the journal itself   *)
(* and its lease are the module CommitJournal).                            *)
(***************************************************************************)

\* A row left open is settled by what the file holds.
Recovered(r) ==
    IF r.stage \notin {"open", "flagged"} THEN r
    ELSE [r EXCEPT !.stage = IF target = r.new THEN "finalized"
                             ELSE IF target = r.base THEN "base" ELSE "flagged"]

\* Mutant: every attempt writes under a key of its own.
JournalAnew(c) ==
    /\ At(c, "journal")
    /\ row' = [row EXCEPT ![commit[c].text] =
                 [stage |-> "open", base |-> target, new |-> commit[c].new]]
    /\ Go(c, "replace")
    /\ UNCHANGED <<status, content, target, run, stream, discard, edits, launches>>

\* A file that holds what the row promised is asked for as it is, and answers as
\* a replay.  A row never applied, or no longer to be seen in the file, is written
\* again under a key of the attempt; a row for another text is a conflict.
Journal(c) ==
    /\ At(c, "journal")
    /\ LET t   == commit[c].text
           r   == Recovered(row[t])
           new == IF r.stage # "none" /\ target = r.new THEN target ELSE commit[c].new
       IN  \/ /\ \/ r.stage = "none"
                 \/ r.new = new /\ (r.stage = "base" \/ target # new)
              /\ row' = [row EXCEPT ![t] = [stage |-> "open", base |-> target, new |-> new]]
              /\ Go(c, "replace")
           \/ /\ r.stage = "finalized" /\ r.new = new /\ target = new
              /\ row' = [row EXCEPT ![t] = r] /\ Go(c, "complete")
           \/ /\ r.stage # "none" /\ r.new # new
              /\ row' = [row EXCEPT ![t] = r] /\ Go(c, "fail")
    /\ UNCHANGED <<status, content, target, run, stream, discard, edits, launches>>

\* The document is replaced as a whole, or the writing throws and the row is
\* left for a recovery.
Replace(c) ==
    /\ At(c, "replace")
    /\ LET t == commit[c].text
       IN  \/ target' = row[t].new /\ Go(c, "finalize") /\ UNCHANGED row
           \/ row' = [row EXCEPT ![t].stage = "flagged"] /\ Go(c, "fail") /\ UNCHANGED target
    /\ UNCHANGED <<status, content, run, stream, discard, edits, launches>>

Finalize(c) ==
    /\ At(c, "finalize")
    /\ row' = [row EXCEPT ![commit[c].text].stage = "finalized"]
    /\ Go(c, "complete")
    /\ UNCHANGED <<status, content, target, run, stream, discard, edits, launches>>

Complete(c) ==
    /\ At(c, "complete")
    /\ run' = [run EXCEPT ![commit[c].text] = "completed"] /\ Go(c, "mark")
    /\ UNCHANGED <<status, content, target, row, stream, discard, edits, launches>>

\* Mutant: the entry is marked whatever has become of its run.
FailRunMarks(c) ==
    /\ At(c, "fail")
    /\ run' = [run EXCEPT ![commit[c].text] = "failed"] /\ Go(c, "mark")
    /\ UNCHANGED <<status, content, target, row, stream, discard, edits, launches>>

FailRun(c) ==
    /\ At(c, "fail")
    /\ run' = [run EXCEPT ![commit[c].text] = "failed"] /\ Throw(c)
    /\ UNCHANGED <<status, content, target, row, stream, discard, edits, launches>>

(***************************************************************************)
(* markCommitted: the metadata is read and written back as committed, then *)
(* the content deleted.                                                    *)
(***************************************************************************)

Mark(c) ==
    /\ At(c, "mark")
    /\ IF status = "none" THEN Throw(c) ELSE Go(c, "write")
    /\ Same /\ UNCHANGED <<status, content>>

WriteMark(c) ==
    /\ At(c, "write")
    /\ status' = "committed" /\ Go(c, "delete")
    /\ Same /\ UNCHANGED content

DeleteContent(c) ==
    /\ At(c, "delete")
    /\ content' = Gone
    /\ commit' = [commit EXCEPT ![c] = [NoCall EXCEPT !.pc = "done"]]
    /\ Same /\ UNCHANGED status

(***************************************************************************)
(* The user, the clean-up and the application.                             *)
(***************************************************************************)

Edit ==
    /\ edits < MaxEdits
    /\ edits' = edits + 1
    /\ target' = Append(target, Edited)
    /\ UNCHANGED <<status, content, run, row, stream, commit, discard, launches>>

\* cleanupExpired removes an entry settled for a week: no call on it is older.
CleanupExpired ==
    /\ Up /\ status \in {"committed", "discarded", "failed"}
    /\ ~Streaming /\ \A c \in Commits : ~AtWork(c)
    /\ discard.pc \in {"idle", "done"}
    /\ status' = "none" /\ content' = Gone
    /\ UNCHANGED <<target, run, row, stream, commit, discard, edits, launches>>

Crash ==
    /\ Up
    /\ launches' = [launches EXCEPT !.up = FALSE]
    /\ stream' = IF Streaming THEN [NoStream EXCEPT !.pc = "over"] ELSE stream
    /\ commit' = [c \in Commits |-> IF AtWork(c) THEN [NoCall EXCEPT !.pc = "lost"] ELSE commit[c]]
    /\ discard' = IF discard.pc \in {"delete", "write"} THEN [pc |-> "lost"] ELSE discard
    /\ UNCHANGED <<status, content, target, run, row, edits>>

\* Mutant: a run found running is taken for completed.
LaunchCompletes ==
    /\ ~Up /\ launches.count < MaxLaunches
    /\ launches' = [count |-> launches.count + 1, up |-> TRUE]
    /\ run' = [t \in Texts |-> IF run[t] = "running" THEN "completed" ELSE run[t]]
    /\ UNCHANGED <<status, content, target, row, stream, commit, discard, edits>>

\* A run whose lease has expired by then is found and failed; one whose lease has
\* not is left running for good.
Launch ==
    /\ ~Up /\ launches.count < MaxLaunches
    /\ launches' = [count |-> launches.count + 1, up |-> TRUE]
    /\ \/ run' = [t \in Texts |-> IF run[t] = "running" THEN "failed" ELSE run[t]]
       \/ UNCHANGED run
    /\ UNCHANGED <<status, content, target, row, stream, commit, discard, edits>>

Stream ==
    \/ StreamCreates \/ StreamReads \/ StreamAppends \/ StreamTouches \/ StreamBinds
    \/ StreamBound \/ StreamFails

Commit(c) ==
    \/ MakeContent(c) \/ MakeMeta(c) \/ Fill(c) \/ PutContent(c) \/ PutMeta(c)
    \/ Get(c) \/ Prepare(c) \/ Begin(c) \/ Journal(c) \/ Replace(c) \/ Finalize(c)
    \/ Complete(c) \/ FailRun(c) \/ Mark(c) \/ WriteMark(c) \/ DeleteContent(c)

Next ==
    \/ StartStream \/ Stream
    \/ DiscardReads \/ DiscardDeletes \/ DiscardWrites
    \/ \E c \in Commits : Start(c) \/ Commit(c)
    \/ Edit \/ CleanupExpired \/ Crash \/ Launch

Spec == Init /\ [][Next]_vars

-----------------------------------------------------------------------------
(***************************************************************************)
(* Properties.                                                             *)
(***************************************************************************)

Statuses == {"none", "pending", "committed", "discarded", "failed"}
Pieces   == {Original, Edited} \cup Texts

\* The shape of the state.
TypeOK ==
    /\ status \in Statuses
    /\ content.there \in BOOLEAN /\ content.text \in Texts
    /\ target \in Seq(Pieces)
    /\ run \in [Texts -> {"none", "running", "failed", "completed"}]
    /\ \A t \in Texts : row[t].stage \in {"none", "open", "flagged", "base", "finalized"}
    /\ stream.seen \in Statuses /\ stream.at \in 1..(Deltas + 1)
    /\ \A c \in Commits : commit[c].text \in Texts
    /\ edits \in 0..MaxEdits

Copies == {i \in DOMAIN target : target[i] \in Texts}

\* However often the user confirms, and wherever the application crashes between
\* the journal, the document, the run and the metadata, the generated text is in
\* the document at most once.  One case is excepted: a call that got the entry of a
\* draft while another call for the same draft was still filling it has its run
\* named after the empty text; it composes the document from the entry as it finds
\* it then.  Such a call may add the text a second time, but nothing adds a third.
WrittenOnce == Cardinality(Copies) <= IF row[<<>>].stage = "none" THEN 1 ELSE 2

\* A confirmation that has been answered has its text written: the journal row of
\* a completed run says so, not only the metadata.
AnsweredWasWritten ==
    (status = "committed" \/ \E c \in Commits : commit[c].pc \in {"done", "replayed"}) =>
        \E t \in Texts : run[t] = "completed" /\ row[t].stage = "finalized"

\* Until the user discards it or it is cleaned up, a generated text is not lost: it
\* is in the cache, or the document has received it.  A crash between the run, the
\* metadata and the removal of the content leaves one of the two.
TextIsKept ==
    (/\ status \in {"pending", "committed"} /\ discard.pc = "idle"
     /\ ~Streaming /\ \A c \in Commits : ~Making(c))
        => content.there \/ Copies # {}

=============================================================================
