-------------------------- MODULE ConversationFiles --------------------------
(***************************************************************************)
(* The files of one conversation, as ConversationService keeps them        *)
(* (packages/conversation-service/src/service.ts): `<id>.json`, its backup *)
(* `<id>.json.bak`, and the temporary names a save and a repair use.  Every *)
(* operation loads the whole file, changes it in memory and writes it back;*)
(* nothing serialises two operations, and they share the temporary names.  *)
(*                                                                         *)
(* Each step is one call of the file system.  A file that was opened for   *)
(* writing is empty until its text is written, and a handle follows the    *)
(* file it opened when that file is renamed.                               *)
(***************************************************************************)
EXTENDS Naturals, FiniteSets, Sequences

CONSTANTS
    Operations,  \* the calls made of the service
    Conditions   \* how a history begins, and what may go wrong in it:
                 \* [created, together, fails]

VARIABLES
    disk,     \* what each file of the conversation holds
    uploads,  \* the attachments whose files are on disk
    op,       \* each operation
    given,    \* what an operation already began to take away: items, or "all"
    condition \* the condition this history runs under

vars == <<disk, uploads, op, given, condition>>

Names == {"main", "bak", "tmp", "baktmp", "restore"}
Kinds == {"create", "read", "change", "attach", "detach", "delete"}

Whole(items) == [is |-> "whole", items |-> items]
Bad(how) == [is |-> how, items |-> {}]
Contents == [is : {"whole"}, items : SUBSET Operations]
              \cup {Bad(how) : how \in {"absent", "empty", "torn"}}

(* A write of a file: its text goes to `temp`, which then is renamed to     *)
(* `name`.  The first backup is written in place, and a failure of it is    *)
(* swallowed.                                                               *)
Jobs == [temp : Names, name : Names, items : SUBSET Operations]
Job(temp, name, items) == [temp |-> temp, name |-> name, items |-> items]
InPlace(job) == job.temp = job.name

Idle == [pc |-> "idle", kind |-> "read", items |-> {}, jobs |-> <<>>,
         handle |-> "none", after |-> "apply", left |-> {}, alone |-> TRUE]

Running(o) == op[o].pc \notin {"idle", "answered", "thrown", "died"}
Together == {o \in Operations : Running(o)}
Made == condition.created \/ \E o \in Operations : op[o].kind = "create" /\ op[o].pc # "idle"

(* Its identifier is known: the creation was answered.                      *)
Created == condition.created \/ \E o \in Operations : op[o].kind = "create" /\ op[o].pc = "answered"

TypeOK ==
    /\ disk \in [Names -> Contents]
    /\ uploads \subseteq Operations
    /\ op \in [Operations ->
         [pc : {"idle", "exists", "read", "bakexists", "bakread", "open", "write", "rename",
                "apply", "upload", "unlink", "remove", "saveexists", "saveread",
                "answer", "answered", "thrown", "died"},
          kind : Kinds, items : SUBSET Operations, jobs : Seq(Jobs),
          handle : Names \cup {"none", "unlinked"}, after : {"apply", "answer"},
          left : SUBSET ({"main", "bak", "uploads"} \cup Operations), alone : BOOLEAN]]
    /\ given \subseteq Operations \cup {"all"}
    /\ condition \in Conditions

(* A conversation that was created and saved before has its file and backup.*)
Init ==
    /\ condition \in Conditions
    /\ disk = [n \in Names |-> IF condition.created /\ n \in {"main", "bak"} THEN Whole({})
                              ELSE Bad("absent")]
    /\ uploads = {}
    /\ op = [o \in Operations |-> Idle]
    /\ given = {}

-----------------------------------------------------------------------------
(* Helpers *)

Step(o, fields) == [op EXCEPT ![o] = [f \in DOMAIN @ |-> IF f \in DOMAIN fields THEN fields[f] ELSE @[f]]]
Go(o, pc) == Step(o, [pc |-> pc])
Keep == UNCHANGED <<disk, uploads, given, condition>>

Present(name) == disk[name].is # "absent"
Readable(name) == disk[name].is = "whole"

(* The handles after `name` stopped naming its file, which now is `to`.     *)
Moved(ops, name, to) ==
    [p \in Operations |->
        CASE ops[p].handle = name -> [ops[p] EXCEPT !.handle = to]
          [] ops[p].handle = to /\ to # name -> [ops[p] EXCEPT !.handle = "unlinked"]
          [] OTHER -> ops[p]]

(* The operation goes on with its next write, or with what follows them.    *)
AndThen(o, jobs) == [jobs |-> jobs, handle |-> "none",
                   pc |-> IF jobs = <<>> THEN op[o].after ELSE "open"]

-----------------------------------------------------------------------------
(* A call: create makes its detail, the others load one.                    *)
Start(o, kind) ==
    /\ op[o].pc = "idle"
    /\ Cardinality(Together) < condition.together
    /\ (kind = "create") = ~Made
    /\ kind # "create" => Present("main") \/ Created
    /\ op' = [p \in Operations |->
                IF p = o THEN [Idle EXCEPT !.pc = IF kind = "create" THEN "saveexists" ELSE "exists",
                                           !.kind = kind, !.alone = Together = {}]
                ELSE IF Running(p) THEN [op[p] EXCEPT !.alone = FALSE]
                ELSE op[p]]
    /\ UNCHANGED <<disk, uploads, given, condition>>

-----------------------------------------------------------------------------
(* loadDetail *)

Exists(o) ==
    /\ op[o].pc = "exists"
    /\ op' = Go(o, IF Present("main") THEN "read" ELSE "thrown")
    /\ Keep

Read(o) ==
    /\ op[o].pc = "read"
    /\ op' = IF Readable("main")
             THEN Step(o, [items |-> disk["main"].items, pc |-> "apply"])
             ELSE Go(o, "bakexists")
    /\ Keep

BackupExists(o) ==
    /\ op[o].pc = "bakexists"
    /\ op' = Go(o, IF Present("bak") THEN "bakread" ELSE "thrown")
    /\ Keep

(* restoreDetailFromBackup follows a readable backup.                       *)
BackupRead(o) ==
    /\ op[o].pc = "bakread"
    /\ op' = IF Readable("bak")
             THEN Step(o, [items |-> disk["bak"].items, pc |-> "open", after |-> "apply",
                           jobs |-> <<Job("restore", "main", disk["bak"].items)>>])
             ELSE Go(o, "thrown")
    /\ Keep

-----------------------------------------------------------------------------
(* What the operation does with its detail. *)

Removals == {"main", "bak", "uploads"}

(* A message without content, an empty title, an unknown attachment: the    *)
(* operation throws before it changes anything.                             *)
Refuse(o) ==
    /\ op[o].pc = "apply"
    /\ op[o].kind # "delete" /\ op[o].kind # "read"
    /\ op' = Go(o, "thrown")
    /\ Keep

Apply(o) ==
    /\ op[o].pc = "apply"
    /\ \/ /\ op[o].kind = "read"
          /\ op' = Go(o, "answer")
          /\ given' = given
       \/ /\ op[o].kind = "change"
          /\ op' = Step(o, [items |-> op[o].items \cup {o}, pc |-> "saveexists"])
          /\ given' = given
       \/ /\ op[o].kind = "attach"
          /\ op' = Go(o, "upload")
          /\ given' = given
       \/ /\ op[o].kind = "detach"
          /\ \E a \in op[o].items :
                /\ op[a].kind = "attach"
                /\ op' = Step(o, [left |-> {a}, pc |-> "unlink"])
                /\ given' = given \cup {a}
       \/ /\ op[o].kind = "delete"
          /\ op' = Step(o, [left |-> Removals, pc |-> "remove"])
          /\ given' = given \cup {"all"}
    /\ UNCHANGED <<disk, uploads, condition>>

(* addAttachment writes the original and its text, then lists them.         *)
Upload(o) ==
    /\ op[o].pc = "upload"
    /\ uploads' = uploads \cup {o}
    /\ op' = Step(o, [items |-> op[o].items \cup {o}, pc |-> "saveexists"])
    /\ UNCHANGED <<disk, given, condition>>

\* Mutant: the directory of the attachments is removed, not the one file.
UnlinkAll(o) ==
    /\ op[o].pc = "unlink"
    /\ uploads' = {}
    /\ op' = Step(o, [items |-> op[o].items \ op[o].left, left |-> {}, pc |-> "saveexists"])
    /\ UNCHANGED <<disk, given, condition>>

(* deleteAttachment removes the files, then the entry.                      *)
Unlink(o) ==
    /\ op[o].pc = "unlink"
    /\ uploads' = uploads \ op[o].left
    /\ op' = Step(o, [items |-> op[o].items \ op[o].left, left |-> {}, pc |-> "saveexists"])
    /\ UNCHANGED <<disk, given, condition>>

(* deleteConversation starts the three removals together.                   *)
Remove(o, what) ==
    /\ op[o].pc = "remove"
    /\ what \in op[o].left
    /\ IF what = "uploads"
       THEN uploads' = {} /\ disk' = disk
       ELSE uploads' = uploads /\ disk' = [disk EXCEPT ![what] = Bad("absent")]
    /\ LET rest == op[o].left \ {what}
           mine == Step(o, [left |-> rest, pc |-> IF rest = {} THEN "answer" ELSE "remove"])
       IN op' = IF what = "uploads" THEN mine ELSE Moved(mine, what, "unlinked")
    /\ UNCHANGED <<given, condition>>

-----------------------------------------------------------------------------
(* saveDetail *)

\* Mutant: the file is written in place.
ReplaceInPlace(items) == Job("main", "main", items)

Replace(items) == Job("tmp", "main", items)
Backup(items) == Job("baktmp", "bak", items)

\* Mutant: the backup is only the copy made before.
WrittenUncopied(items) == <<Replace(items)>>

(* The writes of a save after the copy of the current file.                 *)
Written(items) == <<Replace(items), Backup(items)>>

SaveExists(o) ==
    /\ op[o].pc = "saveexists"
    /\ op' = IF Present("main") THEN Go(o, "saveread")
             ELSE Step(o, [jobs |-> Written(op[o].items), after |-> "answer", pc |-> "open"])
    /\ Keep

(* An unreadable current file is not copied over the backup.                *)
Copied(items) ==
    IF Readable("main") THEN <<Job("bak", "bak", disk["main"].items)>> \o Written(items)
    ELSE Written(items)

SaveRead(o) ==
    /\ op[o].pc = "saveread"
    /\ op' = Step(o, [jobs |-> Copied(op[o].items), after |-> "answer", pc |-> "open"])
    /\ Keep

-----------------------------------------------------------------------------
(* fs.writeFile and fs.rename *)

(* Opening creates the file or empties it.                                  *)
Open(o) ==
    /\ op[o].pc = "open"
    /\ LET temp == Head(op[o].jobs).temp
       IN /\ disk' = [disk EXCEPT ![temp] = Bad("empty")]
          /\ op' = Step(o, [handle |-> temp, pc |-> "write"])
    /\ UNCHANGED <<uploads, given, condition>>

(* A text written over another that is longer leaves the other's tail; over *)
(* nothing, or over itself, it is whole.                                    *)
Landed(items, old) ==
    IF old \in {Bad("empty"), Whole(items)} THEN {Whole(items)} ELSE {Whole(items), Bad("torn")}

Write(o) ==
    /\ op[o].pc = "write"
    /\ LET job == Head(op[o].jobs)
       IN /\ IF op[o].handle = "unlinked"
             THEN disk' = disk
             ELSE \E new \in Landed(job.items, disk[op[o].handle]) :
                    disk' = [disk EXCEPT ![op[o].handle] = new]
          /\ op' = IF InPlace(job) THEN Step(o, AndThen(o, Tail(op[o].jobs)))
                   ELSE Step(o, [handle |-> "none", pc |-> "rename"])
    /\ UNCHANGED <<uploads, given, condition>>

(* A disk error leaves the file as short as it is.  Only the copy of the    *)
(* current file is guarded by a catch.                                      *)
WriteFails(o) ==
    /\ condition.fails
    /\ op[o].pc = "write"
    /\ \E how \in {"empty", "torn"} :
          disk' = IF op[o].handle = "unlinked" THEN disk
                  ELSE [disk EXCEPT ![op[o].handle] = Bad(how)]
    /\ op' = IF InPlace(Head(op[o].jobs)) THEN Step(o, AndThen(o, Tail(op[o].jobs)))
             ELSE Step(o, [handle |-> "none", pc |-> "thrown"])
    /\ UNCHANGED <<uploads, given, condition>>

(* A temporary file another operation already renamed is missing.           *)
Rename(o) ==
    /\ op[o].pc = "rename"
    /\ LET job == Head(op[o].jobs)
       IN IF Present(job.temp)
          THEN /\ disk' = [disk EXCEPT ![job.name] = disk[job.temp], ![job.temp] = Bad("absent")]
               /\ op' = Moved(Step(o, AndThen(o, Tail(op[o].jobs))), job.temp, job.name)
          ELSE /\ disk' = disk
               /\ op' = Go(o, "thrown")
    /\ UNCHANGED <<uploads, given, condition>>

Return(o) ==
    /\ op[o].pc = "answer"
    /\ op' = Step(o, [pc |-> "answered", jobs |-> <<>>])
    /\ Keep

(* The process dies with every operation it was carrying out.               *)
Crash ==
    /\ Together # {}
    /\ op' = [p \in Operations |-> IF Running(p) THEN [op[p] EXCEPT !.pc = "died", !.handle = "none"]
                                   ELSE op[p]]
    /\ Keep

Act(o) ==
    \/ \E kind \in Kinds : Start(o, kind)
    \/ Exists(o) \/ Read(o) \/ BackupExists(o) \/ BackupRead(o)
    \/ Refuse(o) \/ Apply(o) \/ Upload(o) \/ Unlink(o)
    \/ \E what \in Removals : Remove(o, what)
    \/ SaveExists(o) \/ SaveRead(o)
    \/ Open(o) \/ Write(o) \/ WriteFails(o) \/ Rename(o) \/ Return(o)

Next == Crash \/ \E o \in Operations : Act(o)

Spec == Init /\ [][Next]_vars

-----------------------------------------------------------------------------
(* As long as no two operations overlapped, the next load succeeds wherever *)
(* a write fails or the process dies: once the creation was answered and    *)
(* until a deletion begins the conversation's file is there, and it or its  *)
(* backup is whole.                                                         *)
Recoverable ==
    (Created /\ "all" \notin given /\ \A o \in Operations : op[o].alone) =>
        Present("main") /\ (Readable("main") \/ Readable("bak"))

(* A change answered while no other operation was running is in every       *)
(* readable copy from then on, whatever the operations after it do to one   *)
(* another and wherever the process stops.                                  *)
AnsweredStays ==
    \A o \in Operations, name \in {"main", "bak"} :
        (op[o].pc = "answered" /\ op[o].alone /\ op[o].kind \in {"change", "attach"} /\ Readable(name))
            => o \in disk[name].items \cup given

(* An attachment that a readable copy lists has its file, unless its own    *)
(* deletion or the conversation's has begun.                                *)
ListedIsOnDisk ==
    \A name \in {"main", "bak"} :
        ("all" \notin given /\ Readable(name)) =>
            {a \in disk[name].items : op[a].kind = "attach"} \subseteq uploads \cup given
=============================================================================
