----------------------- MODULE ConversationFilesProofs -----------------------
(***************************************************************************)
(* The invariant of ConversationFiles, for any number of operations under  *)
(* any conditions: how many may overlap, whether writes may fail.          *)
(***************************************************************************)
EXTENDS ConversationFiles, SequenceTheorems, TLAPS

Writing == {"open", "write", "rename"}

\* A detail was loaded and is not written back yet.
Loaded == {"apply", "upload", "unlink", "saveexists", "saveread"} \cup Writing

-----------------------------------------------------------------------------
(* What each operation is at each of its steps.                            *)

Restores(c) == c.after = "apply" /\ c.jobs = <<Job("restore", "main", c.items)>>

\* The texts an operation has still to write.
ItemsOf(jobs) == {jobs[i].items : i \in DOMAIN jobs}

LastWrite(c) == c.jobs = <<Backup(c.items)>>

Saves(c) ==
    /\ c.after = "answer"
    /\ \/ LastWrite(c)
       \/ c.jobs = <<Replace(c.items), Backup(c.items)>>
       \/ \E items \in SUBSET Operations :
            c.jobs = <<Job("bak", "bak", items), Replace(c.items), Backup(c.items)>>

RowFits(c) ==
    /\ c.pc = "idle" => c = Idle
    /\ c.pc # "write" => c.handle = "none"
    /\ c.pc = "write" => c.handle # "none"
    /\ c.pc \in Writing => Restores(c) \/ Saves(c)
    /\ c.pc = "rename" => ~InPlace(Head(c.jobs))
    /\ c.kind = "create" => /\ c.pc \notin {"exists", "read", "bakexists", "bakread"}
                            /\ c.pc \notin {"apply", "upload", "unlink", "remove"}
                            /\ c.pc \in Writing => Saves(c)
    /\ c.pc = "upload" => c.kind = "attach"
    /\ c.pc = "unlink" => c.kind = "detach"
    /\ c.pc = "remove" => c.kind = "delete"

\* A file is there, or an operation was called, only of a conversation that was
\* made.
MadeFirst ==
    \/ Made
    \/ /\ \A o \in Operations : op[o].pc = "idle"
       /\ ~Present("main")

-----------------------------------------------------------------------------
(* Attachments.                                                            *)

\* The attachments among these items have their file, or are being deleted.
Listed(items) ==
    \A a \in items : /\ op[a].pc # "idle"
                     /\ op[a].kind = "attach" => a \in uploads \cup given

\* Whatever is on disk, in memory, or about to be written lists what there is.
ListedInv ==
    /\ \A o \in Operations : /\ op[o].pc = "unlink" => op[o].left \subseteq given
                             /\ op[o].pc = "remove" => "all" \in given
    /\ "all" \notin given =>
         /\ \A name \in Names : Listed(disk[name].items)
         /\ \A o \in Operations :
              /\ Listed(op[o].items)
              /\ \A items \in ItemsOf(op[o].jobs) : Listed(items)

-----------------------------------------------------------------------------
(* An operation that no other has overlapped.                              *)

Temp(c) == Head(c.jobs).temp
SavedKinds == {"create", "change", "attach", "detach"}
Adds == {"change", "attach"}

\* It alone has what it writes, and writes what it means to.
AloneRow(o, c) ==
    /\ c.pc = "write" => c.handle = Temp(c) /\ disk[Temp(c)] = Bad("empty")
    /\ c.pc = "rename" => disk[Temp(c)] = Whole(c.items)
    /\ (c.pc \in Writing /\ LastWrite(c)) \/ (c.pc = "answer" /\ c.kind \in SavedKinds)
         => disk["main"] = Whole(c.items)
    /\ c.pc = "answer" /\ c.kind \in SavedKinds => disk["bak"] = Whole(c.items)
    /\ \/ c.pc \in {"saveexists", "saveread", "answer"}
       \/ c.pc \in Writing /\ Saves(c)
       => (c.kind \in Adds => o \in c.items)

AloneInv(o) == op[o].alone /\ Running(o) => Together = {o} /\ AloneRow(o, op[o])

-----------------------------------------------------------------------------
(* A change that was answered.                                             *)

Kept(o, items) == o \in items \cup given

\* Operation p has the change of o in all it loaded, and in what it will rename.
Carries(o, p) ==
    LET c == op[p] IN
    /\ c.pc \in Loaded => Kept(o, c.items)
    /\ c.pc \in Writing => \A items \in ItemsOf(c.jobs) : Kept(o, items)
    /\ c.pc \in {"write", "rename"} /\ Readable(Temp(c)) => Kept(o, disk[Temp(c)].items)

AnsweredInv(o) ==
    op[o].pc = "answered" /\ op[o].alone /\ op[o].kind \in Adds =>
        /\ \A name \in {"main", "bak"} : Readable(name) => Kept(o, disk[name].items)
        /\ \A p \in Operations : Running(p) => Carries(o, p)

-----------------------------------------------------------------------------
(* A history in which no two operations overlapped.                        *)

\* From the last step of the creation on the conversation's file is whole.
MainIsWhole ==
    /\ \A o \in Operations : op[o].alone
    /\ "all" \notin given
    /\ Created \/ \E o \in Operations : op[o].kind = "create" /\ op[o].pc = "answer"
    => Readable("main")

FilesInv ==
    /\ TypeOK /\ MadeFirst /\ ListedInv /\ MainIsWhole
    /\ \A o \in Operations : RowFits(op[o]) /\ AloneInv(o) /\ AnsweredInv(o)

-----------------------------------------------------------------------------
(* The row of an operation.                                                *)

Places == {"idle", "exists", "read", "bakexists", "bakread", "open", "write", "rename",
           "apply", "upload", "unlink", "remove", "saveexists", "saveread",
           "answer", "answered", "thrown", "died"}

Left == SUBSET ({"main", "bak", "uploads"} \cup Operations)

Row == [pc : Places, kind : Kinds, items : SUBSET Operations, jobs : Seq(Jobs),
        handle : Names \cup {"none", "unlinked"}, after : {"apply", "answer"},
        left : Left, alone : BOOLEAN]

LEMMA RowsOfTypes ==
    ASSUME TypeOK PROVE op \in [Operations -> Row] /\ disk \in [Names -> Contents]
BY DEF TypeOK, Row, Places, Left

\* A step of o changes the fields it names, and no other row.
LEMMA StepIs ==
    ASSUME op \in [Operations -> Row], NEW o \in Operations, NEW fields, NEW row \in Row,
           row.pc     = IF "pc" \in DOMAIN fields THEN fields.pc ELSE op[o].pc,
           row.kind   = IF "kind" \in DOMAIN fields THEN fields.kind ELSE op[o].kind,
           row.items  = IF "items" \in DOMAIN fields THEN fields.items ELSE op[o].items,
           row.jobs   = IF "jobs" \in DOMAIN fields THEN fields.jobs ELSE op[o].jobs,
           row.handle = IF "handle" \in DOMAIN fields THEN fields.handle ELSE op[o].handle,
           row.after  = IF "after" \in DOMAIN fields THEN fields.after ELSE op[o].after,
           row.left   = IF "left" \in DOMAIN fields THEN fields.left ELSE op[o].left,
           row.alone  = IF "alone" \in DOMAIN fields THEN fields.alone ELSE op[o].alone
    PROVE  Step(o, fields) = [op EXCEPT ![o] = row]
<1> DEFINE F == {"pc", "kind", "items", "jobs", "handle", "after", "left", "alone"}
           new == [f \in F |-> IF f \in DOMAIN fields THEN fields[f] ELSE op[o][f]]
<1>1. DOMAIN op[o] = F
  <2>1. op[o] \in Row
    OBVIOUS
  <2> QED BY <2>1 DEF Row
<1>2. Step(o, fields) = [op EXCEPT ![o] = new]
  BY <1>1 DEF Step
<1>3. row = [f \in F |-> row[f]]
  BY DEF Row
<1>4. new = row
  BY <1>3
<1> QED BY <1>2, <1>4

LEMMA GoIs ==
    ASSUME op \in [Operations -> Row], NEW o \in Operations,
           NEW pc \in Places
    PROVE  Go(o, pc) = [op EXCEPT ![o] =
             [op[o] EXCEPT !.pc = pc]]
<1> DEFINE fields == [pc |-> pc]
           row == [op[o] EXCEPT !.pc = pc]
<1>1. op[o] \in Row
  OBVIOUS
<1>2. row \in Row
  BY <1>1 DEF Row
<1>3. /\ row.pc = pc
      /\ row.kind = op[o].kind
      /\ row.items = op[o].items
      /\ row.jobs = op[o].jobs
      /\ row.handle = op[o].handle
      /\ row.after = op[o].after
      /\ row.left = op[o].left
      /\ row.alone = op[o].alone
  BY <1>1 DEF Row
<1>4. DOMAIN fields = {"pc"}
  OBVIOUS
<1>5. fields.pc = pc
  OBVIOUS
<1> HIDE DEF fields, row
<1>6. Step(o, fields) = [op EXCEPT ![o] = row]
  BY <1>2, <1>3, <1>4, <1>5, StepIs
<1> QED BY <1>6 DEF fields, row, Go

LEMMA NoJobs == <<>> \in Seq(Jobs) /\ ItemsOf(<<>>) = {}
BY DEF ItemsOf

LEMMA OneJob ==
    ASSUME NEW x
    PROVE  /\ Head(<<x>>) = x /\ Tail(<<x>>) = <<>> /\ <<x>> # <<>>
           /\ ItemsOf(<<x>>) = {x.items}
BY DEF ItemsOf

LEMMA TwoJobs ==
    ASSUME NEW x, NEW y
    PROVE  /\ Head(<<x, y>>) = x /\ Tail(<<x, y>>) = <<y>>
           /\ <<x, y>> # <<>> /\ <<x, y>> # <<y>>
           /\ ItemsOf(<<x, y>>) = {x.items, y.items}
<1>1. /\ Head(<<x, y>>) = x /\ Tail(<<x, y>>) = <<y>>
      /\ <<x, y>> # <<>> /\ <<x, y>> # <<y>>
  OBVIOUS
<1>2. ItemsOf(<<x, y>>) = {x.items, y.items}
  BY DEF ItemsOf
<1> QED BY <1>1, <1>2

LEMMA ThreeJobs ==
    ASSUME NEW x, NEW y, NEW z
    PROVE  /\ <<x>> \o <<y, z>> = <<x, y, z>>
           /\ Head(<<x, y, z>>) = x /\ Tail(<<x, y, z>>) = <<y, z>>
           /\ <<x, y, z>> # <<>> /\ <<x, y, z>> # <<z>>
<1>1. <<x>> \o <<y, z>> = <<x, y, z>>
  <2> DEFINE S == {x, y, z}
             cat == <<x>> \o <<y, z>>
  <2>1. <<x>> \in Seq(S) /\ <<y, z>> \in Seq(S) /\ <<x, y, z>> \in Seq(S)
    OBVIOUS
  <2>2. /\ cat \in Seq(S) /\ Len(cat) = 3
        /\ cat[1] = x /\ cat[2] = y /\ cat[3] = z
    <3>1. Len(<<x>>) = 1 /\ Len(<<y, z>>) = 2
      OBVIOUS
    <3>2. /\ cat \in Seq(S) /\ Len(cat) = 1 + 2
          /\ \A i \in 1..1 + 2 : cat[i] = IF i <= 1 THEN <<x>>[i] ELSE <<y, z>>[i - 1]
      BY <2>1, <3>1, ConcatProperties
    <3> QED BY <3>2
  <2>3. Len(<<x, y, z>>) = 3
    OBVIOUS
  <2>4. \A i \in 1..3 : cat[i] = <<x, y, z>>[i]
    BY <2>2
  <2> HIDE DEF cat, S
  <2>5. cat = <<x, y, z>>
    BY <2>1, <2>2, <2>3, <2>4, SeqEqual
  <2> QED BY <2>5 DEF cat
<1>2. Head(<<x, y, z>>) = x
  OBVIOUS
<1>3. Tail(<<x, y, z>>) = <<y, z>>
  OBVIOUS
<1>4. <<x, y, z>> # <<>> /\ <<x, y, z>> # <<z>>
  OBVIOUS
<1> QED BY <1>1, <1>2, <1>3, <1>4

LEMMA ThreeItems ==
    ASSUME NEW x, NEW y, NEW z
    PROVE  ItemsOf(<<x, y, z>>) = {x.items, y.items, z.items}
BY DEF ItemsOf

-----------------------------------------------------------------------------
(* What a step of one operation leaves alone.                              *)

\* Another row stays, or its handle follows the file it is open on.
Follows(p) ==
    \/ op'[p] = op[p]
    \/ /\ op[p].handle # "none"
       /\ \E h \in Names \cup {"unlinked"} : op'[p] = [op[p] EXCEPT !.handle = h]

OnlyRow(o) ==
    /\ \A p \in Operations : p # o => Follows(p)
    /\ op'[o].kind = op[o].kind /\ op'[o].alone = op[o].alone /\ op'[o].pc # "idle"
    /\ condition' = condition /\ given \subseteq given'

LEMMA OthersKeep ==
    ASSUME TypeOK, NEW p \in Operations, Follows(p)
    PROVE  /\ op'[p].pc = op[p].pc /\ op'[p].kind = op[p].kind /\ op'[p].items = op[p].items
           /\ op'[p].jobs = op[p].jobs /\ op'[p].after = op[p].after
           /\ op'[p].left = op[p].left /\ op'[p].alone = op[p].alone
           /\ op'[p].handle = "none" <=> op[p].handle = "none"
           /\ op'[p].handle = op[p].handle \/ op'[p].handle \in Names \cup {"unlinked"}
           /\ op[p].pc = "idle" /\ op[p].handle = "none" => op'[p] = op[p]
           /\ op'[p] \in Row
<1>1. op[p] \in Row
  BY RowsOfTypes
<1>2. CASE op'[p] = op[p]
  BY <1>1, <1>2 DEF Row
<1>3. ASSUME op[p].handle # "none", NEW h \in Names \cup {"unlinked"},
             op'[p] = [op[p] EXCEPT !.handle = h]
      PROVE  /\ op'[p].pc = op[p].pc /\ op'[p].kind = op[p].kind /\ op'[p].items = op[p].items
             /\ op'[p].jobs = op[p].jobs /\ op'[p].after = op[p].after
             /\ op'[p].left = op[p].left /\ op'[p].alone = op[p].alone
             /\ op'[p].handle = h /\ h # "none"
             /\ op'[p] \in Row
  BY <1>1, <1>3 DEF Row, Names
<1> QED BY <1>2, <1>3 DEF Follows

LEMMA OthersFit ==
    ASSUME FilesInv, NEW p \in Operations, Follows(p)
    PROVE  RowFits(op[p])'
<1>1. RowFits(op[p]) /\ TypeOK
  BY DEF FilesInv
<1>2. /\ op'[p].pc = op[p].pc /\ op'[p].kind = op[p].kind /\ op'[p].items = op[p].items
      /\ op'[p].jobs = op[p].jobs /\ op'[p].after = op[p].after
      /\ op'[p].handle = "none" <=> op[p].handle = "none"
      /\ op[p].pc = "idle" /\ op[p].handle = "none" => op'[p] = op[p]
  BY <1>1, OthersKeep
<1>3. (Restores(op[p]) <=> Restores(op[p])') /\ (Saves(op[p]) <=> Saves(op[p])')
  BY <1>2 DEF Restores, Saves, LastWrite
<1> QED BY <1>1, <1>2, <1>3 DEF RowFits

LEMMA MadeStays ==
    ASSUME FilesInv, NEW o \in Operations, Running(o), OnlyRow(o)
    PROVE  MadeFirst'
<1>1. Made
  BY DEF FilesInv, MadeFirst, Running
<1>2. CASE condition.created
  BY <1>2 DEF MadeFirst, Made, OnlyRow
<1>3. ASSUME NEW p \in Operations, op[p].kind = "create", op[p].pc # "idle"
      PROVE  Made'
  <2>1. op'[p].kind = "create" /\ op'[p].pc # "idle"
    BY <1>3, OthersKeep DEF OnlyRow, FilesInv
  <2> QED BY <2>1 DEF Made
<1> QED BY <1>1, <1>2, <1>3 DEF Made, MadeFirst

LEMMA AloneStays ==
    ASSUME FilesInv, NEW o \in Operations, Running(o), OnlyRow(o),
           op[o].alone /\ Together = {o} /\ Running(o)' => AloneRow(o, op[o])'
    PROVE  \A p \in Operations : AloneInv(p)'
<1>1. ASSUME NEW p \in Operations, p # o, op'[p].alone, Running(p)'
      PROVE  FALSE
  <2>1. op[p].alone /\ Running(p)
    BY <1>1, OthersKeep DEF OnlyRow, FilesInv, Running
  <2>2. Together = {p}
    BY <2>1 DEF FilesInv, AloneInv
  <2> QED BY <1>1, <2>2 DEF Together
<1>2. ASSUME op'[o].alone, Running(o)' PROVE Together' = {o} /\ AloneRow(o, op[o])'
  <2>1. Together = {o} /\ op[o].alone
    BY <1>2 DEF FilesInv, AloneInv, OnlyRow
  <2>2. ASSUME NEW p \in Operations, p # o PROVE ~Running(p)'
    <3>1. ~Running(p)
      BY <2>1, <2>2 DEF Together
    <3> QED BY <2>2, <3>1, OthersKeep DEF OnlyRow, FilesInv, Running
  <2>3. Together' = {o}
    BY <1>2, <2>2 DEF Together
  <2> QED BY <1>2, <2>1, <2>3
<1> QED BY <1>1, <1>2 DEF AloneInv

\* What the next state says of a text.
ListedNext(items) ==
    \A a \in items : /\ op'[a].pc # "idle"
                     /\ op'[a].kind = "attach" => a \in uploads' \cup given'

LEMMA ListedOn ==
    ASSUME FilesInv, NEW o \in Operations, Running(o), OnlyRow(o),
           uploads \cup given \subseteq uploads' \cup given',
           NEW items \in SUBSET Operations, Listed(items)
    PROVE  ListedNext(items)
<1>1. ASSUME NEW a \in items
      PROVE  op'[a].pc # "idle" /\ op'[a].kind = op[a].kind
  BY <1>1, OthersKeep DEF OnlyRow, FilesInv, Listed
<1> QED BY <1>1 DEF Listed, ListedNext

\* Of the texts of o before the step, and those on disk.
LEMMA ListedNow ==
    ASSUME FilesInv, NEW o \in Operations, "all" \notin given
    PROVE  /\ \A name \in Names : Listed(disk[name].items)
           /\ Listed(op[o].items)
           /\ \A items \in ItemsOf(op[o].jobs) : Listed(items)
BY DEF FilesInv, ListedInv

LEMMA ListedStays ==
    ASSUME FilesInv, TypeOK', NEW o \in Operations, Running(o), OnlyRow(o),
           op'[o].pc = "unlink" => op'[o].left \subseteq given',
           op'[o].pc = "remove" => "all" \in given',
           "all" \notin given' =>
             /\ uploads \cup given \subseteq uploads' \cup given'
             /\ \A name \in Names : ListedNext(disk'[name].items)
             /\ ListedNext(op'[o].items)
             /\ \A items \in ItemsOf(op'[o].jobs) : ListedNext(items)
    PROVE  ListedInv'
<1>1. ASSUME NEW p \in Operations, p # o
      PROVE  /\ op'[p].pc = op[p].pc /\ op'[p].left = op[p].left
             /\ op'[p].items = op[p].items /\ op'[p].jobs = op[p].jobs
  BY <1>1, OthersKeep DEF OnlyRow, FilesInv
<1>2. ASSUME NEW p \in Operations
      PROVE  /\ op'[p].pc = "unlink" => op'[p].left \subseteq given'
             /\ op'[p].pc = "remove" => "all" \in given'
  <2>1. CASE p = o
    BY <2>1
  <2>2. CASE p # o
    BY <1>1, <2>2 DEF FilesInv, ListedInv, OnlyRow
  <2> QED BY <2>1, <2>2
<1>3. ASSUME "all" \notin given', NEW p \in Operations
      PROVE  ListedNext(op'[p].items) /\ \A items \in ItemsOf(op'[p].jobs) : ListedNext(items)
  <2>1. CASE p = o
    BY <1>3, <2>1
  <2>2. CASE p # o
    <3>1. "all" \notin given
      BY <1>3 DEF OnlyRow
    <3>2. op[p].items \in SUBSET Operations /\ op[p].jobs \in Seq(Jobs)
      BY DEF FilesInv, TypeOK
    <3>3. \A items \in ItemsOf(op[p].jobs) : items \in SUBSET Operations
      <4>1. ASSUME NEW i \in DOMAIN op[p].jobs PROVE op[p].jobs[i].items \in SUBSET Operations
        <5>1. op[p].jobs[i] \in Jobs
          BY <3>2
        <5> QED BY <5>1 DEF Jobs
      <4> QED BY <4>1 DEF ItemsOf
    <3>4. Listed(op[p].items) /\ \A items \in ItemsOf(op[p].jobs) : Listed(items)
      BY <3>1, ListedNow
    <3>5. ListedNext(op[p].items) /\ \A items \in ItemsOf(op[p].jobs) : ListedNext(items)
      BY <1>3, <3>2, <3>3, <3>4, ListedOn
    <3>6. ItemsOf(op'[p].jobs) = ItemsOf(op[p].jobs) /\ op'[p].items = op[p].items
      BY <1>1, <2>2
    <3> QED BY <3>5, <3>6
  <2> QED BY <2>1, <2>2
<1>4. ASSUME NEW items PROVE Listed(items)' <=> ListedNext(items')
  BY DEF Listed, ListedNext
<1>5. \A p \in Operations : ItemsOf(op[p].jobs)' = ItemsOf(op'[p].jobs)
  BY DEF ItemsOf
<1>6. ASSUME "all" \notin given'
      PROVE  /\ \A name \in Names : Listed(disk[name].items)'
             /\ \A p \in Operations :
                  /\ Listed(op[p].items)'
                  /\ \A items \in ItemsOf(op[p].jobs)' : Listed(items)'
  BY <1>3, <1>5, <1>6 DEF Listed, ListedNext
<1> QED BY <1>2, <1>6 DEF ListedInv

\* For an answered change p, what o puts on disk has it.
DiskKeeps(p) ==
    \A name \in Names :
        disk'[name].is = "whole" => disk'[name] = disk[name] \/ p \in disk'[name].items \cup given'

WasAnswered(p) == op[p].pc = "answered" /\ op[p].alone /\ op[p].kind \in Adds

LEMMA TempIsName ==
    ASSUME TypeOK, NEW o \in Operations, RowFits(op[o]), op[o].pc \in Writing
    PROVE  /\ Temp(op[o]) \in Names
           /\ op[o].jobs # <<>> /\ Head(op[o].jobs) \in Jobs
<1>1. op[o].jobs # <<>>
  BY OneJob, TwoJobs, ThreeJobs DEF RowFits, Restores, Saves, LastWrite
<1>2. op[o].jobs \in Seq(Jobs)
  BY DEF TypeOK
<1>3. Head(op[o].jobs) \in Jobs
  BY <1>1, <1>2, HeadTailProperties
<1> QED BY <1>1, <1>3 DEF Temp, Jobs

LEMMA AnsweredKeeps ==
    ASSUME FilesInv, NEW o \in Operations, Running(o), OnlyRow(o),
           NEW p \in Operations, p # o,
           WasAnswered(p) => DiskKeeps(p) /\ (Running(o)' => Carries(p, o)')
    PROVE  AnsweredInv(p)'
<1>1. ASSUME WasAnswered(p)'
      PROVE  /\ \A name \in {"main", "bak"} : Readable(name)' => Kept(p, disk[name].items)'
             /\ \A q \in Operations : Running(q)' => Carries(p, q)'
  <2>1. WasAnswered(p)
    BY <1>1, OthersKeep DEF OnlyRow, FilesInv, WasAnswered
  <2>2. /\ \A name \in {"main", "bak"} : Readable(name) => Kept(p, disk[name].items)
        /\ \A q \in Operations : Running(q) => Carries(p, q)
        /\ given \subseteq given'
    BY <2>1 DEF FilesInv, AnsweredInv, WasAnswered, OnlyRow
  <2>3. ASSUME NEW name \in {"main", "bak"}, Readable(name)' PROVE Kept(p, disk[name].items)'
    BY <2>1, <2>2, <2>3 DEF DiskKeeps, Readable, Kept, Names
  <2>4. ASSUME NEW q \in Operations, q # o, Running(q)' PROVE Carries(p, q)'
    <3>1. /\ op'[q].pc = op[q].pc /\ op'[q].items = op[q].items /\ op'[q].jobs = op[q].jobs
      BY <2>4, OthersKeep DEF OnlyRow, FilesInv
    <3>2. Running(q) /\ Carries(p, q)
      BY <2>2, <2>4, <3>1 DEF Running
    <3>3. ASSUME op'[q].pc \in {"write", "rename"}, Readable(Temp(op[q]))'
          PROVE  Kept(p, disk[Temp(op[q])].items)'
      <4>1. Temp(op[q]) \in Names /\ Temp(op[q])' = Temp(op[q])
        BY <3>1, <3>3, TempIsName DEF FilesInv, Writing, Temp
      <4>2. disk'[Temp(op[q])].is = "whole"
        BY <3>3, <4>1 DEF Readable
      <4>3. Readable(Temp(op[q])) => Kept(p, disk[Temp(op[q])].items)
        BY <3>1, <3>2, <3>3 DEF Carries
      <4>4. p \in disk'[Temp(op[q])].items \cup given'
        BY <2>1, <2>2, <4>1, <4>2, <4>3 DEF DiskKeeps, Readable, Kept
      <4> QED BY <4>1, <4>4 DEF Kept
    <3>4. op'[q].pc \in Loaded => Kept(p, op[q].items)'
      BY <2>2, <3>1, <3>2 DEF Carries, Kept
    <3>5. op'[q].pc \in Writing => \A items \in ItemsOf(op'[q].jobs) : p \in items \cup given'
      BY <2>2, <3>1, <3>2 DEF Carries, Kept
    <3> QED BY <3>3, <3>4, <3>5 DEF Carries, Kept, ItemsOf
  <2> QED BY <2>1, <2>3, <2>4
<1> QED BY <1>1 DEF AnsweredInv, WasAnswered

LEMMA MainStays ==
    ASSUME FilesInv, NEW o \in Operations, Running(o), OnlyRow(o),
           op[o].alone /\ "all" \notin given' =>
             \/ disk'["main"].is = "whole"
             \/ /\ disk'["main"] = disk["main"]
                /\ op[o].kind = "create" /\ op'[o].pc \in {"answer", "answered"}
                     => op[o].pc = "answer"
    PROVE  MainIsWhole'
<1> SUFFICES ASSUME \A p \in Operations : op'[p].alone, "all" \notin given',
                    Created' \/ \E p \in Operations : op'[p].kind = "create" /\ op'[p].pc = "answer"
             PROVE  Readable("main")'
  BY DEF MainIsWhole
<1>1. \A p \in Operations : op[p].alone
  BY OthersKeep DEF OnlyRow, FilesInv
<1>2. "all" \notin given
  BY DEF OnlyRow
<1>3. CASE disk'["main"].is = "whole"
  BY <1>3 DEF Readable
<1>4. CASE /\ disk'["main"] = disk["main"]
           /\ op[o].kind = "create" /\ op'[o].pc \in {"answer", "answered"}
                => op[o].pc = "answer"
  <2>1. Created \/ \E p \in Operations : op[p].kind = "create" /\ op[p].pc = "answer"
    <3>1. CASE condition'.created
      BY <3>1 DEF Created, OnlyRow
    <3>2. ASSUME NEW p \in Operations, op'[p].kind = "create", op'[p].pc \in {"answer", "answered"}
          PROVE  Created \/ \E q \in Operations : op[q].kind = "create" /\ op[q].pc = "answer"
      <4>1. CASE p = o
        BY <1>4, <3>2, <4>1 DEF OnlyRow
      <4>2. CASE p # o
        <5>1. op[p].kind = "create" /\ op[p].pc \in {"answer", "answered"}
          BY <3>2, <4>2, OthersKeep DEF OnlyRow, FilesInv
        <5> QED BY <5>1 DEF Created
      <4> QED BY <4>1, <4>2
    <3> QED BY <3>1, <3>2 DEF Created
  <2>2. Readable("main")
    BY <1>1, <1>2, <2>1 DEF FilesInv, MainIsWhole
  <2> QED BY <1>4, <2>2 DEF Readable
<1> QED BY <1>1, <1>3, <1>4

\* What a step of one operation has to show.
LEMMA RowStep ==
    ASSUME FilesInv, TypeOK', NEW o \in Operations, Running(o), OnlyRow(o),
           RowFits(op[o])', ListedInv', MainIsWhole',
           op[o].alone /\ Together = {o} /\ Running(o)' => AloneRow(o, op[o])',
           op'[o].pc # "answered",
           \A p \in Operations :
             p # o /\ WasAnswered(p) => DiskKeeps(p) /\ (Running(o)' => Carries(p, o)')
    PROVE  FilesInv'
<1>1. \A p \in Operations : RowFits(op[p])'
  BY OthersFit DEF OnlyRow
<1>2. \A p \in Operations : AloneInv(p)'
  BY AloneStays
<1>3. \A p \in Operations : AnsweredInv(p)'
  <2>1. AnsweredInv(o)'
    BY DEF AnsweredInv
  <2> QED BY <2>1, AnsweredKeeps
<1> QED BY <1>1, <1>2, <1>3, MadeStays DEF FilesInv

-----------------------------------------------------------------------------
(* Steps that change no file.                                              *)

\* The row of o becomes `row`; the files stay.
Becomes(o, row) ==
    /\ op' = [op EXCEPT ![o] = row]
    /\ row \in Row /\ row.kind = op[o].kind /\ row.alone = op[o].alone
    /\ row.pc # "idle" /\ row.handle = "none"
    /\ UNCHANGED <<disk, condition>> /\ given \subseteq given'

LEMMA BecomesOnly ==
    ASSUME TypeOK, NEW o \in Operations, NEW row, Becomes(o, row)
    PROVE  OnlyRow(o) /\ op'[o] = row /\ (\A p \in Operations : DiskKeeps(p))
<1>1. op \in [Operations -> Row]
  BY RowsOfTypes
<1>2. op'[o] = row /\ \A p \in Operations : p # o => op'[p] = op[p]
  BY <1>1 DEF Becomes
<1> QED BY <1>2 DEF Becomes, OnlyRow, Follows, DiskKeeps

LEMMA BecomesTyped ==
    ASSUME TypeOK, NEW o \in Operations, NEW row, Becomes(o, row),
           uploads' \subseteq Operations, given' \subseteq Operations \cup {"all"}
    PROVE  TypeOK'
<1>1. op \in [Operations -> Row]
  BY RowsOfTypes
<1>2. op' \in [Operations -> Row]
  BY <1>1 DEF Becomes
<1> QED BY <1>2 DEF TypeOK, Becomes, Row, Places, Left

\* A step of memory: the row has a text that was loaded, in memory or on disk.
LEMMA MemoryStep ==
    ASSUME FilesInv, NEW o \in Operations, Running(o), NEW row, Becomes(o, row),
           uploads' \subseteq Operations, given' \subseteq Operations \cup {"all"},
           "all" \notin given' => uploads \cup given \subseteq uploads' \cup given',
           RowFits(row), AloneRow(o, row) \/ ~op[o].alone,
           row.pc \notin {"write", "rename", "answered"},
           row.pc = "unlink" => row.left \subseteq given',
           row.pc = "remove" => "all" \in given',
           op[o].kind = "create" /\ row.pc = "answer" => op[o].pc = "answer",
           "all" \notin given' => /\ Listed(row.items) \/ ListedNext(row.items)
                                 /\ \A items \in ItemsOf(row.jobs) : Listed(items),
           \A p \in Operations :
             p # o /\ WasAnswered(p) /\ Carries(p, o) =>
               /\ row.pc \in Loaded => Kept(p, row.items)
               /\ row.pc \in Writing => \A items \in ItemsOf(row.jobs) : Kept(p, items)
    PROVE  FilesInv'
<1>1. TypeOK /\ TypeOK' /\ OnlyRow(o) /\ op'[o] = row /\ (\A p \in Operations : DiskKeeps(p))
  BY BecomesOnly, BecomesTyped DEF FilesInv
<1>2. RowFits(op[o])'
  BY <1>1 DEF RowFits, Restores, Saves, LastWrite
<1>3. op[o].alone /\ Together = {o} /\ Running(o)' => AloneRow(o, op[o])'
  BY <1>1 DEF AloneRow, Becomes, Saves, LastWrite
<1>4. MainIsWhole'
  <2>1. disk'["main"] = disk["main"]
    BY DEF Becomes
  <2> QED BY <1>1, <2>1, MainStays
<1>5. ListedInv'
  <2>1. \A items \in ItemsOf(row.jobs) : items \in SUBSET Operations
    <3>1. row.jobs \in Seq(Jobs)
      BY DEF Becomes, Row
    <3>2. ASSUME NEW i \in DOMAIN row.jobs PROVE row.jobs[i].items \in SUBSET Operations
      <4>1. row.jobs[i] \in Jobs
        BY <3>1, <3>2
      <4> QED BY <4>1 DEF Jobs
    <3> QED BY <3>2 DEF ItemsOf
  <2>2. row.items \in SUBSET Operations
    BY DEF Becomes, Row
  <2>3. ASSUME "all" \notin given'
        PROVE  /\ uploads \cup given \subseteq uploads' \cup given'
               /\ \A name \in Names : ListedNext(disk'[name].items)
               /\ ListedNext(op'[o].items)
               /\ \A items \in ItemsOf(op'[o].jobs) : ListedNext(items)
    <3>1. "all" \notin given /\ uploads \cup given \subseteq uploads' \cup given'
      BY <2>3 DEF Becomes
    <3>2. \A name \in Names : disk[name].items \in SUBSET Operations
      BY <1>1, RowsOfTypes DEF Contents, Bad
    <3>3. \A name \in Names : ListedNext(disk[name].items)
      BY <1>1, <3>1, <3>2, ListedNow, ListedOn
    <3>4. ListedNext(row.items) /\ \A items \in ItemsOf(row.jobs) : ListedNext(items)
      BY <1>1, <2>1, <2>2, <2>3, <3>1, ListedOn
    <3> QED BY <1>1, <3>1, <3>3, <3>4 DEF Becomes
  <2> QED BY <1>1, <2>3, ListedStays
<1>6. ASSUME NEW p \in Operations, p # o, WasAnswered(p), Running(o)' PROVE Carries(p, o)'
  <2>1. Carries(p, o)
    BY <1>6 DEF FilesInv, AnsweredInv, WasAnswered
  <2>2. given \subseteq given'
    BY DEF Becomes
  <2>3. row.pc \in Loaded => Kept(p, row.items)
    BY <1>6, <2>1
  <2>4. row.pc \in Writing => \A items \in ItemsOf(row.jobs) : Kept(p, items)
    BY <1>6, <2>1
  <2> QED BY <1>1, <2>2, <2>3, <2>4 DEF Carries, Kept, ItemsOf
<1> QED BY <1>1, <1>2, <1>3, <1>4, <1>5, <1>6, RowStep

-----------------------------------------------------------------------------
(* The steps of memory.                                                    *)

LEMMA Here ==
    ASSUME FilesInv, NEW o \in Operations
    PROVE  /\ TypeOK /\ op \in [Operations -> Row] /\ op[o] \in Row /\ RowFits(op[o])
           /\ uploads \subseteq Operations /\ given \subseteq Operations \cup {"all"}
           /\ op[o].items \in SUBSET Operations
           /\ \A name \in Names : disk[name] \in Contents /\ disk[name].items \in SUBSET Operations
           /\ op[o].alone /\ Running(o) => AloneRow(o, op[o])
BY RowsOfTypes DEF FilesInv, TypeOK, Row, Contents, Bad, AloneInv

LEMMA DiskIsKept ==
    ASSUME FilesInv, NEW p \in Operations, WasAnswered(p), NEW name \in {"main", "bak"},
           Readable(name)
    PROVE  Kept(p, disk[name].items)
BY DEF FilesInv, AnsweredInv, WasAnswered

\* A step to a place that has nothing of its own.
LEMMA GoStep ==
    ASSUME FilesInv, NEW o \in Operations, Running(o), NEW pc \in Places,
           op' = Go(o, pc), Keep, op[o].pc # "write",
           pc \in {"read", "bakexists", "bakread", "thrown", "saveread"}
             \/ (pc = "answer" /\ op[o].kind = "read") \/ (pc = "upload" /\ op[o].kind = "attach"),
           op[o].kind = "create" => pc \in {"thrown", "saveread"},
           pc = "upload" => op[o].pc \in Loaded,
           pc = "saveread" => op[o].pc = "saveexists"
    PROVE  FilesInv'
<1> DEFINE row == [op[o] EXCEPT !.pc = pc]
<1>1. /\ TypeOK /\ op \in [Operations -> Row] /\ op[o] \in Row /\ RowFits(op[o])
      /\ uploads \subseteq Operations /\ given \subseteq Operations \cup {"all"}
      /\ op[o].alone => AloneRow(o, op[o])
  BY Here
<1>2. /\ row \in Row /\ row.pc = pc /\ row.kind = op[o].kind /\ row.alone = op[o].alone
      /\ row.items = op[o].items /\ row.jobs = op[o].jobs /\ row.handle = op[o].handle
      /\ row.left = op[o].left
  BY <1>1 DEF Row
<1>3. op' = [op EXCEPT ![o] = row]
  BY <1>1, GoIs
<1> HIDE DEF row
<1>4. Becomes(o, row)
  BY <1>1, <1>2, <1>3 DEF Becomes, Keep, RowFits
<1>5. RowFits(row)
  BY <1>1, <1>2 DEF RowFits, Writing
<1>6. op[o].alone => AloneRow(o, row)
  BY <1>1, <1>2 DEF AloneRow, Writing, SavedKinds, Adds
<1>7. "all" \notin given => /\ Listed(row.items)
                            /\ \A items \in ItemsOf(row.jobs) : Listed(items)
  BY <1>2, ListedNow
<1>8. ASSUME NEW p \in Operations, Carries(p, o)
      PROVE  /\ row.pc \in Loaded => Kept(p, row.items)
             /\ row.pc \in Writing => \A items \in ItemsOf(row.jobs) : Kept(p, items)
  BY <1>2, <1>8 DEF Carries, Loaded, Writing
<1> QED BY <1>1, <1>2, <1>4, <1>5, <1>6, <1>7, <1>8, MemoryStep DEF Keep

LEMMA ExistsStep == ASSUME FilesInv, NEW o \in Operations, Exists(o) PROVE FilesInv'
<1>1. Running(o) /\ op[o].kind # "create"
  BY Here DEF Exists, Running, RowFits
<1>2. op' = Go(o, "read") \/ op' = Go(o, "thrown")
  BY DEF Exists
<1> QED BY <1>1, <1>2, GoStep DEF Exists, Places

LEMMA BackupExistsStep == ASSUME FilesInv, NEW o \in Operations, BackupExists(o) PROVE FilesInv'
<1>1. Running(o) /\ op[o].kind # "create"
  BY Here DEF BackupExists, Running, RowFits
<1>2. op' = Go(o, "bakread") \/ op' = Go(o, "thrown")
  BY DEF BackupExists
<1> QED BY <1>1, <1>2, GoStep DEF BackupExists, Places

LEMMA RefuseStep == ASSUME FilesInv, NEW o \in Operations, Refuse(o) PROVE FilesInv'
<1>1. Running(o)
  BY DEF Refuse, Running
<1> QED BY <1>1, GoStep DEF Refuse, Places

\* A step to a place that has items, but nothing to write yet.
LEMMA LoadStep ==
    ASSUME FilesInv, NEW o \in Operations, Running(o), NEW row, Becomes(o, row),
           row.pc \in {"apply", "saveexists", "unlink", "remove"}, row.jobs = op[o].jobs,
           uploads' \subseteq Operations, given' \subseteq Operations \cup {"all"},
           "all" \notin given' => uploads \cup given \subseteq uploads' \cup given',
           op[o].kind # "create",
           row.pc = "unlink" => op[o].kind = "detach" /\ row.left \subseteq given',
           row.pc = "remove" => op[o].kind = "delete" /\ "all" \in given',
           row.pc = "saveexists" /\ op[o].kind \in Adds => o \in row.items,
           "all" \notin given' => Listed(row.items) \/ ListedNext(row.items),
           \A p \in Operations : p # o /\ WasAnswered(p) /\ Carries(p, o) => Kept(p, row.items)
    PROVE  FilesInv'
<1>1. RowFits(row)
  BY DEF RowFits, Becomes, Writing
<1>2. AloneRow(o, row)
  BY DEF AloneRow, Becomes, Writing
<1>3. "all" \notin given' => \A items \in ItemsOf(row.jobs) : Listed(items)
  BY ListedNow DEF Becomes
<1>4. row.pc \notin Writing
  BY DEF Writing
<1> QED BY <1>1, <1>2, <1>3, <1>4, MemoryStep

LEMMA ReadStep == ASSUME FilesInv, NEW o \in Operations, Read(o) PROVE FilesInv'
<1>1. Running(o) /\ op[o].kind # "create"
  BY Here DEF Read, Running, RowFits
<1>2. CASE ~Readable("main")
  BY <1>1, <1>2, GoStep DEF Read, Places
<1>3. CASE Readable("main")
  <2>1. /\ TypeOK /\ op \in [Operations -> Row] /\ op[o] \in Row /\ RowFits(op[o])
        /\ uploads \subseteq Operations /\ given \subseteq Operations \cup {"all"}
        /\ disk["main"].items \in SUBSET Operations
    BY Here DEF Names
  <2> DEFINE row == [op[o] EXCEPT !.items = disk["main"].items, !.pc = "apply"]
             fields == [items |-> disk["main"].items, pc |-> "apply"]
  <2>1k. /\ op \in [Operations -> Row] /\ row \in Row
         /\ row.kind = op[o].kind /\ row.jobs = op[o].jobs
         /\ row.handle = op[o].handle /\ row.after = op[o].after
         /\ row.left = op[o].left /\ row.alone = op[o].alone
    BY <2>1 DEF Row, Places, Left
  <2>1r. /\ row.items = disk["main"].items
        /\ row.pc = "apply"
    BY <2>1 DEF Row
  <2>1f. /\ DOMAIN fields = {"items", "pc"}
         /\ fields.items = row.items /\ fields.pc = row.pc
    BY <2>1r
  <2>1d. Step(o, [items |-> disk["main"].items, pc |-> "apply"]) = Step(o, fields)
    OBVIOUS
  <2> HIDE DEF row, fields
  <2>1s. Step(o, fields) = [op EXCEPT ![o] = row]
    BY <2>1k, <2>1f, StepIs
  <2>2. op' = [op EXCEPT ![o] = row]
    BY <1>3, <2>1d, <2>1s DEF Read
  <2>5. Becomes(o, row)
    BY <2>1, <2>1k, <2>1r, <2>2 DEF Becomes, Keep, Read, RowFits
  <2>6. "all" \notin given' => Listed(row.items)
    <3>1. given' = given
      BY DEF Read, Keep
    <3> QED BY <2>1k, <2>1r, <3>1, ListedNow DEF Names
  <2>7. \A p \in Operations : p # o /\ WasAnswered(p) => Kept(p, row.items)
    BY <1>3, <2>1k, <2>1r, DiskIsKept
  <2> QED BY <1>1, <2>1, <2>1k, <2>1r, <2>5, <2>6, <2>7, LoadStep DEF Read, Keep
<1> QED BY <1>2, <1>3

LEMMA UploadStep == ASSUME FilesInv, NEW o \in Operations, Upload(o) PROVE FilesInv'
<1>1. Running(o) /\ op[o].kind = "attach"
  BY Here DEF Upload, Running, RowFits
<1>2. /\ TypeOK /\ op \in [Operations -> Row] /\ op[o] \in Row /\ RowFits(op[o])
      /\ uploads \subseteq Operations /\ given \subseteq Operations \cup {"all"}
      /\ op[o].items \cup {o} \in SUBSET Operations
  BY Here
<1> DEFINE row == [op[o] EXCEPT !.items = op[o].items \cup {o}, !.pc = "saveexists"]
           fields == [items |-> op[o].items \cup {o}, pc |-> "saveexists"]
<1>2k. /\ op \in [Operations -> Row] /\ row \in Row
       /\ row.kind = op[o].kind /\ row.jobs = op[o].jobs
       /\ row.handle = op[o].handle /\ row.after = op[o].after
       /\ row.left = op[o].left /\ row.alone = op[o].alone
  BY <1>2 DEF Row, Places, Left
<1>2r. /\ row.items = op[o].items \cup {o}
      /\ row.pc = "saveexists"
  BY <1>2 DEF Row
<1>2f. /\ DOMAIN fields = {"items", "pc"}
       /\ fields.items = row.items /\ fields.pc = row.pc
  BY <1>2r
<1>2d. Step(o, [items |-> op[o].items \cup {o}, pc |-> "saveexists"]) = Step(o, fields)
  OBVIOUS
<1> HIDE DEF row, fields
<1>2s. Step(o, fields) = [op EXCEPT ![o] = row]
  BY <1>2k, <1>2f, StepIs
<1>5. op' = [op EXCEPT ![o] = row]
  BY <1>2d, <1>2s DEF Upload
<1>6. Becomes(o, row)
  BY <1>2, <1>2k, <1>2r, <1>5 DEF Becomes, Upload, RowFits
<1>7. OnlyRow(o) /\ op'[o] = row
  BY <1>2, <1>6, BecomesOnly
<1>8. "all" \notin given' => ListedNext(row.items)
  <2>1. ASSUME "all" \notin given' PROVE ListedNext(op[o].items)
    <3>1. Listed(op[o].items)
      BY <2>1, ListedNow DEF Upload
    <3> QED BY <1>1, <1>2, <1>7, <3>1, ListedOn, Here DEF Upload
  <2> QED BY <1>2k, <1>2r, <1>6, <1>7, <2>1 DEF ListedNext, Upload, Becomes
<1>9. \A p \in Operations : Carries(p, o) => Kept(p, row.items)
  BY <1>2k, <1>2r DEF Carries, Kept, Loaded, Upload
<1> QED BY <1>1, <1>2, <1>2k, <1>2r, <1>6, <1>8, <1>9, LoadStep DEF Upload

LEMMA UnlinkStep == ASSUME FilesInv, NEW o \in Operations, Unlink(o) PROVE FilesInv'
<1>1. Running(o) /\ op[o].left \subseteq given /\ op[o].kind # "create"
  BY Here DEF Unlink, Running, FilesInv, ListedInv, RowFits
<1>2. /\ TypeOK /\ op \in [Operations -> Row] /\ op[o] \in Row /\ RowFits(op[o])
      /\ uploads \subseteq Operations /\ given \subseteq Operations \cup {"all"}
      /\ op[o].items \ op[o].left \in SUBSET Operations
  BY Here
<1> DEFINE row == [op[o] EXCEPT !.items = op[o].items \ op[o].left, !.left = {}, !.pc = "saveexists"]
           fields == [items |-> op[o].items \ op[o].left, left |-> {}, pc |-> "saveexists"]
<1>2k. /\ op \in [Operations -> Row] /\ row \in Row
       /\ row.kind = op[o].kind /\ row.jobs = op[o].jobs
       /\ row.handle = op[o].handle /\ row.after = op[o].after
       /\ row.alone = op[o].alone
  BY <1>2 DEF Row, Places, Left
<1>2r. /\ row.items = op[o].items \ op[o].left
      /\ row.left = {}
      /\ row.pc = "saveexists"
  BY <1>2 DEF Row
<1>2f. /\ DOMAIN fields = {"items", "left", "pc"}
       /\ fields.items = row.items /\ fields.left = row.left /\ fields.pc = row.pc
  BY <1>2r
<1>2d. Step(o, [items |-> op[o].items \ op[o].left, left |-> {}, pc |-> "saveexists"]) = Step(o, fields)
  OBVIOUS
<1> HIDE DEF row, fields
<1>2s. Step(o, fields) = [op EXCEPT ![o] = row]
  BY <1>2k, <1>2f, StepIs
<1>5. op' = [op EXCEPT ![o] = row]
  BY <1>2d, <1>2s DEF Unlink
<1>6. Becomes(o, row)
  BY <1>2, <1>2k, <1>2r, <1>5 DEF Becomes, Unlink, RowFits
<1>7. "all" \notin given' => Listed(row.items)
  <2>1. ASSUME "all" \notin given' PROVE Listed(op[o].items)
    BY <2>1, ListedNow DEF Unlink
  <2> QED BY <1>2k, <1>2r, <2>1 DEF Listed
<1>8. \A p \in Operations : Carries(p, o) => Kept(p, row.items)
  BY <1>1, <1>2k, <1>2r DEF Carries, Kept, Loaded, Unlink
<1>9. uploads' \subseteq Operations /\ uploads \cup given \subseteq uploads' \cup given'
  BY <1>1, <1>2 DEF Unlink
<1>10. op[o].kind \notin Adds
  BY Here DEF Unlink, RowFits, Adds
<1> QED BY <1>1, <1>2, <1>2k, <1>2r, <1>6, <1>7, <1>8, <1>9, <1>10, LoadStep DEF Unlink

LEMMA BackupReadStep == ASSUME FilesInv, NEW o \in Operations, BackupRead(o) PROVE FilesInv'
<1>1. Running(o) /\ op[o].kind # "create"
  BY Here DEF BackupRead, Running, RowFits
<1>2. CASE ~Readable("bak")
  BY <1>1, <1>2, GoStep DEF BackupRead, Places
<1>3. CASE Readable("bak")
  <2> DEFINE items == disk["bak"].items
             job == Job("restore", "main", items)
             jobs == <<job>>
  <2>1. /\ TypeOK /\ op \in [Operations -> Row] /\ op[o] \in Row /\ RowFits(op[o])
        /\ uploads \subseteq Operations /\ given \subseteq Operations \cup {"all"}
        /\ items \in SUBSET Operations
    BY Here DEF Names
  <2>2. job \in Jobs /\ job.items = items /\ job.temp = "restore"
    BY <2>1 DEF Job, Jobs, Names
  <2>3. jobs \in Seq(Jobs) /\ ItemsOf(jobs) = {items} /\ Head(jobs).temp = "restore"
    <3> HIDE DEF job
    <3>1. jobs \in Seq(Jobs)
      BY <2>2
    <3> QED BY <2>2, <3>1, OneJob
  <2>4. op' = Step(o, [items |-> items, pc |-> "open", after |-> "apply", jobs |-> jobs])
    BY <1>3 DEF BackupRead
  <2> HIDE DEF items, job, jobs
  <2> DEFINE row == [op[o] EXCEPT !.items = items, !.pc = "open", !.after = "apply", !.jobs = jobs]
             fields == [items |-> items, pc |-> "open", after |-> "apply", jobs |-> jobs]
  <2>1k. /\ op \in [Operations -> Row] /\ row \in Row
         /\ row.kind = op[o].kind /\ row.handle = op[o].handle
         /\ row.left = op[o].left /\ row.alone = op[o].alone
    BY <2>1, <2>3 DEF Row, Places, Left
  <2>1r. /\ row.items = items
        /\ row.pc = "open"
        /\ row.after = "apply"
        /\ row.jobs = jobs
    BY <2>1, <2>3 DEF Row
  <2>1f. /\ DOMAIN fields = {"items", "pc", "after", "jobs"}
         /\ fields.items = row.items /\ fields.pc = row.pc /\ fields.after = row.after /\ fields.jobs = row.jobs
    BY <2>1r
  <2>1d. Step(o, [items |-> items, pc |-> "open", after |-> "apply", jobs |-> jobs]) = Step(o, fields)
    OBVIOUS
  <2> HIDE DEF row, fields
  <2>1s. Step(o, fields) = [op EXCEPT ![o] = row]
    BY <2>1k, <2>1f, StepIs
  <2>5. Restores(row)
    BY <2>1r DEF Restores, jobs, job
  <2>6. op' = [op EXCEPT ![o] = row]
    BY <2>4, <2>1d, <2>1s
  <2>7. Becomes(o, row)
    BY <2>1, <2>1k, <2>1r, <2>6 DEF Becomes, Keep, BackupRead, RowFits
  <2>8. RowFits(row)
    BY <1>1, <2>1, <2>1k, <2>1r, <2>5 DEF RowFits, Writing, BackupRead
  <2>9. AloneRow(o, row)
    <3>1. ~LastWrite(row) /\ ~Saves(row)
      <4>1. Head(<<Backup(row.items)>>).temp = "baktmp"
        BY OneJob DEF Backup, Job
      <4> QED BY <2>1r, <2>3, <4>1 DEF LastWrite, Saves
    <3> QED BY <2>1r, <3>1 DEF AloneRow
  <2>10. "all" \notin given' => Listed(row.items) /\ \A X \in ItemsOf(row.jobs) : Listed(X)
    <3>1. given' = given
      BY DEF BackupRead, Keep
    <3> QED BY <2>1r, <2>3, <3>1, ListedNow DEF Names, items
  <2>11. \A p \in Operations : p # o /\ WasAnswered(p) =>
           Kept(p, row.items) /\ \A X \in ItemsOf(row.jobs) : Kept(p, X)
    BY <1>3, <2>1r, <2>3, DiskIsKept DEF items
  <2> QED BY <1>1, <2>1, <2>1k, <2>1r, <2>7, <2>8, <2>9, <2>10, <2>11, MemoryStep DEF BackupRead, Keep
<1> QED BY <1>2, <1>3

LEMMA ChangeStep ==
    ASSUME FilesInv, NEW o \in Operations, op[o].pc = "apply", op[o].kind = "change",
           op' = Step(o, [items |-> op[o].items \cup {o}, pc |-> "saveexists"]), Keep
    PROVE  FilesInv'
<1>1. Running(o)
  BY DEF Running
<1>2. /\ TypeOK /\ op \in [Operations -> Row] /\ op[o] \in Row /\ RowFits(op[o])
      /\ uploads \subseteq Operations /\ given \subseteq Operations \cup {"all"}
      /\ op[o].items \cup {o} \in SUBSET Operations
  BY Here
<1> DEFINE row == [op[o] EXCEPT !.items = op[o].items \cup {o}, !.pc = "saveexists"]
           fields == [items |-> op[o].items \cup {o}, pc |-> "saveexists"]
<1>2k. /\ op \in [Operations -> Row] /\ row \in Row
       /\ row.kind = op[o].kind /\ row.jobs = op[o].jobs
       /\ row.handle = op[o].handle /\ row.after = op[o].after
       /\ row.left = op[o].left /\ row.alone = op[o].alone
  BY <1>2 DEF Row, Places, Left
<1>2r. /\ row.items = op[o].items \cup {o}
      /\ row.pc = "saveexists"
  BY <1>2 DEF Row
<1>2f. /\ DOMAIN fields = {"items", "pc"}
       /\ fields.items = row.items /\ fields.pc = row.pc
  BY <1>2r
<1>2d. Step(o, [items |-> op[o].items \cup {o}, pc |-> "saveexists"]) = Step(o, fields)
  OBVIOUS
<1> HIDE DEF row, fields
<1>2s. Step(o, fields) = [op EXCEPT ![o] = row]
  BY <1>2k, <1>2f, StepIs
<1>5. op' = [op EXCEPT ![o] = row]
  BY <1>2d, <1>2s
<1>6. Becomes(o, row)
  BY <1>2, <1>2k, <1>2r, <1>5 DEF Becomes, Keep, RowFits
<1>7. "all" \notin given' => Listed(row.items)
  <2>1. ASSUME "all" \notin given' PROVE Listed(op[o].items)
    BY <2>1, ListedNow DEF Keep
  <2> QED BY <1>2r, <2>1 DEF Listed
<1>8. \A p \in Operations : Carries(p, o) => Kept(p, row.items)
  BY <1>2r DEF Carries, Kept, Loaded
<1>9. o \in row.items
  BY <1>2r
<1> QED BY <1>1, <1>2, <1>2k, <1>2r, <1>6, <1>7, <1>8, <1>9, LoadStep DEF Keep

LEMMA TakeStep ==
    ASSUME FilesInv, NEW o \in Operations, op[o].pc = "apply", NEW left \in Left, NEW what,
           NEW pc \in {"unlink", "remove"}, op[o].kind \in {"detach", "delete"},
           pc = "unlink" => op[o].kind = "detach" /\ left \subseteq {what},
           pc = "remove" => op[o].kind = "delete" /\ what = "all",
           what \in Operations \cup {"all"},
           op' = Step(o, [left |-> left, pc |-> pc]), given' = given \cup {what},
           UNCHANGED <<disk, uploads, condition>>
    PROVE  FilesInv'
<1>1. Running(o)
  BY DEF Running
<1>2. /\ TypeOK /\ op \in [Operations -> Row] /\ op[o] \in Row /\ RowFits(op[o])
      /\ uploads \subseteq Operations /\ given \subseteq Operations \cup {"all"}
  BY Here
<1> DEFINE row == [op[o] EXCEPT !.left = left, !.pc = pc]
           fields == [left |-> left, pc |-> pc]
<1>2k. /\ op \in [Operations -> Row] /\ row \in Row
       /\ row.kind = op[o].kind /\ row.items = op[o].items
       /\ row.jobs = op[o].jobs /\ row.handle = op[o].handle
       /\ row.after = op[o].after /\ row.alone = op[o].alone
  BY <1>2 DEF Row, Places, Left
<1>2r. /\ row.left = left
      /\ row.pc = pc
  BY <1>2 DEF Row
<1>2f. /\ DOMAIN fields = {"left", "pc"}
       /\ fields.left = row.left /\ fields.pc = row.pc
  BY <1>2r
<1>2d. Step(o, [left |-> left, pc |-> pc]) = Step(o, fields)
  OBVIOUS
<1> HIDE DEF row, fields
<1>2s. Step(o, fields) = [op EXCEPT ![o] = row]
  BY <1>2k, <1>2f, StepIs
<1>5. op' = [op EXCEPT ![o] = row]
  BY <1>2d, <1>2s
<1>6. Becomes(o, row)
  BY <1>2, <1>2k, <1>2r, <1>5 DEF Becomes, RowFits
<1>7. "all" \notin given' => Listed(row.items)
  BY <1>2k, ListedNow
<1>8. \A p \in Operations : Carries(p, o) => Kept(p, row.items)
  BY <1>2k DEF Carries, Kept, Loaded
<1> QED BY <1>1, <1>2, <1>2k, <1>2r, <1>6, <1>7, <1>8, LoadStep

LEMMA ApplyStep == ASSUME FilesInv, NEW o \in Operations, Apply(o) PROVE FilesInv'
<1>1. Running(o) /\ op[o].pc = "apply" /\ op[o].items \in SUBSET Operations
  BY Here DEF Apply, Running
<1>2. CASE op[o].kind = "read" /\ op' = Go(o, "answer") /\ given' = given
  BY <1>1, <1>2, GoStep DEF Apply, Keep, Places
<1>3. CASE /\ op[o].kind = "change"
           /\ op' = Step(o, [items |-> op[o].items \cup {o}, pc |-> "saveexists"])
           /\ given' = given
  BY <1>1, <1>3, ChangeStep DEF Apply, Keep
<1>4. CASE op[o].kind = "attach" /\ op' = Go(o, "upload") /\ given' = given
  BY <1>1, <1>4, GoStep DEF Apply, Keep, Places, Loaded
<1>5. ASSUME NEW a \in op[o].items, op[o].kind = "detach",
             op' = Step(o, [left |-> {a}, pc |-> "unlink"]), given' = given \cup {a}
      PROVE  FilesInv'
  <2> DEFINE left == {a}
  <2>1. left \in Left /\ a \in Operations
    BY <1>1 DEF Left
  <2>2. left \subseteq {a} /\ op' = Step(o, [left |-> left, pc |-> "unlink"])
    BY <1>5
  <2> HIDE DEF left
  <2> QED BY <1>1, <1>5, <2>1, <2>2, TakeStep DEF Apply
<1>6. CASE /\ op[o].kind = "delete"
           /\ op' = Step(o, [left |-> Removals, pc |-> "remove"])
           /\ given' = given \cup {"all"}
  <2>1. Removals \in Left
    BY DEF Removals, Left
  <2> QED BY <1>1, <1>6, <2>1, TakeStep DEF Apply
<1> QED BY <1>1, <1>2, <1>3, <1>4, <1>5, <1>6 DEF Apply

-----------------------------------------------------------------------------
(* A save begins.                                                          *)

LEMMA JobIs ==
    ASSUME NEW temp \in Names, NEW name \in Names, NEW items \in SUBSET Operations
    PROVE  /\ Job(temp, name, items) \in Jobs
           /\ Job(temp, name, items).temp = temp /\ Job(temp, name, items).name = name
           /\ Job(temp, name, items).items = items
           /\ InPlace(Job(temp, name, items)) <=> temp = name
BY DEF Job, Jobs, InPlace

LEMMA SaveJobs ==
    ASSUME NEW items \in SUBSET Operations, NEW old \in SUBSET Operations
    PROVE  LET copy == Job("bak", "bak", old) IN
           /\ Written(items) = <<Replace(items), Backup(items)>>
           /\ <<copy>> \o Written(items) = <<copy, Replace(items), Backup(items)>>
           /\ Written(items) \in Seq(Jobs) /\ ItemsOf(Written(items)) = {items}
           /\ <<copy>> \o Written(items) \in Seq(Jobs)
           /\ ItemsOf(<<copy>> \o Written(items)) = {old, items}
           /\ Written(items) # <<Backup(items)>>
           /\ <<copy>> \o Written(items) # <<Backup(items)>>
<1> DEFINE copy == Job("bak", "bak", old)
           r == Replace(items)
           b == Backup(items)
<1>1. /\ copy \in Jobs /\ r \in Jobs /\ b \in Jobs
      /\ copy.items = old /\ r.items = items /\ b.items = items
  BY JobIs DEF Replace, Backup, Names
<1>2. Written(items) = <<r, b>>
  BY DEF Written
<1> HIDE DEF copy, r, b
<1>3. <<copy>> \o <<r, b>> = <<copy, r, b>>
  BY ThreeJobs
<1>4. <<r, b>> \in Seq(Jobs) /\ <<copy, r, b>> \in Seq(Jobs)
  BY <1>1
<1>5. ItemsOf(<<r, b>>) = {items} /\ ItemsOf(<<copy, r, b>>) = {old, items}
  <2>1. ItemsOf(<<r, b>>) = {r.items, b.items}
    BY TwoJobs
  <2>2. ItemsOf(<<copy, r, b>>) = {copy.items, r.items, b.items}
    BY ThreeItems
  <2> QED BY <1>1, <2>1, <2>2
<1>6. <<r, b>> # <<b>> /\ <<copy, r, b>> # <<b>>
  BY TwoJobs, ThreeJobs
<1> QED BY <1>2, <1>3, <1>4, <1>5, <1>6 DEF copy, r, b

LEMMA SaveIs ==
    ASSUME op \in [Operations -> Row], NEW o \in Operations, NEW jobs \in Seq(Jobs)
    PROVE  \E row \in Row :
             /\ Step(o, [jobs |-> jobs, after |-> "answer", pc |-> "open"]) = [op EXCEPT ![o] = row]
             /\ row.jobs = jobs /\ row.after = "answer" /\ row.pc = "open"
             /\ row.kind = op[o].kind /\ row.items = op[o].items
             /\ row.handle = op[o].handle /\ row.left = op[o].left /\ row.alone = op[o].alone
<1>1. op[o] \in Row
  OBVIOUS
<1> DEFINE row == [op[o] EXCEPT !.jobs = jobs, !.after = "answer", !.pc = "open"]
           fields == [jobs |-> jobs, after |-> "answer", pc |-> "open"]
<1>1k. /\ op \in [Operations -> Row] /\ row \in Row
       /\ row.kind = op[o].kind /\ row.items = op[o].items
       /\ row.handle = op[o].handle /\ row.left = op[o].left
       /\ row.alone = op[o].alone
  BY <1>1 DEF Row, Places, Left
<1>1r. /\ row.jobs = jobs
      /\ row.after = "answer"
      /\ row.pc = "open"
  BY <1>1 DEF Row
<1>1f. /\ DOMAIN fields = {"jobs", "after", "pc"}
       /\ fields.jobs = row.jobs /\ fields.after = row.after /\ fields.pc = row.pc
  BY <1>1r
<1>1d. Step(o, [jobs |-> jobs, after |-> "answer", pc |-> "open"]) = Step(o, fields)
  OBVIOUS
<1> HIDE DEF row, fields
<1>1s. Step(o, fields) = [op EXCEPT ![o] = row]
  BY <1>1k, <1>1f, StepIs
<1> QED BY <1>1d, <1>1s, <1>1k, <1>1r DEF fields

\* The writes of a save are what the code lists, and o goes on with them.
BeginsWith(o, jobs) ==
    /\ \/ jobs = Written(op[o].items)
       \/ /\ Readable("main")
          /\ jobs = <<Job("bak", "bak", disk["main"].items)>> \o Written(op[o].items)
    /\ op' = Step(o, [jobs |-> jobs, after |-> "answer", pc |-> "open"])

LEMMA BeginsSave ==
    ASSUME FilesInv, NEW o \in Operations, op[o].pc \in {"saveexists", "saveread"}, Keep,
           NEW jobs \in Seq(Jobs), BeginsWith(o, jobs)
    PROVE  FilesInv'
<1> DEFINE old == disk["main"].items
           copy == Job("bak", "bak", old)
<1>1. /\ TypeOK /\ op \in [Operations -> Row] /\ op[o] \in Row /\ RowFits(op[o])
      /\ uploads \subseteq Operations /\ given \subseteq Operations \cup {"all"}
      /\ op[o].items \in SUBSET Operations /\ old \in SUBSET Operations
      /\ op[o].alone => AloneRow(o, op[o])
      /\ Running(o)
  BY Here DEF Names, Running
<1>2. PICK row \in Row :
        /\ op' = [op EXCEPT ![o] = row]
        /\ row.jobs = jobs /\ row.after = "answer" /\ row.pc = "open"
        /\ row.kind = op[o].kind /\ row.items = op[o].items
        /\ row.handle = op[o].handle /\ row.left = op[o].left /\ row.alone = op[o].alone
  <2> DEFINE next == Step(o, [jobs |-> jobs, after |-> "answer", pc |-> "open"])
  <2>1. \E row \in Row :
          /\ next = [op EXCEPT ![o] = row]
          /\ row.jobs = jobs /\ row.after = "answer" /\ row.pc = "open"
          /\ row.kind = op[o].kind /\ row.items = op[o].items
          /\ row.handle = op[o].handle /\ row.left = op[o].left /\ row.alone = op[o].alone
    <3>1. op \in [Operations -> Row]
      BY <1>1
    <3> QED BY <3>1, SaveIs, Zenon
  <2>2. op' = next
    BY DEF BeginsWith
  <2> HIDE DEF next
  <2> QED BY <2>1, <2>2
<1>3. Becomes(o, row)
  BY <1>1, <1>2 DEF Becomes, Keep, RowFits
<1>4. /\ ~LastWrite(row) /\ Saves(row)
      /\ ItemsOf(jobs) \subseteq {row.items} \cup (IF Readable("main") THEN {old} ELSE {})
  <2>1. CASE jobs = Written(op[o].items)
    <3>1. jobs = <<Replace(row.items), Backup(row.items)>>
      BY <1>1, <1>2, <2>1, SaveJobs
    <3>2. jobs # <<Backup(row.items)>> /\ ItemsOf(jobs) = {row.items}
      BY <1>1, <1>2, <2>1, SaveJobs
    <3> QED BY <1>2, <3>1, <3>2 DEF LastWrite, Saves
  <2>2. CASE Readable("main") /\ jobs = <<copy>> \o Written(op[o].items)
    <3>1. jobs = <<copy, Replace(row.items), Backup(row.items)>>
      BY <1>1, <1>2, <2>2, SaveJobs
    <3>2. jobs # <<Backup(row.items)>> /\ ItemsOf(jobs) = {old, row.items}
      BY <1>1, <1>2, <2>2, SaveJobs
    <3> QED BY <1>1, <1>2, <2>2, <3>1, <3>2 DEF LastWrite, Saves
  <2> QED BY <2>1, <2>2 DEF BeginsWith
<1>5. RowFits(row)
  BY <1>1, <1>2, <1>4 DEF RowFits, Writing
<1>6. op[o].alone => AloneRow(o, row)
  BY <1>1, <1>2, <1>4 DEF AloneRow
<1>7. "all" \notin given' => Listed(row.items) /\ \A X \in ItemsOf(row.jobs) : Listed(X)
  <2>1. given' = given
    BY DEF Keep
  <2>2. "all" \notin given => Listed(row.items) /\ Listed(old)
    BY <1>2, ListedNow DEF Names
  <2> QED BY <1>2, <1>4, <2>1, <2>2
<1>8. ASSUME NEW p \in Operations, p # o, WasAnswered(p), Carries(p, o)
      PROVE  Kept(p, row.items) /\ \A X \in ItemsOf(row.jobs) : Kept(p, X)
  <2>1. Kept(p, row.items)
    BY <1>2, <1>8 DEF Carries, Loaded
  <2>2. Readable("main") => Kept(p, old)
    BY <1>8, DiskIsKept
  <2> QED BY <1>2, <1>4, <2>1, <2>2
<1> QED BY <1>1, <1>2, <1>3, <1>5, <1>6, <1>7, <1>8, MemoryStep DEF Keep

LEMMA SaveExistsStep == ASSUME FilesInv, NEW o \in Operations, SaveExists(o) PROVE FilesInv'
<1>1. op[o].pc = "saveexists" /\ Running(o)
  BY DEF SaveExists, Running
<1>2. CASE Present("main")
  BY <1>1, <1>2, GoStep DEF SaveExists, Places
<1>3. CASE ~Present("main")
  <2> DEFINE jobs == Written(op[o].items)
  <2>1. jobs \in Seq(Jobs)
    BY Here, SaveJobs
  <2>2. op' = Step(o, [jobs |-> jobs, after |-> "answer", pc |-> "open"])
    BY <1>3 DEF SaveExists
  <2> QED BY <1>1, <2>1, <2>2, BeginsSave DEF SaveExists, BeginsWith
<1> QED BY <1>2, <1>3

LEMMA SaveReadStep == ASSUME FilesInv, NEW o \in Operations, SaveRead(o) PROVE FilesInv'
<1> DEFINE jobs == Copied(op[o].items)
<1>1. jobs \in Seq(Jobs)
  BY Here, SaveJobs DEF Copied, Names
<1>2. \/ jobs = Written(op[o].items)
      \/ Readable("main") /\ jobs = <<Job("bak", "bak", disk["main"].items)>> \o Written(op[o].items)
  BY DEF Copied
<1>3. op' = Step(o, [jobs |-> jobs, after |-> "answer", pc |-> "open"])
  BY DEF SaveRead
<1> HIDE DEF jobs
<1> QED BY <1>1, <1>2, <1>3, BeginsSave DEF SaveRead, BeginsWith

\* The operation answers.
LEMMA ReturnStep == ASSUME FilesInv, NEW o \in Operations, Return(o) PROVE FilesInv'
<1>1. /\ TypeOK /\ op \in [Operations -> Row] /\ op[o] \in Row /\ RowFits(op[o])
      /\ uploads \subseteq Operations /\ given \subseteq Operations \cup {"all"}
      /\ op[o].alone => AloneRow(o, op[o]) /\ Together = {o}
      /\ Running(o) /\ op[o].pc = "answer"
  BY Here DEF Return, Running, FilesInv, AloneInv
<1> DEFINE row == [op[o] EXCEPT !.pc = "answered", !.jobs = <<>>]
           fields == [pc |-> "answered", jobs |-> <<>>]
<1>1k. /\ op \in [Operations -> Row] /\ row \in Row
       /\ row.kind = op[o].kind /\ row.items = op[o].items
       /\ row.handle = op[o].handle /\ row.after = op[o].after
       /\ row.left = op[o].left /\ row.alone = op[o].alone
  BY <1>1, NoJobs DEF Row, Places, Left
<1>1r. /\ row.pc = "answered"
      /\ row.jobs = <<>>
  BY <1>1, NoJobs DEF Row
<1>1f. /\ DOMAIN fields = {"pc", "jobs"}
       /\ fields.pc = row.pc /\ fields.jobs = row.jobs
  BY <1>1r
<1>1d. Step(o, [pc |-> "answered", jobs |-> <<>>]) = Step(o, fields)
  OBVIOUS
<1> HIDE DEF row, fields
<1>1s. Step(o, fields) = [op EXCEPT ![o] = row]
  BY <1>1k, <1>1f, StepIs
<1>2. op' = [op EXCEPT ![o] = row]
  BY <1>1d, <1>1s DEF Return
<1>3. Becomes(o, row)
  BY <1>1, <1>1k, <1>1r, <1>2 DEF Becomes, Keep, Return, RowFits
<1>4. OnlyRow(o) /\ op'[o] = row /\ (\A p \in Operations : DiskKeeps(p)) /\ TypeOK'
  BY <1>1, <1>3, BecomesOnly, BecomesTyped DEF Return, Keep
<1>5. ~Running(o)'
  BY <1>1r, <1>4 DEF Running
<1>6. RowFits(op[o])'
  BY <1>1, <1>1k, <1>1r, <1>3, <1>4 DEF RowFits, Writing, Becomes
<1>7. \A p \in Operations : AloneInv(p)'
  BY <1>1, <1>4, <1>5, AloneStays
<1>8. AnsweredInv(o)'
  <2>1. SUFFICES ASSUME op[o].alone, op[o].kind \in Adds
                 PROVE  /\ \A name \in {"main", "bak"} : Readable(name)' => Kept(o, disk[name].items)'
                        /\ \A p \in Operations : ~Running(p)'
    BY <1>1k, <1>4 DEF AnsweredInv
  <2>2. o \in op[o].items /\ disk["main"] = Whole(op[o].items) /\ disk["bak"] = Whole(op[o].items)
    BY <1>1, <2>1 DEF AloneRow, Adds, SavedKinds
  <2>3. \A name \in {"main", "bak"} : Kept(o, disk[name].items)'
    BY <2>2 DEF Kept, Whole, Return, Keep
  <2>4. ASSUME NEW p \in Operations, p # o PROVE ~Running(p)'
    <3>1. ~Running(p)
      BY <1>1, <2>1, <2>4 DEF Together
    <3> QED BY <1>1, <1>4, <2>4, <3>1, OthersKeep DEF OnlyRow, Running
  <2> QED BY <1>5, <2>3, <2>4
<1>9. \A p \in Operations : p # o => AnsweredInv(p)'
  BY <1>1, <1>4, <1>5, AnsweredKeeps
<1>10. MainIsWhole'
  BY <1>1, <1>4, MainStays DEF Return, Keep
<1>11. ListedInv'
  <2>1. ASSUME "all" \notin given'
        PROVE  /\ \A name \in Names : ListedNext(disk'[name].items)
               /\ ListedNext(op'[o].items)
               /\ \A items \in ItemsOf(op'[o].jobs) : ListedNext(items)
    <3>1. "all" \notin given /\ uploads \cup given \subseteq uploads' \cup given'
      BY <2>1 DEF Return, Keep
    <3>2. \A name \in Names : ListedNext(disk[name].items)
      BY <1>1, <1>4, <3>1, ListedNow, ListedOn, Here
    <3>3. ListedNext(op[o].items)
      BY <1>1, <1>4, <3>1, ListedNow, ListedOn, Here
    <3>4. ItemsOf(op'[o].jobs) = {}
      BY <1>1r, <1>4, NoJobs
    <3> QED BY <1>1k, <1>4, <3>2, <3>3, <3>4 DEF Return, Keep
  <2> QED BY <1>1, <1>1r, <1>4, <2>1, ListedStays DEF Return, Keep
<1> QED BY <1>4, <1>6, <1>7, <1>8, <1>9, <1>10, <1>11, <1>1, OthersFit, MadeStays DEF FilesInv, OnlyRow

-----------------------------------------------------------------------------
(* The writes of an operation.                                             *)

Restoring(c) ==
    c.after = "apply" /\ Head(c.jobs) = Job("restore", "main", c.items) /\ Tail(c.jobs) = <<>>

Copying(c) ==
    /\ c.after = "answer" /\ ~LastWrite(c)
    /\ \E items \in SUBSET Operations : Head(c.jobs) = Job("bak", "bak", items)
    /\ Tail(c.jobs) = <<Replace(c.items), Backup(c.items)>>

Replacing(c) ==
    /\ c.after = "answer" /\ ~LastWrite(c)
    /\ Head(c.jobs) = Replace(c.items) /\ Tail(c.jobs) = <<Backup(c.items)>>

BackingUp(c) ==
    c.after = "answer" /\ LastWrite(c) /\ Head(c.jobs) = Backup(c.items) /\ Tail(c.jobs) = <<>>

\* An operation at a write is at one of four.
LEMMA FourWrites ==
    ASSUME NEW c \in Row, RowFits(c), c.pc \in Writing
    PROVE  /\ Restoring(c) \/ Copying(c) \/ Replacing(c) \/ BackingUp(c)
           /\ c.kind = "create" => ~Restoring(c)
           /\ ~Restoring(c) => Saves(c)
           /\ c.items \in SUBSET Operations
           /\ c.jobs # <<>> /\ Head(c.jobs) \in Jobs /\ Tail(c.jobs) \in Seq(Jobs)
           /\ Head(c.jobs).items \in ItemsOf(c.jobs)
           /\ ItemsOf(Tail(c.jobs)) \subseteq ItemsOf(c.jobs)
<1>1. c.items \in SUBSET Operations /\ c.jobs \in Seq(Jobs) /\ (Restores(c) \/ Saves(c))
  BY DEF Row, RowFits
<1>2. CASE Restores(c)
  <2>1. c.jobs # <<>> /\ Restoring(c)
    BY <1>2, OneJob DEF Restores, Restoring
  <2>2. c.kind # "create"
    BY <1>2 DEF Restores, RowFits, Saves
  <2>3. Head(c.jobs).items \in ItemsOf(c.jobs) /\ ItemsOf(Tail(c.jobs)) = {}
    BY <1>2, OneJob, NoJobs DEF Restores
  <2>4. Head(c.jobs) \in Jobs /\ Tail(c.jobs) \in Seq(Jobs)
    BY <1>1, <2>1, HeadTailProperties
  <2> QED BY <1>1, <2>1, <2>2, <2>3, <2>4
<1>3. ASSUME Saves(c), LastWrite(c)
      PROVE  /\ BackingUp(c) /\ c.jobs # <<>>
             /\ Head(c.jobs).items \in ItemsOf(c.jobs) /\ ItemsOf(Tail(c.jobs)) = {}
  BY <1>3, OneJob, NoJobs DEF Saves, LastWrite, BackingUp
<1>4. ASSUME Saves(c), c.jobs = <<Replace(c.items), Backup(c.items)>>
      PROVE  /\ Replacing(c) /\ c.jobs # <<>>
             /\ Head(c.jobs).items \in ItemsOf(c.jobs)
             /\ ItemsOf(Tail(c.jobs)) \subseteq ItemsOf(c.jobs)
  BY <1>4, OneJob, TwoJobs DEF Saves, LastWrite, Replacing
<1>5. ASSUME Saves(c), NEW items \in SUBSET Operations,
             c.jobs = <<Job("bak", "bak", items), Replace(c.items), Backup(c.items)>>
      PROVE  /\ Copying(c) /\ c.jobs # <<>>
             /\ Head(c.jobs).items \in ItemsOf(c.jobs)
             /\ ItemsOf(Tail(c.jobs)) \subseteq ItemsOf(c.jobs)
  <2> DEFINE x == Job("bak", "bak", items)
             y == Replace(c.items)
             z == Backup(c.items)
  <2>1. c.jobs = <<x, y, z>> /\ c.after = "answer"
    BY <1>5 DEF Saves
  <2> HIDE DEF x, y, z
  <2>2. /\ Head(c.jobs) = x /\ Tail(c.jobs) = <<y, z>>
        /\ c.jobs # <<>> /\ c.jobs # <<z>>
    BY <2>1, ThreeJobs
  <2>3. ItemsOf(c.jobs) = {x.items, y.items, z.items}
    BY <2>1, ThreeItems
  <2>5. ItemsOf(<<y, z>>) = {y.items, z.items}
    BY TwoJobs
  <2>4. Copying(c)
    BY <2>1, <2>2 DEF x, y, z, Copying, LastWrite
  <2> QED BY <2>2, <2>3, <2>4, <2>5
<1>6. CASE Saves(c)
  <2>1. /\ Copying(c) \/ Replacing(c) \/ BackingUp(c)
        /\ c.jobs # <<>> /\ Head(c.jobs).items \in ItemsOf(c.jobs)
        /\ ItemsOf(Tail(c.jobs)) \subseteq ItemsOf(c.jobs)
    BY <1>3, <1>4, <1>5, <1>6 DEF Saves
  <2>2. Head(c.jobs) \in Jobs /\ Tail(c.jobs) \in Seq(Jobs)
    BY <1>1, <2>1, HeadTailProperties
  <2>3. ~Restoring(c)
    BY <1>6 DEF Saves, Restoring
  <2> QED BY <1>1, <1>6, <2>1, <2>2, <2>3
<1> QED BY <1>1, <1>2, <1>6

\* Where a write goes.
LEMMA WhereItGoes ==
    ASSUME NEW c \in Row, RowFits(c), c.pc \in Writing
    PROVE  LET job == Head(c.jobs) IN
           /\ job \in Jobs /\ job.temp = Temp(c) /\ Temp(c) \in Names /\ Temp(c) # "main"
           /\ job.name \in Names /\ job.items \in SUBSET Operations
           /\ InPlace(job) <=> Copying(c)
           /\ Copying(c) \/ job.items = c.items
           /\ Restoring(c) \/ Replacing(c) => job.name = "main"
           /\ BackingUp(c) => job.name = "bak"
<1>1. /\ Restoring(c) \/ Copying(c) \/ Replacing(c) \/ BackingUp(c)
      /\ c.items \in SUBSET Operations
  BY FourWrites
<1>2. CASE Restoring(c)
  BY <1>1, <1>2, JobIs DEF Restoring, Copying, Replacing, BackingUp, Temp, Names
<1>3. CASE Copying(c)
  <2>1. PICK items \in SUBSET Operations : Head(c.jobs) = Job("bak", "bak", items)
    BY <1>3 DEF Copying
  <2>2. ~Restoring(c) /\ ~BackingUp(c)
    BY <1>3 DEF Restoring, Copying, BackingUp
  <2>3. ~Replacing(c)
    <3>1. Head(c.jobs).temp = "bak"
      BY <2>1, JobIs DEF Names
    <3>2. Replace(c.items).temp = "tmp"
      BY <1>1, JobIs DEF Replace, Names
    <3> QED BY <3>1, <3>2 DEF Replacing
  <2> QED BY <1>3, <2>1, <2>2, <2>3, JobIs DEF Temp, Names
<1>4. CASE Replacing(c)
  <2>1. ~Restoring(c) /\ ~BackingUp(c)
    BY <1>4 DEF Restoring, Replacing, BackingUp
  <2>2. /\ Head(c.jobs) \in Jobs /\ Head(c.jobs).temp = "tmp" /\ Head(c.jobs).name = "main"
        /\ Head(c.jobs).items = c.items /\ ~InPlace(Head(c.jobs))
    BY <1>1, <1>4, JobIs DEF Replacing, Replace, Names
  <2>3. ~Copying(c)
    BY <2>2, JobIs DEF Copying, Names
  <2> QED BY <1>1, <1>4, <2>1, <2>2, <2>3 DEF Temp, Names
<1>5. CASE BackingUp(c)
  <2>1. ~Restoring(c) /\ ~Copying(c) /\ ~Replacing(c)
    BY <1>5 DEF Restoring, Copying, Replacing, BackingUp
  <2>2. /\ Head(c.jobs) \in Jobs /\ Head(c.jobs).temp = "baktmp" /\ Head(c.jobs).name = "bak"
        /\ Head(c.jobs).items = c.items /\ ~InPlace(Head(c.jobs))
    BY <1>1, <1>5, JobIs DEF BackingUp, Backup, Names
  <2> QED BY <1>1, <1>5, <2>1, <2>2 DEF Temp, Names
<1> QED BY <1>1, <1>2, <1>3, <1>4, <1>5

\* An operation that goes on with its next write is one again.
LEMMA GoesOn ==
    ASSUME NEW c \in Row, RowFits(c), c.pc \in Writing, NEW row \in Row,
           row.jobs = Tail(c.jobs), row.handle = "none", row.kind = c.kind,
           row.pc = IF Tail(c.jobs) = <<>> THEN c.after ELSE "open",
           row.items = c.items, row.after = c.after
    PROVE  /\ RowFits(row)
           /\ Restoring(c) => row.pc = "apply"
           /\ Copying(c) => row.pc = "open" /\ ~LastWrite(row) /\ Saves(row)
           /\ Replacing(c) => row.pc = "open" /\ LastWrite(row) /\ Saves(row)
           /\ BackingUp(c) => row.pc = "answer"
<1>1. /\ Restoring(c) \/ Copying(c) \/ Replacing(c) \/ BackingUp(c)
      /\ c.kind = "create" => ~Restoring(c)
  BY FourWrites
<1>2. CASE Restoring(c)
  BY <1>1, <1>2 DEF Restoring, Copying, Replacing, BackingUp, RowFits, Writing
<1>3. CASE Copying(c)
  <2>1. row.pc = "open" /\ row.jobs = <<Replace(row.items), Backup(row.items)>>
    BY <1>3, TwoJobs DEF Copying
  <2>2. Saves(row) /\ ~LastWrite(row) /\ ~Restoring(c) /\ ~BackingUp(c) /\ ~Replacing(c)
    BY <1>3, <2>1, TwoJobs DEF Copying, Saves, LastWrite, Restoring, BackingUp, Replacing
  <2> QED BY <2>1, <2>2 DEF RowFits, Writing
<1>4. CASE Replacing(c)
  <2>1. row.pc = "open" /\ row.jobs = <<Backup(row.items)>>
    BY <1>4, OneJob DEF Replacing
  <2>2. Saves(row) /\ LastWrite(row) /\ ~Restoring(c) /\ ~BackingUp(c) /\ ~Copying(c)
    BY <1>4, <2>1, TwoJobs DEF Copying, Saves, LastWrite, Restoring, BackingUp, Replacing
  <2> QED BY <2>1, <2>2 DEF RowFits, Writing
<1>5. CASE BackingUp(c)
  BY <1>1, <1>5, OneJob DEF Restoring, Copying, Replacing, BackingUp, RowFits, Writing
<1> QED BY <1>1, <1>2, <1>3, <1>4, <1>5

-----------------------------------------------------------------------------
(* Steps that write a file.                                                *)

\* What o leaves under a name: what was there, nothing whole, or one of its texts.
Puts(o, name) ==
    \/ disk'[name] = disk[name]
    \/ disk'[name].is # "whole" /\ disk'[name].items = {}
    \/ disk'[name].items \in ItemsOf(op[o].jobs)
    \/ op[o].pc = "rename" /\ disk'[name] = disk[Temp(op[o])]

LEMMA FileStep ==
    ASSUME FilesInv, TypeOK', NEW o \in Operations, op[o].pc \in Writing,
           UNCHANGED <<uploads, given, condition>>, OnlyRow(o),
           op'[o].items = op[o].items, ItemsOf(op'[o].jobs) \subseteq ItemsOf(op[o].jobs),
           op'[o].pc \notin {"answered", "unlink", "remove"},
           op'[o].pc \in {"write", "rename"} =>
             /\ Temp(op[o])' = Temp(op[o])
             /\ op[o].pc = "write" \/ disk'[Temp(op[o])].is = "empty",
           RowFits(op[o])', op[o].alone => AloneRow(o, op[o])',
           \A name \in Names : Puts(o, name),
           op[o].alone /\ "all" \notin given =>
             \/ disk'["main"].is = "whole"
             \/ disk'["main"] = disk["main"] /\ op'[o].pc # "answer"
    PROVE  FilesInv'
<1>1. /\ TypeOK /\ Running(o) /\ op[o].pc \in Loaded
      /\ Temp(op[o]) \in Names /\ op[o].items \in SUBSET Operations
  BY Here, TempIsName DEF Running, Writing, Loaded
<1>2. /\ op[o].jobs \in Seq(Jobs)
      /\ \A items \in ItemsOf(op[o].jobs) : items \in SUBSET Operations
  <2>1. op[o].jobs \in Seq(Jobs)
    BY <1>1 DEF TypeOK
  <2>2. ASSUME NEW i \in DOMAIN op[o].jobs PROVE op[o].jobs[i].items \in SUBSET Operations
    <3>1. op[o].jobs[i] \in Jobs
      BY <2>1, <2>2
    <3> QED BY <3>1 DEF Jobs
  <2> QED BY <2>1, <2>2 DEF ItemsOf
<1>3. MainIsWhole'
  BY <1>1, MainStays
<1>4. ListedInv'
  <2>1. ASSUME "all" \notin given'
        PROVE  /\ \A name \in Names : ListedNext(disk'[name].items)
               /\ ListedNext(op'[o].items)
               /\ \A items \in ItemsOf(op'[o].jobs) : ListedNext(items)
    <3>1. "all" \notin given /\ uploads \cup given \subseteq uploads' \cup given'
      BY <2>1
    <3>2. \A name \in Names : ListedNext(disk[name].items)
      BY <1>1, <3>1, ListedNow, ListedOn, Here
    <3>3. ListedNext(op[o].items) /\ \A items \in ItemsOf(op[o].jobs) : ListedNext(items)
      BY <1>1, <1>2, <3>1, ListedNow, ListedOn
    <3>4. ListedNext({})
      BY DEF ListedNext
    <3>5. \A name \in Names : ListedNext(disk'[name].items)
      BY <1>1, <3>2, <3>3, <3>4 DEF Puts
    <3> QED BY <3>3, <3>5
  <2> QED BY <1>1, <2>1, ListedStays
<1>5. ASSUME NEW p \in Operations, p # o, WasAnswered(p) PROVE DiskKeeps(p) /\ Carries(p, o)'
  <2>1. Carries(p, o)
    BY <1>1, <1>5 DEF FilesInv, AnsweredInv, WasAnswered
  <2>2. /\ Kept(p, op[o].items)
        /\ \A items \in ItemsOf(op[o].jobs) : Kept(p, items)
        /\ op[o].pc \in {"write", "rename"} /\ Readable(Temp(op[o])) =>
             Kept(p, disk[Temp(op[o])].items)
    BY <1>1, <2>1 DEF Carries
  <2>3. DiskKeeps(p)
    BY <2>2 DEF Puts, DiskKeeps, Kept, Readable
  <2>4. ASSUME op'[o].pc \in {"write", "rename"}, Readable(Temp(op[o]))'
        PROVE  Kept(p, disk[Temp(op[o])].items)'
    <3>1. /\ Temp(op[o])' = Temp(op[o]) /\ disk'[Temp(op[o])].is = "whole"
          /\ op[o].pc = "write"
      BY <2>4 DEF Readable
    <3>2. p \in disk'[Temp(op[o])].items \cup given'
      BY <1>1, <2>2, <2>3, <3>1 DEF DiskKeeps, Readable, Kept
    <3> QED BY <3>1, <3>2 DEF Kept
  <2>5. Kept(p, op[o].items)' /\ \A items \in ItemsOf(op[o].jobs)' : Kept(p, items)'
    BY <2>2 DEF Kept, ItemsOf
  <2> QED BY <2>3, <2>4, <2>5 DEF Carries
<1> QED BY <1>1, <1>3, <1>4, <1>5, RowStep

-----------------------------------------------------------------------------
(* The rows after a file step.                                             *)

LEMMA RowOnly ==
    ASSUME op \in [Operations -> Row], NEW o \in Operations, NEW row \in Row,
           op' = [op EXCEPT ![o] = row]
    PROVE  /\ op' \in [Operations -> Row] /\ op'[o] = row
           /\ \A p \in Operations : p # o => Follows(p)
BY DEF Follows

LEMMA RowMoved ==
    ASSUME op \in [Operations -> Row], NEW o \in Operations, NEW row \in Row, row.handle = "none",
           NEW name \in Names, NEW to \in Names \cup {"unlinked"},
           op' = Moved([op EXCEPT ![o] = row], name, to)
    PROVE  /\ op' \in [Operations -> Row] /\ op'[o] = row
           /\ \A p \in Operations : p # o => Follows(p)
<1> DEFINE ops == [op EXCEPT ![o] = row]
<1>1. /\ ops \in [Operations -> Row] /\ ops[o] = row
      /\ \A p \in Operations : p # o => ops[p] = op[p]
      /\ name # "none" /\ to # "none"
  BY DEF Names
<1> HIDE DEF ops
<1>2. ASSUME NEW p \in Operations
      PROVE  /\ op'[p] \in Row
             /\ \/ op'[p] = ops[p]
                \/ /\ ops[p].handle # "none"
                   /\ \E h \in Names \cup {"unlinked"} : op'[p] = [ops[p] EXCEPT !.handle = h]
  <2>1. \/ op'[p] = ops[p]
        \/ ops[p].handle = name /\ op'[p] = [ops[p] EXCEPT !.handle = to]
        \/ ops[p].handle = to /\ op'[p] = [ops[p] EXCEPT !.handle = "unlinked"]
    BY DEF Moved, ops
  <2>2. \/ op'[p] = ops[p]
        \/ /\ ops[p].handle # "none"
           /\ \E h \in Names \cup {"unlinked"} : op'[p] = [ops[p] EXCEPT !.handle = h]
    BY <1>1, <2>1
  <2>3. ops[p] \in Row
    BY <1>1
  <2>4. ASSUME NEW h \in Names \cup {"unlinked"} PROVE [ops[p] EXCEPT !.handle = h] \in Row
    BY <2>3, <2>4 DEF Row
  <2> QED BY <2>2, <2>3, <2>4
<1>3. DOMAIN op' = Operations /\ op' = [p \in Operations |-> op'[p]]
  <2> DEFINE F(p) == CASE ops[p].handle = name -> [ops[p] EXCEPT !.handle = to]
                       [] ops[p].handle = to /\ to # name -> [ops[p] EXCEPT !.handle = "unlinked"]
                       [] OTHER -> ops[p]
  <2>1. op' = [p \in Operations |-> F(p)]
    BY DEF Moved, ops
  <2> HIDE DEF F
  <2> QED BY <2>1
<1>4. op' \in [Operations -> Row]
  BY <1>2, <1>3
<1>5. op'[o] = row
  BY <1>1, <1>2
<1>6. ASSUME NEW p \in Operations, p # o PROVE Follows(p)
  <2>1. ops[p] = op[p]
    BY <1>1, <1>6
  <2>2. \/ op'[p] = ops[p]
        \/ /\ ops[p].handle # "none"
           /\ \E h \in Names \cup {"unlinked"} : op'[p] = [ops[p] EXCEPT !.handle = h]
    BY <1>2
  <2> QED BY <2>1, <2>2, Zenon DEF Follows
<1> QED BY <1>4, <1>5, <1>6

LEMMA TypesNext ==
    ASSUME TypeOK, op' \in [Operations -> Row], disk' \in [Names -> Contents],
           uploads' \subseteq Operations, given' = given, condition' = condition
    PROVE  TypeOK'
BY DEF TypeOK, Row, Places, Left

-----------------------------------------------------------------------------
(* Opening, writing, renaming.                                             *)

LEMMA OpenStep == ASSUME FilesInv, NEW o \in Operations, Open(o) PROVE FilesInv'
<1> DEFINE temp == Temp(op[o])
<1>1. /\ TypeOK /\ op \in [Operations -> Row] /\ op[o] \in Row /\ RowFits(op[o])
      /\ uploads \subseteq Operations /\ op[o].pc = "open" /\ op[o].pc \in Writing
      /\ op[o].alone => AloneRow(o, op[o])
  BY Here DEF Open, Writing, Running
<1>2. temp \in Names /\ temp # "main"
  BY <1>1, WhereItGoes
<1> DEFINE row == [op[o] EXCEPT !.handle = temp, !.pc = "write"]
           fields == [handle |-> temp, pc |-> "write"]
<1>3k. /\ op \in [Operations -> Row] /\ row \in Row
       /\ row.kind = op[o].kind /\ row.items = op[o].items
       /\ row.jobs = op[o].jobs /\ row.after = op[o].after
       /\ row.left = op[o].left /\ row.alone = op[o].alone
  BY <1>1, <1>2 DEF Row, Places, Left
<1>3r. /\ row.handle = temp
      /\ row.pc = "write"
  BY <1>1, <1>2 DEF Row
<1>3f. /\ DOMAIN fields = {"handle", "pc"}
       /\ fields.handle = row.handle /\ fields.pc = row.pc
  BY <1>3r
<1>3d. Step(o, [handle |-> temp, pc |-> "write"]) = Step(o, fields)
  OBVIOUS
<1> HIDE DEF row, fields
<1>3s. Step(o, fields) = [op EXCEPT ![o] = row]
  BY <1>3k, <1>3f, StepIs
<1>4. op' = [op EXCEPT ![o] = row] /\ disk' = [disk EXCEPT ![temp] = Bad("empty")]
  BY <1>3d, <1>3s DEF Open, Temp
<1>5. /\ op' \in [Operations -> Row] /\ op'[o] = row
      /\ \A p \in Operations : p # o => Follows(p)
  BY <1>1, <1>3k, <1>4, RowOnly
<1>6. /\ disk \in [Names -> Contents] /\ Bad("empty") \in Contents
      /\ Bad("empty").is = "empty" /\ Bad("empty").items = {}
  BY <1>1 DEF TypeOK, Contents, Bad
<1>7. /\ disk' \in [Names -> Contents] /\ disk'[temp] = Bad("empty")
      /\ \A name \in Names : name # temp => disk'[name] = disk[name]
  BY <1>2, <1>4, <1>6
<1>8. TypeOK' /\ OnlyRow(o)
  BY <1>1, <1>3k, <1>3r, <1>5, <1>7, TypesNext DEF Open, OnlyRow
<1>9. RowFits(op[o])'
  <2>1. RowFits(row)
    BY <1>1, <1>2, <1>3k, <1>3r DEF RowFits, Writing, Restores, Saves, LastWrite, Names
  <2> QED BY <1>5, <2>1 DEF RowFits, Restores, Saves, LastWrite
<1>10. Temp(op[o])' = temp
  BY <1>3k, <1>5 DEF Temp
<1>11. op[o].alone => AloneRow(o, op[o])'
  <2>1. /\ LastWrite(op[o])' <=> LastWrite(op[o])
        /\ Saves(op[o])' <=> Saves(op[o])
    BY <1>3k, <1>5 DEF LastWrite, Saves
  <2>2. op'[o].pc = "write" /\ op'[o].handle = temp /\ op'[o].kind = op[o].kind
        /\ op'[o].items = op[o].items
    BY <1>3k, <1>3r, <1>5
  <2>3. disk'["main"] = disk["main"]
    BY <1>2, <1>7 DEF Names
  <2> QED BY <1>1, <1>7, <1>10, <2>1, <2>2, <2>3 DEF AloneRow, Whole
<1>12. \A name \in Names : Puts(o, name)
  BY <1>6, <1>7 DEF Puts
<1>13. ItemsOf(op'[o].jobs) \subseteq ItemsOf(op[o].jobs) /\ op'[o].items = op[o].items
       /\ op'[o].pc = "write" /\ disk'["main"] = disk["main"]
  BY <1>2, <1>3k, <1>3r, <1>5, <1>7 DEF Names
<1> HIDE DEF temp
<1> QED BY <1>1, <1>6, <1>7, <1>8, <1>9, <1>10, <1>11, <1>12, <1>13, FileStep DEF Open, temp

\* The row of an operation that goes on with its next write.
LEMMA AndThenIs ==
    ASSUME op \in [Operations -> Row], NEW o \in Operations, RowFits(op[o]), op[o].pc \in Writing
    PROVE  \E row \in Row :
             /\ Step(o, AndThen(o, Tail(op[o].jobs))) = [op EXCEPT ![o] = row]
             /\ row.jobs = Tail(op[o].jobs) /\ row.handle = "none"
             /\ row.pc = IF Tail(op[o].jobs) = <<>> THEN op[o].after ELSE "open"
             /\ row.kind = op[o].kind /\ row.items = op[o].items /\ row.after = op[o].after
             /\ row.left = op[o].left /\ row.alone = op[o].alone
<1> DEFINE rest == Tail(op[o].jobs)
           next == IF rest = <<>> THEN op[o].after ELSE "open"
<1>1. op[o] \in Row
  OBVIOUS
<1>2. rest \in Seq(Jobs) /\ next \in Places
  BY <1>1, FourWrites DEF Row, Places
<1> HIDE DEF rest, next
<1> DEFINE row == [op[o] EXCEPT !.jobs = rest, !.handle = "none", !.pc = next]
           fields == [jobs |-> rest, handle |-> "none", pc |-> next]
<1>3k. /\ op \in [Operations -> Row] /\ row \in Row
       /\ row.kind = op[o].kind /\ row.items = op[o].items
       /\ row.after = op[o].after /\ row.left = op[o].left
       /\ row.alone = op[o].alone
  BY <1>1, <1>2 DEF Row, Places, Left
<1>3r. /\ row.jobs = rest
      /\ row.handle = "none"
      /\ row.pc = next
  BY <1>1, <1>2 DEF Row
<1>3f. /\ DOMAIN fields = {"jobs", "handle", "pc"}
       /\ fields.jobs = row.jobs /\ fields.handle = row.handle /\ fields.pc = row.pc
  BY <1>3r
<1>3d. Step(o, [jobs |-> rest, handle |-> "none", pc |-> next]) = Step(o, fields)
  OBVIOUS
<1> HIDE DEF row, fields
<1>3s. Step(o, fields) = [op EXCEPT ![o] = row]
  BY <1>3k, <1>3f, StepIs
<1>4. Step(o, AndThen(o, rest)) = Step(o, [jobs |-> rest, handle |-> "none", pc |-> next])
  BY DEF AndThen, next
<1>5. /\ Step(o, AndThen(o, rest)) = [op EXCEPT ![o] = row] /\ row \in Row
      /\ row.jobs = rest /\ row.handle = "none" /\ row.pc = next
      /\ row.kind = op[o].kind /\ row.items = op[o].items /\ row.after = op[o].after
      /\ row.left = op[o].left /\ row.alone = op[o].alone
  BY <1>3d, <1>3s, <1>3k, <1>3r, <1>4
<1> QED BY <1>5 DEF rest, next

\* What an operation writes goes to the file it has open, and it goes on.
LEMMA WroteStep ==
    ASSUME FilesInv, NEW o \in Operations, op[o].pc = "write",
           UNCHANGED <<uploads, given, condition>>, disk' \in [Names -> Contents],
           \A name \in Names : Puts(o, name) /\ (name # op[o].handle => disk'[name] = disk[name]),
           NEW row \in Row, op' = [op EXCEPT ![o] = row], row.handle = "none",
           row.kind = op[o].kind, row.items = op[o].items, row.after = op[o].after,
           row.alone = op[o].alone,
           \/ /\ InPlace(Head(op[o].jobs)) /\ row.jobs = Tail(op[o].jobs)
              /\ row.pc = IF Tail(op[o].jobs) = <<>> THEN op[o].after ELSE "open"
           \/ /\ ~InPlace(Head(op[o].jobs)) /\ row.jobs = op[o].jobs
              /\ \/ row.pc = "thrown"
                 \/ row.pc = "rename" /\ (op[o].alone => disk'[Temp(op[o])] = Whole(op[o].items))
    PROVE  FilesInv'
<1>1. /\ TypeOK /\ op \in [Operations -> Row] /\ op[o] \in Row /\ RowFits(op[o])
      /\ uploads \subseteq Operations /\ op[o].pc \in Writing /\ Running(o)
      /\ op[o].alone => AloneRow(o, op[o])
  BY Here DEF Writing, Running
<1>2. Temp(op[o]) \in Names /\ Temp(op[o]) # "main" /\ (InPlace(Head(op[o].jobs)) <=> Copying(op[o]))
  BY <1>1, WhereItGoes
<1>3. /\ op' \in [Operations -> Row] /\ op'[o] = row
      /\ \A p \in Operations : p # o => Follows(p)
  BY <1>1, RowOnly
<1>4. row.pc # "idle"
  BY <1>1 DEF Row
<1>5. TypeOK' /\ OnlyRow(o)
  BY <1>1, <1>3, <1>4, TypesNext DEF OnlyRow
<1>6. op[o].alone => op[o].handle = Temp(op[o]) /\ disk'["main"] = disk["main"]
  BY <1>1, <1>2 DEF AloneRow, Names
<1>7. /\ RowFits(row) /\ ItemsOf(row.jobs) \subseteq ItemsOf(op[o].jobs)
      /\ row.pc \in {"open", "rename", "thrown"}
      /\ row.pc = "rename" => Temp(row) = Temp(op[o])
      /\ op[o].alone => AloneRow(o, row)'
  <2>1. CASE InPlace(Head(op[o].jobs)) /\ row.jobs = Tail(op[o].jobs)
    <3>1. RowFits(row) /\ row.pc = "open" /\ ~LastWrite(row) /\ Saves(row)
      BY <1>1, <1>2, <2>1, GoesOn
    <3>2. Saves(op[o]) /\ ItemsOf(row.jobs) \subseteq ItemsOf(op[o].jobs)
      BY <1>1, <1>2, <2>1, FourWrites DEF Copying, Restoring
    <3>3. op[o].alone => AloneRow(o, row)'
      BY <1>1, <3>1, <3>2 DEF AloneRow, LastWrite
    <3> QED BY <3>1, <3>2, <3>3
  <2>2. CASE ~InPlace(Head(op[o].jobs)) /\ row.jobs = op[o].jobs
    <3>1. row.pc \in {"thrown", "rename"}
      BY <1>1, <2>2 DEF Copying
    <3>2. (Saves(row) <=> Saves(op[o])) /\ (LastWrite(row) <=> LastWrite(op[o]))
          /\ (Restores(row) <=> Restores(op[o])) /\ Temp(row) = Temp(op[o])
      BY <2>2 DEF Saves, LastWrite, Restores, Temp
    <3>3. RowFits(row)
      BY <1>1, <2>2, <3>1, <3>2 DEF RowFits, Writing
    <3>4. ASSUME op[o].alone PROVE AloneRow(o, row)'
      <4>1. row.pc = "rename" => disk'[Temp(row)] = Whole(row.items)
        BY <2>2, <3>2, <3>4
      <4>2. /\ LastWrite(row) /\ row.pc \in Writing => disk'["main"] = Whole(row.items)
            /\ row.pc \in Writing /\ Saves(row) => (row.kind \in Adds => o \in row.items)
        BY <1>1, <1>6, <3>2, <3>4 DEF AloneRow
      <4>3. Temp(row)' = Temp(row) /\ Whole(row.items)' = Whole(row.items)
            /\ (Saves(row)' <=> Saves(row)) /\ (LastWrite(row)' <=> LastWrite(row))
        BY DEF Temp, Whole, Saves, LastWrite
      <4> QED BY <3>1, <4>1, <4>2, <4>3 DEF AloneRow
    <3> QED BY <2>2, <3>1, <3>2, <3>3, <3>4
  <2> QED BY <2>1, <2>2
<1>8. RowFits(op[o])' /\ (op[o].alone => AloneRow(o, op[o])')
  BY <1>3, <1>7 DEF RowFits, AloneRow, Saves, LastWrite, Restores, Temp
<1>9. op'[o].pc \in {"write", "rename"} => Temp(op[o])' = Temp(op[o])
  BY <1>3, <1>7 DEF Temp
<1> QED BY <1>1, <1>3, <1>5, <1>6, <1>7, <1>8, <1>9, FileStep

LEMMA WriteStep == ASSUME FilesInv, NEW o \in Operations, Write(o) PROVE FilesInv'
<1> DEFINE job == Head(op[o].jobs)
           h == op[o].handle
<1>1. /\ TypeOK /\ op \in [Operations -> Row] /\ op[o] \in Row /\ RowFits(op[o])
      /\ uploads \subseteq Operations /\ op[o].pc = "write" /\ op[o].pc \in Writing /\ Running(o)
      /\ op[o].alone => AloneRow(o, op[o])
  BY Here DEF Write, Writing, Running
<1>2. /\ Temp(op[o]) \in Names /\ job.items \in SUBSET Operations /\ job.items \in ItemsOf(op[o].jobs)
      /\ InPlace(job) \/ job.items = op[o].items
  BY <1>1, WhereItGoes, FourWrites
<1>3. h \in Names \cup {"unlinked"}
  BY <1>1 DEF Row, RowFits
<1>4. /\ disk \in [Names -> Contents] /\ Whole(job.items) \in Contents
      /\ Bad("torn") \in Contents /\ Bad("torn").is # "whole" /\ Bad("torn").items = {}
      /\ Whole(job.items).items = job.items
  BY <1>1, <1>2 DEF TypeOK, Contents, Whole, Bad
<1>5. h = "unlinked" => disk' = disk
  BY DEF Write
<1>6. ASSUME h \in Names
      PROVE  \E new \in Landed(job.items, disk[h]) : disk' = [disk EXCEPT ![h] = new]
  BY <1>6 DEF Write, Names
<1>7. ASSUME h \in Names
      PROVE  \E new \in {Whole(job.items), Bad("torn")} :
               /\ disk' = [disk EXCEPT ![h] = new]
               /\ disk[h] = Bad("empty") => new = Whole(job.items)
  BY <1>6, <1>7 DEF Landed
<1>8. /\ disk' \in [Names -> Contents]
      /\ \A name \in Names : name # h => disk'[name] = disk[name]
      /\ h \in Names => disk'[h] = Whole(job.items) \/ disk'[h] = Bad("torn")
      /\ h \in Names /\ disk[h] = Bad("empty") => disk'[h] = Whole(job.items)
  <2>1. CASE h = "unlinked"
    BY <1>4, <1>5, <2>1 DEF Names
  <2>2. CASE h \in Names
    <3>1. PICK new \in {Whole(job.items), Bad("torn")} :
            /\ disk' = [disk EXCEPT ![h] = new]
            /\ disk[h] = Bad("empty") => new = Whole(job.items)
      BY <1>7, <2>2
    <3> QED BY <1>4, <2>2, <3>1
  <2> QED BY <1>3, <2>1, <2>2
<1>9. \A name \in Names : Puts(o, name) /\ (name # h => disk'[name] = disk[name])
  BY <1>2, <1>4, <1>8 DEF Puts
<1>10. op[o].alone /\ ~InPlace(job) => disk'[Temp(op[o])] = Whole(op[o].items)
  <2>1. op[o].alone => h = Temp(op[o]) /\ disk[Temp(op[o])] = Bad("empty")
    BY <1>1 DEF AloneRow
  <2> QED BY <1>2, <1>8, <2>1
<1>11. CASE InPlace(job)
  <2>1. op' = Step(o, AndThen(o, Tail(op[o].jobs)))
    BY <1>11 DEF Write
  <2>2. PICK row \in Row :
          /\ Step(o, AndThen(o, Tail(op[o].jobs))) = [op EXCEPT ![o] = row]
          /\ row.jobs = Tail(op[o].jobs) /\ row.handle = "none"
          /\ row.pc = IF Tail(op[o].jobs) = <<>> THEN op[o].after ELSE "open"
          /\ row.kind = op[o].kind /\ row.items = op[o].items /\ row.after = op[o].after
          /\ row.left = op[o].left /\ row.alone = op[o].alone
    BY <1>1, AndThenIs
  <2>3. op' = [op EXCEPT ![o] = row]
    BY <2>1, <2>2
  <2> QED BY <1>1, <1>8, <1>9, <1>11, <2>2, <2>3, WroteStep DEF Write
<1>12. CASE ~InPlace(job)
  <2> DEFINE row == [op[o] EXCEPT !.handle = "none", !.pc = "rename"]
             fields == [handle |-> "none", pc |-> "rename"]
  <2>1k. /\ op \in [Operations -> Row] /\ row \in Row
         /\ row.kind = op[o].kind /\ row.items = op[o].items
         /\ row.jobs = op[o].jobs /\ row.after = op[o].after
         /\ row.left = op[o].left /\ row.alone = op[o].alone
    BY <1>1 DEF Row, Places, Left
  <2>1r. /\ row.handle = "none"
        /\ row.pc = "rename"
    BY <1>1 DEF Row
  <2>1f. /\ DOMAIN fields = {"handle", "pc"}
         /\ fields.handle = row.handle /\ fields.pc = row.pc
    BY <2>1r
  <2>1d. Step(o, [handle |-> "none", pc |-> "rename"]) = Step(o, fields)
    OBVIOUS
  <2> HIDE DEF row, fields
  <2>1s. Step(o, fields) = [op EXCEPT ![o] = row]
    BY <2>1k, <2>1f, StepIs
  <2>2. op' = [op EXCEPT ![o] = row]
    BY <1>12, <2>1d, <2>1s DEF Write
  <2> QED BY <1>1, <1>8, <1>9, <1>10, <1>12, <2>1k, <2>1r, <2>2, WroteStep DEF Write
<1> QED BY <1>11, <1>12

LEMMA WriteFailsStep == ASSUME FilesInv, NEW o \in Operations, WriteFails(o) PROVE FilesInv'
<1> DEFINE job == Head(op[o].jobs)
           h == op[o].handle
<1>1. /\ TypeOK /\ op \in [Operations -> Row] /\ op[o] \in Row /\ RowFits(op[o])
      /\ op[o].pc = "write" /\ op[o].pc \in Writing
  BY Here DEF WriteFails, Writing, Running
<1>2. h \in Names \cup {"unlinked"}
  BY <1>1 DEF Row, RowFits
<1>3. /\ disk \in [Names -> Contents]
      /\ \A how \in {"empty", "torn"} :
           Bad(how) \in Contents /\ Bad(how).is # "whole" /\ Bad(how).items = {}
  BY <1>1 DEF TypeOK, Contents, Bad
<1>4. /\ disk' \in [Names -> Contents]
      /\ \A name \in Names : Puts(o, name) /\ (name # h => disk'[name] = disk[name])
  <2>1. PICK how \in {"empty", "torn"} :
          disk' = IF h = "unlinked" THEN disk ELSE [disk EXCEPT ![h] = Bad(how)]
    BY DEF WriteFails
  <2> QED BY <1>2, <1>3, <2>1 DEF Puts
<1>5. CASE InPlace(job)
  <2>1. op' = Step(o, AndThen(o, Tail(op[o].jobs)))
    BY <1>5 DEF WriteFails
  <2>2. PICK row \in Row :
          /\ Step(o, AndThen(o, Tail(op[o].jobs))) = [op EXCEPT ![o] = row]
          /\ row.jobs = Tail(op[o].jobs) /\ row.handle = "none"
          /\ row.pc = IF Tail(op[o].jobs) = <<>> THEN op[o].after ELSE "open"
          /\ row.kind = op[o].kind /\ row.items = op[o].items /\ row.after = op[o].after
          /\ row.left = op[o].left /\ row.alone = op[o].alone
    BY <1>1, AndThenIs
  <2>3. op' = [op EXCEPT ![o] = row]
    BY <2>1, <2>2
  <2> QED BY <1>1, <1>4, <1>5, <2>2, <2>3, WroteStep DEF WriteFails
<1>6. CASE ~InPlace(job)
  <2> DEFINE row == [op[o] EXCEPT !.handle = "none", !.pc = "thrown"]
             fields == [handle |-> "none", pc |-> "thrown"]
  <2>1k. /\ op \in [Operations -> Row] /\ row \in Row
         /\ row.kind = op[o].kind /\ row.items = op[o].items
         /\ row.jobs = op[o].jobs /\ row.after = op[o].after
         /\ row.left = op[o].left /\ row.alone = op[o].alone
    BY <1>1 DEF Row, Places, Left
  <2>1r. /\ row.handle = "none"
        /\ row.pc = "thrown"
    BY <1>1 DEF Row
  <2>1f. /\ DOMAIN fields = {"handle", "pc"}
         /\ fields.handle = row.handle /\ fields.pc = row.pc
    BY <2>1r
  <2>1d. Step(o, [handle |-> "none", pc |-> "thrown"]) = Step(o, fields)
    OBVIOUS
  <2> HIDE DEF row, fields
  <2>1s. Step(o, fields) = [op EXCEPT ![o] = row]
    BY <2>1k, <2>1f, StepIs
  <2>2. op' = [op EXCEPT ![o] = row]
    BY <1>6, <2>1d, <2>1s DEF WriteFails
  <2> QED BY <1>1, <1>4, <1>6, <2>1k, <2>1r, <2>2, WroteStep DEF WriteFails
<1> QED BY <1>5, <1>6

LEMMA RenameStep == ASSUME FilesInv, NEW o \in Operations, Rename(o) PROVE FilesInv'
<1> DEFINE c == op[o]
           temp == Temp(op[o])
           name == Head(op[o].jobs).name
<1>1. /\ TypeOK /\ op \in [Operations -> Row] /\ c \in Row /\ RowFits(c)
      /\ uploads \subseteq Operations /\ c.pc = "rename" /\ c.pc \in Writing /\ Running(o)
      /\ c.alone => AloneRow(o, c)
  BY Here DEF Rename, Writing, Running
<1>2. /\ temp \in Names /\ temp # "main" /\ name \in Names /\ temp # name /\ ~Copying(c)
      /\ Head(c.jobs).temp = temp
      /\ Restoring(c) \/ Replacing(c) => name = "main"
      /\ BackingUp(c) => name = "bak"
  <2>1. ~InPlace(Head(c.jobs))
    BY <1>1 DEF RowFits
  <2> QED BY <1>1, <2>1, WhereItGoes DEF InPlace
<1>3. CASE ~Present(temp)
  <2>1. op' = Go(o, "thrown") /\ Keep
    BY <1>2, <1>3 DEF Rename, Keep
  <2> QED BY <1>1, <2>1, GoStep DEF Places, Loaded
<1>4. CASE Present(temp)
  <2>1. PICK row \in Row :
          /\ Step(o, AndThen(o, Tail(op[o].jobs))) = [op EXCEPT ![o] = row]
          /\ row.jobs = Tail(op[o].jobs) /\ row.handle = "none"
          /\ row.pc = IF Tail(op[o].jobs) = <<>> THEN op[o].after ELSE "open"
          /\ row.kind = op[o].kind /\ row.items = op[o].items /\ row.after = op[o].after
          /\ row.left = op[o].left /\ row.alone = op[o].alone
    BY <1>1, AndThenIs
  <2>2. /\ disk' = [disk EXCEPT ![name] = disk[temp], ![temp] = Bad("absent")]
        /\ op' = Moved(Step(o, AndThen(o, Tail(op[o].jobs))), temp, name)
        /\ UNCHANGED <<uploads, given, condition>>
    BY <1>2, <1>4 DEF Rename
  <2>3. op' = Moved([op EXCEPT ![o] = row], temp, name)
    BY <2>1, <2>2
  <2>4. /\ op' \in [Operations -> Row] /\ op'[o] = row
        /\ \A p \in Operations : p # o => Follows(p)
    BY <1>1, <1>2, <2>1, <2>3, RowMoved
  <2>5. /\ disk \in [Names -> Contents] /\ Bad("absent") \in Contents
        /\ Bad("absent").is # "whole" /\ Bad("absent").items = {}
    BY <1>1 DEF TypeOK, Contents, Bad
  <2>6. /\ disk' \in [Names -> Contents]
        /\ disk'[name] = disk[temp] /\ disk'[temp] = Bad("absent")
        /\ \A n \in Names : n # name /\ n # temp => disk'[n] = disk[n]
    BY <1>2, <2>2, <2>5
  <2>7. TypeOK' /\ OnlyRow(o)
    <3>1. row.pc # "idle"
      BY <1>1, <2>1 DEF Row
    <3> QED BY <1>1, <2>1, <2>2, <2>4, <2>6, <3>1, TypesNext DEF OnlyRow
  <2>8. \A n \in Names : Puts(o, n)
    BY <1>1, <2>5, <2>6 DEF Puts
  <2>9. /\ Restoring(c) \/ Replacing(c) \/ BackingUp(c)
        /\ ~Restoring(c) => Saves(c)
        /\ ItemsOf(row.jobs) \subseteq ItemsOf(c.jobs)
    BY <1>1, <1>2, <2>1, FourWrites
  <2>10. /\ RowFits(row)
         /\ Restoring(c) => row.pc = "apply"
         /\ Replacing(c) => row.pc = "open" /\ LastWrite(row) /\ Saves(row)
         /\ BackingUp(c) => row.pc = "answer"
    BY <1>1, <2>1, GoesOn
  <2>11. ASSUME c.alone
         PROVE  AloneRow(o, row)' /\ disk'["main"].is = "whole"
    <3>1. disk[temp] = Whole(c.items)
      BY <1>1, <2>11 DEF AloneRow
    <3>2. ~Restoring(c) => (c.kind \in Adds => o \in c.items)
      BY <1>1, <2>9, <2>11 DEF AloneRow
    <3>3. CASE Restoring(c)
      BY <1>2, <2>6, <2>10, <3>1, <3>3 DEF AloneRow, Writing, Whole
    <3>4. CASE Replacing(c)
      <4>1. disk'["main"] = Whole(row.items)
        BY <1>2, <2>1, <2>6, <3>1, <3>4
      <4>2. row.pc = "open" /\ (row.kind \in Adds => o \in row.items)
        BY <2>1, <2>9, <2>10, <3>2, <3>4 DEF Replacing, Restoring
      <4> QED BY <4>1, <4>2 DEF AloneRow, Whole
    <3>5. CASE BackingUp(c)
      <4>1. disk["main"] = Whole(c.items)
        BY <1>1, <2>11, <3>5 DEF AloneRow, BackingUp
      <4>2. disk'["main"] = Whole(row.items) /\ disk'["bak"] = Whole(row.items)
        BY <1>2, <2>1, <2>6, <3>1, <3>5, <4>1 DEF Names
      <4>3. row.pc = "answer" /\ (row.kind \in Adds => o \in row.items)
        BY <2>1, <2>10, <3>2, <3>5 DEF BackingUp, Restoring
      <4> QED BY <4>2, <4>3 DEF AloneRow, Whole, Writing
    <3> QED BY <2>9, <3>3, <3>4, <3>5
  <2>12. RowFits(op[o])' /\ (c.alone => AloneRow(o, op[o])')
    BY <2>4, <2>10, <2>11 DEF RowFits, AloneRow, Saves, LastWrite, Restores, Temp
  <2>13. op'[o].pc \in {"apply", "open", "answer"}
    BY <2>4, <2>9, <2>10
  <2> QED BY <1>1, <2>1, <2>2, <2>4, <2>7, <2>8, <2>9, <2>11, <2>12, <2>13, FileStep
<1> QED BY <1>3, <1>4

-----------------------------------------------------------------------------
(* A removal, a call, a crash.                                             *)

LEMMA RemoveStep ==
    ASSUME FilesInv, NEW o \in Operations, NEW what \in Removals, Remove(o, what) PROVE FilesInv'
<1> DEFINE rest == op[o].left \ {what}
           next == IF rest = {} THEN "answer" ELSE "remove"
<1>1. /\ TypeOK /\ op \in [Operations -> Row] /\ op[o] \in Row /\ RowFits(op[o])
      /\ uploads \subseteq Operations /\ op[o].pc = "remove" /\ Running(o)
      /\ op[o].kind = "delete" /\ op[o].handle = "none"
      /\ "all" \in given /\ given' = given /\ condition' = condition
  BY Here DEF Remove, Running, FilesInv, ListedInv, RowFits
<1>2. rest \in Left /\ next \in Places
  BY <1>1 DEF Row, Left, Places
<1> HIDE DEF rest, next
<1> DEFINE row == [op[o] EXCEPT !.left = rest, !.pc = next]
           fields == [left |-> rest, pc |-> next]
<1>3k. /\ op \in [Operations -> Row] /\ row \in Row
       /\ row.kind = op[o].kind /\ row.items = op[o].items
       /\ row.jobs = op[o].jobs /\ row.handle = op[o].handle
       /\ row.after = op[o].after /\ row.alone = op[o].alone
  BY <1>1, <1>2 DEF Row, Places, Left
<1>3r. /\ row.left = rest
      /\ row.pc = next
  BY <1>1, <1>2 DEF Row
<1>3f. /\ DOMAIN fields = {"left", "pc"}
       /\ fields.left = row.left /\ fields.pc = row.pc
  BY <1>3r
<1>3d. Step(o, [left |-> rest, pc |-> next]) = Step(o, fields)
  OBVIOUS
<1> HIDE DEF row, fields
<1>3s. Step(o, fields) = [op EXCEPT ![o] = row]
  BY <1>3k, <1>3f, StepIs
<1>4. Step(o, [left |-> rest, pc |-> IF rest = {} THEN "answer" ELSE "remove"])
        = [op EXCEPT ![o] = row]
  BY <1>3d, <1>3s DEF next
<1>5. /\ op' \in [Operations -> Row] /\ op'[o] = row
      /\ \A p \in Operations : p # o => Follows(p)
  <2>1. row.handle = "none"
    BY <1>1, <1>3k
  <2>2. CASE what = "uploads"
    <3>1. op' = [op EXCEPT ![o] = row]
      BY <1>4, <2>2 DEF Remove, rest
    <3> QED BY <1>1, <1>3k, <3>1, RowOnly
  <2>3. CASE what # "uploads"
    <3>1. op' = Moved([op EXCEPT ![o] = row], what, "unlinked")
      BY <1>4, <2>3 DEF Remove, rest
    <3>2. what \in Names
      BY <2>3 DEF Removals, Names
    <3> QED BY <1>1, <1>3k, <2>1, <3>1, <3>2, RowMoved
  <2> QED BY <2>2, <2>3
<1>6. /\ disk \in [Names -> Contents] /\ Bad("absent") \in Contents /\ Bad("absent").is # "whole"
  BY <1>1 DEF TypeOK, Contents, Bad
<1>7. /\ disk' \in [Names -> Contents] /\ uploads' \subseteq Operations
      /\ \A name \in Names : disk'[name] = disk[name] \/ disk'[name].is # "whole"
  BY <1>1, <1>6 DEF Remove
<1>8. row.pc \in {"answer", "remove"}
  BY <1>3r DEF next
<1>9. TypeOK' /\ OnlyRow(o)
  BY <1>1, <1>3k, <1>5, <1>7, <1>8, TypesNext DEF OnlyRow
<1>10. RowFits(row)
  BY <1>1, <1>3k, <1>8 DEF RowFits, Writing
<1>11. RowFits(op[o])'
  BY <1>5, <1>10 DEF RowFits, Saves, LastWrite, Restores
<1>12. AloneRow(o, op[o])'
  BY <1>1, <1>3k, <1>5, <1>8 DEF AloneRow, Writing, SavedKinds, Adds
<1>13. ListedInv' /\ MainIsWhole'
  BY <1>1, <1>3k, <1>5, <1>8, <1>9, ListedStays, MainStays
<1>14. ASSUME NEW p \in Operations PROVE DiskKeeps(p) /\ (Running(o)' => Carries(p, o)')
  <2>1. DiskKeeps(p)
    BY <1>7 DEF DiskKeeps
  <2>2. op'[o].pc \notin Loaded
    BY <1>5, <1>8 DEF Loaded, Writing
  <2> QED BY <2>1, <2>2 DEF Carries, Loaded, Writing
<1> QED BY <1>1, <1>5, <1>8, <1>9, <1>11, <1>12, <1>13, <1>14, RowStep

\* A step of many operations that touches no text and no file.
LEMMA ListedOfMany ==
    ASSUME FilesInv, op' \in [Operations -> Row], Keep,
           \A p \in Operations :
             /\ op'[p].items = op[p].items /\ op'[p].jobs = op[p].jobs /\ op'[p].left = op[p].left
             /\ op[p].pc # "idle" => op'[p].pc # "idle" /\ op'[p].kind = op[p].kind
             /\ op'[p].pc \in {"unlink", "remove"} => op'[p].pc = op[p].pc
    PROVE  TypeOK' /\ ListedInv'
<1>1. TypeOK /\ ListedInv
  BY DEF FilesInv
<1>2. TypeOK'
  BY <1>1 DEF TypeOK, Keep, Row, Places, Left
<1>3. UNCHANGED <<disk, uploads, given>>
  BY DEF Keep
<1>4. \A p \in Operations : /\ op'[p].pc = "unlink" => op'[p].left \subseteq given'
                            /\ op'[p].pc = "remove" => "all" \in given'
  BY <1>1, <1>3 DEF ListedInv
<1>5. ASSUME NEW items \in SUBSET Operations, Listed(items) PROVE ListedNext(items)
  BY <1>3, <1>5 DEF Listed, ListedNext
<1>6. ASSUME "all" \notin given'
      PROVE  /\ \A name \in Names : ListedNext(disk'[name].items)
             /\ \A p \in Operations :
                  /\ ListedNext(op'[p].items)
                  /\ \A items \in ItemsOf(op'[p].jobs) : ListedNext(items)
  <2>1. "all" \notin given
    BY <1>3, <1>6
  <2>2. ASSUME NEW name \in Names PROVE ListedNext(disk'[name].items)
    <3>1. disk[name].items \in SUBSET Operations /\ Listed(disk[name].items)
      BY <1>1, <2>1, RowsOfTypes DEF Contents, Bad, ListedInv
    <3> QED BY <1>3, <1>5, <3>1
  <2>3. ASSUME NEW p \in Operations
        PROVE  /\ ListedNext(op'[p].items)
               /\ \A items \in ItemsOf(op'[p].jobs) : ListedNext(items)
    <3>1. op[p].items \in SUBSET Operations /\ op[p].jobs \in Seq(Jobs)
      BY <1>1 DEF TypeOK
    <3>2. Listed(op[p].items) /\ \A items \in ItemsOf(op[p].jobs) : Listed(items)
      BY <2>1, ListedNow
    <3>3. \A items \in ItemsOf(op[p].jobs) : items \in SUBSET Operations
      <4>1. ASSUME NEW i \in DOMAIN op[p].jobs PROVE op[p].jobs[i].items \in SUBSET Operations
        <5>1. op[p].jobs[i] \in Jobs
          BY <3>1
        <5> QED BY <5>1 DEF Jobs
      <4> QED BY <4>1 DEF ItemsOf
    <3>4. op'[p].items = op[p].items /\ ItemsOf(op'[p].jobs) = ItemsOf(op[p].jobs)
      OBVIOUS
    <3> QED BY <1>5, <3>1, <3>2, <3>3, <3>4
  <2> QED BY <2>2, <2>3
<1>7. ASSUME "all" \notin given'
      PROVE  /\ \A name \in Names : Listed(disk[name].items)'
             /\ \A p \in Operations :
                  /\ Listed(op[p].items)'
                  /\ \A items \in ItemsOf(op[p].jobs)' : Listed(items)'
  BY <1>6, <1>7 DEF Listed, ListedNext, ItemsOf
<1> QED BY <1>2, <1>4, <1>7 DEF ListedInv

LEMMA StartStep ==
    ASSUME FilesInv, NEW o \in Operations, NEW kind \in Kinds, Start(o, kind) PROVE FilesInv'
<1> DEFINE pc == IF kind = "create" THEN "saveexists" ELSE "exists"
           alone == Together = {}
           row == [Idle EXCEPT !.pc = pc, !.kind = kind, !.alone = alone]
<1>1. /\ TypeOK /\ op \in [Operations -> Row] /\ Keep /\ op[o] = Idle /\ op[o].pc = "idle"
      /\ (kind = "create") = ~Made
  BY Here DEF Start, Keep, RowFits
<1>2. Idle \in Row
  <2>1. op[o] \in Row
    BY <1>1
  <2> QED BY <1>1, <2>1
<1>3. /\ row \in Row /\ row.pc = pc /\ row.kind = kind /\ row.alone = alone
      /\ row.items = {} /\ row.jobs = <<>> /\ row.handle = "none" /\ row.left = {}
      /\ Idle.items = {} /\ Idle.jobs = <<>> /\ Idle.left = {}
  BY <1>2 DEF Row, Places, Idle
<1>4. pc \in {"saveexists", "exists"} /\ (kind = "create" <=> pc = "saveexists")
  OBVIOUS
<1>5. op' = [p \in Operations |->
                IF p = o THEN row
                ELSE IF Running(p) THEN [op[p] EXCEPT !.alone = FALSE] ELSE op[p]]
  BY DEF Start
<1> HIDE DEF row, pc, alone
<1>6. op'[o] = row
  BY <1>5
<1>7. ASSUME NEW p \in Operations, p # o
      PROVE  /\ op'[p] \in Row
             /\ op'[p].pc = op[p].pc /\ op'[p].kind = op[p].kind /\ op'[p].items = op[p].items
             /\ op'[p].jobs = op[p].jobs /\ op'[p].after = op[p].after
             /\ op'[p].left = op[p].left /\ op'[p].handle = op[p].handle
             /\ op'[p].alone => op[p].alone /\ ~Running(p)
             /\ ~Running(p) => op'[p] = op[p]
  <2>1. op[p] \in Row
    BY <1>1
  <2>2. CASE Running(p)
    <3>1. op'[p] = [op[p] EXCEPT !.alone = FALSE]
      BY <1>5, <1>7, <2>2
    <3> QED BY <2>1, <2>2, <3>1 DEF Row
  <2>3. CASE ~Running(p)
    <3>1. op'[p] = op[p]
      BY <1>5, <1>7, <2>3
    <3> QED BY <2>1, <2>3, <3>1
  <2> QED BY <2>2, <2>3
<1>8. op' \in [Operations -> Row]
  <2>1. \A p \in Operations : op'[p] \in Row
    BY <1>3, <1>6, <1>7
  <2>2. op' = [p \in Operations |-> op'[p]]
    BY <1>5
  <2> QED BY <2>1, <2>2
<1>9. TypeOK' /\ ListedInv'
  <2>1. ASSUME NEW p \in Operations
        PROVE  /\ op'[p].items = op[p].items /\ op'[p].jobs = op[p].jobs /\ op'[p].left = op[p].left
               /\ op[p].pc # "idle" => op'[p].pc # "idle" /\ op'[p].kind = op[p].kind
               /\ op'[p].pc \in {"unlink", "remove"} => op'[p].pc = op[p].pc
    <3>1. CASE p = o
      BY <1>1, <1>3, <1>4, <1>6, <3>1
    <3> QED BY <1>7, <3>1
  <2> QED BY <1>1, <1>8, <2>1, ListedOfMany
<1>10. MadeFirst'
  <2>1. Made => Made'
    <3>1. condition' = condition
      BY <1>1 DEF Keep
    <3>2. ASSUME NEW p \in Operations, op[p].kind = "create", op[p].pc # "idle"
          PROVE  op'[p].kind = "create" /\ op'[p].pc # "idle"
      BY <1>1, <1>7, <3>2
    <3> QED BY <3>1, <3>2 DEF Made
  <2>2. kind = "create" => Made'
    BY <1>3, <1>4, <1>6 DEF Made
  <2> QED BY <1>1, <2>1, <2>2 DEF MadeFirst
<1>11. ASSUME NEW p \in Operations PROVE RowFits(op[p])'
  <2>1. CASE p = o
    BY <1>3, <1>4, <1>6, <2>1 DEF RowFits, Writing, Restores, Saves, LastWrite
  <2>2. CASE p # o
    <3>1. RowFits(op[p]) /\ (op[p].pc = "idle" => op'[p] = op[p])
      BY <1>7, <2>2 DEF FilesInv, Running
    <3>2. (Restores(op[p]) <=> Restores(op[p])') /\ (Saves(op[p]) <=> Saves(op[p])')
      BY <1>7, <2>2 DEF Restores, Saves, LastWrite
    <3> QED BY <1>7, <2>2, <3>1, <3>2 DEF RowFits
  <2> QED BY <2>1, <2>2
<1>12. ASSUME NEW p \in Operations PROVE AloneInv(p)'
  <2>1. CASE p = o
    <3>1. ASSUME alone PROVE Together' = {o}
      <4>1. \A q \in Operations : q # o => ~Running(q)
        BY <3>1 DEF alone, Together
      <4>2. \A q \in Operations : q # o => ~Running(q)'
        BY <1>7, <4>1 DEF Running
      <4>3. Running(o)'
        BY <1>3, <1>4, <1>6 DEF Running
      <4> QED BY <4>2, <4>3 DEF Together
    <3>2. AloneRow(o, op[o])'
      BY <1>3, <1>4, <1>6 DEF AloneRow, Writing, Adds
    <3> QED BY <1>3, <1>6, <2>1, <3>1, <3>2 DEF AloneInv
  <2>2. CASE p # o
    BY <1>7, <2>2 DEF AloneInv, Running
  <2> QED BY <2>1, <2>2
<1>13. ASSUME NEW p \in Operations PROVE AnsweredInv(p)'
  <2>1. SUFFICES ASSUME WasAnswered(p)'
                 PROVE  /\ \A name \in {"main", "bak"} : Readable(name)' => Kept(p, disk[name].items)'
                        /\ \A q \in Operations : Running(q)' => Carries(p, q)'
    BY DEF AnsweredInv, WasAnswered
  <2>2. p # o /\ WasAnswered(p)
    BY <1>3, <1>4, <1>6, <1>7, <2>1 DEF WasAnswered
  <2>3. UNCHANGED <<disk, given>>
    BY <1>1 DEF Keep
  <2>4. \A name \in {"main", "bak"} : Readable(name)' => Kept(p, disk[name].items)'
    BY <2>2, <2>3, DiskIsKept DEF Readable, Kept
  <2>5. ASSUME NEW q \in Operations, Running(q)' PROVE Carries(p, q)'
    <3>1. CASE q = o
      <4>1. Made
        BY <2>2 DEF FilesInv, MadeFirst, WasAnswered
      <4>2. op'[o].pc = "exists"
        BY <1>1, <1>3, <1>4, <1>6, <4>1
      <4> QED BY <3>1, <4>2 DEF Carries, Loaded, Writing
    <3>2. CASE q # o
      <4>1. Carries(p, q)
        BY <1>7, <2>2, <2>5, <3>2 DEF FilesInv, AnsweredInv, WasAnswered, Running
      <4>2. op'[q].pc = op[q].pc /\ op'[q].items = op[q].items /\ op'[q].jobs = op[q].jobs
        BY <1>7, <3>2
      <4> QED BY <2>3, <4>1, <4>2 DEF Carries, Kept, ItemsOf, Temp, Readable
    <3> QED BY <3>1, <3>2
  <2> QED BY <2>4, <2>5
<1>14. MainIsWhole'
  <2>1. SUFFICES ASSUME \A p \in Operations : op'[p].alone, "all" \notin given',
                        Created' \/ \E p \in Operations : op'[p].kind = "create" /\ op'[p].pc = "answer"
                 PROVE  Readable("main")'
    BY DEF MainIsWhole
  <2>2. UNCHANGED <<disk, given, condition>>
    BY <1>1 DEF Keep
  <2>3. \A p \in Operations : op[p].alone
    BY <1>1, <1>7, <2>1 DEF Idle
  <2>4. \A p \in Operations : op'[p].kind = "create" /\ op'[p].pc \in {"answer", "answered"}
                                => op[p].kind = "create" /\ op[p].pc = op'[p].pc
    BY <1>3, <1>4, <1>6, <1>7
  <2>5. Created \/ \E p \in Operations : op[p].kind = "create" /\ op[p].pc = "answer"
    BY <2>1, <2>2, <2>4 DEF Created
  <2>6. Readable("main")
    BY <2>1, <2>2, <2>3, <2>5 DEF FilesInv, MainIsWhole
  <2> QED BY <2>2, <2>6 DEF Readable
<1> QED BY <1>9, <1>10, <1>11, <1>12, <1>13, <1>14 DEF FilesInv

LEMMA CrashStep == ASSUME FilesInv, Crash PROVE FilesInv'
<1>1. TypeOK /\ op \in [Operations -> Row] /\ Keep
  BY RowsOfTypes DEF FilesInv, Crash
<1>2. ASSUME NEW p \in Operations
      PROVE  /\ op'[p] \in Row
             /\ op'[p].kind = op[p].kind /\ op'[p].items = op[p].items /\ op'[p].jobs = op[p].jobs
             /\ op'[p].after = op[p].after /\ op'[p].left = op[p].left
             /\ op'[p].alone = op[p].alone
             /\ Running(p) => op'[p].pc = "died" /\ op'[p].handle = "none"
             /\ ~Running(p) => op'[p] = op[p]
  <2>1. op[p] \in Row
    BY <1>1
  <2>2. CASE Running(p)
    <3>1. op'[p] = [op[p] EXCEPT !.pc = "died", !.handle = "none"]
      BY <2>2 DEF Crash
    <3> QED BY <2>1, <2>2, <3>1 DEF Row, Places
  <2>3. CASE ~Running(p)
    <3>1. op'[p] = op[p]
      BY <2>3 DEF Crash
    <3> QED BY <2>1, <2>3, <3>1
  <2> QED BY <2>2, <2>3
<1>3. op' \in [Operations -> Row]
  <2>1. op' = [p \in Operations |-> op'[p]]
    BY DEF Crash
  <2> QED BY <1>2, <2>1
<1>4. \A p \in Operations : ~Running(p)' /\ (op'[p].pc # "died" => op'[p] = op[p])
  BY <1>2 DEF Running
<1>5. TypeOK' /\ ListedInv'
  <2>1. ASSUME NEW p \in Operations
        PROVE  /\ op'[p].items = op[p].items /\ op'[p].jobs = op[p].jobs /\ op'[p].left = op[p].left
               /\ op[p].pc # "idle" => op'[p].pc # "idle" /\ op'[p].kind = op[p].kind
               /\ op'[p].pc \in {"unlink", "remove"} => op'[p].pc = op[p].pc
    BY <1>2, <1>4
  <2> QED BY <1>1, <1>3, <2>1, ListedOfMany
<1>6. MadeFirst'
  <2>1. Made
    BY DEF FilesInv, MadeFirst, Crash, Together, Running
  <2>2. \A p \in Operations : op[p].pc # "idle" => op'[p].pc # "idle" /\ op'[p].kind = op[p].kind
    BY <1>2, <1>4
  <2>3. Made'
    BY <1>1, <2>1, <2>2 DEF Made, Keep
  <2> QED BY <2>3 DEF MadeFirst
<1>7. ASSUME NEW p \in Operations PROVE RowFits(op[p])'
  <2>1. CASE Running(p)
    BY <1>2, <2>1 DEF RowFits, Writing
  <2>2. CASE ~Running(p)
    <3>1. RowFits(op[p]) /\ op'[p] = op[p]
      BY <1>2, <2>2 DEF FilesInv
    <3> QED BY <3>1 DEF RowFits, Restores, Saves, LastWrite
  <2> QED BY <2>1, <2>2
<1>8. ASSUME NEW p \in Operations PROVE AloneInv(p)' /\ AnsweredInv(p)'
  <2>1. AloneInv(p)'
    BY <1>4 DEF AloneInv
  <2>2. ASSUME WasAnswered(p)', NEW name \in {"main", "bak"}, Readable(name)'
        PROVE  Kept(p, disk[name].items)'
    <3>1. WasAnswered(p) /\ UNCHANGED <<disk, given>>
      BY <1>1, <1>2, <1>4, <2>2 DEF WasAnswered, Keep
    <3> QED BY <2>2, <3>1, DiskIsKept DEF Readable, Kept
  <2> QED BY <1>4, <2>1, <2>2 DEF AnsweredInv, WasAnswered
<1>9. MainIsWhole'
  <2>1. UNCHANGED <<disk, given, condition>>
    BY <1>1 DEF Keep
  <2>2. ASSUME NEW p \in Operations
        PROVE  /\ op'[p].alone = op[p].alone /\ op'[p].kind = op[p].kind
               /\ op'[p].pc \in {"answer", "answered"} => op'[p].pc = op[p].pc
    BY <1>2, <1>4
  <2> QED BY <2>1, <2>2 DEF FilesInv, MainIsWhole, Created, Readable
<1> QED BY <1>5, <1>6, <1>7, <1>8, <1>9 DEF FilesInv

-----------------------------------------------------------------------------
(* The invariant, and the properties that follow from it.                  *)

LEMMA FilesInvStart == Init => FilesInv
<1> SUFFICES ASSUME Init PROVE FilesInv
  OBVIOUS
<1>1. /\ op = [o \in Operations |-> Idle] /\ uploads = {} /\ given = {} /\ condition \in Conditions
      /\ disk = [n \in Names |-> IF condition.created /\ n \in {"main", "bak"} THEN Whole({})
                                 ELSE Bad("absent")]
  BY DEF Init
<1>2. Idle \in Row
  BY NoJobs DEF Idle, Row, Places, Left, Kinds
<1>3. /\ \A o \in Operations : op[o] = Idle
      /\ Idle.pc = "idle" /\ Idle.items = {} /\ Idle.jobs = <<>> /\ Idle.alone = TRUE
      /\ Idle.handle = "none" /\ Idle.kind = "read"
  BY <1>1 DEF Idle
<1>4. Whole({}) \in Contents /\ Bad("absent") \in Contents
  BY DEF Whole, Bad, Contents
<1>5. TypeOK
  <2>1. op \in [Operations -> Row] /\ disk \in [Names -> Contents]
    BY <1>1, <1>2, <1>4
  <2> QED BY <1>1, <2>1 DEF TypeOK, Row, Places, Left
<1>6. \A name \in Names : /\ disk[name].items = {}
                          /\ disk[name].is = "whole" <=> condition.created /\ name \in {"main", "bak"}
                          /\ ~condition.created => disk[name].is = "absent"
  BY <1>1 DEF Whole, Bad
<1>7. MadeFirst
  BY <1>3, <1>6 DEF MadeFirst, Made, Present, Names
<1>8. ListedInv
  BY <1>3, <1>6, NoJobs DEF ListedInv, Listed
<1>9. MainIsWhole
  BY <1>3, <1>6 DEF MainIsWhole, Created, Readable, Names
<1>10. ASSUME NEW o \in Operations PROVE RowFits(op[o]) /\ AloneInv(o) /\ AnsweredInv(o)
  BY <1>3 DEF RowFits, AloneInv, AnsweredInv, Running, Writing
<1> QED BY <1>5, <1>7, <1>8, <1>9, <1>10 DEF FilesInv

LEMMA FilesInvNext == FilesInv /\ [Next]_vars => FilesInv'
<1> SUFFICES ASSUME FilesInv, [Next]_vars PROVE FilesInv'
  OBVIOUS
<1>1. CASE UNCHANGED vars
  <2>1. UNCHANGED <<disk, uploads, op, given, condition>>
    BY <1>1 DEF vars
  <2>2. TypeOK' /\ MadeFirst'
    BY <2>1 DEF FilesInv, TypeOK, MadeFirst, Made, Present
  <2>3. ListedInv'
    BY <2>1 DEF FilesInv, ListedInv, Listed, ItemsOf
  <2>4. MainIsWhole'
    BY <2>1 DEF FilesInv, MainIsWhole, Created, Readable
  <2>5. ASSUME NEW o \in Operations PROVE RowFits(op[o])'
    BY <2>1 DEF FilesInv, RowFits, Restores, Saves, LastWrite
  <2>6. ASSUME NEW o \in Operations PROVE AloneInv(o)'
    <3>1. (AloneRow(o, op[o])' <=> AloneRow(o, op[o])) /\ Together' = Together
      BY <2>1 DEF AloneRow, Temp, Saves, LastWrite, Together, Running
    <3> QED BY <2>1, <3>1 DEF FilesInv, AloneInv, Running
  <2>7. ASSUME NEW o \in Operations PROVE AnsweredInv(o)'
    <3>1. \A p \in Operations : Carries(o, p)' <=> Carries(o, p)
      BY <2>1 DEF Carries, Kept, ItemsOf, Temp, Readable
    <3> QED BY <2>1, <3>1 DEF FilesInv, AnsweredInv, Kept, Readable, Running
  <2> QED BY <2>2, <2>3, <2>4, <2>5, <2>6, <2>7 DEF FilesInv
<1>2. CASE Crash
  BY <1>2, CrashStep
<1>3. ASSUME NEW o \in Operations, Act(o) PROVE FilesInv'
  BY <1>3, StartStep, ExistsStep, ReadStep, BackupExistsStep, BackupReadStep, RefuseStep,
     ApplyStep, UploadStep, UnlinkStep, RemoveStep, SaveExistsStep, SaveReadStep, OpenStep,
     WriteStep, WriteFailsStep, RenameStep, ReturnStep DEF Act
<1> QED BY <1>1, <1>2, <1>3 DEF Next

(* Whatever operations overlap, and wherever a write fails or the process   *)
(* dies, the rows fit their steps, what is on disk or still to be written   *)
(* lists only attachments that were uploaded, an operation that ran alone   *)
(* has written what it loaded and changed, and what it answered stays in    *)
(* every text that is loaded after it.                                      *)
THEOREM FilesInvariance == Spec => []FilesInv
<1>1. Init => FilesInv
  BY FilesInvStart
<1>2. FilesInv /\ [Next]_vars => FilesInv'
  BY FilesInvNext
<1> QED BY <1>1, <1>2, PTL DEF Spec

(* As long as no two operations overlapped, from the answer of the creation *)
(* on and until a deletion begins a load finds a whole file: the one failed *)
(* write or crash hits is never the conversation's own.                     *)
THEOREM RecoverableAlways == Spec => []Recoverable
<1>1. FilesInv => Recoverable
  BY DEF FilesInv, MainIsWhole, Recoverable, Readable, Present
<1> QED BY <1>1, FilesInvariance, PTL

(* A change answered while no other operation was running is never lost     *)
(* from a readable copy, for any number of operations after it that may     *)
(* overlap, fail and die.                                                   *)
THEOREM AnsweredStaysAlways == Spec => []AnsweredStays
<1>1. FilesInv => AnsweredStays
  BY DEF FilesInv, AnsweredInv, AnsweredStays, Kept, Adds
<1> QED BY <1>1, FilesInvariance, PTL

(* No readable copy lists an attachment whose file is missing, unless it or *)
(* the conversation is being deleted, whatever operations overlap.          *)
THEOREM ListedIsOnDiskAlways == Spec => []ListedIsOnDisk
<1>1. ASSUME FilesInv PROVE ListedIsOnDisk
  BY <1>1, RowsOfTypes DEF FilesInv, ListedInv, Listed, ListedIsOnDisk, Names
<1> QED BY <1>1, FilesInvariance, PTL

==============================================================================
