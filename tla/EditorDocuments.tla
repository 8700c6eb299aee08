--------------------------- MODULE EditorDocuments ---------------------------
(***************************************************************************)
(* The tabs of the workbench's editor and the files behind them.  The      *)
(* controller (apps/workbench/src/hooks/controllers/                       *)
(* useWorkbenchCoreController.ts) loads and saves through the desktop      *)
(* process (project-document-routes.ts), which serves every request in the *)
(* project that is open when it arrives; DocumentService compares the      *)
(* modification time a save was based on with the file's.  Agents write    *)
(* the same files, and a project can be opened while requests are under    *)
(* way.                                                                    *)
(*                                                                         *)
(* A handler of the workbench is one action up to its next await; a        *)
(* request is served in the steps between which other writers can come.    *)
(* A modification time is represented by what is asked of it: whether the  *)
(* file has been written since it was read.                                *)
(***************************************************************************)
EXTENDS Naturals, FiniteSets

CONSTANTS
    Paths,     \* relative paths
    Slots,     \* operations of the workbench that are under way at once
    Files,     \* the paths each project has when the history begins
    First,     \* the project that is open then
    Starter,   \* the document a project shows when it is opened
    Markdown,  \* paths whose toolbar has the buttons that ignore `busy`
    MaxTexts,  \* bound: texts written by the user and by agents
    MaxOps     \* bound: operations of the workbench

Projects == DOMAIN Files
None     == "none"

ASSUME EditorAssumption ==
    /\ Files \in [Projects -> SUBSET Paths] /\ First \in Projects /\ Starter \in Paths
    /\ Markdown \subseteq Paths /\ MaxTexts \in Nat \ {0} /\ MaxOps \in Nat
    /\ None \notin Projects \cup Paths \cup Slots

VARIABLES
    session,   \* ProjectSessionService.currentProject
    disk,      \* the files of each project
    view,      \* the project the workbench shows
    ed,        \* the state of the editor
    switching, \* projectBusy
    op,        \* the operations under way
    reported,  \* paths a finished task reports as changed
    made,      \* how many texts were written
    started,   \* how many operations were begun
    draft,     \* what the user typed last in each tab and has not saved or given up
    raced,     \* whether operations overlapped
    brought,   \* the texts that saves without a base put into each project
    silent     \* whether a tab's save replaced a text nobody had seen

history == <<draft, raced, brought, silent>>
vars == <<session, disk, view, ed, switching, op, reported, made, started, history>>

Text(n, P) == [n |-> n, of |-> P]       \* the n-th text, written for project P
NoText == Text(0, None)
Empty == Text(0, view)

\* A file: its text, and whether the editor has shown it (or could not have, see
\* AgentWrites).
File(text, known) == [text |-> text, known |-> known]
NoFile == File(NoText, TRUE)

\* A tab: `at` and `fresh` stand for updatedAtMs, the project it was read in
\* and whether the file still has it.
Tab(text, at, fresh) ==
    [text |-> text, dirty |-> FALSE, stale |-> FALSE, at |-> at, fresh |-> fresh]
NoTab == Tab(NoText, None, FALSE)

Idle == [kind |-> None, pc |-> None, path |-> None, text |-> NoText, at |-> None,
         fresh |-> FALSE, based |-> FALSE, force |-> FALSE, activate |-> FALSE,
         back |-> None, rest |-> {}, again |-> FALSE]

Begun(kind, path) == [Idle EXCEPT !.kind = kind, !.path = path]

Free(s) == op[s].kind = None
IsOpen(e, p) == e.tabs[p] # NoTab

Init ==
    /\ session = First /\ view = First
    /\ disk = [P \in Projects |-> [p \in Paths |->
                 IF p \in Files[P] THEN File(Text(1, P), FALSE) ELSE NoFile]]
    /\ ed = [tabs |-> [p \in Paths |-> NoTab], active |-> None, busy |-> FALSE,
             latest |-> None, conflict |-> None, left |-> FALSE]
    /\ switching = FALSE
    /\ op = [s \in Slots |-> Idle]
    /\ reported = {} /\ made = 1 /\ started = 0
    /\ draft = [p \in Paths |-> NoText] /\ raced = FALSE
    /\ brought = {} /\ silent = FALSE

-----------------------------------------------------------------------------
(* The editor.                                                             *)

\* setDocumentBusy(false)
NotBusy(e) == [e EXCEPT !.busy = FALSE, !.left = FALSE]

\* Mutant: a reload forgets the draft.
OpenedOverDraft(e, s, p, how) ==
    IF IsOpen(e, p) /\ ~how.force
    THEN [ed |-> IF how.activate THEN [e EXCEPT !.active = p, !.latest = None] ELSE e,
          loads |-> FALSE]
    ELSE [ed |-> [e EXCEPT !.busy = TRUE,
                           !.active = IF how.activate THEN None ELSE @,
                           !.latest = IF how.activate THEN s ELSE @],
          loads |-> TRUE]

\* The first half of openDocument: the editor after it, and whether it loads.
\* `e.latest` is the load that carries activeDocumentOpenRequestRef.
Opened(e, s, p, how) ==
    IF IsOpen(e, p) /\ ~how.force
    THEN [ed |-> IF how.activate THEN [e EXCEPT !.active = p, !.latest = None] ELSE e,
          loads |-> FALSE]
    ELSE IF e.tabs[p].dirty /\ ~how.discard
    THEN [ed |-> [e EXCEPT !.tabs[p].stale = TRUE, !.active = IF how.activate THEN p ELSE @],
          loads |-> FALSE]
    ELSE [ed |-> [e EXCEPT !.busy = TRUE,
                           !.active = IF how.activate THEN None ELSE @,
                           !.latest = IF how.activate THEN s ELSE @],
          loads |-> TRUE]

How(force, discard, activate) == [force |-> force, discard |-> discard, activate |-> activate]

\* The operation of slot s, which goes on with openDocument, and ends if
\* nothing has to be loaded.
Loading(e, o, p, how) ==
    [o EXCEPT !.pc = "get", !.path = p, !.text = NoText, !.at = None, !.fresh = FALSE,
              !.activate = how.activate, !.back = e.active]

Open(s, e, o, p, how) ==
    LET next == Opened(e, s, p, how) IN
    /\ ed' = next.ed
    /\ op' = [op EXCEPT ![s] = IF next.loads THEN Loading(e, o, p, how) ELSE Idle]
    /\ switching' = (switching /\ (next.loads \/ o.kind \notin {"create", "switch"}))

\* An operation that is begun while another is under way races with it.
Begin(s) ==
    /\ Free(s) /\ started < MaxOps
    /\ started' = started + 1
    /\ raced' = (raced \/ \E q \in Slots : ~Free(q))

\* The user clicks a chapter, a search result or a task's file.
OpenDocument(s, p) ==
    /\ IF IsOpen(ed, p)
       THEN /\ Free(s) /\ ed.active # p
            /\ UNCHANGED <<started, raced>>
       ELSE Begin(s)
    /\ Open(s, ed, Begun("open", p), p, How(FALSE, FALSE, TRUE))
    /\ UNCHANGED <<session, disk, view, reported, made, draft, brought, silent>>

\* Mutant: an error leaves the editor busy.
LoadedUnlessFailed(e, s, o) ==
    IF o.activate /\ e.latest # s THEN [e EXCEPT !.left = e.busy]
    ELSE IF o.text = NoText THEN e
    ELSE NotBusy([e EXCEPT !.tabs[o.path] = Tab(o.text, o.at, o.fresh),
                           !.active = IF o.activate THEN o.path ELSE @,
                           !.latest = IF o.activate THEN None ELSE @])

\* The rest of openDocument, when the answer or its error is there.
Loaded(e, s, o) ==
    IF o.activate /\ e.latest # s THEN [e EXCEPT !.left = e.busy]
    ELSE IF o.text = NoText
    THEN NotBusy([e EXCEPT !.active = IF o.activate THEN o.back ELSE @,
                           !.latest = IF o.activate THEN None ELSE @])
    ELSE NotBusy([e EXCEPT !.tabs[o.path] = Tab(o.text, o.at, o.fresh),
                           !.active = IF o.activate THEN o.path ELSE @,
                           !.latest = IF o.activate THEN None ELSE @])

Shows(e, s, o) == ~(o.activate /\ e.latest # s) /\ o.text # NoText

LoadAnswered(s) ==
    /\ op[s].pc = "got"
    /\ LET o == op[s]
           e == Loaded(ed, s, o)
       IN  /\ IF o.again
              THEN Open(s, e, [o EXCEPT !.again = FALSE], o.path, How(TRUE, FALSE, TRUE))
              ELSE /\ ed' = e /\ op' = [op EXCEPT ![s] = Idle]
                   /\ switching' = (switching /\ o.kind \notin {"create", "switch"})
           /\ disk' = IF Shows(ed, s, o) /\ disk[o.at][o.path].text = o.text
                      THEN [disk EXCEPT ![o.at][o.path].known = TRUE] ELSE disk
    /\ UNCHANGED <<session, view, reported, made, started, history>>

\* updateActiveDocument.  The text area is disabled while the editor is busy,
\* and is not there while a conflict is shown; two toolbar buttons are.
Type(p) ==
    /\ made < MaxTexts
    /\ ed.active = p /\ IsOpen(ed, p)
    /\ (~ed.busy /\ ed.conflict = None) \/ p \in Markdown
    /\ LET text == Text(made + 1, ed.tabs[p].at) IN
       /\ ed' = [ed EXCEPT !.tabs[p].text = text, !.tabs[p].dirty = TRUE]
       /\ draft' = [draft EXCEPT ![p] = text]
    /\ made' = made + 1
    /\ raced' = (raced \/ \E s \in Slots : op[s].kind = "switch")
    /\ UNCHANGED <<session, disk, view, switching, op, reported, started, brought, silent>>

-----------------------------------------------------------------------------
(* Saving.                                                                 *)

\* The first half of saveActiveDocument: a stale tab is not sent.
Saves(e, p, force) == IsOpen(e, p) /\ (~e.tabs[p].stale \/ force)

SaveBegun(e, p, force) ==
    IF Saves(e, p, force) THEN [e EXCEPT !.busy = TRUE]
    ELSE IF IsOpen(e, p) THEN [e EXCEPT !.conflict = p] ELSE e

Saving(e, p, force, rest) ==
    LET t == e.tabs[p] IN
    IF Saves(e, p, force)
    THEN [Begun("save", p) EXCEPT !.pc = "put", !.text = t.text, !.at = t.at, !.fresh = t.fresh,
                                  !.based = TRUE, !.force = force, !.rest = rest]
    ELSE Idle

Save(s, e, p, force, rest) ==
    /\ ed' = SaveBegun(e, p, force)
    /\ op' = [op EXCEPT ![s] = Saving(e, p, force, rest)]
    /\ UNCHANGED <<session, disk, view, switching, reported, made, draft, brought, silent>>

Dirty == {p \in Paths : ed.tabs[p].dirty}

\* The button of the editor.
SaveActiveDocument(s) ==
    /\ ~ed.busy /\ ed.active # None /\ IsOpen(ed, ed.active)
    /\ Begin(s)
    /\ Save(s, ed, ed.active, FALSE, {})

\* Ctrl+S, which nothing disables, saves the unsaved tabs one after another.
SaveAllDocuments(s) ==
    /\ Begin(s)
    /\ \E p \in Dirty : Save(s, ed, p, FALSE, Dirty \ {p})

\* The button of a conflict.
ConfirmSaveOverwrite(s) ==
    /\ ed.conflict # None /\ Begin(s)
    /\ Save(s, [ed EXCEPT !.active = ed.conflict], ed.conflict, TRUE, {})

\* The answer of a save is applied to the tab of its path, if there is one.
Applied(e, o) ==
    [e EXCEPT !.tabs[o.path] = IF IsOpen(e, o.path) THEN Tab(o.text, o.at, o.fresh) ELSE NoTab,
              !.conflict = IF @ = o.path THEN None ELSE @]

SaveAnswered(s) ==
    /\ op[s].kind = "save" /\ op[s].pc = "saved"
    /\ LET o == op[s] IN
       /\ ed' = Applied(ed, o)
       /\ draft' = IF draft[o.path] = o.text THEN [draft EXCEPT ![o.path] = NoText] ELSE draft
       /\ op' = [op EXCEPT ![s].pc = "refresh"]
    /\ UNCHANGED <<session, disk, view, switching, reported, made, started, raced, brought, silent>>

\* refreshProjectChrome after a save; saveAllDocuments goes on with the next
\* path unless it failed.
SaveRefreshed(s) ==
    /\ op[s].kind = "save" /\ op[s].pc = "refresh"
    /\ \/ \E p \in op[s].rest : Save(s, NotBusy(ed), p, FALSE, op[s].rest \ {p})
       \/ /\ ed' = NotBusy(ed) /\ op' = [op EXCEPT ![s] = Idle]
          /\ UNCHANGED <<session, disk, view, switching, reported, made, draft, brought, silent>>
    /\ UNCHANGED <<started, raced>>

\* A refused save marks its tab, whatever the tab holds by now.
SaveRefused(s) ==
    /\ op[s].kind = "save" /\ op[s].pc \in {"conflict", "failed"}
    /\ LET o == op[s] IN
       ed' = NotBusy(IF o.pc = "failed" THEN ed
                     ELSE [ed EXCEPT !.conflict = o.path,
                                     !.tabs[o.path].stale = IsOpen(ed, o.path)])
    /\ op' = [op EXCEPT ![s] = Idle]
    /\ UNCHANGED <<session, disk, view, switching, reported, made, started, history>>

-----------------------------------------------------------------------------
(* The desktop process.                                                    *)

\* A write of path p in project S: what was read of it before is out of date.
Age(holder, mine, S) == IF mine /\ holder.at = S THEN [holder EXCEPT !.fresh = FALSE] ELSE holder

Write(S, p, file) ==
    /\ disk' = [disk EXCEPT ![S][p] = file]
    /\ ed' = [ed EXCEPT !.tabs = [q \in Paths |-> Age(@[q], q = p, S)]]

AgedOps(S, p) == [s \in Slots |-> Age(op[s], op[s].path = p, S)]

\* GET: readDocument takes the time of the file before its text.
ServeStat(s) ==
    /\ op[s].pc = "get"
    /\ \/ /\ disk[session][op[s].path] # NoFile
          /\ op' = [op EXCEPT ![s].pc = "stat", ![s].at = session, ![s].fresh = TRUE]
       \/ op' = [op EXCEPT ![s].pc = "got"]
    /\ UNCHANGED <<session, disk, view, ed, switching, reported, made, started, history>>

ServeRead(s) ==
    /\ op[s].pc = "stat"
    /\ op' = [op EXCEPT ![s].pc = "got", ![s].text = disk[op[s].at][op[s].path].text]
    /\ UNCHANGED <<session, disk, view, ed, switching, reported, made, started, history>>

\* Mutant: the times are not compared.
IsCurrentByProject(o) == o.at = session
\* Mutant: the times are compared in the project the tab was read in.
IsCurrentAnywhere(o) == o.fresh

\* PUT: the project, the quality gate, whether the file has that text already,
\* and assertSaveBaseIsCurrent.
IsCurrent(o) == o.at = session /\ o.fresh

CheckSave(s) ==
    /\ op[s].pc = "put"
    /\ LET o == op[s]
           file == disk[session][o.path]
           goTo(pc) == op' = [op EXCEPT ![s].pc = pc, ![s].at = session, ![s].fresh = (pc = "saved")]
       IN  \/ file.text = o.text /\ goTo("saved")
           \/ /\ file.text # o.text
              /\ o.force \/ ~o.based \/ file = NoFile \/ IsCurrent(o)
              /\ op' = [op EXCEPT ![s].pc = "checked", ![s].at = session, ![s].fresh = FALSE,
                                  ![s].based = o.based /\ ~o.force /\ file # NoFile]
           \/ /\ file.text # o.text /\ o.based /\ ~o.force /\ file # NoFile /\ ~IsCurrent(o)
              /\ goTo("conflict")
           \/ goTo("failed")
    /\ UNCHANGED <<session, disk, view, ed, switching, reported, made, started, history>>

\* writeTextWithManagedAtomicReplace, up to the rename.
ReplaceFile(s) ==
    /\ op[s].pc = "checked"
    /\ LET o == op[s] IN
       /\ Write(o.at, o.path, File(o.text, TRUE))
       /\ op' = [AgedOps(o.at, o.path) EXCEPT ![s].pc = "replaced"]
       /\ brought' = IF o.based THEN brought ELSE brought \cup {<<o.text, o.at>>}
       /\ silent' = (silent \/ (o.kind = "save" /\ ~o.force /\ ~disk[o.at][o.path].known))
    /\ UNCHANGED <<session, view, switching, reported, made, started, draft, raced>>

\* The time of the file is taken after it was replaced; the timeline entry
\* before it, and the manifest and the index after it, may fail.
StatSaved(s) ==
    /\ op[s].pc = "replaced"
    /\ \/ op' = [op EXCEPT ![s].pc = "saved", ![s].fresh = TRUE]
       \/ op' = [op EXCEPT ![s].pc = "failed"]
    /\ UNCHANGED <<session, disk, view, ed, switching, reported, made, started, history>>

\* A task writes a document.  A text that is written between the comparison of
\* a tab's save and the time that save takes of the file passes for known: the
\* save replaces it, or takes its time for that of the text it wrote.
BeingSaved(S, p) ==
    \E s \in Slots :
        op[s].kind = "save" /\ op[s].pc \in {"checked", "replaced"} /\ op[s].path = p /\ op[s].at = S

AgentWrites(S, p) ==
    /\ made < MaxTexts
    /\ made' = made + 1
    /\ Write(S, p, File(Text(made + 1, S), BeingSaved(S, p)))
    /\ op' = AgedOps(S, p)
    /\ reported' = IF S = view THEN reported \cup {p} ELSE reported
    /\ UNCHANGED <<session, view, switching, started, history>>

-----------------------------------------------------------------------------
(* The other operations that load and save.                                *)

\* syncChangedPaths, when a task is done: an open tab is loaded anew in the
\* background, and the path is shown if the task asks for it (`again`).
SyncChangedPaths(s, p, openFirst) ==
    /\ p \in reported /\ Begin(s)
    /\ reported' = reported \ {p}
    /\ op' = [op EXCEPT ![s] = [Begun("sync", p) EXCEPT !.pc = "refresh", !.again = openFirst]]
    /\ UNCHANGED <<session, disk, view, ed, switching, made, draft, brought, silent>>

SyncRefreshed(s) ==
    /\ op[s].kind = "sync" /\ op[s].pc = "refresh"
    /\ LET o == op[s]
           last == [o EXCEPT !.again = FALSE]
       IN  \/ /\ IsOpen(ed, o.path)
              /\ IF ed.tabs[o.path].dirty
                 THEN Open(s, ed, last, o.path, How(TRUE, FALSE, o.again \/ ed.active = o.path))
                 ELSE Open(s, ed, o, o.path, How(TRUE, FALSE, ed.active = o.path))
           \/ ~IsOpen(ed, o.path) /\ o.again /\ Open(s, ed, last, o.path, How(FALSE, FALSE, TRUE))
           \/ op' = [op EXCEPT ![s] = Idle] /\ UNCHANGED <<ed, switching>>
    /\ UNCHANGED <<session, disk, view, reported, made, started, history>>

\* What the tree has at least: it was loaded with the project, and a file is in
\* it before it is opened.
InTree(p) == p \in Files[view] \/ IsOpen(ed, p)

\* createProjectTreeFile: a path that the tree lacks is asked for first, and
\* then saved empty, with no base, whatever was written since.
CreateProjectTreeFile(s, p) ==
    /\ ~switching /\ ~InTree(p) /\ Begin(s)
    /\ op' = [op EXCEPT ![s] = [Begun("create", p) EXCEPT !.pc = "probe"]]
    /\ UNCHANGED <<session, disk, view, ed, switching, reported, made, draft, brought, silent>>

\* An error counts as "not there".
CreateProbed(s) ==
    /\ op[s].pc = "probe"
    /\ \/ /\ disk[session][op[s].path] # NoFile
          /\ op' = [op EXCEPT ![s] = Idle] /\ UNCHANGED switching
       \/ /\ op' = [op EXCEPT ![s].pc = "put", ![s].text = Empty]
          /\ switching' = TRUE
    /\ UNCHANGED <<session, disk, view, ed, reported, made, started, history>>

CreateAnswered(s) ==
    /\ op[s].kind = "create"
    /\ \/ /\ op[s].pc = "saved" /\ op' = [op EXCEPT ![s].pc = "refresh"]
          /\ UNCHANGED <<ed, switching>>
       \/ op[s].pc = "refresh" /\ Open(s, ed, op[s], op[s].path, How(TRUE, TRUE, TRUE))
       \/ /\ op[s].pc \in {"failed", "refresh"} /\ op' = [op EXCEPT ![s] = Idle]
          /\ switching' = FALSE /\ UNCHANGED ed
    /\ UNCHANGED <<session, disk, view, reported, made, started, history>>

\* performOpenProject, after the question whether unsaved drafts may be lost.
OpenProject(s, P) ==
    /\ ~switching /\ P # view /\ Begin(s)
    /\ switching' = TRUE
    /\ op' = [op EXCEPT ![s] = [Begun("switch", Starter) EXCEPT !.pc = "opening", !.at = P]]
    /\ UNCHANGED <<session, disk, view, ed, reported, made, draft, brought, silent>>

ServeOpenProject(s) ==
    /\ op[s].pc = "opening"
    /\ \/ session' = op[s].at /\ op' = [op EXCEPT ![s].pc = "opened"] /\ UNCHANGED switching
       \/ op' = [op EXCEPT ![s] = Idle] /\ switching' = FALSE /\ UNCHANGED session
    /\ UNCHANGED <<disk, view, ed, reported, made, started, history>>

\* clearProjectScopedState
Cleared(e) ==
    [NotBusy(e) EXCEPT !.tabs = [p \in Paths |-> NoTab], !.active = None, !.conflict = None]

FinalizeProjectSwitch(s) ==
    /\ op[s].pc = "opened"
    /\ view' = op[s].at /\ ed' = Cleared(ed)
    /\ reported' = {} /\ draft' = [p \in Paths |-> NoText]
    /\ op' = [op EXCEPT ![s].pc = "landing"]
    /\ UNCHANGED <<session, disk, switching, made, started, raced, brought, silent>>

\* A project that was opened shows a document; one that was created does not.
LandInProject(s) ==
    /\ op[s].pc = "landing"
    /\ \/ Open(s, ed, op[s], Starter, How(TRUE, TRUE, TRUE))
       \/ op' = [op EXCEPT ![s] = Idle] /\ switching' = FALSE /\ UNCHANGED ed
    /\ UNCHANGED <<session, disk, view, reported, made, started, history>>

-----------------------------------------------------------------------------
Next ==
    \/ \E s \in Slots :
         \/ \E p \in Paths :
              \/ OpenDocument(s, p) \/ CreateProjectTreeFile(s, p)
              \/ \E openFirst \in BOOLEAN : SyncChangedPaths(s, p, openFirst)
         \/ SaveActiveDocument(s) \/ SaveAllDocuments(s) \/ ConfirmSaveOverwrite(s)
         \/ \E P \in Projects : OpenProject(s, P)
         \/ LoadAnswered(s) \/ SaveAnswered(s) \/ SaveRefreshed(s) \/ SaveRefused(s)
         \/ SyncRefreshed(s) \/ CreateProbed(s) \/ CreateAnswered(s)
         \/ FinalizeProjectSwitch(s) \/ LandInProject(s)
         \/ ServeStat(s) \/ ServeRead(s) \/ CheckSave(s) \/ ReplaceFile(s) \/ StatSaved(s)
         \/ ServeOpenProject(s)
    \/ \E p \in Paths : Type(p) \/ \E S \in Projects : AgentWrites(S, p)

Spec == Init /\ [][Next]_vars

-----------------------------------------------------------------------------
(* Properties.                                                             *)

Texts == [n : 0..MaxTexts, of : Projects \cup {None}]
Tabs == [text : Texts, dirty : BOOLEAN, stale : BOOLEAN, at : Projects \cup {None}, fresh : BOOLEAN]
Editors == [tabs : [Paths -> Tabs], active : Paths \cup {None}, busy : BOOLEAN,
            latest : Slots \cup {None}, conflict : Paths \cup {None}, left : BOOLEAN]

\* The kinds of operations, and their steps.
Kinds == {None, "open", "save", "sync", "create", "switch"}
Loads == {"get", "stat", "got"}
Serves == {"put", "checked", "replaced", "saved"}
PCs == Loads \cup Serves \cup {None, "refresh", "conflict", "failed", "probe",
                               "opening", "opened", "landing"}

Operation == [kind : Kinds, pc : PCs, path : Paths \cup {None}, text : Texts,
              at : Projects \cup {None}, fresh : BOOLEAN, based : BOOLEAN, force : BOOLEAN,
              activate : BOOLEAN, back : Paths \cup {None}, rest : SUBSET Paths,
              again : BOOLEAN]

\* Every variable keeps its shape.
TypeOK ==
    /\ session \in Projects /\ view \in Projects
    /\ disk \in [Projects -> [Paths -> [text : Texts, known : BOOLEAN]]]
    /\ ed \in Editors
    /\ switching \in BOOLEAN /\ raced \in BOOLEAN /\ silent \in BOOLEAN
    /\ op \in [Slots -> Operation] /\ reported \subseteq Paths
    /\ made \in 1..MaxTexts /\ started \in 0..MaxOps
    /\ draft \in [Paths -> Texts]
    /\ brought \subseteq Texts \X Projects

\* A tab's save that the user did not confirm never replaces a text the editor
\* has not shown (docs/migration-programming-plan.md:312), although other saves
\* and loads of the tab are answered in any order and a project may be opened
\* meanwhile.  Two kinds of writes the code does lose, and the property leaves
\* out: a text written while a tab's save of the same file is between its
\* comparison and the time it takes of the file, and any text written to the
\* path of a new document after createProjectTreeFile looked for it (its save
\* has no base).
NoSilentOverwrite == ~silent

\* A text written for one project comes into a file of another only by a
\* confirmed save, or as a new file: the base of a save tells the projects
\* apart, in which requests are served that were sent before the switch.  Once
\* it was brought there it may be saved there again.
SavedWhereItBelongs ==
    \A S \in Projects, p \in Paths :
        LET file == disk[S][p] IN
        file # NoFile => file.text.of = S \/ <<file.text, S>> \in brought

\* What the user typed stays in its tab, marked as not saved, until it is
\* saved or given up, as long as operations do not overlap: the text area is
\* disabled while an answer can replace it, and what a task reports is loaded
\* over no draft, even if it was typed while the report was followed up.
DraftsAreKept ==
    ~raced => \A p \in Paths :
        draft[p] # NoText => ed.tabs[p].text = draft[p] /\ ed.tabs[p].dirty

\* The editor is busy just when it loads or saves, as long as operations do
\* not overlap, except after the user turned to another tab while a document
\* was loading.
Works(o) == o.pc \in {"get", "stat", "got"} \/ o.kind = "save"

BusyIsWork == ~raced => (ed.busy <=> ed.left \/ \E s \in Slots : Works(op[s]))

=============================================================================
