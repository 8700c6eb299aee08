------------------------ MODULE EditorDocumentsProofs ------------------------
(***************************************************************************)
(* The invariants of EditorDocuments, for any paths, projects, operations  *)
(* under way and bounds.  Where a text belongs, and that none is replaced  *)
(* unseen, holds whatever requests race; what is said of the drafts and of *)
(* `busy` is said of histories in which operations do not overlap.         *)
(***************************************************************************)
EXTENDS EditorDocuments, TLAPS

-----------------------------------------------------------------------------
(* The shape of an operation.                                              *)

\* Which steps an operation of each kind has.
StepsOfKind(o) ==
    /\ o.kind = None => o = Idle
    /\ o.kind # None => o.path \in Paths
    /\ o.kind = "open" => o.pc \in Loads
    /\ o.kind = "save" => o.pc \in Serves \cup {"refresh", "conflict", "failed"}
    /\ o.kind = "sync" => o.pc \in Loads \cup {"refresh"}
    /\ o.kind = "create" => o.pc \in Loads \cup Serves \cup {"probe", "refresh", "failed"}
    /\ o.kind = "switch" => o.pc \in Loads \cup {"opening", "opened", "landing"}

\* What an operation carries at each of them.
CarriesWhatItNeeds(o) ==
    /\ o.pc \in {"stat", "checked", "replaced", "saved", "opening", "opened"} => o.at \in Projects
    /\ o.pc = "got" /\ o.text # NoText => o.at \in Projects
    /\ o.pc \in Serves => o.text # NoText
    /\ o.pc \in {"get", "stat"} => o.text = NoText
    /\ o.pc = "probe" => ~o.based /\ ~o.fresh
    /\ o.pc = "put" => o.based = (o.kind = "save")

OpShape(o) == o \in Operation /\ StepsOfKind(o) /\ CarriesWhatItNeeds(o)

TabShape(t) ==
    /\ t.text = NoText => t = NoTab
    /\ t # NoTab => t.at \in Projects

TabsShape(e) == e \in Editors /\ \A p \in Paths : TabShape(e.tabs[p])

DiskShape ==
    /\ disk \in [Projects -> [Paths -> [text : Texts, known : BOOLEAN]]]
    /\ \A S \in Projects, p \in Paths : disk[S][p].text = NoText => disk[S][p] = NoFile

OpsShape == op \in [Slots -> Operation] /\ \A s \in Slots : OpShape(op[s])

RestShape ==
    /\ session \in Projects /\ view \in Projects
    /\ switching \in BOOLEAN /\ raced \in BOOLEAN /\ silent \in BOOLEAN
    /\ reported \subseteq Paths /\ made \in 1..MaxTexts /\ started \in 0..MaxOps
    /\ draft \in [Paths -> Texts] /\ brought \subseteq Texts \X Projects

Shape == RestShape /\ DiskShape /\ OpsShape /\ TabsShape(ed)

-----------------------------------------------------------------------------
(* Where a text belongs.                                                   *)

Of(text, S) == text # NoText => text.of = S \/ <<text, S>> \in brought

\* The text an operation read, or may save with a base, belongs where it read it.
CarriesOwn(o) ==
    \/ o.pc \in {"got", "replaced", "saved"}
    \/ o.pc = "put" /\ o.kind = "save"
    \/ o.pc = "checked" /\ o.based
    => Of(o.text, o.at)

Belongs ==
    /\ \A S \in Projects, p \in Paths : Of(disk[S][p].text, S)
    /\ \A p \in Paths : Of(ed.tabs[p].text, ed.tabs[p].at)
    /\ \A s \in Slots : CarriesOwn(op[s])

-----------------------------------------------------------------------------
(* What the editor has seen.                                               *)

\* Every file of path p that has this text is known.
KnownAs(text, p) == \A S \in Projects : disk[S][p].text = text => disk[S][p].known

\* Texts are numbered as they are written; an empty document is nobody's loss.
Numbered ==
    /\ \A S \in Projects, p \in Paths : /\ disk[S][p].text.n <= made
                                        /\ disk[S][p].text.n = 0 => disk[S][p].known
    /\ \A p \in Paths : ed.tabs[p].text.n <= made
    /\ \A s \in Slots : op[s].text.n <= made

\* Of two projects that have the same text, both were seen: one had it from the
\* other.
SharedIsKnown ==
    \A S, T \in Projects, p \in Paths :
        S # T /\ disk[S][p].text = disk[T][p].text => disk[S][p].known

\* A tab shows its text; the file it was read from is known while it is current.
TabIsKnown(p) ==
    LET t == ed.tabs[p] IN
    /\ KnownAs(t.text, p)
    /\ t.fresh => t.at \in Projects /\ disk[t.at][p].known

\* A load has the text of its file while that is current, and a file that has it
\* elsewhere is known.
LoadIsCurrent(o) ==
    o.pc = "got" /\ o.text # NoText =>
        /\ o.fresh => disk[o.at][o.path].text = o.text
        /\ \A S \in Projects \ {o.at} :
             disk[S][o.path].text = o.text => disk[S][o.path].known

\* A save sends a text that was seen, and once the save of a tab passed the
\* comparison the file it replaces stays known.
SaveIsKnown(o) ==
    /\ o.pc \in Serves => KnownAs(o.text, o.path)
    /\ o.kind = "save" =>
         /\ o.pc \in {"put", "saved"} /\ o.fresh => o.at \in Projects /\ disk[o.at][o.path].known
         /\ o.pc = "checked" /\ ~o.force => disk[o.at][o.path].known
         /\ o.pc = "replaced" => disk[o.at][o.path].known

Seen ==
    /\ Numbered /\ SharedIsKnown
    /\ \A p \in Paths : TabIsKnown(p)
    /\ \A s \in Slots : LoadIsCurrent(op[s]) /\ SaveIsKnown(op[s])

SeenInv == Shape /\ Belongs /\ Seen /\ NoSilentOverwrite

-----------------------------------------------------------------------------
(* Histories in which operations do not overlap.                           *)

Alone == ~raced => \A s, q \in Slots : ~Free(s) /\ ~Free(q) => s = q

BusyInv == Shape /\ Alone /\ BusyIsWork

\* The file an open tab shows is there, and its draft is in it.
TabIsKept(p) ==
    /\ IsOpen(ed, p) => disk[ed.tabs[p].at][p].text # NoText
    /\ draft[p] # NoText => ed.tabs[p].text = draft[p] /\ ed.tabs[p].dirty

\* Until a switch has opened another project, the tabs are of the open one.
TabsAreHere ==
    (\A s \in Slots : op[s].pc # "opened") =>
        \A p \in Paths : IsOpen(ed, p) => ed.tabs[p].at = session

\* What an operation has found is in the open project; a document that is created,
\* or shown when a project opens, has no tab, one that loads has no draft, and one
\* that is saved has the text of its draft.
Careful(o) ==
    /\ o.pc \in {"stat", "checked", "replaced", "saved"} => o.at = session
    /\ o.pc = "got" /\ o.text # NoText => o.at = session
    /\ \/ o.pc \in {"stat", "replaced", "saved"}
       \/ o.pc = "got" /\ o.text # NoText
       => disk[session][o.path].text # NoText
    /\ o.pc = "landing" => \A p \in Paths : ed.tabs[p] = NoTab
    /\ o.kind = "create" /\ o.pc \in Serves \cup {"probe", "refresh"} => ed.tabs[o.path] = NoTab
    /\ o.pc \in Loads => draft[o.path] = NoText
    /\ o.kind = "save" /\ o.pc \in Serves => draft[o.path] \in {NoText, o.text}

KeptInv ==
    ~raced => /\ \A p \in Paths : TabIsKept(p)
              /\ TabsAreHere
              /\ \A s \in Slots : Careful(op[s])

-----------------------------------------------------------------------------
(* Constants, and the values the definitions build.                        *)

LEMMA Names ==
    /\ None \notin Projects /\ None \notin Paths /\ None \notin Slots
    /\ First \in Projects /\ Starter \in Paths /\ Markdown \subseteq Paths
    /\ MaxTexts \in Nat /\ MaxTexts >= 1 /\ MaxOps \in Nat
    /\ \A P \in Projects : Files[P] \subseteq Paths
BY EditorAssumption DEF Projects

LEMMA TextsAre ==
    /\ NoText \in Texts /\ Text(1, None) # NoText
    /\ \A n \in 0..MaxTexts, P \in Projects \cup {None} : Text(n, P) \in Texts
    /\ \A n \in 0..MaxTexts, P \in Projects : Text(n, P) # NoText
    /\ \A n \in 1..MaxTexts, P \in Projects \cup {None} : Text(n, P) # NoText
BY Names DEF NoText, Text, Texts

LEMMA ValuesAre ==
    /\ NoTab \in Tabs /\ Idle \in Operation /\ Idle.kind = None
    /\ NoTab.text = NoText /\ NoTab.at = None /\ ~NoTab.fresh /\ ~NoTab.dirty
    /\ \A t \in Texts, P \in Projects \cup {None}, f \in BOOLEAN :
         /\ Tab(t, P, f) \in Tabs
         /\ t # NoText => Tab(t, P, f) # NoTab
    /\ \A k \in Kinds, p \in Paths :
         /\ Begun(k, p) \in Operation /\ Begun(k, p).kind = k /\ Begun(k, p).path = p
         /\ Begun(k, p).text = NoText /\ ~Begun(k, p).fresh
         /\ ~Begun(k, p).based
BY Names, TextsAre DEF NoTab, Tab, Tabs, Idle, Operation, Kinds, PCs, Begun, NoText, Text

\* An idle operation asks for nothing.
LEMMA IdleIs ==
    /\ OpShape(Idle) /\ Idle.pc = None /\ Idle.text = NoText /\ CarriesOwn(Idle)
    /\ LoadIsCurrent(Idle) /\ SaveIsKnown(Idle) /\ ~Works(Idle)
<1>1. Idle.pc = None /\ Idle.kind = None /\ Idle.text = NoText /\ Idle \in Operation
  BY ValuesAre DEF Idle
<1>2. None \notin {"get", "stat", "got", "put", "checked", "replaced", "saved", "opening",
                   "opened", "probe", "save", "open", "sync", "create", "switch"}
  BY DEF None
<1> QED
  BY <1>1, <1>2 DEF OpShape, StepsOfKind, CarriesWhatItNeeds, CarriesOwn, LoadIsCurrent,
                    SaveIsKnown, Works, Loads, Serves

-----------------------------------------------------------------------------
(* The tabs.                                                               *)

\* Both editors show the same texts, read at the same places.
Same(e2, e) ==
    \A p \in Paths :
        /\ e2.tabs[p].text = e.tabs[p].text /\ e2.tabs[p].dirty = e.tabs[p].dirty
        /\ e2.tabs[p].at = e.tabs[p].at /\ e2.tabs[p].fresh = e.tabs[p].fresh
        /\ e2.tabs[p] = NoTab <=> e.tabs[p] = NoTab

Hows == [force : BOOLEAN, discard : BOOLEAN, activate : BOOLEAN]

LEMMA HowIs ==
    ASSUME NEW f \in BOOLEAN, NEW d \in BOOLEAN, NEW a \in BOOLEAN
    PROVE  /\ How(f, d, a) \in Hows
           /\ How(f, d, a).force = f /\ How(f, d, a).discard = d /\ How(f, d, a).activate = a
BY DEF How, Hows

\* openDocument up to its request: what is unsaved is not loaded anew, but marked.
LEMMA OpenedIs ==
    ASSUME NEW e, TabsShape(e), NEW s \in Slots, NEW p \in Paths, NEW how \in Hows
    PROVE  LET next == Opened(e, s, p, how) IN
           /\ TabsShape(next.ed) /\ Same(next.ed, e) /\ next.ed.left = e.left
           /\ next.loads \in BOOLEAN
           /\ ~next.loads => next.ed.busy = e.busy
           /\ next.loads => /\ next.ed.busy /\ next.ed.tabs = e.tabs
                            /\ how.discard \/ ~e.tabs[p].dirty
                            /\ e.tabs[p] = NoTab \/ how.force
<1> USE Names, ValuesAre DEF TabsShape, Editors, Hows
<1>1. CASE IsOpen(e, p) /\ ~how.force
  BY <1>1 DEF Opened, Same
<1>2. CASE ~(IsOpen(e, p) /\ ~how.force) /\ e.tabs[p].dirty /\ ~how.discard
  <2> DEFINE e2 == [e EXCEPT !.tabs[p].stale = TRUE,
                             !.active = IF how.activate THEN p ELSE @]
             t2 == [e.tabs[p] EXCEPT !.stale = TRUE]
  <2>1. e.tabs[p] \in Tabs /\ e.tabs[p] # NoTab
    BY <1>2
  <2>2. t2 \in Tabs /\ t2 # NoTab /\ t2.text = e.tabs[p].text /\ t2.at = e.tabs[p].at
        /\ t2.dirty = e.tabs[p].dirty /\ t2.fresh = e.tabs[p].fresh
    BY <2>1, <1>2 DEF Tabs, NoTab, Tab
  <2>3. e2 \in Editors /\ e2.tabs = [e.tabs EXCEPT ![p] = t2] /\ e2.left = e.left
        /\ e2.busy = e.busy
    BY <2>2
  <2>4. TabShape(t2)
    BY <2>1, <2>2 DEF TabShape
  <2>5. Opened(e, s, p, how) = [ed |-> e2, loads |-> FALSE]
    BY <1>2 DEF Opened
  <2> HIDE DEF e2, t2
  <2> QED
    BY <2>1, <2>2, <2>3, <2>4, <2>5 DEF Same
<1>3. CASE ~(IsOpen(e, p) /\ ~how.force) /\ ~(e.tabs[p].dirty /\ ~how.discard)
  BY <1>3 DEF Opened, Same, IsOpen
<1> QED
  BY <1>1, <1>2, <1>3

-----------------------------------------------------------------------------
(* Requests.                                                               *)

\* Nothing is said of the text of an operation at any other step.
Light(o) == o.pc \notin Serves \cup {"got"}

LEMMA LightIs ==
    ASSUME NEW o, Light(o)
    PROVE  CarriesOwn(o) /\ LoadIsCurrent(o) /\ SaveIsKnown(o)
BY DEF Light, CarriesOwn, LoadIsCurrent, SaveIsKnown, Serves

\* The operation of s goes on as `new`.
Puts(s, new) == op' = [op EXCEPT ![s] = new] /\ OpShape(new)

LEMMA PutsIs ==
    ASSUME OpsShape, NEW s \in Slots, NEW new, Puts(s, new)
    PROVE  /\ OpsShape' /\ op'[s] = new
           /\ \A q \in Slots : q # s => op'[q] = op[q]
BY DEF Puts, OpsShape, OpShape, StepsOfKind, CarriesWhatItNeeds

LEMMA LoadingIs ==
    ASSUME NEW e, TabsShape(e), NEW o \in Operation, NEW p \in Paths, NEW how \in Hows,
           o.kind \in {"open", "sync", "create", "switch"}
    PROVE  LET new == Loading(e, o, p, how) IN
           /\ OpShape(new) /\ Light(new) /\ new.pc = "get" /\ new.kind = o.kind
           /\ new.path = p /\ new.text = NoText /\ ~new.fresh
<1> DEFINE new == Loading(e, o, p, how)
<1>1. e.active \in Paths \cup {None} /\ how.activate \in BOOLEAN
  BY DEF TabsShape, Editors, Hows
<1>2. new \in Operation
  BY <1>1, TextsAre DEF Loading, Operation, PCs, Loads
<1>3. /\ new.pc = "get" /\ new.kind = o.kind /\ new.path = p /\ new.text = NoText /\ ~new.fresh
      /\ new.at = None
  BY DEF Loading, Operation
<1> HIDE DEF new
<1>4. new.kind # None /\ new.kind # "save"
  BY <1>3 DEF None
<1>5. StepsOfKind(new)
  BY <1>3, <1>4 DEF StepsOfKind, Loads
<1>6. CarriesWhatItNeeds(new) /\ Light(new)
  BY <1>3 DEF CarriesWhatItNeeds, Light, Serves
<1> QED
  BY <1>2, <1>3, <1>5, <1>6 DEF OpShape, new

\* What opening a document does to the editor and to its operation: it loads, or
\* is over.
Goes(s, e, o, p, how, new) ==
    /\ Puts(s, new) /\ Light(new) /\ new.text = NoText
    /\ \/ new = Idle /\ ed'.busy = e.busy
       \/ /\ new.pc = "get" /\ new.kind = o.kind /\ new.path = p
          /\ ed'.busy /\ ed'.tabs = e.tabs
          /\ how.discard \/ ~e.tabs[p].dirty
          /\ e.tabs[p] = NoTab \/ how.force

LEMMA OpenIs ==
    ASSUME OpsShape, switching \in BOOLEAN, NEW e, TabsShape(e), NEW s \in Slots,
           NEW o \in Operation, o.kind \in {"open", "sync", "create", "switch"},
           NEW p \in Paths, NEW how \in Hows, Open(s, e, o, p, how)
    PROVE  /\ TabsShape(ed') /\ Same(ed', e) /\ ed'.left = e.left /\ switching' \in BOOLEAN
           /\ \E new : Goes(s, e, o, p, how, new)
<1> DEFINE next == Opened(e, s, p, how)
           new  == IF next.loads THEN Loading(e, o, p, how) ELSE Idle
<1>1. ed' = next.ed /\ op' = [op EXCEPT ![s] = new] /\ switching' \in BOOLEAN
  BY DEF Open
<1>2. /\ TabsShape(next.ed) /\ Same(next.ed, e) /\ next.ed.left = e.left
      /\ ~next.loads => next.ed.busy = e.busy
      /\ next.loads => /\ next.ed.busy /\ next.ed.tabs = e.tabs
                       /\ how.discard \/ ~e.tabs[p].dirty
                       /\ e.tabs[p] = NoTab \/ how.force
  BY OpenedIs
<1>3. CASE next.loads
  <2>1. new = Loading(e, o, p, how)
    BY <1>3
  <2>2. OpShape(new) /\ Light(new) /\ new.pc = "get" /\ new.kind = o.kind
        /\ new.path = p /\ new.text = NoText
    BY <2>1, LoadingIs
  <2> HIDE DEF next, new
  <2>3. Goes(s, e, o, p, how, new)
    BY <1>1, <1>2, <1>3, <2>2 DEF Goes, Puts
  <2> QED
    BY <1>1, <1>2, <2>3
<1>4. CASE ~next.loads
  <2>1. new = Idle
    BY <1>4
  <2>2. OpShape(Idle) /\ Idle.text = NoText /\ Light(Idle)
    BY IdleIs DEF Light, Serves, None
  <2> HIDE DEF next, new
  <2>3. Goes(s, e, o, p, how, new)
    BY <1>1, <1>2, <1>4, <2>1, <2>2 DEF Goes, Puts
  <2> QED
    BY <1>1, <1>2, <2>3
<1> QED
  BY <1>3, <1>4

\* What saving a tab does: its text is sent, or it is over.
Sends(s, e, p, new) ==
    /\ Puts(s, new)
    /\ \/ new = Idle /\ ed'.busy = e.busy
       \/ /\ new.kind = "save" /\ new.pc = "put" /\ new.path = p
          /\ new.text = e.tabs[p].text /\ new.at = e.tabs[p].at /\ new.fresh = e.tabs[p].fresh
          /\ IsOpen(e, p) /\ ed'.busy

LEMMA SaveIs ==
    ASSUME OpsShape, NEW e, TabsShape(e), NEW s \in Slots, NEW p \in Paths,
           NEW force \in BOOLEAN, NEW rest \in SUBSET Paths, Save(s, e, p, force, rest)
    PROVE  /\ TabsShape(ed') /\ ed'.tabs = e.tabs /\ ed'.left = e.left
           /\ \E new : Sends(s, e, p, new)
           /\ UNCHANGED <<session, disk, view, switching, reported, made, draft, brought, silent>>
<1> DEFINE new == Saving(e, p, force, rest)
<1>1. ed' = SaveBegun(e, p, force) /\ op' = [op EXCEPT ![s] = new]
      /\ UNCHANGED <<session, disk, view, switching, reported, made, draft, brought, silent>>
  BY DEF Save
<1>2. TabsShape(ed') /\ ed'.tabs = e.tabs /\ ed'.left = e.left
      /\ ed'.busy = (e.busy \/ Saves(e, p, force))
  BY <1>1 DEF SaveBegun, TabsShape, Editors
<1>3. CASE Saves(e, p, force)
  <2>1. e.tabs[p] \in Tabs /\ e.tabs[p] # NoTab /\ e.tabs[p].text # NoText
        /\ e.tabs[p].at \in Projects
    BY <1>3 DEF Saves, IsOpen, TabsShape, TabShape, Editors
  <2>b. Begun("save", p) \in Operation
    BY ValuesAre DEF Kinds
  <2>2. new \in Operation
    BY <1>3, <2>1, <2>b DEF Saving, Operation, PCs, Serves, Tabs
  <2>3. /\ new.kind = "save" /\ new.pc = "put" /\ new.path = p
        /\ new.text = e.tabs[p].text /\ new.at = e.tabs[p].at /\ new.fresh = e.tabs[p].fresh
        /\ new.based
    BY <1>3, ValuesAre DEF Saving, Begun, Idle
  <2>4. IsOpen(e, p)
    BY <1>3 DEF Saves
  <2> HIDE DEF new
  <2>5. OpShape(new)
    BY <2>1, <2>2, <2>3 DEF OpShape, StepsOfKind, CarriesWhatItNeeds, Loads, Serves, None
  <2>6. Sends(s, e, p, new)
    BY <1>1, <1>2, <1>3, <2>3, <2>4, <2>5 DEF Sends, Puts
  <2> QED
    BY <1>1, <1>2, <2>6
<1>4. CASE ~Saves(e, p, force)
  <2>1. new = Idle /\ OpShape(Idle)
    BY <1>4, IdleIs DEF Saving
  <2> HIDE DEF new
  <2>2. Sends(s, e, p, new)
    BY <1>1, <1>2, <1>4, <2>1 DEF Sends, Puts, TabsShape, Editors
  <2> QED
    BY <1>1, <1>2, <2>2
<1> QED
  BY <1>3, <1>4

-----------------------------------------------------------------------------
(* The steps that only move an operation on.                               *)

\* The fields of an operation that a request leaves alone.
Keeps(new, o) ==
    /\ new.kind = o.kind /\ new.path = o.path /\ new.force = o.force

LEMMA OpIs ==
    ASSUME OpsShape, NEW s \in Slots
    PROVE  /\ op[s] \in Operation /\ OpShape(op[s])
           /\ op[s].pc # None => op[s].kind # None /\ op[s].path \in Paths /\ ~Free(s)
           /\ op[s].kind = None => op[s] = Idle /\ op[s].pc = None
<1>1. op[s] \in Operation /\ OpShape(op[s])
  BY DEF OpsShape
<1>2. op[s].kind = None => op[s] = Idle /\ op[s].pc = None
  BY <1>1, IdleIs DEF OpShape, StepsOfKind
<1>3. op[s].kind # None => op[s].path \in Paths
  BY <1>1 DEF OpShape, StepsOfKind
<1> QED
  BY <1>1, <1>2, <1>3 DEF Free

\* The kind of an operation, from its step.
LEMMA KindOf ==
    ASSUME NEW o \in Operation, StepsOfKind(o)
    PROVE  /\ o.pc \in Loads => o.kind \in {"open", "sync", "create", "switch", None}
           /\ o.pc \in Serves => o.kind \in {"save", "create", None}
           /\ o.pc \in {"opening", "opened", "landing"} => o.kind \in {"switch", None}
           /\ o.pc = "probe" => o.kind \in {"create", None}
           /\ o.pc = "refresh" => o.kind \in {"save", "sync", "create", None}
           /\ o.pc = "conflict" => o.kind \in {"save", None}
           /\ o.pc = "failed" => o.kind \in {"save", "create", None}
BY DEF StepsOfKind, Operation, Kinds, Loads, Serves, Idle, None

LEMMA ServeStatIs ==
    ASSUME Shape, NEW s \in Slots, ServeStat(s)
    PROVE  \E new :
             /\ Puts(s, new) /\ Keeps(new, op[s]) /\ new.text = NoText
             /\ \/ new.pc = "stat" /\ new.at = session /\ disk[session][new.path] # NoFile
                \/ new.pc = "got"
<1> DEFINE o  == op[s]
           n1 == [o EXCEPT !.pc = "stat", !.at = session, !.fresh = TRUE]
           n2 == [o EXCEPT !.pc = "got"]
<1>1. op \in [Slots -> Operation] /\ o.pc = "get" /\ session \in Projects
  BY DEF Shape, OpsShape, RestShape, ServeStat
<1>2. o \in Operation /\ OpShape(o) /\ o.kind # None
  BY <1>1, OpIs DEF Shape, None
<1>3. \/ op' = [op EXCEPT ![s] = n1] /\ disk[session][o.path] # NoFile
      \/ op' = [op EXCEPT ![s] = n2]
  BY <1>1 DEF ServeStat
<1>4. OpShape(n1) /\ Keeps(n1, o) /\ n1.text = NoText /\ n1.pc = "stat" /\ n1.at = session
      /\ n1.path = o.path
  BY <1>1, <1>2 DEF OpShape, StepsOfKind, CarriesWhatItNeeds, Operation, PCs, Loads, Serves, Keeps,
                    None
<1>5. OpShape(n2) /\ Keeps(n2, o) /\ n2.text = NoText /\ n2.pc = "got"
  BY <1>1, <1>2 DEF OpShape, StepsOfKind, CarriesWhatItNeeds, Operation, PCs, Loads, Serves, Keeps,
                    None
<1> HIDE DEF n1, n2
<1> QED
  BY <1>3, <1>4, <1>5 DEF Puts

LEMMA ServeReadIs ==
    ASSUME Shape, NEW s \in Slots, ServeRead(s)
    PROVE  \E new :
             /\ Puts(s, new) /\ Keeps(new, op[s]) /\ new.pc = "got" /\ new.at = op[s].at
             /\ new.fresh = op[s].fresh /\ new.text = disk[new.at][new.path].text
             /\ new.at \in Projects /\ new.path \in Paths
<1> DEFINE o == op[s]
           t == disk[o.at][o.path].text
           n == [o EXCEPT !.pc = "got", !.text = t]
<1>1. op \in [Slots -> Operation] /\ o.pc = "stat" /\ op' = [op EXCEPT ![s] = n]
  BY DEF Shape, OpsShape, ServeRead
<1>2. o \in Operation /\ OpShape(o) /\ o.kind # None /\ o.path \in Paths
  BY <1>1, OpIs DEF Shape, None
<1>3. o.at \in Projects
  BY <1>1, <1>2 DEF OpShape, CarriesWhatItNeeds
<1>4. t \in Texts
  BY <1>2, <1>3 DEF Shape, DiskShape
<1> HIDE DEF t
<1>5. /\ OpShape(n) /\ Keeps(n, o) /\ n.pc = "got" /\ n.at = o.at /\ n.fresh = o.fresh
      /\ n.text = t /\ n.path = o.path
  BY <1>1, <1>2, <1>3, <1>4
     DEF OpShape, StepsOfKind, CarriesWhatItNeeds, Operation, PCs, Loads, Serves, Keeps, None
<1> HIDE DEF n
<1> QED
  BY <1>1, <1>2, <1>3, <1>5 DEF Puts, t

\* How a save passes the checks, or does not.
LEMMA CheckSaveIs ==
    ASSUME Shape, NEW s \in Slots, CheckSave(s)
    PROVE  LET o == op[s]
               file == disk[session][o.path]
           IN \E new :
                /\ Puts(s, new) /\ Keeps(new, o) /\ new.text = o.text /\ new.at = session
                /\ \/ new.pc = "saved" /\ file.text = o.text
                   \/ /\ new.pc = "checked"
                      /\ o.force \/ ~o.based \/ file = NoFile \/ (o.at = session /\ o.fresh)
                      /\ new.based = (o.based /\ ~o.force /\ file # NoFile)
                   \/ Light(new) /\ new.pc \in {"conflict", "failed"}
<1> DEFINE o    == op[s]
           file == disk[session][o.path]
           n(pc) == [o EXCEPT !.pc = pc, !.at = session, !.fresh = (pc = "saved")]
           b    == o.based /\ ~o.force /\ file # NoFile
           m    == [o EXCEPT !.pc = "checked", !.at = session, !.fresh = FALSE, !.based = b]
<1>1. op \in [Slots -> Operation] /\ o.pc = "put" /\ session \in Projects
  BY DEF Shape, OpsShape, RestShape, CheckSave
<1>2. o \in Operation /\ OpShape(o) /\ o.kind # None /\ o.path \in Paths
  BY <1>1, OpIs DEF Shape, None
<1>3. o.based = (o.kind = "save") /\ o.text # NoText /\ o.kind \in {"save", "create"}
  BY <1>1, <1>2 DEF OpShape, StepsOfKind, CarriesWhatItNeeds, Loads, Serves, Kinds, Operation
<1>4. \/ op' = [op EXCEPT ![s] = n("saved")] /\ file.text = o.text
      \/ /\ op' = [op EXCEPT ![s] = m]
         /\ o.force \/ ~o.based \/ file = NoFile \/ (o.at = session /\ o.fresh)
      \/ op' = [op EXCEPT ![s] = n("conflict")] /\ o.based
      \/ op' = [op EXCEPT ![s] = n("failed")]
  BY <1>1 DEF CheckSave, IsCurrent
<1>5. b \in BOOLEAN
  OBVIOUS
<1> HIDE DEF b, file
<1>6. OpShape(m) /\ Keeps(m, o) /\ m.text = o.text /\ m.at = session /\ m.pc = "checked"
      /\ m.based = b
  BY <1>1, <1>2, <1>3, <1>5
     DEF OpShape, StepsOfKind, CarriesWhatItNeeds, Operation, PCs, Loads, Serves, Keeps, None
<1>7. ASSUME NEW pc \in {"saved", "conflict", "failed"}, pc = "conflict" => o.based
      PROVE  OpShape(n(pc)) /\ Keeps(n(pc), o) /\ n(pc).text = o.text /\ n(pc).at = session
             /\ n(pc).pc = pc
  BY <1>1, <1>2, <1>3, <1>7
     DEF OpShape, StepsOfKind, CarriesWhatItNeeds, Operation, PCs, Loads, Serves, Keeps, None
<1> HIDE DEF n, m
<1>8. ASSUME NEW pc \in {"conflict", "failed"}, n(pc).pc = pc
      PROVE  Light(n(pc)) /\ n(pc).pc \in {"conflict", "failed"}
  BY <1>8 DEF Light, Serves
<1> QED
  BY <1>4, <1>6, <1>7, <1>8 DEF Puts, b, file

LEMMA StatSavedIs ==
    ASSUME Shape, NEW s \in Slots, StatSaved(s)
    PROVE  \E new :
             /\ Puts(s, new) /\ Keeps(new, op[s]) /\ new.text = op[s].text /\ new.at = op[s].at
             /\ new.pc = "saved" \/ new.pc = "failed"
<1> DEFINE o  == op[s]
           n1 == [o EXCEPT !.pc = "saved", !.fresh = TRUE]
           n2 == [o EXCEPT !.pc = "failed"]
<1>1. op \in [Slots -> Operation] /\ o.pc = "replaced"
      /\ (op' = [op EXCEPT ![s] = n1] \/ op' = [op EXCEPT ![s] = n2])
  BY DEF Shape, OpsShape, StatSaved
<1>2. o \in Operation /\ OpShape(o) /\ o.kind # None
  BY <1>1, OpIs DEF Shape, None
<1>4. OpShape(n1) /\ Keeps(n1, o) /\ n1.text = o.text /\ n1.pc = "saved" /\ n1.at = o.at
  BY <1>1, <1>2 DEF OpShape, StepsOfKind, CarriesWhatItNeeds, Operation, PCs, Loads, Serves, Keeps,
                    None
<1>5. OpShape(n2) /\ Keeps(n2, o) /\ n2.text = o.text /\ n2.pc = "failed" /\ n2.at = o.at
  BY <1>1, <1>2 DEF OpShape, StepsOfKind, CarriesWhatItNeeds, Operation, PCs, Loads, Serves, Keeps,
                    None
<1> HIDE DEF n1, n2
<1> QED
  BY <1>1, <1>4, <1>5 DEF Puts

LEMMA SyncBeginsIs ==
    ASSUME Shape, NEW s \in Slots, NEW p \in Paths, NEW again \in BOOLEAN,
           SyncChangedPaths(s, p, again)
    PROVE  \E new :
             /\ Puts(s, new) /\ Light(new) /\ new.kind = "sync" /\ new.pc = "refresh"
             /\ new.text = NoText
<1> DEFINE n == [Begun("sync", p) EXCEPT !.pc = "refresh", !.again = again]
<1>1. op' = [op EXCEPT ![s] = n]
  BY DEF SyncChangedPaths
<1>2. Begun("sync", p) \in Operation /\ Begun("sync", p).kind = "sync"
      /\ Begun("sync", p).path = p /\ Begun("sync", p).text = NoText
  BY ValuesAre DEF Kinds
<1>3. n \in Operation /\ n.kind = "sync" /\ n.pc = "refresh" /\ n.text = NoText /\ n.path = p
  BY <1>2 DEF Operation, PCs
<1>4. OpShape(n) /\ Light(n)
  BY <1>3 DEF OpShape, StepsOfKind, CarriesWhatItNeeds, Loads, Serves, Light, None
<1> HIDE DEF n
<1> QED
  BY <1>1, <1>3, <1>4 DEF Puts

LEMMA CreateBeginsIs ==
    ASSUME Shape, NEW s \in Slots, NEW p \in Paths, CreateProjectTreeFile(s, p)
    PROVE  \E new :
             /\ Puts(s, new) /\ Light(new) /\ new.kind = "create" /\ new.pc = "probe"
             /\ new.text = NoText /\ new.path = p /\ ed.tabs[p] = NoTab
<1> DEFINE n == [Begun("create", p) EXCEPT !.pc = "probe"]
<1>1. op' = [op EXCEPT ![s] = n] /\ ed.tabs[p] = NoTab
  BY DEF CreateProjectTreeFile, InTree, IsOpen
<1>2. /\ Begun("create", p) \in Operation /\ Begun("create", p).kind = "create"
      /\ Begun("create", p).path = p /\ Begun("create", p).text = NoText
      /\ ~Begun("create", p).based /\ ~Begun("create", p).fresh
  BY ValuesAre DEF Kinds
<1>3. /\ OpShape(n) /\ Light(n) /\ n.kind = "create" /\ n.pc = "probe" /\ n.text = NoText
      /\ n.path = p
  BY <1>2 DEF OpShape, StepsOfKind, CarriesWhatItNeeds, Operation, PCs, Loads, Serves, Light, None
<1> HIDE DEF n
<1> QED
  BY <1>1, <1>3 DEF Puts

LEMMA CreateProbedIs ==
    ASSUME Shape, NEW s \in Slots, CreateProbed(s)
    PROVE  \E new :
             /\ Puts(s, new)
             /\ \/ new = Idle
                \/ /\ Keeps(new, op[s])
                   /\ new.kind = "create" /\ new.pc = "put" /\ new.path = op[s].path
                   /\ new.text = Empty /\ op[s].kind = "create"
<1> DEFINE o == op[s]
           n == [o EXCEPT !.pc = "put", !.text = Empty]
<1>1. /\ op \in [Slots -> Operation] /\ o.pc = "probe" /\ session \in Projects /\ view \in Projects
      /\ \/ op' = [op EXCEPT ![s] = Idle]
         \/ op' = [op EXCEPT ![s] = n]
  BY DEF Shape, OpsShape, RestShape, CreateProbed
<1>2. o \in Operation /\ OpShape(o) /\ o.kind # None
  BY <1>1, OpIs DEF Shape, None
<1>3. o.kind = "create" /\ ~o.based /\ ~o.fresh
  BY <1>1, <1>2, KindOf DEF OpShape, CarriesWhatItNeeds
<1>4. Empty \in Texts /\ Empty # NoText
  BY <1>1, TextsAre, Names DEF Empty
<1> HIDE DEF Empty
<1>5. /\ OpShape(n) /\ n.kind = "create" /\ n.pc = "put" /\ n.path = o.path /\ n.text = Empty
      /\ Keeps(n, o)
  BY <1>1, <1>2, <1>3, <1>4 DEF OpShape, StepsOfKind, CarriesWhatItNeeds, Operation, PCs, Loads,
                                Serves, Keeps, None
<1> HIDE DEF n
<1> QED
  BY <1>1, <1>3, <1>5, IdleIs DEF Puts

LEMMA SwitchBeginsIs ==
    ASSUME Shape, NEW s \in Slots, NEW P \in Projects, OpenProject(s, P)
    PROVE  \E new :
             /\ Puts(s, new) /\ Light(new) /\ new.kind = "switch" /\ new.pc = "opening"
             /\ new.text = NoText
<1> DEFINE n == [Begun("switch", Starter) EXCEPT !.pc = "opening", !.at = P]
<1>1. op' = [op EXCEPT ![s] = n]
  BY DEF OpenProject
<1>2. /\ Begun("switch", Starter) \in Operation /\ Begun("switch", Starter).kind = "switch"
      /\ Begun("switch", Starter).path = Starter /\ Begun("switch", Starter).text = NoText
  BY ValuesAre, Names DEF Kinds
<1>3. OpShape(n) /\ Light(n) /\ n.kind = "switch" /\ n.pc = "opening" /\ n.text = NoText
  BY <1>2, Names DEF OpShape, StepsOfKind, CarriesWhatItNeeds, Operation, PCs, Loads, Serves, Light,
                     None
<1> HIDE DEF n
<1> QED
  BY <1>1, <1>3 DEF Puts

\* The steps that leave an operation its fields, at a step where nothing is said
\* of its text.
LEMMA LightStep ==
    ASSUME Shape, NEW s \in Slots, op[s].pc # None,
           NEW pc \in {"opened", "landing", "refresh"}, op' = [op EXCEPT ![s].pc = pc],
           \/ op[s].pc = "opening" /\ pc = "opened"
           \/ op[s].pc = "opened" /\ pc = "landing"
           \/ op[s].pc = "saved" /\ pc = "refresh"
    PROVE  \E new : /\ Puts(s, new) /\ Light(new) /\ Keeps(new, op[s]) /\ new.pc = pc
                    /\ new.text = op[s].text
<1> DEFINE o == op[s]
           n == [o EXCEPT !.pc = pc]
<1>1. op \in [Slots -> Operation] /\ op' = [op EXCEPT ![s] = n]
  BY DEF Shape, OpsShape
<1>2. o \in Operation /\ OpShape(o) /\ o.kind # None
  BY OpIs DEF Shape
<1>3. OpShape(n) /\ Light(n) /\ Keeps(n, o) /\ n.text = o.text /\ n.pc = pc
  BY <1>2, KindOf DEF OpShape, StepsOfKind, CarriesWhatItNeeds, Operation, PCs, Loads, Serves,
                      Light, Keeps, None
<1> HIDE DEF n
<1> QED
  BY <1>1, <1>3 DEF Puts

-----------------------------------------------------------------------------
(* The steps that change what the tabs show.                               *)

\* Where an answer is put into its tab.
LEMMA LoadedIs ==
    ASSUME Shape, NEW s \in Slots, op[s].pc = "got"
    PROVE  LET o == op[s]
               e == Loaded(ed, s, o)
           IN /\ TabsShape(e)
              /\ Shows(ed, s, o) =>
                   /\ o.at \in Projects /\ o.path \in Paths /\ o.text # NoText
                   /\ e.tabs = [ed.tabs EXCEPT ![o.path] = Tab(o.text, o.at, o.fresh)]
                   /\ ~e.busy /\ ~e.left
              /\ ~Shows(ed, s, o) =>
                   /\ e.tabs = ed.tabs
                   /\ (e.busy = ed.busy /\ e.left = ed.busy) \/ (~e.busy /\ ~e.left)
<1> DEFINE o == op[s]
           t == Tab(o.text, o.at, o.fresh)
<1>1. o \in Operation /\ o.path \in Paths /\ (o.text # NoText => o.at \in Projects)
  BY OpIs DEF Shape, OpShape, CarriesWhatItNeeds, None
<1>2. TabsShape(ed)
  BY DEF Shape
<1>3. t \in Tabs /\ (o.text # NoText => t # NoTab /\ t.at \in Projects /\ TabShape(t))
  <2>1. t.text = o.text /\ t.at = o.at
    BY DEF Tab
  <2>2. o.text \in Texts /\ o.at \in Projects \cup {None} /\ o.fresh \in BOOLEAN
    BY <1>1 DEF Operation
  <2> QED
    BY <1>1, <2>1, <2>2, ValuesAre DEF TabShape
<1>4. CASE Shows(ed, s, o)
  <2>1. o.text # NoText /\ ~(o.activate /\ ed.latest # s)
    BY <1>4 DEF Shows
  <2> DEFINE e == NotBusy([ed EXCEPT !.tabs[o.path] = t,
                                     !.active = IF o.activate THEN o.path ELSE @,
                                     !.latest = IF o.activate THEN None ELSE @])
  <2>2. Loaded(ed, s, o) = e
    BY <2>1 DEF Loaded
  <2> HIDE DEF t
  <2>3. /\ e \in Editors /\ e.tabs = [ed.tabs EXCEPT ![o.path] = t] /\ ~e.busy /\ ~e.left
    BY <1>1, <1>2, <1>3 DEF NotBusy, TabsShape, Editors
  <2> HIDE DEF e
  <2>4. TabsShape(e)
    BY <1>1, <1>2, <1>3, <2>1, <2>3 DEF TabsShape, Editors
  <2> QED
    BY <1>1, <1>4, <2>1, <2>2, <2>3, <2>4 DEF t
<1>5. CASE ~Shows(ed, s, o)
  <2>1. o.back \in Paths \cup {None}
    BY <1>1 DEF Operation
  <2>2. LET e == Loaded(ed, s, o) IN
        /\ e \in Editors /\ e.tabs = ed.tabs
        /\ (e.busy = ed.busy /\ e.left = ed.busy) \/ (~e.busy /\ ~e.left)
    BY <1>1, <1>2, <1>5, <2>1 DEF Loaded, Shows, NotBusy, TabsShape, Editors
  <2> QED
    BY <1>2, <1>5, <2>2 DEF TabsShape
<1> QED
  BY <1>4, <1>5

\* The answer of a load: the tab, and whether the path is to be shown as well.
LEMMA LoadAnsweredIs ==
    ASSUME Shape, NEW s \in Slots, LoadAnswered(s)
    PROVE  LET o == op[s]
               e == Loaded(ed, s, o)
           IN /\ o.pc = "got" /\ o.path \in Paths /\ TabsShape(e) /\ TabsShape(ed') /\ Same(ed', e)
              /\ ed'.left = e.left /\ switching' \in BOOLEAN
              /\ disk' = IF Shows(ed, s, o) /\ disk[o.at][o.path].text = o.text
                         THEN [disk EXCEPT ![o.at][o.path].known = TRUE] ELSE disk
              /\ \E new, o2 :
                   \/ Goes(s, e, o2, o.path, How(TRUE, FALSE, TRUE), new) /\ o2.kind = o.kind
                   \/ Puts(s, new) /\ new = Idle /\ ed' = e
<1> DEFINE o == op[s]
           e == Loaded(ed, s, o)
           o2 == [o EXCEPT !.again = FALSE]
<1>1. o.pc = "got" /\ op \in [Slots -> Operation] /\ switching \in BOOLEAN /\ OpsShape
  BY DEF LoadAnswered, Shape, OpsShape, RestShape
<1>2. o \in Operation /\ o.path \in Paths /\ OpShape(o)
  BY <1>1, OpIs DEF None
<1>3. TabsShape(e)
  BY <1>1, LoadedIs
<1>4. disk' = IF Shows(ed, s, o) /\ disk[o.at][o.path].text = o.text
              THEN [disk EXCEPT ![o.at][o.path].known = TRUE] ELSE disk
  BY DEF LoadAnswered
<1>5. \/ o.again /\ Open(s, e, o2, o.path, How(TRUE, FALSE, TRUE))
      \/ ed' = e /\ op' = [op EXCEPT ![s] = Idle] /\ switching' \in BOOLEAN
  BY <1>1 DEF LoadAnswered
<1>6. o2 \in Operation /\ o2.kind = o.kind /\ o.kind \in {"open", "sync", "create", "switch"}
  BY <1>1, <1>2, KindOf, OpIs DEF Operation, OpShape, Loads, None
<1> HIDE DEF e, o2
<1>7. CASE o.again /\ Open(s, e, o2, o.path, How(TRUE, FALSE, TRUE))
  <2>1. How(TRUE, FALSE, TRUE) \in Hows
    BY HowIs
  <2>2. /\ TabsShape(ed') /\ Same(ed', e) /\ ed'.left = e.left /\ switching' \in BOOLEAN
        /\ \E new : Goes(s, e, o2, o.path, How(TRUE, FALSE, TRUE), new)
    BY <1>1, <1>2, <1>3, <1>6, <1>7, <2>1, OpenIs
  <2> QED
    BY <1>1, <1>2, <1>3, <1>4, <1>6, <2>2 DEF e
<1>8. CASE ed' = e /\ op' = [op EXCEPT ![s] = Idle] /\ switching' \in BOOLEAN
  <2>1. Same(ed', e) /\ Puts(s, Idle)
    BY <1>8, IdleIs DEF Same, Puts
  <2> QED
    BY <1>1, <1>2, <1>3, <1>4, <1>8, <2>1 DEF e
<1> QED
  BY <1>5, <1>7, <1>8

LEMMA SaveAnsweredIs ==
    ASSUME Shape, NEW s \in Slots, SaveAnswered(s)
    PROVE  LET o == op[s] IN
           /\ o.kind = "save" /\ o.pc = "saved" /\ o.path \in Paths /\ TabsShape(ed')
           /\ o.text # NoText /\ o.at \in Projects /\ o.fresh \in BOOLEAN
           /\ ed'.busy = ed.busy /\ ed'.left = ed.left
           /\ ed'.tabs = [ed.tabs EXCEPT ![o.path] =
                            IF IsOpen(ed, o.path) THEN Tab(o.text, o.at, o.fresh) ELSE NoTab]
           /\ \E new : /\ Puts(s, new) /\ Light(new) /\ Keeps(new, o) /\ new.pc = "refresh"
                       /\ new.text = o.text
<1> DEFINE o == op[s]
           t == IF IsOpen(ed, o.path) THEN Tab(o.text, o.at, o.fresh) ELSE NoTab
<1>1. o.kind = "save" /\ o.pc = "saved" /\ ed' = Applied(ed, o)
      /\ op' = [op EXCEPT ![s].pc = "refresh"]
  BY DEF SaveAnswered
<1>2. o \in Operation /\ o.path \in Paths /\ o.at \in Projects /\ o.text # NoText
  BY <1>1, OpIs DEF Shape, OpShape, CarriesWhatItNeeds, Serves, None
<1>3. t \in Tabs /\ TabShape(t)
  BY <1>2, ValuesAre DEF TabShape, Tab, Operation
<1>4. ed \in Editors /\ \A p \in Paths : TabShape(ed.tabs[p])
  BY DEF Shape, TabsShape
<1>5. ed' = [ed EXCEPT !.tabs[o.path] = t, !.conflict = IF @ = o.path THEN None ELSE @]
  BY <1>1 DEF Applied
<1> HIDE DEF t
<1>6. /\ ed' \in Editors /\ ed'.tabs = [ed.tabs EXCEPT ![o.path] = t]
      /\ ed'.busy = ed.busy /\ ed'.left = ed.left
  BY <1>2, <1>3, <1>4, <1>5 DEF Editors
<1>7. TabsShape(ed')
  BY <1>2, <1>3, <1>4, <1>6 DEF TabsShape, Editors
<1>8. \E new : /\ Puts(s, new) /\ Light(new) /\ Keeps(new, o) /\ new.pc = "refresh"
               /\ new.text = o.text
  BY <1>1, LightStep, OpIs DEF None
<1> QED
  BY <1>1, <1>2, <1>6, <1>7, <1>8 DEF t, Operation

LEMMA SaveRefusedIs ==
    ASSUME Shape, NEW s \in Slots, SaveRefused(s)
    PROVE  /\ op[s].kind = "save" /\ op[s].pc \in {"conflict", "failed"}
           /\ TabsShape(ed') /\ Same(ed', ed) /\ ~ed'.busy /\ ~ed'.left /\ Puts(s, Idle)
<1> DEFINE o == op[s]
           f == IsOpen(ed, o.path)
           t == [ed.tabs[o.path] EXCEPT !.stale = f]
<1>1. /\ o.kind = "save" /\ o.pc \in {"conflict", "failed"} /\ op' = [op EXCEPT ![s] = Idle]
      /\ ed' = NotBusy(IF o.pc = "failed" THEN ed
                       ELSE [ed EXCEPT !.conflict = o.path, !.tabs[o.path].stale = f])
  BY DEF SaveRefused
<1>2. o.path \in Paths
  BY <1>1, OpIs DEF Shape, None
<1>3. ed \in Editors /\ \A p \in Paths : TabShape(ed.tabs[p])
  BY DEF Shape, TabsShape
<1>4. CASE o.pc = "failed"
  BY <1>1, <1>3, <1>4, IdleIs DEF NotBusy, TabsShape, Editors, Same, Puts
<1>5. CASE o.pc # "failed"
  <2>1. f \in BOOLEAN /\ ed.tabs[o.path] \in Tabs /\ (f <=> ed.tabs[o.path] # NoTab)
    BY <1>2, <1>3 DEF IsOpen, Editors
  <2> HIDE DEF f
  <2>2. /\ t \in Tabs /\ t.text = ed.tabs[o.path].text /\ t.at = ed.tabs[o.path].at
        /\ t.dirty = ed.tabs[o.path].dirty /\ t.fresh = ed.tabs[o.path].fresh
    BY <2>1 DEF Tabs
  <2>3. t = NoTab <=> ed.tabs[o.path] = NoTab
    <3>1. CASE f
      BY <3>1, <2>1 DEF NoTab, Tab, Tabs
    <3>2. CASE ~f
      <4>1. f = FALSE /\ ed.tabs[o.path] = NoTab
        BY <3>2, <2>1
      <4>2. t = [NoTab EXCEPT !.stale = NoTab.stale]
        BY <4>1 DEF NoTab, Tab
      <4>3. NoTab \in Tabs
        BY ValuesAre
      <4> QED
        BY <4>1, <4>2, <4>3 DEF Tabs
    <3> QED
      BY <3>1, <3>2, <2>1
  <2>4. TabShape(t)
    BY <1>2, <1>3, <2>2, <2>3, ValuesAre DEF TabShape
  <2>5. ed' = [ed EXCEPT !.conflict = o.path, !.tabs[o.path].stale = f, !.busy = FALSE,
                         !.left = FALSE]
    BY <1>1, <1>5, <1>2, <1>3 DEF NotBusy, Editors
  <2>6. ed' \in Editors /\ ed'.tabs = [ed.tabs EXCEPT ![o.path] = t] /\ ~ed'.busy /\ ~ed'.left
    BY <1>2, <1>3, <2>2, <2>5 DEF Editors
  <2> HIDE DEF t
  <2> QED
    BY <1>1, <1>2, <1>3, <2>2, <2>3, <2>4, <2>6, IdleIs DEF TabsShape, Same, Puts, Editors
<1> QED
  BY <1>4, <1>5

LEMMA TypeIs ==
    ASSUME Shape, NEW p \in Paths, Type(p)
    PROVE  LET text == Text(made + 1, ed.tabs[p].at) IN
           /\ IsOpen(ed, p) /\ ed.tabs[p].at \in Projects
           /\ text \in Texts /\ text # NoText /\ text.n = made + 1 /\ text.of = ed.tabs[p].at
           /\ made' = made + 1 /\ made' \in 1..MaxTexts
           /\ draft' = [draft EXCEPT ![p] = text] /\ draft' \in [Paths -> Texts]
           /\ TabsShape(ed') /\ ed'.busy = ed.busy /\ ed'.left = ed.left
           /\ IsOpen(ed', p) /\ ed'.tabs[p].text = text /\ ed'.tabs[p].dirty
           /\ ed'.tabs[p].at = ed.tabs[p].at /\ ed'.tabs[p].fresh = ed.tabs[p].fresh
           /\ \A q \in Paths : q # p => ed'.tabs[q] = ed.tabs[q]
<1> DEFINE text == Text(made + 1, ed.tabs[p].at)
           t == [ed.tabs[p] EXCEPT !.text = text, !.dirty = TRUE]
<1>1. ed \in Editors /\ (\A q \in Paths : TabShape(ed.tabs[q])) /\ made \in 1..MaxTexts
      /\ draft \in [Paths -> Texts]
  BY DEF Shape, TabsShape, RestShape
<1>2. /\ made < MaxTexts /\ IsOpen(ed, p) /\ made' = made + 1
      /\ draft' = [draft EXCEPT ![p] = text]
      /\ ed' = [ed EXCEPT !.tabs[p].text = text, !.tabs[p].dirty = TRUE]
  BY DEF Type
<1>3. ed.tabs[p] \in Tabs /\ ed.tabs[p] # NoTab /\ ed.tabs[p].at \in Projects
  BY <1>1, <1>2 DEF IsOpen, TabShape, Editors
<1>4. made' \in 1..MaxTexts /\ made + 1 \in 1..MaxTexts /\ made + 1 \in 0..MaxTexts
  BY <1>1, <1>2, Names
<1>5. text \in Texts /\ text # NoText /\ text.n = made + 1 /\ text.of = ed.tabs[p].at
  <2>1. text \in Texts /\ text # NoText
    BY <1>3, <1>4, TextsAre
  <2> QED
    BY <2>1 DEF Text
<1> HIDE DEF text
<1>6. /\ t \in Tabs /\ t # NoTab /\ t.text = text /\ t.dirty /\ t.at = ed.tabs[p].at
      /\ t.fresh = ed.tabs[p].fresh
  BY <1>3, <1>5 DEF Tabs, NoTab, Tab
<1>7. /\ ed' \in Editors /\ ed'.tabs = [ed.tabs EXCEPT ![p] = t]
      /\ ed'.busy = ed.busy /\ ed'.left = ed.left
  BY <1>1, <1>2, <1>6 DEF Editors
<1>8. TabShape(t)
  BY <1>3, <1>5, <1>6 DEF TabShape
<1> HIDE DEF t
<1>9. TabsShape(ed')
  BY <1>1, <1>7, <1>8 DEF TabsShape, Editors
<1>10. draft' \in [Paths -> Texts]
  BY <1>1, <1>2, <1>5
<1>11. /\ IsOpen(ed', p) /\ ed'.tabs[p].text = text /\ ed'.tabs[p].dirty
       /\ ed'.tabs[p].at = ed.tabs[p].at /\ ed'.tabs[p].fresh = ed.tabs[p].fresh
       /\ \A q \in Paths : q # p => ed'.tabs[q] = ed.tabs[q]
  <2>1. ed'.tabs[p] = t /\ \A q \in Paths : q # p => ed'.tabs[q] = ed.tabs[q]
    BY <1>1, <1>7 DEF Editors
  <2> QED
    BY <1>6, <2>1 DEF IsOpen
<1> QED
  BY <1>2, <1>3, <1>4, <1>5, <1>7, <1>9, <1>10, <1>11 DEF text

\* A write of a file: what was read of it before is out of date.
Wrote(S, p, file) ==
    /\ DiskShape' /\ disk'[S][p] = file
    /\ \A T \in Projects, q \in Paths : T # S \/ q # p => disk'[T][q] = disk[T][q]
    /\ TabsShape(ed') /\ ed'.busy = ed.busy /\ ed'.left = ed.left
    /\ \A q \in Paths :
         /\ ed'.tabs[q].text = ed.tabs[q].text /\ ed'.tabs[q].dirty = ed.tabs[q].dirty
         /\ ed'.tabs[q].at = ed.tabs[q].at
         /\ ed'.tabs[q] = NoTab <=> ed.tabs[q] = NoTab
         /\ ed'.tabs[q].fresh => ed.tabs[q].fresh /\ ~(q = p /\ ed.tabs[q].at = S)

LEMMA WriteIs ==
    ASSUME Shape, NEW S \in Projects, NEW p \in Paths, NEW text \in Texts, text # NoText,
           NEW known \in BOOLEAN, Write(S, p, File(text, known))
    PROVE  Wrote(S, p, File(text, known))
<1> DEFINE file == File(text, known)
           tab(q) == Age(ed.tabs[q], q = p, S)
<1>1. /\ disk' = [disk EXCEPT ![S][p] = file]
      /\ ed' = [ed EXCEPT !.tabs = [q \in Paths |-> Age(@[q], q = p, S)]]
  BY DEF Write
<1>2. disk \in [Projects -> [Paths -> [text : Texts, known : BOOLEAN]]]
      /\ \A T \in Projects, q \in Paths : disk[T][q].text = NoText => disk[T][q] = NoFile
  BY DEF Shape, DiskShape
<1>3. file \in [text : Texts, known : BOOLEAN] /\ file.text # NoText
  BY DEF File
<1> HIDE DEF file
<1>4. disk' \in [Projects -> [Paths -> [text : Texts, known : BOOLEAN]]]
      /\ disk'[S][p] = file
      /\ \A T \in Projects, q \in Paths : T # S \/ q # p => disk'[T][q] = disk[T][q]
  BY <1>1, <1>2, <1>3
<1>5. DiskShape'
  <2> SUFFICES ASSUME NEW T \in Projects, NEW q \in Paths, disk'[T][q].text = NoText
               PROVE  disk'[T][q] = NoFile
    BY <1>4 DEF DiskShape, NoFile
  <2> QED
    BY <1>2, <1>3, <1>4
<1>6. ed \in Editors /\ \A q \in Paths : TabShape(ed.tabs[q]) /\ ed.tabs[q] \in Tabs
  BY DEF Shape, TabsShape, Editors
<1>7. ASSUME NEW q \in Paths
      PROVE  /\ tab(q) \in Tabs /\ TabShape(tab(q)) /\ tab(q).text = ed.tabs[q].text
             /\ tab(q).dirty = ed.tabs[q].dirty /\ tab(q).at = ed.tabs[q].at
             /\ tab(q) = NoTab <=> ed.tabs[q] = NoTab
             /\ tab(q).fresh => ed.tabs[q].fresh /\ ~(q = p /\ ed.tabs[q].at = S)
  <2>1. CASE q = p /\ ed.tabs[q].at = S
    <3> DEFINE t == [ed.tabs[q] EXCEPT !.fresh = FALSE]
    <3>1. tab(q) = t
      BY <2>1 DEF Age
    <3>2. /\ t \in Tabs /\ t.text = ed.tabs[q].text /\ t.dirty = ed.tabs[q].dirty
          /\ t.at = ed.tabs[q].at /\ ~t.fresh
      BY <1>6 DEF Tabs
    <3> HIDE DEF t, tab
    <3>a. NoTab.at # S
      BY ValuesAre, Names
    <3>3. t # NoTab /\ ed.tabs[q] # NoTab
      BY <2>1, <3>2, <3>a
    <3> QED
      BY <1>6, <2>1, <3>1, <3>2, <3>3 DEF TabShape
  <2>2. CASE ~(q = p /\ ed.tabs[q].at = S)
    <3>1. tab(q) = ed.tabs[q]
      BY <2>2 DEF Age
    <3> HIDE DEF tab
    <3> QED
      BY <1>6, <2>2, <3>1
  <2> QED
    BY <2>1, <2>2
<1>8. /\ ed' \in Editors /\ ed'.tabs = [q \in Paths |-> tab(q)]
      /\ ed'.busy = ed.busy /\ ed'.left = ed.left
  <2> HIDE DEF tab
  <2>1. ed' = [ed EXCEPT !.tabs = [q \in Paths |-> tab(q)]]
    BY <1>1, <1>6 DEF tab, Editors
  <2> QED
    BY <1>6, <1>7, <2>1 DEF Editors
<1> HIDE DEF tab
<1>9. TabsShape(ed')
  BY <1>7, <1>8 DEF TabsShape
<1> QED
  BY <1>4, <1>5, <1>7, <1>8, <1>9 DEF Wrote, file

\* ... and so is what an operation has read.
LEMMA AgedIs ==
    ASSUME Shape, NEW S \in Projects, NEW p \in Paths, NEW s \in Slots
    PROVE  LET n == AgedOps(S, p)[s]
               o == op[s]
           IN /\ OpShape(n) /\ Keeps(n, o) /\ n.pc = o.pc /\ n.text = o.text /\ n.at = o.at
              /\ n.based = o.based /\ n.again = o.again
              /\ n.fresh => o.fresh /\ ~(o.path = p /\ o.at = S)
              /\ n = Idle <=> o = Idle
<1> DEFINE o == op[s]
           n == [o EXCEPT !.fresh = FALSE]
<1>1. o \in Operation /\ OpShape(o) /\ AgedOps(S, p)[s] = Age(o, o.path = p, S)
  BY OpIs DEF Shape, AgedOps
<1>2. CASE o.path = p /\ o.at = S
  <2>1. AgedOps(S, p)[s] = n
    BY <1>1, <1>2 DEF Age
  <2>2. /\ n \in Operation /\ Keeps(n, o) /\ n.pc = o.pc /\ n.text = o.text /\ n.at = o.at
        /\ n.based = o.based /\ n.again = o.again /\ ~n.fresh
    BY <1>1 DEF Operation, Keeps
  <2>3. o # Idle /\ n # Idle
    BY <1>2, <2>2, Names DEF Idle
  <2>4. o.kind # None
    BY <1>1, <2>3 DEF OpShape, StepsOfKind
  <2> HIDE DEF n
  <2>5. OpShape(n)
    BY <1>1, <2>2, <2>4 DEF OpShape, StepsOfKind, CarriesWhatItNeeds, Keeps
  <2> QED
    BY <1>2, <2>1, <2>2, <2>3, <2>5
<1>3. CASE ~(o.path = p /\ o.at = S)
  BY <1>1, <1>3 DEF Age, Keeps
<1> QED
  BY <1>2, <1>3

LEMMA AgedOpsShape ==
    ASSUME Shape, NEW S \in Projects, NEW p \in Paths, op' = AgedOps(S, p)
    PROVE  OpsShape'
<1>1. \A s \in Slots : OpShape(op'[s])
  BY AgedIs
<1>2. op' = [s \in Slots |-> Age(op[s], op[s].path = p, S)]
  BY DEF AgedOps
<1>3. \A s \in Slots : op'[s] \in Operation
  BY <1>1 DEF OpShape
<1>4. op' \in [Slots -> Operation]
  BY <1>2, <1>3
<1>5. \A s \in Slots : OpShape(op[s])'
  BY <1>1 DEF OpShape, StepsOfKind, CarriesWhatItNeeds
<1> QED
  BY <1>4, <1>5 DEF OpsShape

-----------------------------------------------------------------------------
(* The steps that open and save documents.                                 *)

\* The operation of s opens path p, or is over.
OpensOrEnds(s, kind, p, discard) ==
    /\ TabsShape(ed') /\ Same(ed', ed) /\ ed'.left = ed.left /\ switching' \in BOOLEAN
    /\ \E new :
         /\ Puts(s, new) /\ Light(new) /\ new.text = NoText
         /\ \/ new = Idle /\ ed'.busy = ed.busy
            \/ /\ new.pc = "get" /\ new.kind = kind /\ new.path = p
               /\ ed'.busy /\ ed'.tabs = ed.tabs
               /\ discard \/ ~ed.tabs[p].dirty

LEMMA OpensIs ==
    ASSUME Shape, NEW s \in Slots, NEW o \in Operation, NEW p \in Paths,
           o.kind \in {"open", "sync", "create", "switch"},
           NEW f \in BOOLEAN, NEW d \in BOOLEAN, NEW a \in BOOLEAN,
           Open(s, ed, o, p, How(f, d, a))
    PROVE  OpensOrEnds(s, o.kind, p, d)
<1>1. OpsShape /\ switching \in BOOLEAN /\ TabsShape(ed)
  BY DEF Shape, RestShape
<1>2. How(f, d, a) \in Hows /\ How(f, d, a).discard = d
  BY HowIs
<1>3. /\ TabsShape(ed') /\ Same(ed', ed) /\ ed'.left = ed.left /\ switching' \in BOOLEAN
      /\ \E new : Goes(s, ed, o, p, How(f, d, a), new)
  BY <1>1, <1>2, OpenIs
<1> QED
  BY <1>2, <1>3 DEF OpensOrEnds, Goes

LEMMA EndsIs ==
    ASSUME Shape, NEW s \in Slots, op' = [op EXCEPT ![s] = Idle], UNCHANGED ed,
           switching' \in BOOLEAN, NEW kind, NEW p, NEW d
    PROVE  OpensOrEnds(s, kind, p, d)
<1>1. Light(Idle) /\ Idle.text = NoText /\ Puts(s, Idle)
  BY IdleIs DEF Light, Serves, None, Puts
<1> QED
  BY <1>1 DEF OpensOrEnds, Same, Shape

LEMMA OpenDocumentIs ==
    ASSUME Shape, NEW s \in Slots, NEW p \in Paths, OpenDocument(s, p)
    PROVE  OpensOrEnds(s, "open", p, FALSE)
<1>1. Open(s, ed, Begun("open", p), p, How(FALSE, FALSE, TRUE))
  BY DEF OpenDocument
<1>2. Begun("open", p) \in Operation /\ Begun("open", p).kind = "open"
  BY ValuesAre DEF Kinds
<1>3. OpensOrEnds(s, Begun("open", p).kind, p, FALSE)
  BY <1>1, <1>2, OpensIs
<1> QED
  BY <1>2, <1>3

LEMMA SyncRefreshedIs ==
    ASSUME Shape, NEW s \in Slots, SyncRefreshed(s)
    PROVE  /\ op[s].kind = "sync" /\ op[s].pc = "refresh"
           /\ OpensOrEnds(s, "sync", op[s].path, FALSE)
<1> DEFINE o == op[s]
           last == [o EXCEPT !.again = FALSE]
<1>1. o.kind = "sync" /\ o.pc = "refresh"
  BY DEF SyncRefreshed
<1>2. o \in Operation /\ o.path \in Paths /\ (ed.active = o.path) \in BOOLEAN /\ o.again \in BOOLEAN
  BY <1>1, OpIs DEF Shape, None, Operation
<1>3. last \in Operation /\ last.kind = "sync"
  BY <1>1, <1>2 DEF Operation
<1>4. switching \in BOOLEAN
  BY DEF Shape, RestShape
<1>5. \/ Open(s, ed, last, o.path, How(TRUE, FALSE, o.again \/ ed.active = o.path))
      \/ Open(s, ed, o, o.path, How(TRUE, FALSE, ed.active = o.path))
      \/ Open(s, ed, last, o.path, How(FALSE, FALSE, TRUE))
      \/ op' = [op EXCEPT ![s] = Idle] /\ UNCHANGED <<ed, switching>>
  BY DEF SyncRefreshed
<1> HIDE DEF last
<1>6. CASE Open(s, ed, last, o.path, How(TRUE, FALSE, o.again \/ ed.active = o.path))
  BY <1>2, <1>3, <1>6, <1>1, OpensIs
<1>7. CASE Open(s, ed, o, o.path, How(TRUE, FALSE, ed.active = o.path))
  BY <1>2, <1>7, <1>1, OpensIs
<1>8. CASE Open(s, ed, last, o.path, How(FALSE, FALSE, TRUE))
  BY <1>2, <1>3, <1>8, <1>1, OpensIs
<1>9. CASE op' = [op EXCEPT ![s] = Idle] /\ UNCHANGED <<ed, switching>>
  BY <1>1, <1>4, <1>9, EndsIs
<1> QED
  BY <1>5, <1>6, <1>7, <1>8, <1>9

LEMMA CreateAnsweredIs ==
    ASSUME Shape, NEW s \in Slots, CreateAnswered(s)
    PROVE  /\ op[s].kind = "create" /\ op[s].pc \in {"saved", "refresh", "failed"}
           /\ \/ /\ UNCHANGED <<ed, switching>>
                 /\ \E new : /\ Puts(s, new) /\ Light(new) /\ Keeps(new, op[s])
                             /\ new.pc = "refresh" /\ new.text = op[s].text
              \/ OpensOrEnds(s, "create", op[s].path, TRUE) /\ op[s].pc = "refresh"
              \/ OpensOrEnds(s, "create", op[s].path, FALSE)
<1> DEFINE o == op[s]
<1>1. o.kind = "create" /\ o.pc \in {"saved", "refresh", "failed"} /\ o.pc # None
  BY DEF CreateAnswered, None
<1>2. o \in Operation /\ o.path \in Paths /\ switching \in BOOLEAN
  BY <1>1, OpIs DEF Shape, RestShape
<1>3. \/ o.pc = "saved" /\ op' = [op EXCEPT ![s].pc = "refresh"] /\ UNCHANGED <<ed, switching>>
      \/ o.pc = "refresh" /\ Open(s, ed, o, o.path, How(TRUE, TRUE, TRUE))
      \/ op' = [op EXCEPT ![s] = Idle] /\ switching' = FALSE /\ UNCHANGED ed
  BY DEF CreateAnswered
<1>4. CASE o.pc = "saved" /\ op' = [op EXCEPT ![s].pc = "refresh"] /\ UNCHANGED <<ed, switching>>
  BY <1>1, <1>4, LightStep
<1>5. CASE o.pc = "refresh" /\ Open(s, ed, o, o.path, How(TRUE, TRUE, TRUE))
  <2>1. OpensOrEnds(s, o.kind, o.path, TRUE)
    BY <1>1, <1>2, <1>5, OpensIs
  <2> QED
    BY <1>1, <1>5, <2>1
<1>6. CASE op' = [op EXCEPT ![s] = Idle] /\ switching' = FALSE /\ UNCHANGED ed
  <2>1. OpensOrEnds(s, "create", o.path, FALSE)
    BY <1>6, EndsIs
  <2> QED
    BY <1>1, <2>1
<1> QED
  BY <1>3, <1>4, <1>5, <1>6

LEMMA LandInProjectIs ==
    ASSUME Shape, NEW s \in Slots, LandInProject(s)
    PROVE  op[s].kind = "switch" /\ op[s].pc = "landing" /\ OpensOrEnds(s, "switch", Starter, TRUE)
<1> DEFINE o == op[s]
<1>1. /\ o.pc = "landing"
      /\ \/ Open(s, ed, o, Starter, How(TRUE, TRUE, TRUE))
         \/ op' = [op EXCEPT ![s] = Idle] /\ switching' = FALSE /\ UNCHANGED ed
  BY DEF LandInProject
<1>2. o \in Operation /\ OpShape(o) /\ o.kind # None
  BY <1>1, OpIs DEF Shape, None
<1>3. o.kind = "switch"
  BY <1>1, <1>2, KindOf DEF OpShape
<1>4. Open(s, ed, o, Starter, How(TRUE, TRUE, TRUE)) => OpensOrEnds(s, "switch", Starter, TRUE)
  BY <1>2, <1>3, Names, OpensIs
<1>5. op' = [op EXCEPT ![s] = Idle] /\ switching' = FALSE /\ UNCHANGED ed
        => OpensOrEnds(s, "switch", Starter, TRUE)
  BY EndsIs
<1> QED
  BY <1>1, <1>3, <1>4, <1>5

\* The operation of s saves path p, or is over.
SendsOrEnds(s, e) ==
    /\ TabsShape(ed') /\ ed'.tabs = ed.tabs /\ ed'.left = e.left
    /\ \E p \in Paths : \E new :
         /\ Puts(s, new)
         /\ \/ new = Idle /\ ed'.busy = e.busy
            \/ /\ new.kind = "save" /\ new.pc = "put" /\ new.path = p
               /\ new.text = ed.tabs[p].text /\ new.at = ed.tabs[p].at
               /\ new.fresh = ed.tabs[p].fresh /\ IsOpen(ed, p)
               /\ ed'.busy

LEMMA SendsIs ==
    ASSUME Shape, NEW s \in Slots, NEW e, TabsShape(e), e.tabs = ed.tabs, NEW p \in Paths,
           NEW force \in BOOLEAN, NEW rest \in SUBSET Paths, Save(s, e, p, force, rest)
    PROVE  SendsOrEnds(s, e) /\ switching' = switching
<1>1. /\ TabsShape(ed') /\ ed'.tabs = e.tabs /\ ed'.left = e.left
      /\ (\E new : Sends(s, e, p, new)) /\ switching' = switching
  BY SaveIs DEF Shape
<1> QED
  BY <1>1 DEF SendsOrEnds, Sends, IsOpen

SaveBegins(s) == SaveActiveDocument(s) \/ SaveAllDocuments(s) \/ ConfirmSaveOverwrite(s)

LEMMA SaveBeginsIs ==
    ASSUME Shape, NEW s \in Slots, SaveBegins(s)
    PROVE  SendsOrEnds(s, ed) /\ Begin(s) /\ switching' = switching
<1>1. TabsShape(ed) /\ ed \in Editors
  BY DEF Shape, TabsShape
<1>2. CASE SaveActiveDocument(s)
  <2>1. Save(s, ed, ed.active, FALSE, {}) /\ Begin(s) /\ ed.active \in Paths
    BY <1>1, <1>2 DEF SaveActiveDocument, Editors
  <2>2. {} \in SUBSET Paths
    OBVIOUS
  <2> QED
    BY <1>1, <2>1, <2>2, SendsIs
<1>3. CASE SaveAllDocuments(s)
  <2>1. Begin(s) /\ \E p \in Dirty : Save(s, ed, p, FALSE, Dirty \ {p})
    BY <1>3 DEF SaveAllDocuments
  <2>2. Dirty \subseteq Paths
    BY DEF Dirty
  <2> QED
    BY <1>1, <2>1, <2>2, SendsIs
<1>4. CASE ConfirmSaveOverwrite(s)
  <2> DEFINE e == [ed EXCEPT !.active = ed.conflict]
  <2>1. Save(s, e, ed.conflict, TRUE, {}) /\ Begin(s) /\ ed.conflict \in Paths
    BY <1>1, <1>4 DEF ConfirmSaveOverwrite, Editors
  <2>2. TabsShape(e) /\ e.tabs = ed.tabs /\ e.left = ed.left /\ e.busy = ed.busy
    BY <1>1, <2>1 DEF TabsShape, Editors
  <2>a. {} \in SUBSET Paths
    OBVIOUS
  <2> HIDE DEF e
  <2>3. SendsOrEnds(s, e) /\ switching' = switching
    BY <2>1, <2>2, <2>a, SendsIs
  <2> QED
    BY <2>1, <2>2, <2>3 DEF SendsOrEnds
<1> QED
  BY <1>2, <1>3, <1>4 DEF SaveBegins

LEMMA SaveRefreshedIs ==
    ASSUME Shape, NEW s \in Slots, SaveRefreshed(s)
    PROVE  /\ op[s].kind = "save" /\ op[s].pc = "refresh"
           /\ SendsOrEnds(s, NotBusy(ed)) /\ switching' = switching
<1> DEFINE e == NotBusy(ed)
<1>1. op[s].kind = "save" /\ op[s].pc = "refresh"
  BY DEF SaveRefreshed
<1>2. op[s] \in Operation /\ op[s].rest \in SUBSET Paths
  BY OpIs DEF Shape, Operation
<1>3. TabsShape(e) /\ e.tabs = ed.tabs
  BY DEF Shape, TabsShape, NotBusy, Editors
<1>4. \/ \E p \in op[s].rest : Save(s, e, p, FALSE, op[s].rest \ {p})
      \/ /\ ed' = e /\ op' = [op EXCEPT ![s] = Idle] /\ switching' = switching
  BY DEF SaveRefreshed
<1> HIDE DEF e
<1>5. CASE \E p \in op[s].rest : Save(s, e, p, FALSE, op[s].rest \ {p})
  BY <1>1, <1>2, <1>3, <1>5, SendsIs DEF e
<1>6. CASE ed' = e /\ op' = [op EXCEPT ![s] = Idle] /\ switching' = switching
  <2>1. Puts(s, Idle)
    BY <1>6, IdleIs DEF Puts
  <2> QED
    BY <1>1, <1>3, <1>6, <2>1, Names DEF SendsOrEnds, e
<1> QED
  BY <1>4, <1>5, <1>6

-----------------------------------------------------------------------------
(* The writers, and the switch to another project.                         *)

LEMMA ReplaceFileIs ==
    ASSUME Shape, NEW s \in Slots, ReplaceFile(s)
    PROVE  LET o == op[s] IN
           /\ o.pc = "checked" /\ o.at \in Projects /\ o.path \in Paths /\ o.text # NoText
           /\ o.text \in Texts
           /\ Wrote(o.at, o.path, File(o.text, TRUE)) /\ OpsShape'
           /\ brought' = IF o.based THEN brought ELSE brought \cup {<<o.text, o.at>>}
           /\ silent' = (silent \/ (o.kind = "save" /\ ~o.force /\ ~disk[o.at][o.path].known))
           /\ op'[s].pc = "replaced" /\ Keeps(op'[s], o) /\ op'[s].text = o.text
           /\ op'[s].at = o.at
           /\ \A q \in Slots : q # s => op'[q] = AgedOps(o.at, o.path)[q]
<1> DEFINE o == op[s]
           ops == AgedOps(o.at, o.path)
           n == [ops[s] EXCEPT !.pc = "replaced"]
<1>1. /\ o.pc = "checked" /\ Write(o.at, o.path, File(o.text, TRUE))
      /\ op' = [ops EXCEPT ![s].pc = "replaced"]
      /\ brought' = IF o.based THEN brought ELSE brought \cup {<<o.text, o.at>>}
      /\ silent' = (silent \/ (o.kind = "save" /\ ~o.force /\ ~disk[o.at][o.path].known))
  BY DEF ReplaceFile
<1>2. o \in Operation /\ OpShape(o) /\ o.kind # None /\ o.path \in Paths
  BY <1>1, OpIs DEF Shape, None
<1>3. o.at \in Projects /\ o.text # NoText /\ o.text \in Texts
  BY <1>1, <1>2 DEF OpShape, CarriesWhatItNeeds, Serves, Operation
<1>4. Wrote(o.at, o.path, File(o.text, TRUE))
  BY <1>1, <1>2, <1>3, WriteIs
<1>5. \A q \in Slots : OpShape(ops[q])
  BY <1>2, <1>3, AgedIs
<1>6. ops \in [Slots -> Operation]
  <2>1. ops = [q \in Slots |-> Age(op[q], op[q].path = o.path, o.at)]
    BY DEF AgedOps
  <2>2. \A q \in Slots : ops[q] \in Operation
    BY <1>5 DEF OpShape
  <2> QED
    BY <2>1, <2>2
<1>7. OpShape(ops[s]) /\ Keeps(ops[s], o) /\ ops[s].pc = o.pc /\ ops[s].text = o.text
      /\ ops[s].at = o.at /\ ops[s].based = o.based
  BY <1>2, <1>3, AgedIs
<1> HIDE DEF ops
<1>8. op' = [ops EXCEPT ![s] = n]
  BY <1>1, <1>6
<1>9. OpShape(n) /\ Keeps(n, o) /\ n.text = o.text /\ n.at = o.at /\ n.pc = "replaced"
  BY <1>1, <1>2, <1>6, <1>7
     DEF OpShape, StepsOfKind, CarriesWhatItNeeds, Operation, PCs, Loads, Serves, Keeps, None
<1> HIDE DEF n
<1>10. op'[s] = n /\ \A q \in Slots : q # s => op'[q] = ops[q]
  BY <1>6, <1>8
<1>11. OpsShape'
  <2>1. \A q \in Slots : OpShape(op'[q])
    BY <1>5, <1>9, <1>10
  <2>2. op' \in [Slots -> Operation]
    BY <1>6, <1>8, <1>9 DEF OpShape
  <2>3. \A q \in Slots : OpShape(op[q])'
    BY <2>1 DEF OpShape, StepsOfKind, CarriesWhatItNeeds
  <2> QED
    BY <2>2, <2>3 DEF OpsShape
<1> QED
  BY <1>1, <1>2, <1>3, <1>4, <1>9, <1>10, <1>11 DEF ops

LEMMA AgentWritesIs ==
    ASSUME Shape, NEW S \in Projects, NEW p \in Paths, AgentWrites(S, p)
    PROVE  LET text == Text(made + 1, S) IN
           /\ text \in Texts /\ text # NoText /\ text.n = made + 1 /\ text.of = S
           /\ made' = made + 1 /\ made' \in 1..MaxTexts /\ reported' \subseteq Paths
           /\ Wrote(S, p, File(text, BeingSaved(S, p))) /\ OpsShape'
           /\ op' = AgedOps(S, p)
<1> DEFINE text == Text(made + 1, S)
<1>1. /\ made < MaxTexts /\ made' = made + 1 /\ op' = AgedOps(S, p)
      /\ Write(S, p, File(text, BeingSaved(S, p)))
      /\ reported' = IF S = view THEN reported \cup {p} ELSE reported
  BY DEF AgentWrites
<1>2. made \in 1..MaxTexts /\ reported \subseteq Paths
  BY DEF Shape, RestShape
<1>3. made + 1 \in 1..MaxTexts /\ made + 1 \in 0..MaxTexts
  BY <1>1, <1>2, Names
<1>4. text \in Texts /\ text # NoText
  BY <1>3, TextsAre
<1>5. text.n = made + 1 /\ text.of = S
  BY DEF Text
<1> HIDE DEF text
<1>6. BeingSaved(S, p) \in BOOLEAN
  BY DEF BeingSaved
<1>7. Wrote(S, p, File(text, BeingSaved(S, p)))
  BY <1>1, <1>4, <1>6, WriteIs
<1>8. OpsShape'
  BY <1>1, AgedOpsShape
<1> QED
  BY <1>1, <1>2, <1>3, <1>4, <1>5, <1>7, <1>8 DEF text

LEMMA FinalizeIs ==
    ASSUME Shape, NEW s \in Slots, FinalizeProjectSwitch(s)
    PROVE  /\ op[s].pc = "opened" /\ op[s].kind = "switch" /\ op[s].at \in Projects
           /\ view' = op[s].at
           /\ TabsShape(ed') /\ (\A p \in Paths : ed'.tabs[p] = NoTab) /\ ~ed'.busy /\ ~ed'.left
           /\ draft' = [p \in Paths |-> NoText]
           /\ \E new : /\ Puts(s, new) /\ Light(new) /\ Keeps(new, op[s]) /\ new.pc = "landing"
                       /\ new.text = op[s].text
<1>1. /\ op[s].pc = "opened" /\ view' = op[s].at /\ ed' = Cleared(ed)
      /\ draft' = [p \in Paths |-> NoText] /\ op' = [op EXCEPT ![s].pc = "landing"]
  BY DEF FinalizeProjectSwitch
<1>2. op[s] \in Operation /\ OpShape(op[s]) /\ op[s].kind # None
  BY <1>1, OpIs DEF Shape, None
<1>3. op[s].kind = "switch" /\ op[s].at \in Projects
  BY <1>1, <1>2, KindOf DEF OpShape, CarriesWhatItNeeds
<1>4. ed \in Editors
  BY DEF Shape, TabsShape
<1>5. /\ ed' \in Editors /\ ed'.tabs = [p \in Paths |-> NoTab] /\ ~ed'.busy /\ ~ed'.left
  BY <1>1, <1>4, ValuesAre DEF Cleared, NotBusy, Editors
<1>6. TabShape(NoTab)
  BY ValuesAre DEF TabShape
<1>7. TabsShape(ed')
  BY <1>5, <1>6 DEF TabsShape
<1>8. \E new : /\ Puts(s, new) /\ Light(new) /\ Keeps(new, op[s]) /\ new.pc = "landing"
               /\ new.text = op[s].text
  BY <1>1, LightStep DEF None
<1> QED
  BY <1>1, <1>3, <1>5, <1>7, <1>8

LEMMA ServeOpenProjectIs ==
    ASSUME Shape, NEW s \in Slots, ServeOpenProject(s)
    PROVE  /\ op[s].pc = "opening" /\ op[s].kind = "switch" /\ op[s].at \in Projects
           /\ switching' \in BOOLEAN /\ ed' = ed
           /\ \/ /\ session' = op[s].at
                 /\ \E new : /\ Puts(s, new) /\ Light(new) /\ Keeps(new, op[s])
                             /\ new.pc = "opened" /\ new.text = op[s].text
              \/ session' = session /\ Puts(s, Idle)
<1>1. /\ op[s].pc = "opening" /\ ed' = ed
      /\ \/ session' = op[s].at /\ op' = [op EXCEPT ![s].pc = "opened"] /\ UNCHANGED switching
         \/ op' = [op EXCEPT ![s] = Idle] /\ switching' = FALSE /\ UNCHANGED session
  BY DEF ServeOpenProject
<1>2. op[s] \in Operation /\ OpShape(op[s]) /\ op[s].kind # None /\ switching \in BOOLEAN
  BY <1>1, OpIs DEF Shape, RestShape, None
<1>3. op[s].kind = "switch" /\ op[s].at \in Projects
  BY <1>1, <1>2, KindOf DEF OpShape, CarriesWhatItNeeds
<1>4. CASE session' = op[s].at /\ op' = [op EXCEPT ![s].pc = "opened"] /\ UNCHANGED switching
  <2>1. \E new : /\ Puts(s, new) /\ Light(new) /\ Keeps(new, op[s]) /\ new.pc = "opened"
                 /\ new.text = op[s].text
    BY <1>1, <1>4, LightStep DEF None
  <2> QED
    BY <1>1, <1>2, <1>3, <1>4, <2>1
<1>5. CASE op' = [op EXCEPT ![s] = Idle] /\ switching' = FALSE /\ UNCHANGED session
  BY <1>1, <1>3, <1>5, IdleIs DEF Puts
<1> QED
  BY <1>1, <1>4, <1>5

-----------------------------------------------------------------------------
(* The shape is kept.                                                      *)

LEMMA InitShape == Init => Shape
<1> SUFFICES ASSUME Init PROVE Shape
  OBVIOUS
<1>1. TabsShape(ed)
  BY Names, ValuesAre DEF Init, TabsShape, Editors, TabShape
<1>2. OpsShape
  BY IdleIs, ValuesAre DEF Init, OpsShape
<1>3. 1 \in 1..MaxTexts /\ 1 \in 0..MaxTexts
  BY Names
<1>4. RestShape
  <2>1. 0 \in 0..MaxOps
    BY Names
  <2>2. session \in Projects /\ view \in Projects /\ draft \in [Paths -> Texts]
    BY Names, TextsAre DEF Init
  <2> QED
    BY <1>3, <2>1, <2>2 DEF Init, RestShape
<1>5. DiskShape
  <2>1. NoFile \in [text : Texts, known : BOOLEAN]
    BY TextsAre DEF NoFile, File
  <2>2. ASSUME NEW P \in Projects
        PROVE  /\ File(Text(1, P), FALSE) \in [text : Texts, known : BOOLEAN]
               /\ File(Text(1, P), FALSE).text # NoText
    BY <1>3, TextsAre DEF File
  <2>3. disk = [P \in Projects |-> [p \in Paths |->
                 IF p \in Files[P] THEN File(Text(1, P), FALSE) ELSE NoFile]]
    BY DEF Init
  <2> QED
    BY <2>1, <2>2, <2>3 DEF DiskShape
<1> QED
  BY <1>1, <1>2, <1>4, <1>5 DEF Shape

LEMMA BeginIs ==
    ASSUME Shape, NEW s \in Slots, Begin(s)
    PROVE  /\ Free(s) /\ started' \in 0..MaxOps /\ raced' \in BOOLEAN /\ (raced => raced')
           /\ ~raced' => \A q \in Slots : Free(q)
<1>1. Free(s) /\ started' \in 0..MaxOps
  BY Names DEF Shape, RestShape, Begin
<1>2. raced \in BOOLEAN /\ raced' = (raced \/ \E q \in Slots : ~Free(q))
  BY DEF Shape, RestShape, Begin
<1> QED
  BY <1>1, <1>2

LEMMA DiskStays ==
    ASSUME Shape, UNCHANGED disk
    PROVE  DiskShape'
BY DEF Shape, DiskShape

LEMMA ShapeOpens ==
    ASSUME Shape, NEW s \in Slots, NEW kind, NEW p, NEW d, OpensOrEnds(s, kind, p, d)
    PROVE  OpsShape' /\ TabsShape(ed') /\ switching' \in BOOLEAN
BY PutsIs DEF Shape, OpensOrEnds

LEMMA ShapeSends ==
    ASSUME Shape, NEW s \in Slots, NEW e, SendsOrEnds(s, e)
    PROVE  OpsShape' /\ TabsShape(ed')
BY PutsIs DEF Shape, SendsOrEnds

\* The operations of the workbench.
LEMMA ShapeOfEditor ==
    ASSUME Shape, NEW s \in Slots,
           \/ \E p \in Paths : OpenDocument(s, p)
           \/ SyncRefreshed(s) \/ CreateAnswered(s) \/ LandInProject(s)
           \/ SaveBegins(s) \/ SaveRefreshed(s)
    PROVE  Shape'
<1> USE DEF history
<1>1. ASSUME NEW p \in Paths, OpenDocument(s, p) PROVE Shape'
  <2>1. UNCHANGED <<session, disk, view, reported, made, draft, brought, silent>>
        /\ (Begin(s) \/ UNCHANGED <<started, raced>>)
    BY <1>1 DEF OpenDocument
  <2>2. OpsShape' /\ TabsShape(ed') /\ switching' \in BOOLEAN
    BY <1>1, OpenDocumentIs, ShapeOpens
  <2>3. DiskShape' /\ RestShape'
    BY <2>1, <2>2, DiskStays, BeginIs DEF Shape, RestShape
  <2> QED
    BY <2>2, <2>3 DEF Shape
<1>2. ASSUME SyncRefreshed(s) PROVE Shape'
  <2>1. UNCHANGED <<session, disk, view, reported, made, started, history>>
    BY <1>2 DEF SyncRefreshed
  <2>2. OpsShape' /\ TabsShape(ed') /\ switching' \in BOOLEAN
    BY <1>2, SyncRefreshedIs, ShapeOpens
  <2>3. DiskShape' /\ RestShape'
    BY <2>1, <2>2, DiskStays DEF Shape, RestShape
  <2> QED
    BY <2>2, <2>3 DEF Shape
<1>3. ASSUME CreateAnswered(s) PROVE Shape'
  <2>1. UNCHANGED <<session, disk, view, reported, made, started, history>>
    BY <1>3 DEF CreateAnswered
  <2>2. OpsShape' /\ TabsShape(ed') /\ switching' \in BOOLEAN
    <3>1. \/ UNCHANGED <<ed, switching>> /\ \E new : Puts(s, new)
          \/ OpensOrEnds(s, "create", op[s].path, TRUE)
          \/ OpensOrEnds(s, "create", op[s].path, FALSE)
      BY <1>3, CreateAnsweredIs
    <3>2. CASE UNCHANGED <<ed, switching>> /\ \E new : Puts(s, new)
      BY <3>2, PutsIs DEF Shape, RestShape
    <3> QED
      BY <3>1, <3>2, ShapeOpens
  <2>3. DiskShape' /\ RestShape'
    BY <2>1, <2>2, DiskStays DEF Shape, RestShape
  <2> QED
    BY <2>2, <2>3 DEF Shape
<1>4. ASSUME LandInProject(s) PROVE Shape'
  <2>1. UNCHANGED <<session, disk, view, reported, made, started, history>>
    BY <1>4 DEF LandInProject
  <2>2. OpsShape' /\ TabsShape(ed') /\ switching' \in BOOLEAN
    BY <1>4, LandInProjectIs, ShapeOpens
  <2>3. DiskShape' /\ RestShape'
    BY <2>1, <2>2, DiskStays DEF Shape, RestShape
  <2> QED
    BY <2>2, <2>3 DEF Shape
<1>5. ASSUME SaveBegins(s) PROVE Shape'
  <2>1. SendsOrEnds(s, ed) /\ Begin(s) /\ switching' = switching
    BY <1>5, SaveBeginsIs
  <2>2. UNCHANGED <<session, disk, view, reported, made, draft, brought, silent>>
    BY <1>5 DEF SaveBegins, SaveActiveDocument, SaveAllDocuments, ConfirmSaveOverwrite, Save
  <2>3. DiskShape' /\ RestShape'
    BY <2>1, <2>2, DiskStays, BeginIs DEF Shape, RestShape
  <2> QED
    BY <2>1, <2>3, ShapeSends DEF Shape
<1>6. ASSUME SaveRefreshed(s) PROVE Shape'
  <2>1. SendsOrEnds(s, NotBusy(ed)) /\ switching' = switching
    BY <1>6, SaveRefreshedIs
  <2>2. UNCHANGED <<session, disk, view, reported, made, started, draft, raced, brought, silent>>
    BY <1>6 DEF SaveRefreshed, Save
  <2>3. DiskShape' /\ RestShape'
    BY <2>1, <2>2, DiskStays DEF Shape, RestShape
  <2> QED
    BY <2>1, <2>3, ShapeSends DEF Shape
<1> QED
  BY <1>1, <1>2, <1>3, <1>4, <1>5, <1>6

\* The requests, their answers, and the operations that only begin.
Served(s) ==
    \/ ServeStat(s) \/ ServeRead(s) \/ CheckSave(s) \/ StatSaved(s) \/ CreateProbed(s)
    \/ \E p \in Paths : \/ CreateProjectTreeFile(s, p)
                         \/ \E again \in BOOLEAN : SyncChangedPaths(s, p, again)
    \/ \E P \in Projects : OpenProject(s, P)

LEMMA ShapeOfServed ==
    ASSUME Shape, NEW s \in Slots, Served(s)
    PROVE  Shape' /\ UNCHANGED <<disk, ed, brought, silent, made>>
<1> USE DEF history
<1>1. \E new : Puts(s, new)
  <2>1. ServeStat(s) => \E new : Puts(s, new)
    BY ServeStatIs
  <2>2. ServeRead(s) => \E new : Puts(s, new)
    BY ServeReadIs
  <2>3. CheckSave(s) => \E new : Puts(s, new)
    BY CheckSaveIs
  <2>4. StatSaved(s) => \E new : Puts(s, new)
    BY StatSavedIs
  <2>5. CreateProbed(s) => \E new : Puts(s, new)
    BY CreateProbedIs
  <2>6. \A p \in Paths : CreateProjectTreeFile(s, p) => \E new : Puts(s, new)
    BY CreateBeginsIs
  <2>7. \A p \in Paths, again \in BOOLEAN : SyncChangedPaths(s, p, again) => \E new : Puts(s, new)
    BY SyncBeginsIs
  <2>8. \A P \in Projects : OpenProject(s, P) => \E new : Puts(s, new)
    BY SwitchBeginsIs
  <2> QED
    BY <2>1, <2>2, <2>3, <2>4, <2>5, <2>6, <2>7, <2>8 DEF Served
<1>2. /\ UNCHANGED <<session, disk, view, ed, made, draft, brought, silent>>
      /\ Begin(s) \/ UNCHANGED <<started, raced>>
      /\ switching' = switching \/ switching' = TRUE
      /\ reported' \subseteq reported
  BY DEF Served, ServeStat, ServeRead, CheckSave, StatSaved, CreateProbed, CreateProjectTreeFile,
         SyncChangedPaths, OpenProject
<1>3. OpsShape' /\ TabsShape(ed') /\ DiskShape'
  BY <1>1, <1>2, PutsIs, DiskStays DEF Shape
<1>4. RestShape'
  BY <1>2, BeginIs DEF Shape, RestShape
<1> QED
  BY <1>2, <1>3, <1>4 DEF Shape

LEMMA ShapeOfLoadAnswered ==
    ASSUME Shape, NEW s \in Slots, LoadAnswered(s)
    PROVE  Shape'
<1> DEFINE o == op[s]
<1>1. /\ TabsShape(ed') /\ switching' \in BOOLEAN /\ o.pc = "got" /\ o.path \in Paths
      /\ disk' = IF Shows(ed, s, o) /\ disk[o.at][o.path].text = o.text
                 THEN [disk EXCEPT ![o.at][o.path].known = TRUE] ELSE disk
      /\ \E new : Puts(s, new)
  BY LoadAnsweredIs DEF Goes
<1>2. Shows(ed, s, o) => o.at \in Projects /\ o.text # NoText
  BY <1>1, LoadedIs
<1>3. UNCHANGED <<session, view, reported, made, started, history>>
  BY DEF LoadAnswered
<1>4. RestShape'
  BY <1>1, <1>3 DEF Shape, RestShape, history
<1>5. DiskShape'
  <2>1. CASE Shows(ed, s, o) /\ disk[o.at][o.path].text = o.text
    <3>1. disk' = [disk EXCEPT ![o.at][o.path].known = TRUE] /\ o.at \in Projects
      BY <1>1, <1>2, <2>1
    <3>2. disk[o.at][o.path] \in [text : Texts, known : BOOLEAN]
      BY <1>1, <3>1 DEF Shape, DiskShape
    <3> DEFINE f == [disk[o.at][o.path] EXCEPT !.known = TRUE]
    <3>3. f \in [text : Texts, known : BOOLEAN] /\ f.text = o.text
      BY <2>1, <3>2
    <3>4. disk' = [disk EXCEPT ![o.at][o.path] = f]
      BY <3>1
    <3> HIDE DEF f
    <3>6. disk \in [Projects -> [Paths -> [text : Texts, known : BOOLEAN]]]
          /\ o.at \in Projects /\ o.path \in Paths
      BY <1>1, <3>1 DEF Shape, DiskShape
    <3> HIDE DEF o
    <3>5. /\ disk' \in [Projects -> [Paths -> [text : Texts, known : BOOLEAN]]]
          /\ disk'[o.at][o.path] = f
          /\ \A T \in Projects, q \in Paths :
               T # o.at \/ q # o.path => disk'[T][q] = disk[T][q]
      BY <3>3, <3>4, <3>6
    <3> SUFFICES ASSUME NEW T \in Projects, NEW q \in Paths, disk'[T][q].text = NoText
                 PROVE  disk'[T][q] = NoFile
      BY <3>5 DEF DiskShape, NoFile
    <3> QED
      BY <1>2, <2>1, <3>3, <3>5 DEF Shape, DiskShape
  <2>2. CASE ~(Shows(ed, s, o) /\ disk[o.at][o.path].text = o.text)
    BY <1>1, <2>2, DiskStays
  <2> QED
    BY <2>1, <2>2
<1> QED
  BY <1>1, <1>4, <1>5, PutsIs DEF Shape

LEMMA ShapeOfOthers ==
    ASSUME Shape, NEW s \in Slots,
           SaveAnswered(s) \/ SaveRefused(s) \/ FinalizeProjectSwitch(s) \/ ServeOpenProject(s)
    PROVE  Shape' /\ UNCHANGED <<disk, brought, silent, made>>
<1> USE DEF history
<1>1. UNCHANGED <<disk, made, started, raced, brought, silent>> /\ DiskShape'
  BY DiskStays DEF SaveAnswered, SaveRefused, FinalizeProjectSwitch, ServeOpenProject
<1>2. TabsShape(ed') /\ OpsShape'
  <2>1. TabsShape(ed') /\ \E new : Puts(s, new)
    BY SaveAnsweredIs, SaveRefusedIs, FinalizeIs, ServeOpenProjectIs DEF Shape
  <2> QED
    BY <2>1, PutsIs DEF Shape
<1>3. CASE SaveAnswered(s) \/ SaveRefused(s)
  <2>1. /\ UNCHANGED <<session, view, switching, reported>>
        /\ \/ draft' = draft
           \/ draft' = [draft EXCEPT ![op[s].path] = NoText]
    BY <1>3 DEF SaveAnswered, SaveRefused
  <2> QED
    BY <1>1, <1>2, <2>1, TextsAre DEF Shape, RestShape
<1>4. CASE FinalizeProjectSwitch(s)
  <2>1. /\ UNCHANGED <<session, switching>> /\ reported' = {} /\ view' \in Projects
        /\ draft' = [p \in Paths |-> NoText]
    BY <1>4, FinalizeIs DEF FinalizeProjectSwitch
  <2> QED
    BY <1>1, <1>2, <2>1, TextsAre DEF Shape, RestShape
<1>5. CASE ServeOpenProject(s)
  <2>1. UNCHANGED <<view, reported, draft>> /\ switching' \in BOOLEAN /\ session' \in Projects
    BY <1>5, ServeOpenProjectIs DEF ServeOpenProject, Shape, RestShape
  <2> QED
    BY <1>1, <1>2, <2>1 DEF Shape, RestShape
<1> QED
  BY <1>3, <1>4, <1>5

LEMMA ShapeOfWriters ==
    ASSUME Shape,
           \/ \E s \in Slots : ReplaceFile(s)
           \/ \E p \in Paths : Type(p) \/ \E S \in Projects : AgentWrites(S, p)
    PROVE  Shape'
<1> USE DEF history
<1>1. ASSUME NEW s \in Slots, ReplaceFile(s) PROVE Shape'
  <2>1. UNCHANGED <<session, view, switching, reported, made, started, draft, raced>>
    BY <1>1 DEF ReplaceFile
  <2>2. /\ op[s].at \in Projects /\ op[s].text \in Texts
        /\ Wrote(op[s].at, op[s].path, File(op[s].text, TRUE)) /\ OpsShape'
        /\ brought' = IF op[s].based THEN brought ELSE brought \cup {<<op[s].text, op[s].at>>}
        /\ silent' \in BOOLEAN
    BY <1>1, ReplaceFileIs DEF Shape, RestShape
  <2>3. RestShape'
    BY <2>1, <2>2 DEF Shape, RestShape
  <2> QED
    BY <2>2, <2>3 DEF Shape, Wrote
<1>2. ASSUME NEW p \in Paths, Type(p) PROVE Shape'
  <2>1. /\ UNCHANGED <<session, disk, view, switching, op, reported, started, brought, silent>>
        /\ raced' \in BOOLEAN
    BY <1>2 DEF Type, Shape, RestShape
  <2>2. made' \in 1..MaxTexts /\ draft' \in [Paths -> Texts] /\ TabsShape(ed')
    BY <1>2, TypeIs
  <2>3. OpsShape' /\ DiskShape'
    BY <2>1, DiskStays DEF Shape, OpsShape, OpShape, StepsOfKind, CarriesWhatItNeeds
  <2> QED
    BY <2>1, <2>2, <2>3 DEF Shape, RestShape
<1>3. ASSUME NEW p \in Paths, NEW S \in Projects, AgentWrites(S, p) PROVE Shape'
  <2>1. UNCHANGED <<session, view, switching, started, history>>
    BY <1>3 DEF AgentWrites
  <2>2. /\ made' \in 1..MaxTexts /\ reported' \subseteq Paths /\ OpsShape'
        /\ Wrote(S, p, File(Text(made + 1, S), BeingSaved(S, p)))
    BY <1>3, AgentWritesIs
  <2> QED
    BY <2>1, <2>2 DEF Shape, RestShape, Wrote
<1> QED
  BY <1>1, <1>2, <1>3

-----------------------------------------------------------------------------
(* Where texts belong, and what was seen.                                  *)

LEMMA InitSeen == Init => Belongs /\ Seen /\ NoSilentOverwrite
<1> SUFFICES ASSUME Init PROVE Belongs /\ Seen /\ NoSilentOverwrite
  OBVIOUS
<1>1. /\ disk = [P \in Projects |-> [p \in Paths |->
                  IF p \in Files[P] THEN File(Text(1, P), FALSE) ELSE NoFile]]
      /\ (\A p \in Paths : ed.tabs[p] = NoTab) /\ made = 1
      /\ (\A s \in Slots : op[s] = Idle) /\ silent = FALSE
  BY DEF Init
<1>2. \A S \in Projects, p \in Paths :
        \/ disk[S][p].text = Text(1, S)
        \/ disk[S][p].text = NoText /\ disk[S][p].known
  BY <1>1 DEF NoFile, File
<1>3. NoText.n = 0 /\ \A S \in Projects \cup {None} : Text(1, S).n = 1 /\ Text(1, S).of = S
  BY DEF NoText, Text
<1>4. /\ \A p \in Paths : ed.tabs[p].text = NoText /\ ~ed.tabs[p].fresh
      /\ \A s \in Slots : op[s].text = NoText
  BY <1>1, ValuesAre, IdleIs
<1>5. Belongs
  <2>1. \A s \in Slots : CarriesOwn(op[s])
    BY <1>1, IdleIs
  <2>2. \A S \in Projects, p \in Paths : Of(disk[S][p].text, S)
    BY <1>2, <1>3 DEF Of
  <2> QED
    BY <1>4, <2>1, <2>2 DEF Belongs, Of
<1>6. Numbered /\ SharedIsKnown
  <2>1. made = 1
    BY <1>1
  <2>2. Numbered
    BY <1>2, <1>3, <1>4, <2>1 DEF Numbered
  <2>3. SharedIsKnown
    BY <1>2, <1>3 DEF SharedIsKnown
  <2> QED
    BY <2>2, <2>3
<1>7. \A p \in Paths : TabIsKnown(p)
  BY <1>2, <1>3, <1>4 DEF TabIsKnown, KnownAs
<1>8. \A s \in Slots : LoadIsCurrent(op[s]) /\ SaveIsKnown(op[s])
  BY <1>1, IdleIs
<1> QED
  BY <1>1, <1>5, <1>6, <1>7, <1>8 DEF Seen, NoSilentOverwrite

LEMMA NoTextIs ==
    ASSUME Shape
    PROVE  NoText.n = 0 /\ made >= 1 /\ \A p \in Paths : KnownAs(NoText, p)
<1>1. NoText.n = 0 /\ made >= 1
  BY DEF NoText, Text, Shape, RestShape
<1>2. \A S \in Projects, p \in Paths : disk[S][p].text = NoText => disk[S][p].known
  BY DEF Shape, DiskShape, NoFile, File
<1> QED
  BY <1>1, <1>2 DEF KnownAs

\* A step that writes no file, and leaves the tabs what they show.
LEMMA QuietStep ==
    ASSUME Shape, Belongs, Seen, NEW s \in Slots, NEW new, Puts(s, new), Same(ed', ed),
           UNCHANGED <<disk, made, brought>>, new.text.n <= made,
           CarriesOwn(new), LoadIsCurrent(new), SaveIsKnown(new)
    PROVE  Belongs' /\ Seen'
<1>1. op'[s] = new /\ \A q \in Slots : q # s => op'[q] = op[q]
  BY PutsIs DEF Shape
<1>2. \A t, S : Of(t, S)' <=> Of(t, S)
  BY DEF Of
<1>3. /\ CarriesOwn(op'[s]) /\ \A q \in Slots : CarriesOwn(op'[q])
  BY <1>1 DEF Belongs
<1>4. \A q \in Slots : CarriesOwn(op[q])'
  BY <1>3 DEF CarriesOwn, Of
<1>5. Belongs'
  BY <1>4 DEF Belongs, Of, Same
<1>6. \A q \in Slots : LoadIsCurrent(op'[q]) /\ SaveIsKnown(op'[q])
  BY <1>1 DEF Seen
<1>7. \A q \in Slots : LoadIsCurrent(op[q])' /\ SaveIsKnown(op[q])'
  BY <1>6 DEF LoadIsCurrent, SaveIsKnown, KnownAs
<1>8. Numbered' /\ SharedIsKnown'
  BY <1>1 DEF Seen, Numbered, SharedIsKnown, Same
<1>9. ASSUME NEW p \in Paths PROVE TabIsKnown(p)'
  <2>1. TabIsKnown(p) /\ ed'.tabs[p].text = ed.tabs[p].text /\ ed'.tabs[p].at = ed.tabs[p].at
        /\ ed'.tabs[p].fresh = ed.tabs[p].fresh
    BY DEF Seen, Same
  <2> QED
    BY <2>1 DEF TabIsKnown, KnownAs
<1> QED
  BY <1>5, <1>7, <1>8, <1>9 DEF Seen

LEMMA QuietLight ==
    ASSUME Shape, Belongs, Seen, NEW s \in Slots, NEW new, Puts(s, new), Light(new),
           Same(ed', ed), UNCHANGED <<disk, made, brought>>,
           new.text = NoText \/ new.text = op[s].text
    PROVE  Belongs' /\ Seen'
<1>1. new.text.n <= made
  BY NoTextIs DEF Seen, Numbered, Shape, RestShape
<1> QED
  BY <1>1, LightIs, QuietStep

LEMMA SameSelf == ASSUME UNCHANGED ed PROVE Same(ed', ed)
BY DEF Same

LEMMA SeenOfEditor ==
    ASSUME Shape, Belongs, Seen, NEW s \in Slots,
           \/ \E p \in Paths : OpenDocument(s, p)
           \/ SyncRefreshed(s) \/ CreateAnswered(s) \/ LandInProject(s)
           \/ SaveBegins(s) \/ SaveRefreshed(s)
    PROVE  Belongs' /\ Seen' /\ UNCHANGED silent
<1> USE DEF history
<1>1. UNCHANGED <<disk, made, brought, silent>>
  BY DEF OpenDocument, SyncRefreshed, CreateAnswered, LandInProject, SaveBegins,
         SaveActiveDocument, SaveAllDocuments, ConfirmSaveOverwrite, SaveRefreshed, Save
<1>2. ASSUME NEW kind, NEW p, NEW d, OpensOrEnds(s, kind, p, d)
      PROVE  Belongs' /\ Seen'
  BY <1>1, <1>2, QuietLight DEF OpensOrEnds
<1>3. ASSUME NEW e, SendsOrEnds(s, e)
      PROVE  Belongs' /\ Seen'
  <2>1. Same(ed', ed)
    BY <1>3 DEF SendsOrEnds, Same
  <2>2. PICK p \in Paths : \E new :
           /\ Puts(s, new)
           /\ \/ new = Idle
              \/ /\ new.kind = "save" /\ new.pc = "put" /\ new.path = p
                 /\ new.text = ed.tabs[p].text /\ new.at = ed.tabs[p].at
                 /\ new.fresh = ed.tabs[p].fresh
    BY <1>3 DEF SendsOrEnds
  <2>a. PICK new :
           /\ Puts(s, new)
           /\ \/ new = Idle
              \/ /\ new.kind = "save" /\ new.pc = "put" /\ new.path = p
                 /\ new.text = ed.tabs[p].text /\ new.at = ed.tabs[p].at
                 /\ new.fresh = ed.tabs[p].fresh
    BY <2>2
  <2>3. CASE new = Idle
    BY <1>1, <2>1, <2>a, <2>3, IdleIs, QuietLight DEF Light, Serves, None
  <2>4. CASE new # Idle
    <3>1. Of(ed.tabs[p].text, ed.tabs[p].at) /\ TabIsKnown(p) /\ ed.tabs[p].text.n <= made
      BY DEF Belongs, Seen, Numbered
    <3>2. CarriesOwn(new)
      BY <2>a, <2>4, <3>1 DEF CarriesOwn
    <3>3. LoadIsCurrent(new) /\ SaveIsKnown(new)
      BY <2>a, <2>4, <3>1 DEF LoadIsCurrent, SaveIsKnown, TabIsKnown
    <3> QED
      BY <1>1, <2>1, <2>a, <2>4, <3>1, <3>2, <3>3, QuietStep
  <2> QED
    BY <2>3, <2>4
<1>4. ASSUME NEW p \in Paths, OpenDocument(s, p) PROVE Belongs' /\ Seen'
  BY <1>2, <1>4, OpenDocumentIs
<1>5. ASSUME SyncRefreshed(s) PROVE Belongs' /\ Seen'
  BY <1>2, <1>5, SyncRefreshedIs
<1>6. ASSUME LandInProject(s) PROVE Belongs' /\ Seen'
  BY <1>2, <1>6, LandInProjectIs
<1>7. ASSUME SaveBegins(s) PROVE Belongs' /\ Seen'
  BY <1>3, <1>7, SaveBeginsIs
<1>8. ASSUME SaveRefreshed(s) PROVE Belongs' /\ Seen'
  BY <1>3, <1>8, SaveRefreshedIs
<1>9. ASSUME CreateAnswered(s) PROVE Belongs' /\ Seen'
  <2>1. \/ OpensOrEnds(s, "create", op[s].path, TRUE)
        \/ OpensOrEnds(s, "create", op[s].path, FALSE)
        \/ /\ UNCHANGED ed
           /\ \E new : Puts(s, new) /\ Light(new) /\ new.text = op[s].text
    BY <1>9, CreateAnsweredIs
  <2> QED
    BY <1>1, <1>2, <2>1, SameSelf, QuietLight
<1> QED
  BY <1>1, <1>4, <1>5, <1>6, <1>7, <1>8, <1>9

LEMMA SeenOfServed ==
    ASSUME Shape, Belongs, Seen, NEW s \in Slots, Served(s)
    PROVE  Belongs' /\ Seen' /\ UNCHANGED silent
<1> DEFINE o == op[s]
<1>1. UNCHANGED <<disk, ed, made, brought, silent>> /\ Same(ed', ed)
  BY ShapeOfServed, SameSelf
<1>2. o.text.n <= made /\ CarriesOwn(o) /\ LoadIsCurrent(o) /\ SaveIsKnown(o)
      /\ o \in Operation
  BY DEF Belongs, Seen, Numbered, Shape, OpsShape
<1>n. \A t : t.n = 0 => t.n <= made
  BY NoTextIs DEF Shape, RestShape
<1>m. NoText.n = 0
  BY NoTextIs
<1>3. ASSUME ServeStat(s) PROVE Belongs' /\ Seen'
  <2>1. PICK new : /\ Puts(s, new) /\ new.text = NoText /\ new.pc \in {"stat", "got"}
    BY <1>3, ServeStatIs
  <2>2. CarriesOwn(new) /\ LoadIsCurrent(new) /\ SaveIsKnown(new)
    BY <2>1 DEF CarriesOwn, LoadIsCurrent, SaveIsKnown, Serves, Of
  <2>3. new.text.n <= made
    BY <2>1, <1>n, <1>m
  <2> QED
    BY <1>1, <2>1, <2>2, <2>3, QuietStep
<1>4. ASSUME ServeRead(s) PROVE Belongs' /\ Seen'
  <2>1. PICK new : /\ Puts(s, new) /\ new.pc = "got" /\ new.at \in Projects
                   /\ new.path \in Paths /\ new.text = disk[new.at][new.path].text
    BY <1>4, ServeReadIs
  <2>2. CarriesOwn(new) /\ new.text.n <= made
    BY <2>1 DEF CarriesOwn, Belongs, Seen, Numbered
  <2>3. LoadIsCurrent(new) /\ SaveIsKnown(new)
    BY <2>1 DEF LoadIsCurrent, SaveIsKnown, Serves, Seen, SharedIsKnown
  <2> QED
    BY <1>1, <2>1, <2>2, <2>3, QuietStep
<1>5. ASSUME CheckSave(s) PROVE Belongs' /\ Seen'
  <2> DEFINE file == disk[session][o.path]
  <2>1. PICK new :
          /\ Puts(s, new) /\ Keeps(new, o) /\ new.text = o.text /\ new.at = session
          /\ \/ new.pc = "saved" /\ file.text = o.text
             \/ /\ new.pc = "checked"
                /\ o.force \/ ~o.based \/ file = NoFile \/ (o.at = session /\ o.fresh)
                /\ new.based = (o.based /\ ~o.force /\ file # NoFile)
             \/ Light(new)
    BY <1>5, CheckSaveIs
  <2>2. o.pc = "put" /\ session \in Projects /\ OpShape(o) /\ o.path \in Paths
    BY <1>5, OpIs DEF CheckSave, Shape, RestShape, None
  <2>3. /\ o.based = (o.kind = "save") /\ KnownAs(o.text, o.path)
        /\ o.kind \in {"save", "create"}
        /\ o.kind = "save" => Of(o.text, o.at)
        /\ o.kind = "save" /\ o.fresh => o.at \in Projects /\ disk[o.at][o.path].known
    <3>1. o.kind \in {"save", "create", None} /\ o.kind # None
      BY <1>2, <2>2, KindOf DEF OpShape, Serves, StepsOfKind, Idle, None
    <3>2. o.based = (o.kind = "save")
      BY <2>2 DEF OpShape, CarriesWhatItNeeds, Serves
    <3>3. /\ KnownAs(o.text, o.path)
          /\ o.kind = "save" /\ o.fresh => o.at \in Projects /\ disk[o.at][o.path].known
      BY <1>2, <2>2 DEF SaveIsKnown, Serves
    <3>4. o.kind = "save" => Of(o.text, o.at)
      BY <1>2, <2>2 DEF CarriesOwn
    <3> QED
      BY <3>1, <3>2, <3>3, <3>4
  <2>4. CASE Light(new)
    BY <1>1, <2>1, <2>4, QuietLight
  <2>5. CASE new.pc = "saved" /\ file.text = o.text
    <3>1. Of(o.text, session)
      BY <2>2, <2>5 DEF Belongs
    <3>2. disk[session][o.path].known
      BY <2>2, <2>3, <2>5 DEF KnownAs
    <3>3. CarriesOwn(new)
      BY <2>1, <3>1 DEF CarriesOwn
    <3>4. LoadIsCurrent(new) /\ SaveIsKnown(new)
      BY <2>1, <2>2, <2>3, <2>5, <3>2 DEF LoadIsCurrent, SaveIsKnown, Keeps
    <3> QED
      BY <1>1, <1>2, <2>1, <3>3, <3>4, QuietStep
  <2>6. CASE /\ new.pc = "checked"
             /\ o.force \/ ~o.based \/ file = NoFile \/ (o.at = session /\ o.fresh)
             /\ new.based = (o.based /\ ~o.force /\ file # NoFile)
    <3>1. NoFile.known
      BY DEF NoFile, File
    <3>2. new.based => Of(o.text, session)
      BY <2>3, <2>6 DEF KnownAs
    <3>3. CarriesOwn(new)
      BY <2>1, <2>6, <3>2 DEF CarriesOwn
    <3>4. o.kind = "save" /\ ~o.force => disk[session][o.path].known
      BY <2>2, <2>3, <2>6, <3>1
    <3>5. LoadIsCurrent(new) /\ SaveIsKnown(new)
      BY <2>1, <2>3, <2>6, <3>4 DEF LoadIsCurrent, SaveIsKnown, Keeps
    <3> QED
      BY <1>1, <1>2, <2>1, <3>3, <3>5, QuietStep
  <2> QED
    BY <2>1, <2>4, <2>5, <2>6
<1>6. ASSUME StatSaved(s) PROVE Belongs' /\ Seen'
  <2>1. PICK new :
          /\ Puts(s, new) /\ Keeps(new, o) /\ new.text = o.text /\ new.at = o.at
          /\ new.pc = "saved" \/ new.pc = "failed"
    BY <1>6, StatSavedIs
  <2>2. o.pc = "replaced" /\ o.at \in Projects
    BY <1>6, OpIs DEF StatSaved, Shape, OpShape, CarriesWhatItNeeds, None
  <2>3. CarriesOwn(new) /\ LoadIsCurrent(new) /\ SaveIsKnown(new)
    BY <1>2, <2>1, <2>2 DEF CarriesOwn, LoadIsCurrent, SaveIsKnown, Serves, Keeps
  <2> QED
    BY <1>1, <1>2, <2>1, <2>3, QuietStep
<1>7. ASSUME CreateProbed(s) PROVE Belongs' /\ Seen'
  <2>1. PICK new :
          /\ Puts(s, new)
          /\ \/ new = Idle
             \/ /\ new.kind = "create" /\ new.pc = "put" /\ new.text = Empty
                /\ new.path = o.path
    BY <1>7, CreateProbedIs
  <2>2. CASE new = Idle
    BY <1>1, <2>1, <2>2, IdleIs, QuietLight DEF Light, Serves, None
  <2>3. CASE new # Idle
    <3>1. Empty.n = 0 /\ NoFile.known
      BY DEF Empty, Text, NoFile, File
    <3>2. new.path \in Paths
      BY <1>7, <2>1, <2>3, OpIs DEF CreateProbed, Shape, None
    <3>3. KnownAs(Empty, new.path)
      BY <3>1, <3>2 DEF KnownAs, Seen, Numbered
    <3>4. CarriesOwn(new) /\ LoadIsCurrent(new) /\ SaveIsKnown(new)
      BY <2>1, <2>3, <3>1, <3>3 DEF CarriesOwn, LoadIsCurrent, SaveIsKnown
    <3>5. new.text.n <= made
      BY <1>n, <2>1, <2>3, <3>1
    <3> QED
      BY <1>1, <2>1, <2>3, <3>4, <3>5, QuietStep
  <2> QED
    BY <2>2, <2>3
<1>8. ASSUME \E new : Puts(s, new) /\ Light(new) /\ new.text = NoText PROVE Belongs' /\ Seen'
  BY <1>1, <1>8, QuietLight
<1>9. ASSUME NEW p \in Paths, CreateProjectTreeFile(s, p) PROVE Belongs' /\ Seen'
  BY <1>8, <1>9, CreateBeginsIs
<1>10. ASSUME NEW p \in Paths, NEW again \in BOOLEAN, SyncChangedPaths(s, p, again)
       PROVE  Belongs' /\ Seen'
  BY <1>8, <1>10, SyncBeginsIs
<1>11. ASSUME NEW P \in Projects, OpenProject(s, P) PROVE Belongs' /\ Seen'
  BY <1>8, <1>11, SwitchBeginsIs
<1> QED
  BY <1>1, <1>3, <1>4, <1>5, <1>6, <1>7, <1>9, <1>10, <1>11 DEF Served

\* A step that changes what the tabs show, by a text that belongs there and was
\* seen.
LEMMA TabsStep ==
    ASSUME Shape, Belongs, Seen, NEW s \in Slots, NEW new, Puts(s, new), Light(new),
           new.text = NoText \/ new.text = op[s].text, UNCHANGED <<disk, made, brought>>,
           \A p \in Paths :
             /\ Of(ed'.tabs[p].text, ed'.tabs[p].at) /\ KnownAs(ed'.tabs[p].text, p)
             /\ ed'.tabs[p].text.n <= made
             /\ ed'.tabs[p].fresh => /\ ed'.tabs[p].at \in Projects
                                     /\ disk[ed'.tabs[p].at][p].known
    PROVE  Belongs' /\ Seen'
<1>1. op'[s] = new /\ \A q \in Slots : q # s => op'[q] = op[q]
  BY PutsIs DEF Shape
<1>2. CarriesOwn(new) /\ LoadIsCurrent(new) /\ SaveIsKnown(new) /\ new.text.n <= made
  BY LightIs, NoTextIs DEF Seen, Numbered, Shape, RestShape
<1>3. \A q \in Slots : CarriesOwn(op'[q]) /\ LoadIsCurrent(op'[q]) /\ SaveIsKnown(op'[q])
                       /\ op'[q].text.n <= made
  BY <1>1, <1>2 DEF Belongs, Seen, Numbered
<1>4. \A q \in Slots : CarriesOwn(op[q])' /\ LoadIsCurrent(op[q])' /\ SaveIsKnown(op[q])'
  BY <1>3 DEF CarriesOwn, Of, LoadIsCurrent, SaveIsKnown, KnownAs
<1>5. Belongs'
  BY <1>4 DEF Belongs, Of
<1>6. Numbered' /\ SharedIsKnown'
  BY <1>3 DEF Seen, Numbered, SharedIsKnown
<1>7. \A p \in Paths : TabIsKnown(p)'
  BY DEF TabIsKnown, KnownAs
<1> QED
  BY <1>4, <1>5, <1>6, <1>7 DEF Seen

LEMMA SeenOfOthers ==
    ASSUME Shape, Belongs, Seen, NEW s \in Slots,
           SaveAnswered(s) \/ SaveRefused(s) \/ FinalizeProjectSwitch(s) \/ ServeOpenProject(s)
    PROVE  Belongs' /\ Seen' /\ UNCHANGED silent
<1>1. UNCHANGED <<disk, made, brought, silent>>
  BY ShapeOfOthers
<1>2. /\ Of(NoText, None) /\ NoText.n <= made /\ NoTab.text = NoText /\ NoTab.at = None
      /\ ~NoTab.fresh /\ \A p \in Paths : KnownAs(NoText, p)
  BY NoTextIs, ValuesAre DEF Of, Shape, RestShape
<1>3. ASSUME SaveAnswered(s) PROVE Belongs' /\ Seen'
  <2> DEFINE o == op[s]
             t == Tab(o.text, o.at, o.fresh)
  <2>1. /\ o.kind = "save" /\ o.pc = "saved" /\ o.path \in Paths /\ o.at \in Projects
        /\ ed'.tabs = [ed.tabs EXCEPT ![o.path] = IF IsOpen(ed, o.path) THEN t ELSE NoTab]
        /\ \E new : Puts(s, new) /\ Light(new) /\ new.text = o.text
    BY <1>3, SaveAnsweredIs
  <2>2. Of(o.text, o.at) /\ KnownAs(o.text, o.path) /\ o.text.n <= made
        /\ (o.fresh => disk[o.at][o.path].known)
    BY <2>1 DEF Belongs, CarriesOwn, Seen, Numbered, SaveIsKnown, Serves
  <2>3. t.text = o.text /\ t.at = o.at /\ t.fresh = o.fresh
    BY DEF Tab
  <2> HIDE DEF t
  <2>4. ASSUME NEW p \in Paths
        PROVE  /\ Of(ed'.tabs[p].text, ed'.tabs[p].at) /\ KnownAs(ed'.tabs[p].text, p)
               /\ ed'.tabs[p].text.n <= made
               /\ ed'.tabs[p].fresh => /\ ed'.tabs[p].at \in Projects
                                       /\ disk[ed'.tabs[p].at][p].known
    <3>1. CASE p = o.path
      <4>1. ed'.tabs[p] = t \/ ed'.tabs[p] = NoTab
        BY <2>1, <3>1 DEF Shape, TabsShape, Editors
      <4> QED
        BY <1>2, <2>1, <2>2, <2>3, <3>1, <4>1
    <3>2. CASE p # o.path
      <4>1. ed'.tabs[p] = ed.tabs[p]
        BY <2>1, <3>2 DEF Shape, TabsShape, Editors
      <4> QED
        BY <4>1 DEF Belongs, Seen, Numbered, TabIsKnown
    <3> QED
      BY <3>1, <3>2
  <2> QED
    BY <1>1, <2>1, <2>4, TabsStep
<1>4. ASSUME SaveRefused(s) PROVE Belongs' /\ Seen'
  <2>1. Puts(s, Idle) /\ Same(ed', ed)
    BY <1>4, SaveRefusedIs
  <2>2. Light(Idle) /\ Idle.text = NoText
    BY IdleIs DEF Light, Serves, None
  <2> QED
    BY <1>1, <2>1, <2>2, QuietLight
<1>5. ASSUME FinalizeProjectSwitch(s) PROVE Belongs' /\ Seen'
  <2>1. /\ \A p \in Paths : ed'.tabs[p] = NoTab
        /\ \E new : Puts(s, new) /\ Light(new) /\ new.text = op[s].text
    BY <1>5, FinalizeIs
  <2> QED
    BY <1>1, <1>2, <2>1, TabsStep
<1>6. ASSUME ServeOpenProject(s) PROVE Belongs' /\ Seen'
  <2>1. \/ Puts(s, Idle)
        \/ \E new : Puts(s, new) /\ Light(new) /\ new.text = op[s].text
    BY <1>6, ServeOpenProjectIs
  <2>2. Light(Idle) /\ Idle.text = NoText /\ Same(ed', ed)
    BY <1>6, IdleIs, SameSelf DEF Light, Serves, None, ServeOpenProject
  <2> QED
    BY <1>1, <2>1, <2>2, QuietLight
<1> QED
  BY <1>1, <1>3, <1>4, <1>5, <1>6

\* What was seen stays seen.
MoreKnown ==
    \A S \in Projects, p \in Paths : disk[S][p].known => disk'[S][p].known

LEMMA KnownAtIs ==
    ASSUME Shape, NEW s \in Slots
    PROVE  LET o == op[s] IN
           /\ o.pc # None => o.path \in Paths
           /\ o.pc = "got" /\ o.text # NoText => o.at \in Projects
           /\ o.pc \in {"checked", "replaced"} => o.at \in Projects
BY OpIs DEF Shape, OpShape, CarriesWhatItNeeds, Serves

LEMMA LoadAnsweredSeen ==
    ASSUME Shape, Belongs, Seen, NEW s \in Slots, LoadAnswered(s)
    PROVE  Belongs' /\ Seen' /\ UNCHANGED silent
<1> DEFINE o == op[s]
           e == Loaded(ed, s, o)
           t == Tab(o.text, o.at, o.fresh)
<1>1. UNCHANGED <<made, brought, silent>>
  BY DEF LoadAnswered, history
<1>2. /\ o.pc = "got" /\ o.path \in Paths /\ TabsShape(e) /\ Same(ed', e)
      /\ disk' = IF Shows(ed, s, o) /\ disk[o.at][o.path].text = o.text
                 THEN [disk EXCEPT ![o.at][o.path].known = TRUE] ELSE disk
      /\ \E new : Puts(s, new) /\ Light(new) /\ new.text = NoText
  <2>1. Light(Idle) /\ Idle.text = NoText
    BY IdleIs DEF Light, Serves, None
  <2> QED
    BY <2>1, LoadAnsweredIs DEF Goes
<1>3. Shows(ed, s, o) => /\ o.at \in Projects /\ o.text # NoText
                         /\ e.tabs = [ed.tabs EXCEPT ![o.path] = t]
  BY <1>2, LoadedIs
<1>4. ~Shows(ed, s, o) => e.tabs = ed.tabs
  BY <1>2, LoadedIs
<1>5. /\ \A S \in Projects, p \in Paths : disk'[S][p].text = disk[S][p].text
      /\ MoreKnown
      /\ Shows(ed, s, o) /\ disk[o.at][o.path].text = o.text => disk'[o.at][o.path].known
  <2>1. disk \in [Projects -> [Paths -> [text : Texts, known : BOOLEAN]]]
    BY DEF Shape, DiskShape
  <2> HIDE DEF o
  <2> QED
    BY <1>2, <1>3, <2>1 DEF MoreKnown
<1>6. PICK new : Puts(s, new) /\ Light(new) /\ new.text = NoText
  BY <1>2
<1>7. op'[s] = new /\ \A q \in Slots : q # s => op'[q] = op[q]
  BY <1>6, PutsIs DEF Shape
<1>8. CarriesOwn(new)' /\ LoadIsCurrent(new)' /\ SaveIsKnown(new)' /\ new.text.n <= made
  BY <1>6, NoTextIs DEF Light, CarriesOwn, LoadIsCurrent, SaveIsKnown, Serves, Shape, RestShape
<1>9. ASSUME NEW q \in Slots, q # s
      PROVE  /\ CarriesOwn(op[q])' /\ LoadIsCurrent(op[q])' /\ SaveIsKnown(op[q])'
             /\ op'[q].text.n <= made
  <2>1. CarriesOwn(op[q]) /\ LoadIsCurrent(op[q]) /\ SaveIsKnown(op[q]) /\ op'[q] = op[q]
        /\ op[q].text.n <= made
    BY <1>7, <1>9 DEF Belongs, Seen, Numbered
  <2>2. CarriesOwn(op[q])'
    BY <1>1, <2>1 DEF CarriesOwn, Of
  <2>3. LoadIsCurrent(op[q])'
    BY <1>5, <2>1, KnownAtIs DEF LoadIsCurrent, MoreKnown, None
  <2>4. SaveIsKnown(op[q])'
    BY <1>5, <2>1, KnownAtIs DEF SaveIsKnown, KnownAs, MoreKnown, None, Serves
  <2> QED
    BY <2>1, <2>2, <2>3, <2>4
<1>10. ASSUME NEW p \in Paths
       PROVE  /\ Of(ed.tabs[p].text, ed.tabs[p].at)' /\ TabIsKnown(p)'
              /\ ed'.tabs[p].text.n <= made
  <2>1. /\ ed'.tabs[p].text = e.tabs[p].text /\ ed'.tabs[p].at = e.tabs[p].at
        /\ ed'.tabs[p].fresh = e.tabs[p].fresh
    BY <1>2 DEF Same
  <2>2. CASE Shows(ed, s, o) /\ p = o.path
    <3>1. e.tabs[p] = t /\ t.text = o.text /\ t.at = o.at /\ t.fresh = o.fresh
      BY <1>3, <2>2 DEF Shape, TabsShape, Editors, Tab
    <3>2. LoadIsCurrent(o) /\ CarriesOwn(o) /\ o.text.n <= made
      BY DEF Belongs, Seen, Numbered
    <3>3. Of(o.text, o.at)
      BY <1>2, <3>2 DEF CarriesOwn
    <3>4. \A S \in Projects : disk'[S][p].text = o.text => disk'[S][p].known
      <4>1. ASSUME NEW S \in Projects, disk[S][p].text = o.text, S # o.at PROVE disk[S][p].known
        BY <1>2, <1>3, <2>2, <3>2, <4>1 DEF LoadIsCurrent
      <4> QED
        BY <1>2, <1>3, <1>5, <2>2, <4>1 DEF MoreKnown
    <3>5. o.fresh => o.at \in Projects /\ disk'[o.at][p].known
      BY <1>2, <1>3, <1>5, <2>2, <3>2 DEF LoadIsCurrent
    <3> QED
      BY <1>1, <2>1, <3>1, <3>2, <3>3, <3>4, <3>5 DEF Of, TabIsKnown, KnownAs
  <2>3. CASE ~(Shows(ed, s, o) /\ p = o.path)
    <3>1. e.tabs[p] = ed.tabs[p]
      BY <1>3, <1>4, <2>3 DEF Shape, TabsShape, Editors
    <3>2. TabIsKnown(p) /\ Of(ed.tabs[p].text, ed.tabs[p].at) /\ ed.tabs[p].text.n <= made
      BY DEF Belongs, Seen, Numbered
    <3> QED
      BY <1>1, <1>5, <2>1, <3>1, <3>2 DEF Of, TabIsKnown, KnownAs, MoreKnown
  <2> QED
    BY <2>2, <2>3
<1>11. Belongs'
  <2>1. \A q \in Slots : CarriesOwn(op[q])'
    BY <1>7, <1>8, <1>9 DEF CarriesOwn, Of
  <2> QED
    BY <1>1, <1>5, <1>10, <2>1 DEF Belongs, Of
<1>12. Numbered' /\ SharedIsKnown'
  <2>1. \A q \in Slots : op'[q].text.n <= made
    BY <1>7, <1>8, <1>9
  <2> QED
    BY <1>1, <1>5, <1>10, <2>1 DEF Seen, Numbered, SharedIsKnown, MoreKnown
<1>13. \A q \in Slots : LoadIsCurrent(op[q])' /\ SaveIsKnown(op[q])'
  BY <1>7, <1>8, <1>9 DEF LoadIsCurrent, SaveIsKnown, KnownAs
<1> QED
  BY <1>1, <1>10, <1>11, <1>12, <1>13 DEF Seen

LEMMA TypeSeen ==
    ASSUME Shape, Belongs, Seen, NEW p \in Paths, Type(p)
    PROVE  Belongs' /\ Seen' /\ UNCHANGED silent
<1> DEFINE text == Text(made + 1, ed.tabs[p].at)
<1>1. UNCHANGED <<disk, op, brought, silent>> /\ made \in Nat
  BY DEF Type, Shape, RestShape
<1>2. /\ text.n = made + 1 /\ text.of = ed.tabs[p].at /\ made' = made + 1
      /\ ed'.tabs[p].text = text /\ ed'.tabs[p].at = ed.tabs[p].at
      /\ ed'.tabs[p].fresh = ed.tabs[p].fresh
      /\ \A q \in Paths : q # p => ed'.tabs[q] = ed.tabs[q]
  BY TypeIs
<1> HIDE DEF text
<1>3. Belongs'
  <2>1. \A s \in Slots : CarriesOwn(op[s])'
    BY <1>1 DEF Belongs, CarriesOwn, Of
  <2> QED
    BY <1>1, <1>2, <2>1 DEF Belongs, Of
<1>4. \A S \in Projects : disk[S][p].text # text
  <2>1. \A S \in Projects : disk[S][p].text.n <= made /\ disk[S][p].text \in Texts
    BY DEF Seen, Numbered, Shape, DiskShape
  <2> QED
    BY <1>1, <1>2, <2>1 DEF Texts
<1>5. ASSUME NEW q \in Paths PROVE TabIsKnown(q)'
  BY <1>1, <1>2, <1>4 DEF Seen, TabIsKnown, KnownAs
<1>6. \A s \in Slots : LoadIsCurrent(op[s])' /\ SaveIsKnown(op[s])'
  BY <1>1 DEF Seen, LoadIsCurrent, SaveIsKnown, KnownAs
<1>7. ASSUME NEW t \in Texts, t.n <= made PROVE t.n <= made'
  BY <1>1, <1>2, <1>7 DEF Texts
<1>8. Numbered'
  <2>1. /\ \A S \in Projects, q \in Paths : disk[S][q].text \in Texts
        /\ \A q \in Paths : ed.tabs[q].text \in Texts
        /\ \A s \in Slots : op[s].text \in Texts
    BY DEF Shape, DiskShape, TabsShape, Editors, Tabs, OpsShape, Operation
  <2>2. text.n <= made'
    BY <1>1, <1>2
  <2> QED
    BY <1>1, <1>2, <1>7, <2>1, <2>2 DEF Seen, Numbered
<1> QED
  BY <1>1, <1>3, <1>5, <1>6, <1>8 DEF Seen, SharedIsKnown

LEMMA ReplaceFileSeen ==
    ASSUME Shape, Belongs, Seen, NEW s \in Slots, ReplaceFile(s)
    PROVE  Belongs' /\ Seen' /\ (NoSilentOverwrite => NoSilentOverwrite')
<1> DEFINE o == op[s]
<1>1. /\ o.pc = "checked" /\ o.at \in Projects /\ o.path \in Paths
      /\ Wrote(o.at, o.path, File(o.text, TRUE))
      /\ brought' = IF o.based THEN brought ELSE brought \cup {<<o.text, o.at>>}
      /\ silent' = (silent \/ (o.kind = "save" /\ ~o.force /\ ~disk[o.at][o.path].known))
      /\ op'[s].pc = "replaced" /\ Keeps(op'[s], o) /\ op'[s].text = o.text /\ op'[s].at = o.at
      /\ \A q \in Slots : q # s => op'[q] = AgedOps(o.at, o.path)[q]
  BY ReplaceFileIs
<1>2. made' = made
  BY DEF ReplaceFile
<1>3. CarriesOwn(o) /\ SaveIsKnown(o) /\ o.text.n <= made
  BY DEF Belongs, Seen, Numbered
<1>4. KnownAs(o.text, o.path) /\ (o.kind = "save" /\ ~o.force => disk[o.at][o.path].known)
  BY <1>1, <1>3 DEF SaveIsKnown, Serves
<1>5. /\ disk'[o.at][o.path].text = o.text /\ disk'[o.at][o.path].known
      /\ \A T \in Projects, q \in Paths :
           T # o.at \/ q # o.path => disk'[T][q] = disk[T][q]
  BY <1>1 DEF Wrote, File
<1>6. MoreKnown
  BY <1>5 DEF MoreKnown
<1>7. ASSUME NEW text, NEW q \in Paths, KnownAs(text, q)
      PROVE  \A T \in Projects : disk'[T][q].text = text => disk'[T][q].known
  BY <1>5, <1>7 DEF KnownAs
<1>8. \A text, S : Of(text, S) => (text # NoText => text.of = S \/ <<text, S>> \in brought')
  BY <1>1 DEF Of
<1>9. o.text # NoText => o.text.of = o.at \/ <<o.text, o.at>> \in brought'
  BY <1>1, <1>3, <1>8 DEF CarriesOwn
<1>10. ASSUME NEW q \in Slots, q # s
       PROVE  /\ CarriesOwn(op[q])' /\ LoadIsCurrent(op[q])' /\ SaveIsKnown(op[q])'
              /\ op'[q].text.n <= made
  <2> DEFINE r == op[q]
             n == AgedOps(o.at, o.path)[q]
  <2>1. /\ Keeps(n, r) /\ n.pc = r.pc /\ n.text = r.text /\ n.at = r.at /\ n.based = r.based
        /\ n.fresh => r.fresh /\ ~(r.path = o.path /\ r.at = o.at)
    BY <1>1, AgedIs
  <2>2. op'[q] = n
    BY <1>1, <1>10
  <2>3. CarriesOwn(r) /\ LoadIsCurrent(r) /\ SaveIsKnown(r) /\ r.text.n <= made
    BY DEF Belongs, Seen, Numbered
  <2>4. /\ r.pc # None => r.path \in Paths
        /\ r.pc = "got" /\ r.text # NoText => r.at \in Projects
        /\ r.pc \in {"checked", "replaced"} => r.at \in Projects
    BY KnownAtIs
  <2> HIDE DEF n, r
  <2>5. CarriesOwn(op[q])'
    BY <1>8, <2>1, <2>2, <2>3 DEF CarriesOwn, Of, Keeps
  <2>6. LoadIsCurrent(op[q])'
    <3> SUFFICES ASSUME n.pc = "got", n.text # NoText
                 PROVE  /\ n.fresh => disk'[n.at][n.path].text = n.text
                        /\ \A T \in Projects \ {n.at} :
                             disk'[T][n.path].text = n.text => disk'[T][n.path].known
      BY <2>2 DEF LoadIsCurrent
    <3>1. n.at = r.at /\ n.path = r.path /\ n.at \in Projects /\ n.path \in Paths
      BY <2>1, <2>4 DEF Keeps, None
    <3>2. n.fresh => disk'[n.at][n.path].text = n.text
      BY <1>5, <2>1, <2>3, <3>1 DEF LoadIsCurrent
    <3>3. ASSUME NEW T \in Projects \ {n.at}, disk'[T][n.path].text = n.text
          PROVE  disk'[T][n.path].known
      BY <1>5, <2>1, <2>3, <3>1, <3>3 DEF LoadIsCurrent
    <3> QED
      BY <3>2, <3>3
  <2>7. SaveIsKnown(op[q])'
    <3>1. /\ n.kind = r.kind /\ n.path = r.path /\ n.force = r.force
      BY <2>1 DEF Keeps
    <3>2. n.pc \in Serves => n.path \in Paths
      BY <2>1, <2>4, <3>1 DEF None, Serves
    <3>3. n.pc \in Serves =>
            \A T \in Projects : disk'[T][n.path].text = n.text => disk'[T][n.path].known
      BY <1>7, <2>1, <2>3, <3>1, <3>2 DEF SaveIsKnown
    <3>4. n.kind = "save" /\ n.pc \in {"put", "saved"} /\ n.fresh =>
            n.at \in Projects /\ disk'[n.at][n.path].known
      BY <1>6, <2>1, <2>3, <3>1, <3>2 DEF SaveIsKnown, MoreKnown, Serves
    <3>5. n.kind = "save" /\ n.pc = "checked" /\ ~n.force => disk'[n.at][n.path].known
      BY <1>6, <2>1, <2>3, <2>4, <3>1, <3>2 DEF SaveIsKnown, MoreKnown, Serves
    <3>6. n.kind = "save" /\ n.pc = "replaced" => disk'[n.at][n.path].known
      BY <1>6, <2>1, <2>3, <2>4, <3>1, <3>2 DEF SaveIsKnown, MoreKnown, Serves
    <3> QED
      BY <2>2, <3>3, <3>4, <3>5, <3>6 DEF SaveIsKnown, KnownAs
  <2> QED
    BY <2>1, <2>2, <2>3, <2>5, <2>6, <2>7
<1>11. /\ CarriesOwn(op[s])' /\ LoadIsCurrent(op[s])' /\ SaveIsKnown(op[s])'
       /\ op'[s].text.n <= made
  <2>1. op'[s].path = o.path
    BY <1>1 DEF Keeps
  <2>2. CarriesOwn(op[s])'
    BY <1>1, <1>9 DEF CarriesOwn, Of
  <2>3. LoadIsCurrent(op[s])' /\ SaveIsKnown(op[s])'
    <3>1. \A T \in Projects : disk'[T][o.path].text = o.text => disk'[T][o.path].known
      BY <1>1, <1>4, <1>7
    <3>2. LoadIsCurrent(op[s])'
      BY <1>1 DEF LoadIsCurrent
    <3>3. SaveIsKnown(op[s])'
      BY <1>1, <1>5, <2>1, <3>1 DEF SaveIsKnown, KnownAs
    <3> QED
      BY <3>2, <3>3
  <2> QED
    BY <1>1, <1>3, <2>2, <2>3
<1>12. ASSUME NEW q \in Paths
       PROVE  /\ Of(ed.tabs[q].text, ed.tabs[q].at)' /\ TabIsKnown(q)'
              /\ ed'.tabs[q].text.n <= made
  <2>1. /\ ed'.tabs[q].text = ed.tabs[q].text /\ ed'.tabs[q].at = ed.tabs[q].at
        /\ ed'.tabs[q].fresh => ed.tabs[q].fresh
    BY <1>1 DEF Wrote
  <2>2. TabIsKnown(q) /\ Of(ed.tabs[q].text, ed.tabs[q].at) /\ ed.tabs[q].text.n <= made
    BY DEF Belongs, Seen, Numbered
  <2>3. \A T \in Projects : disk'[T][q].text = ed'.tabs[q].text => disk'[T][q].known
    BY <1>7, <2>1, <2>2 DEF TabIsKnown
  <2>4. ed'.tabs[q].fresh => ed'.tabs[q].at \in Projects /\ disk'[ed'.tabs[q].at][q].known
    BY <1>6, <2>1, <2>2 DEF TabIsKnown, MoreKnown
  <2>5. Of(ed.tabs[q].text, ed.tabs[q].at)'
    BY <1>8, <2>1, <2>2 DEF Of
  <2> QED
    BY <2>1, <2>2, <2>3, <2>4, <2>5 DEF TabIsKnown, KnownAs
<1>13. Belongs'
  <2>1. ASSUME NEW T \in Projects, NEW q \in Paths PROVE Of(disk[T][q].text, T)'
    BY <1>5, <1>8, <1>9 DEF Belongs, Of
  <2>2. \A q \in Slots : CarriesOwn(op[q])'
    BY <1>10, <1>11
  <2> QED
    BY <1>12, <2>1, <2>2 DEF Belongs
<1>14. Numbered'
  <2>1. ASSUME NEW T \in Projects, NEW q \in Paths
        PROVE  disk'[T][q].text.n <= made /\ (disk'[T][q].text.n = 0 => disk'[T][q].known)
    BY <1>3, <1>5 DEF Seen, Numbered
  <2>2. \A q \in Slots : op'[q].text.n <= made
    BY <1>10, <1>11
  <2> QED
    BY <1>2, <1>12, <2>1, <2>2 DEF Numbered
<1>15. SharedIsKnown'
  <2> SUFFICES ASSUME NEW A \in Projects, NEW B \in Projects, NEW q \in Paths,
                      A # B, disk'[A][q].text = disk'[B][q].text
               PROVE  disk'[A][q].known
    BY DEF SharedIsKnown
  <2>1. CASE q = o.path /\ A = o.at
    BY <1>5, <2>1
  <2>2. CASE q = o.path /\ B = o.at
    BY <1>4, <1>5, <2>2 DEF KnownAs
  <2>3. CASE q # o.path \/ (A # o.at /\ B # o.at)
    BY <1>5, <2>3 DEF Seen, SharedIsKnown
  <2> QED
    BY <2>1, <2>2, <2>3
<1>16. NoSilentOverwrite => NoSilentOverwrite'
  BY <1>1, <1>4 DEF NoSilentOverwrite
<1>17. \A q \in Slots : LoadIsCurrent(op[q])' /\ SaveIsKnown(op[q])'
  BY <1>10, <1>11
<1> QED
  BY <1>12, <1>13, <1>14, <1>15, <1>16, <1>17 DEF Seen

LEMMA AgentWritesSeen ==
    ASSUME Shape, Belongs, Seen, NEW S \in Projects, NEW p \in Paths, AgentWrites(S, p)
    PROVE  Belongs' /\ Seen' /\ UNCHANGED silent
<1> DEFINE text == Text(made + 1, S)
<1>1. /\ text \in Texts /\ text.n = made + 1 /\ text.of = S /\ made' = made + 1
      /\ Wrote(S, p, File(text, BeingSaved(S, p))) /\ op' = AgedOps(S, p)
  BY AgentWritesIs
<1>2. UNCHANGED <<brought, silent>> /\ made \in Nat
  BY DEF AgentWrites, history, Shape, RestShape
<1> HIDE DEF text
<1>3. /\ disk'[S][p].text = text /\ disk'[S][p].known = BeingSaved(S, p)
      /\ \A T \in Projects, q \in Paths : T # S \/ q # p => disk'[T][q] = disk[T][q]
  BY <1>1 DEF Wrote, File
<1>4. ASSUME NEW t \in Texts, t.n <= made PROVE t # text /\ t.n <= made'
  BY <1>1, <1>2, <1>4 DEF Texts
<1>5. ASSUME NEW t \in Texts, t.n <= made, NEW q \in Paths, KnownAs(t, q)
      PROVE  \A T \in Projects : disk'[T][q].text = t => disk'[T][q].known
  BY <1>3, <1>4, <1>5 DEF KnownAs
<1>6. ASSUME NEW s \in Slots
      PROVE  /\ CarriesOwn(op[s])' /\ LoadIsCurrent(op[s])' /\ SaveIsKnown(op[s])'
             /\ op'[s].text.n <= made'
  <2> DEFINE r == op[s]
             n == AgedOps(S, p)[s]
  <2>1. /\ Keeps(n, r) /\ n.pc = r.pc /\ n.text = r.text /\ n.at = r.at /\ n.based = r.based
        /\ n.fresh => r.fresh /\ ~(r.path = p /\ r.at = S)
    BY AgedIs
  <2>2. op'[s] = n
    BY <1>1
  <2>3. CarriesOwn(r) /\ LoadIsCurrent(r) /\ SaveIsKnown(r) /\ r.text.n <= made /\ r.text \in Texts
    BY DEF Belongs, Seen, Numbered, Shape, OpsShape, Operation
  <2>4. /\ r.pc # None => r.path \in Paths
        /\ r.pc = "got" /\ r.text # NoText => r.at \in Projects
        /\ r.pc \in {"checked", "replaced"} => r.at \in Projects
    BY KnownAtIs
  <2>b. \/ BeingSaved(S, p)
        \/ ~(r.kind = "save" /\ r.path = p /\ r.at = S /\ r.pc \in {"checked", "replaced"})
    BY DEF BeingSaved
  <2> HIDE DEF n, r
  <2>5. CarriesOwn(op[s])'
    BY <1>2, <2>1, <2>2, <2>3 DEF CarriesOwn, Of, Keeps
  <2>k. /\ n.kind = r.kind /\ n.path = r.path /\ n.force = r.force
    BY <2>1 DEF Keeps
  <2>6. LoadIsCurrent(op[s])'
    <3> SUFFICES ASSUME n.pc = "got", n.text # NoText
                 PROVE  /\ n.fresh => disk'[n.at][n.path].text = n.text
                        /\ \A T \in Projects \ {n.at} :
                             disk'[T][n.path].text = n.text => disk'[T][n.path].known
      BY <2>2 DEF LoadIsCurrent
    <3>1. n.at = r.at /\ n.path = r.path /\ n.at \in Projects /\ n.path \in Paths
      BY <2>1, <2>4, <2>k DEF None
    <3>2. n.fresh => disk'[n.at][n.path].text = n.text
      BY <1>3, <2>1, <2>3, <3>1 DEF LoadIsCurrent
    <3>3. ASSUME NEW T \in Projects \ {n.at}, disk'[T][n.path].text = n.text
          PROVE  disk'[T][n.path].known
      <4>1. ~(T = S /\ n.path = p)
        BY <1>3, <1>4, <2>1, <2>3, <3>3
      <4> QED
        BY <1>3, <2>1, <2>3, <3>1, <3>3, <4>1 DEF LoadIsCurrent
    <3> QED
      BY <3>2, <3>3
  <2>7. SaveIsKnown(op[s])'
    <3>2. n.pc \in Serves => n.path \in Paths
      BY <2>1, <2>4, <2>k DEF None, Serves
    <3>3. n.pc \in Serves =>
            \A T \in Projects : disk'[T][n.path].text = n.text => disk'[T][n.path].known
      BY <1>5, <2>1, <2>3, <2>k, <3>2 DEF SaveIsKnown
    <3>4. n.kind = "save" /\ n.pc \in {"put", "saved"} /\ n.fresh =>
            n.at \in Projects /\ disk'[n.at][n.path].known
      BY <1>3, <2>1, <2>3, <2>k, <3>2 DEF SaveIsKnown, Serves
    <3>5. n.kind = "save" /\ n.pc = "checked" /\ ~n.force => disk'[n.at][n.path].known
      BY <1>3, <2>1, <2>3, <2>4, <2>b, <2>k, <3>2 DEF SaveIsKnown, Serves
    <3>6. n.kind = "save" /\ n.pc = "replaced" => disk'[n.at][n.path].known
      BY <1>3, <2>1, <2>3, <2>4, <2>b, <2>k, <3>2 DEF SaveIsKnown, Serves
    <3> QED
      BY <2>2, <3>3, <3>4, <3>5, <3>6 DEF SaveIsKnown, KnownAs
  <2> QED
    BY <1>4, <2>1, <2>2, <2>3, <2>5, <2>6, <2>7
<1>7. ASSUME NEW q \in Paths
      PROVE  /\ Of(ed.tabs[q].text, ed.tabs[q].at)' /\ TabIsKnown(q)'
             /\ ed'.tabs[q].text.n <= made'
  <2>1. /\ ed'.tabs[q].text = ed.tabs[q].text /\ ed'.tabs[q].at = ed.tabs[q].at
        /\ ed'.tabs[q].fresh => ed.tabs[q].fresh /\ ~(q = p /\ ed.tabs[q].at = S)
    BY <1>1 DEF Wrote
  <2>2. TabIsKnown(q) /\ Of(ed.tabs[q].text, ed.tabs[q].at) /\ ed.tabs[q].text.n <= made
        /\ ed.tabs[q].text \in Texts
    BY DEF Belongs, Seen, Numbered, Shape, TabsShape, Editors, Tabs
  <2>3. \A T \in Projects : disk'[T][q].text = ed'.tabs[q].text => disk'[T][q].known
    BY <1>5, <2>1, <2>2 DEF TabIsKnown
  <2>4. ed'.tabs[q].fresh => ed'.tabs[q].at \in Projects /\ disk'[ed'.tabs[q].at][q].known
    BY <1>3, <2>1, <2>2 DEF TabIsKnown
  <2>5. Of(ed.tabs[q].text, ed.tabs[q].at)'
    BY <1>2, <2>1, <2>2 DEF Of
  <2>6. ed'.tabs[q].text.n <= made'
    BY <1>4, <2>1, <2>2
  <2> QED
    BY <2>3, <2>4, <2>5, <2>6 DEF TabIsKnown, KnownAs
<1>8. Belongs'
  <2>1. ASSUME NEW T \in Projects, NEW q \in Paths PROVE Of(disk[T][q].text, T)'
    BY <1>1, <1>2, <1>3 DEF Belongs, Of
  <2> QED
    BY <1>6, <1>7, <2>1 DEF Belongs
<1>9. Numbered'
  <2>1. ASSUME NEW T \in Projects, NEW q \in Paths
        PROVE  disk'[T][q].text.n <= made' /\ (disk'[T][q].text.n = 0 => disk'[T][q].known)
    <3>1. CASE T = S /\ q = p
      BY <1>1, <1>2, <1>3, <3>1
    <3>2. CASE ~(T = S /\ q = p)
      <4>1. disk[T][q].text \in Texts
        BY DEF Shape, DiskShape
      <4> QED
        BY <1>3, <1>4, <3>2, <4>1 DEF Seen, Numbered
    <3> QED
      BY <3>1, <3>2
  <2> QED
    BY <1>6, <1>7, <2>1 DEF Numbered
<1>10. SharedIsKnown'
  <2> SUFFICES ASSUME NEW A \in Projects, NEW B \in Projects, NEW q \in Paths,
                      A # B, disk'[A][q].text = disk'[B][q].text
               PROVE  disk'[A][q].known
    BY DEF SharedIsKnown
  <2>1. disk[A][q].text # text /\ disk[B][q].text # text
    <3>1. disk[A][q].text \in Texts /\ disk[B][q].text \in Texts
      BY DEF Shape, DiskShape
    <3> QED
      BY <1>4, <3>1 DEF Seen, Numbered
  <2>2. q # p \/ (A # S /\ B # S)
    BY <1>3, <2>1
  <2> QED
    BY <1>3, <2>2 DEF Seen, SharedIsKnown
<1> QED
  BY <1>2, <1>6, <1>7, <1>8, <1>9, <1>10 DEF Seen

LEMMA SeenStep == SeenInv /\ [Next]_vars => SeenInv'
<1> SUFFICES ASSUME SeenInv, [Next]_vars PROVE SeenInv'
  OBVIOUS
<1> USE DEF SeenInv
<1>1. ASSUME NEW s \in Slots,
             \/ \E p \in Paths : OpenDocument(s, p)
             \/ SyncRefreshed(s) \/ CreateAnswered(s) \/ LandInProject(s)
             \/ SaveBegins(s) \/ SaveRefreshed(s)
      PROVE  SeenInv'
  BY <1>1, ShapeOfEditor, SeenOfEditor DEF NoSilentOverwrite
<1>2. ASSUME NEW s \in Slots, Served(s) PROVE SeenInv'
  BY <1>2, ShapeOfServed, SeenOfServed DEF NoSilentOverwrite
<1>3. ASSUME NEW s \in Slots,
             SaveAnswered(s) \/ SaveRefused(s) \/ FinalizeProjectSwitch(s) \/ ServeOpenProject(s)
      PROVE  SeenInv'
  BY <1>3, ShapeOfOthers, SeenOfOthers DEF NoSilentOverwrite
<1>4. ASSUME NEW s \in Slots, LoadAnswered(s) PROVE SeenInv'
  BY <1>4, ShapeOfLoadAnswered, LoadAnsweredSeen DEF NoSilentOverwrite
<1>5. ASSUME NEW s \in Slots, ReplaceFile(s) PROVE SeenInv'
  BY <1>5, ShapeOfWriters, ReplaceFileSeen
<1>6. ASSUME NEW p \in Paths, Type(p) PROVE SeenInv'
  BY <1>6, ShapeOfWriters, TypeSeen DEF NoSilentOverwrite
<1>7. ASSUME NEW p \in Paths, NEW S \in Projects, AgentWrites(S, p) PROVE SeenInv'
  BY <1>7, ShapeOfWriters, AgentWritesSeen DEF NoSilentOverwrite
<1>8. CASE UNCHANGED vars
  <2>1. UNCHANGED vars /\ Shape /\ Belongs /\ Seen /\ NoSilentOverwrite
    BY <1>8
  <2>2. UNCHANGED <<session, disk, view, ed, switching, op, reported, made, started, draft, raced,
                    brought, silent>>
    BY <2>1 DEF vars, history
  <2>3. Shape'
    BY <2>1, <2>2 DEF Shape, RestShape, DiskShape, OpsShape, OpShape, StepsOfKind,
                      CarriesWhatItNeeds
  <2>4. Belongs'
    BY <2>1, <2>2 DEF Belongs, CarriesOwn, Of
  <2>5. \A s \in Slots : LoadIsCurrent(op[s])' /\ SaveIsKnown(op[s])'
    BY <2>1, <2>2 DEF Seen, LoadIsCurrent, SaveIsKnown, KnownAs
  <2>6. Numbered' /\ SharedIsKnown' /\ \A p \in Paths : TabIsKnown(p)'
    BY <2>1, <2>2 DEF Seen, Numbered, SharedIsKnown, TabIsKnown, KnownAs
  <2> QED
    BY <2>1, <2>2, <2>3, <2>4, <2>5, <2>6 DEF Seen, NoSilentOverwrite
<1> QED
  BY <1>1, <1>2, <1>3, <1>4, <1>5, <1>6, <1>7, <1>8 DEF Next, Served, SaveBegins

\* The invariant of the texts: where each belongs, and which of them were seen.
THEOREM SeenInvariance == Spec => []SeenInv
<1>1. Init => SeenInv
  BY InitShape, InitSeen DEF SeenInv
<1> QED
  BY <1>1, SeenStep, PTL DEF Spec

\* Every variable keeps its shape.
THEOREM TypeCorrect == Spec => []TypeOK
<1>1. SeenInv => TypeOK
  BY DEF SeenInv, Shape, RestShape, DiskShape, OpsShape, TabsShape, TypeOK
<1> QED
  BY <1>1, SeenInvariance, PTL

\* However requests and switches overlap, a text comes into a file of another
\* project only by a confirmed save or as a new file.
THEOREM SavedWhereItBelongsAlways == Spec => []SavedWhereItBelongs
<1>1. SeenInv => SavedWhereItBelongs
  BY DEF SeenInv, Shape, DiskShape, Belongs, Of, SavedWhereItBelongs
<1> QED
  BY <1>1, SeenInvariance, PTL

\* However operations overlap, no unconfirmed save of a tab replaces a text that
\* was not shown, but one that was written between the comparison of such a save
\* and the time it takes of the file.  (Of the save of a new document, which has
\* no base, nothing is said.)
THEOREM NoSilentOverwriteAlways == Spec => []NoSilentOverwrite
<1>1. SeenInv => NoSilentOverwrite
  BY DEF SeenInv
<1> QED
  BY <1>1, SeenInvariance, PTL

-----------------------------------------------------------------------------
(* The only operation under way, and `busy`.                               *)

\* Nothing but the operation of s is under way.
Only(s) == \A q \in Slots : q # s => Free(q)

LEMMA WorksIs ==
    ASSUME OpsShape, NEW s \in Slots
    PROVE  Free(s) => op[s] = Idle /\ ~Works(op[s])
BY OpIs, IdleIs DEF Free

LEMMA OnlyIs ==
    ASSUME BusyInv, NEW s \in Slots, ~Free(s), ~raced
    PROVE  Only(s) /\ (ed.busy <=> ed.left \/ Works(op[s]))
<1>1. Only(s)
  BY DEF BusyInv, Alone, Only
<1>2. (\E q \in Slots : Works(op[q])) <=> Works(op[s])
  BY <1>1, WorksIs DEF BusyInv, Shape, Only
<1> QED
  BY <1>1, <1>2 DEF BusyInv, BusyIsWork

LEMMA OnlyBegins ==
    ASSUME BusyInv, NEW s \in Slots, Begin(s), ~raced'
    PROVE  ~raced /\ Only(s) /\ op[s] = Idle /\ (ed.busy <=> ed.left)
<1>1. ~raced /\ \A q \in Slots : Free(q)
  BY BeginIs DEF BusyInv
<1>2. \A q \in Slots : op[q] = Idle /\ ~Works(op[q])
  BY <1>1, WorksIs DEF BusyInv, Shape
<1> QED
  BY <1>1, <1>2 DEF BusyInv, BusyIsWork, Only

\* It goes on, or is over, and the editor is busy if it works.
LEMMA OnlyGoesOn ==
    ASSUME Shape, NEW s \in Slots, Only(s), NEW new, Puts(s, new),
           ed'.busy <=> ed'.left \/ Works(new)
    PROVE  Alone' /\ BusyIsWork'
<1>1. op'[s] = new /\ \A q \in Slots : q # s => op'[q] = op[q]
  BY PutsIs DEF Shape
<1>2. \A q \in Slots : q # s => Free(q)' /\ ~Works(op'[q])
  BY <1>1, WorksIs DEF Only, Shape, Free
<1>3. Alone'
  BY <1>2 DEF Alone
<1>4. (\E q \in Slots : Works(op'[q])) <=> Works(new)
  BY <1>1, <1>2
<1>5. (\E q \in Slots : Works(op[q]))' <=> Works(new)
  BY <1>4 DEF Works
<1> QED
  BY <1>3, <1>5 DEF BusyIsWork

LEMMA OpensBusy ==
    ASSUME Shape, NEW s \in Slots, Only(s), ed.busy <=> ed.left, NEW kind, NEW p, NEW d,
           OpensOrEnds(s, kind, p, d)
    PROVE  Alone' /\ BusyIsWork'
<1>1. PICK new : Puts(s, new) /\ \/ new = Idle /\ ed'.busy = ed.busy
                                 \/ new.pc = "get" /\ ed'.busy
  BY DEF OpensOrEnds
<1>2. ed'.left = ed.left
  BY DEF OpensOrEnds
<1>3. ed'.busy <=> ed'.left \/ Works(new)
  BY <1>1, <1>2, IdleIs DEF Works
<1> QED
  BY <1>1, <1>3, OnlyGoesOn

LEMMA SendsBusy ==
    ASSUME Shape, NEW s \in Slots, Only(s), NEW e, e.busy <=> e.left, SendsOrEnds(s, e)
    PROVE  Alone' /\ BusyIsWork'
<1>1. PICK new : Puts(s, new) /\ \/ new = Idle /\ ed'.busy = e.busy
                                 \/ new.kind = "save" /\ ed'.busy
  BY DEF SendsOrEnds
<1>2. ed'.left = e.left
  BY DEF SendsOrEnds
<1>3. ed'.busy <=> ed'.left \/ Works(new)
  BY <1>1, <1>2, IdleIs DEF Works
<1> QED
  BY <1>1, <1>3, OnlyGoesOn

LEMMA EndsBusy ==
    ASSUME Shape, NEW s \in Slots, Only(s), Puts(s, Idle), ed'.busy <=> ed'.left
    PROVE  Alone' /\ BusyIsWork'
BY IdleIs, OnlyGoesOn

\* Two editors and operations of which the same is said.
LEMMA StaysBusy ==
    ASSUME BusyInv, UNCHANGED raced, ed'.busy = ed.busy, ed'.left = ed.left,
           \A q \in Slots : /\ op'[q].kind = op[q].kind
                            /\ op'[q].pc \in Loads <=> op[q].pc \in Loads
    PROVE  Alone' /\ BusyIsWork'
<1>1. \A q \in Slots : (Free(q)' <=> Free(q)) /\ (Works(op'[q]) <=> Works(op[q]))
  BY DEF Free, Works, Loads
<1>2. Alone'
  BY <1>1 DEF BusyInv, Alone
<1>3. (\E q \in Slots : Works(op[q]))' <=> \E q \in Slots : Works(op[q])
  BY <1>1 DEF Works
<1> QED
  BY <1>2, <1>3 DEF BusyInv, BusyIsWork

LEMMA BusyOfEditor ==
    ASSUME BusyInv, ~raced', NEW s \in Slots,
           \/ \E p \in Paths : OpenDocument(s, p)
           \/ SyncRefreshed(s) \/ CreateAnswered(s) \/ LandInProject(s)
           \/ SaveBegins(s) \/ SaveRefreshed(s)
    PROVE  Alone' /\ BusyIsWork'
<1> USE DEF history
<1>s. Shape
  BY DEF BusyInv
<1>1. ASSUME NEW p \in Paths, OpenDocument(s, p) PROVE Alone' /\ BusyIsWork'
  <2>1. OpensOrEnds(s, "open", p, FALSE)
    BY <1>s, <1>1, OpenDocumentIs
  <2>2. CASE Begin(s)
    BY <1>s, <2>1, <2>2, OnlyBegins, OpensBusy
  <2>3. CASE ~Begin(s)
    <3>1. /\ IsOpen(ed, p) /\ Free(s) /\ raced' = raced
          /\ Open(s, ed, Begun("open", p), p, How(FALSE, FALSE, TRUE))
      BY <1>1, <2>3 DEF OpenDocument
    <3>2. ed'.busy = ed.busy /\ ed'.left = ed.left /\ op' = [op EXCEPT ![s] = Idle]
      BY <1>s, <3>1 DEF Open, Opened, How, Shape, TabsShape, Editors
    <3>3. op' = op
      BY <1>s, <3>1, <3>2, WorksIs DEF Shape, OpsShape
    <3> QED
      BY <3>1, <3>2, <3>3, StaysBusy
  <2> QED
    BY <2>2, <2>3
<1>2. ASSUME ~raced, op[s].pc # None, ~Works(op[s])
      PROVE  Only(s) /\ (ed.busy <=> ed.left)
  BY <1>s, <1>2, OnlyIs, OpIs DEF Shape
<1>3. ASSUME SyncRefreshed(s) PROVE Alone' /\ BusyIsWork'
  <2>1. op[s].kind = "sync" /\ op[s].pc = "refresh" /\ OpensOrEnds(s, "sync", op[s].path, FALSE)
    BY <1>s, <1>3, SyncRefreshedIs
  <2>2. ~raced
    BY <1>3 DEF SyncRefreshed
  <2> QED
    BY <1>s, <1>2, <2>1, <2>2, OpensBusy DEF Works, None
<1>4. ASSUME CreateAnswered(s) PROVE Alone' /\ BusyIsWork'
  <2>1. /\ op[s].kind = "create" /\ op[s].pc \in {"saved", "refresh", "failed"}
        /\ \/ /\ UNCHANGED ed
              /\ \E new : Puts(s, new) /\ Keeps(new, op[s]) /\ new.pc = "refresh"
           \/ OpensOrEnds(s, "create", op[s].path, TRUE)
           \/ OpensOrEnds(s, "create", op[s].path, FALSE)
    BY <1>s, <1>4, CreateAnsweredIs
  <2>2. ~raced
    BY <1>4 DEF CreateAnswered
  <2>3. Only(s) /\ (ed.busy <=> ed.left)
    BY <1>2, <2>1, <2>2 DEF Works, None
  <2>4. CASE UNCHANGED ed /\ \E new : Puts(s, new) /\ Keeps(new, op[s]) /\ new.pc = "refresh"
    BY <1>s, <2>1, <2>3, <2>4, OnlyGoesOn DEF Works, Keeps
  <2> QED
    BY <1>s, <2>1, <2>3, <2>4, OpensBusy
<1>5. ASSUME LandInProject(s) PROVE Alone' /\ BusyIsWork'
  <2>1. /\ op[s].kind = "switch" /\ op[s].pc = "landing"
        /\ OpensOrEnds(s, "switch", Starter, TRUE)
    BY <1>s, <1>5, LandInProjectIs
  <2>2. ~raced
    BY <1>5 DEF LandInProject
  <2> QED
    BY <1>s, <1>2, <2>1, <2>2, OpensBusy DEF Works, None
<1>6. ASSUME SaveBegins(s) PROVE Alone' /\ BusyIsWork'
  <2>1. SendsOrEnds(s, ed) /\ Begin(s)
    BY <1>s, <1>6, SaveBeginsIs
  <2> QED
    BY <1>s, <2>1, OnlyBegins, SendsBusy
<1>7. ASSUME SaveRefreshed(s) PROVE Alone' /\ BusyIsWork'
  <2>1. op[s].kind = "save" /\ op[s].pc = "refresh" /\ SendsOrEnds(s, NotBusy(ed))
    BY <1>s, <1>7, SaveRefreshedIs
  <2>2. Only(s)
    BY <1>s, <1>7, <2>1, OnlyIs, OpIs DEF SaveRefreshed, Shape, None
  <2>3. NotBusy(ed).busy = FALSE /\ NotBusy(ed).left = FALSE
    BY <1>s DEF NotBusy, Shape, TabsShape, Editors
  <2> QED
    BY <1>s, <2>1, <2>2, <2>3, SendsBusy
<1> QED
  BY <1>1, <1>3, <1>4, <1>5, <1>6, <1>7

LEMMA BusyOfServed ==
    ASSUME BusyInv, ~raced', NEW s \in Slots, Served(s)
    PROVE  Alone' /\ BusyIsWork'
<1> USE DEF history
<1>s. Shape /\ UNCHANGED ed
  BY ShapeOfServed DEF BusyInv
<1>1. ASSUME ~raced, op[s].pc # None, NEW new, Puts(s, new), Works(new) <=> Works(op[s])
      PROVE  Alone' /\ BusyIsWork'
  <2>1. Only(s) /\ (ed.busy <=> ed.left \/ Works(op[s]))
    BY <1>s, <1>1, OnlyIs, OpIs DEF Shape
  <2> QED
    BY <1>s, <1>1, <2>1, OnlyGoesOn
<1>2. ASSUME Begin(s), NEW new, Puts(s, new), ~Works(new)
      PROVE  Alone' /\ BusyIsWork'
  BY <1>s, <1>2, OnlyBegins, OnlyGoesOn
<1>3. ASSUME ServeStat(s) PROVE Alone' /\ BusyIsWork'
  <2>1. op[s].pc = "get" /\ ~raced /\ \E new : Puts(s, new) /\ new.pc \in {"stat", "got"}
    BY <1>s, <1>3, ServeStatIs DEF ServeStat
  <2> QED
    BY <1>1, <2>1 DEF Works, None
<1>4. ASSUME ServeRead(s) PROVE Alone' /\ BusyIsWork'
  <2>1. op[s].pc = "stat" /\ ~raced /\ \E new : Puts(s, new) /\ new.pc = "got"
    BY <1>s, <1>4, ServeReadIs DEF ServeRead
  <2> QED
    BY <1>1, <2>1 DEF Works, None
<1>5. ASSUME CheckSave(s) PROVE Alone' /\ BusyIsWork'
  <2>1. /\ op[s].pc = "put" /\ ~raced
        /\ \E new : /\ Puts(s, new) /\ Keeps(new, op[s])
                    /\ new.pc \in {"saved", "checked", "conflict", "failed"}
    BY <1>s, <1>5, CheckSaveIs DEF CheckSave
  <2>3. PICK new : /\ Puts(s, new) /\ Keeps(new, op[s])
                   /\ new.pc \in {"saved", "checked", "conflict", "failed"}
    BY <2>1
  <2>4. Works(new) <=> Works(op[s])
    BY <2>1, <2>3 DEF Works, Keeps
  <2> QED
    BY <1>1, <2>1, <2>3, <2>4 DEF None
<1>6. ASSUME StatSaved(s) PROVE Alone' /\ BusyIsWork'
  <2>1. /\ op[s].pc = "replaced" /\ ~raced
        /\ \E new : Puts(s, new) /\ Keeps(new, op[s]) /\ (new.pc = "saved" \/ new.pc = "failed")
    BY <1>s, <1>6, StatSavedIs DEF StatSaved
  <2> QED
    BY <1>1, <2>1 DEF Works, None, Keeps
<1>7. ASSUME CreateProbed(s) PROVE Alone' /\ BusyIsWork'
  <2>1. /\ op[s].pc = "probe" /\ ~raced
        /\ \E new : Puts(s, new) /\ (new = Idle \/ (new.kind = "create" /\ new.pc = "put"))
    BY <1>s, <1>7, CreateProbedIs DEF CreateProbed
  <2>2. op[s].kind = "create"
    <3>1. op[s] \in Operation /\ StepsOfKind(op[s]) /\ op[s].kind # None
      BY <1>s, <2>1, OpIs DEF Shape, OpShape, None
    <3> QED
      BY <2>1, <3>1, KindOf
  <2>3. ~Works(op[s]) /\ ~Works(Idle)
    BY <2>1, <2>2, IdleIs DEF Works
  <2>4. PICK new : Puts(s, new) /\ (new = Idle \/ (new.kind = "create" /\ new.pc = "put"))
    BY <2>1
  <2>5. ~Works(new)
    BY <2>3, <2>4 DEF Works
  <2> QED
    BY <1>1, <2>1, <2>3, <2>4, <2>5 DEF None
<1>8. ASSUME NEW p \in Paths, CreateProjectTreeFile(s, p) PROVE Alone' /\ BusyIsWork'
  <2>1. Begin(s) /\ \E new : Puts(s, new) /\ new.kind = "create" /\ new.pc = "probe"
    BY <1>s, <1>8, CreateBeginsIs DEF CreateProjectTreeFile
  <2> QED
    BY <1>2, <2>1 DEF Works
<1>9. ASSUME NEW p \in Paths, NEW again \in BOOLEAN, SyncChangedPaths(s, p, again)
      PROVE  Alone' /\ BusyIsWork'
  <2>1. Begin(s) /\ \E new : Puts(s, new) /\ new.kind = "sync" /\ new.pc = "refresh"
    BY <1>s, <1>9, SyncBeginsIs DEF SyncChangedPaths
  <2> QED
    BY <1>2, <2>1 DEF Works
<1>10. ASSUME NEW P \in Projects, OpenProject(s, P) PROVE Alone' /\ BusyIsWork'
  <2>1. Begin(s) /\ \E new : Puts(s, new) /\ new.kind = "switch" /\ new.pc = "opening"
    BY <1>s, <1>10, SwitchBeginsIs DEF OpenProject
  <2> QED
    BY <1>2, <2>1 DEF Works
<1> QED
  BY <1>3, <1>4, <1>5, <1>6, <1>7, <1>8, <1>9, <1>10 DEF Served

LEMMA BusyOfOthers ==
    ASSUME BusyInv, ~raced', NEW s \in Slots,
           SaveAnswered(s) \/ SaveRefused(s) \/ FinalizeProjectSwitch(s) \/ ServeOpenProject(s)
    PROVE  Alone' /\ BusyIsWork'
<1>s. Shape /\ ~raced
  BY DEF BusyInv, SaveAnswered, SaveRefused, FinalizeProjectSwitch, ServeOpenProject, history
<1>1. ASSUME op[s].pc # None
      PROVE  Only(s) /\ (ed.busy <=> ed.left \/ Works(op[s]))
  BY <1>s, <1>1, OnlyIs, OpIs DEF Shape
<1>2. ASSUME SaveAnswered(s) PROVE Alone' /\ BusyIsWork'
  <2>1. /\ op[s].kind = "save" /\ op[s].pc = "saved" /\ ed'.busy = ed.busy /\ ed'.left = ed.left
        /\ \E new : Puts(s, new) /\ Keeps(new, op[s])
    BY <1>s, <1>2, SaveAnsweredIs
  <2>2. PICK new : Puts(s, new) /\ Keeps(new, op[s])
    BY <2>1
  <2>3. Works(new) /\ Works(op[s]) /\ op[s].pc # None
    BY <2>1, <2>2 DEF Works, Keeps, None
  <2> QED
    BY <1>s, <1>1, <2>1, <2>2, <2>3, OnlyGoesOn
<1>3. ASSUME SaveRefused(s) PROVE Alone' /\ BusyIsWork'
  <2>1. op[s].pc \in {"conflict", "failed"} /\ ~ed'.busy /\ ~ed'.left /\ Puts(s, Idle)
    BY <1>s, <1>3, SaveRefusedIs
  <2> QED
    BY <1>s, <1>1, <2>1, EndsBusy DEF None
<1>4. ASSUME FinalizeProjectSwitch(s) PROVE Alone' /\ BusyIsWork'
  <2>1. /\ op[s].pc = "opened" /\ op[s].kind = "switch" /\ ~ed'.busy /\ ~ed'.left
        /\ \E new : Puts(s, new) /\ Keeps(new, op[s]) /\ new.pc = "landing"
    BY <1>s, <1>4, FinalizeIs
  <2>2. PICK new : Puts(s, new) /\ Keeps(new, op[s]) /\ new.pc = "landing"
    BY <2>1
  <2>3. ~Works(new) /\ op[s].pc # None
    BY <2>1, <2>2 DEF Works, Keeps, None
  <2> QED
    BY <1>s, <1>1, <2>1, <2>2, <2>3, OnlyGoesOn
<1>5. ASSUME ServeOpenProject(s) PROVE Alone' /\ BusyIsWork'
  <2>1. /\ op[s].pc = "opening" /\ op[s].kind = "switch" /\ ed' = ed
        /\ \/ \E new : Puts(s, new) /\ Keeps(new, op[s]) /\ new.pc = "opened"
           \/ Puts(s, Idle)
    BY <1>s, <1>5, ServeOpenProjectIs
  <2>2. /\ ~Works(op[s]) /\ op[s].pc # None
        /\ \A new : Keeps(new, op[s]) /\ new.pc = "opened" => ~Works(new)
    BY <2>1 DEF Works, Keeps, None
  <2>3. Only(s) /\ (ed'.busy <=> ed'.left)
    BY <1>1, <2>1, <2>2
  <2> QED
    BY <1>s, <2>1, <2>2, <2>3, EndsBusy, OnlyGoesOn
<1> QED
  BY <1>2, <1>3, <1>4, <1>5

LEMMA BusyOfLoadAnswered ==
    ASSUME BusyInv, ~raced', NEW s \in Slots, LoadAnswered(s)
    PROVE  Alone' /\ BusyIsWork'
<1> DEFINE e == Loaded(ed, s, op[s])
<1>s. Shape /\ ~raced /\ op[s].pc = "got"
  BY DEF BusyInv, LoadAnswered, history
<1>1. Only(s)
  BY <1>s, OnlyIs, OpIs DEF Shape, None
<1>2. e.busy <=> e.left
  BY <1>s, LoadedIs
<1>3. /\ ed'.left = e.left
      /\ \E new : \/ Puts(s, new) /\ new = Idle /\ ed'.busy = e.busy
                  \/ Puts(s, new) /\ new.pc = "get" /\ ed'.busy
  BY <1>s, LoadAnsweredIs DEF Goes
<1> HIDE DEF e
<1>4. PICK new : \/ Puts(s, new) /\ new = Idle /\ ed'.busy = e.busy
                 \/ Puts(s, new) /\ new.pc = "get" /\ ed'.busy
  BY <1>3
<1>5. ed'.busy <=> ed'.left \/ Works(new)
  BY <1>2, <1>3, <1>4, IdleIs DEF Works
<1> QED
  BY <1>s, <1>1, <1>4, <1>5, OnlyGoesOn

LEMMA BusyOfWriters ==
    ASSUME BusyInv, ~raced',
           \/ \E s \in Slots : ReplaceFile(s)
           \/ \E p \in Paths : Type(p) \/ \E S \in Projects : AgentWrites(S, p)
    PROVE  Alone' /\ BusyIsWork'
<1>s. Shape
  BY DEF BusyInv
<1>1. ASSUME NEW s \in Slots, ReplaceFile(s) PROVE Alone' /\ BusyIsWork'
  <2> DEFINE o == op[s]
  <2>1. /\ o.pc = "checked" /\ o.at \in Projects /\ o.path \in Paths /\ op'[s].pc = "replaced"
        /\ Keeps(op'[s], o) /\ Wrote(o.at, o.path, File(o.text, TRUE))
        /\ \A q \in Slots : q # s => op'[q] = AgedOps(o.at, o.path)[q]
    BY <1>s, <1>1, ReplaceFileIs
  <2>2. ASSUME NEW q \in Slots
        PROVE  op'[q].kind = op[q].kind /\ (op'[q].pc \in Loads <=> op[q].pc \in Loads)
    <3>1. CASE q = s
      BY <2>1, <3>1 DEF Keeps, Loads
    <3>2. CASE q # s
      <4>1. op'[q] = AgedOps(o.at, o.path)[q]
        BY <2>1, <3>2
      <4>2. Keeps(AgedOps(o.at, o.path)[q], op[q]) /\ AgedOps(o.at, o.path)[q].pc = op[q].pc
        BY <1>s, <2>1, AgedIs
      <4> QED
        BY <4>1, <4>2 DEF Keeps
    <3> QED
      BY <3>1, <3>2
  <2>3. ed'.busy = ed.busy /\ ed'.left = ed.left /\ raced' = raced
    BY <1>1, <2>1 DEF Wrote, ReplaceFile
  <2> QED
    BY <2>2, <2>3, StaysBusy
<1>2. ASSUME NEW p \in Paths, Type(p) PROVE Alone' /\ BusyIsWork'
  <2>1. ed'.busy = ed.busy /\ ed'.left = ed.left
    BY <1>s, <1>2, TypeIs
  <2>2. op' = op /\ raced' = raced
    <3>1. /\ op' = op /\ raced \in BOOLEAN
          /\ raced' = (raced \/ \E s \in Slots : op[s].kind = "switch")
      BY <1>s, <1>2 DEF Type, Shape, RestShape
    <3> QED
      BY <3>1
  <2> QED
    BY <2>1, <2>2, StaysBusy
<1>3. ASSUME NEW p \in Paths, NEW S \in Projects, AgentWrites(S, p) PROVE Alone' /\ BusyIsWork'
  <2>1. /\ Wrote(S, p, File(Text(made + 1, S), BeingSaved(S, p)))
        /\ op' = AgedOps(S, p)
    BY <1>s, <1>3, AgentWritesIs
  <2>2. \A q \in Slots : op'[q].kind = op[q].kind /\ op'[q].pc = op[q].pc
    BY <1>s, <2>1, AgedIs DEF Keeps
  <2>3. ed'.busy = ed.busy /\ ed'.left = ed.left /\ raced' = raced
    BY <1>3, <2>1 DEF Wrote, AgentWrites, history
  <2> QED
    BY <2>2, <2>3, StaysBusy
<1> QED
  BY <1>1, <1>2, <1>3

LEMMA BusyStep == SeenInv /\ Alone /\ BusyIsWork /\ [Next]_vars => Alone' /\ BusyIsWork'
<1> SUFFICES ASSUME SeenInv, Alone, BusyIsWork, [Next]_vars PROVE Alone' /\ BusyIsWork'
  OBVIOUS
<1>b. BusyInv
  BY DEF BusyInv, SeenInv
<1>1. CASE raced'
  BY <1>1 DEF Alone, BusyIsWork
<1>2. CASE UNCHANGED vars
  BY <1>b, <1>2, StaysBusy DEF vars, history
<1>3. CASE ~raced' /\ Next
  BY <1>b, <1>3, BusyOfEditor, BusyOfServed, BusyOfOthers, BusyOfLoadAnswered, BusyOfWriters
     DEF Next, Served, SaveBegins
<1> QED
  BY <1>1, <1>2, <1>3

\* While no two operations overlap, one is under way at most, and the editor is
\* busy just when it works.
THEOREM BusyInvariance == Spec => [](Alone /\ BusyIsWork)
<1>1. Init => Alone /\ BusyIsWork
  <2> SUFFICES ASSUME Init PROVE Alone /\ BusyIsWork
    OBVIOUS
  <2>1. /\ \A s \in Slots : Free(s) /\ ~Works(op[s])
        /\ ed.busy = FALSE /\ ed.left = FALSE
    BY IdleIs, ValuesAre DEF Init, Free
  <2> QED
    BY <2>1 DEF Alone, BusyIsWork
<1> QED
  BY <1>1, BusyStep, SeenInvariance, PTL DEF Spec

\* The editor is busy just when it loads or saves, or was left by a load nobody
\* waits for.
THEOREM BusyIsWorkAlways == Spec => []BusyIsWork
BY BusyInvariance, PTL

-----------------------------------------------------------------------------
(* Drafts.                                                                 *)

\* Both editors have the same texts open.
SameTexts ==
    \A p \in Paths :
        /\ ed'.tabs[p].text = ed.tabs[p].text /\ ed'.tabs[p].dirty = ed.tabs[p].dirty
        /\ ed'.tabs[p].at = ed.tabs[p].at
        /\ ed'.tabs[p] = NoTab <=> ed.tabs[p] = NoTab

\* A step that deletes no file.
NoFileGoes ==
    \A S \in Projects, p \in Paths : disk[S][p].text # NoText => disk'[S][p].text # NoText

\* What KeptInv says while operations do not overlap.
Kept ==
    /\ SeenInv /\ Alone /\ BusyIsWork
    /\ \A p \in Paths : TabIsKept(p)
    /\ TabsAreHere
    /\ \A s \in Slots : Careful(op[s])

LEMMA IdleIsCareful == Careful(Idle) /\ Careful(Idle)'
<1>1. /\ Idle.pc = None /\ Idle.kind = None
      /\ None \notin {"get", "stat", "got", "put", "checked", "replaced", "saved", "landing",
                      "create", "save"}
  BY IdleIs, ValuesAre DEF None
<1>2. Idle' = Idle
  BY DEF Idle, NoText, Text
<1> QED
  BY <1>1, <1>2 DEF Careful, Loads, Serves

\* A tab that is not marked has no draft.
LEMMA NoDraftIs ==
    ASSUME Kept, NEW p \in Paths, ~ed.tabs[p].dirty
    PROVE  draft[p] = NoText
BY DEF Kept, TabIsKept

\* The tabs show what they showed.
LEMMA TabsKept ==
    ASSUME Kept, SameTexts, NoFileGoes, UNCHANGED draft
    PROVE  \A p \in Paths : TabIsKept(p)'
<1> SUFFICES ASSUME NEW p \in Paths PROVE TabIsKept(p)'
  OBVIOUS
<1>1. TabIsKept(p) /\ (IsOpen(ed, p)' <=> IsOpen(ed, p))
  BY DEF Kept, SameTexts, IsOpen
<1>2. IsOpen(ed, p) => ed.tabs[p].at \in Projects
  BY DEF Kept, SeenInv, Shape, TabsShape, TabShape, IsOpen
<1> QED
  BY <1>1, <1>2 DEF TabIsKept, SameTexts, NoFileGoes

\* An operation stays careful while its fields and the tabs stay.
LEMMA StaysCareful ==
    ASSUME Kept, SameTexts, NoFileGoes, UNCHANGED <<draft, session>>, NEW s \in Slots,
           Keeps(op'[s], op[s]), op'[s].pc = op[s].pc, op'[s].text = op[s].text,
           op'[s].at = op[s].at
    PROVE  Careful(op[s])'
<1>1. Careful(op[s]) /\ session \in Projects
  BY DEF Kept, SeenInv, Shape, RestShape
<1>2. op[s].pc # None => op[s].path \in Paths
  BY OpIs DEF Kept, SeenInv, Shape
<1> USE DEF Keeps
<1>3. /\ op[s].pc \in {"stat", "replaced", "saved"} \/ (op[s].pc = "got" /\ op[s].text # NoText)
      => disk'[session][op[s].path].text # NoText
  BY <1>1, <1>2 DEF Careful, NoFileGoes, None
<1>4. op[s].pc = "landing" => \A p \in Paths : ed'.tabs[p] = NoTab
  BY <1>1 DEF Careful, SameTexts
<1>5. op[s].kind = "create" /\ op[s].pc \in Serves \cup {"probe", "refresh"}
      => ed'.tabs[op[s].path] = NoTab
  BY <1>1, <1>2 DEF Careful, SameTexts, None, Serves
<1> QED
  BY <1>1, <1>3, <1>4, <1>5 DEF Careful

\* The operation of s goes on, and the others are free.
LEMMA CarefulGoesOn ==
    ASSUME Kept, NEW s \in Slots, Only(s), NEW new, Puts(s, new),
           Careful(new)'
    PROVE  \A q \in Slots : Careful(op[q])'
<1>1. op'[s] = new /\ \A q \in Slots : q # s => op'[q] = op[q]
  BY PutsIs DEF Kept, SeenInv, Shape
<1>2. \A q \in Slots : q # s => op[q] = Idle
  BY WorksIs DEF Only, Kept, SeenInv, Shape
<1> QED
  BY <1>1, <1>2, IdleIsCareful DEF Careful

LEMMA HereGoesOn ==
    ASSUME Kept, NEW s \in Slots, Only(s), op[s].pc # "opened", SameTexts, UNCHANGED session
    PROVE  TabsAreHere'
<1>1. \A q \in Slots : op[q].pc # "opened"
  <2>1. \A q \in Slots : q # s => op[q].pc = None
    BY WorksIs, IdleIs DEF Only, Kept, SeenInv, Shape
  <2> QED
    BY <2>1 DEF None
<1> QED
  BY <1>1 DEF Kept, TabsAreHere, SameTexts, IsOpen

\* A step of the only operation, that leaves the tabs their texts.
LEMMA KeptGoesOn ==
    ASSUME Kept, NEW s \in Slots, Only(s), op[s].pc # "opened", NEW new, Puts(s, new),
           Careful(new)', SameTexts, NoFileGoes, UNCHANGED <<session, draft>>
    PROVE  KeptInv'
BY TabsKept, CarefulGoesOn, HereGoesOn DEF KeptInv

LEMMA OnlyOne ==
    ASSUME Kept, ~raced, NEW s \in Slots, op[s].pc # None
    PROVE  Only(s)
BY OnlyIs, OpIs DEF Kept, SeenInv, BusyInv, Shape

LEMMA OnlyNew ==
    ASSUME Kept, ~raced', NEW s \in Slots, Begin(s)
    PROVE  ~raced /\ Only(s) /\ op[s] = Idle /\ op[s].pc # "opened"
<1>1. ~raced /\ Only(s) /\ op[s] = Idle
  BY OnlyBegins DEF Kept, SeenInv, BusyInv
<1> QED
  BY <1>1, IdleIs DEF None

LEMMA SameTextsIs ==
    /\ Same(ed', ed) => SameTexts
    /\ UNCHANGED ed => SameTexts
    /\ UNCHANGED disk => NoFileGoes
BY DEF Same, SameTexts, NoFileGoes

\* Nothing is loaded over a draft.
LEMMA OpensKept ==
    ASSUME Kept, NEW s \in Slots, Only(s), op[s].pc # "opened", NEW kind, NEW p \in Paths, NEW d,
           OpensOrEnds(s, kind, p, d), kind # "save", d => ~ed.tabs[p].dirty,
           UNCHANGED <<session, disk, draft>>
    PROVE  KeptInv'
<1>1. Same(ed', ed)
  BY DEF OpensOrEnds
<1>2. PICK new : /\ Puts(s, new)
                 /\ \/ new = Idle
                    \/ /\ new.pc = "get" /\ new.kind = kind /\ new.path = p
                       /\ d \/ ~ed.tabs[p].dirty
  BY DEF OpensOrEnds
<1>3. Careful(new)'
  <2>1. CASE new = Idle
    BY <2>1, IdleIsCareful DEF Careful
  <2>2. CASE new # Idle
    <3>1. draft[p] = NoText
      BY <1>2, <2>2, NoDraftIs
    <3> QED
      BY <1>2, <2>2, <3>1 DEF Careful, Serves
  <2> QED
    BY <2>1, <2>2
<1> QED
  BY <1>1, <1>2, <1>3, SameTextsIs, KeptGoesOn

\* What is saved is the draft.
LEMMA SendsKept ==
    ASSUME Kept, NEW s \in Slots, Only(s), op[s].pc # "opened", NEW e, SendsOrEnds(s, e),
           UNCHANGED <<session, disk, draft>>
    PROVE  KeptInv'
<1>1. Same(ed', ed)
  BY DEF SendsOrEnds, Same
<1>2. PICK p \in Paths : \E new :
         /\ Puts(s, new)
         /\ \/ new = Idle
            \/ new.kind = "save" /\ new.pc = "put" /\ new.path = p /\ new.text = ed.tabs[p].text
  BY DEF SendsOrEnds
<1>3. PICK new :
         /\ Puts(s, new)
         /\ \/ new = Idle
            \/ new.kind = "save" /\ new.pc = "put" /\ new.path = p /\ new.text = ed.tabs[p].text
  BY <1>2
<1>4. Careful(new)'
  <2>1. CASE new = Idle
    BY <2>1, IdleIsCareful DEF Careful
  <2>2. CASE new # Idle
    <3>1. draft[p] \in {NoText, ed.tabs[p].text}
      BY DEF Kept, TabIsKept
    <3> QED
      BY <1>3, <2>2, <3>1 DEF Careful, Loads
  <2> QED
    BY <2>1, <2>2
<1> QED
  BY <1>1, <1>3, <1>4, SameTextsIs, KeptGoesOn

LEMMA KeptOfEditor ==
    ASSUME Kept, ~raced', NEW s \in Slots,
           \/ \E p \in Paths : OpenDocument(s, p)
           \/ SyncRefreshed(s) \/ CreateAnswered(s) \/ LandInProject(s)
           \/ SaveBegins(s) \/ SaveRefreshed(s)
    PROVE  KeptInv'
<1> USE DEF history
<1>s. Shape
  BY DEF Kept, SeenInv
<1>u. UNCHANGED <<session, disk, draft>>
  BY DEF OpenDocument, SyncRefreshed, CreateAnswered, LandInProject, SaveBegins,
         SaveActiveDocument, SaveAllDocuments, ConfirmSaveOverwrite, SaveRefreshed, Save
<1>n. "open" # "save" /\ "sync" # "save" /\ "create" # "save" /\ "switch" # "save"
  OBVIOUS
<1>1. ASSUME NEW p \in Paths, OpenDocument(s, p) PROVE KeptInv'
  <2>1. OpensOrEnds(s, "open", p, FALSE)
    BY <1>s, <1>1, OpenDocumentIs
  <2>2. CASE Begin(s)
    BY <1>u, <1>n, <2>1, <2>2, OnlyNew, OpensKept
  <2>3. CASE ~Begin(s)
    <3>1. /\ IsOpen(ed, p) /\ Free(s) /\ raced' = raced
          /\ Open(s, ed, Begun("open", p), p, How(FALSE, FALSE, TRUE))
      BY <1>1, <2>3 DEF OpenDocument
    <3>2. op' = [op EXCEPT ![s] = Idle]
      BY <3>1 DEF Open, Opened, How
    <3>3. op' = op
      BY <1>s, <3>1, <3>2, WorksIs DEF Shape, OpsShape
    <3>4. SameTexts /\ NoFileGoes
      BY <1>u, <2>1, SameTextsIs DEF OpensOrEnds
    <3>5. \A q \in Slots : Careful(op[q])'
      BY <1>u, <3>3, <3>4, StaysCareful DEF Keeps
    <3>6. TabsAreHere'
      BY <1>u, <3>3, <3>4 DEF Kept, TabsAreHere, SameTexts, IsOpen
    <3> QED
      BY <1>u, <3>4, <3>5, <3>6, TabsKept DEF KeptInv
  <2> QED
    BY <2>2, <2>3
<1>2. ASSUME ~raced, op[s].pc \in {"refresh", "landing", "saved", "failed"}
      PROVE  Only(s) /\ op[s].pc # "opened" /\ Careful(op[s])
  BY <1>2, OnlyOne DEF None, Kept
<1>3. ASSUME SyncRefreshed(s) PROVE KeptInv'
  <2>1. op[s].pc = "refresh" /\ OpensOrEnds(s, "sync", op[s].path, FALSE) /\ op[s].path \in Paths
    BY <1>s, <1>3, SyncRefreshedIs, OpIs DEF Shape, None
  <2>2. ~raced
    BY <1>3 DEF SyncRefreshed
  <2> QED
    BY <1>2, <1>u, <1>n, <2>1, <2>2, OpensKept
<1>4. ASSUME CreateAnswered(s) PROVE KeptInv'
  <2> DEFINE o == op[s]
  <2>1. /\ o.kind = "create" /\ o.pc \in {"saved", "refresh", "failed"} /\ o.path \in Paths
        /\ \/ /\ UNCHANGED ed
              /\ \E new : Puts(s, new) /\ Keeps(new, o) /\ new.pc = "refresh"
           \/ OpensOrEnds(s, "create", o.path, TRUE) /\ o.pc = "refresh"
           \/ OpensOrEnds(s, "create", o.path, FALSE)
    BY <1>s, <1>4, CreateAnsweredIs, OpIs DEF Shape, None
  <2>2. ~raced /\ (o.pc = "saved" <=> op[s].pc = "saved")
    BY <1>4 DEF CreateAnswered
  <2>3. Only(s) /\ o.pc # "opened" /\ Careful(o)
    BY <1>2, <2>1, <2>2
  <2>4. CASE UNCHANGED ed /\ \E new : Puts(s, new) /\ Keeps(new, o) /\ new.pc = "refresh"
    <3>1. o.pc # "failed"
      <4>1. CASE o.pc = "failed"
        <5>1. op' = [op EXCEPT ![s] = Idle]
          BY <4>1, <1>4 DEF CreateAnswered
        <5>2. op'[s] = Idle
          BY <1>s, <5>1 DEF Shape, OpsShape
        <5> QED
          BY <1>s, <2>4, <5>2, PutsIs, IdleIs DEF Shape, None
      <4> QED
        BY <4>1
    <3>2. ed.tabs[o.path] = NoTab
      BY <2>1, <2>3, <3>1 DEF Careful, Serves
    <3>3. PICK new : Puts(s, new) /\ Keeps(new, o) /\ new.pc = "refresh"
      BY <2>4
    <3>4. Careful(new)'
      BY <2>1, <2>4, <3>2, <3>3 DEF Careful, Keeps, Loads, Serves
    <3> QED
      BY <1>u, <2>3, <2>4, <3>3, <3>4, SameTextsIs, KeptGoesOn
  <2>5. CASE OpensOrEnds(s, "create", o.path, TRUE) /\ o.pc = "refresh"
    <3>1. ed.tabs[o.path] = NoTab
      BY <2>1, <2>3, <2>5 DEF Careful
    <3>2. ~ed.tabs[o.path].dirty
      BY <3>1, ValuesAre
    <3> QED
      BY <1>u, <1>n, <2>1, <2>3, <2>5, <3>2, OpensKept
  <2>6. CASE OpensOrEnds(s, "create", o.path, FALSE)
    BY <1>u, <1>n, <2>1, <2>3, <2>6, OpensKept
  <2> QED
    BY <2>1, <2>4, <2>5, <2>6
<1>5. ASSUME LandInProject(s) PROVE KeptInv'
  <2>1. op[s].pc = "landing" /\ OpensOrEnds(s, "switch", Starter, TRUE)
    BY <1>s, <1>5, LandInProjectIs
  <2>2. ~raced
    BY <1>5 DEF LandInProject
  <2>3. Starter \in Paths /\ ~ed.tabs[Starter].dirty
    BY <1>2, <2>1, <2>2, Names, ValuesAre DEF Careful
  <2> QED
    BY <1>2, <1>u, <1>n, <2>1, <2>2, <2>3, OpensKept
<1>6. ASSUME SaveBegins(s) PROVE KeptInv'
  <2>1. SendsOrEnds(s, ed) /\ Begin(s)
    BY <1>s, <1>6, SaveBeginsIs
  <2> QED
    BY <1>u, <2>1, OnlyNew, SendsKept
<1>7. ASSUME SaveRefreshed(s) PROVE KeptInv'
  <2>1. op[s].pc = "refresh" /\ SendsOrEnds(s, NotBusy(ed))
    BY <1>s, <1>7, SaveRefreshedIs
  <2>2. ~raced
    BY <1>7 DEF SaveRefreshed
  <2> QED
    BY <1>2, <1>u, <2>1, <2>2, SendsKept
<1> QED
  BY <1>1, <1>3, <1>4, <1>5, <1>6, <1>7

LEMMA KeptOfServed ==
    ASSUME Kept, ~raced', NEW s \in Slots, Served(s)
    PROVE  KeptInv'
<1> USE DEF history
<1> DEFINE o == op[s]
<1>s. Shape
  BY DEF Kept, SeenInv
<1>u. UNCHANGED <<session, disk, draft, ed>> /\ SameTexts /\ NoFileGoes
  BY SameTextsIs DEF Served, ServeStat, ServeRead, CheckSave, StatSaved, CreateProbed,
                     CreateProjectTreeFile, SyncChangedPaths, OpenProject
<1>1. ASSUME ~raced, o.pc \in {"get", "stat", "put", "replaced", "probe"},
             NEW new, Puts(s, new), Careful(new)'
      PROVE  KeptInv'
  BY <1>u, <1>1, OnlyOne, KeptGoesOn DEF None
<1>2. ASSUME Begin(s), NEW new, Puts(s, new), Careful(new)' PROVE KeptInv'
  BY <1>u, <1>2, OnlyNew, KeptGoesOn
<1>3. Careful(o) /\ (o.pc # None => o.path \in Paths) /\ session \in Projects
  BY <1>s, OpIs DEF Kept, Shape, RestShape
<1>4. ASSUME ServeStat(s) PROVE KeptInv'
  <2>1. o.pc = "get" /\ ~raced
    BY <1>4 DEF ServeStat
  <2>2. PICK new :
          /\ Puts(s, new) /\ Keeps(new, o) /\ new.text = NoText
          /\ \/ new.pc = "stat" /\ new.at = session /\ disk[session][new.path] # NoFile
             \/ new.pc = "got"
    BY <1>s, <1>4, ServeStatIs
  <2>3. draft[o.path] = NoText /\ o.path \in Paths
    BY <1>3, <2>1 DEF Careful, Loads, None
  <2>4. new.pc = "stat" => disk[session][new.path].text # NoText
    BY <1>s, <1>3, <2>2, <2>3 DEF Shape, DiskShape, Keeps
  <2>5. Careful(new)'
    BY <1>u, <2>2, <2>3, <2>4 DEF Careful, Keeps, Serves
  <2> QED
    BY <1>1, <2>1, <2>2, <2>5
<1>5. ASSUME ServeRead(s) PROVE KeptInv'
  <2>1. o.pc = "stat" /\ ~raced
    BY <1>5 DEF ServeRead
  <2>2. PICK new : /\ Puts(s, new) /\ Keeps(new, o) /\ new.pc = "got" /\ new.at = o.at
    BY <1>s, <1>5, ServeReadIs
  <2>3. /\ o.at = session /\ disk[session][o.path].text # NoText /\ draft[o.path] = NoText
    BY <1>3, <2>1 DEF Careful, Loads
  <2>4. Careful(new)'
    BY <1>u, <2>2, <2>3 DEF Careful, Keeps, Serves
  <2> QED
    BY <1>1, <2>1, <2>2, <2>4
<1>6. ASSUME CheckSave(s) PROVE KeptInv'
  <2>1. o.pc = "put" /\ ~raced
    BY <1>6 DEF CheckSave
  <2>2. PICK new :
          /\ Puts(s, new) /\ Keeps(new, o) /\ new.text = o.text /\ new.at = session
          /\ \/ new.pc = "saved" /\ disk[session][o.path].text = o.text
             \/ new.pc = "checked"
             \/ new.pc \in {"conflict", "failed"}
    BY <1>s, <1>6, CheckSaveIs
  <2>3. o.text # NoText
    BY <1>s, <2>1, OpIs DEF Shape, OpShape, CarriesWhatItNeeds, Serves
  <2>4. /\ o.kind = "create" => ed.tabs[o.path] = NoTab
        /\ o.kind = "save" => draft[o.path] \in {NoText, o.text}
    BY <1>3, <2>1 DEF Careful, Serves
  <2>5. Careful(new)'
    BY <1>u, <2>2, <2>3, <2>4 DEF Careful, Keeps, Loads
  <2> QED
    BY <1>1, <2>1, <2>2, <2>5
<1>7. ASSUME StatSaved(s) PROVE KeptInv'
  <2>1. o.pc = "replaced" /\ ~raced
    BY <1>7 DEF StatSaved
  <2>2. PICK new :
          /\ Puts(s, new) /\ Keeps(new, o) /\ new.text = o.text /\ new.at = o.at
          /\ new.pc = "saved" \/ new.pc = "failed"
    BY <1>s, <1>7, StatSavedIs
  <2>3. /\ o.at = session /\ disk[session][o.path].text # NoText
        /\ o.kind = "create" => ed.tabs[o.path] = NoTab
        /\ o.kind = "save" => draft[o.path] \in {NoText, o.text}
    BY <1>3, <2>1 DEF Careful, Serves
  <2>4. Careful(new)'
    BY <1>u, <2>2, <2>3 DEF Careful, Keeps, Loads
  <2> QED
    BY <1>1, <2>1, <2>2, <2>4
<1>8. ASSUME CreateProbed(s) PROVE KeptInv'
  <2>1. o.pc = "probe" /\ ~raced
    BY <1>8 DEF CreateProbed
  <2>2. PICK new :
          /\ Puts(s, new)
          /\ \/ new = Idle
             \/ /\ new.kind = "create" /\ new.pc = "put" /\ new.path = o.path
                /\ o.kind = "create"
    BY <1>s, <1>8, CreateProbedIs
  <2>3. CASE new = Idle
    BY <1>1, <2>1, <2>2, <2>3, IdleIsCareful DEF Careful
  <2>4. CASE new # Idle
    <3>1. Careful(o) /\ o.path \in Paths
      BY <1>3, <2>1 DEF None
    <3>2. ed.tabs[o.path] = NoTab
      BY <2>1, <2>2, <2>4, <3>1 DEF Careful
    <3>3. Careful(new)'
      BY <1>u, <2>2, <2>4, <3>2 DEF Careful, Loads
    <3> QED
      BY <1>1, <2>1, <2>2, <3>3
  <2> QED
    BY <2>3, <2>4
<1>9. ASSUME NEW p \in Paths, CreateProjectTreeFile(s, p) PROVE KeptInv'
  <2>1. PICK new : Puts(s, new) /\ new.kind = "create" /\ new.pc = "probe" /\ new.path = p
    BY <1>s, <1>9, CreateBeginsIs
  <2>2. Begin(s) /\ ed.tabs[p] = NoTab
    BY <1>9 DEF CreateProjectTreeFile, InTree, IsOpen
  <2>3. Careful(new)'
    BY <1>u, <2>1, <2>2 DEF Careful, Loads, Serves
  <2> QED
    BY <1>2, <2>1, <2>2, <2>3
<1>10. ASSUME NEW p \in Paths, NEW again \in BOOLEAN, SyncChangedPaths(s, p, again)
       PROVE  KeptInv'
  <2>1. Begin(s) /\ \E new : Puts(s, new) /\ new.kind = "sync" /\ new.pc = "refresh"
    BY <1>s, <1>10, SyncBeginsIs DEF SyncChangedPaths
  <2> QED
    BY <1>2, <2>1 DEF Careful, Loads, Serves
<1>11. ASSUME NEW P \in Projects, OpenProject(s, P) PROVE KeptInv'
  <2>1. Begin(s) /\ \E new : Puts(s, new) /\ new.kind = "switch" /\ new.pc = "opening"
    BY <1>s, <1>11, SwitchBeginsIs DEF OpenProject
  <2> QED
    BY <1>2, <2>1 DEF Careful, Loads, Serves
<1> QED
  BY <1>4, <1>5, <1>6, <1>7, <1>8, <1>9, <1>10, <1>11 DEF Served

LEMMA KeptOfLoadAnswered ==
    ASSUME Kept, ~raced', NEW s \in Slots, LoadAnswered(s)
    PROVE  KeptInv'
<1> DEFINE o == op[s]
           e == Loaded(ed, s, o)
           t == Tab(o.text, o.at, o.fresh)
<1>s. Shape /\ Careful(o)
  BY DEF Kept, SeenInv
<1>1. UNCHANGED <<session, draft>> /\ ~raced /\ o.pc = "got" /\ o.path \in Paths
  BY <1>s, LoadAnsweredIs DEF LoadAnswered, history
<1>2. Only(s) /\ o.pc # "opened"
  BY <1>1, OnlyOne DEF None
<1>3. draft[o.path] = NoText
  BY <1>s, <1>1 DEF Careful, Loads
<1>4. Shows(ed, s, o) => /\ o.at = session /\ o.text # NoText
                         /\ disk[session][o.path].text # NoText
                         /\ e.tabs = [ed.tabs EXCEPT ![o.path] = t]
  BY <1>s, <1>1, LoadedIs DEF Careful
<1>5. ~Shows(ed, s, o) => e.tabs = ed.tabs
  BY <1>s, <1>1, LoadedIs
<1>6. /\ Same(ed', e) /\ TabsShape(e)
      /\ \E new : \/ new = Idle /\ Puts(s, new)
                  \/ Puts(s, new) /\ new.pc = "get" /\ new.path = o.path /\ new.kind # "save"
  <2>1. o.kind # "save"
    BY <1>s, <1>1, OpIs DEF Shape, OpShape, StepsOfKind, Serves
  <2> QED
    BY <1>s, <2>1, LoadAnsweredIs DEF Goes
<1>7. \A S \in Projects, p \in Paths : disk'[S][p].text = disk[S][p].text
  <2>1. disk \in [Projects -> [Paths -> [text : Texts, known : BOOLEAN]]]
    BY <1>s DEF Shape, DiskShape
  <2>2. \/ disk' = [disk EXCEPT ![o.at][o.path].known = TRUE] /\ o.at \in Projects
        \/ disk' = disk
    BY <1>s, <1>1, LoadAnsweredIs, LoadedIs
  <2> HIDE DEF o
  <2> QED
    BY <1>1, <2>1, <2>2
<1>8. ASSUME NEW p \in Paths
      PROVE  /\ IsOpen(ed, p)' => disk'[ed'.tabs[p].at][p].text # NoText
             /\ draft'[p] # NoText => ed'.tabs[p].text = draft'[p] /\ ed'.tabs[p].dirty
             /\ IsOpen(ed, p)' => \/ ed'.tabs[p].at = session
                                  \/ ed'.tabs[p].at = ed.tabs[p].at /\ IsOpen(ed, p)
  <2>1. /\ ed'.tabs[p].text = e.tabs[p].text /\ ed'.tabs[p].at = e.tabs[p].at
        /\ ed'.tabs[p].dirty = e.tabs[p].dirty
        /\ ed'.tabs[p] = NoTab <=> e.tabs[p] = NoTab
    BY <1>6 DEF Same
  <2>2. session \in Projects
    BY <1>s DEF Shape, RestShape
  <2>3. CASE Shows(ed, s, o) /\ p = o.path
    <3>1. e.tabs[p] = t /\ t.at = session
      BY <1>s, <1>4, <2>3 DEF Shape, TabsShape, Editors, Tab
    <3>2. draft'[p] = NoText
      BY <1>1, <1>3, <2>3
    <3>3. disk'[session][p].text # NoText
      BY <1>4, <1>7, <2>2, <2>3
    <3>4. ed'.tabs[p].at = session
      BY <2>1, <3>1
    <3> QED
      BY <3>2, <3>3, <3>4
  <2>4. CASE ~(Shows(ed, s, o) /\ p = o.path)
    <3>1. e.tabs[p] = ed.tabs[p] /\ TabIsKept(p)
      BY <1>s, <1>4, <1>5, <2>4 DEF Shape, TabsShape, Editors, Kept
    <3>2. IsOpen(ed, p) => ed.tabs[p].at \in Projects
      BY <1>s DEF Shape, TabsShape, TabShape, IsOpen
    <3> QED
      BY <1>1, <1>7, <2>1, <3>1, <3>2 DEF IsOpen, TabIsKept
  <2> QED
    BY <2>3, <2>4
<1>9. \A p \in Paths : TabIsKept(p)'
  BY <1>8 DEF TabIsKept
<1>10. TabsAreHere'
  <2>1. \A q \in Slots : op[q].pc # "opened"
    <3>1. \A q \in Slots : q # s => op[q].pc = None
      BY <1>s, <1>2, WorksIs, IdleIs DEF Only, Shape
    <3> QED
      BY <1>2, <3>1 DEF None
  <2> QED
    BY <1>1, <1>8, <2>1 DEF Kept, TabsAreHere
<1>11. PICK new : \/ new = Idle /\ Puts(s, new)
                  \/ Puts(s, new) /\ new.pc = "get" /\ new.path = o.path /\ new.kind # "save"
  BY <1>6
<1>12. Careful(new)'
  <2>1. CASE new = Idle
    BY <2>1, IdleIsCareful DEF Careful
  <2>2. CASE new # Idle
    BY <1>1, <1>3, <1>11, <2>2 DEF Careful, Serves
  <2> QED
    BY <2>1, <2>2
<1> QED
  BY <1>2, <1>9, <1>10, <1>11, <1>12, CarefulGoesOn DEF KeptInv

LEMMA KeptOfSaveAnswered ==
    ASSUME Kept, ~raced', NEW s \in Slots, SaveAnswered(s)
    PROVE  KeptInv'
<1> DEFINE o == op[s]
           t == IF IsOpen(ed, o.path) THEN Tab(o.text, o.at, o.fresh) ELSE NoTab
<1>s. Shape /\ Careful(o)
  BY DEF Kept, SeenInv
<1>1. /\ UNCHANGED <<session, disk>> /\ ~raced
      /\ draft' = IF draft[o.path] = o.text THEN [draft EXCEPT ![o.path] = NoText] ELSE draft
  BY DEF SaveAnswered
<1>2. /\ o.kind = "save" /\ o.pc = "saved" /\ o.path \in Paths
      /\ ed'.tabs = [ed.tabs EXCEPT ![o.path] = t]
      /\ \E new : Puts(s, new) /\ Keeps(new, o) /\ new.pc = "refresh" /\ new.text = o.text
  BY <1>s, SaveAnsweredIs
<1>3. Only(s) /\ o.pc # "opened"
  BY <1>1, <1>2, OnlyOne DEF None
<1>4. /\ draft[o.path] \in {NoText, o.text} /\ o.at = session
      /\ disk[session][o.path].text # NoText
  BY <1>s, <1>2 DEF Careful, Serves
<1>5. draft'[o.path] = NoText /\ \A p \in Paths : p # o.path => draft'[p] = draft[p]
  BY <1>s, <1>1, <1>2, <1>4 DEF Shape, RestShape
<1>6. /\ ed'.tabs[o.path] = t /\ \A p \in Paths : p # o.path => ed'.tabs[p] = ed.tabs[p]
      /\ t # NoTab => t.at = session /\ IsOpen(ed, o.path)
  <2>1. ed'.tabs[o.path] = t /\ \A p \in Paths : p # o.path => ed'.tabs[p] = ed.tabs[p]
    BY <1>s, <1>2 DEF Shape, TabsShape, Editors
  <2>2. t # NoTab => t.at = session /\ IsOpen(ed, o.path)
    BY <1>4 DEF Tab
  <2> QED
    BY <2>1, <2>2
<1> HIDE DEF t
<1>7. \A p \in Paths : TabIsKept(p)'
  <2> SUFFICES ASSUME NEW p \in Paths PROVE TabIsKept(p)'
    OBVIOUS
  <2>1. TabIsKept(p)
    BY DEF Kept
  <2> QED
    BY <1>1, <1>4, <1>5, <1>6, <2>1 DEF TabIsKept, IsOpen
<1>8. TabsAreHere'
  <2>1. \A q \in Slots : op[q].pc # "opened"
    <3>1. \A q \in Slots : q # s => op[q].pc = None
      BY <1>s, <1>3, WorksIs, IdleIs DEF Only, Shape
    <3> QED
      BY <1>3, <3>1 DEF None
  <2> QED
    BY <1>1, <1>6, <2>1 DEF Kept, TabsAreHere, IsOpen
<1>9. PICK new : Puts(s, new) /\ Keeps(new, o) /\ new.pc = "refresh" /\ new.text = o.text
  BY <1>2
<1>10. Careful(new)'
  BY <1>2, <1>9 DEF Careful, Keeps, Loads, Serves
<1> QED
  BY <1>3, <1>7, <1>8, <1>9, <1>10, CarefulGoesOn DEF KeptInv

LEMMA KeptOfSwitch ==
    ASSUME Kept, ~raced', NEW s \in Slots,
           SaveRefused(s) \/ FinalizeProjectSwitch(s) \/ ServeOpenProject(s)
    PROVE  KeptInv'
<1> USE DEF history
<1>s. Shape
  BY DEF Kept, SeenInv
<1>1. ASSUME SaveRefused(s) PROVE KeptInv'
  <2>1. op[s].pc \in {"conflict", "failed"} /\ Same(ed', ed) /\ Puts(s, Idle)
    BY <1>s, <1>1, SaveRefusedIs
  <2>2. UNCHANGED <<session, disk, draft>> /\ ~raced
    BY <1>1 DEF SaveRefused
  <2>3. Only(s) /\ op[s].pc # "opened"
    BY <2>1, <2>2, OnlyOne DEF None
  <2> QED
    BY <2>1, <2>2, <2>3, SameTextsIs, IdleIsCareful, KeptGoesOn
<1>2. ASSUME FinalizeProjectSwitch(s) PROVE KeptInv'
  <2>1. /\ op[s].pc = "opened" /\ op[s].kind = "switch"
        /\ (\A p \in Paths : ed'.tabs[p] = NoTab) /\ draft' = [p \in Paths |-> NoText]
        /\ \E new : Puts(s, new) /\ Keeps(new, op[s]) /\ new.pc = "landing"
    BY <1>s, <1>2, FinalizeIs
  <2>2. Only(s)
    BY <1>2, <2>1, OnlyOne DEF None, FinalizeProjectSwitch
  <2>3. PICK new : Puts(s, new) /\ Keeps(new, op[s]) /\ new.pc = "landing"
    BY <2>1
  <2>4. Careful(new)'
    BY <2>1, <2>3 DEF Careful, Keeps, Loads, Serves
  <2>5. (\A p \in Paths : TabIsKept(p)') /\ TabsAreHere'
    BY <2>1 DEF TabIsKept, TabsAreHere, IsOpen
  <2> QED
    BY <2>2, <2>3, <2>4, <2>5, CarefulGoesOn DEF KeptInv
<1>3. ASSUME ServeOpenProject(s) PROVE KeptInv'
  <2>1. /\ op[s].pc = "opening" /\ op[s].kind = "switch" /\ ed' = ed
        /\ \/ \E new : Puts(s, new) /\ Keeps(new, op[s]) /\ new.pc = "opened"
           \/ session' = session /\ Puts(s, Idle)
    BY <1>s, <1>3, ServeOpenProjectIs
  <2>2. UNCHANGED <<disk, draft>> /\ ~raced
    BY <1>3 DEF ServeOpenProject
  <2>3. Only(s) /\ op[s].pc # "opened" /\ SameTexts /\ NoFileGoes
    BY <2>1, <2>2, OnlyOne, SameTextsIs DEF None
  <2>4. CASE session' = session /\ Puts(s, Idle)
    BY <2>2, <2>3, <2>4, IdleIsCareful, KeptGoesOn
  <2>5. CASE \E new : Puts(s, new) /\ Keeps(new, op[s]) /\ new.pc = "opened"
    <3>1. PICK new : Puts(s, new) /\ Keeps(new, op[s]) /\ new.pc = "opened"
      BY <2>5
    <3>2. Careful(new)'
      BY <2>1, <3>1 DEF Careful, Keeps, Loads, Serves
    <3>3. op'[s].pc = "opened"
      BY <1>s, <3>1, PutsIs DEF Shape
    <3>4. TabsAreHere'
      BY <3>3 DEF TabsAreHere
    <3> QED
      BY <2>2, <2>3, <3>1, <3>2, <3>4, TabsKept, CarefulGoesOn DEF KeptInv
  <2> QED
    BY <2>1, <2>4, <2>5
<1> QED
  BY <1>1, <1>2, <1>3

LEMMA KeptOfWriters ==
    ASSUME Kept, ~raced',
           \/ \E s \in Slots : ReplaceFile(s)
           \/ \E p \in Paths, S \in Projects : AgentWrites(S, p)
    PROVE  KeptInv'
<1> USE DEF history
<1>s. Shape
  BY DEF Kept, SeenInv
<1>1. ASSUME NEW s \in Slots, ReplaceFile(s) PROVE KeptInv'
  <2> DEFINE o == op[s]
             n == op'[s]
  <2>1. /\ o.pc = "checked" /\ o.at \in Projects /\ o.path \in Paths /\ o.text # NoText
        /\ Wrote(o.at, o.path, File(o.text, TRUE)) /\ OpsShape'
        /\ n.pc = "replaced" /\ Keeps(n, o) /\ n.text = o.text /\ n.at = o.at
        /\ \A q \in Slots : q # s => op'[q] = AgedOps(o.at, o.path)[q]
    BY <1>s, <1>1, ReplaceFileIs
  <2>2. UNCHANGED <<session, draft>> /\ ~raced
    BY <1>1 DEF ReplaceFile
  <2>3. Only(s) /\ o.pc # "opened" /\ Careful(o)
    BY <2>1, <2>2, OnlyOne DEF None, Kept
  <2>4. SameTexts /\ NoFileGoes /\ disk'[o.at][o.path].text = o.text
    BY <2>1 DEF Wrote, SameTexts, NoFileGoes, File
  <2>5. /\ o.at = session
        /\ o.kind = "create" => ed.tabs[o.path] = NoTab
        /\ o.kind = "save" => draft[o.path] \in {NoText, o.text}
    BY <2>1, <2>3 DEF Careful, Serves
  <2>6. Careful(op[s])'
    <3>1. n.kind = "create" => ed'.tabs[n.path] = NoTab
      BY <2>1, <2>4, <2>5 DEF Keeps, SameTexts
    <3>2. disk'[session][n.path].text # NoText
      BY <2>1, <2>4, <2>5 DEF Keeps
    <3> QED
      BY <2>1, <2>2, <2>5, <3>1, <3>2 DEF Careful, Keeps, Loads
  <2>7. ASSUME NEW q \in Slots, q # s PROVE Careful(op[q])'
    <3>1. op[q] = Idle
      BY <1>s, <2>3, <2>7, WorksIs DEF Only, Shape
    <3>2. op'[q] = Idle
      BY <1>s, <2>1, <2>7, <3>1, AgedIs
    <3> QED
      BY <3>2, IdleIsCareful DEF Careful
  <2>8. (\A p \in Paths : TabIsKept(p)') /\ TabsAreHere'
    BY <2>2, <2>3, <2>4, TabsKept, HereGoesOn
  <2> QED
    BY <2>6, <2>7, <2>8 DEF KeptInv
<1>2. ASSUME NEW p \in Paths, NEW S \in Projects, AgentWrites(S, p) PROVE KeptInv'
  <2>1. /\ Wrote(S, p, File(Text(made + 1, S), BeingSaved(S, p)))
        /\ op' = AgedOps(S, p) /\ Text(made + 1, S) # NoText
    BY <1>s, <1>2, AgentWritesIs
  <2>2. UNCHANGED <<session, draft>>
    BY <1>2 DEF AgentWrites
  <2>3. SameTexts /\ NoFileGoes
    BY <2>1 DEF Wrote, SameTexts, NoFileGoes, File
  <2>4. \A q \in Slots : /\ Keeps(op'[q], op[q]) /\ op'[q].pc = op[q].pc
                         /\ op'[q].text = op[q].text /\ op'[q].at = op[q].at
    BY <1>s, <2>1, AgedIs
  <2>5. \A q \in Slots : Careful(op[q])'
    BY <2>2, <2>3, <2>4, StaysCareful
  <2>6. TabsAreHere'
    BY <2>2, <2>3, <2>4 DEF Kept, TabsAreHere, SameTexts, IsOpen
  <2> QED
    BY <2>2, <2>3, <2>5, <2>6, TabsKept DEF KeptInv
<1> QED
  BY <1>1, <1>2

\* The text area is disabled while an answer can replace what is typed.
LEMMA KeptOfType ==
    ASSUME Markdown = {}, Kept, ~raced', NEW p \in Paths, Type(p)
    PROVE  KeptInv'
<1> DEFINE text == Text(made + 1, ed.tabs[p].at)
<1>s. Shape
  BY DEF Kept, SeenInv
<1>1. /\ UNCHANGED <<session, disk, op>> /\ ~ed.busy /\ ~raced
      /\ \A q \in Slots : op[q].kind # "switch"
  BY DEF Type
<1>2. /\ IsOpen(ed, p) /\ IsOpen(ed', p) /\ ed'.tabs[p].text = text /\ ed'.tabs[p].dirty
      /\ ed'.tabs[p].at = ed.tabs[p].at /\ draft' = [draft EXCEPT ![p] = text]
      /\ \A q \in Paths : q # p => ed'.tabs[q] = ed.tabs[q]
  BY <1>s, TypeIs
<1>3. draft'[p] = text /\ \A q \in Paths : q # p => draft'[q] = draft[q]
  BY <1>s, <1>2 DEF Shape, RestShape
<1> HIDE DEF text
<1>4. ASSUME NEW q \in Paths PROVE TabIsKept(q)'
  <2>1. TabIsKept(q)
    BY DEF Kept
  <2> QED
    BY <1>1, <1>2, <1>3, <2>1 DEF TabIsKept, IsOpen
<1>5. TabsAreHere'
  BY <1>1, <1>2 DEF Kept, TabsAreHere, IsOpen
<1>6. ASSUME NEW q \in Slots PROVE Careful(op[q])'
  <2>1. Careful(op[q]) /\ ~Works(op[q]) /\ op'[q] = op[q]
    BY <1>1 DEF Kept, BusyIsWork
  <2>2. op[q].pc \notin Loads /\ op[q].kind # "save"
    BY <2>1 DEF Works, Loads
  <2>3. op[q].pc # "landing"
    <3>1. op[q] \in Operation /\ StepsOfKind(op[q]) /\ (op[q].pc # None => op[q].kind # None)
      BY <1>s, OpIs DEF Shape, OpShape
    <3> QED
      BY <1>1, <3>1, KindOf DEF None
  <2>4. op[q].kind = "create" /\ op[q].pc \in Serves \cup {"probe", "refresh"}
        => ed'.tabs[op[q].path] = NoTab
    <3>1. op[q].pc # None => op[q].path \in Paths
      BY <1>s, OpIs DEF Shape
    <3> QED
      BY <1>2, <2>1, <3>1 DEF Careful, IsOpen, Serves, None
  <2> QED
    BY <1>1, <2>1, <2>2, <2>3, <2>4 DEF Careful, Loads
<1> QED
  BY <1>4, <1>5, <1>6 DEF KeptInv

LEMMA KeptStep ==
    ASSUME Markdown = {}
    PROVE  SeenInv /\ Alone /\ BusyIsWork /\ KeptInv /\ [Next]_vars => KeptInv'
<1> SUFFICES ASSUME SeenInv, Alone, BusyIsWork, KeptInv, [Next]_vars, ~raced' PROVE KeptInv'
  BY DEF KeptInv
<1>1. CASE UNCHANGED vars
  <2>1. UNCHANGED <<session, disk, ed, op, draft, raced>>
    BY <1>1 DEF vars, history
  <2> QED
    BY <2>1 DEF KeptInv, TabIsKept, IsOpen, TabsAreHere, Careful
<1>2. CASE Next
  <2>1. ~raced
    <3>1. CASE \E s \in Slots : Begin(s)
      BY <3>1 DEF Begin
    <3>2. CASE \E p \in Paths : Type(p)
      BY <3>2 DEF Type
    <3>3. CASE raced' = raced
      BY <3>3
    <3>4. ASSUME NEW s \in Slots, NEW p \in Paths, OpenDocument(s, p)
          PROVE  raced' = raced \/ Begin(s)
      BY <3>4 DEF OpenDocument
    <3>5. ASSUME NEW s \in Slots,
                 \/ \E p \in Paths :
                      \/ CreateProjectTreeFile(s, p)
                      \/ \E openFirst \in BOOLEAN : SyncChangedPaths(s, p, openFirst)
                 \/ SaveActiveDocument(s) \/ SaveAllDocuments(s) \/ ConfirmSaveOverwrite(s)
                 \/ \E P \in Projects : OpenProject(s, P)
          PROVE  Begin(s)
      BY <3>5 DEF CreateProjectTreeFile, SyncChangedPaths, SaveActiveDocument, SaveAllDocuments,
                  ConfirmSaveOverwrite, OpenProject
    <3>6. ASSUME NEW s \in Slots,
                 \/ LoadAnswered(s) \/ SaveAnswered(s) \/ SaveRefreshed(s) \/ SaveRefused(s)
                 \/ SyncRefreshed(s) \/ CreateProbed(s) \/ CreateAnswered(s)
                 \/ FinalizeProjectSwitch(s) \/ LandInProject(s)
                 \/ ServeStat(s) \/ ServeRead(s) \/ CheckSave(s) \/ ReplaceFile(s)
                 \/ StatSaved(s) \/ ServeOpenProject(s)
          PROVE  raced' = raced
      BY <3>6 DEF LoadAnswered, SaveAnswered, SaveRefreshed, SaveRefused, SyncRefreshed,
                  CreateProbed, CreateAnswered, FinalizeProjectSwitch, LandInProject, ServeStat,
                  ServeRead, CheckSave, ReplaceFile, StatSaved, ServeOpenProject, history
    <3>7. ASSUME NEW p \in Paths, NEW S \in Projects, AgentWrites(S, p) PROVE raced' = raced
      BY <3>7 DEF AgentWrites, history
    <3> QED
      BY <1>2, <3>1, <3>2, <3>3, <3>4, <3>5, <3>6, <3>7 DEF Next
  <2>2. Kept
    BY <2>1 DEF Kept, KeptInv
  <2>3. ASSUME NEW s \in Slots,
               \/ \E p \in Paths : OpenDocument(s, p)
               \/ SyncRefreshed(s) \/ CreateAnswered(s) \/ LandInProject(s)
               \/ SaveBegins(s) \/ SaveRefreshed(s)
        PROVE  KeptInv'
    BY <2>2, <2>3, KeptOfEditor
  <2>4. ASSUME NEW s \in Slots, Served(s) PROVE KeptInv'
    BY <2>2, <2>4, KeptOfServed
  <2>5. ASSUME NEW s \in Slots,
               \/ LoadAnswered(s) \/ SaveAnswered(s) \/ SaveRefused(s)
               \/ FinalizeProjectSwitch(s) \/ ServeOpenProject(s)
        PROVE  KeptInv'
    BY <2>2, <2>5, KeptOfLoadAnswered, KeptOfSaveAnswered, KeptOfSwitch
  <2>6. ASSUME \/ \E s \in Slots : ReplaceFile(s)
               \/ \E p \in Paths, S \in Projects : AgentWrites(S, p)
        PROVE  KeptInv'
    BY <2>2, <2>6, KeptOfWriters
  <2>7. ASSUME NEW p \in Paths, Type(p) PROVE KeptInv'
    BY <2>2, <2>7, KeptOfType
  <2> QED
    BY <1>2, <2>3, <2>4, <2>5, <2>6, <2>7 DEF Next, Served, SaveBegins
<1> QED
  BY <1>1, <1>2

\* Where the toolbar has no button that ignores `busy`, what the user typed is
\* kept in its tab, marked, while operations do not overlap.
THEOREM DraftsAreKeptAlways == ASSUME Markdown = {} PROVE Spec => []DraftsAreKept
<1>1. Init => KeptInv
  <2> SUFFICES ASSUME Init PROVE KeptInv
    OBVIOUS
  <2>1. /\ \A p \in Paths : ed.tabs[p] = NoTab /\ draft[p] = NoText
        /\ \A s \in Slots : op[s] = Idle
    BY DEF Init
  <2> QED
    BY <2>1, IdleIsCareful DEF KeptInv, TabIsKept, TabsAreHere, IsOpen
<1>2. SeenInv /\ Alone /\ BusyIsWork /\ KeptInv /\ [Next]_vars => KeptInv'
  BY KeptStep
<1>3. KeptInv => DraftsAreKept
  BY DEF KeptInv, TabIsKept, DraftsAreKept
<1> QED
  BY <1>1, <1>2, <1>3, SeenInvariance, BusyInvariance, PTL DEF Spec

=============================================================================
