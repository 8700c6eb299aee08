------------------------ MODULE GeneratedCacheProofs ------------------------
(***************************************************************************)
(* The invariant of GeneratedCache, for any length of the answer, any      *)
(* number of commits, edits and launches and both modes, and what follows  *)
(* from it, whatever calls race: that an answered commit was written, that *)
(* no text is lost, and how often the text can be in the document.         *)
(***************************************************************************)
EXTENDS GeneratedCache, FiniteSetTheorems, TLAPS

-----------------------------------------------------------------------------
(* The inductive invariant.                                                *)

StreamPCs == {"idle", "create", "read", "append", "touch", "bind", "bound", "fail", "over"}
CommitPCs == {"idle", "make", "makemeta", "fill", "put", "putmeta", "get", "prepare", "begin",
              "journal", "replace", "finalize", "complete", "fail", "mark", "write", "delete",
              "done", "replayed", "threw", "lost"}
RunStates == {"none", "running", "failed", "completed"}
Stages    == {"none", "open", "flagged", "base", "finalized"}

Contents == [there : BOOLEAN, text : Texts]
Rows     == [stage : Stages, base : Seq(Pieces), new : Seq(Pieces)]
Streams  == [pc : StreamPCs, at : 1..(Deltas + 1), seen : Statuses]
Calls    == [pc : CommitPCs, text : Texts, new : Seq(Pieces)]

Shape ==
    /\ status \in Statuses /\ content \in Contents
    /\ target \in Seq(Pieces)
    /\ run \in [Texts -> RunStates]
    /\ row \in [Texts -> Rows]
    /\ stream \in Streams
    /\ commit \in [Commits -> Calls]
    /\ discard \in [pc : {"idle", "delete", "write", "done", "lost"}]
    /\ edits \in 0..MaxEdits
    /\ launches \in [count : Nat, up : BOOLEAN]

\* The pieces of the model's answer that are in a document.
HasText(s) == \E i \in DOMAIN s : s[i] \in Texts
Fresh(s)   == ~HasText(s)
Once(s)    == \A i, j \in DOMAIN s : s[i] \in Texts /\ s[j] \in Texts => i = j
Twice(s)   == \A i, j, k \in DOMAIN s : s[i] \in Texts /\ s[j] \in Texts /\ s[k] \in Texts
                                           => i = j \/ j = k \/ i = k

Writing(c) == commit[c].pc \in {"journal", "replace", "finalize", "complete", "fail"}
Written(c) == commit[c].pc \in {"mark", "write", "delete", "done"}

\* The content while it arrives: the pieces up to the next one, from wherever the
\* file was created anew.
Arriving == content.text = <<>> \/ \E i \in 1..Deltas :
                                     i < stream.at /\ content.text = SubSeq(Whole, i, stream.at - 1)

\* The stream comes before every commit, and the calls live in one launch.
StreamInv ==
    /\ Streaming => Up /\ (\A c \in Commits : commit[c].pc = "idle")
    /\ Streaming /\ stream.pc # "create" => status # "none" /\ Arriving
    /\ stream.pc = "append" => stream.at <= Deltas
    /\ stream.pc \in {"append", "touch", "bound"} => stream.seen # "none"
    /\ \A c \in Commits : AtWork(c) => Up
    /\ \A c \in Commits : Making(c) => stream.pc = "idle"

\* A text has one run at a time, and its row is as far as that run.
RunInv ==
    /\ \A c \in Commits : Writing(c) => run[commit[c].text] = "running"
    /\ \A c, d \in Commits : Writing(c) /\ Writing(d) /\ commit[c].text = commit[d].text => c = d
    /\ \A c \in Commits : commit[c].pc = "complete" => row[commit[c].text].stage = "finalized"
    /\ \A c \in Commits :
         commit[c].pc \in {"replace", "finalize"} => row[commit[c].text].stage = "open"
    /\ \A t \in Texts : run[t] = "completed" => row[t].stage = "finalized"

\* Somebody has completed the run of a text.
Completed == \E t \in Texts : run[t] = "completed"

AnswerInv ==
    /\ status = "committed" => Completed
    /\ stream.seen = "committed" => Completed
    /\ \A c \in Commits : Written(c) \/ commit[c].pc = "replayed" => Completed

\* What a row promises and what a finished one has left in the document.
TextInv ==
    /\ \A t \in Texts : row[t].stage # "none" => HasText(row[t].new)
    /\ \A t \in Texts : row[t].stage = "finalized" => HasText(target)
    /\ \A c \in Commits : commit[c].pc \in {"begin", "journal"} => HasText(commit[c].new)
    /\ \A c \in Commits : commit[c].pc = "finalize" => HasText(target)

\* An entry that exists, or is about to, has its content until that is written.
KeptInv ==
    discard.pc = "idle" /\ (status # "none" \/ \E c \in Commits : commit[c].pc \in {"makemeta", "putmeta"})
        => content.there \/ HasText(target)

CacheInv == Shape /\ StreamInv /\ RunInv /\ AnswerInv /\ TextInv /\ KeptInv

\* The texts that have a run, or will have one.  A draft is found whole, or not yet
\* filled; what a stream has left behind is found as it is.
Known(t)    == row[t].stage # "none" \/ \E c \in Commits : /\ commit[c].pc = "begin" \/ Writing(c)
                                                           /\ commit[c].text = t
Drafted     == {<<>>, Whole}
Possible(t) == IF stream.pc = "idle" THEN t \in Drafted
               ELSE stream.pc = "over" /\ (content.there => content.text = t)
NoRows      == \A t \in Texts : row[t].stage = "none"
OneRow      == \A t, u \in Texts : row[t].stage # "none" /\ row[u].stage # "none" => t = u

NamedInv ==
    /\ stream.pc = "idle" => content.text \in Drafted
    /\ \A c \in Commits : commit[c].pc = "prepare" =>
         IF stream.pc = "idle" THEN commit[c].text \in Drafted
                               ELSE content.there => content.text = commit[c].text
    /\ \A t \in Texts : Known(t) => Possible(t)
    /\ stream.pc # "idle" => \A t, u \in Texts : Known(t) /\ Known(u) => t = u
    /\ (\A c \in Commits : commit[c].pc = "idle") => NoRows

\* Every row stands for one time the text is written: a document composed before a
\* row was opened holds the text at most as often as there are rows then, and once
\* more if it is composed for a row to come.
Holds(s, new) ==
    /\ NoRows => IF new THEN Once(s) ELSE Fresh(s)
    /\ OneRow => IF new THEN Twice(s) ELSE Once(s)
    /\ Twice(s)

TimesInv ==
    /\ Holds(target, FALSE)
    /\ \A t \in Texts : row[t].stage # "none" => Holds(row[t].new, FALSE)
    /\ \A c \in Commits :
         commit[c].pc \in {"begin", "journal"} /\ row[commit[c].text].stage = "none" =>
             Holds(commit[c].new, TRUE)

-----------------------------------------------------------------------------
(* Texts and pieces.                                                       *)

LEMMA WholeIs ==
    /\ Deltas \in Nat /\ Deltas >= 1
    /\ Whole \in Seq(Nat) /\ Len(Whole) = Deltas /\ \A i \in 1..Deltas : Whole[i] = i
<1>1. Deltas \in Nat /\ Deltas >= 1
  BY CacheAssumption
<1>2. Whole \in [1..Deltas -> Nat]
  BY <1>1 DEF Whole
<1> QED BY <1>1, <1>2 DEF Whole

LEMMA PartIs ==
    ASSUME NEW i \in 1..Deltas, NEW j \in 1..Deltas, i <= j
    PROVE  /\ SubSeq(Whole, i, j) \in Seq(Nat) /\ Len(SubSeq(Whole, i, j)) = j - i + 1
           /\ \A k \in 1..(j - i + 1) : SubSeq(Whole, i, j)[k] = i + k - 1
<1>1. SubSeq(Whole, i, j) \in Seq(Nat) /\ Len(SubSeq(Whole, i, j)) = j - i + 1
  BY WholeIs
<1>2. ASSUME NEW k \in 1..(j - i + 1)
      PROVE  SubSeq(Whole, i, j)[k] = i + k - 1
  <2>1. SubSeq(Whole, i, j)[k] = Whole[i + k - 1]
    BY WholeIs
  <2>2. i + k - 1 \in 1..Deltas
    BY WholeIs
  <2> QED BY <2>1, <2>2, WholeIs
<1> QED BY <1>1, <1>2

\* Two sequences with the same elements.
LEMMA SameSeq ==
    ASSUME NEW s \in Seq(Nat), NEW t \in Seq(Nat), Len(s) = Len(t),
           \A k \in 1..Len(s) : s[k] = t[k]
    PROVE  s = t
OBVIOUS

LEMMA WholeIsText == Whole \in Texts /\ <<>> \in Texts /\ Whole # <<>>
<1>1. 1 \in 1..Deltas /\ Deltas \in 1..Deltas /\ 1 <= Deltas
  BY WholeIs
<1>2. SubSeq(Whole, 1, Deltas) = Whole
  <2>1. /\ SubSeq(Whole, 1, Deltas) \in Seq(Nat) /\ Len(SubSeq(Whole, 1, Deltas)) = Deltas
        /\ \A k \in 1..Deltas : SubSeq(Whole, 1, Deltas)[k] = k
    <3>1. Deltas - 1 + 1 = Deltas /\ \A k \in 1..Deltas : 1 + k - 1 = k
      BY WholeIs
    <3> QED BY <1>1, <3>1, PartIs
  <2> QED BY <2>1, WholeIs, SameSeq
<1>3. Whole \in Texts /\ <<>> \in Texts
  BY <1>1, <1>2 DEF Texts
<1>4. Whole # <<>>
  BY <1>1, WholeIs
<1> QED BY <1>3, <1>4

\* What a delta makes of the content so far.
LEMMA NextDelta ==
    ASSUME NEW k \in 1..Deltas, NEW text,
           text = <<>> \/ \E i \in 1..Deltas : i < k /\ text = SubSeq(Whole, i, k - 1)
    PROVE  \E i \in 1..Deltas : i <= k /\ Append(text, k) = SubSeq(Whole, i, k)
<1>1. CASE text = <<>>
  <2>1. /\ SubSeq(Whole, k, k) \in Seq(Nat) /\ Len(SubSeq(Whole, k, k)) = 1
        /\ SubSeq(Whole, k, k)[1] = k
    <3>1. k - k + 1 = 1 /\ k + 1 - 1 = k /\ k <= k /\ 1 \in 1..1
      OBVIOUS
    <3> QED BY <3>1, PartIs
  <2>2. /\ Append(text, k) \in Seq(Nat) /\ Len(Append(text, k)) = 1 /\ Append(text, k)[1] = k
    BY <1>1
  <2>3. Append(text, k) = SubSeq(Whole, k, k)
    BY <2>1, <2>2, SameSeq
  <2> QED BY <2>3
<1>2. CASE \E i \in 1..Deltas : i < k /\ text = SubSeq(Whole, i, k - 1)
  <2>1. PICK i \in 1..Deltas : i < k /\ text = SubSeq(Whole, i, k - 1)
    BY <1>2
  <2>2. k - 1 \in 1..Deltas /\ i <= k - 1 /\ (k - 1) - i + 1 = k - i /\ i <= k
    BY <2>1, WholeIs
  <2>3. /\ text \in Seq(Nat) /\ Len(text) = k - i /\ \A m \in 1..(k - i) : text[m] = i + m - 1
    BY <2>1, <2>2, PartIs
  <2>4. /\ SubSeq(Whole, i, k) \in Seq(Nat) /\ Len(SubSeq(Whole, i, k)) = k - i + 1
        /\ \A m \in 1..(k - i + 1) : SubSeq(Whole, i, k)[m] = i + m - 1
    BY <2>2, PartIs
  <2>5. /\ Append(text, k) \in Seq(Nat) /\ Len(Append(text, k)) = k - i + 1
        /\ \A m \in 1..(k - i) : Append(text, k)[m] = text[m]
        /\ Append(text, k)[k - i + 1] = k
    BY <2>2, <2>3
  <2>6. PICK s \in Seq(Nat) : /\ s = Append(text, k)
                             /\ Len(s) = k - i + 1 /\ s[k - i + 1] = k
                             /\ \A m \in 1..(k - i) : s[m] = text[m]
    BY <2>5, Zenon
  <2>7. ASSUME NEW m \in 1..(k - i + 1)
        PROVE  s[m] = i + m - 1
    <3>1. CASE m \in 1..(k - i)
      BY <2>3, <2>6, <3>1
    <3>2. CASE m = k - i + 1
      <4>1. i + m - 1 = k /\ s[m] = k
        BY <2>6, <3>2
      <4> QED BY <4>1
    <3> QED BY <3>1, <3>2
  <2>8. s = SubSeq(Whole, i, k)
    <3>1. PICK u \in Seq(Nat) : u = SubSeq(Whole, i, k)
      BY <2>4
    <3>2. Len(s) = Len(u) /\ \A m \in 1..Len(s) : s[m] = u[m]
      BY <2>4, <2>6, <2>7, <3>1
    <3> QED BY <3>1, <3>2, SameSeq
  <2> QED BY <2>2, <2>6, <2>8
<1> QED BY <1>1, <1>2

\* The author's pieces are none of the model's.
LEMMA PiecesAre ==
    /\ Texts \subseteq Pieces /\ Original \in Pieces /\ Edited \in Pieces
    /\ Original \notin Texts /\ Edited \notin Texts
<1>1. Texts \subseteq Pieces /\ Original \in Pieces /\ Edited \in Pieces
  BY DEF Pieces
<1>2. ASSUME NEW t \in Texts, t = Original \/ t = Edited
      PROVE  FALSE
  <2>1. t \in Seq(Nat) /\ Len(t) >= 1 /\ t[1] = 0
    <3>1. CASE t = <<0>>
      BY <3>1
    <3>2. CASE t = <<0, 0>>
      BY <3>2
    <3> QED BY <1>2, <3>1, <3>2 DEF Original, Edited
  <2>2. t # <<>>
    BY <2>1
  <2>3. PICK i \in 1..Deltas, j \in 1..Deltas : t = SubSeq(Whole, i, j)
    BY <2>2 DEF Texts
  <2>4. i <= j
    BY <2>1, <2>3, WholeIs
  <2>5. 1 \in 1..(j - i + 1) /\ i + 1 - 1 = i
    BY <2>4
  <2>6. t[1] = i
    BY <2>3, <2>4, <2>5, PartIs
  <2> QED BY <2>1, <2>6
<1> QED BY <1>1, <1>2

\* A piece added to a document.
LEMMA AddedIs ==
    ASSUME NEW s \in Seq(Pieces), NEW p \in Pieces
    PROVE  /\ Append(s, p) \in Seq(Pieces)
           /\ p \in Texts => HasText(Append(s, p))
           /\ HasText(s) => HasText(Append(s, p))
           /\ p \notin Texts /\ Fresh(s) => Fresh(Append(s, p))
           /\ p \notin Texts /\ Once(s) => Once(Append(s, p))
           /\ p \notin Texts /\ Twice(s) => Twice(Append(s, p))
           /\ Fresh(s) => Once(Append(s, p))
           /\ Once(s) => Twice(Append(s, p))
<1>1. /\ Append(s, p) \in Seq(Pieces) /\ Len(s) \in Nat
      /\ DOMAIN s = 1..Len(s) /\ DOMAIN Append(s, p) = 1..(Len(s) + 1)
      /\ \A i \in 1..Len(s) : Append(s, p)[i] = s[i]
      /\ Append(s, p)[Len(s) + 1] = p
  OBVIOUS
<1>2. \A i \in 1..(Len(s) + 1) : i \in 1..Len(s) \/ i = Len(s) + 1
  BY <1>1
<1>3. Len(s) + 1 \in 1..(Len(s) + 1) /\ \A i \in 1..Len(s) : i \in 1..(Len(s) + 1)
  BY <1>1
<1>4. /\ p \in Texts => HasText(Append(s, p))
      /\ HasText(s) => HasText(Append(s, p))
      /\ p \notin Texts /\ Fresh(s) => Fresh(Append(s, p))
      /\ p \notin Texts /\ Once(s) => Once(Append(s, p))
      /\ Fresh(s) => Once(Append(s, p))
  BY <1>1, <1>2, <1>3 DEF HasText, Fresh, Once
<1>5. p \notin Texts /\ Twice(s) => Twice(Append(s, p))
  BY <1>1, <1>2, <1>3 DEF Twice
<1>6. Once(s) => Twice(Append(s, p))
  BY <1>1, <1>2, <1>3 DEF Twice, Once
<1> QED BY <1>1, <1>4, <1>5, <1>6

LEMMA ComposedIs ==
    ASSUME Shape, NEW text \in Texts
    PROVE  /\ Composed(text) \in Seq(Pieces) /\ HasText(Composed(text))
           /\ Fresh(target) => Once(Composed(text))
           /\ Once(target) => Twice(Composed(text))
<1>1. text \in Pieces /\ target \in Seq(Pieces)
  BY PiecesAre DEF Shape
<1>2. CASE Mode = "append"
  BY <1>1, <1>2, AddedIs DEF Composed
<1>3. CASE Mode # "append"
  <2>1. /\ <<text>> \in Seq(Pieces) /\ DOMAIN <<text>> = {1} /\ <<text>>[1] = text
    BY <1>1
  <2> QED BY <1>3, <2>1 DEF Composed, HasText, Once, Twice
<1> QED BY <1>2, <1>3

\* What a row left open turns out to be.
LEMMA RecoveredRow ==
    ASSUME NEW r \in Rows
    PROVE  /\ Recovered(r) \in Rows /\ Recovered(r).new = r.new /\ Recovered(r).base = r.base
           /\ Recovered(r).stage = "none" <=> r.stage = "none"
           /\ Recovered(r).stage = "finalized" => r.stage = "finalized" \/ target = r.new
BY DEF Recovered, Rows, Stages

-----------------------------------------------------------------------------
(* What each step of a commit does.                                        *)

Others(c) == \A d \in Commits \ {c} : commit'[d] = commit[d]

LEMMA GoIs ==
    ASSUME Shape, NEW c \in Commits, NEW pc \in CommitPCs, Go(c, pc)
    PROVE  /\ commit' \in [Commits -> Calls] /\ Others(c) /\ commit'[c].pc = pc
           /\ commit'[c].text = commit[c].text /\ commit'[c].new = commit[c].new
<1>1. commit[c] \in Calls
  BY DEF Shape
<1>2. [commit[c] EXCEPT !.pc = pc] \in Calls
  BY <1>1 DEF Calls
<1>3. commit' = [commit EXCEPT ![c] = [commit[c] EXCEPT !.pc = pc]]
  BY DEF Go
<1>4. /\ commit' \in [Commits -> Calls] /\ commit'[c] = [commit[c] EXCEPT !.pc = pc]
      /\ \A d \in Commits \ {c} : commit'[d] = commit[d]
  BY <1>2, <1>3 DEF Shape
<1> QED BY <1>1, <1>4 DEF Others, Calls

LEMMA PCsAre == \A pc \in {"idle", "make", "makemeta", "fill", "put", "putmeta", "get", "prepare",
              "begin", "journal", "replace", "finalize", "complete", "fail", "mark", "write",
              "delete", "done", "replayed", "threw", "lost"} : pc \in CommitPCs
BY DEF CommitPCs

LEMMA NoCallIs ==
    ASSUME NEW pc \in CommitPCs
    PROVE  [NoCall EXCEPT !.pc = pc] \in Calls /\ [NoCall EXCEPT !.pc = pc].pc = pc
<1>1. <<>> \in Texts /\ <<>> \in Seq(Pieces) /\ "idle" \in CommitPCs
  BY WholeIsText DEF CommitPCs
<1>2. NoCall \in Calls
  BY <1>1 DEF NoCall, Calls
<1> QED BY <1>2 DEF Calls

LEMMA ThrowIs ==
    ASSUME Shape, NEW c \in Commits, Throw(c)
    PROVE  commit' \in [Commits -> Calls] /\ Others(c) /\ commit'[c].pc = "threw"
<1>1. [NoCall EXCEPT !.pc = "threw"] \in Calls /\ [NoCall EXCEPT !.pc = "threw"].pc = "threw"
  BY NoCallIs, PCsAre
<1> QED BY <1>1 DEF Throw, Shape, Others

\* A step that leaves the document and the run alone.
Enters(c) ==
    /\ Up /\ UNCHANGED <<target, run, row, stream, discard, edits, launches>>
    /\ commit' \in [Commits -> Calls] /\ Others(c)

\* A step that leaves the cache entry alone.
Runs(c) ==
    /\ Up /\ UNCHANGED <<status, content, stream, discard, edits, launches>>
    /\ commit' \in [Commits -> Calls] /\ Others(c)
    /\ commit'[c].pc # "threw" =>
         commit'[c].text = commit[c].text /\ commit'[c].new = commit[c].new

LEMMA EntersShape ==
    ASSUME Shape, NEW c \in Commits, Enters(c), status' \in Statuses, content' \in Contents
    PROVE  Shape'
BY DEF Shape, Enters

LEMMA RunsShape ==
    ASSUME Shape, NEW c \in Commits, Runs(c), target' \in Seq(Pieces),
           run' \in [Texts -> RunStates], row' \in [Texts -> Rows]
    PROVE  Shape'
BY DEF Shape, Runs

LEMMA ContentsAre == Holding(<<>>) \in Contents /\ Holding(Whole) \in Contents /\ Gone \in Contents
BY WholeIsText DEF Holding, Gone, Contents

LEMMA StartIs ==
    ASSUME Shape, NEW c \in Commits, Start(c)
    PROVE  /\ Shape' /\ Enters(c) /\ UNCHANGED <<status, content>> /\ ~Streaming
           /\ commit[c].pc \in {"idle", "threw", "lost", "done"}
           /\ \/ commit'[c].pc = "get" /\ status # "none" /\ \A d \in Commits : ~Making(d)
              \/ /\ commit'[c].pc \in {"make", "fill"} /\ stream.pc = "idle"
                 /\ commit'[c].pc = "fill" => status # "none"
<1>1. PICK pc \in {"get", "make", "fill"} :
        /\ Go(c, pc)
        /\ \/ pc = "get" /\ status # "none" /\ \A d \in Commits : ~Making(d)
           \/ /\ pc \in {"make", "fill"} /\ stream.pc = "idle"
              /\ pc = "fill" => status # "none"
  BY DEF Start
<1>2. commit' \in [Commits -> Calls] /\ Others(c) /\ commit'[c].pc = pc
  BY <1>1, PCsAre, GoIs
<1>3. Enters(c) /\ UNCHANGED <<status, content>> /\ ~Streaming
  BY <1>2 DEF Start, Same, Enters
<1>4. Shape'
  BY <1>3, EntersShape DEF Shape
<1> QED BY <1>1, <1>2, <1>3, <1>4 DEF Start

LEMMA MakeContentIs ==
    ASSUME Shape, NEW c \in Commits, MakeContent(c)
    PROVE  /\ Shape' /\ Enters(c) /\ UNCHANGED status /\ content' = Holding(<<>>)
           /\ commit[c].pc = "make" /\ commit'[c].pc = "makemeta"
<1>1. Enters(c) /\ commit'[c].pc = "makemeta"
  BY PCsAre, GoIs DEF MakeContent, Same, Enters, At
<1> QED BY <1>1, EntersShape, ContentsAre DEF MakeContent, At, Shape

LEMMA MakeMetaIs ==
    ASSUME Shape, NEW c \in Commits, MakeMeta(c)
    PROVE  /\ Shape' /\ Enters(c) /\ UNCHANGED content /\ status' = "pending"
           /\ commit[c].pc = "makemeta" /\ commit'[c].pc = "fill"
<1>1. Enters(c) /\ commit'[c].pc = "fill"
  BY PCsAre, GoIs DEF MakeMeta, Same, Enters, At
<1>2. "pending" \in Statuses
  BY DEF Statuses
<1> QED BY <1>1, <1>2, EntersShape DEF MakeMeta, At, Shape

LEMMA FillIs ==
    ASSUME Shape, NEW c \in Commits, Fill(c)
    PROVE  /\ Shape' /\ Enters(c) /\ UNCHANGED <<status, content>>
           /\ commit[c].pc = "fill" /\ commit'[c].pc \in {"get", "put", "threw"}
<1>1. Enters(c) /\ commit'[c].pc \in {"get", "put", "threw"}
  <2>1. CASE Throw(c)
    BY <2>1, ThrowIs DEF Fill, Same, Enters, At
  <2>2. CASE Go(c, "get")
    BY <2>2, PCsAre, GoIs DEF Fill, Same, Enters, At
  <2>3. CASE Go(c, "put")
    BY <2>3, PCsAre, GoIs DEF Fill, Same, Enters, At
  <2> QED BY <2>1, <2>2, <2>3 DEF Fill
<1> QED BY <1>1, EntersShape DEF Fill, At, Shape

LEMMA PutContentIs ==
    ASSUME Shape, NEW c \in Commits, PutContent(c)
    PROVE  /\ Shape' /\ Enters(c) /\ UNCHANGED status /\ commit[c].pc = "put"
           /\ \/ commit'[c].pc = "threw" /\ UNCHANGED content
              \/ commit'[c].pc = "putmeta" /\ content' = Holding(Whole)
<1>1. /\ Enters(c)
      /\ \/ commit'[c].pc = "threw" /\ UNCHANGED content
         \/ commit'[c].pc = "putmeta" /\ content' = Holding(Whole)
  <2>1. CASE Throw(c) /\ UNCHANGED content
    BY <2>1, ThrowIs DEF PutContent, Same, Enters, At
  <2>2. CASE Go(c, "putmeta") /\ content' = Holding(Whole)
    BY <2>2, PCsAre, GoIs DEF PutContent, Same, Enters, At
  <2> QED BY <2>1, <2>2 DEF PutContent
<1> QED BY <1>1, EntersShape, ContentsAre DEF PutContent, At, Shape

LEMMA PutMetaIs ==
    ASSUME Shape, NEW c \in Commits, PutMeta(c)
    PROVE  /\ Shape' /\ Enters(c) /\ UNCHANGED content /\ status' = "pending"
           /\ commit[c].pc = "putmeta" /\ commit'[c].pc = "get"
<1>1. Enters(c) /\ commit'[c].pc = "get"
  BY PCsAre, GoIs DEF PutMeta, Same, Enters, At
<1>2. "pending" \in Statuses
  BY DEF Statuses
<1> QED BY <1>1, <1>2, EntersShape DEF PutMeta, At, Shape

\* The text the call will ask for is the content it finds.
LEMMA GetIs ==
    ASSUME Shape, NEW c \in Commits, Get(c)
    PROVE  /\ Shape' /\ Enters(c) /\ UNCHANGED <<status, content>> /\ commit[c].pc = "get"
           /\ \/ commit'[c].pc = "replayed" /\ status = "committed"
              \/ commit'[c].pc = "threw"
              \/ commit'[c].pc = "prepare" /\ commit'[c].text = content.text
<1>1. /\ Enters(c)
      /\ \/ commit'[c].pc = "replayed" /\ status = "committed"
         \/ commit'[c].pc = "threw"
         \/ commit'[c].pc = "prepare" /\ commit'[c].text = content.text
  <2>1. CASE Throw(c)
    BY <2>1, ThrowIs DEF Get, Same, Enters, At
  <2>2. CASE Go(c, "replayed") /\ status = "committed"
    BY <2>2, PCsAre, GoIs DEF Get, Same, Enters, At
  <2>3. CASE commit' = [commit EXCEPT ![c].pc = "prepare", ![c].text = content.text]
    <3>1. commit[c] \in Calls /\ content.text \in Texts /\ "prepare" \in CommitPCs
      BY PCsAre DEF Shape, Contents
    <3>2. PICK t \in Texts : t = content.text
      BY <3>1
    <3>3. /\ [commit[c] EXCEPT !.pc = "prepare", !.text = t] \in Calls
          /\ [commit[c] EXCEPT !.pc = "prepare", !.text = t].pc = "prepare"
          /\ [commit[c] EXCEPT !.pc = "prepare", !.text = t].text = t
      BY <3>1 DEF Calls
    <3>4. commit' = [commit EXCEPT ![c] = [commit[c] EXCEPT !.pc = "prepare", !.text = t]]
      BY <2>3, <3>2 DEF Shape
    <3>5. /\ commit' \in [Commits -> Calls] /\ Others(c)
          /\ commit'[c].pc = "prepare" /\ commit'[c].text = content.text
      BY <3>2, <3>3, <3>4 DEF Shape, Others
    <3> QED BY <3>5 DEF Get, Same, Enters, At
  <2> QED BY <2>1, <2>2, <2>3 DEF Get
<1> QED BY <1>1, EntersShape DEF Get, At, Shape

LEMMA PrepareIs ==
    ASSUME Shape, NEW c \in Commits, Prepare(c)
    PROVE  /\ Shape' /\ Enters(c) /\ UNCHANGED <<status, content>> /\ commit[c].pc = "prepare"
           /\ \/ commit'[c].pc = "threw"
              \/ /\ commit'[c].pc = "begin" /\ commit'[c].text = commit[c].text
                 /\ commit'[c].new = Composed(content.text)
                 /\ content.there /\ content.text # <<>> /\ content.text \in Texts
<1>1. content.text \in Texts /\ commit[c] \in Calls /\ "begin" \in CommitPCs
  BY PCsAre DEF Shape, Contents
<1>2. /\ Enters(c)
      /\ \/ commit'[c].pc = "threw"
         \/ /\ commit'[c].pc = "begin" /\ commit'[c].text = commit[c].text
            /\ commit'[c].new = Composed(content.text)
            /\ content.there /\ content.text # <<>>
  <2>1. CASE Throw(c)
    BY <2>1, ThrowIs DEF Prepare, Same, Enters, At
  <2>2. CASE /\ content.there /\ content.text # <<>>
             /\ commit' = [commit EXCEPT ![c].pc = "begin", ![c].new = Composed(content.text)]
    <3>1. PICK s \in Seq(Pieces) : s = Composed(content.text)
      BY <1>1, ComposedIs
    <3>2. /\ [commit[c] EXCEPT !.pc = "begin", !.new = s] \in Calls
          /\ [commit[c] EXCEPT !.pc = "begin", !.new = s].pc = "begin"
          /\ [commit[c] EXCEPT !.pc = "begin", !.new = s].text = commit[c].text
          /\ [commit[c] EXCEPT !.pc = "begin", !.new = s].new = s
      BY <1>1 DEF Calls
    <3>3. commit' = [commit EXCEPT ![c] = [commit[c] EXCEPT !.pc = "begin", !.new = s]]
      BY <2>2, <3>1 DEF Shape
    <3>4. /\ commit' \in [Commits -> Calls] /\ Others(c) /\ commit'[c].pc = "begin"
          /\ commit'[c].text = commit[c].text /\ commit'[c].new = s
      BY <3>2, <3>3 DEF Shape, Others
    <3> QED BY <2>2, <3>1, <3>4 DEF Prepare, Same, Enters, At
  <2> QED BY <2>1, <2>2 DEF Prepare
<1> QED BY <1>1, <1>2, EntersShape DEF Prepare, At, Shape

LEMMA MarkIs ==
    ASSUME Shape, NEW c \in Commits, Mark(c)
    PROVE  /\ Shape' /\ Enters(c) /\ UNCHANGED <<status, content>>
           /\ commit[c].pc = "mark" /\ commit'[c].pc \in {"threw", "write"}
<1>1. Enters(c) /\ commit'[c].pc \in {"threw", "write"}
  <2>1. CASE Throw(c)
    BY <2>1, ThrowIs DEF Mark, Same, Enters, At
  <2>2. CASE Go(c, "write")
    BY <2>2, PCsAre, GoIs DEF Mark, Same, Enters, At
  <2> QED BY <2>1, <2>2 DEF Mark
<1> QED BY <1>1, EntersShape DEF Mark, At, Shape

LEMMA WriteMarkIs ==
    ASSUME Shape, NEW c \in Commits, WriteMark(c)
    PROVE  /\ Shape' /\ Enters(c) /\ UNCHANGED content /\ status' = "committed"
           /\ commit[c].pc = "write" /\ commit'[c].pc = "delete"
<1>1. Enters(c) /\ commit'[c].pc = "delete"
  BY PCsAre, GoIs DEF WriteMark, Same, Enters, At
<1>2. "committed" \in Statuses
  BY DEF Statuses
<1> QED BY <1>1, <1>2, EntersShape DEF WriteMark, At, Shape

LEMMA DeleteContentIs ==
    ASSUME Shape, NEW c \in Commits, DeleteContent(c)
    PROVE  /\ Shape' /\ Enters(c) /\ UNCHANGED status /\ content' = Gone
           /\ commit[c].pc = "delete" /\ commit'[c].pc = "done"
<1>1. [NoCall EXCEPT !.pc = "done"] \in Calls /\ [NoCall EXCEPT !.pc = "done"].pc = "done"
  BY NoCallIs, PCsAre
<1>2. Enters(c) /\ commit'[c].pc = "done"
  BY <1>1 DEF DeleteContent, Same, Enters, At, Shape, Others
<1> QED BY <1>2, EntersShape, ContentsAre DEF DeleteContent, At, Shape

\* A row at another stage, and a new one.
Staged(r, stage)    == [r EXCEPT !.stage = stage]
OpenRow(base, new)  == [stage |-> "open", base |-> base, new |-> new]

LEMMA StagedIs ==
    ASSUME NEW r \in Rows, NEW stage \in Stages
    PROVE  /\ Staged(r, stage) \in Rows
           /\ Staged(r, stage).stage = stage /\ Staged(r, stage).new = r.new
BY DEF Rows, Staged

LEMMA OpenRowIs ==
    ASSUME NEW base \in Seq(Pieces), NEW new \in Seq(Pieces)
    PROVE  /\ OpenRow(base, new) \in Rows
           /\ OpenRow(base, new).stage = "open" /\ OpenRow(base, new).new = new
<1>1. "open" \in Stages
  BY DEF Stages
<1> QED BY <1>1 DEF Rows, OpenRow

LEMMA TextOf ==
    ASSUME Shape, NEW c \in Commits
    PROVE  /\ commit[c].text \in Texts /\ commit[c].new \in Seq(Pieces)
           /\ row[commit[c].text] \in Rows /\ run[commit[c].text] \in RunStates
BY DEF Shape, Calls

LEMMA BeginIs ==
    ASSUME Shape, NEW c \in Commits, Begin(c)
    PROVE  /\ Shape' /\ Runs(c) /\ UNCHANGED <<target, row>> /\ commit[c].pc = "begin"
           /\ \/ /\ commit'[c].pc = "journal" /\ run[commit[c].text] \in {"none", "failed"}
                 /\ run' = [run EXCEPT ![commit[c].text] = "running"]
              \/ commit'[c].pc = "threw" /\ UNCHANGED run
              \/ /\ commit'[c].pc = "mark" /\ run[commit[c].text] = "completed" /\ UNCHANGED run
<1>1. /\ Runs(c)
      /\ \/ /\ commit'[c].pc = "journal" /\ run[commit[c].text] \in {"none", "failed"}
            /\ run' = [run EXCEPT ![commit[c].text] = "running"]
         \/ commit'[c].pc = "threw" /\ UNCHANGED run
         \/ commit'[c].pc = "mark" /\ run[commit[c].text] = "completed" /\ UNCHANGED run
  <2>1. CASE /\ run[commit[c].text] \in {"none", "failed"} /\ Go(c, "journal")
             /\ run' = [run EXCEPT ![commit[c].text] = "running"]
    BY <2>1, PCsAre, GoIs DEF Begin, Runs, At
  <2>2. CASE Throw(c) /\ UNCHANGED run
    BY <2>2, ThrowIs DEF Begin, Runs, At
  <2>3. CASE run[commit[c].text] = "completed" /\ Go(c, "mark") /\ UNCHANGED run
    BY <2>3, PCsAre, GoIs DEF Begin, Runs, At
  <2> QED BY <2>1, <2>2, <2>3 DEF Begin
<1>2. run' \in [Texts -> RunStates]
  BY <1>1, TextOf DEF Shape, RunStates
<1> QED BY <1>1, <1>2, RunsShape DEF Begin, At, Shape

\* Only the row of the call's text changes, and it is never forgotten.
LEMMA JournalIs ==
    ASSUME Shape, NEW c \in Commits, Journal(c)
    PROVE  /\ Shape' /\ Runs(c) /\ UNCHANGED <<target, run>> /\ commit[c].pc = "journal"
           /\ \E r \in Rows :
                /\ row' = [row EXCEPT ![commit[c].text] = r] /\ r.stage # "none"
                /\ \/ /\ commit'[c].pc = "replace" /\ r.stage = "open"
                      /\ \/ row[commit[c].text].stage = "none" /\ r.new = commit[c].new
                         \/ row[commit[c].text].stage # "none" /\ r.new = row[commit[c].text].new
                   \/ /\ commit'[c].pc \in {"complete", "fail"}
                      /\ row[commit[c].text].stage # "none" /\ r.new = row[commit[c].text].new
                      /\ r.stage = "finalized" => \/ row[commit[c].text].stage = "finalized"
                                                  \/ target = r.new
                      /\ commit'[c].pc = "complete" => r.stage = "finalized"
<1> DEFINE t   == commit[c].text
           old == row[t]
           new == IF Recovered(old).stage # "none" /\ target = Recovered(old).new
                  THEN target ELSE commit[c].new
<1>1. t \in Texts /\ old \in Rows /\ new \in Seq(Pieces) /\ target \in Seq(Pieces)
  BY TextOf DEF Shape
<1>2. /\ Recovered(old) \in Rows /\ Recovered(old).new = old.new
      /\ Recovered(old).stage = "none" <=> old.stage = "none"
      /\ Recovered(old).stage = "finalized" => old.stage = "finalized" \/ target = old.new
  BY <1>1, RecoveredRow
<1>3. /\ At(c, "journal") /\ UNCHANGED <<status, content, target, run, stream, discard, edits, launches>>
      /\ \/ /\ \/ Recovered(old).stage = "none"
               \/ Recovered(old).stage # "none" /\ Recovered(old).new = new
            /\ row' = [row EXCEPT ![t] = [stage |-> "open", base |-> target, new |-> new]]
            /\ Go(c, "replace")
         \/ /\ Recovered(old).stage = "finalized"
            /\ row' = [row EXCEPT ![t] = Recovered(old)] /\ Go(c, "complete")
         \/ /\ Recovered(old).stage # "none"
            /\ row' = [row EXCEPT ![t] = Recovered(old)] /\ Go(c, "fail")
  BY DEF Journal
<1>4. Recovered(old).stage = "none" => new = commit[c].new
  OBVIOUS
<1> HIDE DEF t, old, new
<1>5. CASE /\ \/ Recovered(old).stage = "none"
              \/ Recovered(old).stage # "none" /\ Recovered(old).new = new
           /\ row' = [row EXCEPT ![t] = [stage |-> "open", base |-> target, new |-> new]]
           /\ Go(c, "replace")
  <2>1. PICK r \in Rows : r = OpenRow(target, new) /\ r.stage = "open" /\ r.new = new
    BY <1>1, OpenRowIs
  <2>2. row' = [row EXCEPT ![t] = r] /\ row' \in [Texts -> Rows]
    BY <1>1, <1>5, <2>1 DEF Shape, OpenRow
  <2>3. Runs(c) /\ commit'[c].pc = "replace"
    BY <1>3, <1>5, PCsAre, GoIs DEF Runs, At
  <2>4. Shape'
    BY <1>3, <2>2, <2>3, RunsShape DEF Shape
  <2>5. \/ old.stage = "none" /\ r.new = commit[c].new
        \/ old.stage # "none" /\ r.new = old.new
    BY <1>2, <1>4, <1>5, <2>1
  <2> QED BY <1>3, <2>1, <2>2, <2>3, <2>4, <2>5 DEF At, t, old
<1>6. ASSUME NEW pc \in {"complete", "fail"}, Go(c, pc),
             pc = "complete" => Recovered(old).stage = "finalized",
             Recovered(old).stage # "none", row' = [row EXCEPT ![t] = Recovered(old)]
      PROVE  /\ Shape' /\ Runs(c) /\ UNCHANGED <<target, run>> /\ commit[c].pc = "journal"
             /\ \E r \in Rows :
                  /\ row' = [row EXCEPT ![t] = r] /\ r.stage # "none"
                  /\ commit'[c].pc \in {"complete", "fail"}
                  /\ old.stage # "none" /\ r.new = old.new
                  /\ r.stage = "finalized" => old.stage = "finalized" \/ target = r.new
                  /\ commit'[c].pc = "complete" => r.stage = "finalized"
  <2>1. PICK r \in Rows : r = Recovered(old)
    BY <1>2
  <2>2. row' = [row EXCEPT ![t] = r] /\ row' \in [Texts -> Rows]
    BY <1>1, <1>6, <2>1 DEF Shape
  <2>3. Runs(c) /\ commit'[c].pc = pc
    BY <1>3, <1>6, PCsAre, GoIs DEF Runs, At
  <2>4. Shape'
    BY <1>3, <2>2, <2>3, RunsShape DEF Shape
  <2> QED BY <1>2, <1>3, <1>6, <2>1, <2>2, <2>3, <2>4 DEF At
<1>7. CASE \E pc \in {"complete", "fail"} :
             /\ Go(c, pc)
             /\ pc = "complete" => Recovered(old).stage = "finalized"
             /\ Recovered(old).stage # "none" /\ row' = [row EXCEPT ![t] = Recovered(old)]
  BY <1>6, <1>7 DEF t, old
<1> QED BY <1>3, <1>5, <1>7

\* The document holds what the row promised, or nothing has changed.
LEMMA ReplaceIs ==
    ASSUME Shape, NEW c \in Commits, Replace(c)
    PROVE  /\ Shape' /\ Runs(c) /\ UNCHANGED run /\ commit[c].pc = "replace"
           /\ \/ /\ commit'[c].pc = "finalize" /\ target' = row[commit[c].text].new /\ UNCHANGED row
              \/ /\ commit'[c].pc = "fail" /\ UNCHANGED target
                 /\ \E r \in Rows : /\ row' = [row EXCEPT ![commit[c].text] = r]
                                    /\ r.stage = "flagged" /\ r.new = row[commit[c].text].new
<1>1. row[commit[c].text] \in Rows /\ commit[c].text \in Texts
  BY TextOf
<1>2. PICK r \in Rows : /\ r = Staged(row[commit[c].text], "flagged")
                        /\ r.stage = "flagged" /\ r.new = row[commit[c].text].new
  <2>1. "flagged" \in Stages
    BY DEF Stages
  <2> QED BY <1>1, <2>1, StagedIs
<1>3. CASE Go(c, "finalize") /\ target' = row[commit[c].text].new /\ UNCHANGED row
  <2>1. Runs(c) /\ commit'[c].pc = "finalize" /\ commit[c].pc = "replace" /\ UNCHANGED run
    BY <1>3, PCsAre, GoIs DEF Replace, Runs, At
  <2>2. target' \in Seq(Pieces)
    BY <1>1, <1>3 DEF Rows
  <2> QED BY <1>3, <2>1, <2>2, RunsShape DEF Shape
<1>4. CASE /\ Go(c, "fail") /\ UNCHANGED target
           /\ row' = [row EXCEPT ![commit[c].text].stage = "flagged"]
  <2>1. Runs(c) /\ commit'[c].pc = "fail" /\ commit[c].pc = "replace" /\ UNCHANGED run
    BY <1>4, PCsAre, GoIs DEF Replace, Runs, At
  <2>2. row' = [row EXCEPT ![commit[c].text] = r]
    BY <1>2, <1>4 DEF Shape, Staged
  <2>3. row' \in [Texts -> Rows]
    BY <2>2 DEF Shape
  <2> QED BY <1>2, <1>4, <2>1, <2>2, <2>3, RunsShape DEF Shape
<1> QED BY <1>3, <1>4 DEF Replace

LEMMA FinalizeIs ==
    ASSUME Shape, NEW c \in Commits, Finalize(c)
    PROVE  /\ Shape' /\ Runs(c) /\ UNCHANGED <<target, run>>
           /\ commit[c].pc = "finalize" /\ commit'[c].pc = "complete"
           /\ \E r \in Rows : /\ row' = [row EXCEPT ![commit[c].text] = r]
                              /\ r.stage = "finalized" /\ r.new = row[commit[c].text].new
<1>1. row[commit[c].text] \in Rows /\ commit[c].text \in Texts
  BY TextOf
<1>2. PICK r \in Rows : /\ r = Staged(row[commit[c].text], "finalized")
                        /\ r.stage = "finalized" /\ r.new = row[commit[c].text].new
  <2>1. "finalized" \in Stages
    BY DEF Stages
  <2> QED BY <1>1, <2>1, StagedIs
<1>3. /\ Runs(c) /\ commit'[c].pc = "complete" /\ commit[c].pc = "finalize"
      /\ UNCHANGED <<target, run>>
  BY PCsAre, GoIs DEF Finalize, Runs, At
<1>4. row' = [row EXCEPT ![commit[c].text] = r]
  BY <1>2 DEF Finalize, Shape, Staged
<1>5. row' \in [Texts -> Rows]
  BY <1>4 DEF Shape
<1> QED BY <1>2, <1>3, <1>4, <1>5, RunsShape DEF Shape

LEMMA SettleRunIs ==
    ASSUME Shape, NEW c \in Commits, Complete(c) \/ FailRun(c)
    PROVE  /\ Shape' /\ Runs(c) /\ UNCHANGED <<target, row>>
           /\ \/ /\ commit[c].pc = "complete" /\ commit'[c].pc = "mark"
                 /\ run' = [run EXCEPT ![commit[c].text] = "completed"]
              \/ /\ commit[c].pc = "fail" /\ commit'[c].pc = "threw"
                 /\ run' = [run EXCEPT ![commit[c].text] = "failed"]
<1>1. /\ Runs(c) /\ UNCHANGED <<target, row>>
      /\ \/ /\ commit[c].pc = "complete" /\ commit'[c].pc = "mark"
            /\ run' = [run EXCEPT ![commit[c].text] = "completed"]
         \/ /\ commit[c].pc = "fail" /\ commit'[c].pc = "threw"
            /\ run' = [run EXCEPT ![commit[c].text] = "failed"]
  <2>1. CASE Complete(c)
    BY <2>1, PCsAre, GoIs DEF Complete, Runs, At
  <2>2. CASE FailRun(c)
    BY <2>2, ThrowIs DEF FailRun, Runs, At
  <2> QED BY <2>1, <2>2
<1>2. run' \in [Texts -> RunStates]
  BY <1>1 DEF Shape, RunStates
<1> QED BY <1>1, <1>2, RunsShape DEF Shape

-----------------------------------------------------------------------------
(* What the stream, the discard and the rest do.                           *)

LEMMA FlowIs ==
    ASSUME Shape, NEW pc \in StreamPCs, Flow(pc)
    PROVE  stream' \in Streams /\ stream'.pc = pc /\ stream'.at = stream.at /\ stream'.seen = stream.seen
BY DEF Flow, Shape, Streams

LEMMA StartStreamIs ==
    ASSUME Shape, StartStream
    PROVE  /\ Shape' /\ Up /\ stream.pc = "idle" /\ stream'.pc = "create"
           /\ stream'.at = stream.at /\ stream'.seen = stream.seen
           /\ \A c \in Commits : commit[c].pc = "idle"
           /\ UNCHANGED <<status, content, target, run, row, commit, discard, launches>>
<1>1. "create" \in StreamPCs
  BY DEF StreamPCs
<1>2. stream' \in Streams /\ stream'.pc = "create" /\ stream'.at = stream.at /\ stream'.seen = stream.seen
  BY <1>1, FlowIs DEF StartStream
<1> QED BY <1>2 DEF StartStream, Shape

\* A step of the stream keeps the entry's content, or adds to it.
Flows ==
    /\ Up /\ Streaming /\ stream'.pc \notin {"idle", "create"}
    /\ UNCHANGED <<target, run, row, commit, discard, edits, launches>>
    /\ content' = content \/ content'.there
    /\ Streaming' => status' # "none" /\ Arriving'
    /\ stream'.pc = "append" => stream'.at <= Deltas
    /\ stream'.pc \in {"append", "touch", "bound"} => stream'.seen # "none"
    /\ status' = "committed" => status = "committed" \/ stream.seen = "committed"
    /\ stream'.seen = "committed" => status = "committed" \/ stream.seen = "committed"
    /\ status' # "none" => status # "none" \/ content'.there

LEMMA StreamAppendsIs ==
    ASSUME Shape, StreamInv, StreamAppends
    PROVE  Shape' /\ Flows
<1>1. /\ stream \in Streams /\ stream.pc = "append" /\ stream.at \in 1..Deltas /\ Deltas \in Nat
      /\ stream.seen # "none" /\ status # "none" /\ Arriving /\ Streaming /\ Up
  BY WholeIs DEF StreamAppends, StreamInv, Shape, Streams, Streaming
<1>2. PICK k \in 1..Deltas : k = stream.at
  BY <1>1
<1>3. PICK i \in 1..Deltas : i <= k /\ Append(content.text, k) = SubSeq(Whole, i, k)
  BY <1>1, <1>2, NextDelta DEF Arriving
<1>4. k + 1 \in 1..(Deltas + 1) /\ i < k + 1 /\ (k + 1) - 1 = k
  BY <1>1, <1>3
<1>5. PICK at \in 1..(Deltas + 1) : at = k + 1
  BY <1>4
<1>6. stream' = [stream EXCEPT !.pc = "touch", !.at = at]
  BY <1>1, <1>2, <1>5 DEF StreamAppends, Streams
<1>7. stream' \in Streams /\ stream'.pc = "touch" /\ stream'.at = at /\ stream'.seen = stream.seen
  BY <1>1, <1>6 DEF Streams, StreamPCs
<1>8. PICK text \in Texts : text = SubSeq(Whole, i, k)
  <2>1. SubSeq(Whole, i, k) \in Texts
    BY DEF Texts
  <2> QED BY <2>1
<1>9. content' \in Contents /\ content'.there /\ content'.text = text
  BY <1>1, <1>2, <1>3, <1>8 DEF StreamAppends, Holding, Contents
<1>10. Arriving'
  BY <1>4, <1>5, <1>7, <1>8, <1>9 DEF Arriving
<1>11. UNCHANGED <<status, target, run, row, commit, discard, edits, launches>>
  BY DEF StreamAppends
<1> QED BY <1>1, <1>7, <1>9, <1>10, <1>11 DEF Shape, Flows, Streaming

\* Nothing arrives: the entry is read, or its metadata written.
LEMMA FlowsQuietly ==
    ASSUME Shape, StreamInv, Up, Streaming, NEW st \in Statuses, status' = st, UNCHANGED content,
           stream' \in Streams, stream'.pc \notin {"idle", "create", "append"},
           stream'.at = stream.at,
           UNCHANGED <<target, run, row, commit, discard, edits, launches>>,
           Streaming' => st # "none" /\ stream.pc # "create",
           stream'.pc \in {"touch", "bound"} => stream'.seen # "none",
           st = "committed" => status = "committed" \/ stream.seen = "committed",
           stream'.seen = "committed" => status = "committed" \/ stream.seen = "committed",
           st # "none" => status # "none"
    PROVE  Shape' /\ Flows
<1>1. Streaming' => Arriving'
  <2> SUFFICES ASSUME Streaming' PROVE Arriving'
    OBVIOUS
  <2>1. Arriving
    BY DEF StreamInv
  <2> QED BY <2>1 DEF Arriving
<1> QED BY <1>1 DEF Shape, Flows

LEMMA StreamIs ==
    ASSUME Shape, StreamInv, Stream
    PROVE  Shape' /\ Flows
<1>1. stream \in Streams /\ status \in Statuses
  BY DEF Shape
<1>2. stream.pc \in StreamPCs /\ stream.seen \in Statuses
  BY <1>1 DEF Streams
<1>3. \A pc \in {"read", "append", "touch", "bind", "bound", "fail", "over"} : pc \in StreamPCs
  BY DEF StreamPCs
<1>4. CASE StreamCreates
  <2>1. /\ stream' \in Streams /\ stream'.pc = "read"
        /\ stream'.at = stream.at /\ stream'.seen = stream.seen
    BY <1>3, <1>4, FlowIs DEF StreamCreates
  <2>2. content' \in Contents /\ content'.there /\ content'.text = <<>>
    BY <1>4, ContentsAre DEF StreamCreates, Holding
  <2>3. status' = "pending" /\ status' \in Statuses
    BY <1>4 DEF StreamCreates, Statuses
  <2> QED BY <1>4, <2>1, <2>2, <2>3 DEF StreamCreates, Shape, Flows, Streaming, Arriving
<1>5. CASE StreamReads
  <2>1. PICK pc \in {"fail", "append", "touch"} :
          /\ stream' = [stream EXCEPT !.seen = status, !.pc = pc]
          /\ pc \in {"append", "touch"} => status = "pending"
          /\ pc = "append" => stream.at <= Deltas
    <3>1. CASE status # "pending"
      BY <1>5, <3>1 DEF StreamReads
    <3>2. CASE status = "pending" /\ stream.at <= Deltas
      BY <1>5, <3>2 DEF StreamReads
    <3>3. CASE status = "pending" /\ ~(stream.at <= Deltas)
      BY <1>5, <3>3 DEF StreamReads
    <3> QED BY <3>1, <3>2, <3>3
  <2>2. /\ stream' \in Streams /\ stream'.pc = pc /\ stream'.at = stream.at /\ stream'.seen = status
    BY <1>1, <1>3, <2>1 DEF Streams
  <2>3. /\ Up /\ stream.pc = "read" /\ Streaming /\ status # "none" /\ Arriving
        /\ UNCHANGED <<status, content, target, run, row, commit, discard, edits, launches>>
    BY <1>5 DEF StreamReads, Streaming, StreamInv
  <2>4. Arriving'
    BY <2>2, <2>3 DEF Arriving
  <2> QED BY <1>1, <2>1, <2>2, <2>3, <2>4 DEF Shape, Flows
<1>6. CASE StreamAppends
  BY <1>6, StreamAppendsIs
<1>7. CASE StreamTouches
  <2>1. PICK pc \in {"read", "fail", "over", "bind"} : Flow(pc)
    BY <1>7 DEF StreamTouches
  <2>2. stream' \in Streams /\ stream'.pc = pc /\ stream'.at = stream.at /\ stream'.seen = stream.seen
    BY <1>3, <2>1, FlowIs
  <2>3. Streaming /\ stream.pc = "touch" /\ stream.seen # "none" /\ status # "none"
    BY <1>7 DEF StreamTouches, Streaming, StreamInv
  <2> QED BY <1>2, <1>7, <2>2, <2>3, FlowsQuietly DEF StreamTouches
<1>8. CASE StreamBinds
  <2>1. /\ stream' \in Streams /\ stream'.pc = "bound" /\ stream'.at = stream.at
        /\ stream'.seen = status
    BY <1>1, <1>3, <1>8 DEF StreamBinds, Streams
  <2>2. Streaming /\ stream.pc = "bind"
    BY <1>8 DEF StreamBinds, Streaming
  <2> QED BY <1>1, <1>8, <2>1, <2>2, FlowsQuietly DEF StreamBinds
<1>9. CASE StreamBound
  <2>1. stream' \in Streams /\ stream'.pc = "over" /\ stream'.at = stream.at /\ stream'.seen = stream.seen
    BY <1>3, <1>9, FlowIs DEF StreamBound
  <2>2. Streaming /\ stream.pc = "bound" /\ status # "none"
    BY <1>9 DEF StreamBound, Streaming, StreamInv
  <2>3. ~Streaming'
    BY <2>1 DEF Streaming
  <2> QED BY <1>2, <1>9, <2>1, <2>2, <2>3, FlowsQuietly DEF StreamBound
<1>10. CASE StreamFails
  <2>1. stream' \in Streams /\ stream'.pc = "over" /\ stream'.at = stream.at /\ stream'.seen = stream.seen
    BY <1>3, <1>10, FlowIs DEF StreamFails
  <2>2. Streaming /\ ~Streaming'
    BY <1>10, <2>1 DEF StreamFails, Streaming
  <2>3. PICK st \in Statuses : status' = st /\ (st = status \/ (st = "failed" /\ status # "none"))
    BY <1>1, <1>10 DEF StreamFails, Statuses
  <2> QED BY <1>10, <2>1, <2>2, <2>3, FlowsQuietly DEF StreamFails
<1> QED BY <1>4, <1>5, <1>6, <1>7, <1>8, <1>9, <1>10 DEF Stream

\* The discard, once begun, does not go back to where it was.
LEMMA DiscardIs ==
    ASSUME Shape, DiscardReads \/ DiscardDeletes \/ DiscardWrites
    PROVE  /\ Shape' /\ UNCHANGED <<target, run, row, stream, commit, launches>>
           /\ Up /\ discard'.pc # "idle"
           /\ content' = content \/ content' = Gone
           /\ \/ status' = status
              \/ status' = "discarded"
<1>1. CASE DiscardReads
  BY <1>1 DEF DiscardReads, Shape
<1>2. CASE DiscardDeletes
  BY <1>2, ContentsAre DEF DiscardDeletes, Shape
<1>3. CASE DiscardWrites
  BY <1>3 DEF DiscardWrites, Shape, Statuses
<1> QED BY <1>1, <1>2, <1>3

LEMMA CleanupIs ==
    ASSUME Shape, CleanupExpired
    PROVE  /\ Shape' /\ status' = "none" /\ content' = Gone
           /\ ~Streaming /\ \A c \in Commits : ~AtWork(c)
           /\ UNCHANGED <<target, run, row, stream, commit, discard, launches>>
BY ContentsAre DEF CleanupExpired, Shape, Statuses

LEMMA EditIs ==
    ASSUME Shape, Edit
    PROVE  /\ Shape' /\ target' = Append(target, Edited)
           /\ UNCHANGED <<status, content, run, row, stream, commit, discard, launches>>
<1>1. edits' \in 0..MaxEdits
  BY CacheAssumption DEF Edit, Shape
<1>2. target' \in Seq(Pieces)
  BY PiecesAre DEF Edit, Shape
<1> QED BY <1>1, <1>2 DEF Edit, Shape

\* A crash: what was at work is over.
LEMMA CrashIs ==
    ASSUME Shape, Crash
    PROVE  /\ Shape' /\ ~Up'
           /\ stream' = stream \/ stream'.pc = "over"
           /\ stream'.pc = "idle" <=> stream.pc = "idle"
           /\ stream'.seen = "committed" => stream.seen = "committed"
           /\ ~Streaming'
           /\ \A c \in Commits : \/ AtWork(c) /\ commit'[c].pc = "lost"
                                 \/ ~AtWork(c) /\ commit'[c] = commit[c]
           /\ discard'.pc = "idle" => discard.pc = "idle"
           /\ UNCHANGED <<status, content, target, run, row>>
<1>1. [NoCall EXCEPT !.pc = "lost"] \in Calls /\ [NoCall EXCEPT !.pc = "lost"].pc = "lost"
  BY NoCallIs, PCsAre
<1>2. /\ commit' \in [Commits -> Calls]
      /\ \A c \in Commits : \/ AtWork(c) /\ commit'[c].pc = "lost"
                            \/ ~AtWork(c) /\ commit'[c] = commit[c]
  BY <1>1 DEF Crash, Shape
<1>3. NoStream \in Streams /\ NoStream.seen = "none"
  <2>1. 1 \in 1..(Deltas + 1)
    BY WholeIs
  <2> QED BY <2>1 DEF NoStream, Streams, StreamPCs, Statuses
<1>4. /\ [NoStream EXCEPT !.pc = "over"] \in Streams /\ [NoStream EXCEPT !.pc = "over"].pc = "over"
      /\ [NoStream EXCEPT !.pc = "over"].seen = "none"
  BY <1>3 DEF Streams, StreamPCs
<1>5. /\ stream' \in Streams /\ (stream' = stream \/ stream'.pc = "over")
      /\ stream'.seen = "committed" => stream.seen = "committed"
      /\ stream'.pc = "idle" <=> stream.pc = "idle"
      /\ ~Streaming'
  BY <1>4 DEF Crash, Shape, Streaming
<1>6. /\ discard' \in [pc : {"idle", "delete", "write", "done", "lost"}]
      /\ discard'.pc = "idle" => discard.pc = "idle"
  BY DEF Crash, Shape
<1>7. launches' \in [count : Nat, up : BOOLEAN] /\ ~Up'
  BY DEF Crash, Shape, Up
<1> QED BY <1>2, <1>5, <1>6, <1>7 DEF Crash, Shape

LEMMA LaunchIs ==
    ASSUME Shape, Launch
    PROVE  /\ Shape' /\ ~Up
           /\ \A t \in Texts : run'[t] = "completed" <=> run[t] = "completed"
           /\ UNCHANGED <<status, content, target, row, stream, commit, discard>>
<1>1. launches' \in [count : Nat, up : BOOLEAN]
  BY DEF Launch, Shape
<1>2. /\ run' \in [Texts -> RunStates]
      /\ \A t \in Texts : run'[t] = "completed" <=> run[t] = "completed"
  BY DEF Launch, Shape, RunStates
<1> QED BY <1>1, <1>2 DEF Launch, Shape

-----------------------------------------------------------------------------
(* The invariant is kept.                                                  *)

\* A commit at work means that no stream is.
LEMMA CommitStream ==
    ASSUME Shape, StreamInv, NEW c \in Commits, Up, UNCHANGED <<stream, launches>>, ~Streaming,
           Others(c), Making(c)' => stream.pc = "idle"
    PROVE  StreamInv'
<1>1. stream.pc \in {"idle", "over"} /\ ~Streaming'
  BY DEF Streaming
<1>2. Up'
  BY DEF Up
<1>3. \A d \in Commits : Making(d)' => stream.pc = "idle"
  BY DEF StreamInv, Making, Others
<1> QED BY <1>1, <1>2, <1>3 DEF StreamInv

LEMMA AtWorkIs ==
    ASSUME Shape, StreamInv, NEW c \in Commits, commit[c].pc # "idle"
    PROVE  ~Streaming /\ (Making(c) => stream.pc = "idle")
BY DEF StreamInv

LEMMA CompletedIs ==
    ASSUME CacheInv, Completed
    PROVE  HasText(target)
BY DEF CacheInv, Completed, RunInv, TextInv

\* What is left to show of a step on the cache entry.
LEMMA EntersInv ==
    ASSUME CacheInv, NEW c \in Commits, Shape', Enters(c), ~Streaming, ~Writing(c)',
           Making(c)' => stream.pc = "idle",
           status' = "committed" => status = "committed" \/ Completed,
           Written(c)' \/ commit'[c].pc = "replayed" => Completed,
           commit'[c].pc = "begin" => HasText(commit'[c].new),
           content' = content \/ content'.there \/ HasText(target),
           commit'[c].pc \in {"makemeta", "putmeta"} => content'.there,
           status' # "none" => \/ status # "none"
                               \/ commit[c].pc \in {"makemeta", "putmeta"}
                               \/ HasText(target)
    PROVE  CacheInv'
<1>1. /\ Up /\ UNCHANGED <<target, run, row, stream, discard, launches>>
      /\ \A d \in Commits \ {c} : commit'[d] = commit[d]
  BY DEF Enters, Others
<1>2. StreamInv'
  BY <1>1, CommitStream DEF CacheInv, Others
<1>3. RunInv'
  <2>1. \A d \in Commits : Writing(d)' => d # c /\ Writing(d) /\ commit'[d] = commit[d]
    BY <1>1 DEF Writing
  <2>2. commit'[c].pc \notin {"replace", "finalize", "complete"}
    BY DEF Writing
  <2> QED BY <1>1, <2>1, <2>2 DEF CacheInv, RunInv
<1>4. AnswerInv'
  <2>1. Completed' <=> Completed
    BY <1>1 DEF Completed
  <2> QED BY <1>1, <2>1 DEF CacheInv, AnswerInv, Written
<1>5. TextInv'
  <2>1. commit'[c].pc \notin {"journal", "finalize"}
    BY DEF Writing
  <2> QED BY <1>1, <2>1 DEF CacheInv, TextInv, HasText
<1>6. KeptInv'
  <2> SUFFICES ASSUME discard.pc = "idle",
                      \/ status' # "none"
                      \/ \E d \in Commits : commit'[d].pc \in {"makemeta", "putmeta"}
               PROVE  content'.there \/ HasText(target)
    BY <1>1 DEF KeptInv, HasText
  <2>1. CASE commit'[c].pc \in {"makemeta", "putmeta"}
    BY <2>1
  <2>2. CASE status # "none" \/ \E d \in Commits : commit[d].pc \in {"makemeta", "putmeta"}
    BY <2>2 DEF CacheInv, KeptInv
  <2> QED BY <1>1, <2>1, <2>2
<1> QED BY <1>2, <1>3, <1>4, <1>5, <1>6 DEF CacheInv

LEMMA EntryInv ==
    ASSUME CacheInv, NEW c \in Commits,
           \/ Start(c) \/ MakeContent(c) \/ MakeMeta(c) \/ Fill(c) \/ PutContent(c) \/ PutMeta(c)
           \/ Get(c) \/ Prepare(c) \/ Mark(c) \/ WriteMark(c) \/ DeleteContent(c)
    PROVE  CacheInv'
<1>1. Shape /\ StreamInv
  BY DEF CacheInv
<1>2. /\ Holding(<<>>).there /\ Holding(Whole).there
      /\ "pending" # "none" /\ "pending" # "committed"
  BY DEF Holding
<1>3. CASE Start(c)
  BY <1>1, <1>3, StartIs, EntersInv DEF Making, Writing, Written
<1>4. CASE MakeContent(c) \/ MakeMeta(c) \/ Fill(c) \/ PutContent(c) \/ PutMeta(c)
  <2>1. /\ Shape' /\ Enters(c) /\ Making(c) /\ commit[c].pc # "idle"
        /\ commit'[c].pc \in {"makemeta", "fill", "get", "put", "putmeta", "threw"}
        /\ content' = content \/ content'.there
        /\ commit'[c].pc \in {"makemeta", "putmeta"} => content'.there
        /\ status' = status \/ (status' = "pending" /\ commit[c].pc \in {"makemeta", "putmeta"})
    BY <1>1, <1>2, <1>4, MakeContentIs, MakeMetaIs, FillIs, PutContentIs, PutMetaIs DEF Making
  <2>2. ~Streaming /\ stream.pc = "idle"
    BY <1>1, <2>1, AtWorkIs
  <2>3. ~Writing(c)' /\ ~Written(c)' /\ commit'[c].pc \notin {"replayed", "begin"}
    BY <2>1 DEF Writing, Written
  <2> QED BY <2>1, <2>2, <2>3, EntersInv
<1>5. CASE Get(c) \/ Prepare(c)
  <2>1. /\ Shape' /\ Enters(c) /\ UNCHANGED <<status, content>>
        /\ commit[c].pc \in {"get", "prepare"} /\ commit[c].pc # "idle"
        /\ commit'[c].pc \in {"replayed", "threw", "prepare", "begin"}
        /\ commit'[c].pc = "replayed" => status = "committed"
        /\ commit'[c].pc = "begin" =>
             content.text \in Texts /\ commit'[c].new = Composed(content.text)
    BY <1>1, <1>5, GetIs, PrepareIs
  <2>2. ~Streaming
    BY <1>1, <2>1, AtWorkIs
  <2>3. commit'[c].pc = "replayed" => Completed
    BY <2>1 DEF CacheInv, AnswerInv
  <2>4. commit'[c].pc = "begin" => HasText(commit'[c].new)
    BY <1>1, <2>1, ComposedIs
  <2>5. ~Writing(c)' /\ ~Written(c)' /\ ~Making(c)' /\ commit'[c].pc \notin {"makemeta", "putmeta"}
    BY <2>1 DEF Writing, Written, Making
  <2> QED BY <2>1, <2>2, <2>3, <2>4, <2>5, EntersInv
<1>6. CASE Mark(c) \/ WriteMark(c) \/ DeleteContent(c)
  <2>1. /\ Shape' /\ Enters(c) /\ commit[c].pc \in {"mark", "write", "delete"} /\ commit[c].pc # "idle"
        /\ commit'[c].pc \in {"threw", "write", "delete", "done"}
    BY <1>1, <1>6, MarkIs, WriteMarkIs, DeleteContentIs
  <2>2. ~Streaming
    BY <1>1, <2>1, AtWorkIs
  <2>3. Completed
    BY <2>1 DEF CacheInv, AnswerInv, Written
  <2>4. HasText(target)
    BY <2>3, CompletedIs
  <2>5. ~Writing(c)' /\ ~Making(c)' /\ commit'[c].pc \notin {"makemeta", "putmeta", "begin"}
    BY <2>1 DEF Writing, Making
  <2> QED BY <2>1, <2>2, <2>3, <2>4, <2>5, EntersInv
<1> QED BY <1>3, <1>4, <1>5, <1>6

\* What is left to show of a step of the writer of a text.
LEMMA RunsInv ==
    ASSUME CacheInv, NEW c \in Commits, NEW t \in Texts, Shape', Runs(c),
           t = commit[c].text, commit[c].pc = "begin" \/ Writing(c),
           \A d \in Commits \ {c} : Writing(d) => commit[d].text # t,
           \A u \in Texts \ {t} : run'[u] = run[u] /\ row'[u] = row[u],
           run[t] # "completed",
           commit'[c].pc \in {"journal", "replace", "finalize", "complete", "fail", "mark", "threw"},
           commit'[c].pc = "journal" => commit[c].pc = "begin",
           Writing(c)' => run'[t] = "running",
           commit'[c].pc = "complete" => row'[t].stage = "finalized",
           commit'[c].pc \in {"replace", "finalize"} => row'[t].stage = "open",
           run'[t] = "completed" => row'[t].stage = "finalized",
           commit'[c].pc = "mark" => run'[t] = "completed",
           row'[t].stage # "none" => HasText(row'[t].new),
           row'[t].stage = "finalized" => HasText(target'),
           HasText(target) => HasText(target'),
           commit'[c].pc = "finalize" => HasText(target')
    PROVE  CacheInv'
<1>1. /\ Up /\ UNCHANGED <<status, content, stream, discard, launches>>
      /\ \A d \in Commits \ {c} : commit'[d] = commit[d]
      /\ commit'[c].pc # "threw" =>
           commit'[c].text = commit[c].text /\ commit'[c].new = commit[c].new
  BY DEF Runs, Others
<1>2. StreamInv'
  <2>1. ~Streaming /\ ~Making(c)'
    BY AtWorkIs DEF CacheInv, Writing, Making
  <2> QED BY <1>1, <2>1, CommitStream DEF CacheInv, Others
<1>3. RunInv'
  <2>1. Writing(c)' => commit'[c].text = t
    BY <1>1 DEF Writing
  <2>2. \A d \in Commits \ {c} : /\ Writing(d)' <=> Writing(d)
                                 /\ commit'[d] = commit[d] /\ commit[d].text \in Texts
    BY <1>1, TextOf DEF Writing, CacheInv
  <2>3. \A d \in Commits : Writing(d)' => run'[commit'[d].text] = "running"
    BY <2>1, <2>2 DEF CacheInv, RunInv
  <2>4. \A d, e \in Commits : Writing(d)' /\ Writing(e)' /\ commit'[d].text = commit'[e].text => d = e
    BY <2>1, <2>2 DEF CacheInv, RunInv
  <2>5. \A d \in Commits : commit'[d].pc = "complete" => row'[commit'[d].text].stage = "finalized"
    <3>1. commit'[c].pc = "complete" => commit'[c].text = t
      BY <1>1
    <3>2. \A d \in Commits \ {c} : commit[d].pc = "complete" => commit[d].text # t
      BY DEF Writing
    <3> QED BY <2>2, <3>1, <3>2 DEF CacheInv, RunInv
  <2>6. \A d \in Commits :
          commit'[d].pc \in {"replace", "finalize"} => row'[commit'[d].text].stage = "open"
    <3>1. commit'[c].pc \in {"replace", "finalize"} => commit'[c].text = t
      BY <1>1
    <3>2. \A d \in Commits \ {c} : commit[d].pc \in {"replace", "finalize"} => commit[d].text # t
      BY DEF Writing
    <3> QED BY <2>2, <3>1, <3>2 DEF CacheInv, RunInv
  <2>7. \A u \in Texts : run'[u] = "completed" => row'[u].stage = "finalized"
    BY DEF CacheInv, RunInv
  <2> QED BY <2>3, <2>4, <2>5, <2>6, <2>7 DEF RunInv
<1>4. AnswerInv'
  <2>1. Completed => Completed'
    BY DEF Completed
  <2>2. commit'[c].pc = "mark" => Completed'
    BY DEF Completed
  <2>3. Written(c)' \/ commit'[c].pc = "replayed" => commit'[c].pc = "mark"
    BY DEF Written
  <2> QED BY <1>1, <2>1, <2>2, <2>3 DEF CacheInv, AnswerInv, Written
<1>5. TextInv'
  <2>1. commit'[c].pc \in {"begin", "journal"} => HasText(commit'[c].new)
    BY <1>1 DEF CacheInv, TextInv
  <2> QED BY <1>1, <2>1 DEF CacheInv, TextInv
<1>6. KeptInv'
  BY <1>1 DEF CacheInv, KeptInv
<1> QED BY <1>2, <1>3, <1>4, <1>5, <1>6 DEF CacheInv

\* Only the writer's own text can be touched by its run.
LEMMA WriterIs ==
    ASSUME Shape, RunInv, NEW c \in Commits, commit[c].pc = "begin" \/ Writing(c),
           Writing(c) \/ run[commit[c].text] # "running"
    PROVE  \A d \in Commits \ {c} : Writing(d) => commit[d].text # commit[c].text
BY DEF RunInv

LEMMA BeginInv ==
    ASSUME CacheInv, NEW c \in Commits, Begin(c)
    PROVE  CacheInv'
<1> DEFINE t == commit[c].text
<1>1. Shape /\ StreamInv /\ RunInv /\ TextInv /\ t \in Texts
  BY TextOf DEF CacheInv
<1>2. /\ Shape' /\ Runs(c) /\ UNCHANGED <<target, row>> /\ commit[c].pc = "begin"
      /\ \/ /\ commit'[c].pc = "journal" /\ run[t] \in {"none", "failed"}
            /\ run' = [run EXCEPT ![t] = "running"]
         \/ commit'[c].pc = "threw" /\ UNCHANGED run
         \/ commit'[c].pc = "mark" /\ run[t] = "completed" /\ UNCHANGED run
  BY <1>1, BeginIs
<1> HIDE DEF t
<1>3. CASE /\ commit'[c].pc = "journal" /\ run[t] \in {"none", "failed"}
           /\ run' = [run EXCEPT ![t] = "running"]
  <2>1. \A d \in Commits \ {c} : Writing(d) => commit[d].text # t
    BY <1>1, <1>2, <1>3, WriterIs DEF t
  <2>2. run'[t] = "running" /\ \A u \in Texts \ {t} : run'[u] = run[u] /\ row'[u] = row[u]
    BY <1>1, <1>2, <1>3 DEF Shape
  <2>3. /\ row'[t].stage # "none" => HasText(row'[t].new)
        /\ row'[t].stage = "finalized" => HasText(target')
        /\ HasText(target) => HasText(target')
    BY <1>1, <1>2 DEF TextInv
  <2>4. run[t] # "completed"
    BY <1>3
  <2> QED BY <1>1, <1>2, <1>3, <2>1, <2>2, <2>3, <2>4, RunsInv DEF t
<1>4. CASE commit'[c].pc \in {"threw", "mark"} /\ UNCHANGED run
  <2>1. Enters(c) /\ UNCHANGED <<status, content>>
    BY <1>2, <1>4 DEF Runs, Enters
  <2>2. ~Streaming
    BY <1>1, <1>2, AtWorkIs
  <2>3. ~Writing(c)' /\ ~Making(c)' /\ commit'[c].pc \notin {"makemeta", "putmeta", "begin", "replayed"}
    BY <1>4 DEF Writing, Making
  <2>4. Written(c)' => Completed
    BY <1>1, <1>2, <1>4 DEF Written, Completed
  <2> QED BY <1>2, <2>1, <2>2, <2>3, <2>4, EntersInv
<1> QED BY <1>2, <1>3, <1>4

LEMMA JournalInv ==
    ASSUME CacheInv, NEW c \in Commits, Journal(c)
    PROVE  CacheInv'
<1> DEFINE t == commit[c].text
<1>1. Shape /\ StreamInv /\ RunInv /\ TextInv /\ t \in Texts /\ row[t] \in Rows
  BY TextOf DEF CacheInv
<1>2. /\ Shape' /\ Runs(c) /\ UNCHANGED <<target, run>> /\ commit[c].pc = "journal"
      /\ \E r \in Rows :
           /\ row' = [row EXCEPT ![t] = r] /\ r.stage # "none"
           /\ \/ /\ commit'[c].pc = "replace" /\ r.stage = "open"
                 /\ \/ row[t].stage = "none" /\ r.new = commit[c].new
                    \/ row[t].stage # "none" /\ r.new = row[t].new
              \/ /\ commit'[c].pc \in {"complete", "fail"}
                 /\ row[t].stage # "none" /\ r.new = row[t].new
                 /\ r.stage = "finalized" => row[t].stage = "finalized" \/ target = r.new
                 /\ commit'[c].pc = "complete" => r.stage = "finalized"
  BY <1>1, JournalIs
<1> HIDE DEF t
<1>3. Writing(c) /\ run[t] = "running" /\ run'[t] = "running"
  BY <1>1, <1>2 DEF Writing, RunInv, t
<1>4. \A d \in Commits \ {c} : Writing(d) => commit[d].text # t
  BY <1>1, <1>3, WriterIs DEF t
<1>5. PICK r \in Rows : 
        /\ row' = [row EXCEPT ![t] = r] /\ r.stage # "none"
        /\ \/ /\ commit'[c].pc = "replace" /\ r.stage = "open"
              /\ \/ row[t].stage = "none" /\ r.new = commit[c].new
                 \/ row[t].stage # "none" /\ r.new = row[t].new
           \/ /\ commit'[c].pc \in {"complete", "fail"}
              /\ row[t].stage # "none" /\ r.new = row[t].new
              /\ r.stage = "finalized" => row[t].stage = "finalized" \/ target = r.new
              /\ commit'[c].pc = "complete" => r.stage = "finalized"
  BY <1>2
<1>6. row'[t] = r /\ \A u \in Texts \ {t} : run'[u] = run[u] /\ row'[u] = row[u]
  BY <1>1, <1>2, <1>5 DEF Shape
<1>7. HasText(r.new)
  <2>1. HasText(commit[c].new) /\ (row[t].stage # "none" => HasText(row[t].new))
    BY <1>1, <1>2 DEF TextInv
  <2> QED BY <1>5, <2>1
<1>8. r.stage = "finalized" => HasText(target')
  BY <1>1, <1>2, <1>5, <1>7 DEF TextInv
<1>9. HasText(target) => HasText(target')
  BY <1>2
<1> QED BY <1>1, <1>2, <1>3, <1>4, <1>5, <1>6, <1>7, <1>8, <1>9, RunsInv DEF t

LEMMA ReplaceInv ==
    ASSUME CacheInv, NEW c \in Commits, Replace(c)
    PROVE  CacheInv'
<1> DEFINE t == commit[c].text
<1>1. Shape /\ StreamInv /\ RunInv /\ TextInv /\ t \in Texts /\ row[t] \in Rows
  BY TextOf DEF CacheInv
<1>2. /\ Shape' /\ Runs(c) /\ UNCHANGED run /\ commit[c].pc = "replace"
      /\ \/ /\ commit'[c].pc = "finalize" /\ target' = row[t].new /\ UNCHANGED row
         \/ /\ commit'[c].pc = "fail" /\ UNCHANGED target
            /\ \E r \in Rows : /\ row' = [row EXCEPT ![t] = r]
                               /\ r.stage = "flagged" /\ r.new = row[t].new
  BY <1>1, ReplaceIs
<1> HIDE DEF t
<1>3. Writing(c) /\ run[t] = "running" /\ run'[t] = "running" /\ row[t].stage = "open"
  BY <1>1, <1>2 DEF Writing, RunInv, t
<1>4. \A d \in Commits \ {c} : Writing(d) => commit[d].text # t
  BY <1>1, <1>3, WriterIs DEF t
<1>5. /\ row'[t].stage \in {"open", "flagged"} /\ row'[t].new = row[t].new
      /\ commit'[c].pc = "finalize" => row'[t].stage = "open"
      /\ \A u \in Texts \ {t} : run'[u] = run[u] /\ row'[u] = row[u]
  BY <1>1, <1>2, <1>3 DEF Shape
<1>6. HasText(row[t].new)
  BY <1>1, <1>3 DEF TextInv
<1>7. /\ HasText(target) => HasText(target')
      /\ commit'[c].pc = "finalize" => HasText(target')
  BY <1>2, <1>6
<1> QED BY <1>1, <1>2, <1>3, <1>4, <1>5, <1>6, <1>7, RunsInv DEF t

LEMMA SettlesInv ==
    ASSUME CacheInv, NEW c \in Commits, Finalize(c) \/ Complete(c) \/ FailRun(c)
    PROVE  CacheInv'
<1> DEFINE t == commit[c].text
<1>1. Shape /\ StreamInv /\ RunInv /\ TextInv /\ t \in Texts /\ row[t] \in Rows
  BY TextOf DEF CacheInv
<1>2. /\ Shape' /\ Runs(c) /\ UNCHANGED target
      /\ \/ /\ commit[c].pc = "finalize" /\ commit'[c].pc = "complete" /\ UNCHANGED run
            /\ \E r \in Rows : /\ row' = [row EXCEPT ![t] = r]
                               /\ r.stage = "finalized" /\ r.new = row[t].new
         \/ /\ commit[c].pc = "complete" /\ commit'[c].pc = "mark" /\ UNCHANGED row
            /\ run' = [run EXCEPT ![t] = "completed"]
         \/ /\ commit[c].pc = "fail" /\ commit'[c].pc = "threw" /\ UNCHANGED row
            /\ run' = [run EXCEPT ![t] = "failed"]
  BY <1>1, FinalizeIs, SettleRunIs
<1> HIDE DEF t
<1>3. Writing(c) /\ run[t] = "running"
  BY <1>1, <1>2 DEF Writing, RunInv, t
<1>4. \A d \in Commits \ {c} : Writing(d) => commit[d].text # t
  BY <1>1, <1>3, WriterIs DEF t
<1>5. /\ row'[t].new = row[t].new
      /\ commit[c].pc = "finalize" => row'[t].stage = "finalized"
      /\ commit[c].pc # "finalize" => row'[t].stage = row[t].stage
      /\ \A u \in Texts \ {t} : run'[u] = run[u] /\ row'[u] = row[u]
  BY <1>1, <1>2 DEF Shape
<1>6. /\ commit[c].pc = "finalize" => run'[t] = "running"
      /\ commit[c].pc = "complete" => run'[t] = "completed"
      /\ commit[c].pc = "fail" => run'[t] = "failed"
  BY <1>1, <1>2, <1>3 DEF Shape
<1>7. /\ commit[c].pc = "finalize" => HasText(target) /\ row[t].stage # "none"
      /\ commit[c].pc = "complete" => row[t].stage = "finalized"
      /\ row[t].stage # "none" => HasText(row[t].new)
      /\ row[t].stage = "finalized" => HasText(target)
  BY <1>1 DEF TextInv, RunInv, t
<1>8. /\ Writing(c)' => commit[c].pc = "finalize"
      /\ commit'[c].pc \notin {"journal", "replace", "finalize"}
      /\ commit'[c].pc \in {"complete", "mark", "threw"}
  BY <1>2 DEF Writing
<1>9. commit'[c].pc = "complete" => commit[c].pc = "finalize"
  BY <1>2
<1>10. commit'[c].pc = "mark" => commit[c].pc = "complete"
  BY <1>2
<1>11. /\ run'[t] = "completed" => row'[t].stage = "finalized"
       /\ row'[t].stage # "none" => HasText(row'[t].new)
       /\ row'[t].stage = "finalized" => HasText(target')
  BY <1>2, <1>5, <1>6, <1>7
<1> QED BY <1>1, <1>2, <1>3, <1>4, <1>5, <1>6, <1>8, <1>9, <1>10, <1>11, RunsInv DEF t

LEMMA StreamStepInv ==
    ASSUME CacheInv, StartStream \/ Stream
    PROVE  CacheInv'
<1>1. CASE StartStream
  <2>1. /\ Shape' /\ Up /\ stream'.pc = "create" /\ stream'.seen = stream.seen
        /\ \A c \in Commits : commit[c].pc = "idle"
        /\ UNCHANGED <<status, content, target, run, row, commit, discard, launches>>
    BY <1>1, StartStreamIs DEF CacheInv
  <2>2. StreamInv'
    <3>1. Up'
      BY <2>1 DEF Up
    <3> QED BY <2>1, <3>1 DEF StreamInv, Streaming, AtWork, Making
  <2>3. RunInv'
    BY <2>1 DEF CacheInv, RunInv, Writing
  <2>4. AnswerInv'
    BY <2>1 DEF CacheInv, AnswerInv, Completed, Written
  <2>5. TextInv' /\ KeptInv'
    BY <2>1 DEF CacheInv, TextInv, KeptInv, HasText
  <2> QED BY <2>1, <2>2, <2>3, <2>4, <2>5 DEF CacheInv
<1>2. CASE Stream
  <2>1. /\ Shape' /\ Flows
    BY <1>2, StreamIs DEF CacheInv
  <2>2. \A c \in Commits : commit[c].pc = "idle"
    BY <2>1 DEF Flows, CacheInv, StreamInv
  <2>3. /\ Up' /\ \A c \in Commits : commit'[c].pc = "idle"
        /\ UNCHANGED <<target, run, row, commit, discard>>
    BY <2>1, <2>2 DEF Flows, Up
  <2>4. StreamInv'
    BY <2>1, <2>3 DEF Flows, StreamInv, AtWork, Making
  <2>5. RunInv'
    BY <2>3 DEF CacheInv, RunInv, Writing
  <2>6. AnswerInv'
    <3>1. Completed' <=> Completed
      BY <2>3 DEF Completed
    <3> QED BY <2>1, <2>3, <3>1 DEF Flows, CacheInv, AnswerInv, Written
  <2>7. TextInv'
    BY <2>3 DEF CacheInv, TextInv, HasText
  <2>8. KeptInv'
    <3>1. content'.there \/ content' = content
      BY <2>1 DEF Flows
    <3>2. status' # "none" => status # "none" \/ content'.there
      BY <2>1 DEF Flows
    <3> QED BY <2>3, <3>1, <3>2 DEF CacheInv, KeptInv, HasText
  <2> QED BY <2>1, <2>4, <2>5, <2>6, <2>7, <2>8 DEF CacheInv
<1> QED BY <1>1, <1>2

LEMMA DiscardInv ==
    ASSUME CacheInv, DiscardReads \/ DiscardDeletes \/ DiscardWrites
    PROVE  CacheInv'
<1>1. /\ Shape' /\ UNCHANGED <<target, run, row, stream, commit, launches>>
      /\ Up /\ discard'.pc # "idle"
      /\ content' = content \/ content' = Gone
      /\ status' = status \/ status' = "discarded"
  BY DiscardIs DEF CacheInv
<1>2. StreamInv'
  <2>1. content'.text = content.text \/ content'.text = <<>>
    BY <1>1 DEF Gone
  <2>2. Arriving => Arriving'
    BY <1>1, <2>1 DEF Arriving
  <2>3. status # "none" => status' # "none"
    BY <1>1
  <2> QED BY <1>1, <2>2, <2>3 DEF CacheInv, StreamInv, Up, Streaming, AtWork, Making
<1>3. RunInv'
  BY <1>1 DEF CacheInv, RunInv, Writing
<1>4. AnswerInv'
  BY <1>1 DEF CacheInv, AnswerInv, Completed, Written
<1>5. TextInv' /\ KeptInv'
  BY <1>1 DEF CacheInv, TextInv, KeptInv, HasText
<1> QED BY <1>1, <1>2, <1>3, <1>4, <1>5 DEF CacheInv

LEMMA CleanupInv ==
    ASSUME CacheInv, CleanupExpired
    PROVE  CacheInv'
<1>1. /\ Shape' /\ status' = "none" /\ content' = Gone
      /\ ~Streaming /\ \A c \in Commits : ~AtWork(c)
      /\ UNCHANGED <<target, run, row, stream, commit, discard, launches>>
  BY CleanupIs DEF CacheInv
<1>2. StreamInv'
  BY <1>1 DEF CacheInv, StreamInv, Up, Streaming, AtWork, Making
<1>3. RunInv'
  BY <1>1 DEF CacheInv, RunInv, Writing
<1>4. AnswerInv'
  BY <1>1 DEF CacheInv, AnswerInv, Completed, Written
<1>5. TextInv'
  BY <1>1 DEF CacheInv, TextInv, HasText
<1>6. KeptInv'
  BY <1>1 DEF KeptInv, AtWork
<1> QED BY <1>1, <1>2, <1>3, <1>4, <1>5, <1>6 DEF CacheInv

LEMMA EditInv ==
    ASSUME CacheInv, Edit
    PROVE  CacheInv'
<1>1. /\ Shape' /\ target' = Append(target, Edited)
      /\ UNCHANGED <<status, content, run, row, stream, commit, discard, launches>>
  BY EditIs DEF CacheInv
<1>2. HasText(target) => HasText(target')
  BY <1>1, AddedIs, PiecesAre DEF CacheInv, Shape
<1>3. StreamInv'
  BY <1>1 DEF CacheInv, StreamInv, Up, Streaming, AtWork, Making, Arriving
<1>4. RunInv'
  BY <1>1 DEF CacheInv, RunInv, Writing
<1>5. AnswerInv'
  BY <1>1 DEF CacheInv, AnswerInv, Completed, Written
<1>6. TextInv'
  BY <1>1, <1>2 DEF CacheInv, TextInv
<1>7. KeptInv'
  BY <1>1, <1>2 DEF CacheInv, KeptInv
<1> QED BY <1>1, <1>3, <1>4, <1>5, <1>6, <1>7 DEF CacheInv

\* After a crash no call is at work; what it had left is as it was.
LEMMA CrashInv ==
    ASSUME CacheInv, Crash
    PROVE  CacheInv'
<1>1. /\ Shape' /\ ~Streaming'
      /\ stream'.pc = "idle" <=> stream.pc = "idle"
      /\ stream'.seen = "committed" => stream.seen = "committed"
      /\ \A c \in Commits : \/ AtWork(c) /\ commit'[c].pc = "lost"
                            \/ ~AtWork(c) /\ commit'[c] = commit[c]
      /\ discard'.pc = "idle" => discard.pc = "idle"
      /\ UNCHANGED <<status, content, target, run, row>>
      /\ stream' = stream \/ stream'.pc = "over"
  BY CrashIs DEF CacheInv
<1>2. \A c \in Commits : /\ ~AtWork(c)' /\ ~Writing(c)' /\ ~Making(c)'
                         /\ commit'[c].pc \in {"idle", "done", "replayed", "threw", "lost"}
                         /\ commit'[c].pc \in {"done", "replayed"} => commit'[c] = commit[c]
  BY <1>1 DEF AtWork, Writing, Making
<1>3. StreamInv'
  <2>1. stream'.pc \notin {"append", "touch", "bound"}
    BY <1>1 DEF Streaming
  <2> QED BY <1>1, <1>2, <2>1 DEF StreamInv
<1>4. RunInv'
  BY <1>1, <1>2 DEF CacheInv, RunInv
<1>5. AnswerInv'
  <2>1. Completed' <=> Completed
    BY <1>1 DEF Completed
  <2>2. \A c \in Commits : Written(c)' \/ commit'[c].pc = "replayed" => 
                              Written(c) \/ commit[c].pc = "replayed"
    BY <1>2 DEF Written
  <2> QED BY <1>1, <2>1, <2>2 DEF CacheInv, AnswerInv
<1>6. TextInv'
  BY <1>1, <1>2 DEF CacheInv, TextInv, HasText
<1>7. KeptInv'
  BY <1>1, <1>2 DEF CacheInv, KeptInv, HasText
<1> QED BY <1>1, <1>3, <1>4, <1>5, <1>6, <1>7 DEF CacheInv

LEMMA LaunchInv ==
    ASSUME CacheInv, Launch
    PROVE  CacheInv'
<1>1. /\ Shape' /\ ~Up
      /\ \A t \in Texts : run'[t] = "completed" <=> run[t] = "completed"
      /\ UNCHANGED <<status, content, target, row, stream, commit, discard>>
  BY LaunchIs DEF CacheInv
<1>2. ~Streaming /\ \A c \in Commits : ~AtWork(c) /\ ~Writing(c)
  BY <1>1 DEF CacheInv, StreamInv, AtWork, Writing
<1>3. StreamInv'
  BY <1>1, <1>2 DEF CacheInv, StreamInv, Streaming, AtWork, Making
<1>4. RunInv'
  BY <1>1, <1>2 DEF CacheInv, RunInv, Writing
<1>5. AnswerInv'
  BY <1>1 DEF CacheInv, AnswerInv, Completed, Written
<1>6. TextInv' /\ KeptInv'
  BY <1>1 DEF CacheInv, TextInv, KeptInv, HasText
<1> QED BY <1>1, <1>3, <1>4, <1>5, <1>6 DEF CacheInv

LEMMA InitIs == Init => CacheInv
<1> SUFFICES ASSUME Init PROVE CacheInv
  OBVIOUS
<1>1. <<>> \in Texts /\ <<>> \in Seq(Pieces)
  BY WholeIsText
<1>2. NoCall \in Calls /\ NoCall.pc = "idle"
  BY <1>1 DEF NoCall, Calls, CommitPCs
<1>3. NoRow \in Rows /\ NoRow.stage = "none"
  BY <1>1 DEF NoRow, Rows, Stages
<1>4. NoStream \in Streams /\ NoStream.pc = "idle" /\ NoStream.seen = "none"
  <2>1. 1 \in 1..(Deltas + 1)
    BY WholeIs
  <2> QED BY <2>1 DEF NoStream, Streams, StreamPCs, Statuses
<1>5. <<Original>> \in Seq(Pieces)
  BY PiecesAre
<1>6. 0 \in 0..MaxEdits
  BY CacheAssumption
<1>7. [count |-> 1, up |-> TRUE] \in [count : Nat, up : BOOLEAN]
  OBVIOUS
<1>8. Shape
  BY <1>2, <1>3, <1>4, <1>5, <1>6, <1>7, ContentsAre DEF Init, Shape, RunStates, Statuses
<1>9. stream.pc = "idle" /\ stream.seen = "none" /\ \A c \in Commits : commit[c].pc = "idle"
  BY <1>2, <1>4 DEF Init
<1>10. \A t \in Texts : run[t] = "none" /\ row[t].stage = "none"
  BY <1>3 DEF Init
<1>11. StreamInv
  BY <1>9 DEF StreamInv, Streaming, AtWork, Making
<1>12. RunInv /\ AnswerInv
  BY <1>9, <1>10 DEF RunInv, AnswerInv, Writing, Written, Init
<1>13. TextInv /\ KeptInv
  BY <1>9, <1>10 DEF TextInv, KeptInv, Init
<1> QED BY <1>8, <1>11, <1>12, <1>13 DEF CacheInv

LEMMA StutterInv ==
    ASSUME CacheInv, UNCHANGED vars
    PROVE  CacheInv'
<1>1. Shape'
  BY DEF CacheInv, Shape, vars
<1>2. StreamInv'
  BY DEF CacheInv, StreamInv, Up, Streaming, AtWork, Making, Arriving, vars
<1>3. RunInv' /\ AnswerInv'
  BY DEF CacheInv, RunInv, AnswerInv, Completed, Writing, Written, vars
<1>4. TextInv' /\ KeptInv'
  BY DEF CacheInv, TextInv, KeptInv, HasText, vars
<1> QED BY <1>1, <1>2, <1>3, <1>4 DEF CacheInv

LEMMA NextInv == CacheInv /\ [Next]_vars => CacheInv'
<1> SUFFICES ASSUME CacheInv, [Next]_vars PROVE CacheInv'
  OBVIOUS
<1>1. CASE \E c \in Commits : Start(c) \/ Commit(c)
  <2>1. PICK c \in Commits : Start(c) \/ Commit(c)
    BY <1>1
  <2> QED BY <2>1, EntryInv, BeginInv, JournalInv, ReplaceInv, SettlesInv DEF Commit
<1>2. CASE StartStream \/ Stream
  BY <1>2, StreamStepInv
<1>3. CASE DiscardReads \/ DiscardDeletes \/ DiscardWrites
  BY <1>3, DiscardInv
<1>4. CASE Edit \/ CleanupExpired \/ Crash \/ Launch
  BY <1>4, EditInv, CleanupInv, CrashInv, LaunchInv
<1>5. CASE UNCHANGED vars
  BY <1>5, StutterInv
<1> QED BY <1>1, <1>2, <1>3, <1>4, <1>5 DEF Next

-----------------------------------------------------------------------------
(* What holds whatever calls race.                                         *)

\* The inductive invariant, for every value of the constants.
THEOREM CacheInvariance == Spec => []CacheInv
<1>1. Init => CacheInv
  BY InitIs
<1>2. CacheInv /\ [Next]_vars => CacheInv'
  BY NextInv
<1> QED BY <1>1, <1>2, PTL DEF Spec

\* The state has its shape: the stream never runs past its last delta, and only
\* texts of the model and the author's pieces reach the document.
THEOREM TypeCorrect == Spec => []TypeOK
<1>1. CacheInv => TypeOK
  BY DEF CacheInv, Shape, Contents, Streams, Rows, Stages, RunStates, Calls, TypeOK
<1> QED BY <1>1, CacheInvariance, PTL

LEMMA CopiesAre == HasText(target) <=> Copies # {}
BY DEF HasText, Copies

\* An answered confirmation, or an entry marked committed, has a completed run
\* behind it whose row is finalized.
THEOREM AnsweredWasWrittenAlways == Spec => []AnsweredWasWritten
<1>1. CacheInv => AnsweredWasWritten
  BY DEF CacheInv, AnswerInv, RunInv, AnsweredWasWritten, Completed, Written
<1> QED BY <1>1, CacheInvariance, PTL

\* What the model has written is in the cache or in the document until the user
\* discards it.
THEOREM TextIsKeptAlways == Spec => []TextIsKept
<1>1. CacheInv => TextIsKept
  BY CopiesAre DEF CacheInv, KeptInv, TextIsKept
<1> QED BY <1>1, CacheInvariance, PTL

-----------------------------------------------------------------------------
(* How often the text is in the document.                                  *)

LEMMA Phases ==
    /\ \A c \in Commits : Making(c) => AtWork(c)
    /\ \A c \in Commits : Writing(c) => AtWork(c) /\ ~Making(c)
BY DEF Making, Writing, AtWork

\* Of two texts at most one is not the empty one.
LEMMA RowsAre ==
    ASSUME NamedInv, NEW t \in Texts, row[t].stage = "none", t \in Drafted \/ stream.pc # "idle"
    PROVE  OneRow
<1>1. ASSUME NEW u \in Texts, NEW v \in Texts, row[u].stage # "none", row[v].stage # "none"
      PROVE  u = v
  <2>1. Known(u) /\ Known(v)
    BY <1>1 DEF Known
  <2>2. CASE stream.pc = "idle"
    <3>1. u \in Drafted /\ v \in Drafted /\ u # t /\ v # t
      BY <1>1, <2>1, <2>2 DEF NamedInv, Possible
    <3> QED BY <2>2, <3>1 DEF Drafted
  <2>3. CASE stream.pc # "idle"
    BY <2>1, <2>3 DEF NamedInv
  <2> QED BY <2>2, <2>3
<1> QED BY <1>1 DEF OneRow

\* A step on the cache entry: the text found there is one of the possible ones.
LEMMA EntersNamed ==
    ASSUME CacheInv, NamedInv, NEW c \in Commits, Enters(c), ~Streaming, ~Writing(c)',
           \/ content' = content
           \/ content'.text \in Drafted /\ (~content'.there \/ Making(c)),
           commit'[c].pc = "prepare" => content' = content /\ commit'[c].text = content.text,
           commit'[c].pc = "begin" =>
             /\ content' = content /\ content.there
             /\ commit[c].pc = "prepare" /\ commit'[c].text = commit[c].text,
           commit'[c].pc # "idle"
    PROVE  NamedInv'
<1>1. /\ UNCHANGED <<row, stream>> /\ stream.pc \in {"idle", "over"}
      /\ \A d \in Commits \ {c} : commit'[d] = commit[d]
  BY DEF Enters, Others, Streaming
<1>2. Making(c) => stream.pc = "idle"
  BY DEF CacheInv, StreamInv
<1>3. \A d \in Commits \ {c} : Writing(d)' <=> Writing(d)
  BY <1>1 DEF Writing
<1>4. stream.pc = "idle" => content'.text \in Drafted
  BY DEF NamedInv
<1>5. stream.pc # "idle" => content' = content \/ ~content'.there
  BY <1>2
<1>6. ASSUME NEW d \in Commits, commit'[d].pc = "prepare"
      PROVE  IF stream.pc = "idle" THEN commit'[d].text \in Drafted
                                   ELSE content'.there => content'.text = commit'[d].text
  <2>1. CASE d = c
    BY <1>4, <1>6, <2>1
  <2>2. CASE d # c
    <3>1. commit'[d] = commit[d]
      BY <1>1, <2>2
    <3> QED BY <1>5, <1>6, <3>1 DEF NamedInv
  <2> QED BY <2>1, <2>2
<1>7. \A t \in Texts : Known(t)' => Known(t) \/ (commit'[c].pc = "begin" /\ commit'[c].text = t)
  BY <1>1, <1>3 DEF Known
<1>8. \A t \in Texts : Possible(t) => Possible(t)'
  BY <1>1, <1>5 DEF Possible
<1>9. ASSUME NEW t \in Texts, commit'[c].pc = "begin", t = commit'[c].text
      PROVE  Possible(t)' /\ (stream.pc # "idle" => \A u \in Texts : Possible(u) => u = t)
  <2>1. /\ content' = content /\ content.there /\ commit[c].pc = "prepare" /\ t = commit[c].text
    BY <1>9
  <2>2. IF stream.pc = "idle" THEN t \in Drafted ELSE content.text = t
    BY <2>1 DEF NamedInv
  <2> QED BY <1>1, <2>1, <2>2 DEF Possible
<1>10. \A t \in Texts : Known(t)' => Possible(t)'
  BY <1>7, <1>8, <1>9 DEF NamedInv
<1>11. stream.pc # "idle" => \A t, u \in Texts : Known(t)' /\ Known(u)' => t = u
  <2>1. \A t, u \in Texts : Known(t) /\ Known(u) /\ stream.pc # "idle" => t = u
    BY DEF NamedInv
  <2>2. \A t \in Texts : Known(t) => Possible(t)
    BY DEF NamedInv
  <2> QED BY <1>7, <1>9, <2>1, <2>2
<1> QED BY <1>1, <1>4, <1>6, <1>10, <1>11 DEF NamedInv, NoRows

\* Of the documents a step on the cache entry says nothing but what a new call
\* is going to write.
LEMMA EntersTimes ==
    ASSUME TimesInv, NEW c \in Commits, Enters(c), ~Writing(c)',
           commit'[c].pc = "begin" /\ row[commit'[c].text].stage = "none" =>
               Holds(commit'[c].new, TRUE)
    PROVE  TimesInv'
<1>1. UNCHANGED <<target, row>> /\ \A d \in Commits \ {c} : commit'[d] = commit[d]
  BY DEF Enters, Others
<1>2. (NoRows' <=> NoRows) /\ (OneRow' <=> OneRow)
  BY <1>1 DEF NoRows, OneRow
<1>3. \A s, new : Holds(s, new)' <=> Holds(s, new)
  BY <1>2 DEF Holds, Once, Twice, Fresh, HasText
<1>4. commit'[c].pc # "journal"
  BY DEF Writing
<1>5. Holds(target, FALSE)'
  BY <1>1, <1>2 DEF TimesInv, Holds, Once, Twice, Fresh, HasText
<1>6. ASSUME NEW t \in Texts, row'[t].stage # "none"
      PROVE  Holds(row[t].new, FALSE)'
  <2>1. Holds(row[t].new, FALSE)
    BY <1>1, <1>6 DEF TimesInv
  <2> QED BY <1>1, <1>2, <2>1 DEF Holds, Once, Twice, Fresh, HasText
<1>7. ASSUME NEW d \in Commits, commit'[d].pc \in {"begin", "journal"},
             row'[commit'[d].text].stage = "none"
      PROVE  Holds(commit[d].new, TRUE)'
  <2>1. row[commit'[d].text].stage = "none"
    BY <1>1, <1>7
  <2>2. CASE d = c
    <3>1. Holds(commit'[c].new, TRUE)
      BY <1>4, <1>7, <2>1, <2>2
    <3> QED BY <1>2, <2>2, <3>1 DEF Holds, Once, Twice, Fresh, HasText
  <2>3. CASE d # c
    <3>1. commit'[d] = commit[d] /\ Holds(commit[d].new, TRUE)
      BY <1>1, <1>7, <2>1, <2>3 DEF TimesInv
    <3> QED BY <1>2, <3>1 DEF Holds, Once, Twice, Fresh, HasText
  <2> QED BY <2>2, <2>3
<1> QED BY <1>5, <1>6, <1>7 DEF TimesInv

LEMMA EntryTimes ==
    ASSUME CacheInv, NamedInv, TimesInv, NEW c \in Commits,
           \/ Start(c) \/ MakeContent(c) \/ MakeMeta(c) \/ Fill(c) \/ PutContent(c) \/ PutMeta(c)
           \/ Get(c) \/ Prepare(c) \/ Mark(c) \/ WriteMark(c) \/ DeleteContent(c)
    PROVE  NamedInv' /\ TimesInv'
<1>1. Shape /\ StreamInv
  BY DEF CacheInv
<1>2. /\ Holding(<<>>).text \in Drafted /\ Holding(Whole).text \in Drafted
      /\ Gone.text \in Drafted /\ ~Gone.there
  BY DEF Holding, Gone, Drafted
<1>3. CASE Start(c)
  <2>1. /\ Enters(c) /\ UNCHANGED content /\ ~Streaming
        /\ commit'[c].pc \in {"get", "make", "fill"}
    BY <1>1, <1>3, StartIs
  <2>2. ~Writing(c)' /\ commit'[c].pc \notin {"prepare", "begin", "idle"}
    BY <2>1 DEF Writing
  <2> QED BY <2>1, <2>2, EntersNamed, EntersTimes
<1>4. CASE MakeContent(c) \/ MakeMeta(c) \/ Fill(c) \/ PutContent(c) \/ PutMeta(c)
  <2>1. /\ Enters(c) /\ Making(c) /\ commit[c].pc # "idle"
        /\ commit'[c].pc \in {"makemeta", "fill", "get", "put", "putmeta", "threw"}
        /\ content' = content \/ content'.text \in Drafted
    BY <1>1, <1>2, <1>4, MakeContentIs, MakeMetaIs, FillIs, PutContentIs, PutMetaIs DEF Making
  <2>2. ~Streaming
    BY <1>1, <2>1, AtWorkIs
  <2>3. ~Writing(c)' /\ commit'[c].pc \notin {"prepare", "begin", "idle"}
    BY <2>1 DEF Writing
  <2> QED BY <2>1, <2>2, <2>3, EntersNamed, EntersTimes
<1>5. CASE Get(c) \/ Prepare(c)
  <2>1. /\ Enters(c) /\ UNCHANGED content
        /\ commit[c].pc \in {"get", "prepare"} /\ commit[c].pc # "idle"
        /\ commit'[c].pc \in {"replayed", "threw", "prepare", "begin"}
        /\ commit'[c].pc = "prepare" => commit'[c].text = content.text
        /\ commit'[c].pc = "begin" =>
             /\ content.there /\ content.text # <<>> /\ content.text \in Texts
             /\ commit[c].pc = "prepare" /\ commit'[c].text = commit[c].text
             /\ commit'[c].new = Composed(content.text)
    BY <1>1, <1>5, GetIs, PrepareIs
  <2>2. ~Streaming
    BY <1>1, <2>1, AtWorkIs
  <2>3. ~Writing(c)' /\ commit'[c].pc # "idle"
    BY <2>1 DEF Writing
  <2>4. ASSUME commit'[c].pc = "begin", row[commit'[c].text].stage = "none"
        PROVE  Holds(commit'[c].new, TRUE)
    <3>1. commit[c].text \in Texts /\ (commit[c].text \in Drafted \/ stream.pc # "idle")
      BY <1>1, <2>1, <2>4, TextOf DEF NamedInv
    <3>2. OneRow
      BY <2>1, <2>4, <3>1, RowsAre
    <3>3. Once(target) /\ (NoRows => Fresh(target))
      BY <3>2 DEF TimesInv, Holds
    <3>4. Twice(Composed(content.text)) /\ (NoRows => Once(Composed(content.text)))
      BY <1>1, <2>1, <2>4, <3>3, ComposedIs
    <3> QED BY <2>1, <2>4, <3>4 DEF Holds
  <2>5. NamedInv'
    BY <2>1, <2>2, <2>3, EntersNamed
  <2> QED BY <2>1, <2>3, <2>4, <2>5, EntersTimes
<1>6. CASE Mark(c) \/ WriteMark(c) \/ DeleteContent(c)
  <2>1. /\ Enters(c) /\ commit[c].pc \in {"mark", "write", "delete"} /\ commit[c].pc # "idle"
        /\ commit'[c].pc \in {"threw", "write", "delete", "done"}
        /\ content' = content \/ content' = Gone
    BY <1>1, <1>6, MarkIs, WriteMarkIs, DeleteContentIs
  <2>2. ~Streaming
    BY <1>1, <2>1, AtWorkIs
  <2>3. ~Writing(c)' /\ commit'[c].pc \notin {"prepare", "begin", "idle"}
    BY <2>1 DEF Writing
  <2> QED BY <1>2, <2>1, <2>2, <2>3, EntersNamed, EntersTimes
<1> QED BY <1>3, <1>4, <1>5, <1>6

\* A step of the writer of a text leaves the names as they are.
LEMMA RunsNamed ==
    ASSUME CacheInv, NamedInv, NEW c \in Commits, NEW t \in Texts, Runs(c),
           t = commit[c].text, commit[c].pc = "begin" \/ Writing(c),
           \A u \in Texts \ {t} : row'[u] = row[u],
           commit'[c].pc \in {"journal", "replace", "finalize", "complete", "fail", "mark", "threw"}
    PROVE  NamedInv'
<1>1. /\ UNCHANGED <<content, stream>>
      /\ \A d \in Commits \ {c} : commit'[d] = commit[d]
      /\ commit'[c].pc # "threw" => commit'[c].text = commit[c].text
  BY DEF Runs, Others
<1>2. \A d \in Commits \ {c} : Writing(d)' <=> Writing(d)
  BY <1>1 DEF Writing
<1>3. Writing(c)' => commit'[c].text = t
  BY <1>1 DEF Writing
<1>4. Known(t)
  BY DEF Known
<1>5. \A u \in Texts : Known(u)' => Known(u)
  BY <1>1, <1>2, <1>3, <1>4 DEF Known
<1>6. \A u \in Texts : Possible(u)' <=> Possible(u)
  BY <1>1 DEF Possible
<1>7. \A d \in Commits : commit'[d].pc = "prepare" => commit[d].pc = "prepare" /\ commit'[d] = commit[d]
  BY <1>1
<1>8. commit'[c].pc # "idle"
  OBVIOUS
<1> QED BY <1>1, <1>5, <1>6, <1>7, <1>8 DEF NamedInv

\* What is written stands for the row that is there, or for the one that is opened.
LEMMA RunsTimes ==
    ASSUME CacheInv, NamedInv, TimesInv, NEW c \in Commits, NEW t \in Texts, Runs(c),
           t = commit[c].text, commit[c].pc = "begin" \/ Writing(c),
           \A u \in Texts \ {t} : row'[u] = row[u],
           commit'[c].pc \in {"journal", "replace", "finalize", "complete", "fail", "mark", "threw"},
           commit'[c].pc = "journal" => commit[c].pc = "begin",
           row[t].stage # "none" => row'[t].stage # "none" /\ row'[t].new = row[t].new,
           row[t].stage = "none" /\ row'[t].stage # "none" =>
               commit[c].pc = "journal" /\ row'[t].new = commit[c].new,
           target' = target \/ (row[t].stage # "none" /\ target' = row[t].new)
    PROVE  TimesInv'
<1>1. /\ \A d \in Commits \ {c} : commit'[d] = commit[d]
      /\ commit'[c].pc # "threw" =>
           commit'[c].text = commit[c].text /\ commit'[c].new = commit[c].new
  BY DEF Runs, Others
<1>2. /\ NoRows' => NoRows /\ row'[t].stage = "none"
      /\ OneRow' => OneRow
      /\ OneRow' /\ row[t].stage = "none" /\ row'[t].stage # "none" => NoRows
  BY DEF NoRows, OneRow
<1>3. ASSUME NEW s, NEW new, Holds(s, new)
      PROVE  Holds(s, new)'
  BY <1>2, <1>3 DEF Holds, Once, Twice, Fresh, HasText
<1>4. ASSUME NEW s, Holds(s, TRUE), row[t].stage = "none", row'[t].stage # "none"
      PROVE  Holds(s, FALSE)'
  BY <1>2, <1>4 DEF Holds, Once, Twice, Fresh, HasText
<1>5. PICK s : s = target' /\ Holds(s, FALSE)
  BY DEF TimesInv
<1>6. Holds(target, FALSE)'
  BY <1>2, <1>5 DEF Holds, Once, Twice, Fresh, HasText
<1>7. ASSUME NEW u \in Texts, row'[u].stage # "none"
      PROVE  Holds(row[u].new, FALSE)'
  <2>1. CASE row[u].stage # "none"
    <3>1. row'[u].new = row[u].new /\ Holds(row[u].new, FALSE)
      BY <1>7, <2>1 DEF TimesInv
    <3> QED BY <1>2, <3>1 DEF Holds, Once, Twice, Fresh, HasText
  <2>2. CASE row[u].stage = "none"
    <3>1. u = t /\ commit[c].pc = "journal" /\ row'[u].new = commit[c].new
      BY <1>7, <2>2
    <3>2. Holds(commit[c].new, TRUE)
      BY <2>2, <3>1 DEF TimesInv
    <3> QED BY <1>2, <1>7, <2>2, <3>1, <3>2 DEF Holds, Once, Twice, Fresh, HasText
  <2> QED BY <2>1, <2>2
<1>8. ASSUME NEW d \in Commits, commit'[d].pc \in {"begin", "journal"},
             row'[commit'[d].text].stage = "none"
      PROVE  Holds(commit[d].new, TRUE)'
  <2>1. /\ commit[d].pc \in {"begin", "journal"} /\ commit'[d].new = commit[d].new
        /\ commit'[d].text = commit[d].text
    BY <1>1, <1>8
  <2>2. row[commit[d].text].stage = "none"
    <3>1. commit[d].text \in Texts
      BY DEF CacheInv, Shape, Calls
    <3> QED BY <1>8, <2>1, <3>1
  <2>3. Holds(commit[d].new, TRUE)
    BY <2>1, <2>2 DEF TimesInv
  <2> QED BY <1>2, <2>1, <2>3 DEF Holds, Once, Twice, Fresh, HasText
<1> QED BY <1>6, <1>7, <1>8 DEF TimesInv

LEMMA BeginTimes ==
    ASSUME CacheInv, NamedInv, TimesInv, NEW c \in Commits, Begin(c)
    PROVE  NamedInv' /\ TimesInv'
<1> DEFINE t == commit[c].text
<1>1. Shape /\ t \in Texts
  BY TextOf DEF CacheInv
<1>2. /\ Runs(c) /\ UNCHANGED <<target, row>> /\ commit[c].pc = "begin"
      /\ commit'[c].pc \in {"journal", "threw", "mark"}
  BY <1>1, BeginIs
<1> QED BY <1>1, <1>2, RunsNamed, RunsTimes

\* The row of the text is opened, or found as it was left.
LEMMA JournalTimes ==
    ASSUME CacheInv, NamedInv, TimesInv, NEW c \in Commits, Journal(c)
    PROVE  NamedInv' /\ TimesInv'
<1> DEFINE t == commit[c].text
<1>1. Shape /\ t \in Texts
  BY TextOf DEF CacheInv
<1>2. /\ Runs(c) /\ UNCHANGED target /\ commit[c].pc = "journal"
      /\ commit'[c].pc \in {"replace", "complete", "fail"}
      /\ \E r \in Rows : /\ row' = [row EXCEPT ![t] = r] /\ r.stage # "none"
                         /\ \/ row[t].stage = "none" /\ r.new = commit[c].new
                            \/ row[t].stage # "none" /\ r.new = row[t].new
  BY <1>1, JournalIs
<1> HIDE DEF t
<1>3. PICK r \in Rows : /\ row' = [row EXCEPT ![t] = r] /\ r.stage # "none"
                        /\ \/ row[t].stage = "none" /\ r.new = commit[c].new
                           \/ row[t].stage # "none" /\ r.new = row[t].new
  BY <1>2
<1>4. Writing(c)
  BY <1>2 DEF Writing
<1>5. row'[t] = r /\ \A u \in Texts \ {t} : row'[u] = row[u]
  BY <1>1, <1>3 DEF Shape
<1> QED BY <1>1, <1>2, <1>3, <1>4, <1>5, RunsNamed, RunsTimes DEF t

LEMMA RunTimes ==
    ASSUME CacheInv, NamedInv, TimesInv, NEW c \in Commits,
           Replace(c) \/ Finalize(c) \/ Complete(c) \/ FailRun(c)
    PROVE  NamedInv' /\ TimesInv'
<1> DEFINE t == commit[c].text
<1>1. Shape /\ RunInv /\ t \in Texts /\ row[t] \in Rows
  BY TextOf DEF CacheInv
<1>2. /\ Runs(c) /\ Writing(c)
      /\ commit'[c].pc \in {"finalize", "fail", "complete", "mark", "threw"}
      /\ target' = target \/ (commit[c].pc = "replace" /\ target' = row[t].new)
      /\ \/ UNCHANGED row
         \/ \E r \in Rows : /\ row' = [row EXCEPT ![t] = r] /\ commit[c].pc \in {"replace", "finalize"}
                            /\ r.stage # "none" /\ r.new = row[t].new
  BY <1>1, ReplaceIs, FinalizeIs, SettleRunIs DEF Writing
<1> HIDE DEF t
<1>3. commit[c].pc \in {"replace", "finalize"} => row[t].stage # "none"
  BY <1>1 DEF RunInv, t
<1>4. /\ row'[t].new = row[t].new /\ (row'[t].stage = "none" <=> row[t].stage = "none")
      /\ \A u \in Texts \ {t} : row'[u] = row[u]
  BY <1>1, <1>2, <1>3 DEF Shape
<1> QED BY <1>1, <1>2, <1>3, <1>4, RunsNamed, RunsTimes DEF t

LEMMA StreamTimes ==
    ASSUME CacheInv, NamedInv, TimesInv, StartStream \/ Stream
    PROVE  NamedInv' /\ TimesInv'
<1>1. /\ \A c \in Commits : commit[c].pc = "idle"
      /\ UNCHANGED <<target, row, commit>> /\ stream'.pc # "idle"
  <2>1. CASE StartStream
    BY <2>1, StartStreamIs DEF CacheInv
  <2>2. CASE Stream
    <3>1. Flows
      BY <2>2, StreamIs DEF CacheInv
    <3> QED BY <3>1 DEF Flows, CacheInv, StreamInv
  <2> QED BY <2>1, <2>2
<1>2. NoRows /\ NoRows'
  BY <1>1 DEF NamedInv, NoRows
<1>3. \A t \in Texts : ~Known(t)'
  BY <1>1, <1>2 DEF Known, NoRows, Writing
<1>4. NamedInv'
  BY <1>1, <1>2, <1>3 DEF NamedInv
<1>5. TimesInv'
  BY <1>1, <1>2 DEF TimesInv, Holds, Once, Twice, Fresh, HasText, NoRows, OneRow
<1> QED BY <1>4, <1>5

\* The content is deleted, and every call goes on.
LEMMA GoneNamed ==
    ASSUME NamedInv, UNCHANGED <<row, stream, commit>>, content' = content \/ content' = Gone
    PROVE  NamedInv'
<1>1. content' = content \/ (~content'.there /\ content'.text = <<>>)
  BY DEF Gone
<1>2. \A t \in Texts : (Known(t)' <=> Known(t)) /\ (Possible(t) => Possible(t)')
  BY <1>1 DEF Known, Writing, Possible
<1>3. NoRows' <=> NoRows
  BY DEF NoRows
<1>4. stream.pc = "idle" => content'.text \in Drafted
  BY <1>1 DEF NamedInv, Drafted
<1>5. \A c \in Commits : commit[c].pc = "prepare" =>
        IF stream.pc = "idle" THEN commit[c].text \in Drafted
                              ELSE content'.there => content'.text = commit[c].text
  BY <1>1 DEF NamedInv
<1> QED BY <1>2, <1>3, <1>4, <1>5 DEF NamedInv

LEMMA SameTimes ==
    ASSUME TimesInv, UNCHANGED <<row, commit>>,
           Once(target) => Once(target'), Twice(target) => Twice(target'),
           Fresh(target) => Fresh(target')
    PROVE  TimesInv'
<1>1. (NoRows' <=> NoRows) /\ (OneRow' <=> OneRow)
  BY DEF NoRows, OneRow
<1>2. PICK s : s = target' /\ Holds(s, FALSE)
  BY DEF TimesInv, Holds
<1>3. Holds(target, FALSE)'
  BY <1>1, <1>2 DEF Holds, Once, Twice, Fresh, HasText
<1>4. \A t \in Texts : row[t].stage # "none" => Holds(row[t].new, FALSE)'
  BY <1>1 DEF TimesInv, Holds, Once, Twice, Fresh, HasText
<1>5. \A c \in Commits :
        commit[c].pc \in {"begin", "journal"} /\ row[commit[c].text].stage = "none" =>
            Holds(commit[c].new, TRUE)'
  BY <1>1 DEF TimesInv, Holds, Once, Twice, Fresh, HasText
<1> QED BY <1>3, <1>4, <1>5 DEF TimesInv

LEMMA RestTimes ==
    ASSUME CacheInv, NamedInv, TimesInv,
           DiscardReads \/ DiscardDeletes \/ DiscardWrites \/ CleanupExpired \/ Edit \/ Launch
    PROVE  NamedInv' /\ TimesInv'
<1>1. Shape
  BY DEF CacheInv
<1>2. UNCHANGED <<row, stream, commit>> /\ (content' = content \/ content' = Gone)
  BY <1>1, DiscardIs, CleanupIs, EditIs, LaunchIs
<1>3. target' = target \/ target' = Append(target, Edited)
  BY <1>1, DiscardIs, CleanupIs, EditIs, LaunchIs
<1>4. /\ Once(target) => Once(Append(target, Edited))
      /\ Twice(target) => Twice(Append(target, Edited))
      /\ Fresh(target) => Fresh(Append(target, Edited))
  BY <1>1, AddedIs, PiecesAre DEF Shape
<1>5. /\ Once(target) => Once(target')
      /\ Twice(target) => Twice(target')
      /\ Fresh(target) => Fresh(target')
  BY <1>3, <1>4
<1> QED BY <1>2, <1>5, GoneNamed, SameTimes

LEMMA CrashTimes ==
    ASSUME CacheInv, NamedInv, TimesInv, Crash
    PROVE  NamedInv' /\ TimesInv'
<1>1. /\ stream' = stream \/ stream'.pc = "over"
      /\ stream'.pc = "idle" <=> stream.pc = "idle"
      /\ \A c \in Commits : \/ AtWork(c) /\ commit'[c].pc = "lost"
                            \/ ~AtWork(c) /\ commit'[c] = commit[c]
      /\ UNCHANGED <<content, target, row>>
  BY CrashIs DEF CacheInv
<1>2. \A c \in Commits : /\ ~AtWork(c)' /\ ~Writing(c)'
                         /\ commit'[c].pc \notin {"prepare", "begin", "journal"}
                         /\ commit'[c].pc = "idle" => commit[c].pc = "idle"
  BY <1>1 DEF AtWork, Writing
<1>3. \A t \in Texts : Known(t)' => Known(t)
  BY <1>1, <1>2 DEF Known
<1>4. \A t \in Texts : Possible(t) => Possible(t)'
  BY <1>1 DEF Possible
<1>5. (NoRows' <=> NoRows) /\ (OneRow' <=> OneRow)
  BY <1>1 DEF NoRows, OneRow
<1>6. NamedInv'
  BY <1>1, <1>2, <1>3, <1>4, <1>5 DEF NamedInv
<1>7. TimesInv'
  BY <1>1, <1>2, <1>5 DEF TimesInv, Holds, Once, Twice, Fresh, HasText
<1> QED BY <1>6, <1>7

LEMMA TimesNext ==
    ASSUME CacheInv, NamedInv, TimesInv, [Next]_vars
    PROVE  NamedInv' /\ TimesInv'
<1>1. CASE \E c \in Commits : Start(c) \/ Commit(c)
  <2>1. PICK c \in Commits : Start(c) \/ Commit(c)
    BY <1>1
  <2> QED BY <2>1, EntryTimes, BeginTimes, JournalTimes, RunTimes DEF Commit
<1>2. CASE StartStream \/ Stream
  BY <1>2, StreamTimes
<1>3. CASE DiscardReads \/ DiscardDeletes \/ DiscardWrites \/ CleanupExpired \/ Edit \/ Launch
  BY <1>3, RestTimes
<1>4. CASE Crash
  BY <1>4, CrashTimes
<1>5. CASE UNCHANGED vars
  <2>1. UNCHANGED <<row, stream, commit, content, target>>
    BY <1>5 DEF vars
  <2> QED BY <2>1, GoneNamed, SameTimes
<1> QED BY <1>1, <1>2, <1>3, <1>4, <1>5 DEF Next

LEMMA TimesInit == Init => NamedInv /\ TimesInv
<1> SUFFICES ASSUME Init PROVE NamedInv /\ TimesInv
  OBVIOUS
<1>1. /\ stream.pc = "idle" /\ content.text = <<>> /\ target = <<Original>>
      /\ \A c \in Commits : commit[c].pc = "idle"
  BY DEF Init, NoStream, NoCall, Gone
<1>2. NoRows
  BY DEF Init, NoRow, NoRows
<1>3. NamedInv
  BY <1>1, <1>2 DEF NamedInv, Known, Writing, NoRows, Drafted
<1>4. Fresh(target) /\ Once(target) /\ Twice(target)
  BY <1>1, PiecesAre DEF Fresh, HasText, Once, Twice
<1> QED BY <1>1, <1>2, <1>3, <1>4 DEF TimesInv, Holds, NoRows

\* Every time the text is written it has a row of its own, and a text has the row
\* of the whole draft or that of the entry before it was filled.
THEOREM TimesInvariance == Spec => [](CacheInv /\ NamedInv /\ TimesInv)
<1>1. Init => CacheInv /\ NamedInv /\ TimesInv
  BY InitIs, TimesInit
<1>2. CacheInv /\ NamedInv /\ TimesInv /\ [Next]_vars => (CacheInv /\ NamedInv /\ TimesInv)'
  BY NextInv, TimesNext
<1> QED BY <1>1, <1>2, PTL DEF Spec

LEMMA CopiesCounted ==
    /\ Once(target) => Cardinality(Copies) <= 1
    /\ Twice(target) => Cardinality(Copies) <= 2
<1>1. CASE Copies = {}
  <2>1. Cardinality(Copies) = 0
    BY <1>1, FS_EmptySet
  <2> QED BY <2>1
<1>2. CASE \E i : Copies = {i}
  <2>1. PICK i : Copies = {i}
    BY <1>2
  <2>2. Cardinality(Copies) = 1
    BY <2>1, FS_Singleton
  <2> QED BY <2>2
<1>3. ASSUME NEW i \in Copies, NEW j \in Copies, i # j
      PROVE  ~Once(target) /\ (Twice(target) => Cardinality(Copies) <= 2)
  <2>1. ~Once(target)
    BY <1>3 DEF Once, Copies
  <2>2. ASSUME Twice(target)
        PROVE  Cardinality(Copies) <= 2
    <3>1. Copies = {i} \cup {j}
      BY <1>3, <2>2 DEF Twice, Copies
    <3>2. IsFiniteSet({i}) /\ Cardinality({i}) = 1 /\ j \notin {i}
      BY <1>3, FS_Singleton
    <3>3. Cardinality({i} \cup {j}) = Cardinality({i}) + 1
      BY <3>2, FS_AddElement
    <3> QED BY <3>1, <3>2, <3>3
  <2> QED BY <2>1, <2>2
<1> QED BY <1>1, <1>2, <1>3

\* However often a text is confirmed, also when calls for the same draft overlap,
\* and however commits, crashes, launches and edits follow each other: the
\* document holds the text once, and twice only if a call has read the entry of a
\* draft before it was filled.
THEOREM WrittenOnceAlways == Spec => []WrittenOnce
<1>1. CacheInv /\ NamedInv /\ TimesInv => WrittenOnce
  <2> SUFFICES ASSUME CacheInv, NamedInv, TimesInv PROVE WrittenOnce
    OBVIOUS
  <2>1. Twice(target) /\ (OneRow => Once(target))
    BY DEF TimesInv, Holds
  <2>2. row[<<>>].stage = "none" => OneRow
    <3>1. <<>> \in Texts /\ <<>> \in Drafted
      BY WholeIsText DEF Drafted
    <3> QED BY <3>1, RowsAre
  <2> QED BY <2>1, <2>2, CopiesCounted DEF WrittenOnce
<1> QED BY <1>1, TimesInvariance, PTL

=============================================================================
