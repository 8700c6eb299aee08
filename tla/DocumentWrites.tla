--------------------------- MODULE DocumentWrites ---------------------------
(***************************************************************************)
(* What the commit journal promises to the runs that write a document and  *)
(* to its reader: the document is always a whole text somebody asked for,  *)
(* a write puts its text there at most once and only while it is under     *)
(* way, and one that answers has put it there or found it there.           *)
(***************************************************************************)
CONSTANTS Attempts, Texts, Original

VARIABLES
    doc,      \* the document
    phase,    \* "idle", "running", "ok" or "failed", of each write
    wanted,   \* the text each write asks for
    shown,    \* writes whose text the document has held since they began
    put       \* writes that have put their text there

vars == <<doc, phase, wanted, shown, put>>

Init ==
    /\ doc = Original
    /\ phase = [a \in Attempts |-> "idle"]
    /\ wanted = [a \in Attempts |-> Original]
    /\ shown = {} /\ put = {}

Running(t) == {a \in Attempts : phase[a] = "running" /\ wanted[a] = t}

Begin(a, t) ==
    /\ phase[a] = "idle"
    /\ phase' = [phase EXCEPT ![a] = "running"]
    /\ wanted' = [wanted EXCEPT ![a] = t]
    /\ shown' = IF doc = t THEN shown \cup {a} ELSE shown
    /\ UNCHANGED <<doc, put>>

Put(a) ==
    /\ phase[a] = "running" /\ a \notin put
    /\ doc' = wanted[a]
    /\ put' = put \cup {a}
    /\ shown' = shown \cup Running(wanted[a])
    /\ UNCHANGED <<phase, wanted>>

Edit(t) ==
    /\ doc' = t
    /\ shown' = shown \cup Running(t)
    /\ UNCHANGED <<phase, wanted, put>>

Answer(a) ==
    /\ phase[a] = "running" /\ a \in shown
    /\ phase' = [phase EXCEPT ![a] = "ok"]
    /\ UNCHANGED <<doc, wanted, shown, put>>

\* A write that fails, or dies with its process, may have put its text there.
Fail(a) ==
    /\ phase[a] = "running"
    /\ phase' = [phase EXCEPT ![a] = "failed"]
    /\ UNCHANGED <<doc, wanted, shown, put>>

Next ==
    \/ \E a \in Attempts : Put(a) \/ Answer(a) \/ Fail(a) \/ \E t \in Texts : Begin(a, t)
    \/ \E t \in Texts : Edit(t)

Spec == Init /\ [][Next]_vars
=============================================================================
