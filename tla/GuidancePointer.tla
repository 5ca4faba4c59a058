-------------------------- MODULE GuidancePointer --------------------------
(***************************************************************************)
(* What the guidance pointer of a bucket promises whoever moves it: an     *)
(* operator at will, automation only from the version a trial was compared *)
(* with to the candidate, and back.  Rows, hooks, crashes and authority do *)
(* not appear.                                                             *)
(***************************************************************************)
EXTENDS Integers, Sequences

CONSTANTS Candidate, Older, NoVersion, NoTrial

VARIABLES history,   \* the moves made, [by, cand, version]
          baseline   \* the version each candidate is tried against

vars == <<history, baseline>>

InForce(n) == IF n = 0 THEN NoVersion ELSE history[n].version
Current == InForce(Len(history))

Moved(by, c, v) == history' = Append(history, [by |-> by, cand |-> c, version |-> v])
Done(by, c) == \E i \in DOMAIN history : history[i].by = by /\ history[i].cand = c

Init ==
    /\ history = <<>>
    /\ baseline = [c \in Candidate |-> NoTrial]

\* A trial begins, against the version in force.
Try(c) ==
    /\ baseline[c] = NoTrial
    /\ baseline' = [baseline EXCEPT ![c] = Current]
    /\ UNCHANGED history

Choose(v) == Moved("operator", NoVersion, v) /\ UNCHANGED baseline

\* The candidate takes the place of what it was tried against, once.
Promote(c) ==
    /\ baseline[c] = Current
    /\ ~Done("promotion", c)
    /\ Moved("promotion", c, c)
    /\ UNCHANGED baseline

\* The last move, which put the candidate in force, is undone, once.
Undo(c) ==
    /\ history # <<>> /\ Current = c
    /\ baseline[c] = InForce(Len(history) - 1)
    /\ ~Done("rollback", c)
    /\ Moved("rollback", c, baseline[c])
    /\ UNCHANGED baseline

Next ==
    \/ \E v \in Candidate \cup Older : Choose(v)
    \/ \E c \in Candidate : Try(c) \/ Promote(c) \/ Undo(c)

Spec == Init /\ [][Next]_vars
=============================================================================
