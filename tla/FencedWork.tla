----------------------------- MODULE FencedWork -----------------------------
(***************************************************************************)
(* What the work coordinator promises, without leases, instants, commands  *)
(* or budgets: work has an epoch that only grows, the right to publish is  *)
(* granted with a new epoch and lost with a larger one, and what is        *)
(* published is published once, by the holder, ending the work.            *)
(***************************************************************************)
EXTENDS Naturals

CONSTANT Work

VARIABLES
    epoch,    \* the fence of each work item
    holder,   \* the epoch granted the right to publish, 0 when there is none
    outcome,  \* "open", "published" or "abandoned"
    output    \* <<work, epoch>> of what was published

absVars == <<epoch, holder, outcome, output>>

FencedInit ==
    /\ epoch = [w \in Work |-> 0]
    /\ holder = [w \in Work |-> 0]
    /\ outcome = [w \in Work |-> "open"]
    /\ output = {}

Grant(w) ==
    /\ outcome[w] = "open"
    /\ holder[w] = 0
    /\ epoch' = [epoch EXCEPT ![w] = @ + 1]
    /\ holder' = [holder EXCEPT ![w] = epoch[w] + 1]
    /\ UNCHANGED <<outcome, output>>

\* The right to publish is withdrawn, or work nobody holds is stopped from being
\* granted under the epoch a caller saw.
Revoke(w) ==
    /\ outcome[w] = "open"
    /\ epoch' = [epoch EXCEPT ![w] = @ + 1]
    /\ holder' = [holder EXCEPT ![w] = 0]
    /\ UNCHANGED <<outcome, output>>

\* Only work nobody may still publish is given up.
Abandon(w) ==
    /\ outcome[w] = "open"
    /\ holder[w] = 0
    /\ outcome' = [outcome EXCEPT ![w] = "abandoned"]
    /\ \/ epoch' = epoch
       \/ epoch' = [epoch EXCEPT ![w] = @ + 1]
    /\ UNCHANGED <<holder, output>>

Publish(w) ==
    /\ outcome[w] = "open"
    /\ holder[w] # 0
    /\ outcome' = [outcome EXCEPT ![w] = "published"]
    /\ output' = output \cup {<<w, holder[w]>>}
    /\ holder' = [holder EXCEPT ![w] = 0]
    /\ UNCHANGED epoch

FencedNext == \E w \in Work : Grant(w) \/ Revoke(w) \/ Abandon(w) \/ Publish(w)

FencedSpec == FencedInit /\ [][FencedNext]_absVars
=============================================================================
