--------------------------- MODULE CanaryTrialProofs ---------------------------
(***************************************************************************)
(* Proofs about CanaryTrial, for every set of trials and exposure units,   *)
(* every assignment of arms and every plan.                                *)
(*                                                                         *)
(* TrialInv keeps what the loops know: a loop has a selection only from    *)
(* the slot it read until its end, and at its prompt it was composed from  *)
(* the profile of the selected arm, unless the scope moved on since or the *)
(* prompt was built again while the plugin was read as disabled.  A        *)
(* selection that the recording transaction finds again was not overtaken, *)
(* so what is recorded is of the arm it names.  Receipts never change, so  *)
(* the window of a reduction stays on record; its signal and the verdict   *)
(* on it are functions of the window, and the mean that the verdict        *)
(* compares is counted over the pairs of units by a bijection.             *)
(***************************************************************************)
EXTENDS CanaryTrial, FiniteSetTheorems, TLAPS

-----------------------------------------------------------------------------
(* The types *)

Mode == {"normal", "bypass"}
View == [revision : Nat, profile : Profile, mode : Mode, at : Nat]
Pick == [trial : Trial, arm : Arm, revision : Nat, slot : Nat]
At   == {"start", "read", "selected", "answer", "done"}
Loop == [at : At, run : Nat, view : View, pick : Pick \cup {None}, ran : Profile \cup Plain]

TypeOK ==
    /\ scope \in [revision : Nat, profile : Profile, mode : Mode]
    /\ slot \in [revision : Nat, trial : Trial \cup {None}, since : Nat]
    /\ now \in Nat
    /\ trial \in [Trial -> TrialRecord \cup {None}]
    /\ withdrawn \subseteq Trial
    /\ receipt \in [Unit -> Exposure \cup {None}]
    /\ observed \in [Unit -> Observed \cup {None}]
    /\ DOMAIN reduction = Key /\ DOMAIN conclusion = Trial
    /\ loop \in [Unit -> Loop]

\* The trial in the slot was written.
Held == slot.trial # None => slot.trial \in Trial /\ trial[slot.trial] # None

\* A loop has a selection from the slot it read until its end, and at its prompt what was
\* composed is the profile of the arm that was selected, unless the scope moved on or the
\* prompt was built again with the plugin disabled.
Composes(u) ==
    LET pick == loop[u].pick IN
    /\ loop[u].at \in {"start", "read", "done"} => pick = None
    /\ loop[u].at = "answer" /\ pick # None =>
          /\ pick.revision <= scope.revision
          /\ pick.revision = scope.revision => loop[u].ran \in {Composed(pick), "disabled"}

\* A receipt is of a trial that was written, under the arm that was assigned.
Assigns(u) ==
    receipt[u] # None =>
        /\ receipt[u].trial \in Trial /\ trial[receipt[u].trial] # None
        /\ receipt[u] = Assigned(receipt[u].trial, u)

\* A reduction is of exposures on record.
Reduces(k) ==
    LET r == reduction[k] IN
    r # None =>
        /\ r.trial \in Trial
        /\ r.facts \in [DOMAIN r.facts -> Fact]
        /\ DOMAIN r.facts \subseteq Exposures(r.trial)
        /\ Cardinality(DOMAIN r.facts) = Horizon
        /\ r.signal = Signal(DOMAIN r.facts, r.facts, r.trial)

Concluded(t) == conclusion[t] # None => conclusion[t].verdict = Verdict(conclusion[t].signal)

TrialInv ==
    /\ TypeOK /\ Held /\ ExposureIsOfItsArm
    /\ \A u \in Unit : Composes(u) /\ Assigns(u)
    /\ \A k \in Key : Reduces(k)
    /\ \A t \in Trial : Concluded(t)

\* What a selection is of: the trial in the slot, at the scope that was read.
LEMMA Selected ==
    ASSUME TypeOK, NEW v, v.revision \in Nat, NEW u \in Unit, NEW at
    PROVE  LET pick == Selection(v, slot, u, at) IN
           \/ pick = None
           \/ /\ pick \in Pick
              /\ slot.trial \in Trial
              /\ pick = [trial |-> slot.trial, arm |-> ArmOf[slot.trial][u],
                         revision |-> v.revision, slot |-> slot.revision]
              /\ trial[slot.trial].revision = v.revision
              /\ trial[slot.trial].incumbent = v.profile
              /\ receipt[u] \in {None, Assigned(slot.trial, u)}
<1> DEFINE pick == Selection(v, slot, u, at)
<1> SUFFICES ASSUME pick # None
             PROVE  /\ pick \in Pick
                    /\ slot.trial \in Trial
                    /\ pick = [trial |-> slot.trial, arm |-> ArmOf[slot.trial][u],
                               revision |-> v.revision, slot |-> slot.revision]
                    /\ trial[slot.trial].revision = v.revision
                    /\ trial[slot.trial].incumbent = v.profile
                    /\ receipt[u] \in {None, Assigned(slot.trial, u)}
  OBVIOUS
<1>1. /\ slot.trial # None
      /\ trial[slot.trial].revision = v.revision
      /\ trial[slot.trial].incumbent = v.profile
      /\ receipt[u] \in {None, Assigned(slot.trial, u)}
      /\ pick = [trial |-> slot.trial, arm |-> ArmOf[slot.trial][u],
                 revision |-> v.revision, slot |-> slot.revision]
  BY DEF Selection
<1>2. slot.trial \in Trial /\ slot.revision \in Nat
  BY <1>1 DEF TypeOK
<1>3. ArmOf[slot.trial][u] \in Arm
  BY <1>2, UnitAssumption
<1> QED
  BY <1>1, <1>2, <1>3 DEF Pick

\* What a loop that is answered and still selected was composed for.
LEMMA Answered ==
    ASSUME TypeOK, NEW u \in Unit, StillSelected(u)
    PROVE  LET pick == loop[u].pick IN
           /\ pick \in Pick /\ pick.trial = slot.trial /\ slot.trial \in Trial
           /\ pick.arm = ArmOf[slot.trial][u]
           /\ pick.revision = scope.revision
           /\ trial[slot.trial].revision = scope.revision
           /\ trial[slot.trial].incumbent = scope.profile
           /\ receipt[u] \in {None, Assigned(slot.trial, u)}
<1> DEFINE v == [revision |-> scope.revision, profile |-> scope.profile, mode |-> scope.mode]
<1>1. v.revision = scope.revision /\ v.profile = scope.profile /\ scope.revision \in Nat
  BY DEF TypeOK
<1>2. loop[u].pick # None /\ Selection(v, slot, u, now) = loop[u].pick
  BY DEF StillSelected
<1> HIDE DEF v
<1> QED
  BY <1>1, <1>2, Selected

\* Everything but the loops and what they record.
Around == <<scope, slot, now, trial, withdrawn, reduction, conclusion>>

\* A step of a loop is of that loop alone.
Becomes(u, at, run, view, pick, ran) ==
    loop' = [loop EXCEPT ![u] = [at |-> at, run |-> run, view |-> view, pick |-> pick, ran |-> ran]]

\* Changing fields of a loop one by one is to give it these.
LEMMA LoopFields ==
    ASSUME TypeOK, NEW u \in Unit
    PROVE  /\ \A ran : loop' = [loop EXCEPT ![u].ran = ran] =>
                 Becomes(u, loop[u].at, loop[u].run, loop[u].view, loop[u].pick, ran)
           /\ \A at, ran : loop' = [loop EXCEPT ![u].at = at, ![u].ran = ran] =>
                 Becomes(u, at, loop[u].run, loop[u].view, loop[u].pick, ran)
           /\ \A at, view : loop' = [loop EXCEPT ![u].at = at, ![u].view = view] =>
                 Becomes(u, at, loop[u].run, view, loop[u].pick, loop[u].ran)
           /\ \A at, view, pick :
                 loop' = [loop EXCEPT ![u].at = at, ![u].view = view, ![u].pick = pick] =>
                 Becomes(u, at, loop[u].run, view, pick, loop[u].ran)
           /\ \A at, pick, ran :
                 loop' = [loop EXCEPT ![u].at = at, ![u].pick = pick, ![u].ran = ran] =>
                 Becomes(u, at, loop[u].run, loop[u].view, pick, ran)
<1>1. loop[u] = [at |-> loop[u].at, run |-> loop[u].run, view |-> loop[u].view,
                 pick |-> loop[u].pick, ran |-> loop[u].ran]
  BY DEF TypeOK, Loop
<1>2. DOMAIN loop = Unit
  BY DEF TypeOK
<1>3. \A ran : loop' = [loop EXCEPT ![u].ran = ran] =>
         Becomes(u, loop[u].at, loop[u].run, loop[u].view, loop[u].pick, ran)
  BY <1>1, <1>2 DEF Becomes
<1>4. \A at, ran : loop' = [loop EXCEPT ![u].at = at, ![u].ran = ran] =>
         Becomes(u, at, loop[u].run, loop[u].view, loop[u].pick, ran)
  BY <1>1, <1>2 DEF Becomes
<1>5. \A at, view : loop' = [loop EXCEPT ![u].at = at, ![u].view = view] =>
         Becomes(u, at, loop[u].run, view, loop[u].pick, loop[u].ran)
  BY <1>1, <1>2 DEF Becomes
<1>6. \A at, view, pick :
         loop' = [loop EXCEPT ![u].at = at, ![u].view = view, ![u].pick = pick] =>
         Becomes(u, at, loop[u].run, view, pick, loop[u].ran)
  BY <1>1, <1>2 DEF Becomes
<1>7. \A at, pick, ran :
         loop' = [loop EXCEPT ![u].at = at, ![u].pick = pick, ![u].ran = ran] =>
         Becomes(u, at, loop[u].run, loop[u].view, pick, ran)
  BY <1>1, <1>2 DEF Becomes
<1> QED
  BY <1>3, <1>4, <1>5, <1>6, <1>7

LEMMA BecomesTyped ==
    ASSUME TypeOK, NEW u \in Unit, NEW at \in At, NEW run \in Nat, NEW view \in View,
           NEW pick \in Pick \cup {None}, NEW ran \in Profile \cup Plain,
           Becomes(u, at, run, view, pick, ran)
    PROVE  /\ loop' \in [Unit -> Loop]
           /\ loop'[u].at = at /\ loop'[u].pick = pick /\ loop'[u].ran = ran
           /\ \A v \in Unit \ {u} : loop'[v] = loop[v]
<1> DEFINE l == [at |-> at, run |-> run, view |-> view, pick |-> pick, ran |-> ran]
<1>1. l \in Loop /\ l.at = at /\ l.pick = pick /\ l.ran = ran
  BY DEF Loop
<1>2. loop \in [Unit -> Loop] /\ loop' = [loop EXCEPT ![u] = l]
  BY DEF TypeOK, Becomes
<1> HIDE DEF l
<1> QED
  BY <1>1, <1>2

\* A loop that drops its selection.
LEMMA BecomesEmpty ==
    ASSUME TypeOK, NEW u \in Unit, NEW at \in At, NEW run \in Nat, NEW view \in View,
           Becomes(u, at, run, view, None, None)
    PROVE  /\ loop' \in [Unit -> Loop]
           /\ loop'[u].at = at /\ loop'[u].pick = None
           /\ \A v \in Unit \ {u} : loop'[v] = loop[v]
<1> DEFINE l == [at |-> at, run |-> run, view |-> view, pick |-> None, ran |-> None]
<1>1. l \in Loop /\ l.at = at /\ l.pick = None
  BY DEF Loop, Profile
<1>2. loop \in [Unit -> Loop] /\ loop' = [loop EXCEPT ![u] = l]
  BY DEF TypeOK, Becomes
<1> HIDE DEF l
<1> QED
  BY <1>1, <1>2

\* What a step of a loop does that records nothing: where the loop stands next.
Goes(u) ==
    /\ UNCHANGED Around /\ UNCHANGED <<receipt, observed>>
    /\ loop' \in [Unit -> Loop]
    /\ \A v \in Unit \ {u} : loop'[v] = loop[v]
    /\ Composes(u)'

LEMMA Silent ==
    ASSUME TypeOK, NEW u \in Unit, Composes(u),
           \/ ReadScope(u) \/ Unreadable(u) \/ ReadSlot(u) \/ Compose(u)
           \/ Rebuild(u) \/ RebuildDisabled(u) \/ EndOrdinary(u) \/ Rerun(u)
    PROVE  Goes(u)
<1> USE DEF Around
<1>0. loop[u] \in Loop /\ loop[u].run \in Nat /\ loop[u].view \in View
      /\ loop[u].pick \in Pick \cup {None} /\ loop[u].ran \in Profile \cup Plain
  BY DEF TypeOK, Loop
<1>n. None \in Profile /\ None \in Pick \cup {None} /\ NoView \in View
      /\ "start" \in At /\ "read" \in At /\ "selected" \in At
      /\ "answer" \in At /\ "done" \in At
      /\ "unread" \in Plain /\ "disabled" \in Plain
  BY DEF Profile, NoView, View, Mode, At, Plain
<1>1. CASE ReadScope(u)
  <2> DEFINE view == [revision |-> scope.revision, profile |-> scope.profile,
                      mode |-> scope.mode, at |-> now]
  <2>1. view \in View
    BY DEF TypeOK, View
  <2> HIDE DEF view
  <2>2. Becomes(u, "read", loop[u].run, view, loop[u].pick, loop[u].ran)
    BY <1>1, LoopFields DEF ReadScope, view
  <2>3. /\ loop' \in [Unit -> Loop]
        /\ loop'[u].at = "read" /\ loop'[u].pick = loop[u].pick
        /\ \A v \in Unit \ {u} : loop'[v] = loop[v]
    BY <1>0, <1>n, <2>1, <2>2, BecomesTyped
  <2>4. loop[u].pick = None
    BY <1>1 DEF ReadScope, Composes
  <2> QED
    BY <1>1, <2>3, <2>4 DEF ReadScope, Goes, Composes
<1>2. CASE Unreadable(u)
  <2> DEFINE ran == Prompt(loop[u].pick, "unread")
  <2>0. ran \in Profile \cup Plain
    BY <1>n DEF Prompt
  <2>1. Becomes(u, "answer", loop[u].run, loop[u].view, loop[u].pick, ran)
    BY <1>2, LoopFields DEF Unreadable
  <2> HIDE DEF ran
  <2>2. /\ loop' \in [Unit -> Loop]
        /\ loop'[u].at = "answer" /\ loop'[u].pick = loop[u].pick
        /\ \A v \in Unit \ {u} : loop'[v] = loop[v]
    BY <1>0, <1>n, <2>0, <2>1, BecomesTyped
  <2>3. loop[u].pick = None
    BY <1>2 DEF Unreadable, Composes
  <2> QED
    BY <1>2, <2>2, <2>3 DEF Unreadable, Goes, Composes
<1>3. CASE ReadSlot(u)
  <2> DEFINE pick == Selection(loop[u].view, slot, u, loop[u].view.at)
  <2>1. pick \in Pick \cup {None}
    BY <1>0, Selected DEF View
  <2>2. Becomes(u, "selected", loop[u].run, NoView, pick, loop[u].ran)
    BY <1>3, LoopFields DEF ReadSlot
  <2> HIDE DEF pick
  <2>3. /\ loop' \in [Unit -> Loop]
        /\ loop'[u].at = "selected"
        /\ \A v \in Unit \ {u} : loop'[v] = loop[v]
    BY <1>0, <1>n, <2>1, <2>2, BecomesTyped
  <2> QED
    BY <1>3, <2>3 DEF ReadSlot, Goes, Composes
<1>4. CASE Compose(u)
  <2> DEFINE kept == IF Applies(loop[u].pick) THEN loop[u].pick ELSE None
  <2>1. kept \in Pick \cup {None} /\ (kept # None => kept.revision = scope.revision)
    BY <1>0 DEF Applies
  <2> DEFINE ran == Prompt(kept, Composed(kept))
  <2>2. loop' = [loop EXCEPT ![u].at = "answer", ![u].pick = kept, ![u].ran = ran]
    BY <1>4 DEF Compose
  <2> HIDE DEF kept
  <2>3. ran \in Profile \cup Plain /\ (kept # None => ran = Composed(kept))
    BY <1>n, <2>1 DEF Prompt, Composed, Pick, Profile, TypeOK
  <2> HIDE DEF ran
  <2>4. Becomes(u, "answer", loop[u].run, loop[u].view, kept, ran)
    BY <2>2, LoopFields
  <2>5. /\ loop' \in [Unit -> Loop]
        /\ loop'[u].at = "answer" /\ loop'[u].pick = kept /\ loop'[u].ran = ran
        /\ \A v \in Unit \ {u} : loop'[v] = loop[v]
    BY <1>0, <1>n, <2>1, <2>3, <2>4, BecomesTyped
  <2>6. UNCHANGED Around /\ UNCHANGED <<receipt, observed>>
    BY <1>4 DEF Compose
  <2>7. Composes(u)'
    BY <2>1, <2>3, <2>5, <2>6 DEF Composes, Composed, TypeOK
  <2> QED
    BY <2>5, <2>6, <2>7 DEF Goes
<1>5. CASE Rebuild(u)
  <2>1. Becomes(u, "start", loop[u].run, loop[u].view, None, None)
    BY <1>5, LoopFields DEF Rebuild, Popped
  <2>2. /\ loop' \in [Unit -> Loop]
        /\ loop'[u].at = "start" /\ loop'[u].pick = None
        /\ \A v \in Unit \ {u} : loop'[v] = loop[v]
    BY <1>0, <1>n, <2>1, BecomesEmpty
  <2> QED
    BY <1>5, <2>2 DEF Rebuild, Goes, Composes
<1>6. CASE EndOrdinary(u)
  <2>1. Becomes(u, "done", loop[u].run, loop[u].view, None, None)
    BY <1>6, LoopFields DEF EndOrdinary
  <2>2. /\ loop' \in [Unit -> Loop]
        /\ loop'[u].at = "done" /\ loop'[u].pick = None
        /\ \A v \in Unit \ {u} : loop'[v] = loop[v]
    BY <1>0, <1>n, <2>1, BecomesEmpty
  <2> QED
    BY <1>6, <2>2 DEF EndOrdinary, Goes, Composes
<1>7. CASE Rerun(u)
  <2>1. [Fresh EXCEPT !.run = loop[u].run + 1] =
          [at |-> "start", run |-> loop[u].run + 1, view |-> NoView, pick |-> None, ran |-> None]
    BY DEF Fresh
  <2>2. Becomes(u, "start", loop[u].run + 1, NoView, None, None)
    BY <1>7, <2>1 DEF Rerun, Becomes
  <2>3. /\ loop' \in [Unit -> Loop]
        /\ loop'[u].at = "start" /\ loop'[u].pick = None
        /\ \A v \in Unit \ {u} : loop'[v] = loop[v]
    BY <1>0, <1>n, <2>2, BecomesEmpty
  <2> QED
    BY <1>7, <2>3 DEF Rerun, Goes, Composes
<1>8. CASE RebuildDisabled(u)
  <2>1. Becomes(u, "answer", loop[u].run, loop[u].view, loop[u].pick, "disabled")
    BY <1>8, LoopFields DEF RebuildDisabled
  <2>2. /\ loop' \in [Unit -> Loop]
        /\ loop'[u].at = "answer" /\ loop'[u].pick = loop[u].pick /\ loop'[u].ran = "disabled"
        /\ \A v \in Unit \ {u} : loop'[v] = loop[v]
    BY <1>0, <1>n, <2>1, BecomesTyped
  <2>3. UNCHANGED Around /\ UNCHANGED <<receipt, observed>> /\ loop[u].at = "answer"
    BY <1>8 DEF RebuildDisabled
  <2>4. Composes(u)'
    BY <2>2, <2>3 DEF Composes
  <2> QED
    BY <2>2, <2>3, <2>4 DEF Goes
<1> QED
  BY <1>1, <1>2, <1>3, <1>4, <1>5, <1>6, <1>7, <1>8

\* What a step of a loop does that records an exposure: it is of the arm of the trial in
\* the slot, and beside it stands the profile that was composed for that arm, or none.
Exposes(u) ==
    LET t == slot.trial
        r == Assigned(t, u)
        o == Observation(u)
    IN
    /\ t \in Trial /\ trial[t] # None /\ r \in Exposure /\ o \in Observed
    /\ receipt[u] \in {None, r}
    /\ receipt' = [receipt EXCEPT ![u] = r] /\ observed' = [observed EXCEPT ![u] = o]
    /\ o.profile \in {IF r.arm = "candidate" THEN t ELSE trial[t].incumbent, "disabled"}

Records(u) ==
    /\ UNCHANGED Around
    /\ loop' \in [Unit -> Loop]
    /\ \A v \in Unit \ {u} : loop'[v] = loop[v]
    /\ Composes(u)'
    /\ Exposes(u)

LEMMA Recorded ==
    ASSUME TypeOK, Held, NEW u \in Unit, Composes(u), Record(u)
    PROVE  Records(u)
<1> USE DEF Around
<1>a. loop[u] \in Loop /\ loop[u].run \in Nat /\ loop[u].view \in View
      /\ loop[u].pick \in Pick \cup {None} /\ loop[u].ran \in Profile \cup Plain
  BY DEF TypeOK, Loop
<1>b. None \in Profile /\ None \in Pick \cup {None} /\ "done" \in At
  BY DEF Profile, At
<1> DEFINE t == slot.trial
           r == Assigned(t, u)
           o == Observation(u)
<1>1. /\ t \in Trial /\ loop[u].pick.trial = t /\ loop[u].pick \in Pick
      /\ loop[u].pick.arm = ArmOf[t][u] /\ loop[u].pick.revision = scope.revision
      /\ trial[t].revision = scope.revision /\ trial[t].incumbent = scope.profile
      /\ receipt[u] \in {None, r}
  BY Answered DEF Record
<1>2. trial[t] # None /\ loop[u].pick # None /\ loop[u].at = "answer"
  BY <1>1, NoneAssumption DEF Held, Record, StillSelected
<1>3. r \in Exposure
  BY <1>1, UnitAssumption DEF Assigned, Exposure, TypeOK
<1>4. o \in Observed
  BY <1>a DEF Observation, Observed
<1>5. o.profile \in {IF r.arm = "candidate" THEN t ELSE trial[t].incumbent, "disabled"}
  <2>1. loop[u].ran \in {Composed(loop[u].pick), "disabled"}
    BY <1>1, <1>2 DEF Composes, TypeOK
  <2> QED
    BY <1>1, <1>2, <2>1 DEF Composed, Observation, Assigned
<1>6. /\ receipt' = [receipt EXCEPT ![u] = r] /\ observed' = [observed EXCEPT ![u] = o]
  BY <1>1 DEF Record
<1>7. Exposes(u)
  BY <1>1, <1>2, <1>3, <1>4, <1>5, <1>6 DEF Exposes
<1>8. Becomes(u, "done", loop[u].run, loop[u].view, None, None)
  BY LoopFields DEF Record
<1>9. /\ loop' \in [Unit -> Loop]
      /\ loop'[u].at = "done" /\ loop'[u].pick = None
      /\ \A v \in Unit \ {u} : loop'[v] = loop[v]
  BY <1>a, <1>b, <1>8, BecomesEmpty
<1>10. UNCHANGED Around
  BY DEF Record
<1> QED
  BY <1>a, <1>7, <1>9, <1>10 DEF Records, Composes

-----------------------------------------------------------------------------
(* What the other steps do *)

\* A trial that was written stays, and the scope moves on by revisions.
TrialsKeep == \A t \in Trial : trial[t] # None => trial'[t] = trial[t]
ScopeKeeps == scope' = scope \/ scope'.revision > scope.revision

\* Steps around the loops: of authority, the clock, a reduction and a conclusion.
Apart == UNCHANGED <<receipt, observed, loop>>

AuthorityTyped ==
    /\ scope' \in [revision : Nat, profile : Profile, mode : Mode]
    /\ slot' \in [revision : Nat, trial : Trial \cup {None}, since : Nat]
    /\ now' \in Nat
    /\ trial' \in [Trial -> TrialRecord \cup {None}]
    /\ withdrawn' \subseteq Trial

Moves ==
    /\ Apart /\ AuthorityTyped /\ TrialsKeep /\ ScopeKeeps /\ Held'
    /\ DOMAIN reduction' = Key /\ DOMAIN conclusion' = Trial

LEMMA AuthorityMoves ==
    ASSUME TypeOK, Held,
           \/ Tick
           \/ \E t \in Trial : Start(t) \/ Withdraw(t)
           \/ \E p \in Profile, m \in Mode : Transition(p, m)
    PROVE  Moves /\ UNCHANGED <<reduction, conclusion>>
<1> USE DEF Moves, Apart, TrialsKeep, ScopeKeeps, AuthorityTyped
<1>1. CASE Tick
  BY <1>1 DEF Tick, TypeOK, Held
<1>2. ASSUME NEW t \in Trial, Start(t) PROVE Moves /\ UNCHANGED <<reduction, conclusion>>
  <2> DEFINE r == [revision |-> scope.revision, incumbent |-> scope.profile]
  <2>1. r \in TrialRecord /\ r # None
    BY NoneAssumption DEF TypeOK, TrialRecord
  <2>2. trial' = [trial EXCEPT ![t] = r] /\ trial[t] = None
    BY <1>2 DEF Start
  <2> HIDE DEF r
  <2>3. trial' \in [Trial -> TrialRecord \cup {None}] /\ trial'[t] # None /\ TrialsKeep
    BY <2>1, <2>2 DEF TypeOK
  <2>4. slot' = [revision |-> slot.revision + 1, trial |-> t, since |-> now]
    BY <1>2 DEF Start
  <2>5. slot' \in [revision : Nat, trial : Trial \cup {None}, since : Nat] /\ slot'.trial = t
    BY <2>4 DEF TypeOK
  <2>6. UNCHANGED <<scope, now, withdrawn, receipt, observed, reduction, conclusion, loop>>
    BY <1>2 DEF Start
  <2> QED
    BY <2>3, <2>5, <2>6 DEF TypeOK, Held
<1>3. ASSUME NEW t \in Trial, Withdraw(t) PROVE Moves /\ UNCHANGED <<reduction, conclusion>>
  BY <1>3 DEF Withdraw, TypeOK, Held
<1>4. ASSUME NEW p \in Profile, NEW m \in Mode, Transition(p, m)
      PROVE  Moves /\ UNCHANGED <<reduction, conclusion>>
  <2>1. scope' = [revision |-> scope.revision + 1, profile |-> p, mode |-> m]
    BY <1>4 DEF Transition
  <2>2. scope' \in [revision : Nat, profile : Profile, mode : Mode] /\ ScopeKeeps
    BY <2>1 DEF TypeOK
  <2>3. /\ slot' \in [revision : Nat, trial : Trial \cup {None}, since : Nat]
        /\ slot'.trial = None
    BY <1>4 DEF Transition, TypeOK
  <2>4. UNCHANGED <<now, trial, withdrawn, receipt, observed, reduction, conclusion, loop>>
    BY <1>4 DEF Transition
  <2> QED
    BY <2>2, <2>3, <2>4 DEF TypeOK, Held
<1> QED
  BY <1>1, <1>2, <1>3, <1>4

\* A reduction is filed under its key, with what it says of its window.
LEMMA ReduceFiles ==
    ASSUME TypeOK, Held, NEW t \in Trial, NEW k \in Key, NEW w \in Windows(t),
           NEW f \in CertifiedFacts(w), Reduce(t, k, w, f)
    PROVE  /\ Moves /\ UNCHANGED conclusion
           /\ reduction' = [reduction EXCEPT ![k] = ReductionReceipt(w, f, t)]
BY DEF Reduce, Moves, Apart, TrialsKeep, ScopeKeeps, AuthorityTyped, TypeOK, Held

\* A conclusion is the verdict on its signal.
LEMMA ConcludeFiles ==
    ASSUME TypeOK, Held, NEW t \in Trial, NEW s, Conclude(t, s)
    PROVE  /\ Moves /\ UNCHANGED reduction
           /\ conclusion' = [conclusion EXCEPT ![t] = [verdict |-> Verdict(s), signal |-> s]]
<1>1. slot' = [revision |-> slot.revision + 1, trial |-> None, since |-> now]
  BY DEF Conclude, ClearedSlot
<1>2. /\ slot' \in [revision : Nat, trial : Trial \cup {None}, since : Nat]
      /\ slot'.trial = None
  BY <1>1 DEF TypeOK
<1>3. UNCHANGED <<scope, now, trial, withdrawn, receipt, observed, reduction, loop>>
  BY DEF Conclude
<1>4. conclusion' = [conclusion EXCEPT ![t] = [verdict |-> Verdict(s), signal |-> s]]
  BY DEF Conclude
<1> QED
  BY <1>2, <1>3, <1>4 DEF Moves, Apart, TrialsKeep, ScopeKeeps, AuthorityTyped, TypeOK, Held

\* Every step is one of these.
LEMMA Steps ==
    ASSUME TypeOK, Held, \A u \in Unit : Composes(u), [Next]_vars
    PROVE  \/ UNCHANGED vars
           \/ Moves /\ UNCHANGED <<reduction, conclusion>>
           \/ \E t \in Trial, k \in Key : \E w \in Windows(t) : \E f \in CertifiedFacts(w) :
                 /\ Moves /\ UNCHANGED conclusion
                 /\ reduction' = [reduction EXCEPT ![k] = ReductionReceipt(w, f, t)]
           \/ \E t \in Trial : \E s \in Requests(t) :
                 /\ Moves /\ UNCHANGED reduction
                 /\ conclusion' = [conclusion EXCEPT ![t] = [verdict |-> Verdict(s), signal |-> s]]
           \/ \E u \in Unit : Goes(u) \/ Records(u)
<1>1. ASSUME NEW u \in Unit, LoopStep(u) PROVE Goes(u) \/ Records(u)
  BY <1>1, Silent, Recorded DEF LoopStep
<1>2. ASSUME NEW t \in Trial, NEW s \in Requests(t), Conclude(t, s)
      PROVE  /\ Moves /\ UNCHANGED reduction
             /\ conclusion' = [conclusion EXCEPT ![t] = [verdict |-> Verdict(s), signal |-> s]]
  BY <1>2, ConcludeFiles
<1>3. ASSUME NEW t \in Trial, NEW k \in Key, NEW w \in Windows(t), NEW f \in CertifiedFacts(w),
             Reduce(t, k, w, f)
      PROVE  /\ Moves /\ UNCHANGED conclusion
             /\ reduction' = [reduction EXCEPT ![k] = ReductionReceipt(w, f, t)]
  BY <1>3, ReduceFiles
<1>4. ASSUME \/ Tick
             \/ \E t \in Trial : Start(t) \/ Withdraw(t)
             \/ Transition(None, "bypass")
             \/ \E p \in Profile : Transition(p, "normal")
      PROVE  Moves /\ UNCHANGED <<reduction, conclusion>>
  BY <1>4, AuthorityMoves DEF Mode, Profile
<1> QED
  BY <1>1, <1>2, <1>3, <1>4 DEF Next

-----------------------------------------------------------------------------
(* The invariant *)

\* The reductions and conclusions a step may file.
FilesReduction ==
    \E t \in Trial, k \in Key : \E w \in Windows(t) : \E f \in CertifiedFacts(w) :
       reduction' = [reduction EXCEPT ![k] = ReductionReceipt(w, f, t)]

FilesConclusion ==
    \E t \in Trial : \E s \in Requests(t) :
       conclusion' = [conclusion EXCEPT ![t] = [verdict |-> Verdict(s), signal |-> s]]

\* The same steps, by what they may change of the receipts, reductions and conclusions.
LEMMA Changes ==
    ASSUME TypeOK, Held, \A u \in Unit : Composes(u), [Next]_vars
    PROVE  /\ \/ UNCHANGED vars \/ Moves \/ \E u \in Unit : Goes(u) \/ Records(u)
           /\ UNCHANGED reduction \/ FilesReduction
           /\ UNCHANGED conclusion \/ FilesConclusion
<1>1. CASE UNCHANGED vars
  BY <1>1 DEF vars
<1>2. CASE Moves /\ UNCHANGED <<reduction, conclusion>>
  BY <1>2
<1>3. CASE \E t \in Trial, k \in Key : \E w \in Windows(t) : \E f \in CertifiedFacts(w) :
              /\ Moves /\ UNCHANGED conclusion
              /\ reduction' = [reduction EXCEPT ![k] = ReductionReceipt(w, f, t)]
  BY <1>3 DEF FilesReduction
<1>4. CASE \E t \in Trial : \E s \in Requests(t) :
              /\ Moves /\ UNCHANGED reduction
              /\ conclusion' = [conclusion EXCEPT ![t] = [verdict |-> Verdict(s), signal |-> s]]
  BY <1>4 DEF FilesConclusion
<1>5. CASE \E u \in Unit : Goes(u) \/ Records(u)
  BY <1>5 DEF Goes, Records, Around
<1> QED
  BY <1>1, <1>2, <1>3, <1>4, <1>5, Steps

\* What was recorded stays.
RecordsKeep ==
    \A u \in Unit : receipt[u] # None => receipt'[u] = receipt[u]

LEMMA Keeps ==
    ASSUME TypeOK, \/ UNCHANGED vars \/ Moves \/ \E u \in Unit : Goes(u) \/ Records(u)
    PROVE  TrialsKeep /\ ScopeKeeps /\ RecordsKeep
<1> USE DEF TrialsKeep, ScopeKeeps, RecordsKeep
<1>1. CASE UNCHANGED vars
  BY <1>1 DEF vars
<1>2. CASE Moves
  BY <1>2 DEF Moves, Apart
<1>3. ASSUME NEW u \in Unit, Goes(u) PROVE TrialsKeep /\ ScopeKeeps /\ RecordsKeep
  BY <1>3 DEF Goes, Around
<1>4. ASSUME NEW u \in Unit, Records(u) PROVE TrialsKeep /\ ScopeKeeps /\ RecordsKeep
  <2>1. TrialsKeep /\ ScopeKeeps
    BY <1>4 DEF Records, Around
  <2> QED
    BY <1>4, <2>1 DEF Records, Exposes, TypeOK
<1> QED
  BY <1>1, <1>2, <1>3, <1>4

LEMMA TypeStays ==
    ASSUME TypeOK, Held, \A u \in Unit : Composes(u), [Next]_vars
    PROVE  TypeOK' /\ Held'
<1>1. DOMAIN reduction' = Key /\ DOMAIN conclusion' = Trial
  BY Changes DEF FilesReduction, FilesConclusion, TypeOK
<1>2. CASE UNCHANGED vars
  BY <1>2 DEF vars, TypeOK, Held
<1>3. CASE Moves
  BY <1>3 DEF Moves, Apart, AuthorityTyped, TypeOK
<1>4. ASSUME NEW u \in Unit, Goes(u) PROVE TypeOK' /\ Held'
  BY <1>1, <1>4 DEF Goes, Around, TypeOK, Held
<1>5. ASSUME NEW u \in Unit, Records(u) PROVE TypeOK' /\ Held'
  <2>1. receipt' \in [Unit -> Exposure \cup {None}] /\ observed' \in [Unit -> Observed \cup {None}]
    BY <1>5 DEF Records, Exposes, TypeOK
  <2> QED
    BY <1>1, <1>5, <2>1 DEF Records, Around, TypeOK, Held
<1> QED
  BY <1>2, <1>3, <1>4, <1>5, Changes DEF vars

LEMMA ComposesStays ==
    ASSUME TypeOK, TypeOK', NEW u \in Unit, Composes(u), loop'[u] = loop[u], ScopeKeeps
    PROVE  Composes(u)'
<1>1. loop[u].pick # None => loop[u].pick.revision \in Nat
  BY DEF TypeOK, Loop, Pick
<1>2. scope.revision \in Nat /\ scope'.revision \in Nat
  BY DEF TypeOK
<1>3. CASE scope' = scope
  BY <1>3 DEF Composes, Composed
<1>4. CASE scope'.revision > scope.revision
  BY <1>1, <1>2, <1>4 DEF Composes
<1> QED
  BY <1>3, <1>4 DEF ScopeKeeps

LEMMA LoopsStay ==
    ASSUME TypeOK, Held, \A u \in Unit : Composes(u), [Next]_vars
    PROVE  \A u \in Unit : Composes(u)'
<1>1. TypeOK' /\ ScopeKeeps
  BY TypeStays, Changes, Keeps
<1>2. CASE UNCHANGED loop
  BY <1>1, <1>2, ComposesStays
<1>3. ASSUME NEW u \in Unit, Goes(u) \/ Records(u), NEW v \in Unit
      PROVE  Composes(v)'
  <2>1. CASE v = u
    BY <1>3, <2>1 DEF Goes, Records
  <2>2. CASE v # u
    BY <1>1, <1>3, <2>2, ComposesStays DEF Goes, Records
  <2> QED
    BY <2>1, <2>2
<1> QED
  BY <1>2, <1>3, Changes DEF vars, Moves, Apart

\* Receipts stay true of the trials they name.
LEMMA ReceiptsStay ==
    ASSUME TypeOK, TypeOK', ExposureIsOfItsArm, \A u \in Unit : Assigns(u),
           TrialsKeep, RecordsKeep, NEW v \in Unit, receipt'[v] = receipt[v],
           observed'[v] = observed[v]
    PROVE  /\ Assigns(v)'
           /\ receipt'[v] # None <=> observed'[v] # None
           /\ receipt'[v] # None => observed'[v].profile \in {ProfileOf(receipt[v])', "disabled"}
<1>1. CASE receipt[v] = None
  BY <1>1 DEF Assigns, ExposureIsOfItsArm
<1>2. CASE receipt[v] # None
  <2>1. /\ receipt[v].trial \in Trial /\ trial[receipt[v].trial] # None
        /\ receipt[v] = Assigned(receipt[v].trial, v)
    BY <1>2 DEF Assigns
  <2>2. trial'[receipt[v].trial] = trial[receipt[v].trial]
    BY <2>1 DEF TrialsKeep
  <2>3. Assigns(v)'
    BY <2>1, <2>2 DEF Assigns, Assigned
  <2>4. observed[v] # None /\ observed[v].profile \in {ProfileOf(receipt[v]), "disabled"}
    BY <1>2 DEF ExposureIsOfItsArm
  <2>5. ProfileOf(receipt[v])' = ProfileOf(receipt[v])
    BY <2>2 DEF ProfileOf
  <2> QED
    BY <1>2, <2>3, <2>4, <2>5 DEF RecordsKeep
<1> QED
  BY <1>1, <1>2

LEMMA ExposuresStay ==
    ASSUME TrialInv, [Next]_vars
    PROVE  ExposureIsOfItsArm' /\ \A u \in Unit : Assigns(u)'
<1> DEFINE True(v) ==
             /\ Assigns(v)'
             /\ receipt'[v] # None <=> observed'[v] # None
             /\ receipt'[v] # None => observed'[v].profile \in {ProfileOf(receipt[v])', "disabled"}
<1>1. /\ TypeOK /\ TypeOK' /\ TrialsKeep /\ RecordsKeep
      /\ ExposureIsOfItsArm /\ \A u \in Unit : Assigns(u)
      /\ \/ UNCHANGED vars \/ Moves \/ \E u \in Unit : Goes(u) \/ Records(u)
  BY TypeStays, Changes, Keeps DEF TrialInv
<1>2. ASSUME NEW v \in Unit, receipt'[v] = receipt[v], observed'[v] = observed[v]
      PROVE  True(v)
  BY <1>1, <1>2, ReceiptsStay
<1>3. ASSUME NEW u \in Unit, Records(u), Exposes(u) PROVE True(u)
  <2> DEFINE t == slot.trial
             r == Assigned(t, u)
             o == Observation(u)
  <2>1. /\ t \in Trial /\ trial[t] # None /\ r \in Exposure /\ o \in Observed
        /\ receipt'[u] = r /\ observed'[u] = o
        /\ o.profile \in {IF r.arm = "candidate" THEN t ELSE trial[t].incumbent, "disabled"}
    BY <1>1, <1>3 DEF Exposes, TypeOK
  <2>2. r # None /\ o # None
    BY <2>1, NoneAssumption
  <2>3. trial' = trial
    BY <1>3 DEF Records, Around
  <2>4. r.trial = t
    BY DEF Assigned
  <2>5. r = Assigned(receipt[u].trial, u)'
    BY <2>1, <2>3, <2>4 DEF Assigned
  <2>6. Assigns(u)'
    BY <2>1, <2>3, <2>4, <2>5 DEF Assigns
  <2>7. o.profile \in {ProfileOf(receipt[u])', "disabled"}
    BY <2>1, <2>3, <2>4 DEF ProfileOf
  <2> QED
    BY <2>1, <2>2, <2>3, <2>4, <2>6, <2>7
<1>4. ASSUME NEW u \in Unit, Goes(u) \/ Records(u), NEW v \in Unit PROVE True(v)
  <2>1. CASE Records(u) /\ Exposes(u) /\ v = u
    BY <1>3, <2>1
  <2>2. CASE Exposes(u) /\ v # u
    BY <1>1, <1>2, <2>2 DEF Exposes, TypeOK
  <2>3. CASE UNCHANGED <<receipt, observed>>
    BY <1>2, <2>3
  <2> QED
    BY <1>4, <2>1, <2>2, <2>3 DEF Goes, Records
<1>5. \A v \in Unit : True(v)
  BY <1>1, <1>2, <1>4 DEF vars, Moves, Apart
<1> QED
  BY <1>5 DEF ExposureIsOfItsArm

LEMMA ReductionsStay ==
    ASSUME TrialInv, [Next]_vars
    PROVE  \A k \in Key : Reduces(k)'
<1>1. TypeOK /\ RecordsKeep /\ (UNCHANGED reduction \/ FilesReduction)
  BY Changes, Keeps DEF TrialInv
<1>2. \A t : Exposures(t) \subseteq Exposures(t)'
  BY <1>1 DEF RecordsKeep, Exposures
<1>3. ASSUME NEW k \in Key, reduction'[k] = reduction[k] PROVE Reduces(k)'
  <2>1. Reduces(k)
    BY DEF TrialInv
  <2> QED
    BY <1>2, <1>3, <2>1 DEF Reduces
<1>4. ASSUME NEW t \in Trial, NEW k \in Key, NEW w \in Windows(t), NEW f \in CertifiedFacts(w),
             reduction'[k] = ReductionReceipt(w, f, t)
      PROVE  Reduces(k)'
  <2>1. w \subseteq Exposures(t) /\ Cardinality(w) = Horizon /\ f \in [w -> Fact] /\ DOMAIN f = w
    BY DEF Windows, Closed, CertifiedFacts
  <2>2. /\ reduction'[k].trial = t /\ reduction'[k].facts = f
        /\ reduction'[k].signal = Signal(DOMAIN f, f, t)
    BY <1>4, <2>1 DEF ReductionReceipt
  <2>3. w \subseteq Exposures(t)'
    BY <1>2, <2>1
  <2> QED
    BY <2>1, <2>2, <2>3 DEF Reduces
<1>5. CASE FilesReduction
  <2>1. PICK t \in Trial, k \in Key : \E w \in Windows(t) : \E f \in CertifiedFacts(w) :
           reduction' = [reduction EXCEPT ![k] = ReductionReceipt(w, f, t)]
    BY <1>5 DEF FilesReduction
  <2>2. PICK w \in Windows(t) : \E f \in CertifiedFacts(w) :
           reduction' = [reduction EXCEPT ![k] = ReductionReceipt(w, f, t)]
    BY <2>1
  <2>3. PICK f \in CertifiedFacts(w) :
           reduction' = [reduction EXCEPT ![k] = ReductionReceipt(w, f, t)]
    BY <2>2
  <2>4. reduction'[k] = ReductionReceipt(w, f, t) /\ \A j \in Key \ {k} : reduction'[j] = reduction[j]
    BY <1>1, <2>3 DEF TypeOK
  <2> QED
    BY <1>3, <1>4, <2>4
<1> QED
  BY <1>1, <1>3, <1>5

LEMMA ConclusionsStay ==
    ASSUME TrialInv, [Next]_vars
    PROVE  \A t \in Trial : Concluded(t)'
<1>1. TypeOK /\ (UNCHANGED conclusion \/ FilesConclusion) /\ \A t \in Trial : Concluded(t)
  BY Changes DEF TrialInv
<1>2. CASE UNCHANGED conclusion
  BY <1>1, <1>2 DEF Concluded
<1>3. CASE FilesConclusion
  <2>1. PICK t \in Trial : \E s \in Requests(t) :
           conclusion' = [conclusion EXCEPT ![t] = [verdict |-> Verdict(s), signal |-> s]]
    BY <1>3 DEF FilesConclusion
  <2>2. PICK s \in Requests(t) :
           conclusion' = [conclusion EXCEPT ![t] = [verdict |-> Verdict(s), signal |-> s]]
    BY <2>1
  <2>3. /\ conclusion'[t].verdict = Verdict(s) /\ conclusion'[t].signal = s
        /\ \A u \in Trial \ {t} : conclusion'[u] = conclusion[u]
    BY <1>1, <2>2 DEF TypeOK
  <2> QED
    BY <1>1, <2>3 DEF Concluded
<1> QED
  BY <1>1, <1>2, <1>3

LEMMA InitInv == Init => TrialInv
<1> SUFFICES ASSUME Init PROVE TrialInv
  OBVIOUS
<1>1. Fresh \in Loop /\ Fresh.at = "start" /\ Fresh.pick = None
  BY DEF Fresh, Loop, At, NoView, View, Mode, Profile
<1>2. TypeOK
  BY <1>1 DEF Init, TypeOK, Mode, Profile
<1>3. Held /\ ExposureIsOfItsArm /\ \A u \in Unit : Composes(u) /\ Assigns(u)
  BY <1>1 DEF Init, Held, ExposureIsOfItsArm, Composes, Assigns
<1>4. (\A k \in Key : Reduces(k)) /\ \A t \in Trial : Concluded(t)
  BY DEF Init, Reduces, Concluded
<1> QED
  BY <1>2, <1>3, <1>4 DEF TrialInv

LEMMA NextInv == TrialInv /\ [Next]_vars => TrialInv'
<1> SUFFICES ASSUME TrialInv, [Next]_vars PROVE TrialInv'
  OBVIOUS
<1>1. TypeOK' /\ Held' /\ \A u \in Unit : Composes(u)'
  BY TypeStays, LoopsStay DEF TrialInv
<1> QED
  BY <1>1, ExposuresStay, ReductionsStay, ConclusionsStay DEF TrialInv

\* TrialInv is inductive (with Init and every step of Next).
THEOREM InvariantHolds == Spec => []TrialInv
  BY InitInv, NextInv, PTL DEF Spec

\* Receipt and canary observation exist together, and the prompt of the observed run was
\* composed from the profile the receipt stands for, or from none because the plugin was
\* read as disabled, whatever else happens between the reads of select_canary_runtime and
\* commit_canary_runtime_observation.
THEOREM ExposuresAreTrue == Spec => []ExposureIsOfItsArm
<1>1. TrialInv => ExposureIsOfItsArm
  BY DEF TrialInv
<1> QED
  BY <1>1, InvariantHolds, PTL

\* A trial without the slot neither gains nor loses an exposure: the transaction that
\* records selects again and writes for the trial it finds in the slot only.
THEOREM LateExposuresAreRefused == Spec => ExposuresEndWithTheTrial
<1>1. ASSUME TrialInv, [Next]_vars
      PROVE  [\A t \in Trial : trial[t] # None /\ slot.trial # t => Exposures(t)' = Exposures(t)]_vars
  <2>1. /\ TypeOK
        /\ \/ UNCHANGED vars \/ Moves \/ \E u \in Unit : Goes(u) \/ Records(u)
    BY <1>1, Changes DEF TrialInv
  <2>2. CASE UNCHANGED receipt
    BY <2>2 DEF Exposures
  <2>3. ASSUME NEW u \in Unit, Exposes(u), NEW t \in Trial, slot.trial # t
        PROVE  Exposures(t)' = Exposures(t)
    <3> DEFINE r == Assigned(slot.trial, u)
    <3>1. /\ r.trial = slot.trial /\ receipt[u] \in {None, r} /\ receipt' = [receipt EXCEPT ![u] = r]
      BY <2>3 DEF Exposes, Assigned
    <3>2. receipt'[u] = r /\ \A v \in Unit \ {u} : receipt'[v] = receipt[v]
      BY <2>1, <3>1 DEF TypeOK
    <3> HIDE DEF r
    <3> QED
      BY <2>3, <3>1, <3>2 DEF Exposures
  <2> QED
    BY <2>1, <2>2, <2>3 DEF vars, Moves, Apart, Goes, Records
<1> QED
  BY <1>1, InvariantHolds, PTL DEF Spec, ExposuresEndWithTheTrial

-----------------------------------------------------------------------------
(* Sums over pairs *)

LEMMA UnitsMembers ==
    ASSUME NEW f
    PROVE  /\ \A e \in Units(f) : /\ e = <<e[1], e[2]>> /\ e[1] \in DOMAIN f
                                 /\ e[2] \in 1 .. f[e[1]]
           /\ \A x \in DOMAIN f : \A n \in 1 .. f[x] : <<x, n>> \in Units(f)
<1>1. ASSUME NEW e \in Units(f)
      PROVE  e = <<e[1], e[2]>> /\ e[1] \in DOMAIN f /\ e[2] \in 1 .. f[e[1]]
  <2>1. PICK x \in DOMAIN f : e \in {x} \X (1 .. f[x])
    BY DEF Units
  <2>2. e = <<e[1], e[2]>> /\ e[1] = x /\ e[2] \in 1 .. f[x]
    BY <2>1
  <2> QED
    BY <2>2
<1>2. ASSUME NEW x \in DOMAIN f, NEW n \in 1 .. f[x] PROVE <<x, n>> \in Units(f)
  BY DEF Units
<1> QED
  BY <1>1, <1>2

\* The units of finitely many integers are finitely many.
LEMMA UnitsFinite ==
    ASSUME NEW S, IsFiniteSet(S), NEW f \in [S -> Int]
    PROVE  IsFiniteSet(Units(f)) /\ Cardinality(Units(f)) \in Nat
<1> DEFINE part == [x \in S |-> {x} \X (1 .. f[x])]
           T == {{x} \X (1 .. f[x]) : x \in S}
<1>1. part \in Surjection(S, T)
  BY DEF Surjection
<1>2. IsFiniteSet(T)
  BY <1>1, FS_Surjection DEF ExistsSurjection
<1>3. \A x \in S : IsFiniteSet({x} \X (1 .. f[x]))
  <2> TAKE x \in S
  <2>1. f[x] \in Int
    OBVIOUS
  <2>2. IsFiniteSet(1 .. f[x])
    BY <2>1, FS_Interval
  <2>3. IsFiniteSet({x})
    BY FS_Singleton
  <2> QED
    BY <2>2, <2>3, FS_Product
<1>4. Units(f) = UNION T
  BY DEF Units
<1> HIDE DEF T
<1>5. \A X \in T : IsFiniteSet(X)
  BY <1>3 DEF T
<1> QED
  BY <1>2, <1>4, <1>5, FS_UNION, FS_CardinalityType

\* Where each x in S stands for one place of D for each j in J, with the same value, D has
\* the units of S once for each j.
LEMMA UnitsOfPairs ==
    ASSUME NEW S, IsFiniteSet(S), NEW g \in [S -> Int], NEW J, IsFiniteSet(J),
           NEW D, NEW F, DOMAIN F = D, NEW pair \in Bijection(S \X J, D),
           \A x \in S, j \in J : F[pair[<<x, j>>]] = g[x]
    PROVE  Cardinality(Units(F)) = Cardinality(Units(g)) * Cardinality(J)
<1> DEFINE A == Units(g) \X J
           b == [e \in A |-> <<pair[<<e[1][1], e[2]>>], e[1][2]>>]
<1>1. IsFiniteSet(A) /\ Cardinality(A) = Cardinality(Units(g)) * Cardinality(J)
  BY UnitsFinite, FS_Product
<1>2. \A e \in Units(g) : e = <<e[1], e[2]>> /\ e[1] \in S /\ e[2] \in 1 .. g[e[1]]
  BY UnitsMembers
<1>3. \A x \in S : \A n \in 1 .. g[x] : <<x, n>> \in Units(g)
  BY UnitsMembers
<1>4. \A e \in Units(F) : e = <<e[1], e[2]>> /\ e[1] \in D /\ e[2] \in 1 .. F[e[1]]
  BY UnitsMembers
<1>5. \A d \in D : \A n \in 1 .. F[d] : <<d, n>> \in Units(F)
  BY UnitsMembers
<1>6. /\ \A p \in S \X J : pair[p] \in D
      /\ \A p, q \in S \X J : pair[p] = pair[q] => p = q
      /\ \A d \in D : \E p \in S \X J : pair[p] = d
  BY DEF Bijection, Injection, Surjection, IsInjective
<1>7. ASSUME NEW e \in A PROVE b[e] \in Units(F)
  <2>1. e[1] \in Units(g) /\ e[2] \in J
    OBVIOUS
  <2>2. e[1][1] \in S /\ e[1][2] \in 1 .. g[e[1][1]]
    BY <1>2, <2>1
  <2>3. /\ pair[<<e[1][1], e[2]>>] \in D
        /\ F[pair[<<e[1][1], e[2]>>]] = g[e[1][1]]
    BY <1>6, <2>1, <2>2
  <2> QED
    BY <1>5, <2>2, <2>3
<1>8. ASSUME NEW e \in A, NEW h \in A, b[e] = b[h] PROVE e = h
  <2>1. /\ e = <<e[1], e[2]>> /\ e[1] \in Units(g) /\ e[2] \in J
        /\ h = <<h[1], h[2]>> /\ h[1] \in Units(g) /\ h[2] \in J
    OBVIOUS
  <2>2. /\ e[1] = <<e[1][1], e[1][2]>> /\ e[1][1] \in S
        /\ h[1] = <<h[1][1], h[1][2]>> /\ h[1][1] \in S
    BY <1>2, <2>1
  <2>3. pair[<<e[1][1], e[2]>>] = pair[<<h[1][1], h[2]>>] /\ e[1][2] = h[1][2]
    BY <1>8
  <2>4. <<e[1][1], e[2]>> = <<h[1][1], h[2]>>
    BY <1>6, <2>1, <2>2, <2>3
  <2> QED
    BY <2>1, <2>2, <2>3, <2>4
<1>9. ASSUME NEW u \in Units(F) PROVE \E e \in A : b[e] = u
  <2>1. u = <<u[1], u[2]>> /\ u[1] \in D /\ u[2] \in 1 .. F[u[1]]
    BY <1>4
  <2>2. PICK p \in S \X J : pair[p] = u[1]
    BY <1>6, <2>1
  <2>3. p = <<p[1], p[2]>> /\ p[1] \in S /\ p[2] \in J
    OBVIOUS
  <2>4. F[u[1]] = g[p[1]]
    BY <2>2, <2>3
  <2>5. <<p[1], u[2]>> \in Units(g)
    BY <1>3, <2>1, <2>3, <2>4
  <2>6. <<<<p[1], u[2]>>, p[2]>> \in A
    BY <2>3, <2>5
  <2>7. b[<<<<p[1], u[2]>>, p[2]>>] = <<pair[<<p[1], p[2]>>], u[2]>>
    BY <2>6
  <2> QED
    BY <2>1, <2>2, <2>3, <2>6, <2>7
<1> HIDE DEF A
<1>10. b \in Bijection(A, Units(F))
  <2>1. b \in [A -> Units(F)]
    BY <1>7
  <2> HIDE DEF b
  <2> QED
    BY <1>8, <1>9, <2>1 DEF Bijection, Injection, Surjection, IsInjective
<1> QED
  BY <1>1, <1>10, FS_Bijection DEF ExistsBijection

LEMMA SumOfPairs ==
    ASSUME NEW S, IsFiniteSet(S), NEW g \in [S -> Int], NEW J, IsFiniteSet(J),
           NEW D, NEW F, DOMAIN F = D, NEW pair \in Bijection(S \X J, D),
           \A x \in S, j \in J : F[pair[<<x, j>>]] = g[x]
    PROVE  Sum(F) = Sum(g) * Cardinality(J) /\ Sum(g) \in Int
<1> DEFINE mg == [x \in DOMAIN g |-> -g[x]]
           mF == [d \in DOMAIN F |-> -F[d]]
<1>1. mg \in [S -> Int] /\ DOMAIN mF = D
  OBVIOUS
<1>2. \A x \in S, j \in J : mF[pair[<<x, j>>]] = mg[x]
  BY DEF Bijection, Injection
<1>3. Sum(F) = Cardinality(Units(F)) - Cardinality(Units(mF))
  BY DEF Sum
<1>4. Sum(g) = Cardinality(Units(g)) - Cardinality(Units(mg))
  BY DEF Sum
<1> HIDE DEF mg, mF
<1>5. Cardinality(Units(F)) = Cardinality(Units(g)) * Cardinality(J)
  BY UnitsOfPairs
<1>6. Cardinality(Units(mF)) = Cardinality(Units(mg)) * Cardinality(J)
  BY <1>1, <1>2, UnitsOfPairs
<1>7. Cardinality(Units(g)) \in Nat /\ Cardinality(Units(mg)) \in Nat /\ Cardinality(J) \in Nat
  BY <1>1, UnitsFinite, FS_CardinalityType
<1> QED
  BY <1>3, <1>4, <1>5, <1>6, <1>7

\* To be ahead over the pairs is to be ahead by the means, each multiplied by both counts.
LEMMA AheadByMeans ==
    ASSUME NEW c, IsFiniteSet(c), NEW i, IsFiniteSet(i), NEW facts,
           \A u \in c \cup i : facts[u].value \in Int
    PROVE  (Total(c, facts) * Cardinality(i) - Total(i, facts) * Cardinality(c)) * Benefit.den
              >= Benefit.num * (Cardinality(c) * Cardinality(i))
           => Ahead(c, i, facts)
<1> DEFINE D == c \X i
           gc == [u \in c |-> facts[u].value]
           gi == [u \in i |-> facts[u].value]
           L == [p \in c \X i |-> facts[p[1]].value]
           R == [p \in c \X i |-> facts[p[2]].value]
           same == [p \in c \X i |-> p]
           swap == [p \in i \X c |-> <<p[2], p[1]>>]
<1>1. same \in Bijection(c \X i, D) /\ \A x \in c, j \in i : L[same[<<x, j>>]] = gc[x]
  BY DEF Bijection, Injection, Surjection, IsInjective
<1>2. swap \in Bijection(i \X c, D) /\ \A x \in i, j \in c : R[swap[<<x, j>>]] = gi[x]
  <2>1. swap \in [i \X c -> D] /\ \A x \in i, j \in c : swap[<<x, j>>] = <<j, x>>
    OBVIOUS
  <2>2. \A d \in D : d = <<d[1], d[2]>> /\ d[1] \in c /\ d[2] \in i
    OBVIOUS
  <2>3. \A p \in i \X c : p = <<p[1], p[2]>> /\ p[1] \in i /\ p[2] \in c
    OBVIOUS
  <2>4. \A x \in i, j \in c : R[<<j, x>>] = gi[x]
    OBVIOUS
  <2> HIDE DEF swap, R, gi, D
  <2>5. \A d \in D : \E p \in i \X c : swap[p] = d
    <3> TAKE d \in D
    <3>1. <<d[2], d[1]>> \in i \X c /\ swap[<<d[2], d[1]>>] = <<d[1], d[2]>>
      BY <2>1, <2>2
    <3> QED
      BY <2>2, <3>1
  <2>6. \A p, q \in i \X c : swap[p] = swap[q] => p = q
    <3> TAKE p, q \in i \X c
    <3>1. swap[p] = <<p[2], p[1]>> /\ swap[q] = <<q[2], q[1]>>
      BY <2>1, <2>3
    <3> QED
      BY <2>3, <3>1
  <2>7. swap \in Bijection(i \X c, D)
    BY <2>1, <2>5, <2>6 DEF Bijection, Injection, Surjection, IsInjective
  <2> QED
    BY <2>1, <2>4, <2>7
<1>3. gc \in [c -> Int] /\ gi \in [i -> Int] /\ DOMAIN L = D /\ DOMAIN R = D
  OBVIOUS
<1>4. Total(c, facts) = Sum(gc) /\ Total(i, facts) = Sum(gi)
  BY DEF Total
<1> HIDE DEF D, gc, gi, L, R, same, swap
<1>5. Sum(L) = Sum(gc) * Cardinality(i) /\ Sum(gc) \in Int
  BY <1>1, <1>3, SumOfPairs
<1>6. Sum(R) = Sum(gi) * Cardinality(c) /\ Sum(gi) \in Int
  BY <1>2, <1>3, SumOfPairs
<1>7. Cardinality(c \X i) = Cardinality(c) * Cardinality(i)
  BY FS_Product
<1>8. Ahead(c, i, facts)
        = ((Sum(L) - Sum(R)) * Benefit.den >= Benefit.num * Cardinality(c \X i))
  BY DEF Ahead, L, R
<1> QED
  BY <1>4, <1>5, <1>6, <1>7, <1>8

\* A conclusion that passes on the signal of a reduction (plan_conclusion) rests on a full
\* horizon of exposures of its trial, still on record under the arms they were reduced
\* for, within the limits of the plan and ahead by its benefit.
THEOREM PassesAreEarned == Spec => []PassedOnEvidence
<1>1. ASSUME TrialInv PROVE PassedOnEvidence
  <2> USE <1>1
  <2> SUFFICES ASSUME NEW t \in Trial, NEW k \in Key,
                      conclusion[t] # None, conclusion[t].verdict = "passed",
                      reduction[k] # None, reduction[k].trial = t,
                      conclusion[t].signal = reduction[k].signal
               PROVE  LET f == reduction[k].facts
                          c == {u \in DOMAIN f : receipt[u].arm = "candidate" /\ f[u].comparable}
                          i == {u \in DOMAIN f : receipt[u].arm = "incumbent" /\ f[u].comparable}
                      IN /\ \A u \in DOMAIN f : receipt[u].trial = t /\ ~f[u].shared
                         /\ Cardinality(DOMAIN f) = Horizon
                         /\ Cardinality(c) >= MinComparable /\ Cardinality(i) >= MinComparable
                         /\ Cardinality({u \in DOMAIN f : receipt[u].arm = "candidate" /\ f[u].hard})
                               <= HardLimit
                         /\ Ahead(c, i, f)
    BY DEF PassedOnEvidence
  <2> DEFINE f == reduction[k].facts
             w == DOMAIN f
             c == {u \in w : receipt[u].arm = "candidate" /\ f[u].comparable}
             i == {u \in w : receipt[u].arm = "incumbent" /\ f[u].comparable}
             hard == {u \in w : receipt[u].arm = "candidate" /\ f[u].hard}
             s == Signal(w, f, t)
  <2>1. /\ f \in [w -> Fact] /\ w \subseteq Exposures(t) /\ Cardinality(w) = Horizon
        /\ reduction[k].signal = s
    BY DEF TrialInv, Reduces
  <2>2. Verdict(s) = "passed"
    BY <2>1 DEF TrialInv, Concluded
  <2>3. \A u \in w : u \in Unit /\ receipt[u] # None /\ receipt[u].trial = t
    BY <2>1 DEF Exposures
  <2>4. \A u \in w : receipt[u].arm = ArmOf[t][u]
    <3> TAKE u \in w
    <3>1. Assigns(u)
      BY <2>3 DEF TrialInv
    <3>2. receipt[u] = Assigned(t, u)
      BY <2>3, <3>1 DEF Assigns
    <3> QED
      BY <3>2 DEF Assigned
  <2>5. IsFiniteSet(w)
    BY <2>3, UnitAssumption, FS_Subset
  <2> HIDE DEF f, w
  <2>6. c = Comparable(w, f, t, "candidate") /\ i = Comparable(w, f, t, "incumbent")
    BY <2>4 DEF Comparable
  <2>7. Cardinality(hard) = HardFailures(w, f, t)
    <3>1. hard = {u \in w : ArmOf[t][u] = "candidate" /\ f[u].hard}
      BY <2>4
    <3> QED
      BY <3>1 DEF HardFailures
  <2> HIDE DEF c, i, hard
  <2>8. /\ s.exposures = Cardinality(w)
        /\ s.comparable = IF Cardinality(c) <= Cardinality(i) THEN Cardinality(c)
                          ELSE Cardinality(i)
        /\ s.num = Total(c, f) * Cardinality(i) - Total(i, f) * Cardinality(c)
        /\ s.den = Cardinality(c) * Cardinality(i)
        /\ s.hard = HardFailures(w, f, t)
        /\ s.shared = (\E u \in w : f[u].shared)
    BY <2>6 DEF Signal
  <2> HIDE DEF s
  <2>9. /\ IsFiniteSet(c) /\ IsFiniteSet(i) /\ IsFiniteSet(hard)
        /\ c \subseteq w /\ i \subseteq w
    BY <2>5, FS_Subset DEF c, i, hard
  <2>10. Cardinality(c) \in Nat /\ Cardinality(i) \in Nat /\ Cardinality(hard) \in Nat
    BY <2>9, FS_CardinalityType
  <2>11. /\ ~s.shared /\ ~(s.hard > HardLimit) /\ ~Underpowered(s)
         /\ s.num * Benefit.den >= Benefit.num * s.den
    BY <2>2 DEF Verdict
  <2>12. \A u \in w : receipt[u].trial = t /\ ~f[u].shared
    BY <2>3, <2>8, <2>11
  <2>13. Cardinality(c) >= MinComparable /\ Cardinality(i) >= MinComparable
    <3>1. ~(s.comparable < MinComparable)
      BY <2>11 DEF Underpowered
    <3> QED
      BY <2>8, <2>10, <3>1, PlanAssumption
  <2>14. Cardinality(hard) <= HardLimit
    BY <2>7, <2>8, <2>10, <2>11, PlanAssumption
  <2>15. Ahead(c, i, f)
    <3>1. \A u \in c \cup i : f[u].value \in Int
      BY <2>1, <2>9, FactAssumption DEF f, w
    <3>2. IsFiniteSet(c) /\ IsFiniteSet(i)
      BY <2>9
    <3>3. (Total(c, f) * Cardinality(i) - Total(i, f) * Cardinality(c)) * Benefit.den
             >= Benefit.num * (Cardinality(c) * Cardinality(i))
      BY <2>8, <2>11
    <3> QED
      BY <3>1, <3>2, <3>3, AheadByMeans
  <2> QED
    BY <2>1, <2>12, <2>13, <2>14, <2>15 DEF c, i, hard, f, w
<1> QED
  BY <1>1, InvariantHolds, PTL
=============================================================================
