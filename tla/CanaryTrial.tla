----------------------------- MODULE CanaryTrial -----------------------------
(***************************************************************************)
(* A canary trial from the prompts it changes to the conclusion it ends    *)
(* in: the message loops of the extensions, which select an arm from reads *)
(* outside a transaction (helpers/v3/canary_runtime.py), compose a prompt  *)
(* from its profile (runtime_composer.py) and record the exposure when the *)
(* loop ends; the certified reduction of a window of exposures             *)
(* (canary_outcome_reducer.py); and the conclusion that clears the slot    *)
(* (canary_conclusion_repository.py).  Trials, transitions and calibration *)
(* withdrawals, which ActivationAuthority models, happen between any two   *)
(* steps.                                                                  *)
(*                                                                         *)
(* The candidate of a trial is the trial.  An exposure unit is one         *)
(* iteration of one message loop; its arm is a function of trial and unit, *)
(* as the keyed hash that assigns it is.  A plan has one bucket.           *)
(***************************************************************************)
EXTENDS Integers, FiniteSets

CONSTANTS
    Trial,         \* canary trials, and the candidates they try
    Unit,          \* exposure units
    ArmOf,         \* the arm the keyed hash assigns to a unit in a trial
    Key,           \* idempotency keys of reductions
    Fact,          \* certified outcomes a unit may have
    Horizon,       \* horizon_exposures of the plan
    MinComparable, \* minimum_comparable of the bucket
    HardLimit,     \* hard_veto_failure_limit
    Benefit,       \* [num, den], the larger of benefit_threshold and minus the margin
    Expiry,        \* expiry_seconds
    MaxClock, MaxRevision, MaxRestarts,   \* bounds
    MaxDisabled,   \* ... on prompts with a selection built again with the plugin disabled
    MaxOpen,       \* loops in progress at once: one, and those nested in its tools
    None

VARIABLES
    scope,       \* activation_scopes: revision, current profile, mode
    slot,        \* operation_slots of kind canary: revision, occupant, updated_at
    now,         \* the clock
    trial,       \* trial records
    withdrawn,   \* trials whose calibration was withdrawn
    receipt,     \* exposure receipts, by exposure unit
    observed,    \* canary runtime observations, by exposure unit
    reduction,   \* reduction receipts, by idempotency key
    conclusion,  \* conclusions
    loop         \* the message loop of a unit

vars == <<scope, slot, now, trial, withdrawn, receipt, observed, reduction,
          conclusion, loop>>

Arm     == {"candidate", "incumbent"}
Profile == Trial \cup {None}        \* None: the profile of Genesis

\* The prompt as Agent Zero made it, by the reason why no profile was added: a store that
\* could not be read, or a plugin that was read as disabled.
Plain == {"unread", "disabled"}

\* A trial record, an exposure receipt and a canary observation, of which None is none.
TrialRecord == [revision : Nat, incumbent : Profile]
Exposure    == [trial : Trial, arm : Arm, revision : Nat]
Observed    == [run : Nat, profile : Profile \cup Plain]

ASSUME NoneAssumption ==
    None \notin Trial \cup TrialRecord \cup Exposure \cup Observed \cup Plain
ASSUME PlainAssumption == Trial \cap Plain = {}
ASSUME UnitAssumption == IsFiniteSet(Unit) /\ ArmOf \in [Trial -> [Unit -> Arm]]
ASSUME FactAssumption ==
    Fact \subseteq [value : Int, comparable : BOOLEAN, hard : BOOLEAN, shared : BOOLEAN]
ASSUME PlanAssumption ==
    /\ Horizon \in Nat /\ MinComparable \in Nat /\ HardLimit \in Nat
    /\ Benefit \in [num : Int, den : Nat \ {0}]

\* What a loop keeps: the run of its unit (its log item), what it read, its selection
\* in params_temporary and, as history, the profile its prompt was composed from.
NoView == [revision |-> 0, profile |-> None, mode |-> "normal", at |-> 0]
Fresh  == [at |-> "start", run |-> 1, view |-> NoView, pick |-> None, ran |-> None]

Init ==
    /\ scope = [revision |-> 0, profile |-> None, mode |-> "normal"]
    /\ slot = [revision |-> 0, trial |-> None, since |-> 0]
    /\ now = 0
    /\ trial = [t \in Trial |-> None]
    /\ withdrawn = {}
    /\ receipt = [u \in Unit |-> None]
    /\ observed = [u \in Unit |-> None]
    /\ reduction = [k \in Key |-> None]
    /\ conclusion = [t \in Trial |-> None]
    /\ loop = [u \in Unit |-> Fresh]

\* The sum of the integers f[x], counted unit by unit.
Units(f) == UNION {{x} \X (1 .. f[x]) : x \in DOMAIN f}
Sum(f)   == Cardinality(Units(f)) - Cardinality(Units([x \in DOMAIN f |-> -f[x]]))

-----------------------------------------------------------------------------
(* The authority around a trial.                                           *)

\* CanaryCoordinator.plan_start and the transaction that claims the slot: the trial
\* is frozen at the current revision and incumbent.
Start(t) ==
    /\ trial[t] = None /\ slot.trial = None
    /\ trial' = [trial EXCEPT ![t] = [revision |-> scope.revision, incumbent |-> scope.profile]]
    /\ slot' = [revision |-> slot.revision + 1, trial |-> t, since |-> now]
    /\ UNCHANGED <<scope, now, withdrawn, receipt, observed, reduction, conclusion, loop>>

\* activate_candidate, rollback and Safety Bypass: the next revision with another
\* profile or mode, the slot cleared with it.
Transition(p, mode) ==
    /\ scope.revision < MaxRevision
    /\ scope' = [revision |-> scope.revision + 1, profile |-> p, mode |-> mode]
    /\ slot' = IF slot.trial = None THEN slot
               ELSE [revision |-> slot.revision + 1, trial |-> None, since |-> now]
    /\ UNCHANGED <<now, trial, withdrawn, receipt, observed, reduction, conclusion, loop>>

\* withdraw_policy_calibration, in the time it matters: while its trial holds the slot.
Withdraw(t) ==
    /\ slot.trial = t /\ t \notin withdrawn
    /\ withdrawn' = withdrawn \cup {t}
    /\ UNCHANGED <<scope, slot, now, trial, receipt, observed, reduction, conclusion, loop>>

Tick ==
    /\ now < MaxClock
    /\ now' = now + 1
    /\ UNCHANGED <<scope, slot, trial, withdrawn, receipt, observed, reduction, conclusion, loop>>

-----------------------------------------------------------------------------
(* The message loop.                                                       *)

\* CanaryCoordinator.plan_exposure.
Assigned(t, u) == [trial |-> t, arm |-> ArmOf[t][u], revision |-> trial[t].revision]

\* The trial in the slot, while it lasts.
Active(s, t, at) == at >= s.since /\ at < s.since + Expiry

\* select_canary_runtime, from one read of the scope and a later one of the slot: the
\* arm of the trial in the slot if it tries its candidate against this very scope and
\* the unit has no receipt of another trial; None is the incumbent.
Selection(v, s, u, at) ==
    IF /\ v.mode = "normal" /\ s.trial # None
       /\ trial[s.trial].revision = v.revision
       /\ trial[s.trial].incumbent = v.profile
       /\ Active(s, s.trial, at)
       /\ receipt[u] \in {None, Assigned(s.trial, u)}
    THEN [trial |-> s.trial, arm |-> ArmOf[s.trial][u], revision |-> v.revision, slot |-> s.revision]
    ELSE None

MayOpen == Cardinality({u \in Unit : loop[u].at \notin {"start", "done"}}) < MaxOpen

\* The prompt of the iteration is built: the reference time and the scope are read.
ReadScope(u) ==
    /\ loop[u].at = "start" /\ MayOpen
    /\ loop' = [loop EXCEPT ![u].at = "read",
                   ![u].view = [revision |-> scope.revision, profile |-> scope.profile,
                                mode |-> scope.mode, at |-> now]]
    /\ UNCHANGED <<scope, slot, now, trial, withdrawn, receipt, observed, reduction, conclusion>>

\* ... then the slot, the trial and the records it freezes.
ReadSlot(u) ==
    /\ loop[u].at = "read"
    /\ loop' = [loop EXCEPT ![u].at = "selected", ![u].view = NoView,
                   ![u].pick = Selection(loop[u].view, slot, u, loop[u].view.at)]
    /\ UNCHANGED <<scope, slot, now, trial, withdrawn, receipt, observed, reduction, conclusion>>

\* compose_runtime: a selection applies at its revision only.
Applies(pick) == pick # None /\ pick.revision = scope.revision

\* compose_runtime: the profile the prompt is composed from.
Composed(pick) == IF pick # None /\ pick.arm = "candidate" THEN pick.trial ELSE scope.profile

\* What is remembered of a prompt: the profile it was composed from, while there is a
\* selection that may be recorded beside it.
Prompt(pick, profile) == IF pick = None THEN None ELSE profile

\* DspyRlmGuidance.execute: a selection that is blocked is dropped, and the prompt is
\* composed from the current profile instead.
Compose(u) ==
    /\ loop[u].at = "selected"
    /\ LET kept == IF Applies(loop[u].pick) THEN loop[u].pick ELSE None
       IN loop' = [loop EXCEPT ![u].at = "answer", ![u].pick = kept, ![u].ran = Prompt(kept, Composed(kept))]
    /\ UNCHANGED <<scope, slot, now, trial, withdrawn, receipt, observed, reduction, conclusion>>

\* Mutant: the selection of the last prompt stays in params_temporary.
KeptSelection(u) == loop[u].pick

\* DspyRlmGuidance.execute, once the plugin is enabled and the chat has an identity,
\* drops the selection before it reads the store.
Popped(u) == None

\* The prompt of an iteration is built again before the iteration ends.
Rebuild(u) ==
    /\ loop[u].at = "answer"
    /\ loop' = [loop EXCEPT ![u].at = "start", ![u].pick = Popped(u), ![u].ran = None]
    /\ UNCHANGED <<scope, slot, now, trial, withdrawn, receipt, observed, reduction, conclusion>>

\* ... while the plugin is read as disabled, or its configuration cannot be loaded: the
\* hook returns before it drops the selection, if there is one, and the prompt is as
\* Agent Zero made it.
RebuildDisabled(u) ==
    /\ loop[u].at = "answer" /\ loop[u].pick # None
    /\ Cardinality({v \in Unit : loop[v].ran = "disabled" \/
                      (observed[v] # None /\ observed[v].profile = "disabled")}) < MaxDisabled
    /\ loop' = [loop EXCEPT ![u].ran = "disabled"]
    /\ UNCHANGED <<scope, slot, now, trial, withdrawn, receipt, observed, reduction, conclusion>>

\* The store cannot be read, or the first prompt of the iteration is built while the
\* plugin is read as disabled: the prompt stays as Agent Zero made it.
Unreadable(u) ==
    /\ loop[u].at = "start" /\ MayOpen
    /\ loop' = [loop EXCEPT ![u].at = "answer", ![u].ran = Prompt(loop[u].pick, "unread")]
    /\ UNCHANGED <<scope, slot, now, trial, withdrawn, receipt, observed, reduction, conclusion>>

\* Mutant: the transaction trusts the selection made before the answer.
Trusted(u) == loop[u].pick # None

\* The transaction selects again, and finds the selection of the prompt.
StillSelected(u) ==
    /\ loop[u].pick # None
    /\ Selection([revision |-> scope.revision, profile |-> scope.profile, mode |-> scope.mode],
                 slot, u, now) = loop[u].pick

\* insert_record: the receipt and the observation on record, which names the runtime
\* observation, must be equal to these.  The profile beside it is that of the prompt,
\* which no record holds: the profile that the record names is that of the receipt's arm.
Observation(u) == [run |-> loop[u].run, profile |-> loop[u].ran]
Insertable(u)  == observed[u] # None => observed[u].run = loop[u].run

\* commit_canary_runtime_observation: receipt, runtime and canary observation at once.
Record(u) ==
    /\ loop[u].at = "answer" /\ StillSelected(u) /\ Insertable(u)
    /\ receipt' = [receipt EXCEPT ![u] = Assigned(loop[u].pick.trial, u)]
    /\ observed' = [observed EXCEPT ![u] = Observation(u)]
    /\ loop' = [loop EXCEPT ![u].at = "done", ![u].pick = None, ![u].ran = None]
    /\ UNCHANGED <<scope, slot, now, trial, withdrawn, reduction, conclusion>>

\* The loop ends without an exposure: there is no selection, the transaction raises, or
\* the hook reads the plugin as disabled.  What it records then, the ordinary observation
\* of the loop or nothing, is never read here.
EndOrdinary(u) ==
    /\ loop[u].at = "answer"
    /\ loop' = [loop EXCEPT ![u].at = "done", ![u].pick = None, ![u].ran = None]
    /\ UNCHANGED <<scope, slot, now, trial, withdrawn, receipt, observed, reduction, conclusion>>

\* The same message iteration is run again after a restart, under another log item.
Rerun(u) ==
    /\ loop[u].at # "start"
    /\ Sum([v \in Unit |-> loop[v].run - 1]) < MaxRestarts
    /\ loop' = [loop EXCEPT ![u] = [Fresh EXCEPT !.run = loop[u].run + 1]]
    /\ UNCHANGED <<scope, slot, now, trial, withdrawn, receipt, observed, reduction, conclusion>>

-----------------------------------------------------------------------------
(* The reduction of a window of exposures.                                 *)

Exposures(t) == {u \in Unit : receipt[u] # None /\ receipt[u].trial = t}

\* Mutant: a value that is not comparable counts too.
AllOf(window, facts, t, arm) == {u \in window : ArmOf[t][u] = arm}

\* The units of an arm whose value in the bucket is comparable.
Comparable(window, facts, t, arm) ==
    {u \in window : ArmOf[t][u] = arm /\ facts[u].comparable}

Total(units, facts) == Sum([u \in units |-> facts[u].value])

HardFailures(window, facts, t) ==
    Cardinality({u \in window : ArmOf[t][u] = "candidate" /\ facts[u].hard})

\* _reduce: the request for a conclusion.  The delta is a rational num/den, the mean of
\* the candidate's values minus that of the incumbent's.
Signal(window, facts, t) ==
    LET c == Comparable(window, facts, t, "candidate")
        i == Comparable(window, facts, t, "incumbent")
    IN [exposures  |-> Cardinality(window),
        comparable |-> IF Cardinality(c) <= Cardinality(i) THEN Cardinality(c) ELSE Cardinality(i),
        num        |-> Total(c, facts) * Cardinality(i) - Total(i, facts) * Cardinality(c),
        den        |-> Cardinality(c) * Cardinality(i),
        hard       |-> HardFailures(window, facts, t),
        shared     |-> \E u \in window : facts[u].shared,
        stopped    |-> FALSE]

\* _load_and_validate_inputs: the trial is the occupant at its own revision, against
\* the current profile, and its calibration stands.
Current(t) ==
    /\ scope.mode = "normal" /\ slot.trial = t
    /\ trial[t].revision = scope.revision /\ trial[t].incumbent = scope.profile
    /\ t \notin withdrawn

\* A window is closed with as many exposures as the horizon (canary_outcome_window).
Closed(w) == Cardinality(w) = Horizon

Windows(t) == {w \in SUBSET Exposures(t) : Closed(w)}

\* One attributable outcome for each exposure of the window, certified by the producer
\* for its trial, plan, arm and selected profile.
CertifiedFacts(window) == [window -> Fact]

\* The reduction, the certified authority and the receipt that binds them.
ReductionReceipt(window, facts, t) ==
    [trial |-> t, facts |-> facts, signal |-> Signal(window, facts, t)]

\* _existing_replay: under a key on record the reducer answers, or refuses another request.
Unanswered(k) == reduction[k] = None

\* RepositoryCanaryOutcomeReducer.reduce; a bucket without a comparable value in both
\* arms is an error.
Reduce(t, k, window, facts) ==
    /\ Unanswered(k) /\ Current(t)
    /\ \A a \in Arm : Comparable(window, facts, t, a) # {}
    /\ reduction' = [reduction EXCEPT ![k] = ReductionReceipt(window, facts, t)]
    /\ UNCHANGED <<scope, slot, now, trial, withdrawn, receipt, observed, conclusion, loop>>

-----------------------------------------------------------------------------
(* The conclusion.                                                         *)

Underpowered(s) == s.exposures < Horizon \/ s.comparable < MinComparable

\* CanaryCoordinator.plan_conclusion, in its order; _bucket_passes compares exactly.
Verdict(s) ==
    IF s.shared THEN "inconclusive"
    ELSE IF s.hard > HardLimit THEN "failed"
    ELSE IF s.stopped THEN "stopped"
    ELSE IF Underpowered(s) THEN "inconclusive"
    ELSE IF s.num * Benefit.den >= Benefit.num * s.den THEN "passed"
    ELSE "failed"

\* An operator stops the trial with no outcome to show.
StopSignal == [exposures |-> 0, comparable |-> 0, num |-> 0, den |-> 1, hard |-> 0,
               shared |-> FALSE, stopped |-> TRUE]

\* A request whose counts no reduction produced: the operation carries any.
Claimed == [StopSignal EXCEPT !.exposures = Horizon, !.comparable = Horizon,
              !.num = Benefit.num, !.den = Benefit.den, !.stopped = FALSE]

Requests(t) ==
    {StopSignal, Claimed} \cup
    {reduction[k].signal : k \in {j \in Key : reduction[j] # None /\ reduction[j].trial = t}}

ClearedSlot == [revision |-> slot.revision + 1, trial |-> None, since |-> now]

\* RepositoryCanaryConclusionCoordinator.commit.
Conclude(t, s) ==
    /\ slot.trial = t /\ conclusion[t] = None
    /\ trial[t].revision = scope.revision /\ trial[t].incumbent = scope.profile
    /\ t \notin withdrawn
    /\ conclusion' = [conclusion EXCEPT ![t] = [verdict |-> Verdict(s), signal |-> s]]
    /\ slot' = ClearedSlot
    /\ UNCHANGED <<scope, now, trial, withdrawn, receipt, observed, reduction, loop>>

LoopStep(u) ==
    \/ ReadScope(u) \/ Unreadable(u) \/ ReadSlot(u) \/ Compose(u)
    \/ Rebuild(u) \/ RebuildDisabled(u)
    \/ Record(u) \/ EndOrdinary(u) \/ Rerun(u)

Next ==
    \/ Tick
    \/ \E t \in Trial :
          \/ Start(t) \/ Withdraw(t)
          \/ \E s \in Requests(t) : Conclude(t, s)
          \/ \E k \in Key, w \in Windows(t) : \E f \in CertifiedFacts(w) : Reduce(t, k, w, f)
    \/ Transition(None, "bypass")
    \/ \E p \in Profile : Transition(p, "normal")
    \/ \E u \in Unit : LoopStep(u)

Spec == Init /\ [][Next]_vars

-----------------------------------------------------------------------------
(* Properties.                                                             *)

\* The profile that a receipt's arm stands for.
ProfileOf(r) == IF r.arm = "candidate" THEN r.trial ELSE trial[r.trial].incumbent

\* An exposure on record, whatever was rebuilt, moved or rerun in between: receipt and
\* canary observation exist together, and the prompt of the run observed was composed from
\* the profile of the receipt's arm.  It never was of another profile, and was without one
\* only if the plugin was read as disabled when the prompt was last built, and no longer
\* when the loop ended (commit_canary_runtime_observation, DspyRlmGuidance.execute).
ExposureIsOfItsArm ==
    \A u \in Unit :
       /\ receipt[u] # None <=> observed[u] # None
       /\ receipt[u] # None => observed[u].profile \in {ProfileOf(receipt[u]), "disabled"}

\* A trial that lost its slot, to a conclusion or to a transition, gains and loses no
\* exposure: loops that were answered under it are not counted afterwards
\* (commit_canary_runtime_observation).
ExposuresEndWithTheTrial ==
    [][\A t \in Trial : trial[t] # None /\ slot.trial # t => Exposures(t)' = Exposures(t)]_vars

\* The means of the arms differ by the benefit, each mean taken over the comparable
\* values of its arm: over all pairs of one unit of each arm, the candidate's values are
\* ahead of the incumbent's by the benefit of as many pairs.
Ahead(c, i, facts) ==
    (Sum([p \in c \X i |-> facts[p[1]].value]) - Sum([p \in c \X i |-> facts[p[2]].value]))
        * Benefit.den >= Benefit.num * Cardinality(c \X i)

\* A conclusion drawn from a reduction passes only on a full horizon of exposures that
\* are still on record for its trial and arm, enough of them comparable on both sides,
\* no shared failure, no more hard failures of the candidate than the plan allows, and
\* the mean of the candidate ahead by the benefit.
PassedOnEvidence ==
    \A t \in Trial, k \in Key :
       /\ conclusion[t] # None /\ conclusion[t].verdict = "passed"
       /\ reduction[k] # None /\ reduction[k].trial = t
       /\ conclusion[t].signal = reduction[k].signal /\ conclusion[t].signal # Claimed
       => LET f == reduction[k].facts
              c == {u \in DOMAIN f : receipt[u].arm = "candidate" /\ f[u].comparable}
              i == {u \in DOMAIN f : receipt[u].arm = "incumbent" /\ f[u].comparable}
          IN /\ \A u \in DOMAIN f : receipt[u].trial = t /\ ~f[u].shared
             /\ Cardinality(DOMAIN f) = Horizon
             /\ Cardinality(c) >= MinComparable /\ Cardinality(i) >= MinComparable
             /\ Cardinality({u \in DOMAIN f : receipt[u].arm = "candidate" /\ f[u].hard})
                   <= HardLimit
             /\ Ahead(c, i, f)

\* README.md:36: a canary is routed "through the exact incumbent or successor profile",
\* and then its exposure recorded.  (Not so: a prompt that is built again while the plugin
\* is read as disabled has no profile, and its exposure is recorded all the same.)
ExposureIsWhatRan ==
    \A u \in Unit : receipt[u] # None => observed[u].profile = ProfileOf(receipt[u])

\* IMPLEMENTATION_SPEC.md:449: the conclusion transaction validates all exposure and
\* horizon inputs.  (Not so: the counts come with the request, and no reduction or
\* exposure is read.)
PassedWasReduced ==
    \A t \in Trial : conclusion[t] # None /\ conclusion[t].verdict = "passed" =>
       \E k \in Key : /\ reduction[k] # None
                      /\ reduction[k].trial = t /\ reduction[k].signal = conclusion[t].signal
=============================================================================
