------------------------ MODULE ActivationAuthority ------------------------
(***************************************************************************)
(* One activation scope with its three operation slots: Genesis, candidate *)
(* activation, rollback and Safety Bypass (helpers/v3/activation.py,       *)
(* activation_transition.py), canary start and stop (canary_repository.py, *)
(* canary_command_adapter.py), canary conclusion                           *)
(* (canary_conclusion_repository.py), monitor and requalification          *)
(* (post_activation_repository.py) and the calibrations they rest on       *)
(* (calibration_authority.py).                                             *)
(*                                                                         *)
(* Every coordinator is one BEGIN IMMEDIATE transaction, so one action.    *)
(* What a caller read before it sent its command arrives as arguments: the *)
(* expected scope revision, the record it names, the slots it believes     *)
(* occupied.  Grants are revalidated by callbacks and are inputs; a        *)
(* refusal or an exact replay changes nothing.  Record identities commit   *)
(* to the grant of the command that wrote them, so no two commands write   *)
(* one trial.  Fixture, dependency and evidence facts are inputs too.      *)
(***************************************************************************)
EXTENDS Naturals, FiniteSets

CONSTANTS
    Profile,        \* activation_profile records
    NullProfile,    \* those whose two slots hold the null artifacts
    Trial,          \* trial_id's that canary_start commands name
    Calibration,    \* policy_calibration records, with their policy and plans
    Automatic,      \* those whose activation_authorities include "automatic"
    SoftRollback,   \* those with soft_rollback_authorized
    SignalSets,     \* the signals that conclusions may carry together
    MaxRevision,    \* bound on scope_revision
    NoScope, NoTrial, NoOccupant, NoCalibration

\* What a conclusion request says of its trial.
Signal == {"shared_failure", "identity_drift", "cancelled", "boundary_uncertain",
           "hard_failure", "operator_stopped", "underpowered", "regressed"}

ASSUME SignalAssumption == SignalSets \subseteq SUBSET Signal
ASSUME ProfileAssumption == NullProfile \subseteq Profile
ASSUME CalibrationAssumption ==
    /\ Automatic \subseteq Calibration
    /\ SoftRollback \subseteq Calibration
    /\ NoCalibration \notin Calibration
ASSUME RevisionAssumption == MaxRevision \in Nat

Kind == {"canary", "monitor", "requalification"}

\* Who may occupy a slot.  A monitor and a requalification window are written once
\* per scope revision, by the transaction that opens it and by the one that
\* concludes its monitor, and are named here by that revision.
Occupant == ({"canary"} \X Trial) \cup ({"monitor", "requalification"} \X (1 .. MaxRevision))

Mode == {"normal", "safety_bypass"}
Verdict == {"passed", "failed", "inconclusive", "stopped"}
Decision == {"retain", "requalify", "rollback_required"}

Scope == [rev : 0 .. MaxRevision, profile : Profile, mode : Mode]
Slot  == [rev : Nat, occ : Occupant \cup {NoOccupant}]

\* A candidate was published against an incumbent and a scope revision.
Candidate == [rev : 0 .. MaxRevision, incumbent : Profile, successor : Profile]
TrialRecord == [kind : {"authoritative", "diagnostic"}, rev : 0 .. MaxRevision,
                incumbent : Profile, candidate : Candidate,
                calibration : Calibration \cup {NoCalibration}]

Transition == {"initialize_genesis", "activate", "rollback", "safety_bypass"}
Action == Transition \cup {"canary_start", "canary_stop", "canary_conclude",
                           "monitor_conclude", "requalification_start",
                           "requalification_conclude"}

\* The receipt of an accepted command: the scope it left and the slots it names.
Receipt == [action : Action, rev : 0 .. MaxRevision, from : Profile, to : Profile,
            mode : Mode, automatic : BOOLEAN,
            slots : [Kind -> Slot \cup {NoOccupant}],
            trial : Trial \cup {NoTrial}]

\* domain_events of the occupants; (subject, sequence) is UNIQUE.
EventType == {"canary_started", "canary_stopped", "canary_concluded",
              "canary_slot_cleared_for_activation", "post_promotion_monitor_started",
              "monitor_conclude", "requalification_start", "requalification_conclude",
              "stopped_for_rollback", "stopped_for_safety_bypass"}
Event == [subject : Occupant, sequence : Nat, type : EventType]

ASSUME NullAssumption ==
    /\ NoScope \notin Scope
    /\ NoTrial \notin TrialRecord
    /\ NoOccupant \notin Occupant \cup Slot

VARIABLES
    scope,        \* the activation_scopes row
    slot,         \* the operation_slots rows; revision 0 is an absent row
    trial,        \* canary_trial records
    conclusions,  \* canary_conclusion records
    calibration,  \* the lifecycle of each calibration, reduced from its events
    receipts,     \* operator_commands with their mutation receipts
    decisions,    \* post_activation_conclusion records
    events        \* domain_events

vars == <<scope, slot, trial, conclusions, calibration, receipts, decisions, events>>

Init ==
    /\ scope = NoScope
    /\ slot = [k \in Kind |-> [rev |-> 0, occ |-> NoOccupant]]
    /\ trial = [t \in Trial |-> NoTrial]
    /\ conclusions = {}
    /\ calibration = [c \in Calibration |-> "absent"]
    /\ receipts = {}
    /\ decisions = {}
    /\ events = {}

-----------------------------------------------------------------------------
(* The repository's primitives *)

\* The scope exists and is at the revision the command expects.
AtRevision(rev) ==
    /\ scope # NoScope
    /\ scope.rev = rev

Occupied(k) == slot[k].occ # NoOccupant

\* Mutant: the occupants a request does not mention are not looked at.
MentionedSlots(stopped) == \A k \in stopped : Occupied(k)

\* _require_slots: exactly the slots the request says are occupied are.
ExpectedSlots(stopped) == \A k \in Kind : Occupied(k) <=> k \in stopped

\* claim_empty_operation_slot and clear_exact_operation_slot.
Claimed(s, occ) == [rev |-> s.rev + 1, occ |-> occ]
Cleared(s) == [rev |-> s.rev + 1, occ |-> NoOccupant]

\* compare_and_swap_activation_scope.
Successor(profile, mode) == [rev |-> scope.rev + 1, profile |-> profile, mode |-> mode]

\* Mutant: a sequence that starts anew.
ZeroSequence(o) == 0

\* next_domain_event_sequence.
NextSequence(o) == Cardinality({e \in events : e.subject = o})

NewEvent(o, type) == [subject |-> o, sequence |-> NextSequence(o), type |-> type]

\* What a receipt says of the slots it names, and nothing of the others.
Results(kinds) == [k \in Kind |-> IF k \in kinds THEN slot'[k] ELSE NoOccupant]

\* A receipt that leaves the scope where it is and names some slots.
Receipted(action, kinds, t) ==
    receipts' = receipts \cup
        {[action |-> action, rev |-> scope.rev, from |-> scope.profile,
          to |-> scope.profile, mode |-> scope.mode, automatic |-> FALSE,
          slots |-> Results(kinds), trial |-> t]}

\* The receipt of a transition of the scope.
Transitioned(action, automatic, t) ==
    receipts' = receipts \cup
        {[action |-> action, rev |-> scope'.rev, from |-> scope.profile,
          to |-> scope'.profile, mode |-> scope'.mode, automatic |-> automatic,
          slots |-> Results(Kind), trial |-> t]}

-----------------------------------------------------------------------------
(* Genesis and calibrations *)

\* initialize_genesis: the inert profile becomes revision zero of an absent scope.
InitializeGenesis(p) ==
    /\ scope = NoScope
    /\ p \in NullProfile
    /\ scope' = [rev |-> 0, profile |-> p, mode |-> "normal"]
    /\ receipts' = receipts \cup
          {[action |-> "initialize_genesis", rev |-> 0, from |-> p, to |-> p,
            mode |-> "normal", automatic |-> FALSE, slots |-> Results({}),
            trial |-> NoTrial]}
    /\ UNCHANGED <<slot, trial, conclusions, calibration, decisions, events>>

\* approve_policy_calibration inserts the immutable record and its approval event.
ApproveCalibration(c) ==
    /\ calibration[c] = "absent"
    /\ calibration' = [calibration EXCEPT ![c] = "approved"]
    /\ UNCHANGED <<scope, slot, trial, conclusions, receipts, decisions, events>>

\* withdraw_policy_calibration appends an event; the record still says "approved".
WithdrawCalibration(c) ==
    /\ calibration[c] = "approved"
    /\ calibration' = [calibration EXCEPT ![c] = "withdrawn"]
    /\ UNCHANGED <<scope, slot, trial, conclusions, receipts, decisions, events>>

\* CanaryCoordinator._approved_calibration: what the record says.
SaysApproved(c) == c \in Calibration /\ calibration[c] # "absent"

\* _require_current_calibration: what its lifecycle events say.
StillApproved(c) == c \in Calibration /\ calibration[c] = "approved"

-----------------------------------------------------------------------------
(* The canary *)

\* Mutant: only that the trial is not running is asked.
NotRunning(t) == slot["canary"].occ # <<"canary", t>>

\* insert_record: the trial of this identity was not written.
NewTrial(t) == trial[t] = NoTrial

\* canary_start.  An authoritative trial needs a calibration, a diagnostic one may
\* name one; the candidate's own lineage is not looked at here.
CanaryStart(rev, t, kind, c, candidate) ==
    /\ AtRevision(rev)
    /\ NewTrial(t)
    /\ ~Occupied("canary")
    /\ SaysApproved(c) \/ (kind = "diagnostic" /\ c = NoCalibration)
    /\ trial' = [trial EXCEPT ![t] =
                   [kind |-> kind, rev |-> rev, incumbent |-> scope.profile,
                    candidate |-> candidate, calibration |-> c]]
    /\ slot' = [slot EXCEPT !["canary"] = Claimed(@, <<"canary", t>>)]
    /\ events' = events \cup {NewEvent(<<"canary", t>>, "canary_started")}
    /\ Receipted("canary_start", {"canary"}, t)
    /\ UNCHANGED <<scope, conclusions, calibration, decisions>>

\* The active trial of the scope, as canary_stop and canary_conclude require it.
ActiveTrial(rev, t) ==
    /\ AtRevision(rev)
    /\ slot["canary"].occ = <<"canary", t>>
    /\ trial[t].rev = rev
    /\ trial[t].incumbent = scope.profile

Boundary == {"shared_failure", "identity_drift", "cancelled", "boundary_uncertain"}

\* CanaryCoordinator.plan_conclusion: the first signal that applies decides.
Concludes(signals) ==
    IF signals \cap Boundary # {} THEN "inconclusive"
    ELSE IF "hard_failure" \in signals THEN "failed"
    ELSE IF "operator_stopped" \in signals THEN "stopped"
    ELSE IF "underpowered" \in signals THEN "inconclusive"
    ELSE IF "regressed" \in signals THEN "failed" ELSE "passed"

EndTrial(t, signals, action, type) ==
    /\ conclusions' = conclusions \cup {[trial |-> t, verdict |-> Concludes(signals)]}
    /\ slot' = [slot EXCEPT !["canary"] = Cleared(@)]
    /\ events' = events \cup {NewEvent(<<"canary", t>>, type)}
    /\ Receipted(action, {"canary"}, t)
    /\ UNCHANGED <<scope, trial, calibration, decisions>>

\* canary_stop: the signals of the command say operator_stopped.
CanaryStop(rev, t, signals) ==
    /\ ActiveTrial(rev, t)
    /\ "operator_stopped" \in signals
    /\ EndTrial(t, signals, "canary_stop", "canary_stopped")

\* canary_conclude.  Automation may conclude only a calibrated authoritative trial
\* (of an auto_after_canary policy, an input), and only an operator may stop one.
CanaryConclude(rev, t, signals, automation) ==
    /\ ActiveTrial(rev, t)
    /\ trial[t].calibration # NoCalibration => StillApproved(trial[t].calibration)
    /\ automation => /\ trial[t].kind = "authoritative"
                     /\ "operator_stopped" \notin signals
    /\ EndTrial(t, signals, "canary_conclude", "canary_concluded")

\* A conclusion record written beside the slot, which is left occupied.  Nothing
\* under src/ but the tests does this; activate_candidate requires it was done.
RecordConclusion(t, signals) ==
    /\ trial[t] # NoTrial
    /\ slot["canary"].occ = <<"canary", t>>
    /\ \A c \in conclusions : c.trial # t
    /\ conclusions' = conclusions \cup {[trial |-> t, verdict |-> Concludes(signals)]}
    /\ UNCHANGED <<scope, slot, trial, calibration, receipts, decisions, events>>

-----------------------------------------------------------------------------
(* Candidate activation *)

\* Mutant: any passed conclusion will do.
PassedConclusion(c) == c.verdict = "passed"

\* The conclusion's activation_authoritative: only an authoritative trial earns it.
Authoritative(c) ==
    /\ c.verdict = "passed"
    /\ trial[c.trial].kind = "authoritative"

\* _validate_activation_records: the candidate and the conclusion are about the
\* present scope, and the calibration of the trial says it is approved.
Eligible(c, automatic) ==
    LET t == trial[c.trial]
    IN  /\ Authoritative(c)
        /\ t.rev = scope.rev /\ t.incumbent = scope.profile
        /\ t.candidate.rev = scope.rev /\ t.candidate.incumbent = scope.profile
        /\ SaysApproved(t.calibration)
        /\ automatic => t.calibration \in Automatic

\* Mutant: a window does not keep the next activation out.
NoWindow == ~Occupied("requalification")

\* Neither a monitor nor a requalification window is open.
NothingToDecide == ~Occupied("monitor") /\ ~Occupied("requalification")

\* The trial of the conclusion still has the canary slot.
MayActivate(c) ==
    /\ slot["canary"].occ = <<"canary", c.trial>>
    /\ NothingToDecide

\* activate_candidate.  The canary slot is cleared and the monitor of the successor
\* takes the monitor slot, under the new revision.
Activate(rev, stopped, c, automatic) ==
    /\ AtRevision(rev)
    /\ Eligible(c, automatic)
    /\ ExpectedSlots(stopped)
    /\ MayActivate(c)
    /\ scope' = Successor(trial[c.trial].candidate.successor, "normal")
    /\ LET monitor == <<"monitor", scope'.rev>>
       IN  /\ slot' = [slot EXCEPT !["canary"] = Cleared(@),
                                   !["monitor"] = Claimed(@, monitor)]
           /\ events' = events \cup
                 {NewEvent(<<"canary", c.trial>>, "canary_slot_cleared_for_activation"),
                  NewEvent(monitor, "post_promotion_monitor_started")}
    /\ Transitioned("activate", automatic, c.trial)
    /\ UNCHANGED <<trial, conclusions, calibration, decisions>>

\* The activation receipts that led to a revision.
ActivationTo(rev) == {r \in receipts : r.action = "activate" /\ r.rev = rev}

-----------------------------------------------------------------------------
(* Rollback and Safety Bypass *)

\* _profile_transition: every occupant is stopped with an event of its own.
StopEverything(stopped, type) ==
    /\ ExpectedSlots(stopped)
    /\ slot' = [k \in Kind |-> IF k \in stopped THEN Cleared(slot[k]) ELSE slot[k]]
    /\ events' = events \cup {NewEvent(slot[k].occ, type) : k \in stopped}
    /\ UNCHANGED <<trial, conclusions, calibration, decisions>>

\* An automatic grant undoes only an automatic activation, under a calibration
\* that authorizes both.
MayUndo(r, automatic) ==
    automatic => /\ r.automatic
                 /\ SaysApproved(trial[r.trial].calibration)
                 /\ trial[r.trial].calibration \in SoftRollback \cap Automatic

\* Mutant: the receipt of any activation of the present profile.
LedToProfile(r) ==
    /\ r.action = "activate"
    /\ r.to = scope.profile

\* The activation whose profile and revision are the scope's.
LedHere(r) ==
    /\ r.action = "activate"
    /\ r.rev = scope.rev /\ r.to = scope.profile

\* rollback_to_predecessor: the receipt named is the one that led here.
Rollback(rev, stopped, r, automatic) ==
    /\ AtRevision(rev)
    /\ LedHere(r)
    /\ MayUndo(r, automatic)
    /\ scope' = Successor(r.from, "normal")
    /\ StopEverything(stopped, "stopped_for_rollback")
    /\ Transitioned("rollback", automatic, NoTrial)

\* apply_safety_bypass, by an operator only.
SafetyBypass(rev, stopped, p) ==
    /\ AtRevision(rev)
    /\ p \in NullProfile
    /\ scope' = Successor(p, "safety_bypass")
    /\ StopEverything(stopped, "stopped_for_safety_bypass")
    /\ Transitioned("safety_bypass", FALSE, NoTrial)

-----------------------------------------------------------------------------
(* Monitor and requalification *)

\* The scope is at the subject's revision, and a slot of its kind is occupied; that
\* the occupant is the subject the code leaves to their revisions.
Pending(rev, kind) ==
    /\ AtRevision(rev)
    /\ Occupied(kind)

\* RepositoryPostActivationCoordinator.commit: the subject is of the present
\* revision, and the calibration it was opened under was not withdrawn.
Decides(rev, kind, action, decision) ==
    /\ Pending(rev, kind)
    /\ \E r \in ActivationTo(rev) : StillApproved(trial[r.trial].calibration)
    /\ decisions' = decisions \cup {[kind |-> kind, rev |-> rev, decision |-> decision]}
    /\ events' = events \cup {NewEvent(<<kind, rev>>, action)}
    /\ Receipted(action, {"monitor", "requalification"}, NoTrial)
    /\ UNCHANGED <<scope, trial, conclusions, calibration>>

\* monitor_conclude.  rollback_required only asks for a rollback.
MonitorConclude(rev, decision) ==
    /\ decision # "requalify"
    /\ slot' = [slot EXCEPT !["monitor"] = Cleared(@)]
    /\ Decides(rev, "monitor", "monitor_conclude", decision)

\* requalification_start: the monitor is concluded and its window opens.
RequalificationStart(rev) ==
    /\ ~Occupied("requalification")
    /\ slot' = [slot EXCEPT !["monitor"] = Cleared(@),
                            !["requalification"] = Claimed(@, <<"requalification", rev>>)]
    /\ Decides(rev, "monitor", "requalification_start", "requalify")

\* requalification_conclude.
RequalificationConclude(rev, decision) ==
    /\ decision # "requalify"
    /\ slot' = [slot EXCEPT !["requalification"] = Cleared(@)]
    /\ Decides(rev, "requalification", "requalification_conclude", decision)

-----------------------------------------------------------------------------
(* Replay *)

\* _replayed_result, _replay and _existing_replay: an accepted command sent again
\* is answered while the scope and the slots are still as it left them.
Replays(r) ==
    /\ scope.rev = r.rev /\ scope.profile = r.to /\ scope.mode = r.mode
    /\ \A k \in Kind : r.slots[k] \in {slot[k], NoOccupant}

-----------------------------------------------------------------------------
\* Candidates were published while their incumbent was in force; a successor holds
\* a guidance artifact, which is not the null one.
Published ==
    {[rev |-> r.rev, incumbent |-> r.to, successor |-> p] :
        r \in {q \in receipts : q.action \in Transition}, p \in Profile \ NullProfile}

Revisions == 0 .. MaxRevision

AuthorityStep ==
    \/ \E p \in Profile : InitializeGenesis(p)
    \/ \E c \in Calibration : ApproveCalibration(c) \/ WithdrawCalibration(c)

CanaryStep ==
    \E t \in Trial, rev \in Revisions :
        \/ \E kind \in {"authoritative", "diagnostic"}, candidate \in Published,
              c \in Calibration \cup {NoCalibration} : CanaryStart(rev, t, kind, c, candidate)
        \/ \E signals \in SignalSets :
              \/ CanaryStop(rev, t, signals)
              \/ \E automation \in BOOLEAN : CanaryConclude(rev, t, signals, automation)
              \/ RecordConclusion(t, signals)

\* The bound on scope_revision: no transition leaves its last value.
TransitionStep ==
    \E rev \in 0 .. MaxRevision - 1, stopped \in SUBSET Kind :
        \/ \E c \in conclusions, automatic \in BOOLEAN : Activate(rev, stopped, c, automatic)
        \/ \E r \in receipts, automatic \in BOOLEAN : Rollback(rev, stopped, r, automatic)
        \/ \E p \in Profile : SafetyBypass(rev, stopped, p)

MonitorStep ==
    \E rev \in Revisions :
        \/ \E d \in Decision : MonitorConclude(rev, d) \/ RequalificationConclude(rev, d)
        \/ RequalificationStart(rev)

Next == AuthorityStep \/ CanaryStep \/ TransitionStep \/ MonitorStep

Spec == Init /\ [][Next]_vars

-----------------------------------------------------------------------------
(* Invariants *)

TypeOK ==
    /\ scope \in Scope \cup {NoScope}
    /\ slot \in [Kind -> Slot]
    /\ trial \in [Trial -> TrialRecord \cup {NoTrial}]
    /\ conclusions \subseteq [trial : Trial, verdict : Verdict]
    /\ calibration \in [Calibration -> {"absent", "approved", "withdrawn"}]
    /\ receipts \subseteq Receipt
    /\ decisions \subseteq [kind : Kind, rev : Revisions, decision : Decision]
    /\ events \subseteq Event

\* The receipts of the transitions that led to a revision.
TransitionTo(rev) == {r \in receipts : r.action \in Transition /\ r.rev = rev}

\* The scope is the end of one unbroken chain of receipts: every revision was
\* entered by exactly one transition, from the profile the one before it left.
ScopeIsLastReceipt ==
    /\ scope = NoScope => receipts = {}
    /\ scope # NoScope => \A n \in 0 .. scope.rev : \E r \in receipts :
          /\ TransitionTo(n) = {r}
          /\ n = scope.rev => r.to = scope.profile /\ r.mode = scope.mode
          /\ \A q \in TransitionTo(n + 1) : q.from = r.to

\* Whatever occupies a slot was started under the revision now in force: a
\* transition never leaves a trial, a monitor or a window of an older revision
\* behind, whose conclusion the scope could then never admit.
RunsUnderItsRevision ==
    \A k \in Kind : Occupied(k) =>
        /\ scope # NoScope
        /\ slot[k].occ[1] = k
        /\ IF k = "canary"
           THEN /\ trial[slot[k].occ[2]].rev = scope.rev
                /\ trial[slot[k].occ[2]].incumbent = scope.profile
           ELSE slot[k].occ[2] = scope.rev

\* An activation is either monitored or being requalified, never both.
MonitorXorWindow == ~(Occupied("monitor") /\ Occupied("requalification"))

StartEvent == {"canary_started", "post_promotion_monitor_started"}
Began == {e.subject : e \in {f \in events : f.type \in StartEvent}}
         \cup {<<"requalification", e.subject[2]>> :
                   e \in {f \in events : f.type = "requalification_start"}}
EndOf(o) == {e \in events : e.subject = o /\ e.type \notin StartEvent}

\* The event streams tell what runs: an operation has its slot exactly when it
\* began and has no terminal event, it has at most one, and no two events of a
\* subject have one sequence, which the schema would refuse.
EventsExplainSlots ==
    /\ {slot[k].occ : k \in {j \in Kind : Occupied(j)}} =
           {o \in Began : EndOf(o) = {}}
    /\ \A o \in Began : Cardinality(EndOf(o)) <= 1
    /\ \A e, f \in events : e.subject = f.subject /\ e.sequence = f.sequence => e = f

\* An activation gets one verdict at most, however often monitoring and
\* requalification are decided, retried under fresh keys, or raced.
DecidedOnce ==
    \A d, e \in decisions :
        /\ d.rev = e.rev /\ "requalify" \notin {d.decision, e.decision} => d = e
        /\ d.rev = e.rev /\ d.kind = e.kind => d = e

\* A rollback undoes the transition just before it, which was an activation, and
\* restores what was in force before that one; automation only undoes what
\* automation did, where the calibration authorizes soft rollback.
RollbackUndoesActivation ==
    \A r \in receipts : r.action = "rollback" =>
        \E q \in TransitionTo(r.rev - 1) :
            /\ q.action = "activate"
            /\ \A p \in TransitionTo(r.rev - 2) : r.to = p.to
            /\ r.automatic => q.automatic /\ trial[q.trial].calibration \in SoftRollback

\* Every activation was earned by a trial of its own: authoritative, passed, run
\* under the very revision it ended, against the incumbent it replaced; no two
\* activations cite one trial.
ActivationWasEarned ==
    \A r \in receipts : r.action = "activate" =>
        LET t == trial[r.trial]
        IN  /\ t.kind = "authoritative" /\ t.candidate.successor = r.to
            /\ t.rev = r.rev - 1 /\ t.candidate.rev = t.rev
            /\ t.incumbent = r.from /\ t.candidate.incumbent = r.from
            /\ [trial |-> r.trial, verdict |-> "passed"] \in conclusions
            /\ \A q \in receipts : q.action = "activate" /\ q.trial = r.trial => q = r

-----------------------------------------------------------------------------
(* Action properties *)

\* A slot is claimed when it is empty and cleared when it is not, one revision at
\* a time, and each change of it is covered by a receipt that names its result.
NothingIsDisplaced ==
    [][\A k \in Kind : slot'[k] # slot[k] =>
          /\ slot'[k].rev = slot[k].rev + 1
          /\ Occupied(k) <=> ~Occupied(k)'
          /\ \E r \in receipts' \ receipts : r.slots[k] = slot'[k]]_vars

\* A trial that an operator stops does not pass: what canary_stop concludes can
\* never be the evidence of a later activation, whatever else the command says.
StopNeverPasses ==
    [][\A r \in receipts' \ receipts : r.action = "canary_stop" =>
          [trial |-> r.trial, verdict |-> "passed"] \notin conclusions' \ conclusions]_vars

-----------------------------------------------------------------------------
(* Refinement *)

Exclusive == INSTANCE ExclusiveOperations WITH
    Operation <- Occupant,
    Idle      <- NoOccupant,
    epoch     <- IF scope = NoScope THEN 0 ELSE scope.rev,
    lane      <- [k \in Kind |-> slot[k].occ],
    ended     <- {o \in Began : EndOf(o) # {}}

\* The coordinators, of five modules and two command paths, together implement
\* the exclusive operations of ExclusiveOperations.
ImplementsExclusiveOperations == Exclusive!ExclusiveSpec

-----------------------------------------------------------------------------
(* What the documents say *)

\* IMPLEMENTATION_SPEC.md: activation requires the canary slot to be empty after
\* one passed authoritative conclusion, and the other two slots to be empty.
ConcludedCanaryMayActivate ==
    \A c \in conclusions :
        scope # NoScope /\ Eligible(c, FALSE) /\ \A k \in Kind : ~Occupied(k)
            => MayActivate(c)

\* IMPLEMENTATION_SPEC.md: a key used again with the same request digest returns
\* the exact receipt, whatever happened since.
AcceptedCommandsReplay == \A r \in receipts : Replays(r)

\* IMPLEMENTATION_SPEC.md: activation unconditionally revalidates its calibration.
ActivationRevalidatesCalibration ==
    [][\A r \in receipts' \ receipts :
          r.action = "activate" => StillApproved(trial[r.trial].calibration)]_vars
=============================================================================
