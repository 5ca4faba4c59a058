------------------------ MODULE AutopilotTransition ------------------------
(***************************************************************************)
(* The automatic transition runner of helpers/autopilot_transition_runner. *)
(* py for one objective bucket: the rows of autopilot_transitions and      *)
(* their outcomes, over the guidance pointer of helpers/store.py, which an *)
(* operator may move too (helpers/promotion.py), under the authority of    *)
(* the v3 store.                                                           *)
(*                                                                         *)
(* The runner is called from the hooks of many message loops at once, also *)
(* of other chats of the project.  A call is not a transaction: it reads   *)
(* the v3 store, then the legacy store, decides, and writes, each in a     *)
(* transaction of its own.  A hook is therefore a process with a task,     *)
(* whose steps are the transactions and reads of the code; it may end at   *)
(* any step by a crash or an exception, and leaves what it wrote.          *)
(***************************************************************************)
EXTENDS Integers, FiniteSets, Sequences

CONSTANTS
    Candidate,      \* candidate_id's; each stands for its guidance version too
    Older,          \* guidance versions of earlier candidates
    Message,        \* user messages, the exposure_ref's
    Control,        \* <<candidate, message>> pairs assigned to the incumbent arm
    Hook,           \* calls under way
    Report,         \* [success, hard] that messages end with
    Minimum,        \* canary plan: minimum_comparable
    Horizon,        \* canary plan: horizon_exposures
    HardVeto,       \* canary plan: hard_veto_failure_limit
    Margin,         \* canary plan: noninferiority_margin, [num, den]
    Look,           \* monitor plan: look_interval_exposures
    MonitorHorizon, \* monitor plan: horizon_exposures
    MonitorVeto,    \* monitor plan: hard_veto_failure_limit
    MonitorMargin,  \* monitor plan: ordinary_regression_boundary, [num, den]
    Changes,        \* bound: the kinds of change to authority that happen
    MaxPolicy,      \* bound on policy_revision
    MaxManual,      \* bound on the operator's moves
    MaxCrash,       \* bound on the calls cut off
    NoVersion, NoRow, NoSelection, Idle

ASSUME PlanAssumption ==
    /\ Minimum \in Nat \ {0} /\ Horizon \in Nat \ {0} /\ HardVeto \in Nat
    /\ Look \in Nat \ {0} /\ MonitorHorizon \in Nat \ {0} /\ MonitorVeto \in Nat
    /\ Margin \in [num : Nat, den : Nat \ {0}]
    /\ MonitorMargin \in [num : Nat, den : Nat \ {0}]
ASSUME InputAssumption ==
    /\ Changes \subseteq {"provision", "withdraw", "switch", "scope", "expiry"}
    /\ Control \subseteq Candidate \X Message
    /\ Report \subseteq [success : BOOLEAN, hard : BOOLEAN]
    /\ NoVersion \notin Candidate \cup Older
    /\ Candidate \cap Older = {}
    /\ MaxPolicy \in Nat \ {0} /\ MaxManual \in Nat /\ MaxCrash \in Nat

Live     == {"canary", "promoting", "monitoring", "rolling_back"}
RowState == Live \cup {"rejected", "rolled_back", "retained", "recovery_required"}

Version == Candidate \cup Older \cup {NoVersion}

\* The observation columns of a row.
Counts == [canary : Nat, canaryFailed : Nat, control : Nat, controlFailed : Nat,
           monitor : Nat, monitorFailed : Nat]

Row == [state : RowState, base : Version, expected : Nat, policy : 1 .. MaxPolicy,
        count : Counts]

Arm       == {"candidate", "incumbent"}
Selection == [cand : Candidate, state : {"canary", "monitoring"}, arm : Arm]
Outcome   == [cand : Candidate, msg : Message, state : {"canary", "monitoring"},
              arm : Arm, success : BOOLEAN, hard : BOOLEAN]

\* A promotion_audits row; the n-th one made revision n.
Move == [by : {"operator", "promotion", "rollback"}, cand : Version, version : Version]

\* What a call holds between two of its steps.
Task ==
    [pc : {"consider"}, cand : Candidate, policy : 1 .. MaxPolicy]
    \cup [pc : {"expire"}, policy : 1 .. MaxPolicy]
    \cup [pc : {"select", "record"}, msg : Message, policy : 1 .. MaxPolicy]
    \cup [pc : {"resume"}, cand : Candidate, mode : {"promoting", "rolling_back"},
          expected : Nat]
    \cup [pc : {"version", "revision", "swap", "reread", "recheck"}, cand : Candidate,
          mode : {"promoting", "rolling_back"}, policy : 1 .. MaxPolicy,
          expected : Nat, version : Version, revision : Nat]
    \cup [pc : {"write"}, cand : Candidate, from : SUBSET RowState, to : RowState]
    \cup [pc : {"settle"}, cand : Candidate, applied : BOOLEAN, revision : Nat]

ASSUME NoRowAssumption == NoRow \notin Row

VARIABLES
    row,          \* autopilot_transitions
    outcomes,     \* autopilot_transition_outcomes
    considered,   \* autopilot_candidate_considerations
    moves,        \* promotion_audits, with active_guidance and its revision
    authority,    \* newest policy with its calibration, and the Autopilot switch
    publication,  \* each candidate's publication against the activation scope
    expired,      \* candidates whose canary expiry has passed
    selection,    \* what the loop of each message remembers
    task,         \* what each hook is doing
    crashes       \* calls cut off so far

vars == <<row, outcomes, considered, moves, authority, publication, expired,
          selection, task, crashes>>
rowVars == <<row, outcomes, considered>>
envVars == <<authority, publication, expired, crashes>>

Init ==
    /\ row = [c \in Candidate |-> NoRow]
    /\ outcomes = {}
    /\ considered = {}
    /\ moves = <<>>
    /\ authority = [policy |-> 1, withdrawn |-> FALSE, enabled |-> TRUE]
    /\ publication = [c \in Candidate |-> "none"]
    /\ expired = {}
    /\ selection = [m \in Message |-> NoSelection]
    /\ task = [h \in Hook |-> Idle]
    /\ crashes = 0

-----------------------------------------------------------------------------
(* The guidance pointer *)

\* active_guidance_revisions: the pointer's revision counts its moves.
Revision == Len(moves)

\* active_guidance at a revision.
VersionAt(n) == IF n = 0 THEN NoVersion ELSE moves[n].version

Active == VersionAt(Revision)

\* PromotionCoordinator.promote and rollback, called by an operator: a CAS that
\* succeeded.  A rollback takes any stored version.
OperatorMoves(v) ==
    /\ Cardinality({i \in DOMAIN moves : moves[i].by = "operator"}) < MaxManual
    /\ moves' = Append(moves, [by |-> "operator", cand |-> NoVersion, version |-> v])
    /\ UNCHANGED <<rowVars, envVars, selection, task>>

-----------------------------------------------------------------------------
(* The authority of the v3 store *)

\* _authority_binding finds the newest policy and its calibration.
Bound == authority.enabled /\ ~authority.withdrawn

\* _row_identities and _published_candidate_matches.
Matches(c, policy) ==
    /\ row[c].policy = policy
    /\ publication[c] = "current"

\* provision_autopilot_control_plane, withdraw_policy_calibration, and the mode
\* of the Settings page.
Provision ==
    /\ "provision" \in Changes
    /\ authority.policy < MaxPolicy
    /\ authority' = [authority EXCEPT !.policy = @ + 1, !.withdrawn = FALSE]
Withdraw ==
    /\ "withdraw" \in Changes
    /\ ~authority.withdrawn
    /\ authority' = [authority EXCEPT !.withdrawn = TRUE]
Switch ==
    /\ "switch" \in Changes
    /\ authority' = [authority EXCEPT !.enabled = ~@]

\* sync_legacy_candidates publishes a candidate once, against the scope of then.
Publish(c) ==
    /\ publication[c] = "none"
    /\ publication' = [publication EXCEPT ![c] = "current"]

\* The activation scope moves to another revision.
ScopeMoves ==
    /\ "scope" \in Changes
    /\ \E c \in Candidate : publication[c] = "current"
    /\ publication' = [c \in Candidate |->
           IF publication[c] = "current" THEN "stale" ELSE publication[c]]

\* The expiry_seconds of a canary pass.
CanaryExpires(c) ==
    /\ "expiry" \in Changes
    /\ row[c] # NoRow
    /\ c \notin expired
    /\ expired' = expired \cup {c}

AuthorityStep ==
    /\ UNCHANGED <<rowVars, moves, selection, task, crashes>>
    /\ \/ (Provision \/ Withdraw \/ Switch) /\ UNCHANGED <<publication, expired>>
       \/ /\ ScopeMoves \/ \E c \in Candidate : Publish(c)
          /\ UNCHANGED <<authority, expired>>
       \/ (\E c \in Candidate : CanaryExpires(c)) /\ UNCHANGED <<authority, publication>>

-----------------------------------------------------------------------------
(* Tasks *)

Begin(h, t) ==
    /\ task[h] = Idle
    /\ task' = [task EXCEPT ![h] = t]

\* A message has one loop: no other hook is at work for it.
Free(m) == \A h \in Hook : task[h] # Idle /\ task[h].pc \in {"select", "record"} => task[h].msg # m

Continue(h, t) == task' = [task EXCEPT ![h] = t]
Finish(h) == Continue(h, Idle)

\* The process ends, or an exception leaves the runner.
Crash(h) ==
    /\ task[h] # Idle /\ crashes < MaxCrash
    /\ crashes' = crashes + 1
    /\ Finish(h)
    /\ UNCHANGED <<rowVars, moves, authority, publication, expired, selection>>

\* A conditional UPDATE of a row's state to come.
ToWrite(c, from, to) == [pc |-> "write", cand |-> c, from |-> from, to |-> to]

\* UPDATE ... WHERE candidate_id = ? AND state IN (...).
Write(h) ==
    LET t == task[h]
    IN  /\ task[h] # Idle /\ t.pc = "write"
        /\ row' = IF row[t.cand].state \in t.from
                  THEN [row EXCEPT ![t.cand].state = t.to] ELSE row
        /\ Finish(h)
        /\ UNCHANGED <<outcomes, considered, moves, envVars, selection>>

-----------------------------------------------------------------------------
(* Admission of candidates *)

\* The transition that occupies the bucket.
Occupying == {c \in Candidate : row[c] # NoRow /\ row[c].state \in Live}

\* reconcile_candidates takes up a candidate; consider_candidate reads its authority
\* and its publication.
Consider(h, c) ==
    /\ row[c] = NoRow /\ c \notin considered
    /\ Bound
    /\ publication[c] = "current"
    /\ Begin(h, [pc |-> "consider", cand |-> c, policy |-> authority.policy])
    /\ UNCHANGED <<rowVars, moves, envVars, selection>>

\* A candidate whose publication does not match is not considered again.
ConsiderUnpublished(h, c) ==
    /\ row[c] = NoRow /\ c \notin considered
    /\ Bound
    /\ publication[c] # "current"
    /\ task[h] = Idle
    /\ considered' = considered \cup {c}
    /\ UNCHANGED <<row, outcomes, moves, envVars, selection, task>>

\* The candidate, its artifact or its replay against the present baseline does not
\* verify.
Refuse(h) ==
    /\ task[h] # Idle /\ task[h].pc = "consider"
    /\ considered' = considered \cup {task[h].cand}
    /\ Finish(h)
    /\ UNCHANGED <<row, outcomes, moves, envVars, selection>>

NoCounts == [canary |-> 0, canaryFailed |-> 0, control |-> 0, controlFailed |-> 0,
             monitor |-> 0, monitorFailed |-> 0]

\* The transaction of consider_candidate: INSERT OR IGNORE unless the bucket is
\* occupied.  The baseline is the pointer as this transaction sees it; no replay
\* compares a candidate with itself.
Admit(h) ==
    LET t == task[h]
    IN  /\ task[h] # Idle /\ t.pc = "consider"
        /\ Occupying = {} => Active # t.cand
        /\ row' = IF Occupying = {} /\ row[t.cand] = NoRow
                  THEN [row EXCEPT ![t.cand] =
                          [state |-> "canary", base |-> Active, expected |-> Revision,
                           policy |-> t.policy, count |-> NoCounts]]
                  ELSE row
        /\ Finish(h)
        /\ UNCHANGED <<outcomes, considered, moves, envVars, selection>>

\* reconcile_candidates reads the authority and calls _expire_canaries.
BeginExpire(h) ==
    /\ Bound
    /\ Begin(h, [pc |-> "expire", policy |-> authority.policy])
    /\ UNCHANGED <<rowVars, moves, envVars, selection>>

\* _expire_canaries.  It passes over a row whose publication cannot be read.
ExpireCanaries(h) ==
    LET t == task[h]
        late == {c \in Occupying \cap expired : row[c].state = "canary" /\ Matches(c, t.policy)}
    IN  /\ task[h] # Idle /\ t.pc = "expire"
        /\ \E out \in SUBSET late :
              row' = [c \in Candidate |->
                         IF c \in out THEN [row[c] EXCEPT !.state = "rejected"] ELSE row[c]]
        /\ Finish(h)
        /\ UNCHANGED <<outcomes, considered, moves, envVars, selection>>

-----------------------------------------------------------------------------
(* Selection of guidance for a message *)

BeginSelect(h, m) ==
    /\ selection[m] = NoSelection
    /\ Free(m)
    /\ Bound
    /\ Begin(h, [pc |-> "select", msg |-> m, policy |-> authority.policy])
    /\ UNCHANGED <<rowVars, moves, envVars, selection>>

\* canary_assignment_value: the arm is a function of candidate and message.
ArmOf(c, m) ==
    IF row[c].state = "canary" /\ <<c, m>> \in Control THEN "incumbent" ELSE "candidate"

\* The pointer is where the row needs it: at the baseline, or at the candidate.
InPlace(c) ==
    /\ Active = IF row[c].state = "canary" THEN row[c].base ELSE c
    /\ Revision = row[c].expected

\* The row select_guidance acts on.
Exposed == {c \in Occupying : row[c].state \in {"canary", "monitoring"}}

\* The UPDATE of a row whose authority was not found.  Whatever goes wrong with the
\* reading of its publication is taken for that, so it may come at any time.
Drifted(c) == {ToWrite(c, {"canary", "monitoring"}, "recovery_required")}

\* What makes a row unfit for exposure or evidence, in the order of the code's
\* tests, with the UPDATE that says so.
Objection(c, policy) ==
    IF ~Matches(c, policy) THEN Drifted(c)
    ELSE IF row[c].state = "canary" /\ c \in expired
    THEN {ToWrite(c, {"canary"}, "rejected")}
    ELSE IF ~InPlace(c) THEN {ToWrite(c, {row[c].state}, "recovery_required")}
    ELSE {}

\* select_guidance, from the row on.  Its two reads of the pointer are one here: a
\* move between them shows in the revision.
SelectGuidance(h) ==
    LET t == task[h]
    IN  /\ task[h] # Idle /\ t.pc = "select"
        /\ \/ Exposed = {} /\ Finish(h) /\ UNCHANGED selection
           \/ \E c \in Exposed :
                 \/ /\ \E w \in Objection(c, t.policy) \cup Drifted(c) : Continue(h, w)
                    /\ UNCHANGED selection
                 \/ /\ Objection(c, t.policy) = {}
                    /\ selection' = [selection EXCEPT ![t.msg] =
                          [cand |-> c, state |-> row[c].state, arm |-> ArmOf(c, t.msg)]]
                    /\ Finish(h)
        /\ UNCHANGED <<rowVars, moves, envVars>>

\* The artifact that the arm needs expired or does not verify.
ArtifactUnavailable(h) ==
    LET t == task[h]
    IN  /\ task[h] # Idle /\ t.pc = "select"
        /\ \E c \in Exposed :
              /\ Objection(c, t.policy) = {}
              /\ ArmOf(c, t.msg) = "candidate" \/ row[c].base # NoVersion
              /\ Continue(h, ToWrite(c, {"canary", "monitoring"}, "recovery_required"))
        /\ UNCHANGED <<rowVars, moves, envVars, selection>>

\* The message ends with an unknown outcome or without authority, or its process
\* ends.
Forget(m) ==
    /\ selection[m] # NoSelection
    /\ Free(m)
    /\ selection' = [selection EXCEPT ![m] = NoSelection]
    /\ UNCHANGED <<rowVars, moves, envVars, task>>

-----------------------------------------------------------------------------
(* Outcomes *)

\* record_outcome reads its authority.
BeginRecord(h, m) ==
    /\ selection[m] # NoSelection
    /\ Free(m)
    /\ Bound
    /\ Begin(h, [pc |-> "record", msg |-> m, policy |-> authority.policy])
    /\ UNCHANGED <<rowVars, moves, envVars, selection>>

One(b) == IF b THEN 1 ELSE 0

\* The observation columns after an outcome.
Counted(n, s, r) ==
    IF s.state = "monitoring"
    THEN [n EXCEPT !.monitor = @ + 1, !.monitorFailed = @ + One(~r.success)]
    ELSE IF s.arm = "candidate"
    THEN [n EXCEPT !.canary = @ + 1, !.canaryFailed = @ + One(~r.success)]
    ELSE [n EXCEPT !.control = @ + 1, !.controlFailed = @ + One(~r.success)]

\* Mutant: a message may report again.
NeverCounted(c, m) == FALSE

\* The primary key of autopilot_transition_outcomes.
Reported(c, m) == \E o \in outcomes : o.cand = c /\ o.msg = m

\* Whether f/n - g/m > margin.  The code divides floats: it agrees with the exact
\* comparison unless the two sides are equal, where rounding decides (not if one
\* side is a plain quotient).
Regressed(f, n, g, m, margin) ==
    LET delta == (f * m - g * n) * margin.den
        bound == margin.num * n * m
    IN  IF delta = bound /\ margin.num # 0 /\ g # 0 THEN BOOLEAN ELSE {delta > bound}

\* Mutant: the decision waits for the minimum in both arms, not for the horizon.
AnyTime(n, hard) ==
    IF hard > HardVeto THEN {"rejected"}
    ELSE IF n.canary < Minimum \/ n.control < Minimum THEN {"canary"}
    ELSE {IF reg THEN "rolled_back" ELSE "promoting" :
             reg \in Regressed(n.canaryFailed, n.canary, n.controlFailed, n.control, Margin)}

\* What a canary becomes.
CanaryVerdict(n, hard) ==
    IF hard > HardVeto THEN {"rejected"}
    ELSE IF n.canary + n.control < Horizon THEN {"canary"}
    ELSE IF n.canary < Minimum \/ n.control < Minimum THEN {"rejected"}
    ELSE {IF reg THEN "rolled_back" ELSE "promoting" :
             reg \in Regressed(n.canaryFailed, n.canary, n.controlFailed, n.control, Margin)}

\* Mutant: hard failures are judged like others.
SoftOnly(n, hard) ==
    IF n.control < 1 THEN {"recovery_required"}
    ELSE IF n.monitor % Look # 0 /\ n.monitor < MonitorHorizon THEN {"monitoring"}
    ELSE {IF reg THEN "rolling_back"
          ELSE IF n.monitor >= MonitorHorizon THEN "retained" ELSE "monitoring" :
             reg \in Regressed(n.monitorFailed, n.monitor, n.controlFailed, n.control,
                               MonitorMargin)}

\* What a monitored candidate becomes.
MonitorVerdict(n, hard) ==
    IF n.control < 1 THEN {"recovery_required"}
    ELSE IF hard > MonitorVeto THEN {"rolling_back"}
    ELSE IF n.monitor % Look # 0 /\ n.monitor < MonitorHorizon THEN {"monitoring"}
    ELSE {IF reg THEN "rolling_back"
          ELSE IF n.monitor >= MonitorHorizon THEN "retained" ELSE "monitoring" :
             reg \in Regressed(n.monitorFailed, n.monitor, n.controlFailed, n.control,
                               MonitorMargin)}

HardFailures(os, s) ==
    Cardinality({o \in os : o.cand = s.cand /\ o.state = s.state
                            /\ o.arm = "candidate" /\ o.hard})

\* The pointer move that a decided row needs.
ToMove(c, mode, policy, expected) ==
    [pc |-> "version", cand |-> c, mode |-> mode, policy |-> policy,
     expected |-> expected, version |-> NoVersion, revision |-> 0]

\* record_outcome cannot use the selection: the row moved on, or is unfit, or has
\* counted this message.  The hook forgets the selection either way.
DiscardOutcome(h) ==
    LET t == task[h]
        s == selection[t.msg]
        objection == Objection(s.cand, t.policy)
    IN  /\ task[h] # Idle /\ t.pc = "record"
        /\ \/ row[s.cand].state # s.state /\ UNCHANGED row
           \/ /\ row[s.cand].state = s.state
              /\ \E w \in objection \cup Drifted(s.cand) : row' = [row EXCEPT ![s.cand].state = w.to]
           \/ /\ row[s.cand].state = s.state /\ objection = {}
              /\ Reported(s.cand, t.msg)
              /\ UNCHANGED row
        /\ selection' = [selection EXCEPT ![t.msg] = NoSelection]
        /\ Finish(h)
        /\ UNCHANGED <<outcomes, considered, moves, envVars>>

\* record_outcome counts the outcome and decides, in one transaction; then it goes
\* on to move the pointer.
RecordOutcome(h, r) ==
    LET t == task[h]
        s == selection[t.msg]
        c == s.cand
        n == Counted(row[c].count, s, r)
        hard == HardFailures(outcomes', s)
    IN  /\ task[h] # Idle /\ t.pc = "record"
        /\ row[c].state = s.state
        /\ Objection(c, t.policy) = {}
        /\ ~Reported(c, t.msg)
        /\ outcomes' = outcomes \cup
              {[cand |-> c, msg |-> t.msg, state |-> s.state, arm |-> s.arm,
                success |-> r.success, hard |-> r.hard]}
        /\ \E next \in IF s.state = "canary" THEN CanaryVerdict(n, hard)
                                             ELSE MonitorVerdict(n, hard) :
              /\ row' = [row EXCEPT ![c].count = n, ![c].state = next]
              /\ IF next \in {"promoting", "rolling_back"}
                 THEN Continue(h, ToMove(c, next, t.policy, row[c].expected))
                 ELSE Finish(h)
        /\ selection' = [selection EXCEPT ![t.msg] = NoSelection]
        /\ UNCHANGED <<considered, moves, envVars>>

-----------------------------------------------------------------------------
(* Resuming interrupted moves *)

\* Mutant: an interrupted rollback is not taken up.
ResumePromotions(h) ==
    /\ \E c \in Occupying :
          /\ row[c].state = "promoting"
          /\ Begin(h, [pc |-> "resume", cand |-> c, mode |-> row[c].state,
                       expected |-> row[c].expected])
    /\ UNCHANGED <<rowVars, moves, envVars, selection>>

\* resume_incomplete_transitions reads the rows first.
BeginResume(h) ==
    /\ \E c \in Occupying :
          /\ row[c].state \in {"promoting", "rolling_back"}
          /\ Begin(h, [pc |-> "resume", cand |-> c, mode |-> row[c].state,
                       expected |-> row[c].expected])
    /\ UNCHANGED <<rowVars, moves, envVars, selection>>

\* Then the authority; without one it leaves the row alone.  A publication that cannot
\* be read is taken for one that does not match.
Resume(h) ==
    LET t == task[h]
    IN  /\ task[h] # Idle /\ t.pc = "resume"
        /\ \/ ~Bound /\ Finish(h)
           \/ /\ Bound
              /\ Continue(h, ToWrite(t.cand, {t.mode}, "recovery_required"))
           \/ /\ Bound /\ Matches(t.cand, authority.policy)
              /\ Continue(h, ToMove(t.cand, t.mode, authority.policy, t.expected))
        /\ UNCHANGED <<rowVars, moves, envVars, selection>>

-----------------------------------------------------------------------------
(* Moving the pointer: _promote_pending and _rollback_pending *)

Moving(h, pc) == task[h] # Idle /\ task[h].pc = pc

\* Where the move starts, and where it leads.
Source(t) == IF t.mode = "promoting" THEN row[t.cand].base ELSE t.cand
Target(t) == IF t.mode = "promoting" THEN t.cand ELSE row[t.cand].base

\* Mutant: any move to the next revision is taken for this one.
MovedOnce(t) == Revision = t.expected + 1

\* The version and the revision read are those the move leads to.
Made(t) == t.version = Target(t) /\ Revision = t.expected + 1

\* The last UPDATE of a move.
ToSettle(t, applied, revision) ==
    IF t.mode = "promoting"
    THEN [pc |-> "settle", cand |-> t.cand, applied |-> applied, revision |-> revision]
    ELSE ToWrite(t.cand, {"rolling_back"},
                 IF applied THEN "rolled_back" ELSE "recovery_required")

\* _active_slot reads the version, then the revision, on two connections.
ReadVersion(h) ==
    LET t == task[h]
    IN  /\ Moving(h, "version")
        /\ Continue(h, [t EXCEPT !.pc = "revision", !.version = Active])
        /\ UNCHANGED <<rowVars, moves, envVars, selection>>

\* What the two reads amount to: the move was made before, it is still to be made,
\* or another move came between.
ReadRevision(h) ==
    LET t == task[h]
        made == Made(t)
        late == t.mode = "promoting" /\ t.cand \in expired
        open == t.version = Source(t) /\ Revision = t.expected
    IN  /\ Moving(h, "revision")
        /\ \/ made /\ Continue(h, ToSettle(t, TRUE, Revision))
           \/ ~made /\ late /\ Continue(h, ToWrite(t.cand, {"promoting"}, "rejected"))
           \/ ~made /\ ~late /\ open /\ Continue(h, [t EXCEPT !.pc = "swap"])
           \/ ~made /\ ~late /\ ~open /\ Continue(h, ToSettle(t, FALSE, Revision))
        /\ UNCHANGED <<rowVars, moves, envVars, selection>>

\* _promote_pending finds that the artifact expired or does not verify.
CandidateUnavailable(h) ==
    LET t == task[h]
    IN  /\ Moving(h, "swap") /\ t.mode = "promoting"
        /\ Continue(h, ToWrite(t.cand, {"promoting"}, "rejected"))
        /\ UNCHANGED <<rowVars, moves, envVars, selection>>

\* Mutant: the authority read at the start is taken for the present one.
AsItWas(t) == TRUE

\* _require_current_binding, inside a transaction that keeps authority writers out.
\* It does not look at the Autopilot switch.
Authorized(t) ==
    /\ authority.policy = t.policy /\ ~authority.withdrawn
    /\ publication[t.cand] = "current"

\* Mutant: the revision is not compared.
Forced(t) == TRUE

\* compare_and_swap_active_guidance and clear_active_guidance.
Unmoved(t) ==
    /\ Revision = t.expected
    /\ Target(t) = NoVersion => Active # NoVersion

\* _authorized_pointer_mutation: the CAS under the authority fence.
SwapPointer(h) ==
    LET t == task[h]
    IN  /\ Moving(h, "swap")
        /\ Authorized(t)
        /\ IF Unmoved(t)
           THEN /\ moves' = Append(moves,
                      [by |-> IF t.mode = "promoting" THEN "promotion" ELSE "rollback",
                       cand |-> t.cand, version |-> Target(t)])
                /\ Continue(h, ToSettle(t, TRUE, Revision + 1))
           ELSE /\ Continue(h, [t EXCEPT !.pc = "reread", !.revision = Revision])
                /\ UNCHANGED moves
        /\ UNCHANGED <<rowVars, envVars, selection>>

\* PermissionError: the row stays as it is.
SwapRefused(h) ==
    /\ Moving(h, "swap")
    /\ ~Authorized(task[h])
    /\ Finish(h)
    /\ UNCHANGED <<rowVars, moves, envVars, selection>>

\* After a lost CAS the pointer is read again, twice.
RereadVersion(h) ==
    LET t == task[h]
    IN  /\ Moving(h, "reread")
        /\ Continue(h, [t EXCEPT !.pc = "recheck", !.version = Active])
        /\ UNCHANGED <<rowVars, moves, envVars, selection>>

RereadRevision(h) ==
    LET t == task[h]
    IN  /\ Moving(h, "recheck")
        /\ Continue(h, ToSettle(t, Made(t), IF Made(t) THEN Revision ELSE t.revision))
        /\ UNCHANGED <<rowVars, moves, envVars, selection>>

\* The last UPDATE of _promote_pending, WHERE state = 'promoting'.
Settle(h) ==
    LET t == task[h]
    IN  /\ Moving(h, "settle")
        /\ row' = IF row[t.cand].state = "promoting"
                  THEN [row EXCEPT
                          ![t.cand].state = IF t.applied THEN "monitoring" ELSE "rejected",
                          ![t.cand].expected = t.revision]
                  ELSE row
        /\ Finish(h)
        /\ UNCHANGED <<outcomes, considered, moves, envVars, selection>>

-----------------------------------------------------------------------------
AdmissionStep(h) ==
    \/ \E c \in Candidate : Consider(h, c) \/ ConsiderUnpublished(h, c)
    \/ Refuse(h) \/ Admit(h) \/ BeginExpire(h) \/ ExpireCanaries(h)

MessageStep(h) ==
    \/ \E m \in Message : BeginSelect(h, m) \/ BeginRecord(h, m)
    \/ SelectGuidance(h) \/ ArtifactUnavailable(h)
    \/ DiscardOutcome(h) \/ \E r \in Report : RecordOutcome(h, r)

\* The steps of a hook that resumes or makes a pointer move, after it began.
MoveStep(h) ==
    \/ Resume(h) \/ ReadVersion(h) \/ ReadRevision(h) \/ CandidateUnavailable(h)
    \/ SwapPointer(h) \/ SwapRefused(h) \/ RereadVersion(h) \/ RereadRevision(h)
    \/ Settle(h) \/ Write(h)

Next ==
    \/ \E v \in Candidate \cup Older : OperatorMoves(v)
    \/ AuthorityStep
    \/ \E m \in Message : Forget(m)
    \/ \E h \in Hook : AdmissionStep(h) \/ MessageStep(h) \/ BeginResume(h) \/ MoveStep(h)
                       \/ Crash(h)

Spec == Init /\ [][Next]_vars

\* A call, once made, comes to its end: no step of it waits.
Finishes(h) ==
    MoveStep(h) \/ Refuse(h) \/ Admit(h) \/ ExpireCanaries(h) \/ SelectGuidance(h)
    \/ DiscardOutcome(h) \/ \E r \in Report : RecordOutcome(h, r)

\* The message_loop_start hook resumes at a message once 30 seconds have passed; as
\* long as messages come, each hook resumes again and again.
FairSpec ==
    /\ Spec
    /\ \A h \in Hook : WF_vars(Finishes(h)) /\ SF_vars(BeginResume(h))

-----------------------------------------------------------------------------
(* Properties *)

TypeOK ==
    /\ row \in [Candidate -> Row \cup {NoRow}]
    /\ outcomes \subseteq Outcome
    /\ considered \subseteq Candidate
    /\ moves \in Seq(Move)
    /\ authority \in [policy : 1 .. MaxPolicy, withdrawn : BOOLEAN, enabled : BOOLEAN]
    /\ publication \in [Candidate -> {"none", "current", "stale"}]
    /\ expired \subseteq Candidate
    /\ selection \in [Message -> Selection \cup {NoSelection}]
    /\ task \in [Hook -> Task \cup {Idle}]
    /\ crashes \in 0 .. MaxCrash

\* However considerations, crashes and expiries interleave, one transition lives in
\* the bucket: the partial unique index of the table never refuses an INSERT.
OneLivePerBucket ==
    \A c, d \in Candidate :
        /\ row[c] # NoRow /\ row[c].state \in Live
        /\ row[d] # NoRow /\ row[d].state \in Live
        => c = d

Evidence(c, state, arm) ==
    {o \in outcomes : o.cand = c /\ o.state = state /\ o.arm = arm}
Failures(os) == {o \in os : ~o.success}
HardOnes(os) == {o \in os : o.hard}

\* Whether evidence os may pass for no worse, or for worse, than a control.
Worse(os, control, margin) ==
    Regressed(Cardinality(Failures(os)), Cardinality(os),
              Cardinality(Failures(control)), Cardinality(control), margin)

\* The counters of a row say what the outcome receipts say, and no message counts
\* twice, also when its loop runs record_outcome again.
EvidenceCountedOnce ==
    /\ \A o, p \in outcomes : o.cand = p.cand /\ o.msg = p.msg => o = p
    /\ \A c \in Candidate : row[c] # NoRow =>
          LET candidate == Evidence(c, "canary", "candidate")
              control   == Evidence(c, "canary", "incumbent")
              monitor   == Evidence(c, "monitoring", "candidate")
          IN  row[c].count =
                 [canary  |-> Cardinality(candidate),
                  control |-> Cardinality(control),
                  monitor |-> Cardinality(monitor),
                  canaryFailed  |-> Cardinality(Failures(candidate)),
                  controlFailed |-> Cardinality(Failures(control)),
                  monitorFailed |-> Cardinality(Failures(monitor))]

\* Every automatic promotion, also one made after a restart, rests on a canary that
\* was decided at exactly the calibrated horizon, had its minimum in both arms, no
\* more hard failures than allowed and no regression.
PromotionWasEarned ==
    \A i \in DOMAIN moves : moves[i].by = "promotion" =>
        LET c == moves[i].cand
            candidate == Evidence(c, "canary", "candidate")
            control   == Evidence(c, "canary", "incumbent")
        IN  /\ Cardinality(candidate) + Cardinality(control) = Horizon
            /\ Cardinality(candidate) >= Minimum /\ Cardinality(control) >= Minimum
            /\ Cardinality(HardOnes(candidate)) <= HardVeto
            /\ FALSE \in Worse(candidate, control, Margin)

\* A promoted candidate is kept only after the whole monitoring horizon, with no more
\* hard failures than allowed and no regression against the control of its canary; it
\* is undone only for one of the two.
KeptOrUndoneOnEvidence ==
    /\ \A c \in Candidate : row[c] # NoRow /\ row[c].state = "retained" =>
          LET monitor == Evidence(c, "monitoring", "candidate")
          IN  /\ Cardinality(monitor) = MonitorHorizon
              /\ Cardinality(HardOnes(monitor)) <= MonitorVeto
              /\ FALSE \in Worse(monitor, Evidence(c, "canary", "incumbent"), MonitorMargin)
    /\ \A i \in DOMAIN moves : moves[i].by = "rollback" =>
          LET monitor == Evidence(moves[i].cand, "monitoring", "candidate")
          IN  \/ Cardinality(HardOnes(monitor)) > MonitorVeto
              \/ TRUE \in Worse(monitor, Evidence(moves[i].cand, "canary", "incumbent"),
                                 MonitorMargin)

\* What is monitored, undone or kept was put in force at the revision the row names.
MonitoredWasInstalled ==
    \A c \in Candidate :
        row[c] # NoRow /\ row[c].state \in {"monitoring", "rolling_back", "retained", "rolled_back"}
        => \/ VersionAt(row[c].expected) = c
           \/ row[c].state = "rolled_back" /\ Evidence(c, "monitoring", "candidate") = {}

\* When the runner moves the pointer, the policy the candidate was admitted under is
\* still the newest, its calibration stands and its publication is current, whatever
\* happened since the hook read them.
AutomationMovesUnderAuthority ==
    [][Len(moves') > Len(moves) /\ moves'[Len(moves')].by # "operator" =>
          LET c == moves'[Len(moves')].cand
          IN  /\ row[c].policy = authority.policy /\ ~authority.withdrawn
              /\ publication[c] = "current"]_vars

\* A transition that ended stays as it ended: no late hook revives it or rewrites
\* how it ended.
RetiredStaysRetired ==
    [][\A c \in Candidate : row[c] # NoRow /\ row[c].state \notin Live => row'[c] = row[c]]_vars

\* The pointer is moved only as GuidancePointer says: a promotion replaces the very
\* baseline of the trial, at most once, and only the move that put the candidate in
\* force is undone.
Pointer == INSTANCE GuidancePointer WITH
    history  <- moves,
    baseline <- [c \in Candidate |-> IF row[c] = NoRow THEN NoRow ELSE row[c].base],
    NoTrial  <- NoRow
ImplementsGuidancePointer == Pointer!Spec

\* The row says a pointer move is decided, and not yet that it is made or given up.
HalfMoved(c) == row[c] # NoRow /\ row[c].state \in {"promoting", "rolling_back"}

\* A decided pointer move does not stay half made, whatever call was cut off where
\* and whatever changed meanwhile, if from some time on authority is found at all.
InterruptedMovesResolve ==
    <>[]Bound => \A c \in Candidate : HalfMoved(c) ~> ~HalfMoved(c)

\* README.md:74, "promotes with an active-revision compare-and-swap, monitors the
\* promoted artifact": after an automatic promotion the row is promoting, until it is
\* monitoring, and no other end.
PromotedIsMonitored ==
    \A c \in Candidate :
        /\ Revision > 0
        /\ moves[Revision].by = "promotion" /\ moves[Revision].cand = c
        => row[c].state # "rejected"

\* README.md:74, "automatically rolls back regressions without overwriting manual
\* pointer changes".
ManualChangesStand ==
    [][Len(moves') > Len(moves) /\ moves'[Len(moves')].by = "rollback" =>
          moves[Len(moves)].by # "operator"]_vars
=============================================================================
