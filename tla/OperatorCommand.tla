---------------------------- MODULE OperatorCommand ----------------------------
(***************************************************************************)
(* Signed operator commands, from their admission to the answer:           *)
(* api/operator_command.py, the adapters of transitions                    *)
(* (helpers/v3/command_adapter.py), canaries (canary_command_adapter.py,   *)
(* canary_repository.py), monitors (post_activation_command_adapter.py,    *)
(* post_activation_repository.py), work (work_command_adapter.py) and      *)
(* feedback (feedback_command_adapter.py, feedback.py), over one ledger;   *)
(* and the calibration commands of scripts/a0_local_authority.py           *)
(* (calibration_authority.py), which no session stands between.            *)
(*                                                                         *)
(* What a transition or a trial asks of the records it names is the matter *)
(* of ActivationAuthority, and what workers do with work that of           *)
(* WorkAuthority: here such a record may be found wanting at any time.     *)
(* One context is followed, and a digest is what it is the digest of.  A   *)
(* transaction is SQLite's, so it is one step; before it a request may     *)
(* stop anywhere.  An operator who did not hear the answer sends the       *)
(* command again, and so may one who did.                                  *)
(***************************************************************************)
EXTENDS SignedCommand

CONSTANTS
    Process,     \* requests handled at one time
    Families,    \* [actions, signers, together, monitored]: actions that share no state with those
                 \* of other families, who signs them under which key ([by, key]), a bound on the
                 \* requests handled at one time, and what the monitor slot holds at first
    Trial, Work, Evidence, Calibration,
    Annotations, \* [profile, kind, state] a person may submit
    MaxEffects   \* bound: commands that take effect

VARIABLES
    offers,      \* the family of actions under way
    scope,       \* the revision of the Activation Scope
    slots,       \* the operation slots of the context
    work,        \* state and fence of every Work Item
    assessments, \* feedback_assessment records
    calibrations, \* the state of every policy calibration
    commands,    \* operator commands, with their receipts
    effects,     \* history: how often a command took effect
    requests,    \* the requests being handled
    answers      \* the receipts that were answered

store       == <<scope, slots, work, assessments, calibrations, commands, effects>>
commandVars == <<authority, offers, store, requests, answers>>

Transitions == {"activate", "rollback"}
Canary      == {"canary_start", "canary_stop"}
Monitoring  == {"monitor_conclude", "requalification_start", "requalification_conclude"}
WorkActions == {"optimize", "work_cancel"}

\* A calibration command is given at the machine itself, and says which instant it is.
Local(action) == action = "policy_calibrate"

Class(action) == IF Local(action) THEN "policy_calibration_approval" ELSE "operator_authority_grant"

Kinds == {"canary", "monitor", "requalification"}

\* The slots a command names, and is held to.
Names(action) ==
    CASE action \in Transitions -> Kinds
      [] action \in Canary      -> {"canary"}
      [] action \in Monitoring  -> {"monitor", "requalification"}
      [] OTHER                  -> {}

Seen(action) == [k \in Names(action) |-> slots[k]]

NoWork    == [state |-> "none", fence |-> 0]
Initial   == [profile |-> None, kind |-> None, state |-> None]
NoRequest == [at |-> "idle", grant |-> None, body |-> None]

CommandInit ==
    /\ AuthorityInit
    /\ offers \in Families
    /\ scope = 0
    /\ slots = [k \in Kinds |-> [revision |-> 0, occupant |-> IF k = "monitor" THEN offers.monitored ELSE None]]
    /\ work = [w \in Work |-> NoWork]
    /\ calibrations = [c \in Calibration |-> "none"]
    /\ assessments = {} /\ commands = {} /\ effects = 0 /\ answers = {}
    /\ requests = [p \in Process |-> NoRequest]

-----------------------------------------------------------------------------
(* Commands *)

\* What a grant is bound to.
Binding(action, target, revision, by, key) ==
    [action |-> action, target |-> target, revision |-> revision, by |-> by, key |-> key]

\* A grant is good for the one operation.
CalibrationTargets == {"approve", "withdraw"} \X Calibration

\* The target and the revision of an action, as the operator sees the ledger.
Targets(action) ==
    CASE action \in Transitions \cup Monitoring -> {[target |-> "scope", revision |-> scope]}
      [] action = "canary_start"      -> [target : Trial, revision : {scope}]
      [] action = "canary_stop"       -> [target : Trial \cap {slots["canary"].occupant}, revision : {scope}]
      [] action = "optimize"          -> [target : Work, revision : {0}]
      [] action = "work_cancel"       -> {[target |-> w, revision |-> work[w].fence] : w \in Work}
      [] action = "feedback_submit"   -> [target : Evidence, revision : {0}]
      [] action = "policy_calibrate"  -> [target : CalibrationTargets, revision : {0}]

Bindings ==
    UNION {{Binding(a, t.target, t.revision, s.by, s.key) : t \in Targets(a), s \in offers.signers} : a \in offers.actions}

\* The rest of a command: the slots it observed, the instant it states, or an annotation.
Body(seen, at, operation, annotation, prior) ==
    [slots |-> seen, at |-> at, operation |-> operation, annotation |-> annotation, prior |-> prior]

\* An annotation is an initial one, or names the one it corrects or withdraws.
Annotates ==
    LET Annotated(operation, a, prior) == Body(Seen("feedback_submit"), 0, operation, a, prior)
    IN  {Annotated("assess", a, None) : a \in Annotations}
        \cup {Annotated("correct", a, prior) : a \in Annotations, prior \in assessments}
        \cup {Annotated("withdraw", [a EXCEPT !.state = "unavailable"], prior) :
                 a \in Annotations, prior \in assessments}

\* A cancellation is asked for, and completed when the attempt was cleaned up, or may not be.
Phases(action) == IF action = "optimize" THEN {"enqueue"} ELSE {"request", "complete", "uncertain"}

Bodies(action) ==
    CASE action = "feedback_submit" -> Annotates
      [] action \in WorkActions     -> {Body(Seen(action), clock, phase, Initial, None) : phase \in Phases(action)}
      [] Local(action)              -> {Body(Seen(action), at, None, Initial, None) : at \in 0..MaxClock}
      [] OTHER                      -> {Body(Seen(action), 0, None, Initial, None)}

Req(p) == [grant |-> requests[p].grant, body |-> requests[p].body]

Command(q) == q.grant.command

-----------------------------------------------------------------------------
(* Admission, outside any transaction *)

DropRequest(p) == requests' = [requests EXCEPT ![p] = NoRequest]

\* A work command states the very instant the server admits it at.
InstantHolds(action, body, now) == action \in WorkActions => body.at = now

\* A new command, or one that was sent before; either may be of an earlier grant.
SubmitCommand(p, g, body) ==
    /\ requests[p] = NoRequest
    /\ Cardinality({o \in Process : requests[o] # NoRequest}) < offers.together
    /\ ~Local(g.command.action) =>
          /\ Authorized(g, "operator_authority_grant", nonce, clock)
          /\ InstantHolds(g.command.action, body, clock)
    /\ requests' = [requests EXCEPT ![p] = [at |-> "admitted", grant |-> g, body |-> body]]
    /\ UNCHANGED <<authority, offers, store, answers>>

\* A canary command is planned first, under a grant that is verified again.
Plan(p) ==
    LET c == Command(Req(p)) IN
    /\ requests[p].at = "admitted" /\ c.action \in Canary
    /\ Authorized(requests[p].grant, "operator_authority_grant", requests[p].grant.nonce, clock)
    /\ requests[p].body.slots["canary"].occupant = IF c.action = "canary_start" THEN None ELSE c.target
    /\ requests' = [requests EXCEPT ![p].at = "planned"]
    /\ UNCHANGED <<authority, offers, store, answers>>

-----------------------------------------------------------------------------
(* The transaction *)

\* An idempotency key belongs to one subject and one action.
KeyOf(q) == <<Command(q).by, Command(q).action, Command(q).key>>

\* What the request digest covers: all of it, but of a calibration neither the instant
\* stated nor when the grant expires.
Digest(q) == IF Local(Command(q).action) THEN <<Command(q), q.grant.nonce>> ELSE <<q.grant, q.body>>

\* Mutant: only an exact repetition is found under its key.
ExactRepetitions(q) == {a \in commands : Digest(a.request) = Digest(q)}

PriorCommands(q) == {a \in commands : KeyOf(a.request) = KeyOf(q)}

\* The instant a request is judged at.
Instant(q) == IF Local(Command(q).action) THEN q.body.at ELSE clock

\* The revocations are read again, under the clock of the transaction.
GrantHolds(q) == Authorized(q.grant, Class(Command(q).action), q.grant.nonce, Instant(q))

\* Mutant: an annotation may be corrected whatever it is about.
AnyPrior(c, body) ==
    IF body.operation = "assess"
      THEN body.prior = None
      ELSE body.prior \in assessments /\ body.prior.by = c.by

\* A correction is of one's own annotation, about the same evidence, profile and kind.
PriorHolds(c, body) ==
    IF body.operation = "assess"
      THEN body.prior = None
      ELSE /\ body.prior \in assessments
           /\ body.prior.by = c.by
           /\ body.prior.evidence = c.target
           /\ body.prior.annotation.profile = body.annotation.profile
           /\ body.prior.annotation.kind = body.annotation.kind
           /\ body.prior.operation # "withdraw"

\* A trial is a record, and says which grant it was started under.
Started == {Command(a.request).target : a \in {b \in commands : Command(b.request).action = "canary_start"}}

\* Mutant: the slots may have moved within the revision of the scope.
OnlyScope(c, body) == scope = c.revision

\* The scope and every slot the command names are still what the operator saw.
ScopeHolds(c, body) ==
    /\ scope = c.revision
    /\ \A k \in Names(c.action) : slots[k] = body.slots[k]

Held(kind) == slots[kind].occupant # None

\* An activation concludes the trial and opens its monitor.
TransitionPermitted(c) == c.action = "activate" => Held("canary") /\ ~Held("monitor") /\ ~Held("requalification")

\* A conclusion is of the one slot that is held.
MonitoringPermitted(c) ==
    IF c.action = "requalification_conclude"
      THEN Held("requalification") /\ ~Held("monitor")
      ELSE Held("monitor") /\ ~Held("requalification")

WorkPermitted(c, body) ==
    LET w == work[c.target] IN
    IF c.action = "optimize"
      THEN w = NoWork
      ELSE /\ w.fence = c.revision
           /\ w.state \in IF body.operation = "request" THEN {"queued", "leased"} ELSE {"cancel_requested"}

\* Approved once, under its record's identity; withdrawn once, while approved.
CalibrationPermitted(c) ==
    calibrations[c.target[2]] = IF c.target[1] = "approve" THEN "none" ELSE "approved"

Allowed(c, body) ==
    /\ Names(c.action) # {} => ScopeHolds(c, body)
    /\ CASE c.action \in Transitions -> TransitionPermitted(c)
         [] c.action \in Canary      -> c.action = "canary_start" => c.target \notin Started
         [] c.action \in Monitoring  -> MonitoringPermitted(c)
         [] c.action \in WorkActions -> WorkPermitted(c, body)
         [] Local(c.action)          -> CalibrationPermitted(c)
         [] OTHER                    -> PriorHolds(c, body)

Occupied(kind, occupant) == [revision |-> slots[kind].revision + 1, occupant |-> occupant]

Emptied(kind) == IF Held(kind) THEN Occupied(kind, None) ELSE slots[kind]

\* A transition stops what it finds, an activation but to open the monitor of its trial.
Transits(c) ==
    /\ scope' = scope + 1
    /\ slots' = [k \in Kinds |->
                    IF c.action = "activate" /\ k = "monitor"
                      THEN Occupied(k, slots["canary"].occupant)
                      ELSE Emptied(k)]
    /\ UNCHANGED <<work, assessments, calibrations>>

Tries(c) ==
    /\ slots' = [slots EXCEPT !["canary"] = Occupied("canary", IF c.action = "canary_start" THEN c.target ELSE None)]
    /\ UNCHANGED <<scope, work, assessments, calibrations>>

\* A conclusion empties its slot; a requalification opens a window on what was monitored.
Concludes(c) ==
    /\ slots' = [slots EXCEPT !["monitor"] = Emptied("monitor"),
                              !["requalification"] =
                                 IF c.action = "requalification_start"
                                   THEN Occupied("requalification", slots["monitor"].occupant)
                                   ELSE Emptied("requalification")]
    /\ UNCHANGED <<scope, work, assessments, calibrations>>

\* Only a request of queued or leased work takes the fence.
Cancelled(w, phase) ==
    CASE phase = "request"   -> [state |-> IF w.state = "queued" THEN "cancelled" ELSE "cancel_requested",
                                 fence |-> w.fence + 1]
      [] phase = "complete"  -> [w EXCEPT !.state = "cancelled"]
      [] phase = "uncertain" -> [w EXCEPT !.state = "failed"]

Works(c, body) ==
    /\ work' = [work EXCEPT ![c.target] =
                   IF c.action = "optimize" THEN [state |-> "queued", fence |-> 0] ELSE Cancelled(@, body.operation)]
    /\ UNCHANGED <<scope, slots, assessments, calibrations>>

Assessment(q) ==
    [by |-> Command(q).by, evidence |-> Command(q).target, key |-> Command(q).key,
     operation |-> q.body.operation, annotation |-> q.body.annotation, prior |-> q.body.prior]

Assesses(q) ==
    /\ assessments' = assessments \cup {Assessment(q)}
    /\ UNCHANGED <<scope, slots, work, calibrations>>

Calibrates(c) ==
    /\ calibrations' = [calibrations EXCEPT ![c.target[2]] = IF c.target[1] = "approve" THEN "approved" ELSE "withdrawn"]
    /\ UNCHANGED <<scope, slots, work, assessments>>

Effect(q) ==
    LET c == Command(q) IN
    CASE c.action \in Transitions -> Transits(c)
      [] c.action \in Canary      -> Tries(c)
      [] c.action \in Monitoring  -> Concludes(c)
      [] c.action \in WorkActions -> Works(c, q.body)
      [] Local(c.action)          -> Calibrates(c)
      [] OTHER                    -> Assesses(q)

\* What the receipt says the command left.
CommandReceipt(q) == [request |-> q, scope |-> scope', slots |-> [k \in Names(Command(q).action) |-> slots'[k]]]

AnswerWith(receipt) == answers' = answers \cup {receipt}

Begun(p) ==
    /\ requests[p] # NoRequest
    /\ requests[p].at = IF Command(Req(p)).action \in Canary THEN "planned" ELSE "admitted"

\* A canary or a monitor command is looked up before its grant is verified again, the
\* others after.
Known(p) ==
    LET q == Req(p) IN PriorCommands(q) # {} /\ (Command(q).action \in Canary \cup Monitoring \/ GrantHolds(q))

\* A receipt is returned for an exact repetition, and one that names slots only while what
\* it left is still there.
Repeats(q, a) ==
    /\ Digest(a.request) = Digest(q)
    /\ Names(Command(q).action) # {} => a.scope = scope /\ a.slots = Seen(Command(q).action)

ReplayCommand(p) ==
    /\ Begun(p) /\ Known(p)
    /\ \E a \in PriorCommands(Req(p)) : Repeats(Req(p), a) /\ AnswerWith(a)
    /\ DropRequest(p)
    /\ UNCHANGED <<authority, offers, store>>

ExecuteCommand(p) ==
    LET q == Req(p) IN
    /\ Begun(p) /\ PriorCommands(q) = {}
    /\ GrantHolds(q)
    /\ Allowed(Command(q), q.body)
    /\ effects < MaxEffects
    /\ Effect(q)
    /\ commands' = commands \cup {CommandReceipt(q)}
    /\ effects' = effects + 1
    /\ AnswerWith(CommandReceipt(q))
    /\ DropRequest(p)
    /\ UNCHANGED <<authority, offers>>

\* A conflict, a denial, a record that is wanting, an error, or the end of the process.
StopRequest(p) ==
    /\ requests[p] # NoRequest
    /\ DropRequest(p)
    /\ UNCHANGED <<authority, offers, store, answers>>

-----------------------------------------------------------------------------
(* The reduction of annotations: reduce_feedback *)

About(evidence, profile) == {a \in assessments : a.evidence = evidence /\ a.annotation.profile = profile}

\* It raises on a lineage that is not whole, or that changes its person or its kind.
Reducible(records) ==
    \A a \in records : a.prior # None =>
        /\ a.prior \in records
        /\ a.prior.by = a.by
        /\ a.prior.annotation.kind = a.annotation.kind

-----------------------------------------------------------------------------
\* A worker takes a queued Work Item.
Claim(w) ==
    /\ work[w].state = "queued"
    /\ work' = [work EXCEPT ![w] = [state |-> "leased", fence |-> @.fence + 1]]
    /\ UNCHANGED <<authority, offers, scope, slots, assessments, calibrations, commands, effects, requests, answers>>

\* Revocations matter to a request that was admitted and has not ended.
RevokeRequested ==
    \E p \in Process, at \in clock..MaxClock :
        /\ requests[p] # NoRequest
        /\ AppendRevocation(requests[p].grant, Class(Command(Req(p)).action), at)

HandleRequest(p) ==
    \/ \E g \in Grants(Bindings) : \E body \in Bodies(g.command.action) : SubmitCommand(p, g, body)
    \/ \E a \in commands : SubmitCommand(p, a.request.grant, a.request.body)
    \/ Plan(p) \/ ReplayCommand(p) \/ ExecuteCommand(p) \/ StopRequest(p)

CommandNext ==
    \/ (Tick \/ RotateChallenge \/ RevokeRequested \/ FinishRevocation \/ FailRevocation)
         /\ UNCHANGED <<offers, store, requests, answers>>
    \/ \E p \in Process : HandleRequest(p)
    \/ \E w \in Work : Claim(w)

CommandSpec == CommandInit /\ [][CommandNext]_commandVars

-----------------------------------------------------------------------------
(* Properties *)

\* One grant is one effect: repeated, raced with itself, or used again for a command with
\* another body, it takes effect once; and whoever is told so is told what the ledger holds.
OneEffectPerGrant ==
    /\ Cardinality(commands) = effects
    /\ \A a, b \in commands : KeyOf(a.request) = KeyOf(b.request) => a = b
    /\ answers \subseteq commands

\* What an accepted command says it found in a slot, and what it left there.
Saw(a, kind)  == a.request.body.slots[kind]
Left(a, kind) == a.slots[kind]

Moves(kind) == {a \in commands : kind \in Names(Command(a.request).action) /\ Left(a, kind) # Saw(a, kind)}

Transited == {a \in commands : Command(a.request).action \in Transitions}

\* Nobody acts on a slot as it was: between the grant an operator signs over what was seen
\* and the transaction, other commands may move the slots.  What is in a slot, and what
\* every command that moved it was signed over, is what one command left there; no two
\* moved it on from the same; and no two transitions were made of one revision of the scope.
SlotsFollowCommands ==
    /\ \A kind \in Kinds :
          /\ \A a, b \in Moves(kind) : Saw(a, kind) = Saw(b, kind) => a = b
          /\ \A found \in {slots[kind]} \cup {Saw(a, kind) : a \in Moves(kind)} :
                found.revision # 0 => \E a \in Moves(kind) : Left(a, kind) = found
    /\ \A a, b \in Transited : Command(a.request).revision = Command(b.request).revision => a = b

\* Whatever was recorded about an evidence and a profile, the reduction can read it: the
\* corrections and withdrawals admitted one by one form whole lineages, each of one person
\* and one kind of question.
ReductionIsTotal == \A a \in assessments : Reducible(About(a.evidence, a.annotation.profile))

\* "Reuse with the same request digest returns the exact receipt"
\* (IMPLEMENTATION_SPEC.md:204): while its grant is good, a command that was accepted is
\* answered when it is sent again.
RepetitionsAreAnswered ==
    \A a \in commands :
        Authorized(a.request.grant, Class(Command(a.request).action), nonce, Instant(a.request)) =>
            /\ InstantHolds(Command(a.request).action, a.request.body, clock)
            /\ Repeats(a.request, a)

\* "withdrawn_assessment_is_terminal" (feedback.py:453): nothing corrects what was withdrawn.
WithdrawnIsTerminal ==
    [][\A a \in assessments' \ assessments :
          a.operation = "correct" => ~\E w \in assessments : w.operation = "withdraw" /\ w.prior = a.prior]_commandVars
=============================================================================
