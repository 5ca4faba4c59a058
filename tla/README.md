# A0 self-improvement: specifications and proofs

TLA+ specifications of the protocols of this plugin, model-checked with TLC, with
theorems about each of them proved with TLAPS. They are read beside the Python source: every
definition that models code is listed with its lines in `PROJECT.json` ("map"), and
each operator carries the name of the function or method it stands for.

## 1. The system

The plugin observes the tool calls of an Agent Zero, proposes better guidance prompts,
tries them as canaries, activates those that pass and rolls back those that regress.
There are two generations of code: the *v3* control plane (`helpers/v3/`), whose state
is one SQLite file written through `V3Repository.transaction()` (`BEGIN IMMEDIATE`,
whole commit or rollback) beside a few files on disk, and the *legacy* store, queue and
pointer (`helpers/*.py`), a second SQLite file. The automatic transition runner works
across both; the migration takes the content of the second into the first.

### Components

| Component (code) | State it keeps | Operations | Interacts with | What makes it correct |
|---|---|---|---|---|
| Work coordinator (`v3/work_authority.py` 527–1063) | `work_items`, `work_leases`, `worker_heartbeats`, `operator_commands` | enqueue, claim, heartbeat, cancellation, recovery, finalize | closed loop, command adapter | one publication, under the last fence; cancellation wins |
| Budget broker (`v3/work_authority.py` 1066–1395) | `budget_dimensions`, `budget_entries` | create, reserve, reconcile, mark unreconciled | leases of the coordinator | never over a limit; counters equal the journal |
| Closed loop (`v3/closed_loop*.py`) | step receipts, runner receipt | stages under a lease, resume, stop, finalize | coordinator | work, loop and receipt end together |
| Activation scope (`v3/activation*.py`) | `activation_scopes`, `operation_slots` | Genesis, activate, roll back, Safety Bypass | slots shared with canary, monitor, requalification | one chain of receipts; each activation earned |
| Canary commands, monitor, requalification (`v3/canary.py`, `canary_*repository.py`, `post_activation*.py`) | trials, conclusions, slots, events | start, stop, conclude | scope, calibration | one verdict; a stop never passes |
| Policy calibration (`v3/calibration_authority.py`) | calibrations and their lifecycle | approve, withdraw, reduce | canary, monitor, local commands | what is withdrawn is relied on no more |
| Canary runtime, outcome reduction (`v3/canary_runtime.py`, `runtime_composer.py`, `canary_outcome_reducer.py`) | exposures, observations, reductions | select, compose, record, reduce | canary slot, hooks | an exposure is of its arm's profile, under the trial that holds the slot |
| Repository (`v3/repository.py`, `schemas.py`, …) | all v3 tables | insert record, append event, slot and scope CAS | everything of v3 | append-only; fenced slots |
| Automatic transition runner (`autopilot_transition_runner.py`) | transitions, outcomes, the guidance pointer | consider, select, record, promote, roll back, expire, resume | legacy store *and* v3 | every automatic move is earned and authorized |
| Signed commands (`api/operator_command.py`, `v3/command_adapter.py`, `*_command_adapter.py`) | `operator_commands` | admit, plan, revalidate, execute, replay | all coordinators | one grant, one effect |
| Grants (`v3/authority*.py`, `api/authority_challenge.py`) | revocation files, challenges | rotate, revoke, authorize | signed commands, local commands | a revoked grant admits nothing |
| Feedback (`v3/feedback*.py`) | assessments | record, correct, withdraw, reduce | signed commands | every history can be reduced |
| Fixture authority (`v3/fixture*.py`) | drafts, reviews, events, an encrypted vault | draft, review, admit, withdraw | signed commands, replay | reviewed by another; withdrawn content is gone |
| Replay and evidence (`v3/replay_*.py`, `evidence.py`) | claims, receipts, dispositions | claim, run two arms, complete, reduce | scope | nothing worse is ready for promotion |
| Store authority, migration (`v3/store_*.py`, `migration*.py`) | manifest, generation, fenced ledger | start, resume, confirm, select | legacy store, quarantine | one authoritative store at any crash |
| Privacy quarantine (`v3/quarantine.py`, `privacy_lifecycle.py`) | two encrypted files, privacy ledger | export, waive, challenge, delete | migration | a deleted key stays deleted |
| Legacy queue and worker (`store.py`, `queue.py`, `_scheduler_coordinator.py`, `scheduler/worker.py`, `optimizer.py`) | jobs, leases, fences, candidates | enqueue, claim, renew, reclaim, run, settle | runner (approvals) | an ended job is never revived; approvals are of the latest run |
| Legacy promotion and pointer (`promotion.py`, `guidance.py`) | `active_guidance`, audits | promote, roll back | runner | a pointer is never moved from a revision nobody saw |
| Autopilot control plane, candidate publication (`v3/autopilot_*.py`, `candidate_publication.py`) | policy, cursor, candidate records | provision, publish | runner, scope | idempotent, bound to a scope revision |
| Process supervisor, observation, projections, configuration, HTTP readers, scripts, dashboard | – | see §7 | | |

`PROJECT.json` lists all of them with files and status, and under "hazards" what is hard to
test, at the line where it bites. In short:

- **interleaving of transactions.** A caller reads, decides and sends a command; others
  commit in between. Safety rests on what the transaction compares again: fence, scope
  revision, slot occupant, grant.
- **loss and repetition.** Acknowledgements are lost; commands come again, under the same
  key or a new one, or race with themselves.
- **crashes between two stores.** The runner writes two databases; a fixture is a row and two
  files; the migration is a ledger, a manifest and a generation; a deletion is three unlinks.
- **expiry.** Leases, deadlines, grants and canaries expire while their holder still works.
- **evidence.** Counts, horizons, vetoes and margins meet in one reduction, whose order of
  tests decides.

## 2. Modules

| Module | Models | State |
|---|---|---|
| `WorkAuthority` (`FencedWork` its promise) | work coordinator, budget broker | `item`, `lease`, `beat`, `issued`, `published`, `commands`, `ledger`, `usage`, `resv` |
| `ClosedLoop` (over `WorkAuthority`) | closed loop and its runner | `chain`, `receipt`, `proc` |
| `ActivationAuthority` (`ExclusiveOperations` its promise) | scope, slots, canary, monitor, requalification, calibration | `scope`, `slot`, `trial`, `conclusions`, `calibration`, `receipts`, `decisions`, `events` |
| `CanaryTrial` | canary runtime, prompts, reduction, conclusion | `scope`, `slot`, `now`, `trial`, `withdrawn`, `receipt`, `observed`, `reduction`, `conclusion`, `loop` |
| `AutopilotTransition` (`GuidancePointer` its promise) | automatic transition runner, pointer | `row`, `outcomes`, `considered`, `moves`, `authority`, `publication`, `expired`, `selection`, `task`, `crashes` |
| `SignedCommand` | grants, challenges, revocation files | `clock`, `nonce`, `revocations`, `revoking` |
| `OperatorCommand` (over `SignedCommand`) | signed commands of five families, feedback, calibration commands | `offers`, `scope`, `slots`, `work`, `assessments`, `calibrations`, `commands`, `effects`, `requests`, `answers` |
| `FixtureAuthority` (over `SignedCommand`) | fixtures and their vault | `drafts`, `reviews`, `events`, `accepted`, `cipher`, `wrapped`, `seals`, `writer`, `request`, `told` |
| `ReplayPair`, `EvidenceReduction` (over it) | paired replay; reduction of evidence | `claims`, `receipts`, `completions`, `process`, `ran`, `told`; `clock`, `scope`, `bundle`, `disposition` |
| `QuarantineDeletion`, `StoreCutover` (over it) | deletion of the quarantine; migration and cutover | the files, the ledger, `proc`, `deleter`, `session`, `told` |
| `OptimizationQueue` | legacy queue, worker, scheduling request | `now`, `job`, `lease`, `fence`, `runs`, `candidate`, `approval`, `context`, `request`, `forced`, `proc` |
| `…Proofs` (eight) | theorems about the module they are named after; `SignedCommandProofs` of `OperatorCommand` and `FixtureAuthority`, `EvidenceReductionProofs` also of `ReplayPair`, `StoreCutoverProofs` also of `QuarantineDeletion`, `AutopilotTransitionProofs` also of `OptimizationQueue` | |
| `MC…` (ten) | small instances for TLC | |

A transaction is one action, because SQLite has one writer and a raised exception undoes
everything: a refusal is a step that is not taken. What a caller read earlier, and what it
keeps in local variables, is part of the state where the code acts on it later. Records named
by a digest of their content are their content; a key, a nonce or an identity is a model value.

### WorkAuthority

One action per method of `WorkCoordinator` and `BudgetBroker`: `Enqueue`,
`RequestCancellation`, `CompleteCancellation` (signed commands: replay lookup, guards, update,
command row), `Claim`, `Heartbeat`, `Finalize`, `BeginExpiredLeaseRecovery`,
`CompleteRecovery`, `CreateLedger`, `Reserve`, `Reconcile`, `MarkUnreconciled`.

`item` is the `work_items` row with the marker columns the CHECK constraint speaks of, `lease`
the `work_leases` row, `beat` the fence of the heartbeat row, `resv` what the append-only
`budget_entries` of a reservation say. Two variables are history: `issued`, the identities
`claim` returned (a worker may use any of them for ever: so late, duplicated and reordered calls
are modelled), and `published`, those under which `finalize` inserted its write set. The code
never reads a clock, `now` is an argument, so an action takes any `Time`. What callers assert
(`FinalizationConditions`, `RecoveryConditions`, `cleanup_safe`) is an input: a conjunction that
must be TRUE is a refusal when it is not, and where the code goes on with FALSE it is quantified.

`FencedWork` is the promise: an epoch only grows; the right to publish is granted with a new
epoch and lost with a larger one; what is published is published once and ends the work.

### ClosedLoop

`RepositoryClosedLoopRunner.run` as a process that may crash at any point and run any request
again. `Look` and `Replay` are its first reads; `StopUnstarted`, `ClaimWork`, `Resume` and
`NotClaimed` what it does with them; then, stage after stage, `Beat` (a heartbeat),
`ReplayStage` (a stage committed before) or `ExecuteStage` (what
`RepositoryClosedLoopCoordinator.execute` commits under the lease); `FinishRun` is the
transaction that finalizes the Work Item and inserts the runner receipt, `Fail`, `Classify` and
`Stop` the ways out. `OthersStep` is everything others may do to the Work Item meanwhile:
cancel, recover, retry, of `WorkAuthority`, which the module extends. `chain` is the list of
step receipts; the edges of the loop (`AllStages`) are those of `closed_loop.py`, what a stage
decides is an input, and `Schedule` the instants of all heartbeats, which the runner fixes
before it begins.

### ActivationAuthority

One activation scope. Five coordinators touch its slots and guard them differently; the module
puts their transactions side by side: `InitializeGenesis`, `ApproveCalibration`,
`WithdrawCalibration`, `CanaryStart`, `CanaryStop`, `CanaryConclude`, `RecordConclusion` (the
conclusion beside an occupied slot that `activate_candidate` demands; only the tests write one),
`Activate`, `Rollback`, `SafetyBypass`, `MonitorConclude`, `RequalificationStart`,
`RequalificationConclude`. What a caller read before is an argument (`rev`, `stopped`, the record
it names). Which *signals* a conclusion carries is an input; the verdict is computed by
`Concludes`, the order of the tests in `plan_conclusion`.

`ExclusiveOperations` is the promise of the slots: operations of a kind exclude each other, run
under one revision, and never run again once ended. The refinement reads `ended` off the event
streams, so it also says the streams are right.

### CanaryTrial

What `ActivationAuthority` takes for granted of a trial: that its evidence is of what ran. The
loop of a unit is a process: `ReadScope` and `ReadSlot` select an arm by two reads outside a
transaction, `Compose` builds the prompt of that arm, `Rebuild`, `Unreadable` and `Rerun` do so
again (a prompt rebuilt in the loop, a store that cannot be read, a process restarted), and the
loop ends in `Record`, the transaction that compares the trial again before it writes the exposure,
or in `EndOrdinary`, without one. The hook that builds a prompt drops the selection of the last
(`Popped`), but only once it found the plugin enabled and the chat named
(`_30_dspy_rlm_guidance.py:62–74`): `RebuildDisabled` is a prompt built while the plugin was read as
disabled, also because its configuration could not be loaded, with the earlier selection left where
the hook at the loop's end finds it. `Reduce` is the certified reduction of a window that
the caller names, with `Signal` its arithmetic of missing, hard and incomparable outcomes;
`Conclude` the transaction that ends the trial and empties the slot. `Start`, `Withdraw`,
`Transition` and `Tick` happen between any two steps. A trial stands for its candidate; the arm
of a unit is a function of trial and unit (the assignment hash).

### AutopilotTransition

One objective bucket. A call of the runner is *not* one transaction: it reads the v3 store, then
the legacy store, decides, and writes, each on a connection of its own. A hook is a process with
a `task`, a record of where the call is and what it read; each step is one transaction or read,
and `Crash` ends a task at any of them.

| Action | Code |
|---|---|
| `Consider`, `ConsiderUnpublished`, `Refuse`, `Admit` | `reconcile_candidates`, `consider_candidate` and its insert transaction |
| `BeginExpire`, `ExpireCanaries` | `_expire_canaries` |
| `BeginSelect`, `SelectGuidance`, `ArtifactUnavailable` | `select_guidance` |
| `BeginRecord`, `RecordOutcome`, `DiscardOutcome`, `Forget` | `record_outcome` and the hook that calls it |
| `BeginResume`, `Resume` | `resume_incomplete_transitions` |
| `ReadVersion`, `ReadRevision`, `CandidateUnavailable`, `SwapPointer`, `SwapRefused`, `RereadVersion`, `RereadRevision`, `Settle` | `_promote_pending`, `_rollback_pending`, `_active_slot`, `_authorized_pointer_mutation` |
| `Write` | every `UPDATE ... WHERE candidate_id = ? AND state ...` that a decision ends in |
| `OperatorMoves` | `PromotionCoordinator.promote` and `rollback`, one successful CAS |
| `AuthorityStep`, `Crash` | provisioning, withdrawal, the switch, publication, scope changes, expiry; a call cut off |

`moves` is the list of `promotion_audits`; the pointer and its revision are functions of it
(`VersionAt`, `Revision`). The floats of the rates are compared exactly by `Regressed`; where
both sides are equal the rounding of the code decides, and the model leaves it open. Two calls
may be at work at once: the code is written for that (`BEGIN IMMEDIATE`, conditional updates),
and the hook at the start of a message loop resumes the transitions of other chats of the project
(`_20_dspy_rlm_project_genesis.py:159`). Whether evidence, artifacts and replay verify, how a
message ends and which arm it gets are inputs. So is whether the publication of a row can be read
(`Drifted`): the code takes any exception of that read for a publication that does not match, and
sends the row to `recovery_required`, or passes over it when it expires canaries.

`GuidancePointer` is the promise: a promotion replaces exactly the baseline of the trial, a
version is promoted at most once by the runner, and only the move that put a candidate in force
is undone, while an operator may move the pointer at any time.

### SignedCommand, OperatorCommand

`SignedCommand` is the authority a command carries: a grant is the set of its bindings (command,
nonce, expiry); `RotateChallenge` replaces the session's nonce; `AppendRevocation`,
`FinishRevocation` and `FailRevocation` write a file of the revocation directory in steps, and a
file that is not whole, or dated ahead, makes every grant unusable (`Readable`). `Authorized` is
what `authorize_grant` asks.

In `OperatorCommand` a request is a process: `SubmitCommand` admits it (the first verification) with
the slots its operator saw,
`Plan` does what its adapter does outside the transaction, and `ExecuteCommand`, `ReplayCommand`
or `DropRequest` is the transaction, which verifies the grant again under a fresh clock
(`GrantHolds`), looks up the key (`PriorCommands`, `Repeats`), compares scope and slots with what was
seen (`ScopeHolds`) and changes the store (`Effect`, by
family: `Transits`, `Tries`, `Concludes`, `Works`, `Assesses`, `Calibrates`); `StopRequest` ends a
request anywhere. The order differs by family and the model keeps it: canary and post-activation
commands look up a replay before they revalidate, the others after. The families share no state in
the code, so a behaviour follows one family (`offers`). Local calibration commands state their own
instant and have no session. `Claim` is a worker of `WorkAuthority` that takes the work meanwhile.

### FixtureAuthority

Every request assembles a coordinator of its own, whose memory holds what its resolvers hydrated.
`Submit` admits, `Execute` opens the transaction (`writer` is who has it) and either answers a
repetition (`Replay`), refuses, or goes on: a draft writes `SealCipher` and `SealKey`, two files,
before `Commit`; a withdrawal commits, then unlinks `UnlinkCipher` and `UnlinkKey` after the
transaction. `Rollback` and `Stop` may come between any two of these. `Whole` and `Permitted`
are what hydration and the coordinator ask; `Fate` is the list of a draft's events. A draft names its
author and a review its reviewer; anybody may admit or withdraw.

### ReplayPair, EvidenceReduction

`Claim` is the transaction before anything is dispatched; `RunArm` is what a provider does in one
arm (any conduct of its calls, refusals and failures, under the gateway's counters); `Complete` the
transaction that writes receipt and completion; `Replay` the answer to a repetition, `Stop` the
end of a process anywhere. `Verdict` is what `_run_arm` makes of an arm.

`EvidenceReduction` adds a caller that collects any set of eligible receipts into a bundle
(`Collect`; no code of the repository does this), time and scope that move on, and `Reduce`, whose
`Disposition` is the order of the tests in `reduce_evidence`. The gateway's counters (`Gateway`) are a
recursive function of the calls made so far, so that they can be reasoned about.

### QuarantineDeletion, StoreCutover

A file is what a reader sees and what survives a power loss (`seen`, `kept`); they differ until its
directory is synced. `QuarantineDeletion`: `Attest` (export or waiver), `IssueChallenge`, and a deletion as a
process: `Begin`, `Consume` (the intent), `UnlinkKey`, `SyncKey`, `UnlinkCipher`, `SyncCipher`,
`Mark`, `Complete`, with `Resume` after a crash. A deletion judges its challenge at the instant it
began.

`StoreCutover` composes it with the migration: `Invoke` (start, resume or confirm-cutover),
`Reserve` (the writer reservation of the legacy store), `AcquireLease`, `Recover`, then the phases
`Early`, `Capture`, `Seal` (six steps: each of the two files is created, written whole, and its
directory synced), `Retain`, `SnapshotVerified`, `Decrypt`, `Stage`, `Dispose`, `Project`, `Verify`,
`Await`, and the cutover `Swap` (the replacement of the manifest under its lock),
`SyncManifest`, `Finish`. `Select` is a coordinator that resolves the manifest and opens the store it
names; it reads the manifest again and is let in (`Open`) or turned away (`TurnAway`).
`WriteSource`, `Rival` (another run that cuts over),
`Crash`, `PowerLoss` and `DeleterCrash` happen anywhere. `Disposition` is what the decoder makes
of a legacy row.

### OptimizationQueue

`Enqueue` and `Announce` are the two halves of a scheduling request, `Cancel` the cancellation. A
worker process goes through `Reclaim`, `Claim` or `ClaimNothing`, `Optimize` (the run, with its
outcome), `LookForCancellation` and `Beat` (the loop that watches for cancellation and renews),
`Stage` or `Skip` (the candidate in the store of the queue), `Complete` or `Fail`, and `Say`,
`ReportStatus`, `Leave` (the context's status); `Start` and `Die` at any time. `SharedRoot` says
whether the worker's store is the one the optimizer staged its candidate in.

## 3. What is checked

Eleven runs pass. Deadlock is not checked: the systems may stop (work terminal, bounds used
up). All are of an unfair specification but `autopilot_authority`.

| Run | Instance | Shows |
|---|---|---|
| `work_coordination` | 2 work items, 2 attempts, 2 keys, instants 0..2; 2 reservations of one item, limit 3, amount 2 | cancellation wins; a command takes effect once; capacity is never exceeded; counters equal the journal; `FencedWork` is implemented |
| `closed_loop` | 1 work item, 2 attempts, 2 processes that may run either, cancellation and recovery | work, loop and receipt agree; a run reported cancelled was cancelled |
| `activation_scope` | 2 trials of a profile, revisions 0..3, conclusions that pass or were stopped | nothing outlives its revision; event streams explain slots; a rollback undoes one activation; activations are earned; no slot is displaced; `ExclusiveOperations` is implemented |
| `canary_trial` | 2 trials, 3 units, 4 kinds of outcome, horizon 3, one restart, one prompt rebuilt while disabled, one expiry | no exposure is of another profile than its arm's; a reduction passes on evidence only; an ended trial gains no exposure |
| `autopilot_races` | 1 candidate, an older version, 3 messages, 2 hooks, 1 operator's move, 1 crash | evidence counts once; what is monitored was put in force; promotion, retention and rollback rest on the calibrated evidence; `GuidancePointer` is implemented |
| `autopilot_authority` | 1 candidate, 3 messages, 1 hook, 1 crash; policy, calibration, switch, scope and expiry change at any time; fair calls | no automatic move without the authority of its admission; an interrupted move resolves |
| `operator_commands` | five families; 2 requests at a time, 3 effects, an expiry, a rotation, a revocation | one grant, one effect; no command moves a slot on from what its operator did not see; feedback can always be reduced |
| `fixture_commands` | 2 requests, 2 authors (one reviews, the other admits, both withdraw), 2 seals, an expiry, a rotation, a revocation | an accepted answer is recorded; admissions were reviewed by another; withdrawn content is gone |
| `replay_evidence` | 4 requests (a retry, a reused key, a wrong admission), 2 processes, 3 policies, 4 faults | an arm is dispatched once; answers are the receipt; readiness rests on replay; worse evidence never promotes; rejection rests on harm |
| `store_cutover` | 2 commands by 2 owners, 6 legacy rows in 2 contents, a legacy store that changes or a rival run before it, two crashes or power losses, one deletion | no checkpoint is ahead of what it attests; what is selected was verified; authority moves forward; a deleted key stays deleted |
| `optimization_queue` | 1 job, 2 processes with one stable id, 2 configurations, 3 runs, one forced request | approval is of the latest run of a running job; an ended job is never revived |

One more run, `lost_proposal`, ends in a violation: it is the finding of §4.

The type invariants, and invariants that are proved for all constants (§5: `PublishedOnce`,
`FenceIdentifiesAttempt`, `LeaseAgreesWithItem`, `OneLeasePerAttempt`, `AttemptsWithinCeiling`,
`SchemaChecks`, `TerminalIsFinal`, `FenceAdvances`, `CompletedWasSettled`, `MonitorXorWindow`,
`DecidedOnce`, `ScopeIsLastReceipt`, `StopNeverPasses`, `OneLivePerBucket`, `RetiredStaysRetired`),
stay in the modules and are not listed in the configurations; adding one to a `.cfg` checks it.

**Bounds and why they suffice.** Attempts, keys, work items, trials, hooks, processes, requests: two
of a kind are what it takes for one to displace, repeat or overtake the other. Crashes, restarts,
revocations, rotations and operator's moves (`Max…`) are one, unless said below: each is taken at
every point of the other steps. Clocks hold an instant before, at and after what expires.

- *Work.* Two enqueue keys are needed because work keys are unique over all work.
  `MaxAttempts = 2` lets a retry succeed and the next be refused. Limit 3 with amount 2: one
  reservation fits and the second fits only when the first used less. *Closed loop.* Four stages
  that decide nothing and branch nowhere are skipped; the two requests have the same instants.
- *Activation.* Three revisions hold an activation, its rollback or a second one, and a transition
  after those, which is what ancestry needs. Passed and stopped cover every use of a verdict by
  another coordinator. *Canary.* One bucket, authoritative trials, one loop open at a time, a
  withdrawal only while the trial holds the slot; one prompt is built again while the plugin is
disabled, which any loop may meet.
- *Autopilot.* `Horizon = 2`, `Minimum = 1` is the smallest canary with evidence in both arms; the
  first message gets the incumbent's arm, so that `Look = 1` leaves a third message for
  monitoring. Reports are success or a hard failure in the races, a soft one where authority
  changes. `Changes` names the kinds of change a run takes; the races take none.
- *Commands.* Three effects: a start, a stop and a transition are what it takes for the last to find a
  slot moved under an unmoved scope. A key per person and action, and a second where a correction needs it; feedback is
  read and written in one transaction, so its requests are taken one by one. A fixture's revocation
  is of a request admitted and not begun: later it meets no further verification.
- *Replay.* Two steps of which an arm may take one: the least in which a call is refused for order,
  for a bound or as live. *Cutover.* The rows are one of every kind that the decoder tells apart, and
  `MaxOutside = 1` lets the legacy store change, or a rival cut over instead of the run; both in one
  history, and a rival that follows the run, are covered by the proofs alone. Two failures: the loss of the wrapped key takes a crash and a power loss after it.
- *Queue.* `MaxRetries = 2`, `Ttl = 2`: a lease lapses while its worker runs, is reclaimed once, and
  is spent. A forced request over a job with a lapsed lease row raises in SQLite and is disabled.

Symmetry is used for identities that no action tells apart, and with safety properties only. Every
property was also run against a plausible bug in the code it is about ("mutants" in
`PROJECT.json`; the mutated operators stand beside the originals in the modules) and is violated
by it.

**Fairness.** One liveness property is claimed, `InterruptedMovesResolve`: a row that decided a
pointer move does not stay half made, whatever call was cut off and whatever authority changed,
provided that from some time on authority is found. It takes weak fairness of the steps of a call
that began (`Finishes`: no step waits for anything) and strong fairness of `BeginResume` (the hook
at the start of a message loop resumes at every message once 30 seconds have passed; strong,
because a hook may be busy with other calls in between). Crashes are bounded, as they must be for
any such claim. Elsewhere no fairness is assumed, because nothing in the code gives it: no sweep
ends queued work past its deadline, no scheduler concludes a canary, and no production code calls
`mark_unreconciled`, `begin_expired_lease_recovery`, `complete_recovery`, the budget broker, the
closed loop's runner, the replay coordinator or the canary conclusion coordinator: they are
library code that tests and operators drive.

## 4. Where code and documents part

**The finding.** `lost_proposal`: the optimizer persists a candidate with metadata it then goes on
changing (`helpers/optimizer.py:531`, `581`, `764`). A worker of the installed plugin works on that
very store, so its `INSERT OR IGNORE` keeps the older body, and the comparison of
`helpers/scheduler/worker.py:174` rejects every acceptable candidate, where `worker.py:118` says the
copy is idempotent and `tests/test_scheduler_worker.py:135` asserts `terminal == "candidate"`.

**Divergences.** Each is stated as a definition in its module; adding it to the `.cfg` of the module's
run (with the change noted) gives a counterexample. *SPEC* is `IMPLEMENTATION_SPEC.md`.

| Definition | The document | The code |
|---|---|---|
| `ConcludedCanaryMayActivate` | activation requires the canary slot to be *empty* (SPEC:451) | `activate_candidate` requires the concluded trial to *occupy* it (`activation_transition.py:457`), and the transactions that conclude a trial empty it |
| `AcceptedCommandsReplay` | the same request returns the exact receipt (SPEC:204, 455) | only while scope and slots are as the command left them (`activation_transition.py:1237`) |
| `ActivationRevalidatesCalibration` | activation revalidates its calibration (SPEC:461) | it reads the immutable record, which a withdrawal does not change (`activation_transition.py:843`) |
| `PromotedIsMonitored` | the runner promotes by compare-and-swap and monitors what it promoted (README.md:74) | version and revision are read apart: a second call around the first one's CAS rejects the row (`autopilot_transition_runner.py:796`) |
| `ManualChangesStand` | manual pointer changes are not overwritten (README.md:74) | an operator's promotion to the same version is taken for the runner's own, and rolled back (`:810`) |
| `NoLateRecord` | nothing late is committed after a lost lease (SPEC:724) | a stage asks for the fence, not for a live lease (`closed_loop_repository.py:431`) |
| `ResumesToFinalize` | a resumed loop that is over is finalized (`closed_loop_runner.py:290`) | a resume after the last stage asks for one more stage and fails (`:302–313`) |
| `PassedWasReduced` | the conclusion validates all exposure and horizon inputs (SPEC:449) | the counts come with the request (`canary_conclusion_repository.py:301`) |
| `ExposureIsWhatRan` | a canary is routed through the exact profile, and its exposure recorded (README.md:36) | a prompt rebuilt while the plugin is read as disabled carries no profile, and the selection of the prompt before it is recorded (`_30_dspy_rlm_guidance.py:69`, `_90_dspy_rlm_optimize.py:90`) |
| `QuarantineIsSynced` | `snapshot_verified` follows on files that were synced (SPEC:649) | the directory is synced after the file (`migration.py:277`); a command cut off in between is resumed over the files it finds, and never syncs it (`migration.py:552`) |
| `DeletionIsIrreversible` | a deletion destroys the quarantine for good (SPEC:672) | a migration resumed meanwhile may seal the quarantine again, under another key |
| `CommittedIsDurable` (with `MaxCommands = 3`) | the manifest is durable with its proof (SPEC:656) | a recovery that finds the manifest replaced does not sync its directory (`store_authority.py:130`, `264`) |
| `CutoverIsConfirmed` | the cutover takes an explicit confirmation (`tests/test_v3_local_migration_cli.py:143`) | `resume` checks the phase before it holds the barrier (`a0_local_authority.py:1039`) |
| `RunningIsReclaimable` | an expired lease is reclaimed (`tests/test_queue.py:68`) | a claim deletes lapsed leases, which a reclaim finds its jobs by (`store.py:810`, `906`): the job stays running for ever |
| `ContentIsGovernedOnce` | duplicates are refused (SPEC:635, `fixtures.py:536`) | the owners of contents are not hydrated for a draft (`fixture_runtime_service.py:250`) |
| `WithdrawnIsNotStranded` | released payloads are deleted on withdrawal (ADR 0005:21) | a process that ends after the commit leaves the content to a repetition, which the grant may no longer allow (`fixture_repository.py:281`) |
| `AdmittedIsReadable` | a withdrawal is of one exact draft (`fixtures.py:714`) | drafts of a fixture and content share their vault files (`fixture_vault.py:217`) |
| `OnlyFailuresAreRetried` | a retry is of a failed pair (`replay_adapter.py:544`) | a retry names a receipt; nothing checks that it failed |
| `RepetitionsAreAnswered` (one family `WorkFamily`, `Expiry = {2}`) | the same request returns the exact receipt (SPEC:204) | a work command must state the server's own instant, so a later repetition is refused (`work_command_adapter.py:231`) |
| `WithdrawnIsTerminal` | `withdrawn_assessment_is_terminal` (`feedback.py:453`) | only a prior that is itself a withdrawal is refused: the record it withdrew may still be corrected |

Some observations without a definition. A safe recovery or cancellation deletes the lease while a
reservation may be open; `reconcile` and `mark_unreconciled` load the lease first and then refuse for
ever (its capacity does stay blocked, which `work_coordination` checks). A monitor conclusion
that requires a rollback writes a request and leaves the scope. A grant binds its own id into the
digest of a command, so an operator whose challenge was rotated cannot repeat a command under its
key. A repeated local approval answers "approved" even when the calibration was withdrawn since
(`a0_local_authority.py:1576`). A crash between the two files of the vault blocks that fixture and
content until a withdrawal unlinks them. An incomplete replay claim stays incomplete for ever,
and a replay never asks whether its fixture was withdrawn since. An arm that exhausts its budget
records no usage, and a hard failure outside the cells a policy requires is ignored
(`evidence.py:742`). The scheduler's late "queued" report may overwrite a worker's terminal one.

## 5. What is proved

For every value of the constants that satisfies the named assumptions of the modules. Each
theorem is of `Spec` of the module it is about, or of the specification named in its row.

| Theorem | Says |
|---|---|
| `WorkAuthorityProofs!TypeCorrect` | `Spec => []TypeOK` |
| `LeasesAgree` | `Spec => [](LeaseAgreesWithItem /\ OneLeasePerAttempt)` |
| `FencesIdentifyAttempts`, `AtMostOnePublication`, `CancellationWins` | `[]FenceIdentifiesAttempt`, `[]PublishedOnce`, `[]CancelWins` |
| `CapacityIsSafe`, `PublicationsAreSettled` | `[]CapacityNeverExceeded`, `[]CompletedWasSettled` |
| `CommandsTakeEffectOnce`, `AttemptsAreBounded`, `SchemaAdmitsEveryStep` | `[]EachCommandTakesEffectOnce`, `[]AttemptsWithinCeiling`, `[]SchemaChecks` |
| `CountersMatchEntries` | `[]BudgetConserved` |
| `TerminalWorkIsFinal`, `FencesAdvance` | the action properties |
| `Implements` | `Spec => ImplementsFencedWork` |
| `ActivationAuthorityProofs!TypeCorrect` | `Spec => []TypeOK` |
| `OperationsAreCurrent`, `OneDecisionPending`, `ChainHolds` | `[]RunsUnderItsRevision`, `[]MonitorXorWindow`, `[]ScopeIsLastReceipt` |
| `ActivationsAreEarned`, `RollbacksUndo`, `OneVerdict` | `[]ActivationWasEarned`, `[]RollbackUndoesActivation`, `[]DecidedOnce` |
| `SlotsAreExclusive`, `StopsNeverPass` | `NothingIsDisplaced`, `StopNeverPasses` |
| `StreamsTellWhatRuns`, `OperationsAreExclusive` | `[]EventsExplainSlots`, `Spec => ImplementsExclusiveOperations` |
| `AutopilotTransitionProofs!TypeCorrect`, `BucketIsExclusive` | `[]TypeOK`, `[]OneLivePerBucket` |
| `EndsAreFinal`, `MovesAreAuthorized` | `RetiredStaysRetired`, `AutomationMovesUnderAuthority` |
| `OutcomesCountOnce` | `[]EvidenceCountedOnce` |
| `PromotionsAreEarned`, `EndsRestOnEvidence` | `[]PromotionWasEarned`, `[]KeptOrUndoneOnEvidence` |
| `ObservedIsInForce`, `PointerIsKept` | `[]MonitoredWasInstalled`, `Spec => ImplementsGuidancePointer` |
| `ClosedLoopProofs!CompletionIsWhole`, `CancelledReportsAreTrue` | `[]CompletedTogether`, `[]CancelledReportIsTrue` |
| `CanaryTrialProofs!ExposuresAreTrue`, `PassesAreEarned` | `[]ExposureIsOfItsArm`, `[]PassedOnEvidence` |
| `LateExposuresAreRefused` | `ExposuresEndWithTheTrial` |
| `SignedCommandProofs!CommandsTakeEffectOnce`, `FeedbackReduces`, `SlotsAreFollowed` | `CommandSpec => []OneEffectPerGrant`, `[]ReductionIsTotal`, `[]SlotsFollowCommands` |
| `AnswersAreRecorded`, `AdmissionsAreReviewed`, `WithdrawnContentIsGone` | `Spec => []AcceptedIsRecorded`, `[]AdmittedWasReviewed`, `[]WithdrawalDestroys` |
| `EvidenceReductionProofs!PairsRunOnce`, `AnswersHold` | `EvidenceSpec => []DispatchedOnce`, `[]AnswersAreTheReceipt` |
| `ReadinessIsEarned`, `RejectionIsEarned`, `WorseIsNeverPromoted` | `[]ReadyRestsOnReplay`, `[]RejectionRestsOnHarm`, `[]WorseNeverPromotes` |
| `StoreCutoverProofs!TypesHold`, `CheckpointsHold` | `[]TypeOK`, `[]CheckpointsAreTrue` |
| `SelectionIsVerified`, `KeysStayDeleted`, `AuthorityOnlyAdvances` | `[]SelectedIsVerified`, `[]DeletedKeyStaysDeleted`, `AuthorityMovesForward` |
| `AutopilotTransitionProofs!EndsStay`, `ApprovalsAreCurrent` | `QueueSpec => SettledStaysSettled`, `ApprovalIsCurrent` |

**WorkAuthority.** `TypeOK` is inductive by itself. Most of the rest needs only that a step moves
one item along few arrows: `ItemStep`, proved once (`StepMovesOneItem`), says that a step leaves
an item alone, or advances its fence, or ends it, never both reopening and publishing.
`PublishedOnce` is inductive beside the types: publishing needs a `leased` item, and a published
one is `completed`. `CancelHolds` strengthens `CancelWins` by the state of the item of each
cancellation. `FenceIdentifiesAttempt` bounds every issued fence by the item's, so that a claim's
`fence + 1` is new. `LeaseInv` joins `LeaseAgreesWithItem` and `OneLeasePerAttempt`, which hold
each other up. `SettledInv` adds that every reservation was made by an identity handed out
(`ReservationsBound`). `CountHolds` says that the identities of an item are as many as its attempt
count, so the ceiling of the count is one of the identities. `OnceHolds`, for commands: each phase
finds its item in a state that phase leaves for ever (`Admits`, and the states before and after
it). `ColumnsHold`, beside the leases, is what a CHECK of the schema asks. The refinement adds
that a leased item's fence is not zero, for the abstract `holder` uses zero for nobody. The
counters of a ledger are a *sum* over its reservations. `Sum` is a number of units (`Units`: pairs
of a reservation and a number up to its amount), so a reservation that is opened, settled or
blocked adds its units to one set and takes them from another, and `Tally` is inductive by the
cardinality of a union, without a recursion.

**ActivationAuthority.** The types need what runs: a monitor is named by its revision, so `Base` joins
the types (a slot holds an operation of its kind, the trial of a conclusion was written) with
`Running`. `Chain` adds to `ScopeIsLastReceipt` that no receipt is of a later revision, so that a
transition's receipt is the first of its own. `Earned` is what an activation's receipt says of its
trial; that no two activations cite one trial follows from the chain. A rollback names the receipt
that led to the present revision, so the chain gives the profile before it. `Fresh` bounds the slot
revisions that receipts name, from which the receipt of a change is new. `Decided` strengthens
`DecidedOnce`: once the present revision has a decision its monitor slot is empty, and once it has a
verdict both are. Every step of a coordinator either touches no stream, or ends what runs and appends
its end, or begins something new and appends its start (`Turns`); with `Sequenced` (an operation's
events are numbered from one, a start first) and `Explained` (what runs began and has not ended) that
is `EventsExplainSlots`. An operation has at most a start and an end because an end needs the
operation in its slot, and a new one a subject never met (`Met`). The refinement maps `ended` to
the subjects of the ends; each step is a stutter, an end, a begin, or the change of revision that
ends or finds no operation of the old one (`Epoch`).

**AutopilotTransition.** A call acts on what it read earlier, so `Inv` adds that what a call holds
*fits* the rows: it writes only to rows that exist and out of live states, it moves the pointer under
the policy of its row (`TasksFit`), what a loop remembers exists (`SelectionsFit`), and a message is
served by one hook at a time (`LoopsApart`). Every step satisfies `RowsKeep`: a row keeps its policy,
is left alone once it ended, and begins only in an empty bucket. The pointer moves in `SwapPointer`
alone (`WhoMoves`), whose transaction compares the authority with the policy of the row.

What that evidence is takes three more invariants, each over the one before. `EvidenceInv`: the
counts of a row equal the outcomes on record of it, by phase and arm, because a message has at most
one outcome for a candidate and the row counts in the transaction that inserts it; a row that
still gathers evidence is below its horizon (`Paced`). `VerdictInv`: a row that decided, a call that
carries the decision and a move that was made all cite evidence that is complete and that no later
step can take away (`Decided`, `Condemned`), so a crash between decision and move cannot cut them
loose. `PlaceInv` says where the pointer is: a
row that is on its way knows a revision at which its baseline was in force and after which it has
made no move (`AtBaseline`, `NotYet`), or the one its promotion led to (`Installed`); a call in the
middle of a move remembers a version that was in force at some revision since. The comparison of
version and revision in `SwapPointer` then makes `GuidancePointer` hold step by step (`TrialStep`,
`SwapStep`): the move of a call comes first for its candidate, and from exactly the baseline.

**ClosedLoop.** `Items` says of the columns of a Work Item what the runner relies on (a cancelled item
bears its marker, which nothing takes back). `Locals`: what a process remembers is still so, such as a
fence it was granted or a chain it read, unless an action that compares it again would refuse.
`Steps`: the i-th receipt of a chain is of stage i. `Results`: a receipt is completed exactly for the
attempt that published. `StageAssumption` says that the stages of the instance are distinct and end
in the last one; TLC evaluates it, since a fact about a filtered sequence is an induction over data.

**CanaryTrial.** `TrialInv` follows what a loop knows. It has a selection only from the slot it read
until its end; what stands at its prompt was composed from the profile of the selected arm, unless
the scope moved on since (`Composes`), or has no profile, because it was built while the plugin was
disabled. A store that cannot be read is no such case: its prompt has no selection beside it. The transaction that records selects again, and a
selection it finds again was not overtaken, so the profile the exposure stands for is the one
composed. Receipts never change (`Assigns`), so the window of a reduction stays on record
(`Reduces`), and the signal and verdict on it are functions of the window (`Concluded`). The sums of
the outcomes are numbers of units, as in the budget; a difference of means is a comparison of
products of sums and counts, carried to a number of pairs by a bijection. The horizon and
the limits follow from the order of the tests.

**OperatorCommand.** Only `ExecuteCommand` writes the journal, under a key that no accepted
command shares; `Counted` says that effects are as many as accepted commands, which are finitely
many. `Followed` adds to `SlotsFollowCommands` that what a command saw in a slot is of an earlier
revision than what is there now (and a transition's scope of an earlier one than the present), so
that what the next one sees was seen by nobody who moved it; a step moves a slot only if its command
names it (`EffectMoves`).
`Lineages` says of every correction that its prior is there, is by the same person about the same
question, and came earlier; with it a reduction is defined.

**FixtureAuthority.** `Shaped` and `Journal`: one request writes at a time, nobody else accepts a
command under its key, and a request that unlinks has its withdrawal recorded. `Histories`: what a
transaction asked when it began holds until it commits, and a draft's events are none, admitted, or
admitted and withdrawn. `Vaulted`: a seal is used once, so that a ciphertext once gone is gone for
good, whatever is sealed in its place. `NobodyAssumption` says that no request is the null value.

**EvidenceReduction.** `ReplayInv`: a request under way is claimed and has no receipt, no other
process runs it, and what its process keeps is what the provider did; a receipt says exactly that.
An arm with a verdict is `Sound`: it ran inert and within its bounds. What the gateway does over the
calls of an arm is a recursive function, and no instance of an induction scheme can be cited; but
the naturals are well founded, a fact without an operator parameter, so a claim about the n-th
call that failed somewhere would have a least counterexample (`LeastNumber`), and the step before it
refutes it. `Founded`, `Shaped` and `Says` carry this to a bundle and its disposition: a list of
codes is empty exactly when each of its tests passed, so a ready disposition gives back every
test. For `WorseNeverPromotes`, a worse bundle has as many pairs in a cell, no more of the candidate's
passed, no fewer of the incumbent's, and no code fewer (`NoBetter`); each metric is monotone in these
counts, by cross-multiplication.

**StoreCutover.** `IInv` has four parts. `Order`: who holds which lock where, and how far the
ledger is where a command is. `Quarantine`: a data key is drawn once; the ciphertext is on disk
before there is a wrapped key (`Synchronised`), and the key is synced, or a command was cut off in
between (`Syncing`), so that losing it takes a second failure; the retained files stay until a deletion of exactly them is admitted, and a deletion removes
the key before the ciphertext and records only what is off the disk. `Migrated`: what the ledger
attests is there, the generation holds what the retained snapshot held, a manifest that commits
cites the receipt of the generation. `Answered`: the command that replaced the manifest is not
answered before it is on disk. What orders the writers up to the cutover is the barrier of the legacy store, not the fence
of the lease: a command holds the barrier wherever it writes, also when its lease lapsed and
another took it over (`Advances`, `Runs`). Only who holds the lock of the manifest replaces or
syncs it (`HeldBy`). Facts about phases that did not move are carried by what a step may write
(`Grows`, `Taken`, `WritesGeneration`, `WritesLedger`) instead of by one proof per phase and
action.

**OptimizationQueue.** `QueueInv`: there is a lease only for a running job, under its last token; tokens
number the runs that were claimed; and a process at work knows the run it claimed. A process that
holds the lease of its job (`Holds`) therefore works on the latest run of a running job, although the
processes share one identity: the token tells them apart. Reclaiming and cancelling end a job only
together with its lease. A forced request replaces only a job without a lease, so no late worker
can settle the new one.

**Assumptions.** All are named and stand in the module that declares the constants: the null values
are no members of the sets they complete, times and bounds are numbers, a plan's thresholds are in
range, a policy is one that its constructor admits, requests are finitely many, and the stages of
the closed loop are distinct. TLC evaluates each on the instance of a run.

**Only model-checked.** Every invariant, action property and refinement that a passing run checks is
a theorem. Liveness (`InterruptedMovesResolve`) is out of the prover's reach and stays with TLC. What
the definitions of §4 say is false of the code, which a counterexample shows and a proof cannot.

## 6. Plan

What would add most, in this order.

1. Theorems that join modules: that the trial `ActivationAuthority` decides on is one of
   `CanaryTrial` (a refinement that maps its slot, trials and verdicts), and that a run reported by
   `ClosedLoop` leaves `FencedWork` implemented for the steps of its runner.
2. `CanaryTrial` with several buckets, and with the conclusion's counts checked against the
   reduction, once the code does so.
3. Provisioning of the control plane: policy file, automatic grants, publication cursor.
4. `ProcessSupervisor`: process groups, reused identifiers, orphans, once something starts it.
5. Guidance staging and prompt activation of the legacy store.

## 7. Not modelled

- *Process supervisor*: no production code starts it; its steps are calls of the operating system.
- *Candidate publication* beyond the binding to a scope revision, *GEPA outcome selection*, *text
  metrics* and *model calls*: deterministic assembly and validation of fields, or free inputs.
- *Observation and its bridge*: one append-only insert each, that no modelled decision reads.
- *Model routes, configuration, telemetry, redaction, rendering, the reading and retired HTTP
  handlers, the dashboard, release scripts*: no protocol of their own.
- *Signatures, encryption, canonical encoding, digests*: taken to be injective and unforgeable; a
  record's identity is its content. *SQLite's* atomicity and triggers are taken as documented;
  `SchemaChecks` and `EventsExplainSlots` say that no modelled transaction depends on being refused
  by a CHECK or a UNIQUE index.
- Legacy paths without a caller (`state.fail_job`, `mark_job_done`, `set_job_running`,
  `read_content`, `build_manifest` and the like) and the rewriting of live rows by an upgrade of
  the store's schema.
