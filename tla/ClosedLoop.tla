------------------------------ MODULE ClosedLoop ------------------------------
(***************************************************************************)
(* The durable closed loop and its runner: RepositoryClosedLoopCoordinator *)
(* of helpers/v3/closed_loop_repository.py, which commits the stages of    *)
(* helpers/v3/closed_loop.py one by one, and RepositoryClosedLoopRunner of *)
(* helpers/v3/closed_loop_runner.py, which claims a Work Item, drives the  *)
(* stages under heartbeats and finalizes the item with its receipt.        *)
(* Composed with WorkAuthority, whose claim, heartbeat and finalize are    *)
(* the runner's transactions and whose other operations are made by others *)
(* between any two of its steps.                                           *)
(*                                                                         *)
(* A process runs the request of one attempt and may crash anywhere; two   *)
(* processes may run one request, as a retry after a lost acknowledgement  *)
(* does.  Reads outside a transaction and transactions are actions of      *)
(* their own.  Records are their identities: a digest is the record, and   *)
(* the loop of a Work Item is the plan that binds its frozen input.        *)
(***************************************************************************)
EXTENDS Integers, Sequences, FiniteSets

LOCAL INSTANCE SequencesExt

CONSTANTS
    Work, Attempt, Caller, Key, MaxAttempts, Deadline, Available, Time,
    NoAttempt, NoLease, NoReservation,   \* as in WorkAuthority
    Process,      \* processes that call RepositoryClosedLoopRunner.run
    WorkOf,       \* the Work Item of the request that bears an attempt_id
    Schedule,     \* the instants of that request
    Skipped,      \* fixed stages left out of an instance, each one more step
    Cleanup,      \* what cleanups report, TRUE when all is verified absent
    KeyOf,        \* the idempotency key of the three signed commands
    RetryAt,      \* the available_at instants a recovery may choose
    NoReceipt     \* the request has no runner receipt

VARIABLES
    item, lease, beat, issued, published, commands,   \* of WorkAuthority
    ledger, usage, resv,                              \* ... whose budget is unused here
    chain,     \* the step receipts of the loop of a Work Item, in sequence
    receipt,   \* the runner receipt of a request
    proc       \* what a process keeps in local variables

workVars == <<item, lease, beat, issued, published, commands, ledger, usage, resv>>
vars == <<workVars, chain, receipt, proc>>

W == INSTANCE WorkAuthority WITH
        Reservation <- {}, Dimension <- {}, Limit <- [d \in {} |-> 0], Budgeted <- {},
        Amount <- {}

TerminalState == {"evidence_rejected", "review_only", "canary_failed",
                  "canary_inconclusive", "canary_stopped", "retained", "rolled_back"}

\* A step: the stage, the decision its service returned, and the next stage or
\* the terminal state that decision leads to.
Step(stage, decision, to) == [stage |-> stage, decision |-> decision, to |-> to]

\* STAGE_CONTRACTS, _DECISIONS and _transition where a decision branches.
Branching ==
    {Step("evidence_reduction", "promotion_ready", "canary_start"),
     Step("evidence_reduction", "review_only", "review_only"),
     Step("evidence_reduction", "rejected", "evidence_rejected"),
     Step("canary_conclusion", "authoritative_canary_passed", "activation"),
     Step("canary_conclusion", "authoritative_canary_failed", "canary_failed"),
     Step("canary_conclusion", "authoritative_canary_inconclusive", "canary_inconclusive"),
     Step("canary_conclusion", "authoritative_canary_stopped", "canary_stopped"),
     Step("monitor_conclusion", "retain", "retained"),
     Step("monitor_conclusion", "rollback_required", "rollback")}

\* STAGES in order; the sequence of a stage counts from zero.
AllStages == <<"observation", "safe_analysis_view", "analysis_attempt",
               "candidate_publication", "certified_replay", "evidence_reduction",
               "canary_start", "canary_conclusion", "activation",
               "monitor_conclusion", "rollback">>
Stages == SelectSeq(AllStages, LAMBDA s : s \notin Skipped)

\* STAGE_CONTRACTS and _transition where one decision leads to the next stage.
OnlyDecision ==
    [observation |-> "observation_recorded", safe_analysis_view |-> "safe_view_built",
     analysis_attempt |-> "deterministic_attempt_completed",
     candidate_publication |-> "candidate_locked",
     certified_replay |-> "certified_pair_completed",
     canary_start |-> "authoritative_canary_started",
     activation |-> "candidate_activated_monitor_started",
     rollback |-> "predecessor_restored"]

Fixed ==
    {Step(Stages[i], OnlyDecision[Stages[i]],
          IF i = Len(Stages) THEN "rolled_back" ELSE Stages[i + 1]) :
       i \in {k \in DOMAIN Stages : Stages[k] \in DOMAIN OnlyDecision}}

Transition == Fixed \cup Branching

\* _load_state: the stage after the steps on record, or the terminal state.
Reached(steps) == IF steps = <<>> THEN "observation" ELSE Last(steps).to
Over(steps)    == Reached(steps) \in TerminalState

\* closed_loop_runner_receipt, of which the status is told apart.
Receipt == {"completed", "failed", "cancelled"}

Where == {"idle", "looked", "stopped", "started", "beat", "stage", "last beat",
          "finalize", "failing", "report"}

NoIdentity == [work |-> CHOOSE w \in Work : TRUE, attempt |-> NoAttempt, fence |-> 0]

\* What a process knows: where it is, its request, the state it read, the lease it
\* holds, the sequence of its stage (one past the last: it has none), its report.
Idle == [at |-> "idle", req |-> NoAttempt, seen |-> "absent", id |-> NoIdentity, seq |-> 0,
         status |-> "failed"]

\* ClosedLoopRunRequest.__post_init__: every renewal advances the prior expiry.
WellTimed(s) ==
    /\ s.claimAt < s.claimExpires
    /\ Len(s.renew) = Len(Stages) + 1      \* the stages, and the finalization
    /\ \A i \in DOMAIN s.renew :
          /\ s.renew[i].at < s.renew[i].expires
          /\ s.renew[i].expires > IF i = 1 THEN s.claimExpires ELSE s.renew[i - 1].expires

ASSUME RequestAssumption ==
    /\ WorkOf \in [Attempt -> Work]
    /\ \A a \in Attempt : WellTimed(Schedule[a])
    /\ Skipped \subseteq {"safe_analysis_view", "analysis_attempt",
                         "candidate_publication", "certified_replay"}
    /\ Cleanup \subseteq BOOLEAN
    /\ KeyOf \in [{"enqueue", "request", "complete"} -> Key]
    /\ NoReceipt \notin Receipt

\* A stage is run once, and the rollback last.
ASSUME StageAssumption ==
    /\ Stages \in Seq(STRING) /\ Stages # <<>>
    /\ \A i, j \in DOMAIN Stages : Stages[i] = Stages[j] => i = j
    /\ Last(Stages) = "rollback"

Init ==
    /\ W!Init
    /\ chain = [w \in Work |-> <<>>]
    /\ receipt = [a \in Attempt |-> NoReceipt]
    /\ proc = [p \in Process |-> Idle]

-----------------------------------------------------------------------------
(* The runner *)

At(p, where) == proc[p].at = where
MyWork(p)    == WorkOf[proc[p].req]

\* run returns or raises: the local variables are gone.
Return(p) == proc' = [proc EXCEPT ![p] = Idle]

Goto(p, where) == proc' = [proc EXCEPT ![p].at = where]

\* run: the Work Item is read ...
Look(p, a) ==
    /\ At(p, "idle")
    /\ item[WorkOf[a]].state # "absent"
    /\ proc' = [proc EXCEPT ![p] =
                  [Idle EXCEPT !.at = "looked", !.req = a, !.seen = item[WorkOf[a]].state]]
    /\ UNCHANGED <<workVars, chain, receipt>>

\* ... and then the receipt: one that exists is replayed, and completed work
\* without one is an IntegrityFailure.  Neither changes the store.
Replay(p) ==
    /\ At(p, "looked")
    /\ receipt[proc[p].req] # NoReceipt \/ proc[p].seen = "completed"
    /\ Return(p)
    /\ UNCHANGED <<workVars, chain, receipt>>

\* Mutant: work that is not running is reported cancelled.
AnyStopIsCancelled(state) == "cancelled"

\* run: the status of a request whose work is stopped; likewise after a failure.
StatusOf(state) ==
    IF state \in {"cancel_requested", "cancelled"} THEN "cancelled" ELSE "failed"

Unstarted(p) == At(p, "looked") /\ receipt[proc[p].req] = NoReceipt

LeaseIdentity(w) == [work |-> w, attempt |-> lease[w].attempt, fence |-> lease[w].fence]

\* run: a request whose work no longer runs is reported at once.
StopUnstarted(p) ==
    /\ Unstarted(p)
    /\ proc[p].seen \in {"cancel_requested", "cancelled", "recovery_required", "failed"}
    /\ proc' = [proc EXCEPT ![p].at = "report", ![p].status = StatusOf(proc[p].seen)]
    /\ UNCHANGED <<workVars, chain, receipt>>

\* The attempt is claimed: its lease is what the process goes on with.
Started(p, id) == proc' = [proc EXCEPT ![p].at = "started", ![p].seen = "absent", ![p].id = id]

\* _claim_or_resume of queued work.
ClaimWork(p) ==
    LET a == proc[p].req IN
    /\ Unstarted(p)
    /\ proc[p].seen = "queued"
    /\ W!Claim(WorkOf[a], a, Schedule[a].claimAt, Schedule[a].claimExpires)
    /\ Started(p, [work |-> WorkOf[a], attempt |-> a, fence |-> W!NextFence(WorkOf[a])])
    /\ UNCHANGED <<chain, receipt>>

HasLease(p) == lease[MyWork(p)] # NoLease /\ lease[MyWork(p)].attempt = proc[p].req

\* _claim_or_resume of leased work: only this very attempt resumes.
Resume(p) ==
    /\ Unstarted(p)
    /\ proc[p].seen = "leased"
    /\ HasLease(p)
    /\ Started(p, LeaseIdentity(MyWork(p)))
    /\ UNCHANGED <<workVars, chain, receipt>>

\* _claim_or_resume raises outside the try, and no receipt is written: the claim
\* is refused, or another runner has the lease.
NotClaimed(p) ==
    /\ Unstarted(p)
    /\ proc[p].seen = "queued" \/ (proc[p].seen = "leased" /\ ~HasLease(p))
    /\ Return(p)
    /\ UNCHANGED <<workVars, chain, receipt>>

\* start, and _completed_sequence: one event for each step on record.
Position(p) ==
    LET done == Len(chain[MyWork(p)])
    IN  /\ At(p, "started")
        /\ proc' = [proc EXCEPT ![p].seq = done,
                      ![p].at = IF done = Len(Stages) THEN "last beat" ELSE "beat"]
        /\ UNCHANGED <<workVars, chain, receipt>>

\* The instants of a renewal: of the stage at this sequence, or the last.
Renewal(p) ==
    Schedule[proc[p].req].renew[IF At(p, "beat") THEN proc[p].seq + 1 ELSE Len(Stages) + 1]

\* _heartbeat, before a stage and before the finalization.
Beat(p) ==
    /\ At(p, "beat") \/ At(p, "last beat")
    /\ W!Heartbeat(proc[p].id, Renewal(p).at, Renewal(p).expires)
    /\ Goto(p, IF At(p, "beat") THEN "stage" ELSE "finalize")
    /\ UNCHANGED <<chain, receipt>>

\* run: after a step the next stage, unless the loop is over; which stage came
\* last is then no longer told apart.
Proceed(p, over) ==
    proc' = [proc EXCEPT ![p].at = IF over THEN "last beat" ELSE "beat",
                         ![p].seq = IF over THEN 0 ELSE @ + 1]

\* execute_stage of a step on record: replayed, whatever came after it.
ReplayStage(p) ==
    /\ At(p, "stage")
    /\ proc[p].seq < Len(chain[MyWork(p)])
    /\ Proceed(p, Over(chain[MyWork(p)]))
    /\ UNCHANGED <<workVars, chain, receipt>>

\* execute_stage: the runner expects the very next sequence, and there is a stage.
NextInSequence(p) ==
    /\ proc[p].seq = Len(chain[MyWork(p)])
    /\ ~Over(chain[MyWork(p)])

\* execute_stage: the service's output, its receipt and event in one transaction.
\* The lease is not looked at.
ExecuteStage(p, step) ==
    LET w == MyWork(p)
        steps == Append(chain[w], step)
    IN  /\ At(p, "stage")
        /\ NextInSequence(p)
        /\ step.stage = Stages[proc[p].seq + 1]
        /\ chain' = [chain EXCEPT ![w] = steps]
        /\ Proceed(p, Over(steps))
        /\ UNCHANGED <<workVars, receipt>>

\* insert_record: the same receipt again is no change, another one is refused.
Insertable(a, r) == receipt[a] \in {NoReceipt, r}

\* Mutant: the receipt is left to a later transaction.
InsertNothing(a, r) == UNCHANGED receipt

Insert(a, r) == receipt' = [receipt EXCEPT ![a] = r]

\* WorkCoordinator.finalize with the completed receipt in its write set.
FinishRun(p) ==
    LET a == proc[p].req
    IN  /\ At(p, "finalize")
        /\ Insertable(a, "completed")
        /\ W!Finalize(proc[p].id, Schedule[a].renew[Len(Stages) + 1].at)
        /\ Insert(a, "completed")
        /\ Return(p)
        /\ UNCHANGED chain

\* Any exception of the try: a refused heartbeat, stage or finalization, a failing
\* service, a store that is locked or lacks an authority.
Fail(p) ==
    /\ proc[p].at \in {"started", "beat", "stage", "last beat", "finalize"}
    /\ proc' = [proc EXCEPT ![p].at = "failing", ![p].id = NoIdentity,
                            ![p].seq = IF @ = Len(Stages) THEN @ ELSE 0]
    /\ UNCHANGED <<workVars, chain, receipt>>

\* run: except.  The Work Item is read anew; a receipt that would leave a live
\* lease without its stage breaks its schema, and none is written.
Classify(p) ==
    LET state == item[MyWork(p)].state
    IN  /\ At(p, "failing")
        /\ IF proc[p].seq = Len(Stages) /\ state = "leased" THEN Return(p)
           ELSE proc' = [proc EXCEPT ![p].at = "report", ![p].seq = 0,
                                     ![p].status = StatusOf(state)]
        /\ UNCHANGED <<workVars, chain, receipt>>

\* _stop: the receipt and its event; the Work Item is left to its coordinator.
Stop(p) ==
    LET a == proc[p].req
        r == proc[p].status
    IN  /\ At(p, "report")
        /\ IF Insertable(a, r) THEN Insert(a, r) ELSE UNCHANGED receipt
        /\ Return(p)
        /\ UNCHANGED <<workVars, chain>>

\* The process dies between two of its steps.
Crash(p) ==
    /\ ~At(p, "idle")
    /\ Return(p)
    /\ UNCHANGED <<workVars, chain, receipt>>

-----------------------------------------------------------------------------
RunnerStep(p) ==
    \/ \E a \in Attempt : Look(p, a)
    \/ Replay(p) \/ StopUnstarted(p) \/ ClaimWork(p) \/ Resume(p) \/ NotClaimed(p)
    \/ Position(p) \/ Beat(p) \/ ReplayStage(p)
    \/ \E step \in Transition : ExecuteStage(p, step)
    \/ FinishRun(p) \/ Fail(p) \/ Classify(p) \/ Stop(p) \/ Crash(p)

\* What the signed commands and the recovery protocol do to the same work.
OthersStep ==
    /\ \/ \E c \in Caller, w \in Work :
             W!Enqueue(c, KeyOf.enqueue, w) \/ W!RequestCancellation(c, KeyOf.request, w)
       \/ \E c \in Caller, id \in issued, safe \in Cleanup :
             W!CompleteCancellation(c, KeyOf.complete, id, safe)
       \/ \E id \in issued, now \in Time : W!BeginExpiredLeaseRecovery(id, now)
       \/ \E id \in issued, now \in Time, avail \in RetryAt, safe \in Cleanup,
          admitted \in BOOLEAN : W!CompleteRecovery(id, now, avail, safe, admitted)
    /\ UNCHANGED <<chain, receipt, proc>>

Next == OthersStep \/ \E p \in Process : RunnerStep(p)

Spec == Init /\ [][Next]_vars

-----------------------------------------------------------------------------
(* Properties *)

\* Each value is one the code's columns and variables can hold.
TypeOK ==
    /\ item \in [Work -> W!Item]
    /\ lease \in [Work -> W!Lease \cup {NoLease}]
    /\ \A w \in Work : chain[w] \in Seq(Transition) /\ Len(chain[w]) <= Len(Stages)
    /\ receipt \in [Attempt -> Receipt \cup {NoReceipt}]
    /\ \A p \in Process :
          /\ proc[p].at \in Where
          /\ proc[p].status \in Receipt
          /\ proc[p].seq \in 0 .. Len(Stages)

\* A Work Item, its runner receipt and its loop agree, whichever process came
\* first and wherever one crashed: the work is completed exactly when the attempt
\* that published it has a completed receipt, and then its loop has reached a
\* terminal state.  An attempt that reported a failure never publishes.
CompletedTogether ==
    /\ \A w \in Work :
          item[w].state = "completed" =>
             /\ Over(chain[w])
             /\ receipt[item[w].attempt] = "completed"
    /\ \A a \in Attempt :
          receipt[a] = "completed" =>
             /\ item[WorkOf[a]].state = "completed"
             /\ item[WorkOf[a]].attempt = a
    /\ \A id \in published : receipt[id.attempt] = "completed"

\* A run that was reported cancelled was cancelled: the state the report came from
\* was read before it was written, and nothing undoes a cancellation in between.
CancelledReportIsTrue ==
    \A a \in Attempt :
        receipt[a] = "cancelled" =>
            item[WorkOf[a]].cancelRequested

\* IMPLEMENTATION_SPEC.md:724: after a lost lease or fence "no late record ...
\* becomes authoritative".  A stage is committed only under a live lease.
NoLateRecord ==
    [][chain' # chain => \E id \in issued : W!Holds(id) /\ W!Current(id)]_vars

\* closed_loop_runner.py:290: a run that resumes after the last step of its loop
\* goes on to finalize what that loop decided; it does not ask for another stage.
ResumesToFinalize ==
    [][\A p \in Process :
         At(p, "started") /\ Over(chain[MyWork(p)]) => proc'[p].at # "beat"]_vars

=============================================================================
