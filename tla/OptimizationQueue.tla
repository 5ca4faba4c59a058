-------------------------- MODULE OptimizationQueue --------------------------
(***************************************************************************)
(* The queue that optimization jobs wait in, and the worker processes that *)
(* empty it: helpers/store.py and queue.py (jobs, leases and fence         *)
(* counters in one SQLite file), scheduler/worker.py (the worker loop and  *)
(* the optimizer thread it drives), _scheduler_coordinator.py (the request *)
(* that enqueues and then reports) and the parts of optimizer.py that      *)
(* leave a candidate behind.  A worker only proposes: a candidate becomes  *)
(* eligible for a transition by an approval, which the transaction that    *)
(* completes the job writes.                                               *)
(*                                                                         *)
(* One transaction is one step.  A run is one call of the optimizer; its   *)
(* identifiers come from the instant it started, here its number among the *)
(* runs of its job.  All jobs belong to one context.                       *)
(***************************************************************************)
EXTENDS Integers, FiniteSets

CONSTANTS
    Process,     \* worker processes
    Owner,       \* --worker-id of a process; a stable id may name several
    Key,         \* job keys
    Config,      \* digests of effective configurations
    MaxRetries,  \* max_retries, of the jobs and of the workers
    Ttl,         \* job_lease_seconds
    SharedRoot,  \* the workers serve the installed plugin, whose store the optimizer uses
    MaxClock, MaxRuns, MaxForced,   \* bounds
    None

ASSUME QueueAssumption ==
    /\ MaxRetries \in Nat /\ Ttl \in Nat \ {0}
    /\ SharedRoot \in BOOLEAN

VARIABLES
    now,
    job,        \* jobs, by key
    lease,      \* job_leases, by key
    fence,      \* job_fence_counters, by key
    runs,       \* runs started, by key
    candidate,  \* candidate rows of the store of the queue
    approval,   \* autopilot_candidate_approvals
    context,    \* optimization_status of the context
    request,    \* the scheduling request that has enqueued and not yet reported
    forced,     \* forced requests that replaced a job
    proc        \* the worker processes

queueVars == <<now, job, lease, fence, runs, candidate, approval, context, request, forced, proc>>

Unfinished == {"pending", "running"}
Terminal   == {"succeeded", "failed", "cancelled", "candidate", "rejected"}

NoJob   == [status |-> "none", attempts |-> 0, config |-> None, result |-> None, created |-> 0]
NoLease == [owner |-> None, token |-> 0, expires |-> 0]
Off     == [at |-> "off", key |-> None, token |-> 0, run |-> None, outcome |-> None, say |-> None]
Waiting == [Off EXCEPT !.at = "idle"]

QueueInit ==
    /\ now = 0
    /\ job   = [k \in Key |-> NoJob]
    /\ lease = [k \in Key |-> NoLease]
    /\ fence = [k \in Key |-> 0]
    /\ runs  = [k \in Key |-> 0]
    /\ candidate = {}
    /\ approval  = {}
    /\ context = "idle"
    /\ request = None
    /\ forced  = 0
    /\ proc = [p \in Process |-> Off]

-----------------------------------------------------------------------------
(* Leases *)

Unexpired(k) == lease[k].expires > now
Granted(k)   == lease[k] # NoLease

\* The fence of every write of a worker: its row, its owner, its token, not expired.
Holds(p) == LET k == proc[p].key IN
    Unexpired(k) /\ lease[k].owner = Owner[p] /\ lease[k].token = proc[p].token

Tick == now < MaxClock /\ now' = now + 1
        /\ UNCHANGED <<job, lease, fence, runs, candidate, approval, context, request, forced, proc>>

-----------------------------------------------------------------------------
(* Requests and the operator *)

\* A key that is present is replaced only by force, and never under a live lease.  The
\* row of a lease that has lapsed still refers to the job, so the deletion of the job
\* fails on its foreign key and the request with it.
Replaceable(k) ==
    \/ job[k].status = "none"
    \/ ~Granted(k) /\ forced < MaxForced

Enqueue(k, c) ==
    /\ request = None
    /\ Replaceable(k)
    /\ job' = [job EXCEPT ![k] = [NoJob EXCEPT !.status = "pending", !.config = c, !.created = now]]
    /\ request' = k
    /\ forced'  = IF job[k].status = "none" THEN forced ELSE forced + 1
    /\ UNCHANGED <<now, lease, fence, runs, candidate, approval, context, proc>>

\* The report of the request is a transaction of its own, after the job can be claimed.
Announce ==
    /\ request # None
    /\ context' = "queued"
    /\ request' = None
    /\ UNCHANGED <<now, job, lease, fence, runs, candidate, approval, forced, proc>>

\* Mutant: the lease outlives the cancellation.
KeepsLease(k) == lease[k]

Invalidated(k) == NoLease

Cancel(k) ==
    /\ job[k].status \in Unfinished
    /\ job'   = [job EXCEPT ![k].status = "cancelled"]
    /\ lease' = [lease EXCEPT ![k] = Invalidated(k)]
    /\ UNCHANGED <<now, fence, runs, candidate, approval, context, request, forced, proc>>

-----------------------------------------------------------------------------
(* Processes *)

\* A process starts from the command line or from the supervisor, which also terminates
\* those beyond the number that is configured; it may die at any step.
Start(p) ==
    /\ proc[p].at = "off"
    /\ proc' = [proc EXCEPT ![p] = Waiting]
    /\ UNCHANGED <<now, job, lease, fence, runs, candidate, approval, context, request, forced>>

Die(p) ==
    /\ proc[p].at # "off"
    /\ proc' = [proc EXCEPT ![p] = Off]
    /\ UNCHANGED <<now, job, lease, fence, runs, candidate, approval, context, request, forced>>

Goto(p, at) == proc' = [proc EXCEPT ![p].at = at]

\* The jobs whose lease row has lapsed are retried or given up.
Lapsed(k) == job[k].status = "running" /\ Granted(k) /\ ~Unexpired(k)

Spent(k) == job[k].attempts >= MaxRetries

Reclaim(p) ==
    /\ proc[p].at = "idle"
    /\ job' = [k \in Key |-> IF Lapsed(k)
                             THEN [job[k] EXCEPT !.status = IF Spent(k) THEN "failed" ELSE "pending"]
                             ELSE job[k]]
    /\ lease' = [k \in Key |-> IF Lapsed(k) THEN NoLease ELSE lease[k]]
    /\ Goto(p, "claiming")
    /\ UNCHANGED <<now, fence, runs, candidate, approval, context, request, forced>>

\* The claim first deletes every lease that has lapsed since.
Pending == {k \in Key : job[k].status = "pending"}
Oldest(k) == k \in Pending /\ \A o \in Pending : job[k].created <= job[o].created
Unlapsed == [k \in Key |-> IF Unexpired(k) THEN lease[k] ELSE NoLease]
\* Mutant: a token is the number of the attempt.
CountsAttempts(k) == job[k].attempts + 1

NextToken(k) == fence[k] + 1

Claim(p, k) ==
    /\ proc[p].at = "claiming"
    /\ Oldest(k)
    /\ IF Spent(k)
       THEN /\ job'   = [job EXCEPT ![k].status = "failed"]
            /\ lease' = Unlapsed
            /\ Goto(p, "idle")
            /\ UNCHANGED <<fence, runs>>
       ELSE /\ runs[k] < MaxRuns
            /\ job'   = [job EXCEPT ![k].status = "running", ![k].attempts = @ + 1]
            /\ fence' = [fence EXCEPT ![k] = NextToken(k)]
            /\ runs'  = [runs EXCEPT ![k] = @ + 1]
            /\ lease' = [Unlapsed EXCEPT ![k] = [owner |-> Owner[p], token |-> NextToken(k),
                                             expires |-> now + Ttl]]
            /\ proc'  = [proc EXCEPT ![p] =
                           [Waiting EXCEPT !.at = "running", !.key = k, !.token = NextToken(k),
                                        !.run = [key |-> k, nth |-> runs[k] + 1,
                                                 config |-> job[k].config]]]
    /\ UNCHANGED <<now, candidate, approval, context, request, forced>>

ClaimNothing(p) ==
    /\ proc[p].at = "claiming"
    /\ Pending = {}
    /\ lease' = Unlapsed
    /\ Goto(p, "idle")
    /\ UNCHANGED <<now, job, fence, runs, candidate, approval, context, request, forced>>

-----------------------------------------------------------------------------
(* The run *)

\* What a run comes to: whether enough objectives were collected, whether the engine made
\* a valid artifact, whether it passed validation, what the paired replay decided.
Collected == {"too few", "enough"}
Proposed  == {"no artifact", "artifact"}
Validated == BOOLEAN
Replayed  == {"review_only", "promotion_ready", "reject"}
Failure   == {"transient", "terminal", "raised"}

Verdict(objectives, proposal, valid, replay) ==
    CASE objectives = "too few"   -> "succeeded"     \* status skipped
      [] proposal = "no artifact" -> "refused"       \* rejected, with nothing to stage
      [] ~valid \/ replay = "reject" -> "rejected"
      [] OTHER -> "candidate"

RunOutcome == Failure \cup
    {Verdict(o, a, v, r) : o \in Collected, a \in Proposed, v \in Validated, r \in Replayed}

\* The optimizer stages its candidate in the store of the installed plugin, and only then
\* marks the metadata that the staged body holds a copy of.
CandidateRow(p, body) == [run |-> proc[p].run, body |-> body]
Rows(r)      == {c \in candidate : c.run = r}
Staged(p, body) ==
    IF Rows(proc[p].run) = {} THEN candidate \cup {CandidateRow(p, body)} ELSE candidate

Optimize(p, o) ==
    /\ proc[p].at \in {"running", "beating", "cancelled", "lost"}
    /\ proc[p].run # None /\ proc[p].outcome = None
    /\ candidate' = IF SharedRoot /\ o \in {"candidate", "rejected"}
                    THEN Staged(p, "unmarked") ELSE candidate
    /\ proc' = [proc EXCEPT ![p].outcome = o]
    /\ UNCHANGED <<now, job, lease, fence, runs, approval, context, request, forced>>

\* While the optimizer runs, the process looks for a cancellation, then renews its lease.
LookForCancellation(p) ==
    /\ proc[p].at = "running" /\ proc[p].outcome = None
    /\ Goto(p, IF job[proc[p].key].status = "cancelled" THEN "cancelled" ELSE "beating")
    /\ UNCHANGED <<now, job, lease, fence, runs, candidate, approval, context, request, forced>>

Beat(p) ==
    /\ proc[p].at = "beating"
    /\ IF Holds(p) THEN /\ lease' = [lease EXCEPT ![proc[p].key].expires = now + Ttl]
                        /\ Goto(p, "running")
                   ELSE /\ Goto(p, "lost")
                        /\ UNCHANGED lease
    /\ UNCHANGED <<now, job, fence, runs, candidate, approval, context, request, forced>>

Say(p, s) == proc' = [proc EXCEPT ![p] = [Waiting EXCEPT !.at = "reporting", !.say = s]]

\* To leave is to wait for the optimizer; then the status of the job is read and reported.
Leave(p) ==
    /\ proc[p].at \in {"cancelled", "lost"} /\ proc[p].outcome # None
    /\ LET s == job[proc[p].key].status IN
       IF proc[p].at = "lost" \/ s = "cancelled" THEN Say(p, s)
                                                     ELSE proc' = [proc EXCEPT ![p] = Waiting]
    /\ UNCHANGED <<now, job, lease, fence, runs, candidate, approval, context, request, forced>>

\* The records of the run are appended where they are missing, and the body that is there
\* is compared with the one the process holds.
Stage(p) ==
    /\ proc[p].at = "running" /\ proc[p].outcome \in {"candidate", "rejected"}
    /\ candidate' = Staged(p, "marked")
    /\ proc' = [proc EXCEPT ![p].at = "settling",
                            ![p].say = IF CandidateRow(p, "marked") \in candidate'
                                       THEN proc[p].outcome ELSE "rejected"]
    /\ UNCHANGED <<now, job, lease, fence, runs, approval, context, request, forced>>

\* A run without a candidate goes straight to the end of the job.
Skip(p) ==
    /\ proc[p].at = "running" /\ proc[p].outcome \in {"succeeded", "refused"}
    /\ proc' = [proc EXCEPT ![p].at = "settling",
                            ![p].say = IF proc[p].outcome = "refused" THEN "rejected"
                                                                     ELSE "succeeded"]
    /\ UNCHANGED <<now, job, lease, fence, runs, candidate, approval, context, request, forced>>

\* complete_job, with status s: the fence, the new status, the lease released.
Settled(p, s, r) ==
    /\ job'   = [job EXCEPT ![proc[p].key].status = s, ![proc[p].key].result = r]
    /\ lease' = [lease EXCEPT ![proc[p].key] = NoLease]

Eligible(p) == proc[p].say = "candidate" /\ proc[p].run.config = job[proc[p].key].config

Complete(p) ==
    /\ proc[p].at = "settling"
    /\ IF Holds(p)
       THEN /\ Settled(p, proc[p].say, proc[p].run)
            /\ approval' = IF Eligible(p)
                           THEN approval \cup {[run |-> proc[p].run, key |-> proc[p].key,
                                                token |-> proc[p].token,
                                                config |-> job[proc[p].key].config]}
                           ELSE approval
            /\ Say(p, proc[p].say)
       ELSE /\ Goto(p, "lost")
            /\ UNCHANGED <<job, lease, approval>>
    /\ UNCHANGED <<now, fence, runs, candidate, context, request, forced>>

\* A run that failed is retried when the failure is transient and the attempts, which are
\* read in a transaction before, allow it.  The failure of an exception is not reported.
Judge(p, transient) ==
    /\ proc[p].at = "running" /\ proc[p].outcome \in Failure
    /\ proc[p].outcome # IF transient THEN "terminal" ELSE "transient"
    /\ proc' = [proc EXCEPT ![p].at = "failing",
                            ![p].say = IF transient /\ job[proc[p].key].attempts < MaxRetries
                                       THEN "pending" ELSE "failed"]
    /\ UNCHANGED <<now, job, lease, fence, runs, candidate, approval, context, request, forced>>

Fail(p) ==
    /\ proc[p].at = "failing"
    /\ IF Holds(p) THEN Settled(p, proc[p].say, None) ELSE UNCHANGED <<job, lease>>
    /\ IF Holds(p) /\ proc[p].outcome # "raised" THEN Say(p, proc[p].say)
                                                 ELSE proc' = [proc EXCEPT ![p] = Waiting]
    /\ UNCHANGED <<now, fence, runs, candidate, approval, context, request, forced>>

ReportStatus(p) ==
    /\ proc[p].at = "reporting"
    /\ context' = proc[p].say
    /\ proc' = [proc EXCEPT ![p] = Waiting]
    /\ UNCHANGED <<now, job, lease, fence, runs, candidate, approval, request, forced>>

Worker(p) ==
    \/ Reclaim(p) \/ ClaimNothing(p) \/ \E k \in Key : Claim(p, k)
    \/ \E o \in RunOutcome : Optimize(p, o)
    \/ LookForCancellation(p) \/ Beat(p) \/ Leave(p)
    \/ Stage(p) \/ Skip(p) \/ Complete(p)
    \/ \E t \in BOOLEAN : Judge(p, t)
    \/ Fail(p) \/ ReportStatus(p)

QueueNext ==
    \/ Tick \/ Announce
    \/ \E k \in Key, c \in Config : Enqueue(k, c)
    \/ \E k \in Key : Cancel(k)
    \/ \E p \in Process : Start(p) \/ Die(p) \/ Worker(p)

QueueSpec == QueueInit /\ [][QueueNext]_queueVars

-----------------------------------------------------------------------------
(* Properties *)

\* A candidate becomes eligible only while its run is the latest of its job, the job is
\* still running, and the configuration of the job is the one the run was made under:
\* two processes may share a worker id, and a forced request starts the attempts afresh.
ApprovalIsCurrent ==
    [][\A a \in approval' \ approval :
          /\ job[a.key].status = "running"
          /\ a.run = [key |-> a.key, nth |-> runs[a.key], config |-> job[a.key].config]]_queueVars

\* A job that was cancelled or has ended stays so, whatever a worker that still runs it
\* does; only a forced request replaces it.
SettledStaysSettled ==
    [][\A k \in Key : job[k].status \in Terminal /\ job'[k] # job[k]
                      => request' = k /\ job'[k].status = "pending"]_queueVars

\* The tests of the queue say that the job of an expired lease is reclaimed
\* (tests/test_queue.py:68): so a running job keeps the row it is reclaimed by.
RunningIsReclaimable ==
    \A k \in Key : job[k].status = "running" => Granted(k)

\* A worker keeps the candidate whose evidence chain it copied (tests/test_scheduler_worker.py:50):
\* a job whose run made an acceptable candidate does not end rejected.
ProposalIsKept ==
    \A p \in Process : proc[p].at = "settling" /\ proc[p].outcome = "candidate"
        => proc[p].say = "candidate"
=============================================================================
