--------------------------- MODULE WorkAuthority ---------------------------
(***************************************************************************)
(* The fenced work coordinator and the budget broker of                    *)
(* helpers/v3/work_authority.py, over the tables work_items, work_leases,  *)
(* worker_heartbeats, operator_commands, budget_dimensions and             *)
(* budget_entries of helpers/v3/repository.py.                             *)
(*                                                                         *)
(* Every method of the code is one BEGIN IMMEDIATE transaction that either *)
(* commits whole or rolls back, so it is one action here; a refusal (any   *)
(* exception) and an exact replay change nothing and are steps not taken.  *)
(* The code reads no clock: "now" is an argument, and a runner fixes the   *)
(* instants of all its heartbeats before it starts, so every action takes  *)
(* any Time.  The conditions a caller asserts (grants, dependencies,       *)
(* budget, cleanup) are inputs, chosen freely.                             *)
(***************************************************************************)
EXTENDS Integers, FiniteSets

CONSTANTS
    Work,          \* work_id's
    Attempt,       \* attempt_id with its owner_id, process nonce and start identity
    Caller,        \* (issuer_ref, subject_ref) pairs that sign commands
    Key,           \* idempotency key digests
    Reservation,   \* reservation_id's
    Dimension,     \* dimensions of the one budget ledger
    Limit,         \* limit_amount of each dimension, frozen when the ledger is made
    Budgeted,      \* the work items bound to the ledger (budget_ledger_id not null)
    MaxAttempts,   \* max_attempts, frozen at enqueue
    Deadline,      \* deadline_at, frozen at enqueue
    Available,     \* available_at requested at enqueue
    Time,          \* the instants callers may pass
    Amount,        \* the amounts a reservation may ask of a dimension
    NoAttempt,     \* current_attempt_id is NULL
    NoLease,       \* the work item has no work_leases row
    NoReservation  \* the reservation_id has no budget_entries row

WorkState == {"absent", "queued", "leased", "cancel_requested",
              "recovery_required", "completed", "failed", "cancelled"}
Terminal  == {"completed", "failed", "cancelled"}

Item == [state : WorkState, attempt : Attempt \cup {NoAttempt}, count : Nat,
         fence : Nat, avail : Time,
         cancelRequested : BOOLEAN,    \* cancel_requested_at is not null
         recoveryRequired : BOOLEAN]   \* recovery_required_at is not null

\* A LeaseIdentity, and the work_leases row of a work item.
Identity == [work : Work, attempt : Attempt, fence : Nat]
Lease    == [attempt : Attempt, fence : Nat, expires : Time]

\* A row of operator_commands with its receipt; safe is the cleanup report of a
\* "complete" request and TRUE in the others; result is the receipt's work_state.
Request == [phase : {"enqueue", "request", "complete"}, work : Work, rev : Nat, safe : BOOLEAN]
Command == [caller : Caller, action : {"optimize", "work_cancel"}, key : Key,
            request : Request, result : WorkState]

\* The budget_entries of one reservation_id, and a budget_dimensions row.
Resv  == [status : {"reserved", "reconciled", "unreconciled"}, holder : Identity,
          amount : [Dimension -> Nat], actual : [Dimension -> Nat]]
Usage == [reserved : Int, consumed : Int, unreconciled : Int]

ASSUME TimeAssumption == Time \subseteq Int
ASSUME NullAssumption ==
    /\ NoAttempt \notin Attempt
    /\ NoLease \notin Lease
    /\ NoReservation \notin Resv
ASSUME BudgetAssumption ==
    /\ Limit \in [Dimension -> Nat]
    /\ Amount \subseteq Nat \ {0}
    /\ Budgeted \subseteq Work
ASSUME FrozenInputAssumption ==
    /\ MaxAttempts \in [Work -> Nat \ {0}]
    /\ Deadline \in [Work -> Time]
    /\ Available \in [Work -> Time]

VARIABLES
    item,       \* work_items
    lease,      \* work_leases
    beat,       \* worker_heartbeats: the fence of the row, 0 when there is none
    issued,     \* the identities Claim has handed out: what workers remember
    published,  \* the identities whose write set Finalize inserted
    commands,   \* operator_commands and their receipts
    ledger,     \* whether the budget ledger exists
    usage,      \* budget_dimensions
    resv        \* budget_entries, one record per reservation_id

budgetVars == <<ledger, usage, resv>>
vars == <<item, lease, beat, issued, published, commands, ledger, usage, resv>>

Init ==
    /\ item = [w \in Work |->
                 [state |-> "absent", attempt |-> NoAttempt, count |-> 0, fence |-> 0,
                  avail |-> Available[w], cancelRequested |-> FALSE,
                  recoveryRequired |-> FALSE]]
    /\ lease = [w \in Work |-> NoLease]
    /\ beat = [w \in Work |-> 0]
    /\ issued = {}
    /\ published = {}
    /\ commands = {}
    /\ ledger = FALSE
    /\ usage = [d \in Dimension |-> [reserved |-> 0, consumed |-> 0, unreconciled |-> 0]]
    /\ resv = [r \in Reservation |-> NoReservation]

-----------------------------------------------------------------------------
(* Signed commands *)

\* _load_command_replay finds no row: the key is fresh for this caller and
\* action.  A row for the same request is an exact replay and a row for another
\* request an IdempotencyConflict; neither changes the store.
FreshKey(c, action, k) ==
    \A m \in commands : ~(m.caller = c /\ m.action = action /\ m.key = k)

\* _record_work_mutation: the receipt and the command row of an accepted mutation.
Record(c, action, k, phase, w, rev, safe, result) ==
    commands' = commands \cup
        {[caller |-> c, action |-> action, key |-> k, result |-> result,
          request |-> [phase |-> phase, work |-> w, rev |-> rev, safe |-> safe]]}

\* WorkCoordinator.enqueue.  A work item carries the key of its enqueue command,
\* so the UNIQUE idempotency identity of work_items is refused for every caller.
Enqueue(c, k, w) ==
    /\ w \in Budgeted => ledger
    /\ FreshKey(c, "optimize", k)
    /\ \A m \in commands : m.action = "optimize" => m.key # k
    /\ item[w].state = "absent"
    /\ item' = [item EXCEPT ![w].state = "queued"]
    /\ Record(c, "optimize", k, "enqueue", w, 0, TRUE, "queued")
    /\ UNCHANGED <<lease, beat, issued, published, budgetVars>>

\* The fence every claim, cancellation and recovery writes; it lives on the work
\* item, so that deleting the lease does not reset it.
NextFence(w) == item[w].fence + 1

\* Mutants: finished work, or work already being cancelled, can be cancelled.
CancellableWhenDone == {"queued", "leased", "recovery_required", "completed"}
CancellableTwice    == {"queued", "leased", "recovery_required", "cancel_requested"}

Cancellable == {"queued", "leased", "recovery_required"}

\* WorkCoordinator.request_cancellation.  Queued work has nothing to clean up and
\* is cancelled at once; the fence advances in every case.
RequestCancellation(c, k, w) ==
    /\ FreshKey(c, "work_cancel", k)
    /\ item[w].state \in Cancellable
    /\ LET next == IF item[w].state = "queued" THEN "cancelled" ELSE "cancel_requested"
       IN  /\ item' = [item EXCEPT ![w].state = next, ![w].cancelRequested = TRUE,
                                   ![w].fence = NextFence(w)]
           /\ Record(c, "work_cancel", k, "request", w, item[w].fence, TRUE, next)
    /\ UNCHANGED <<lease, beat, issued, published, budgetVars>>

-----------------------------------------------------------------------------
(* Attempts and their leases *)

\* _require_lease: the row is the very lease the caller presents.
Holds(id) ==
    /\ lease[id.work] # NoLease
    /\ lease[id.work].attempt = id.attempt
    /\ lease[id.work].fence = id.fence

\* Mutant: whoever has the lease row is taken for the current attempt.
AnyHolder(id) == TRUE

\* The work item still admits this lease: leased, and under the same fence.
Current(id) ==
    /\ item[id.work].state = "leased"
    /\ item[id.work].fence = id.fence

RemoveLease(w) ==
    /\ lease' = [lease EXCEPT ![w] = NoLease]
    /\ beat' = [beat EXCEPT ![w] = 0]

AttemptsLeft(w) == item[w].count < MaxAttempts[w]

\* Neither the work item nor the attempt has a lease.
Unleased(w, a) ==
    /\ lease[w] = NoLease
    /\ \A v \in Work : lease[v] # NoLease => lease[v].attempt # a

\* WorkCoordinator.claim.
Claim(w, a, now, expires) ==
    /\ expires > now
    /\ item[w].state = "queued"
    /\ item[w].avail <= now
    /\ Deadline[w] > now
    /\ AttemptsLeft(w)
    /\ Unleased(w, a)
    /\ LET fence == NextFence(w)
       IN  /\ item' = [item EXCEPT ![w].state = "leased", ![w].attempt = a,
                                   ![w].count = @ + 1, ![w].fence = fence]
           /\ lease' = [lease EXCEPT ![w] = [attempt |-> a, fence |-> fence,
                                             expires |-> expires]]
           /\ issued' = issued \cup {[work |-> w, attempt |-> a, fence |-> fence]}
    /\ UNCHANGED <<beat, published, commands, budgetVars>>

\* WorkCoordinator.heartbeat.
Heartbeat(id, now, expires) ==
    LET w == id.work
    IN  /\ expires > now
        /\ Holds(id)
        /\ Current(id)
        /\ lease[w].expires > now
        /\ Deadline[w] > now
        /\ expires > lease[w].expires
        /\ lease' = [lease EXCEPT ![w].expires = expires]
        /\ beat' = [beat EXCEPT ![w] = id.fence]
        /\ UNCHANGED <<item, issued, published, commands, budgetVars>>

\* WorkCoordinator.complete_cancellation.  An unsafe cleanup keeps the lease row.
CompleteCancellation(c, k, id, safe) ==
    LET w == id.work
        terminal == IF safe THEN "cancelled" ELSE "failed"
    IN  /\ FreshKey(c, "work_cancel", k)
        /\ Holds(id)
        /\ item[w].state = "cancel_requested"
        /\ item' = [item EXCEPT ![w].state = terminal]
        /\ IF safe THEN RemoveLease(w) ELSE UNCHANGED <<lease, beat>>
        /\ Record(c, "work_cancel", k, "complete", w, item[w].fence, safe, terminal)
        /\ UNCHANGED <<issued, published, budgetVars>>

\* WorkCoordinator.begin_expired_lease_recovery, the first of two transactions.
BeginExpiredLeaseRecovery(id, now) ==
    LET w == id.work
    IN  /\ Holds(id)
        /\ Current(id)
        /\ lease[w].expires <= now
        /\ item' = [item EXCEPT ![w].state = "recovery_required",
                                ![w].recoveryRequired = TRUE, ![w].fence = NextFence(w)]
        /\ UNCHANGED <<lease, beat, issued, published, commands, budgetVars>>

Requeued(it, avail) ==
    [it EXCEPT !.state = "queued", !.attempt = NoAttempt,
               !.recoveryRequired = FALSE, !.avail = avail]

\* WorkCoordinator.complete_recovery, the second.  admitted is the conjunction of
\* the caller's attempts, grants, dependency and budget conditions.
CompleteRecovery(id, now, avail, safe, admitted) ==
    LET w == id.work
        retry == /\ safe /\ admitted
                 /\ AttemptsLeft(w)
                 /\ Deadline[w] > now
    IN  /\ Holds(id)
        /\ item[w].state = "recovery_required"
        /\ item' = IF retry
                   THEN [item EXCEPT ![w] = Requeued(item[w], avail)]
                   ELSE [item EXCEPT ![w].state = "failed"]
        /\ IF safe THEN RemoveLease(w) ELSE UNCHANGED <<lease, beat>>
        /\ UNCHANGED <<issued, published, commands, budgetVars>>

\* The budget entries this very attempt wrote.
OfAttempt(id) ==
    {r \in Reservation : resv[r] # NoReservation /\ resv[r].holder = id}

\* The attempt has no unsettled entry and none marked unreconciled.
Settled(id) ==
    id.work \in Budgeted => \A r \in OfAttempt(id) : resv[r].status = "reconciled"

\* WorkCoordinator.finalize: nothing of the attempt is unsettled or of unknown
\* use, and the planner's write set is inserted with the terminal transition.
Finalize(id, now) ==
    LET w == id.work
    IN  /\ Holds(id)
        /\ Current(id)
        /\ item[w].attempt = id.attempt
        /\ ~item[w].cancelRequested
        /\ lease[w].expires > now
        /\ Deadline[w] > now
        /\ Settled(id)
        /\ published' = published \cup {id}
        /\ item' = [item EXCEPT ![w].state = "completed"]
        /\ RemoveLease(w)
        /\ UNCHANGED <<issued, commands, budgetVars>>

-----------------------------------------------------------------------------
(* BudgetBroker *)

\* BudgetBroker.create_ledger; the same call again returns the same ledger.
CreateLedger ==
    /\ ~ledger
    /\ ledger' = TRUE
    /\ UNCHANGED <<item, lease, beat, issued, published, commands, usage, resv>>

\* Mutant: blocked capacity is offered again.
KnownUsed(d) == usage[d].reserved + usage[d].consumed

Used(d) == usage[d].reserved + usage[d].consumed + usage[d].unreconciled

\* No budget_entries row has this reservation_id.
NewReservation(r) == resv[r] = NoReservation

\* BudgetBroker.reserve: every dimension is covered and none is exhausted.
Reserve(id, r, amount) ==
    /\ Holds(id)
    /\ Current(id)
    /\ id.work \in Budgeted
    /\ NewReservation(r)
    /\ \A d \in Dimension : Used(d) + amount[d] <= Limit[d]
    /\ usage' = [d \in Dimension |-> [usage[d] EXCEPT !.reserved = @ + amount[d]]]
    /\ resv' = [resv EXCEPT ![r] =
                  [status |-> "reserved", holder |-> id, amount |-> amount,
                   actual |-> [d \in Dimension |-> 0]]]
    /\ UNCHANGED <<item, lease, beat, issued, published, commands, ledger>>

\* Mutant: whether the reservation is settled is not asked.
OfHolder(id, r) ==
    /\ resv[r] # NoReservation
    /\ resv[r].holder = id

\* _reservation_rows and _require_unsettled.
Open(id, r) ==
    /\ resv[r] # NoReservation
    /\ resv[r].holder = id
    /\ resv[r].status = "reserved"

\* BudgetBroker.reconcile: what was used is consumed, the rest is released.
Reconcile(id, r, actual) ==
    /\ Holds(id)
    /\ Current(id)
    /\ Open(id, r)
    /\ \A d \in Dimension : actual[d] <= resv[r].amount[d]
    /\ usage' = [d \in Dimension |->
                   [usage[d] EXCEPT !.reserved = @ - resv[r].amount[d],
                                    !.consumed = @ + actual[d]]]
    /\ resv' = [resv EXCEPT ![r].status = "reconciled", ![r].actual = actual]
    /\ UNCHANGED <<item, lease, beat, issued, published, commands, ledger>>

\* BudgetBroker.mark_unreconciled looks at the lease row and not at the item.
MarkUnreconciled(id, r, now) ==
    /\ Holds(id)
    /\ lease[id.work].expires <= now
    /\ Open(id, r)
    /\ usage' = [d \in Dimension |->
                   [usage[d] EXCEPT !.reserved = @ - resv[r].amount[d],
                                    !.unreconciled = @ + resv[r].amount[d]]]
    /\ resv' = [resv EXCEPT ![r].status = "unreconciled"]
    /\ UNCHANGED <<item, lease, beat, issued, published, commands, ledger>>

-----------------------------------------------------------------------------
CommandStep ==
    \E c \in Caller, k \in Key :
        \/ \E w \in Work : Enqueue(c, k, w) \/ RequestCancellation(c, k, w)
        \/ \E id \in issued, safe \in BOOLEAN : CompleteCancellation(c, k, id, safe)

AttemptStep ==
    \E now \in Time :
        \/ \E w \in Work, a \in Attempt, expires \in Time : Claim(w, a, now, expires)
        \/ \E id \in issued :
              \/ \E expires \in Time : Heartbeat(id, now, expires)
              \/ BeginExpiredLeaseRecovery(id, now)
              \/ \E avail \in Time, safe, admitted \in BOOLEAN :
                    CompleteRecovery(id, now, avail, safe, admitted)
              \/ Finalize(id, now)

BudgetStep ==
    \/ CreateLedger
    \/ \E id \in issued, r \in Reservation :
          \/ \E amount \in [Dimension -> Amount] : Reserve(id, r, amount)
          \/ \E actual \in [Dimension -> Amount \cup {0}] : Reconcile(id, r, actual)
          \/ \E now \in Time : MarkUnreconciled(id, r, now)

Next == CommandStep \/ AttemptStep \/ BudgetStep

Spec == Init /\ [][Next]_vars

-----------------------------------------------------------------------------
(* Invariants *)

TypeOK ==
    /\ item \in [Work -> Item]
    /\ lease \in [Work -> Lease \cup {NoLease}]
    /\ beat \in [Work -> Nat]
    /\ issued \subseteq Identity
    /\ published \subseteq Identity
    /\ commands \subseteq Command
    /\ ledger \in BOOLEAN
    /\ usage \in [Dimension -> Usage]
    /\ resv \in [Reservation -> Resv \cup {NoReservation}]

\* The CHECK constraint of work_items never trips: no coordinator transaction
\* is refused by the schema and lost with it.  The state is the code's and each
\* marker column is what that state requires.
SchemaChecks ==
    \A w \in Work :
        /\ item[w].state = "queued" =>
              /\ item[w].attempt = NoAttempt
              /\ ~item[w].cancelRequested /\ ~item[w].recoveryRequired
        /\ item[w].state = "leased" =>
              /\ item[w].attempt # NoAttempt
              /\ ~item[w].cancelRequested /\ ~item[w].recoveryRequired
        /\ item[w].state = "cancel_requested" => item[w].cancelRequested
        /\ item[w].state = "recovery_required" =>
              item[w].attempt # NoAttempt /\ item[w].recoveryRequired

\* A lease row and its work item agree.  Leased work has the lease of its current
\* fence; work being cancelled or recovered keeps the lease of an older fence, so
\* that its process can be identified; work that may be claimed, or that ended
\* cleanly, has none; and a heartbeat row never outlives its lease.
LeaseAgreesWithItem ==
    \A w \in Work :
        /\ item[w].state \in {"absent", "queued", "completed", "cancelled"} =>
              lease[w] = NoLease
        /\ item[w].state = "leased" =>
              lease[w] # NoLease /\ lease[w].fence = item[w].fence
        /\ item[w].state \in {"cancel_requested", "recovery_required"} =>
              lease[w] # NoLease /\ lease[w].fence < item[w].fence
        /\ lease[w] # NoLease => lease[w].attempt = item[w].attempt
        /\ beat[w] # 0 => lease[w] # NoLease /\ lease[w].fence = beat[w]

\* One attempt, with its process, works for at most one work item at a time.
OneLeasePerAttempt ==
    \A v, w \in Work :
        lease[v] # NoLease /\ lease[w] # NoLease /\ lease[v].attempt = lease[w].attempt
            => v = w

\* A fence is handed out to one attempt only and never again, not even after
\* the lease was deleted, a recovery, or a cancellation.
FenceIdentifiesAttempt ==
    /\ \A i \in issued : i.fence <= item[i.work].fence
    /\ \A i, j \in issued : i.work = j.work /\ i.fence = j.fence => i = j

\* At most one attempt of a work item publishes, and it is the last one fenced in.
PublishedOnce ==
    \A p \in published :
        /\ item[p.work].state = "completed"
        /\ item[p.work].fence = p.fence
        /\ \A q \in published : q.work = p.work => q = p

\* Once a cancellation is accepted, no attempt ever publishes and the work is
\* never offered to another attempt.
CancelWins ==
    \A m \in commands : m.action = "work_cancel" =>
        /\ item[m.request.work].state \in {"cancel_requested", "cancelled", "failed"}
        /\ \A p \in published : p.work # m.request.work

\* A command takes effect once however often it is retried, even under fresh
\* keys or by another caller: one enqueue, one cancellation request and one
\* completion are ever accepted for a work item.
EachCommandTakesEffectOnce ==
    \A m, n \in commands :
        m.request.work = n.request.work /\ m.request.phase = n.request.phase => m = n

\* No work item has more attempts than its frozen ceiling, however often it is
\* recovered, and each attempt is one of the identities handed out.
AttemptsWithinCeiling ==
    \A w \in Work :
        /\ item[w].count <= MaxAttempts[w]
        /\ Cardinality({i \in issued : i.work = w}) = item[w].count

\* The amounts reserved, used and unaccounted never exceed the frozen limit.
CapacityNeverExceeded ==
    \A d \in Dimension :
        usage[d].reserved + usage[d].consumed + usage[d].unreconciled <= Limit[d]

\* The sum of the natural numbers f[x], counted unit by unit.
Units(f) == UNION {{x} \X (1 .. f[x]) : x \in DOMAIN f}
Sum(f)   == Cardinality(Units(f))

OfStatus(s) == {r \in Reservation : resv[r] # NoReservation /\ resv[r].status = s}

\* The counters of budget_dimensions are what the append-only budget_entries say:
\* nothing is reserved, consumed or blocked twice, lost, or released twice.
BudgetConserved ==
    \A d \in Dimension :
        /\ usage[d].reserved = Sum([r \in OfStatus("reserved") |-> resv[r].amount[d]])
        /\ usage[d].consumed = Sum([r \in OfStatus("reconciled") |-> resv[r].actual[d]])
        /\ usage[d].unreconciled = Sum([r \in OfStatus("unreconciled") |-> resv[r].amount[d]])

\* Whatever was published is paid for: every reservation of the publishing
\* attempt is reconciled, then and ever after.
CompletedWasSettled ==
    \A p \in published : \A r \in OfAttempt(p) : resv[r].status = "reconciled"

-----------------------------------------------------------------------------
(* Action properties *)

\* Terminal work is never reopened, and its fence never moves again.
TerminalIsFinal ==
    [][\A w \in Work : item[w].state \in Terminal => item'[w] = item[w]]_vars

\* The fence never goes back, and every attempt that loses its authority in any
\* way but by publishing loses it to a larger fence.
FenceAdvances ==
    [][\A w \in Work :
          /\ item'[w].fence >= item[w].fence
          /\ item[w].state = "leased" /\ item'[w].state \notin {"leased", "completed"}
                => item'[w].fence > item[w].fence]_vars

-----------------------------------------------------------------------------
(* Refinement *)

Outcome(state) ==
    CASE state = "completed" -> "published"
      [] state \in {"failed", "cancelled"} -> "abandoned"
      [] OTHER -> "open"

Fenced == INSTANCE FencedWork WITH
    epoch   <- [w \in Work |-> item[w].fence],
    holder  <- [w \in Work |-> IF item[w].state = "leased" THEN item[w].fence ELSE 0],
    outcome <- [w \in Work |-> Outcome(item[w].state)],
    output  <- {<<p.work, p.fence>> : p \in published}

\* The coordinator, with its leases, retries, recoveries and cancellations,
\* implements the fenced work of FencedWork.
ImplementsFencedWork == Fenced!FencedSpec
=============================================================================
