------------------------- MODULE WorkAuthorityProofs -------------------------
(* Theorems about WorkAuthority and their proofs. *)
EXTENDS WorkAuthority, FiniteSetTheorems, TLAPS

-----------------------------------------------------------------------------
(* The types of the values the actions write *)

\* What _record_work_mutation writes is a row of operator_commands.
LEMMA RecordType ==
    ASSUME NEW c \in Caller, NEW action \in {"optimize", "work_cancel"}, NEW k \in Key,
           NEW phase \in {"enqueue", "request", "complete"}, NEW w \in Work,
           NEW rev \in Nat, NEW safe \in BOOLEAN, NEW result \in WorkState,
           commands \subseteq Command,
           Record(c, action, k, phase, w, rev, safe, result)
    PROVE  commands' \subseteq Command
<1> DEFINE req == [phase |-> phase, work |-> w, rev |-> rev, safe |-> safe]
<1>1. req \in Request
  BY DEF Request
<1>2. [caller |-> c, action |-> action, key |-> k, result |-> result,
       request |-> req] \in Command
  BY <1>1 DEF Command
<1> QED
  BY <1>2 DEF Record

\* A state change, and a retry, leave a row of work_items.
LEMMA ItemType ==
    ASSUME NEW it \in Item
    PROVE  /\ \A s \in WorkState : [it EXCEPT !.state = s] \in Item
           /\ \A avail \in Time : Requeued(it, avail) \in Item
<1>1. ASSUME NEW s \in WorkState PROVE [it EXCEPT !.state = s] \in Item
  BY DEF Item
<1>2. ASSUME NEW avail \in Time PROVE Requeued(it, avail) \in Item
  <2>1. "queued" \in WorkState
    BY DEF WorkState
  <2> QED
    BY <2>1 DEF Requeued, Item
<1> QED
  BY <1>1, <1>2

\* Reserving and settling leave a row of budget_dimensions.
LEMMA UsageType ==
    ASSUME NEW u \in Usage, NEW x \in Int, NEW y \in Int
    PROVE  /\ [u EXCEPT !.reserved = @ + x] \in Usage
           /\ [u EXCEPT !.reserved = @ - x, !.consumed = @ + y] \in Usage
           /\ [u EXCEPT !.reserved = @ - x, !.unreconciled = @ + y] \in Usage
<1>1. [u EXCEPT !.reserved = @ + x] \in Usage
  BY DEF Usage
<1>2. [u EXCEPT !.reserved = @ - x, !.consumed = @ + y] \in Usage
  <2>1. u.reserved - x \in Int /\ u.consumed + y \in Int
    BY DEF Usage
  <2> QED
    BY <2>1 DEF Usage
<1>3. [u EXCEPT !.reserved = @ - x, !.unreconciled = @ + y] \in Usage
  <2>1. u.reserved - x \in Int /\ u.unreconciled + y \in Int
    BY DEF Usage
  <2> QED
    BY <2>1 DEF Usage
<1> QED
  BY <1>1, <1>2, <1>3

\* A requested cancellation moves one row: its state, its marker and its fence.
Withdrawn(it, next) ==
    [it EXCEPT !.state = next, !.cancelRequested = TRUE, !.fence = @ + 1]

LEMMA CancellationRequested ==
    ASSUME TypeOK, NEW c \in Caller, NEW k \in Key, NEW w \in Work,
           RequestCancellation(c, k, w)
    PROVE  \E next \in {"cancelled", "cancel_requested"} :
              /\ item' = [item EXCEPT ![w] = Withdrawn(item[w], next)]
              /\ Withdrawn(item[w], next) \in Item
              /\ Record(c, "work_cancel", k, "request", w, item[w].fence, TRUE, next)
<1> DEFINE next == IF item[w].state = "queued" THEN "cancelled" ELSE "cancel_requested"
<1>1. /\ item' = [item EXCEPT ![w].state = next, ![w].cancelRequested = TRUE,
                              ![w].fence = item[w].fence + 1]
      /\ Record(c, "work_cancel", k, "request", w, item[w].fence, TRUE, next)
  BY DEF RequestCancellation, NextFence
<1>2. next \in {"cancelled", "cancel_requested"}
  OBVIOUS
<1>3. item \in [Work -> Item] /\ item[w] \in Item
  BY DEF TypeOK
<1> HIDE DEF next
<1>4. Withdrawn(item[w], next) \in Item
  <2>1. item[w].fence + 1 \in Nat /\ next \in WorkState
    BY <1>2, <1>3 DEF Item, WorkState
  <2> QED
    BY <1>3, <2>1 DEF Withdrawn, Item
<1>5. item' = [item EXCEPT ![w] = Withdrawn(item[w], next)]
  BY <1>1, <1>3 DEF Withdrawn
<1> QED
  BY <1>1, <1>2, <1>4, <1>5

\* The type invariant is inductive: no transaction of the coordinator or the
\* broker writes a row outside its table's columns.
LEMMA TypeInductive == TypeOK /\ [Next]_vars => TypeOK'
<1> SUFFICES ASSUME TypeOK, [Next]_vars PROVE TypeOK'
  OBVIOUS
<1> USE TimeAssumption, NullAssumption, BudgetAssumption, FrozenInputAssumption
<1>1. ASSUME NEW c \in Caller, NEW k \in Key, NEW w \in Work, Enqueue(c, k, w)
      PROVE  TypeOK'
  <2>1. item' \in [Work -> Item]
    <3>1. [item[w] EXCEPT !.state = "queued"] \in Item
      BY ItemType DEF TypeOK, WorkState
    <3>2. item' = [item EXCEPT ![w] = [item[w] EXCEPT !.state = "queued"]]
      BY <1>1 DEF Enqueue, TypeOK
    <3> QED
      BY <3>1, <3>2 DEF TypeOK
  <2>2. commands' \subseteq Command
    BY <1>1, RecordType DEF Enqueue, TypeOK, WorkState
  <2> QED
    BY <1>1, <2>1, <2>2 DEF Enqueue, TypeOK, budgetVars
<1>2. ASSUME NEW c \in Caller, NEW k \in Key, NEW w \in Work, RequestCancellation(c, k, w)
      PROVE  TypeOK'
  <2>1. item' \in [Work -> Item]
    <3>1. PICK next \in {"cancelled", "cancel_requested"} :
             /\ item' = [item EXCEPT ![w] = Withdrawn(item[w], next)]
             /\ Withdrawn(item[w], next) \in Item
      BY <1>2, CancellationRequested
    <3> QED
      BY <3>1 DEF TypeOK
  <2>2. commands' \subseteq Command
    <3>1. item[w].fence \in Nat
      BY DEF TypeOK, Item
    <3> QED
      BY <1>2, <3>1, RecordType DEF RequestCancellation, TypeOK, WorkState
  <2> QED
    BY <1>2, <2>1, <2>2 DEF RequestCancellation, TypeOK, budgetVars
<1>3. ASSUME NEW c \in Caller, NEW k \in Key, NEW id \in issued, NEW safe \in BOOLEAN,
             CompleteCancellation(c, k, id, safe)
      PROVE  TypeOK'
  <2>1. id.work \in Work
    BY DEF TypeOK, Identity
  <2>2. item' \in [Work -> Item]
    <3> DEFINE terminal == IF safe THEN "cancelled" ELSE "failed"
    <3>1. [item[id.work] EXCEPT !.state = terminal] \in Item
      <4>1. terminal \in WorkState
        BY DEF WorkState
      <4> HIDE DEF terminal
      <4> QED
        BY <2>1, <4>1, ItemType DEF TypeOK
    <3>2. item' = [item EXCEPT ![id.work] = [item[id.work] EXCEPT !.state = terminal]]
      BY <1>3, <2>1 DEF CompleteCancellation, TypeOK
    <3> QED
      BY <2>1, <3>1, <3>2 DEF TypeOK
  <2>3. lease' \in [Work -> Lease \cup {NoLease}] /\ beat' \in [Work -> Nat]
    BY <1>3, <2>1 DEF CompleteCancellation, RemoveLease, TypeOK
  <2>4. commands' \subseteq Command
    <3>1. item[id.work].fence \in Nat
      BY <2>1 DEF TypeOK, Item
    <3> QED
      <4> DEFINE terminal == IF safe THEN "cancelled" ELSE "failed"
      <4>1. terminal \in WorkState
        BY DEF WorkState
      <4>2. Record(c, "work_cancel", k, "complete", id.work, item[id.work].fence, safe, terminal)
        BY <1>3 DEF CompleteCancellation
      <4>3. commands \subseteq Command
        BY DEF TypeOK
      <4> HIDE DEF terminal
      <4> QED
        BY <2>1, <3>1, <4>1, <4>2, <4>3, RecordType
  <2> QED
    BY <1>3, <2>2, <2>3, <2>4 DEF CompleteCancellation, TypeOK, budgetVars
<1>4. ASSUME NEW now \in Time, NEW w \in Work, NEW a \in Attempt, NEW expires \in Time,
             Claim(w, a, now, expires)
      PROVE  TypeOK'
  <2>1. NextFence(w) \in Nat
    BY DEF NextFence, TypeOK, Item
  <2>2. item' \in [Work -> Item]
    BY <1>4, <2>1 DEF Claim, TypeOK, Item, WorkState
  <2>3. lease' \in [Work -> Lease \cup {NoLease}]
    BY <1>4, <2>1 DEF Claim, TypeOK, Lease
  <2>4. issued' \subseteq Identity
    BY <1>4, <2>1 DEF Claim, TypeOK, Identity
  <2> QED
    BY <1>4, <2>2, <2>3, <2>4 DEF Claim, TypeOK, budgetVars
<1>5. ASSUME NEW now \in Time, NEW id \in issued, NEW expires \in Time,
             Heartbeat(id, now, expires)
      PROVE  TypeOK'
  <2>1. id.work \in Work /\ id.fence \in Nat
    BY DEF TypeOK, Identity
  <2>2. lease' \in [Work -> Lease \cup {NoLease}]
    BY <1>5, <2>1 DEF Heartbeat, Holds, TypeOK, Lease
  <2> QED
    BY <1>5, <2>1, <2>2 DEF Heartbeat, TypeOK, budgetVars
<1>6. ASSUME NEW now \in Time, NEW id \in issued, BeginExpiredLeaseRecovery(id, now)
      PROVE  TypeOK'
  <2>1. id.work \in Work
    BY DEF TypeOK, Identity
  <2>2. item' \in [Work -> Item]
    BY <1>6, <2>1 DEF BeginExpiredLeaseRecovery, NextFence, TypeOK, Item, WorkState
  <2> QED
    BY <1>6, <2>2 DEF BeginExpiredLeaseRecovery, TypeOK, budgetVars
<1>7. ASSUME NEW now \in Time, NEW id \in issued, NEW avail \in Time,
             NEW safe \in BOOLEAN, NEW admitted \in BOOLEAN,
             CompleteRecovery(id, now, avail, safe, admitted)
      PROVE  TypeOK'
  <2>1. id.work \in Work
    BY DEF TypeOK, Identity
  <2>2. item' \in [Work -> Item]
    <3>1. /\ [item[id.work] EXCEPT !.state = "failed"] \in Item
          /\ Requeued(item[id.work], avail) \in Item
      BY <2>1, ItemType DEF TypeOK, WorkState
    <3>2. \/ item' = [item EXCEPT ![id.work] = Requeued(item[id.work], avail)]
          \/ item' = [item EXCEPT ![id.work] = [item[id.work] EXCEPT !.state = "failed"]]
      BY <1>7, <2>1 DEF CompleteRecovery, TypeOK
    <3> QED
      BY <2>1, <3>1, <3>2 DEF TypeOK
  <2>3. lease' \in [Work -> Lease \cup {NoLease}] /\ beat' \in [Work -> Nat]
    BY <1>7, <2>1 DEF CompleteRecovery, RemoveLease, TypeOK
  <2> QED
    BY <1>7, <2>2, <2>3 DEF CompleteRecovery, TypeOK, budgetVars
<1>8. ASSUME NEW now \in Time, NEW id \in issued, Finalize(id, now)
      PROVE  TypeOK'
  <2>1. id.work \in Work /\ id \in Identity
    BY DEF TypeOK, Identity
  <2>2. item' \in [Work -> Item]
    <3>1. [item[id.work] EXCEPT !.state = "completed"] \in Item
      BY <2>1, ItemType DEF TypeOK, WorkState
    <3>2. item' = [item EXCEPT ![id.work] = [item[id.work] EXCEPT !.state = "completed"]]
      BY <1>8, <2>1 DEF Finalize, TypeOK
    <3> QED
      BY <2>1, <3>1, <3>2 DEF TypeOK
  <2>3. lease' \in [Work -> Lease \cup {NoLease}] /\ beat' \in [Work -> Nat]
    BY <1>8, <2>1 DEF Finalize, RemoveLease, TypeOK
  <2> QED
    BY <1>8, <2>1, <2>2, <2>3 DEF Finalize, TypeOK, budgetVars
<1>9. CASE CreateLedger
  BY <1>9 DEF CreateLedger, TypeOK
<1>10. ASSUME NEW id \in issued, NEW r \in Reservation, NEW amount \in [Dimension -> Amount],
              Reserve(id, r, amount)
       PROVE  TypeOK'
  <2>1. id \in Identity /\ amount \in [Dimension -> Nat]
    BY DEF TypeOK
  <2>2. usage' \in [Dimension -> Usage]
    <3>1. ASSUME NEW d \in Dimension
          PROVE  [usage[d] EXCEPT !.reserved = @ + amount[d]] \in Usage
      <4>1. usage[d] \in Usage /\ amount[d] \in Int
        BY <2>1 DEF TypeOK
      <4> QED
        BY <4>1, UsageType
    <3> QED
      BY <1>10, <3>1 DEF Reserve
  <2>3. resv' \in [Reservation -> Resv \cup {NoReservation}]
    BY <1>10, <2>1 DEF Reserve, TypeOK, Resv
  <2> QED
    BY <1>10, <2>2, <2>3 DEF Reserve, TypeOK
<1>11. ASSUME NEW id \in issued, NEW r \in Reservation,
              NEW actual \in [Dimension -> Amount \cup {0}], Reconcile(id, r, actual)
       PROVE  TypeOK'
  <2>1. actual \in [Dimension -> Nat] /\ resv[r] \in Resv
    <3>1. resv[r] \in Resv
      BY <1>11 DEF Reconcile, Open, TypeOK
    <3>2. Amount \cup {0} \subseteq Nat
      OBVIOUS
    <3> QED
      BY <3>1, <3>2
  <2>2. usage' \in [Dimension -> Usage]
    <3>1. ASSUME NEW d \in Dimension
          PROVE  [usage[d] EXCEPT !.reserved = @ - resv[r].amount[d],
                                  !.consumed = @ + actual[d]] \in Usage
      <4>1. usage[d] \in Usage /\ resv[r].amount[d] \in Int /\ actual[d] \in Int
        BY <2>1 DEF TypeOK, Resv
      <4> QED
        BY <4>1, UsageType
    <3> QED
      BY <1>11, <3>1 DEF Reconcile
  <2>3. resv' \in [Reservation -> Resv \cup {NoReservation}]
    BY <1>11, <2>1 DEF Reconcile, TypeOK, Resv
  <2> QED
    BY <1>11, <2>2, <2>3 DEF Reconcile, TypeOK
<1>12. ASSUME NEW id \in issued, NEW r \in Reservation, NEW now \in Time,
              MarkUnreconciled(id, r, now)
       PROVE  TypeOK'
  <2>1. resv[r] \in Resv
    BY <1>12 DEF MarkUnreconciled, Open, TypeOK
  <2>2. usage' \in [Dimension -> Usage]
    <3>1. ASSUME NEW d \in Dimension
          PROVE  [usage[d] EXCEPT !.reserved = @ - resv[r].amount[d],
                                  !.unreconciled = @ + resv[r].amount[d]] \in Usage
      <4>1. usage[d] \in Usage /\ resv[r].amount[d] \in Int
        BY <2>1 DEF TypeOK, Resv
      <4> QED
        BY <4>1, UsageType
    <3> QED
      BY <1>12, <3>1 DEF MarkUnreconciled
  <2>3. resv' \in [Reservation -> Resv \cup {NoReservation}]
    BY <1>12, <2>1 DEF MarkUnreconciled, TypeOK, Resv
  <2> QED
    BY <1>12, <2>2, <2>3 DEF MarkUnreconciled, TypeOK
<1>13. CASE UNCHANGED vars
  BY <1>13 DEF vars, TypeOK
<1> QED
  BY <1>1, <1>2, <1>3, <1>4, <1>5, <1>6, <1>7, <1>8, <1>9, <1>10, <1>11, <1>12, <1>13
  DEF Next, CommandStep, AttemptStep, BudgetStep

\* Every reachable state of the coordinator's and the broker's tables has the
\* types of the schema, for any number of work items, attempts and commands.
THEOREM TypeCorrect == Spec => []TypeOK
<1>1. Init => TypeOK
  <2> SUFFICES ASSUME Init PROVE TypeOK
    OBVIOUS
  <2>1. item \in [Work -> Item]
    BY FrozenInputAssumption DEF Init, Item, WorkState
  <2>2. usage \in [Dimension -> Usage]
    BY DEF Init, Usage
  <2> QED
    BY <2>1, <2>2 DEF Init, TypeOK
<1> QED
  BY <1>1, TypeInductive, PTL DEF Spec

-----------------------------------------------------------------------------
(* What the broker and the workers leave alone *)

\* The broker writes its own tables only.
LEMMA BudgetFrame ==
    BudgetStep => UNCHANGED <<item, lease, beat, issued, published, commands>>
<1>1. ASSUME NEW id \in issued, NEW r \in Reservation, NEW amount \in [Dimension -> Amount],
             Reserve(id, r, amount)
      PROVE  UNCHANGED <<item, lease, beat, issued, published, commands>>
  BY <1>1 DEF Reserve
<1>2. ASSUME NEW id \in issued, NEW r \in Reservation,
             NEW actual \in [Dimension -> Amount \cup {0}], Reconcile(id, r, actual)
      PROVE  UNCHANGED <<item, lease, beat, issued, published, commands>>
  BY <1>2 DEF Reconcile
<1>3. ASSUME NEW id \in issued, NEW r \in Reservation, NEW now \in Time,
             MarkUnreconciled(id, r, now)
      PROVE  UNCHANGED <<item, lease, beat, issued, published, commands>>
  BY <1>3 DEF MarkUnreconciled
<1>4. CreateLedger => UNCHANGED <<item, lease, beat, issued, published, commands>>
  BY DEF CreateLedger
<1> QED
  BY <1>1, <1>2, <1>3, <1>4 DEF BudgetStep

\* Claims, heartbeats, recoveries and publications record no command and move
\* no budget.
LEMMA AttemptFrame == AttemptStep => UNCHANGED <<commands, ledger, usage, resv>>
<1>1. ASSUME NEW now \in Time, NEW w \in Work, NEW a \in Attempt, NEW expires \in Time,
             Claim(w, a, now, expires)
      PROVE  UNCHANGED <<commands, ledger, usage, resv>>
  BY <1>1 DEF Claim, budgetVars
<1>2. ASSUME NEW now \in Time, NEW id \in issued, NEW expires \in Time,
             Heartbeat(id, now, expires)
      PROVE  UNCHANGED <<commands, ledger, usage, resv>>
  BY <1>2 DEF Heartbeat, budgetVars
<1>3. ASSUME NEW now \in Time, NEW id \in issued,
             BeginExpiredLeaseRecovery(id, now) \/ Finalize(id, now)
      PROVE  UNCHANGED <<commands, ledger, usage, resv>>
  BY <1>3 DEF BeginExpiredLeaseRecovery, Finalize, budgetVars
<1>4. ASSUME NEW now \in Time, NEW id \in issued, NEW avail \in Time,
             NEW safe \in BOOLEAN, NEW admitted \in BOOLEAN,
             CompleteRecovery(id, now, avail, safe, admitted)
      PROVE  UNCHANGED <<commands, ledger, usage, resv>>
  BY <1>4 DEF CompleteRecovery, budgetVars
<1> QED
  BY <1>1, <1>2, <1>3, <1>4 DEF AttemptStep

\* A command moves no budget.
LEMMA CommandFrame == CommandStep => UNCHANGED <<ledger, usage, resv>>
<1>1. ASSUME NEW c \in Caller, NEW k \in Key, NEW w \in Work,
             Enqueue(c, k, w) \/ RequestCancellation(c, k, w)
      PROVE  UNCHANGED <<ledger, usage, resv>>
  BY <1>1 DEF Enqueue, RequestCancellation, budgetVars
<1>2. ASSUME NEW c \in Caller, NEW k \in Key, NEW id \in issued, NEW safe \in BOOLEAN,
             CompleteCancellation(c, k, id, safe)
      PROVE  UNCHANGED <<ledger, usage, resv>>
  BY <1>2 DEF CompleteCancellation, budgetVars
<1> QED
  BY <1>1, <1>2 DEF CommandStep

-----------------------------------------------------------------------------
(* The moves of a work item *)

\* The state and fence of one work item before and after a transition that
\* publishes nothing.
Goes(w, from, to, fence) ==
    /\ item[w].state \in from
    /\ item'[w].state \in to
    /\ item'[w].fence = fence

Moved(w) ==
    \/ Goes(w, {"absent"}, {"queued"}, item[w].fence)
    \/ Goes(w, {"queued"}, {"leased", "cancelled"}, item[w].fence + 1)
    \/ Goes(w, {"leased", "recovery_required"}, {"cancel_requested"}, item[w].fence + 1)
    \/ Goes(w, {"leased"}, {"recovery_required"}, item[w].fence + 1)
    \/ Goes(w, {"cancel_requested"}, {"cancelled", "failed"}, item[w].fence)
    \/ Goes(w, {"recovery_required"}, {"queued", "failed"}, item[w].fence)

PublishedBy(w) ==
    \E id \in issued :
        /\ id.work = w
        /\ item[w].fence = id.fence
        /\ published' = published \cup {id}
        /\ Goes(w, {"leased"}, {"completed"}, item[w].fence)

\* Every step changes at most one work item, along one of the moves above, and
\* publishes only by moving it from leased to completed under its fence.
ItemStep ==
    \/ UNCHANGED <<item, published>>
    \/ \E w \in Work :
          /\ \A v \in Work \ {w} : item'[v] = item[v]
          /\ \/ Moved(w) /\ published' = published
             \/ PublishedBy(w)

LEMMA StepMovesOneItem == TypeOK /\ [Next]_vars => ItemStep
<1> SUFFICES ASSUME TypeOK, [Next]_vars PROVE ItemStep
  OBVIOUS
<1> USE DEF Goes
<1>1. ASSUME NEW c \in Caller, NEW k \in Key, NEW w \in Work, Enqueue(c, k, w)
      PROVE  ItemStep
  <2>1. Moved(w) /\ published' = published /\ \A v \in Work \ {w} : item'[v] = item[v]
    BY <1>1 DEF Enqueue, Moved, TypeOK, Item
  <2> QED
    BY <2>1 DEF ItemStep
<1>2. ASSUME NEW c \in Caller, NEW k \in Key, NEW w \in Work, RequestCancellation(c, k, w)
      PROVE  ItemStep
  <2>1. Moved(w) /\ published' = published /\ \A v \in Work \ {w} : item'[v] = item[v]
    BY <1>2 DEF RequestCancellation, Cancellable, NextFence, Moved, TypeOK, Item
  <2> QED
    BY <2>1 DEF ItemStep
<1>3. ASSUME NEW c \in Caller, NEW k \in Key, NEW id \in issued, NEW safe \in BOOLEAN,
             CompleteCancellation(c, k, id, safe)
      PROVE  ItemStep
  <2>1. id.work \in Work
    BY DEF TypeOK, Identity
  <2>2. /\ Moved(id.work) /\ published' = published
        /\ \A v \in Work \ {id.work} : item'[v] = item[v]
    BY <1>3, <2>1 DEF CompleteCancellation, Moved, TypeOK, Item
  <2> QED
    BY <2>1, <2>2 DEF ItemStep
<1>4. ASSUME NEW now \in Time, NEW w \in Work, NEW a \in Attempt, NEW expires \in Time,
             Claim(w, a, now, expires)
      PROVE  ItemStep
  <2>1. Moved(w) /\ published' = published /\ \A v \in Work \ {w} : item'[v] = item[v]
    BY <1>4 DEF Claim, NextFence, Moved, TypeOK, Item
  <2> QED
    BY <2>1 DEF ItemStep
<1>5. ASSUME NEW now \in Time, NEW id \in issued, BeginExpiredLeaseRecovery(id, now)
      PROVE  ItemStep
  <2>1. id.work \in Work
    BY DEF TypeOK, Identity
  <2>2. /\ Moved(id.work) /\ published' = published
        /\ \A v \in Work \ {id.work} : item'[v] = item[v]
    BY <1>5, <2>1 DEF BeginExpiredLeaseRecovery, Current, NextFence, Moved, TypeOK, Item
  <2> QED
    BY <2>1, <2>2 DEF ItemStep
<1>6. ASSUME NEW now \in Time, NEW id \in issued, NEW avail \in Time,
             NEW safe \in BOOLEAN, NEW admitted \in BOOLEAN,
             CompleteRecovery(id, now, avail, safe, admitted)
      PROVE  ItemStep
  <2>1. id.work \in Work
    BY DEF TypeOK, Identity
  <2>2. /\ Moved(id.work) /\ published' = published
        /\ \A v \in Work \ {id.work} : item'[v] = item[v]
    BY <1>6, <2>1 DEF CompleteRecovery, Requeued, Moved, TypeOK, Item
  <2> QED
    BY <2>1, <2>2 DEF ItemStep
<1>7. ASSUME NEW now \in Time, NEW id \in issued, Finalize(id, now)
      PROVE  ItemStep
  <2>1. id.work \in Work
    BY DEF TypeOK, Identity
  <2>2. /\ PublishedBy(id.work)
        /\ \A v \in Work \ {id.work} : item'[v] = item[v]
    BY <1>7, <2>1 DEF Finalize, Current, PublishedBy, TypeOK, Item
  <2> QED
    BY <2>1, <2>2 DEF ItemStep
<1>8. ASSUME NEW now \in Time, NEW id \in issued, NEW expires \in Time,
             Heartbeat(id, now, expires)
      PROVE  ItemStep
  BY <1>8 DEF Heartbeat, ItemStep
<1>9. CASE BudgetStep
  <2>1. item' = item /\ published' = published
    BY <1>9 DEF BudgetStep, CreateLedger, Reserve, Reconcile, MarkUnreconciled
  <2> QED
    BY <2>1 DEF ItemStep
<1>10. CASE UNCHANGED vars
  BY <1>10 DEF vars, ItemStep
<1> QED
  BY <1>1, <1>2, <1>3, <1>4, <1>5, <1>6, <1>7, <1>8, <1>9, <1>10
  DEF Next, CommandStep, AttemptStep

\* No step reopens terminal work.
THEOREM TerminalWorkIsFinal == Spec => TerminalIsFinal
<1>1. ASSUME TypeOK, [Next]_vars
      PROVE  \A w \in Work : item[w].state \in Terminal => item'[w] = item[w]
  BY <1>1, StepMovesOneItem DEF ItemStep, Moved, PublishedBy, Goes, Terminal
<1>2. TypeOK /\ [Next]_vars =>
        [\A w \in Work : item[w].state \in Terminal => item'[w] = item[w]]_vars
  BY <1>1
<1> QED
  BY <1>2, TypeCorrect, PTL DEF Spec, TerminalIsFinal

\* Authority that is lost without publishing is lost to a larger fence.
THEOREM FencesAdvance == Spec => FenceAdvances
<1>1. ASSUME TypeOK, [Next]_vars
      PROVE  \A w \in Work :
                /\ item'[w].fence >= item[w].fence
                /\ item[w].state = "leased" /\ item'[w].state \notin {"leased", "completed"}
                      => item'[w].fence > item[w].fence
  <2>1. \A w \in Work : item[w].fence \in Nat
    BY <1>1 DEF TypeOK, Item
  <2> QED
    BY <1>1, <2>1, StepMovesOneItem DEF ItemStep, Moved, PublishedBy, Goes
<1>2. TypeOK /\ [Next]_vars =>
        [\A w \in Work :
            /\ item'[w].fence >= item[w].fence
            /\ item[w].state = "leased" /\ item'[w].state \notin {"leased", "completed"}
                  => item'[w].fence > item[w].fence]_vars
  BY <1>1
<1> QED
  BY <1>2, TypeCorrect, PTL DEF Spec, FenceAdvances

-----------------------------------------------------------------------------
(* Publication *)

LEMMA PublishedOnceInductive == TypeOK /\ PublishedOnce /\ [Next]_vars => PublishedOnce'
<1> SUFFICES ASSUME TypeOK, PublishedOnce, [Next]_vars, NEW p \in published',
                    NEW q \in published'
             PROVE  /\ item'[p.work].state = "completed"
                    /\ item'[p.work].fence = p.fence
                    /\ q.work = p.work => q = p
  BY DEF PublishedOnce
<1>1. \A i \in published : i.work \in Work
  BY DEF TypeOK, Identity
<1>2. CASE UNCHANGED <<item, published>>
  BY <1>2 DEF PublishedOnce
<1>3. ASSUME NEW w \in Work, \A v \in Work \ {w} : item'[v] = item[v], Moved(w),
             published' = published
      PROVE  /\ item'[p.work].state = "completed"
             /\ item'[p.work].fence = p.fence
             /\ q.work = p.work => q = p
  BY <1>1, <1>3 DEF PublishedOnce, Moved, Goes
<1>4. ASSUME NEW w \in Work, \A v \in Work \ {w} : item'[v] = item[v], PublishedBy(w)
      PROVE  /\ item'[p.work].state = "completed"
             /\ item'[p.work].fence = p.fence
             /\ q.work = p.work => q = p
  <2>1. \A i \in published : i.work # w
    BY <1>4 DEF PublishedOnce, PublishedBy, Goes
  <2>2. PICK id \in issued : id.work = w /\ item[w].fence = id.fence
                             /\ published' = published \cup {id}
                             /\ Goes(w, {"leased"}, {"completed"}, item[w].fence)
    BY <1>4 DEF PublishedBy
  <2> QED
    BY <1>1, <1>4, <2>1, <2>2 DEF PublishedOnce, Goes
<1> QED
  BY <1>2, <1>3, <1>4, StepMovesOneItem DEF ItemStep

\* However attempts, recoveries and cancellations interleave, one attempt of a
\* work item publishes at most, and only under the fence the item ends with.
THEOREM AtMostOnePublication == Spec => []PublishedOnce
<1>1. Init => PublishedOnce
  BY DEF Init, PublishedOnce
<1> QED
  BY <1>1, PublishedOnceInductive, TypeCorrect, PTL DEF Spec

-----------------------------------------------------------------------------
(* Fences *)

\* Only Claim hands out an identity, under a fence no earlier claim got.
LEMMA StepIssues ==
    TypeOK /\ [Next]_vars =>
        \/ issued' = issued
        \/ \E new \in Identity :
              /\ issued' = issued \cup {new}
              /\ new.fence = item[new.work].fence + 1
              /\ item'[new.work].fence = new.fence
<1> SUFFICES ASSUME TypeOK, [Next]_vars, issued' # issued
             PROVE  \E new \in Identity :
                       /\ issued' = issued \cup {new}
                       /\ new.fence = item[new.work].fence + 1
                       /\ item'[new.work].fence = new.fence
  OBVIOUS
<1>1. PICK now \in Time, w \in Work, a \in Attempt, expires \in Time : Claim(w, a, now, expires)
  <2>1. ~CommandStep
    <3>1. ASSUME NEW c \in Caller, NEW k \in Key, NEW w \in Work
          PROVE  ~Enqueue(c, k, w) /\ ~RequestCancellation(c, k, w)
      BY DEF Enqueue, RequestCancellation
    <3>2. ASSUME NEW c \in Caller, NEW k \in Key, NEW id \in issued, NEW safe \in BOOLEAN
          PROVE  ~CompleteCancellation(c, k, id, safe)
      BY DEF CompleteCancellation
    <3> QED
      BY <3>1, <3>2 DEF CommandStep
  <2>2. ~BudgetStep /\ ~UNCHANGED vars
    BY BudgetFrame DEF vars
  <2>3. AttemptStep
    BY <2>1, <2>2 DEF Next
  <2>4. ASSUME NEW now \in Time, NEW id \in issued
        PROVE  /\ ~\E expires \in Time : Heartbeat(id, now, expires)
               /\ ~BeginExpiredLeaseRecovery(id, now)
               /\ ~Finalize(id, now)
    BY DEF Heartbeat, BeginExpiredLeaseRecovery, Finalize
  <2>5. ASSUME NEW now \in Time, NEW id \in issued, NEW avail \in Time,
               NEW safe \in BOOLEAN, NEW admitted \in BOOLEAN
        PROVE  ~CompleteRecovery(id, now, avail, safe, admitted)
    BY DEF CompleteRecovery
  <2> QED
    BY <2>3, <2>4, <2>5 DEF AttemptStep
<1> DEFINE new == [work |-> w, attempt |-> a, fence |-> item[w].fence + 1]
<1>2. new \in Identity
  BY DEF Identity, TypeOK, Item
<1>3. issued' = issued \cup {new} /\ item'[w].fence = item[w].fence + 1
  BY <1>1 DEF Claim, NextFence, TypeOK, Item
<1> QED
  BY <1>2, <1>3

LEMMA FencesInductive ==
    TypeOK /\ FenceIdentifiesAttempt /\ [Next]_vars => FenceIdentifiesAttempt'
<1> SUFFICES ASSUME TypeOK, FenceIdentifiesAttempt, [Next]_vars
             PROVE  FenceIdentifiesAttempt'
  OBVIOUS
<1>1. \A w \in Work : item[w].fence \in Nat /\ item'[w].fence >= item[w].fence
  BY StepMovesOneItem DEF TypeOK, Item, ItemStep, Moved, PublishedBy, Goes
<1>2. \A i \in issued : i.work \in Work /\ i.fence \in Nat
  BY DEF TypeOK, Identity
<1>3. \A w \in Work : item'[w].fence \in Nat
  BY TypeInductive DEF TypeOK, Item
<1>4. \A i \in issued : i.fence <= item'[i.work].fence
  <2> TAKE i \in issued
  <2>1. i.fence <= item[i.work].fence
    BY DEF FenceIdentifiesAttempt
  <2> QED
    BY <1>1, <1>2, <1>3, <2>1
<1>5. CASE issued' = issued
  BY <1>4, <1>5 DEF FenceIdentifiesAttempt
<1>6. ASSUME NEW new \in Identity, issued' = issued \cup {new},
             new.fence = item[new.work].fence + 1, item'[new.work].fence = new.fence
      PROVE  FenceIdentifiesAttempt'
  <2>1. new.work \in Work
    BY DEF Identity
  <2>2. \A i \in issued : i.work = new.work => i.fence # new.fence
    BY <1>1, <1>2, <1>6, <2>1 DEF FenceIdentifiesAttempt
  <2>3. new.fence <= item'[new.work].fence
    BY <1>3, <1>6, <2>1
  <2> QED
    BY <1>4, <1>6, <2>2, <2>3 DEF FenceIdentifiesAttempt
<1> QED
  BY <1>5, <1>6, StepIssues

\* A fence names one attempt for ever, whatever happened to the lease row.
THEOREM FencesIdentifyAttempts == Spec => []FenceIdentifiesAttempt
<1>1. Init => FenceIdentifiesAttempt
  BY DEF Init, FenceIdentifiesAttempt
<1> QED
  BY <1>1, FencesInductive, TypeCorrect, PTL DEF Spec

-----------------------------------------------------------------------------
(* Attempts *)

Attempts(w) == {i \in issued : i.work = w}

\* Every attempt is counted, and only Claim counts one.
LEMMA StepCounts ==
    TypeOK /\ [Next]_vars =>
        \/ issued' = issued /\ \A w \in Work : item'[w].count = item[w].count
        \/ \E new \in Identity :
              /\ issued' = issued \cup {new}
              /\ new.fence = item[new.work].fence + 1
              /\ item[new.work].count < MaxAttempts[new.work]
              /\ item'[new.work].count = item[new.work].count + 1
              /\ \A w \in Work \ {new.work} : item'[w].count = item[w].count
<1> SUFFICES ASSUME TypeOK, [Next]_vars,
                    ~(issued' = issued /\ \A w \in Work : item'[w].count = item[w].count)
             PROVE  \E new \in Identity :
                       /\ issued' = issued \cup {new}
                       /\ new.fence = item[new.work].fence + 1
                       /\ item[new.work].count < MaxAttempts[new.work]
                       /\ item'[new.work].count = item[new.work].count + 1
                       /\ \A w \in Work \ {new.work} : item'[w].count = item[w].count
  OBVIOUS
<1> DEFINE Same == issued' = issued /\ \A w \in Work : item'[w].count = item[w].count
<1>1. PICK now \in Time, w \in Work, a \in Attempt, expires \in Time : Claim(w, a, now, expires)
  <2>1. ASSUME NEW c \in Caller, NEW k \in Key, NEW w \in Work,
               Enqueue(c, k, w) \/ RequestCancellation(c, k, w)
        PROVE  Same
    <3>1. CASE Enqueue(c, k, w)
      BY <3>1 DEF Enqueue, TypeOK, Item
    <3>2. CASE RequestCancellation(c, k, w)
      <4>1. issued' = issued
        BY <3>2 DEF RequestCancellation
      <4>2. PICK next, fence : item' = [item EXCEPT ![w].state = next,
                                                    ![w].cancelRequested = TRUE,
                                                    ![w].fence = fence]
        BY <3>2 DEF RequestCancellation
      <4> QED
        BY <4>1, <4>2 DEF TypeOK, Item
    <3> QED
      BY <2>1, <3>1, <3>2
  <2>2. ASSUME NEW c \in Caller, NEW k \in Key, NEW id \in issued, NEW safe \in BOOLEAN,
               CompleteCancellation(c, k, id, safe)
        PROVE  Same
    BY <2>2 DEF CompleteCancellation, TypeOK, Item, Identity
  <2>3. ~CommandStep
    BY <2>1, <2>2 DEF CommandStep
  <2>4. ~BudgetStep /\ ~UNCHANGED vars
    BY BudgetFrame DEF vars
  <2>5. AttemptStep
    BY <2>3, <2>4 DEF Next
  <2>6. ASSUME NEW now \in Time, NEW id \in issued
        PROVE  /\ ~\E expires \in Time : Heartbeat(id, now, expires)
               /\ ~BeginExpiredLeaseRecovery(id, now)
               /\ ~Finalize(id, now)
    <3>1. ~\E expires \in Time : Heartbeat(id, now, expires)
      BY DEF Heartbeat
    <3>2. BeginExpiredLeaseRecovery(id, now) => Same
      BY DEF BeginExpiredLeaseRecovery, TypeOK, Item
    <3>3. Finalize(id, now) => Same
      BY DEF Finalize, TypeOK, Item
    <3> QED
      BY <3>1, <3>2, <3>3
  <2>7. ASSUME NEW now \in Time, NEW id \in issued, NEW avail \in Time,
               NEW safe \in BOOLEAN, NEW admitted \in BOOLEAN
        PROVE  ~CompleteRecovery(id, now, avail, safe, admitted)
    <3>1. id.work \in Work
      BY DEF TypeOK, Identity
    <3>2. CompleteRecovery(id, now, avail, safe, admitted) => Same
      BY <3>1 DEF CompleteRecovery, Requeued, TypeOK, Item
    <3> QED
      BY <3>2
  <2> QED
    BY <2>5, <2>6, <2>7 DEF AttemptStep
<1> DEFINE new == [work |-> w, attempt |-> a, fence |-> item[w].fence + 1]
<1>2. new \in Identity
  BY DEF Identity, TypeOK, Item
<1>3. /\ issued' = issued \cup {new}
      /\ item[w].count < MaxAttempts[w] /\ item'[w].count = item[w].count + 1
      /\ \A v \in Work \ {w} : item'[v].count = item[v].count
  BY <1>1 DEF Claim, NextFence, AttemptsLeft, TypeOK, Item
<1> QED
  BY <1>2, <1>3

CountHolds ==
    \A w \in Work :
        /\ item[w].count <= MaxAttempts[w]
        /\ IsFiniteSet(Attempts(w))
        /\ Cardinality(Attempts(w)) = item[w].count

LEMMA CountInductive ==
    TypeOK /\ FenceIdentifiesAttempt /\ CountHolds /\ [Next]_vars => CountHolds'
<1> SUFFICES ASSUME TypeOK, FenceIdentifiesAttempt, CountHolds, [Next]_vars PROVE CountHolds'
  OBVIOUS
<1>1. CASE issued' = issued /\ \A w \in Work : item'[w].count = item[w].count
  <2>1. \A w \in Work : Attempts(w)' = Attempts(w)
    BY <1>1 DEF Attempts
  <2> QED
    BY <1>1, <2>1 DEF CountHolds
<1>2. ASSUME NEW new \in Identity,
             issued' = issued \cup {new},
             new.fence = item[new.work].fence + 1,
             item[new.work].count < MaxAttempts[new.work],
             item'[new.work].count = item[new.work].count + 1,
             \A w \in Work \ {new.work} : item'[w].count = item[w].count
      PROVE  CountHolds'
  <2>1. new.work \in Work /\ item[new.work].fence \in Nat /\ item[new.work].count \in Nat
        /\ MaxAttempts[new.work] \in Nat
    BY FrozenInputAssumption DEF Identity, TypeOK, Item
  <2>2. new \notin issued
    BY <1>2, <2>1 DEF FenceIdentifiesAttempt
  <2>3. Attempts(new.work)' = Attempts(new.work) \cup {new} /\ new \notin Attempts(new.work)
    BY <1>2, <2>2 DEF Attempts
  <2>4. /\ IsFiniteSet(Attempts(new.work)')
        /\ Cardinality(Attempts(new.work)') = item'[new.work].count
    BY <1>2, <2>1, <2>3, FS_AddElement DEF CountHolds
  <2>5. item'[new.work].count <= MaxAttempts[new.work]
    BY <1>2, <2>1
  <2>6. \A w \in Work \ {new.work} : Attempts(w)' = Attempts(w)
    BY <1>2 DEF Attempts
  <2> QED
    BY <1>2, <2>4, <2>5, <2>6 DEF CountHolds
<1> QED
  BY <1>1, <1>2, StepCounts

\* However often it is recovered, work has no more attempts than its ceiling, and
\* every one of them is an identity of its own.
THEOREM AttemptsAreBounded == Spec => []AttemptsWithinCeiling
<1>1. Init => CountHolds
  <2> SUFFICES ASSUME Init, NEW w \in Work
               PROVE  item[w].count <= MaxAttempts[w] /\ Attempts(w) = {} /\ item[w].count = 0
    BY FS_EmptySet DEF CountHolds
  <2> QED
    BY FrozenInputAssumption DEF Init, Attempts
<1>2. CountHolds => AttemptsWithinCeiling
  BY DEF CountHolds, AttemptsWithinCeiling, Attempts
<1> QED
  BY <1>1, <1>2, CountInductive, FencesIdentifyAttempts, TypeCorrect, PTL DEF Spec

-----------------------------------------------------------------------------
(* The columns of a work item *)

\* SchemaChecks is inductive once work not yet enqueued carries no marker and
\* work under recovery no cancellation: a retry clears the recovery marker only.
ColumnsHold ==
    /\ SchemaChecks
    /\ \A w \in Work :
          /\ item[w].state = "absent" =>
                /\ item[w].attempt = NoAttempt
                /\ ~item[w].cancelRequested /\ ~item[w].recoveryRequired
          /\ item[w].state = "recovery_required" => ~item[w].cancelRequested

LEMMA ColumnsInductive == TypeOK /\ ColumnsHold /\ [Next]_vars => ColumnsHold'
<1> SUFFICES ASSUME TypeOK, ColumnsHold, [Next]_vars PROVE ColumnsHold'
  OBVIOUS
<1> USE DEF ColumnsHold, SchemaChecks
<1>1. \A id \in issued : id.work \in Work
  BY DEF TypeOK, Identity
<1>2. ASSUME CommandStep PROVE ColumnsHold'
  <2>1. ASSUME NEW c \in Caller, NEW k \in Key, NEW w \in Work, Enqueue(c, k, w)
        PROVE  ColumnsHold'
    BY <2>1 DEF Enqueue, TypeOK, Item
  <2>2. ASSUME NEW c \in Caller, NEW k \in Key, NEW w \in Work, RequestCancellation(c, k, w)
        PROVE  ColumnsHold'
    <3>1. item[w] \in Item /\ item \in [Work -> Item]
      BY DEF TypeOK
    <3>2. PICK next \in {"cancelled", "cancel_requested"} :
             /\ item' = [item EXCEPT ![w] = Withdrawn(item[w], next)]
             /\ Withdrawn(item[w], next) \in Item
      BY <2>2, CancellationRequested
    <3>3. /\ item'[w].state = next /\ item'[w].cancelRequested
          /\ item'[w].attempt = item[w].attempt
          /\ item'[w].recoveryRequired = item[w].recoveryRequired
          /\ \A v \in Work \ {w} : item'[v] = item[v]
      BY <3>1, <3>2 DEF Withdrawn, Item
    <3> QED
      BY <3>2, <3>3
  <2>3. ASSUME NEW c \in Caller, NEW k \in Key, NEW id \in issued, NEW safe \in BOOLEAN,
               CompleteCancellation(c, k, id, safe)
        PROVE  ColumnsHold'
    BY <1>1, <2>3 DEF CompleteCancellation, TypeOK, Item
  <2> QED
    BY <1>2, <2>1, <2>2, <2>3 DEF CommandStep
<1>3. ASSUME AttemptStep PROVE ColumnsHold'
  <2>1. ASSUME NEW now \in Time, NEW w \in Work, NEW a \in Attempt, NEW expires \in Time,
               Claim(w, a, now, expires)
        PROVE  ColumnsHold'
    <3>1. item[w] \in Item /\ item \in [Work -> Item]
      BY DEF TypeOK
    <3>2. /\ item[w].state = "queued"
          /\ item' = [item EXCEPT ![w].state = "leased", ![w].attempt = a,
                                  ![w].count = @ + 1, ![w].fence = NextFence(w)]
      BY <2>1 DEF Claim
    <3>3. /\ item'[w].state = "leased" /\ item'[w].attempt = a
          /\ item'[w].cancelRequested = item[w].cancelRequested
          /\ item'[w].recoveryRequired = item[w].recoveryRequired
          /\ \A v \in Work \ {w} : item'[v] = item[v]
      BY <3>1, <3>2 DEF Item
    <3>4. ~item[w].cancelRequested /\ ~item[w].recoveryRequired /\ a # NoAttempt
      BY <3>2, NullAssumption
    <3> QED
      BY <3>3, <3>4
  <2>2. ASSUME NEW now \in Time, NEW id \in issued, BeginExpiredLeaseRecovery(id, now)
        PROVE  ColumnsHold'
    <3>1. id.work \in Work /\ item[id.work] \in Item /\ item \in [Work -> Item]
      BY <1>1 DEF TypeOK
    <3>2. /\ item[id.work].state = "leased"
          /\ item' = [item EXCEPT ![id.work].state = "recovery_required",
                                  ![id.work].recoveryRequired = TRUE,
                                  ![id.work].fence = NextFence(id.work)]
      BY <2>2 DEF BeginExpiredLeaseRecovery, Current
    <3>3. /\ item'[id.work].state = "recovery_required"
          /\ item'[id.work].attempt = item[id.work].attempt
          /\ item'[id.work].cancelRequested = item[id.work].cancelRequested
          /\ item'[id.work].recoveryRequired = TRUE
          /\ \A v \in Work \ {id.work} : item'[v] = item[v]
      BY <3>1, <3>2 DEF Item
    <3>4. item[id.work].attempt # NoAttempt /\ ~item[id.work].cancelRequested
      BY <3>1, <3>2
    <3> QED
      BY <3>1, <3>3, <3>4
  <2>3. ASSUME NEW now \in Time, NEW id \in issued, NEW avail \in Time,
               NEW safe \in BOOLEAN, NEW admitted \in BOOLEAN,
               CompleteRecovery(id, now, avail, safe, admitted)
        PROVE  ColumnsHold'
    <3>1. CASE item' = [item EXCEPT ![id.work] = Requeued(item[id.work], avail)]
      BY <1>1, <2>3, <3>1 DEF CompleteRecovery, Requeued, TypeOK, Item
    <3>2. CASE item' = [item EXCEPT ![id.work].state = "failed"]
      BY <1>1, <2>3, <3>2 DEF TypeOK, Item
    <3> QED
      BY <2>3, <3>1, <3>2 DEF CompleteRecovery
  <2>4. ASSUME NEW now \in Time, NEW id \in issued, Finalize(id, now)
        PROVE  ColumnsHold'
    BY <1>1, <2>4 DEF Finalize, TypeOK, Item
  <2>5. ASSUME NEW now \in Time, NEW id \in issued, NEW expires \in Time,
               Heartbeat(id, now, expires)
        PROVE  ColumnsHold'
    BY <2>5 DEF Heartbeat
  <2> QED
    BY <1>3, <2>1, <2>2, <2>3, <2>4, <2>5 DEF AttemptStep
<1>4. CASE BudgetStep
  BY <1>4, BudgetFrame
<1>5. CASE UNCHANGED vars
  BY <1>5 DEF vars
<1> QED
  BY <1>2, <1>3, <1>4, <1>5 DEF Next

\* The CHECK constraint of work_items never refuses what the coordinator writes:
\* no transaction is lost to the schema in the middle of a recovery.
THEOREM SchemaAdmitsEveryStep == Spec => []SchemaChecks
<1>1. Init => ColumnsHold
  BY DEF Init, ColumnsHold, SchemaChecks
<1>2. ColumnsHold => SchemaChecks
  BY DEF ColumnsHold
<1> QED
  BY <1>1, <1>2, ColumnsInductive, TypeCorrect, PTL DEF Spec

-----------------------------------------------------------------------------
(* Cancellation *)

\* A step records at most one command; a cancellation command leaves the work
\* item cancelled, failed, or being cancelled.
LEMMA StepRecords ==
    TypeOK /\ [Next]_vars =>
        \A m \in commands' : m \in commands \/
            (m.action = "work_cancel" =>
                /\ m.request.work \in Work
                /\ item'[m.request.work].state \in {"cancel_requested", "cancelled", "failed"})
<1> SUFFICES ASSUME TypeOK, [Next]_vars, NEW m \in commands', m \notin commands,
                    m.action = "work_cancel"
             PROVE  /\ m.request.work \in Work
                    /\ item'[m.request.work].state \in {"cancel_requested", "cancelled", "failed"}
  OBVIOUS
<1>1. ASSUME NEW c \in Caller, NEW k \in Key, NEW w \in Work, Enqueue(c, k, w)
      PROVE  FALSE
  BY <1>1 DEF Enqueue, Record
<1>2. ASSUME NEW c \in Caller, NEW k \in Key, NEW w \in Work, RequestCancellation(c, k, w)
      PROVE  /\ m.request.work = w
             /\ item'[w].state \in {"cancel_requested", "cancelled"}
  BY <1>2 DEF RequestCancellation, Record, TypeOK, Item
<1>3. ASSUME NEW c \in Caller, NEW k \in Key, NEW id \in issued, NEW safe \in BOOLEAN,
             CompleteCancellation(c, k, id, safe)
      PROVE  /\ m.request.work = id.work
             /\ item'[id.work].state \in {"cancelled", "failed"}
  <2>1. id.work \in Work
    BY DEF TypeOK, Identity
  <2> QED
    BY <1>3, <2>1 DEF CompleteCancellation, Record, TypeOK, Item
<1>4. \A id \in issued : id.work \in Work
  BY DEF TypeOK, Identity
<1>5. CommandStep
  <2>1. ~AttemptStep
    BY AttemptFrame
  <2>2. ~BudgetStep /\ ~UNCHANGED vars
    BY BudgetFrame DEF vars
  <2> QED
    BY <2>1, <2>2 DEF Next
<1> QED
  BY <1>1, <1>2, <1>3, <1>4, <1>5 DEF CommandStep

CancelHolds ==
    \A m \in commands : m.action = "work_cancel" =>
        item[m.request.work].state \in {"cancel_requested", "cancelled", "failed"}

LEMMA CancelInductive == TypeOK /\ CancelHolds /\ [Next]_vars => CancelHolds'
<1> SUFFICES ASSUME TypeOK, CancelHolds, [Next]_vars,
                    NEW m \in commands', m.action = "work_cancel"
             PROVE  item'[m.request.work].state \in {"cancel_requested", "cancelled", "failed"}
  BY DEF CancelHolds
<1>1. CASE m \in commands
  <2>1. m.request.work \in Work
    BY <1>1 DEF TypeOK, Command, Request
  <2>2. item[m.request.work].state \in {"cancel_requested", "cancelled", "failed"}
    BY <1>1 DEF CancelHolds
  <2> QED
    BY <2>1, <2>2, StepMovesOneItem DEF ItemStep, Moved, PublishedBy, Goes
<1>2. CASE m \notin commands
  BY <1>2, StepRecords
<1> QED
  BY <1>1, <1>2

\* An accepted cancellation wins against every attempt: nothing is published
\* after it, and it is not accepted after a publication.
THEOREM CancellationWins == Spec => []CancelWins
<1>1. Init => CancelHolds
  BY DEF Init, CancelHolds
<1>2. CancelHolds /\ PublishedOnce => CancelWins
  BY DEF CancelHolds, PublishedOnce, CancelWins
<1> QED
  BY <1>1, <1>2, CancelInductive, AtMostOnePublication, TypeCorrect, PTL DEF Spec

-----------------------------------------------------------------------------
(* Commands *)

\* The states a command of each phase finds its work item in, and those it can
\* be in ever after.
Asks(phase) ==
    CASE phase = "enqueue"  -> {"absent"}
      [] phase = "request"  -> Cancellable
      [] phase = "complete" -> {"cancel_requested"}

Leaves(phase) ==
    CASE phase = "enqueue"  -> WorkState \ {"absent"}
      [] phase = "request"  -> {"cancel_requested", "cancelled", "failed"}
      [] phase = "complete" -> {"cancelled", "failed"}

LEMMA PhaseStates ==
    /\ Asks("enqueue") = {"absent"} /\ Leaves("enqueue") = WorkState \ {"absent"}
    /\ Asks("request") = Cancellable /\ Leaves("request") = {"cancel_requested", "cancelled", "failed"}
    /\ Asks("complete") = {"cancel_requested"} /\ Leaves("complete") = {"cancelled", "failed"}
BY DEF Asks, Leaves

\* A command finds its work item as its phase asks, and leaves it so that it is
\* never found like that again.
Admits(m) ==
    /\ commands' = commands \cup {m}
    /\ m.request.work \in Work
    /\ m.request.phase \in {"enqueue", "request", "complete"}
    /\ item[m.request.work].state \in Asks(m.request.phase)
    /\ item'[m.request.work].state \in Leaves(m.request.phase)

LEMMA StepAdmits == TypeOK /\ [Next]_vars => commands' = commands \/ \E m : Admits(m)
<1> SUFFICES ASSUME TypeOK, [Next]_vars, commands' # commands PROVE \E m : Admits(m)
  OBVIOUS
<1>1. ASSUME NEW c \in Caller, NEW k \in Key, NEW w \in Work, Enqueue(c, k, w)
      PROVE  \E m : Admits(m)
  <2>1. PICK m : /\ commands' = commands \cup {m}
                 /\ m.request.work = w /\ m.request.phase = "enqueue"
    <3> DEFINE r == [caller |-> c, action |-> "optimize", key |-> k, result |-> "queued",
                     request |-> [phase |-> "enqueue", work |-> w, rev |-> 0, safe |-> TRUE]]
    <3>1. commands' = commands \cup {r}
      BY <1>1 DEF Enqueue, Record
    <3>2. r.request.work = w /\ r.request.phase = "enqueue"
      OBVIOUS
    <3> HIDE DEF r
    <3> QED
      BY <3>1, <3>2
  <2>2. item[w].state = "absent" /\ item'[w].state = "queued"
    BY <1>1 DEF Enqueue, TypeOK, Item
  <2> QED
    BY <2>1, <2>2, PhaseStates DEF Admits, WorkState
<1>2. ASSUME NEW c \in Caller, NEW k \in Key, NEW w \in Work, RequestCancellation(c, k, w)
      PROVE  \E m : Admits(m)
  <2>1. PICK m : /\ commands' = commands \cup {m}
                 /\ m.request.work = w /\ m.request.phase = "request"
    <3>1. PICK result : Record(c, "work_cancel", k, "request", w, item[w].fence, TRUE, result)
      BY <1>2 DEF RequestCancellation
    <3> DEFINE r == [caller |-> c, action |-> "work_cancel", key |-> k, result |-> result,
                     request |-> [phase |-> "request", work |-> w,
                                  rev |-> item[w].fence, safe |-> TRUE]]
    <3>2. commands' = commands \cup {r}
      BY <3>1 DEF Record
    <3>3. r.request.work = w /\ r.request.phase = "request"
      OBVIOUS
    <3> HIDE DEF r
    <3> QED
      BY <3>2, <3>3
  <2>2. /\ item[w].state \in Cancellable
        /\ item'[w].state \in {"cancelled", "cancel_requested"}
    BY <1>2 DEF RequestCancellation, TypeOK, Item
  <2> QED
    BY <2>1, <2>2, PhaseStates DEF Admits
<1>3. ASSUME NEW c \in Caller, NEW k \in Key, NEW id \in issued, NEW safe \in BOOLEAN,
             CompleteCancellation(c, k, id, safe)
      PROVE  \E m : Admits(m)
  <2>1. PICK m : /\ commands' = commands \cup {m}
                 /\ m.request.work = id.work /\ m.request.phase = "complete"
    BY <1>3 DEF CompleteCancellation, Record
  <2>2. id.work \in Work
    BY DEF TypeOK, Identity
  <2>3. /\ item[id.work].state = "cancel_requested"
        /\ item'[id.work].state \in {"cancelled", "failed"}
    BY <1>3, <2>2 DEF CompleteCancellation, TypeOK, Item
  <2> QED
    BY <2>1, <2>2, <2>3, PhaseStates DEF Admits
<1>4. CommandStep
  BY AttemptFrame, BudgetFrame DEF Next, vars
<1> QED
  BY <1>1, <1>2, <1>3, <1>4 DEF CommandStep

OnceHolds ==
    /\ EachCommandTakesEffectOnce
    /\ \A m \in commands : item[m.request.work].state \in Leaves(m.request.phase)

LEMMA OnceInductive == TypeOK /\ OnceHolds /\ [Next]_vars => OnceHolds'
<1> SUFFICES ASSUME TypeOK, OnceHolds, [Next]_vars PROVE OnceHolds'
  OBVIOUS
<1>1. ASSUME NEW m \in commands
      PROVE  item'[m.request.work].state \in Leaves(m.request.phase)
  <2>1. m.request.work \in Work /\ m.request.phase \in {"enqueue", "request", "complete"}
    BY DEF TypeOK, Command, Request
  <2>2. item[m.request.work].state \in Leaves(m.request.phase)
    BY DEF OnceHolds
  <2> QED
    BY <2>1, <2>2, StepMovesOneItem, PhaseStates DEF ItemStep, Moved, PublishedBy, Goes, WorkState
<1>2. CASE commands' = commands
  BY <1>1, <1>2 DEF OnceHolds, EachCommandTakesEffectOnce
<1>3. ASSUME NEW m, Admits(m) PROVE OnceHolds'
  <2>1. ASSUME NEW n \in commands, n.request.work = m.request.work, n.request.phase = m.request.phase
        PROVE  FALSE
    <3>1. item[m.request.work].state \in Leaves(m.request.phase)
      BY <2>1 DEF OnceHolds
    <3> QED
      BY <1>3, <3>1, PhaseStates DEF Admits, Cancellable
  <2>2. EachCommandTakesEffectOnce'
    BY <1>3, <2>1 DEF Admits, OnceHolds, EachCommandTakesEffectOnce
  <2> QED
    BY <1>1, <1>3, <2>2 DEF Admits, OnceHolds
<1> QED
  BY <1>2, <1>3, StepAdmits

\* However often a command is sent, under whatever keys and by whom, one enqueue,
\* one cancellation request and one completion are ever accepted for a work item.
THEOREM CommandsTakeEffectOnce == Spec => []EachCommandTakesEffectOnce
<1>1. Init => OnceHolds
  BY DEF Init, OnceHolds, EachCommandTakesEffectOnce
<1>2. OnceHolds => EachCommandTakesEffectOnce
  BY DEF OnceHolds
<1> QED
  BY <1>1, <1>2, OnceInductive, TypeCorrect, PTL DEF Spec

-----------------------------------------------------------------------------
(* Leases *)

LeaseInv == LeaseAgreesWithItem /\ OneLeasePerAttempt

LEMMA LeaseInductive == TypeOK /\ LeaseInv /\ [Next]_vars => LeaseInv'
<1> SUFFICES ASSUME TypeOK, LeaseInv, [Next]_vars PROVE LeaseInv'
  OBVIOUS
<1> USE NullAssumption
<1>0. \A id \in issued : id.work \in Work /\ id.attempt \in Attempt /\ id.fence \in Nat
  BY DEF TypeOK, Identity
<1>a. \A w \in Work : item[w].fence \in Nat /\ beat[w] \in Nat
  BY DEF TypeOK, Item
<1>1. ASSUME NEW c \in Caller, NEW k \in Key, NEW w \in Work, Enqueue(c, k, w)
      PROVE  LeaseInv'
  BY <1>1 DEF Enqueue, LeaseInv, LeaseAgreesWithItem, OneLeasePerAttempt, TypeOK, Item
<1>2. ASSUME NEW c \in Caller, NEW k \in Key, NEW w \in Work, RequestCancellation(c, k, w)
      PROVE  LeaseInv'
  <2>1. OneLeasePerAttempt'
    BY <1>2 DEF RequestCancellation, LeaseInv, OneLeasePerAttempt
  <2>2. /\ item[w].state \in {"queued", "leased", "recovery_required"}
        /\ item'[w].state = IF item[w].state = "queued" THEN "cancelled" ELSE "cancel_requested"
        /\ item'[w].fence = item[w].fence + 1 /\ item'[w].attempt = item[w].attempt
        /\ \A v \in Work \ {w} : item'[v] = item[v]
        /\ UNCHANGED <<lease, beat>>
    BY <1>2 DEF RequestCancellation, Cancellable, NextFence, TypeOK, Item
  <2>3. LeaseAgreesWithItem'
    BY <1>a, <2>2 DEF LeaseInv, LeaseAgreesWithItem, TypeOK, Lease
  <2> QED
    BY <2>1, <2>3 DEF LeaseInv
<1>3. ASSUME NEW c \in Caller, NEW k \in Key, NEW id \in issued, NEW safe \in BOOLEAN,
             CompleteCancellation(c, k, id, safe)
      PROVE  LeaseInv'
  <2>1. /\ item'[id.work].state = IF safe THEN "cancelled" ELSE "failed"
        /\ item'[id.work].fence = item[id.work].fence
        /\ item'[id.work].attempt = item[id.work].attempt
        /\ \A v \in Work \ {id.work} : item'[v] = item[v]
    BY <1>0, <1>3 DEF CompleteCancellation, TypeOK, Item
  <2>2. \/ /\ ~safe /\ UNCHANGED <<lease, beat>>
        \/ /\ safe /\ lease'[id.work] = NoLease /\ beat'[id.work] = 0
           /\ \A v \in Work \ {id.work} : lease'[v] = lease[v] /\ beat'[v] = beat[v]
    BY <1>0, <1>3 DEF CompleteCancellation, RemoveLease, TypeOK
  <2>3. OneLeasePerAttempt'
    BY <1>0, <2>2 DEF LeaseInv, OneLeasePerAttempt
  <2>4. LeaseAgreesWithItem'
    BY <1>0, <1>a, <2>1, <2>2 DEF LeaseInv, LeaseAgreesWithItem
  <2> QED
    BY <2>3, <2>4 DEF LeaseInv
<1>4. ASSUME NEW now \in Time, NEW w \in Work, NEW a \in Attempt, NEW expires \in Time,
             Claim(w, a, now, expires)
      PROVE  LeaseInv'
  <2>1. /\ item[w].state = "queued" /\ lease[w] = NoLease
        /\ \A v \in Work : lease[v] # NoLease => lease[v].attempt # a
        /\ item'[w].state = "leased" /\ item'[w].attempt = a
        /\ item'[w].fence = item[w].fence + 1
        /\ \A v \in Work \ {w} : item'[v] = item[v]
        /\ UNCHANGED beat
    BY <1>4 DEF Claim, Unleased, NextFence, TypeOK, Item
  <2>2. /\ lease'[w] = [attempt |-> a, fence |-> item[w].fence + 1, expires |-> expires]
        /\ \A v \in Work \ {w} : lease'[v] = lease[v]
    BY <1>4 DEF Claim, NextFence, TypeOK
  <2>3. lease'[w] # NoLease
    BY <1>a, <2>2 DEF Lease
  <2>4. OneLeasePerAttempt'
    BY <2>1, <2>2 DEF LeaseInv, OneLeasePerAttempt
  <2>5. LeaseAgreesWithItem'
    BY <1>a, <2>1, <2>2, <2>3 DEF LeaseInv, LeaseAgreesWithItem
  <2> QED
    BY <2>4, <2>5 DEF LeaseInv
<1>5. ASSUME NEW now \in Time, NEW id \in issued, NEW expires \in Time,
             Heartbeat(id, now, expires)
      PROVE  LeaseInv'
  <2>1. /\ lease[id.work] # NoLease /\ lease[id.work].fence = id.fence
        /\ item[id.work].state = "leased" /\ item[id.work].fence = id.fence
        /\ beat'[id.work] = id.fence
        /\ \A v \in Work \ {id.work} : beat'[v] = beat[v]
        /\ UNCHANGED item
    BY <1>0, <1>5 DEF Heartbeat, Holds, Current, TypeOK
  <2>2. lease[id.work] \in Lease
    BY <1>0, <2>1 DEF TypeOK
  <2>3. /\ lease'[id.work] = [lease[id.work] EXCEPT !.expires = expires]
        /\ \A v \in Work \ {id.work} : lease'[v] = lease[v]
    BY <1>0, <1>5 DEF Heartbeat, TypeOK
  <2>4. /\ lease'[id.work].attempt = lease[id.work].attempt
        /\ lease'[id.work].fence = lease[id.work].fence
        /\ lease'[id.work] # NoLease
    BY <2>2, <2>3 DEF Lease
  <2>5. OneLeasePerAttempt'
    <3>1. \A v \in Work : /\ lease'[v] # NoLease <=> lease[v] # NoLease
                         /\ lease'[v].attempt = lease[v].attempt
      BY <2>1, <2>3, <2>4
    <3> QED
      BY <3>1 DEF LeaseInv, OneLeasePerAttempt
  <2>6. LeaseAgreesWithItem'
    <3>1. /\ item[id.work].state = "leased"
          /\ beat'[id.work] = lease[id.work].fence /\ lease[id.work] # NoLease
      BY <1>5, <1>0 DEF Heartbeat, Holds, Current, TypeOK
    <3>2. \A v \in Work :
             /\ lease'[v] # NoLease <=> lease[v] # NoLease
             /\ lease'[v].attempt = lease[v].attempt /\ lease'[v].fence = lease[v].fence
             /\ beat'[v] = beat[v] \/ (lease[v] # NoLease /\ lease[v].fence = beat'[v])
             /\ item'[v] = item[v]
      BY <2>1, <2>3, <2>4, <3>1
    <3>3. LeaseAgreesWithItem
      BY DEF LeaseInv
    <3> QED
      BY <3>2, <3>3 DEF LeaseAgreesWithItem
  <2> QED
    BY <2>5, <2>6 DEF LeaseInv
<1>6. ASSUME NEW now \in Time, NEW id \in issued, BeginExpiredLeaseRecovery(id, now)
      PROVE  LeaseInv'
  <2>1. /\ item[id.work].state = "leased" /\ item'[id.work].state = "recovery_required"
        /\ item'[id.work].fence = item[id.work].fence + 1
        /\ item'[id.work].attempt = item[id.work].attempt
        /\ \A v \in Work \ {id.work} : item'[v] = item[v]
        /\ UNCHANGED <<lease, beat>>
    BY <1>0, <1>6 DEF BeginExpiredLeaseRecovery, Current, NextFence, TypeOK, Item
  <2>2. OneLeasePerAttempt'
    BY <2>1 DEF LeaseInv, OneLeasePerAttempt
  <2>3. LeaseAgreesWithItem'
    BY <1>0, <1>a, <2>1 DEF LeaseInv, LeaseAgreesWithItem, TypeOK, Lease
  <2> QED
    BY <2>2, <2>3 DEF LeaseInv
<1>7. ASSUME NEW now \in Time, NEW id \in issued, NEW avail \in Time,
             NEW safe \in BOOLEAN, NEW admitted \in BOOLEAN,
             CompleteRecovery(id, now, avail, safe, admitted)
      PROVE  LeaseInv'
  <2>1. /\ \/ safe /\ item'[id.work].state = "queued"
           \/ /\ item'[id.work].state = "failed"
              /\ item'[id.work].attempt = item[id.work].attempt
        /\ item'[id.work].fence = item[id.work].fence
        /\ \A v \in Work \ {id.work} : item'[v] = item[v]
    BY <1>0, <1>7 DEF CompleteRecovery, Requeued, TypeOK, Item
  <2>2. \/ /\ ~safe /\ UNCHANGED <<lease, beat>>
        \/ /\ safe /\ lease'[id.work] = NoLease /\ beat'[id.work] = 0
           /\ \A v \in Work \ {id.work} : lease'[v] = lease[v] /\ beat'[v] = beat[v]
    BY <1>0, <1>7 DEF CompleteRecovery, RemoveLease, TypeOK
  <2>3. OneLeasePerAttempt'
    BY <1>0, <2>2 DEF LeaseInv, OneLeasePerAttempt
  <2>4. LeaseAgreesWithItem'
    BY <1>0, <1>a, <2>1, <2>2 DEF LeaseInv, LeaseAgreesWithItem
  <2> QED
    BY <2>3, <2>4 DEF LeaseInv
<1>8. ASSUME NEW now \in Time, NEW id \in issued, Finalize(id, now)
      PROVE  LeaseInv'
  <2>1. /\ item'[id.work].state = "completed"
        /\ lease'[id.work] = NoLease /\ beat'[id.work] = 0
        /\ \A v \in Work \ {id.work} :
              item'[v] = item[v] /\ lease'[v] = lease[v] /\ beat'[v] = beat[v]
    BY <1>0, <1>8 DEF Finalize, RemoveLease, TypeOK, Item
  <2> QED
    BY <1>0, <1>a, <2>1 DEF LeaseInv, LeaseAgreesWithItem, OneLeasePerAttempt
<1>9. CASE BudgetStep \/ UNCHANGED vars
  BY <1>9, BudgetFrame DEF vars, LeaseInv, LeaseAgreesWithItem, OneLeasePerAttempt
<1> QED
  BY <1>1, <1>2, <1>3, <1>4, <1>5, <1>6, <1>7, <1>8, <1>9
  DEF Next, CommandStep, AttemptStep

\* A lease row always fits its work item, and an attempt has one lease at most.
THEOREM LeasesAgree == Spec => [](LeaseAgreesWithItem /\ OneLeasePerAttempt)
<1>1. Init => LeaseInv
  BY DEF Init, LeaseInv, LeaseAgreesWithItem, OneLeasePerAttempt
<1>2. LeaseInv => LeaseAgreesWithItem /\ OneLeasePerAttempt
  BY DEF LeaseInv
<1> QED
  BY <1>1, <1>2, LeaseInductive, TypeCorrect, PTL DEF Spec

-----------------------------------------------------------------------------
(* Budget *)

\* What is reserved and what is used are counts.
LEMMA AmountType ==
    /\ \A amount \in [Dimension -> Amount] : amount \in [Dimension -> Nat]
    /\ \A actual \in [Dimension -> Amount \cup {0}] : actual \in [Dimension -> Nat]
<1>1. Amount \subseteq Nat /\ Amount \cup {0} \subseteq Nat
  BY BudgetAssumption
<1> QED
  BY <1>1

LEMMA CapacityInductive ==
    TypeOK /\ CapacityNeverExceeded /\ [Next]_vars => CapacityNeverExceeded'
<1> SUFFICES ASSUME TypeOK, CapacityNeverExceeded, [Next]_vars, NEW d \in Dimension
             PROVE  usage'[d].reserved + usage'[d].consumed + usage'[d].unreconciled <= Limit[d]
  BY DEF CapacityNeverExceeded
<1>1. /\ usage[d] \in Usage /\ Limit[d] \in Int
      /\ usage[d].reserved + usage[d].consumed + usage[d].unreconciled <= Limit[d]
  BY BudgetAssumption DEF TypeOK, CapacityNeverExceeded
<1>2. ASSUME NEW id \in issued, NEW r \in Reservation, NEW amount \in [Dimension -> Amount],
             Reserve(id, r, amount)
      PROVE  usage'[d].reserved + usage'[d].consumed + usage'[d].unreconciled <= Limit[d]
  <2>1. /\ usage'[d] = [usage[d] EXCEPT !.reserved = @ + amount[d]]
        /\ usage[d].reserved + usage[d].consumed + usage[d].unreconciled + amount[d] <= Limit[d]
    BY <1>2 DEF Reserve, Used
  <2>2. amount[d] \in Int
    BY AmountType
  <2> QED
    BY <1>1, <2>1, <2>2 DEF Usage
<1>3. ASSUME NEW id \in issued, NEW r \in Reservation,
             NEW actual \in [Dimension -> Amount \cup {0}], Reconcile(id, r, actual)
      PROVE  usage'[d].reserved + usage'[d].consumed + usage'[d].unreconciled <= Limit[d]
  <2>1. /\ usage'[d] = [usage[d] EXCEPT !.reserved = @ - resv[r].amount[d],
                                        !.consumed = @ + actual[d]]
        /\ actual[d] <= resv[r].amount[d]
        /\ resv[r] # NoReservation
    BY <1>3 DEF Reconcile, Open
  <2>2. actual[d] \in Int /\ resv[r].amount[d] \in Int
    <3>1. actual[d] \in Int
      BY AmountType
    <3>2. resv[r].amount[d] \in Int
      BY <2>1 DEF TypeOK, Resv
    <3> QED
      BY <3>1, <3>2
  <2> DEFINE amt == resv[r].amount[d]
  <2>3. /\ usage'[d].reserved = usage[d].reserved - amt
        /\ usage'[d].consumed = usage[d].consumed + actual[d]
        /\ usage'[d].unreconciled = usage[d].unreconciled
    BY <1>1, <2>1 DEF Usage
  <2>4. /\ usage[d].reserved \in Int /\ usage[d].consumed \in Int
        /\ usage[d].unreconciled \in Int
    BY <1>1 DEF Usage
  <2>5. amt \in Int /\ actual[d] <= amt
    BY <2>1, <2>2
  <2> HIDE DEF amt
  <2> QED
    BY <1>1, <2>2, <2>3, <2>4, <2>5
<1>4. ASSUME NEW id \in issued, NEW r \in Reservation, NEW now \in Time,
             MarkUnreconciled(id, r, now)
      PROVE  usage'[d].reserved + usage'[d].consumed + usage'[d].unreconciled <= Limit[d]
  <2>1. /\ usage'[d] = [usage[d] EXCEPT !.reserved = @ - resv[r].amount[d],
                                        !.unreconciled = @ + resv[r].amount[d]]
        /\ resv[r] # NoReservation
    BY <1>4 DEF MarkUnreconciled, Open
  <2> DEFINE amt == resv[r].amount[d]
  <2>2. amt \in Int
    BY <2>1 DEF TypeOK, Resv
  <2>3. /\ usage'[d].reserved = usage[d].reserved - amt
        /\ usage'[d].unreconciled = usage[d].unreconciled + amt
        /\ usage'[d].consumed = usage[d].consumed
    BY <1>1, <2>1 DEF Usage
  <2>4. /\ usage[d].reserved \in Int /\ usage[d].consumed \in Int
        /\ usage[d].unreconciled \in Int
    BY <1>1 DEF Usage
  <2> HIDE DEF amt
  <2> QED
    BY <1>1, <2>2, <2>3, <2>4
<1>5. CASE CommandStep \/ AttemptStep \/ CreateLedger \/ UNCHANGED vars
  BY <1>1, <1>5, CommandFrame, AttemptFrame DEF CreateLedger, vars
<1> QED
  BY <1>2, <1>3, <1>4, <1>5 DEF Next, BudgetStep

\* Reservations of any number of attempts never commit more than the limit of a
\* dimension, whatever is reconciled, left open or marked unreconciled.
THEOREM CapacityIsSafe == Spec => []CapacityNeverExceeded
<1>1. Init => CapacityNeverExceeded
  BY BudgetAssumption DEF Init, CapacityNeverExceeded
<1> QED
  BY <1>1, CapacityInductive, TypeCorrect, PTL DEF Spec

\* Reservations are made for budgeted work only.
ReservationsBound ==
    \A r \in Reservation : resv[r] # NoReservation => resv[r].holder.work \in Budgeted

SettledInv == CompletedWasSettled /\ ReservationsBound

\* While a lease row fits its work item, a step that writes the entries of an
\* attempt finds its work leased, or its lease row still there.
LEMMA StepReserves ==
    TypeOK /\ [Next]_vars =>
        \A r \in Reservation :
            \/ resv'[r] = resv[r]
            \/ /\ resv'[r].holder.work \in Budgeted
               /\ resv'[r].holder \in issued
               /\ item[resv'[r].holder.work].state = "leased"
               /\ resv'[r] # NoReservation
            \/ /\ resv[r] # NoReservation
               /\ resv'[r].holder = resv[r].holder
               /\ lease[resv[r].holder.work] # NoLease
<1> SUFFICES ASSUME TypeOK, [Next]_vars, NEW r \in Reservation, resv'[r] # resv[r]
             PROVE  \/ /\ resv'[r].holder.work \in Budgeted
                       /\ resv'[r].holder \in issued
                       /\ item[resv'[r].holder.work].state = "leased"
                       /\ resv'[r] # NoReservation
                    \/ /\ resv[r] # NoReservation
                       /\ resv'[r].holder = resv[r].holder
                       /\ lease[resv[r].holder.work] # NoLease
  OBVIOUS
<1> USE NullAssumption
<1>1. BudgetStep
  BY CommandFrame, AttemptFrame DEF Next, vars
<1>2. ASSUME NEW id \in issued, NEW s \in Reservation, NEW amount \in [Dimension -> Amount],
             Reserve(id, s, amount)
      PROVE  /\ resv'[r].holder = id
             /\ id.work \in Budgeted
             /\ item[id.work].state = "leased"
             /\ resv'[r] # NoReservation
  <2>1. r = s
    BY <1>2 DEF Reserve, TypeOK
  <2>2. resv'[r] = [status |-> "reserved", holder |-> id, amount |-> amount,
                    actual |-> [d \in Dimension |-> 0]]
    BY <1>2, <2>1 DEF Reserve, TypeOK
  <2>3. resv'[r] \in Resv
    BY <2>2, AmountType DEF Resv, TypeOK
  <2> QED
    BY <1>2, <2>2, <2>3 DEF Reserve, Current
<1>3. ASSUME NEW id \in issued, NEW s \in Reservation,
             NEW actual \in [Dimension -> Amount \cup {0}], Reconcile(id, s, actual)
      PROVE  /\ resv[r] # NoReservation
             /\ resv'[r].holder = resv[r].holder
             /\ lease[resv[r].holder.work] # NoLease
  <2>1. /\ r = s
        /\ resv[s] \in Resv /\ resv[s].holder = id /\ lease[id.work] # NoLease
        /\ resv' = [resv EXCEPT ![s].status = "reconciled", ![s].actual = actual]
    BY <1>3 DEF Reconcile, Open, Holds, TypeOK
  <2> QED
    BY <2>1 DEF TypeOK, Resv
<1>4. ASSUME NEW id \in issued, NEW s \in Reservation, NEW now \in Time,
             MarkUnreconciled(id, s, now)
      PROVE  /\ resv[r] # NoReservation
             /\ resv'[r].holder = resv[r].holder
             /\ lease[resv[r].holder.work] # NoLease
  <2>1. /\ r = s
        /\ resv[s] \in Resv /\ resv[s].holder = id /\ lease[id.work] # NoLease
        /\ resv' = [resv EXCEPT ![s].status = "unreconciled"]
    BY <1>4 DEF MarkUnreconciled, Open, Holds, TypeOK
  <2> QED
    BY <2>1 DEF TypeOK, Resv
<1>5. ~CreateLedger
  BY DEF CreateLedger
<1> QED
  BY <1>1, <1>2, <1>3, <1>4, <1>5 DEF BudgetStep

\* The step that publishes found the publishing attempt settled.
LEMMA StepPublishes ==
    [Next]_vars => \A p \in published' : p \in published \/ (Settled(p) /\ resv' = resv)
<1> SUFFICES ASSUME [Next]_vars, NEW p \in published', p \notin published
             PROVE  Settled(p) /\ resv' = resv
  OBVIOUS
<1>1. AttemptStep
  <2>1. ~CommandStep
    <3>1. ASSUME NEW c \in Caller, NEW k \in Key, NEW w \in Work
          PROVE  ~Enqueue(c, k, w) /\ ~RequestCancellation(c, k, w)
      BY DEF Enqueue, RequestCancellation
    <3>2. ASSUME NEW c \in Caller, NEW k \in Key, NEW id \in issued, NEW safe \in BOOLEAN
          PROVE  ~CompleteCancellation(c, k, id, safe)
      BY DEF CompleteCancellation
    <3> QED
      BY <3>1, <3>2 DEF CommandStep
  <2> QED
    BY <2>1, BudgetFrame DEF Next, vars
<1>2. ASSUME NEW now \in Time, NEW id \in issued, Finalize(id, now)
      PROVE  Settled(p)
  BY <1>2 DEF Finalize
<1>3. ASSUME NEW now \in Time, NEW w \in Work, NEW a \in Attempt, NEW expires \in Time
      PROVE  ~Claim(w, a, now, expires)
  BY DEF Claim
<1>4. ASSUME NEW now \in Time, NEW id \in issued
      PROVE  /\ ~\E expires \in Time : Heartbeat(id, now, expires)
             /\ ~BeginExpiredLeaseRecovery(id, now)
  BY DEF Heartbeat, BeginExpiredLeaseRecovery
<1>5. ASSUME NEW now \in Time, NEW id \in issued, NEW avail \in Time,
             NEW safe \in BOOLEAN, NEW admitted \in BOOLEAN
      PROVE  ~CompleteRecovery(id, now, avail, safe, admitted)
  BY DEF CompleteRecovery
<1> QED
  BY <1>1, <1>2, <1>3, <1>4, <1>5, AttemptFrame DEF AttemptStep

LEMMA SettledInductive ==
    /\ TypeOK /\ PublishedOnce /\ LeaseInv /\ SettledInv
    /\ [Next]_vars
    => SettledInv'
<1> SUFFICES ASSUME TypeOK, PublishedOnce, LeaseInv, SettledInv, [Next]_vars
             PROVE  SettledInv'
  OBVIOUS
<1>1. ReservationsBound'
  BY StepReserves DEF SettledInv, ReservationsBound
<1>2. ASSUME NEW p \in published, NEW r \in Reservation,
             resv'[r] # NoReservation, resv'[r].holder = p
      PROVE  resv'[r].status = "reconciled"
  <2>1. p.work \in Work /\ item[p.work].state = "completed" /\ lease[p.work] = NoLease
    BY DEF TypeOK, Identity, PublishedOnce, LeaseInv, LeaseAgreesWithItem
  <2>2. resv'[r] = resv[r]
    BY <1>2, <2>1, StepReserves
  <2> QED
    BY <1>2, <2>2 DEF SettledInv, CompletedWasSettled, OfAttempt
<1>3. ASSUME NEW p \in published', p \notin published, NEW r \in Reservation,
             resv'[r] # NoReservation, resv'[r].holder = p
      PROVE  resv'[r].status = "reconciled"
  BY <1>3, StepPublishes DEF Settled, OfAttempt, SettledInv, ReservationsBound
<1> QED
  BY <1>1, <1>2, <1>3 DEF SettledInv, CompletedWasSettled, OfAttempt

\* What an attempt published is paid for, then and ever after.
THEOREM PublicationsAreSettled == Spec => []CompletedWasSettled
<1>1. Init => SettledInv
  BY DEF Init, SettledInv, CompletedWasSettled, OfAttempt, ReservationsBound
<1>2. Init => LeaseInv
  BY DEF Init, LeaseInv, LeaseAgreesWithItem, OneLeasePerAttempt
<1>3. SettledInv => CompletedWasSettled
  BY DEF SettledInv
<1> QED
  BY <1>1, <1>2, <1>3, SettledInductive, LeaseInductive, AtMostOnePublication, TypeCorrect,
     PTL DEF Spec

-----------------------------------------------------------------------------
(* Refinement *)

\* A lease is never granted under fence 0, which means "nobody" to FencedWork.
LeasedFence == \A w \in Work : item[w].state = "leased" => item[w].fence # 0

LEMMA LeasedFenceInductive == TypeOK /\ LeasedFence /\ [Next]_vars => LeasedFence'
<1> SUFFICES ASSUME TypeOK, LeasedFence, [Next]_vars PROVE LeasedFence'
  OBVIOUS
<1>1. \A w \in Work : item[w].fence \in Nat
  BY DEF TypeOK, Item
<1> QED
  BY <1>1, StepMovesOneItem DEF LeasedFence, ItemStep, Moved, PublishedBy, Goes

\* The coordinator implements fenced work: for every number of work items and
\* attempts, each of its transactions is a step of FencedWork or changes nothing
\* FencedWork speaks of.
THEOREM Implements == Spec => ImplementsFencedWork
<1> DEFINE Holder(it) == IF it.state = "leased" THEN it.fence ELSE 0
           epoch   == [w \in Work |-> item[w].fence]
           holder  == [w \in Work |-> Holder(item[w])]
           outcome == [w \in Work |-> Outcome(item[w].state)]
           output  == {<<p.work, p.fence>> : p \in published}
<1>1. Init => Fenced!FencedInit
  BY DEF Init, Fenced!FencedInit, Outcome
<1>2. TypeOK /\ LeasedFence /\ [Next]_vars => [Fenced!FencedNext]_(Fenced!absVars)
  <2> SUFFICES ASSUME TypeOK, LeasedFence, [Next]_vars
               PROVE  Fenced!FencedNext \/ UNCHANGED Fenced!absVars
    OBVIOUS
  <2>1. CASE UNCHANGED <<item, published>>
    BY <2>1 DEF Fenced!absVars
  <2>2. ASSUME NEW w \in Work, \A v \in Work \ {w} : item'[v] = item[v]
        PROVE  /\ epoch' = [epoch EXCEPT ![w] = item'[w].fence]
               /\ holder' = [holder EXCEPT ![w] = Holder(item'[w])]
               /\ outcome' = [outcome EXCEPT ![w] = Outcome(item'[w].state)]
    BY <2>2
  <2>3. ASSUME NEW w \in Work, \A v \in Work \ {w} : item'[v] = item[v],
               Moved(w), published' = published
        PROVE  Fenced!FencedNext \/ UNCHANGED Fenced!absVars
    <3>1. /\ epoch' = [epoch EXCEPT ![w] = item'[w].fence]
          /\ holder' = [holder EXCEPT ![w] = Holder(item'[w])]
          /\ outcome' = [outcome EXCEPT ![w] = Outcome(item'[w].state)]
          /\ output' = output
      BY <2>2, <2>3
    <3>2. epoch[w] = item[w].fence /\ holder[w] = Holder(item[w])
          /\ outcome[w] = Outcome(item[w].state)
      OBVIOUS
    <3>3. \A f \in {epoch, holder, outcome} : [f EXCEPT ![w] = f[w]] = f
      OBVIOUS
    <3>4. CASE Goes(w, {"absent"}, {"queued"}, item[w].fence)
               \/ Goes(w, {"recovery_required"}, {"queued"}, item[w].fence)
      <4>1. epoch' = epoch /\ holder' = holder /\ outcome' = outcome
        BY <3>1, <3>2, <3>3, <3>4 DEF Goes, Outcome
      <4> QED
        BY <3>1, <4>1 DEF Fenced!absVars
    <3>5. CASE Goes(w, {"queued"}, {"leased"}, item[w].fence + 1)
      <4>1. Fenced!Grant(w)
        BY <3>1, <3>2, <3>3, <3>5 DEF Goes, Outcome, Fenced!Grant
      <4> QED
        BY <4>1 DEF Fenced!FencedNext
    <3>6. CASE Goes(w, {"leased", "recovery_required"}, {"cancel_requested"}, item[w].fence + 1)
               \/ Goes(w, {"leased"}, {"recovery_required"}, item[w].fence + 1)
      <4>1. Fenced!Revoke(w)
        BY <3>1, <3>2, <3>3, <3>6 DEF Goes, Outcome, Fenced!Revoke
      <4> QED
        BY <4>1 DEF Fenced!FencedNext
    <3>7. CASE Goes(w, {"queued"}, {"cancelled"}, item[w].fence + 1)
               \/ Goes(w, {"cancel_requested"}, {"cancelled", "failed"}, item[w].fence)
               \/ Goes(w, {"recovery_required"}, {"failed"}, item[w].fence)
      <4>1. Fenced!Abandon(w)
        BY <3>1, <3>2, <3>3, <3>7 DEF Goes, Outcome, Fenced!Abandon
      <4> QED
        BY <4>1 DEF Fenced!FencedNext
    <3> QED
      BY <2>3, <3>4, <3>5, <3>6, <3>7 DEF Moved, Goes
  <2>4. ASSUME NEW w \in Work, \A v \in Work \ {w} : item'[v] = item[v], PublishedBy(w)
        PROVE  Fenced!FencedNext \/ UNCHANGED Fenced!absVars
    <3>1. PICK id \in issued : id.work = w /\ item[w].fence = id.fence
                               /\ published' = published \cup {id}
                               /\ Goes(w, {"leased"}, {"completed"}, item[w].fence)
      BY <2>4 DEF PublishedBy
    <3>2. output' = output \cup {<<w, item[w].fence>>}
      BY <3>1
    <3>3. /\ epoch' = [epoch EXCEPT ![w] = item'[w].fence]
          /\ holder' = [holder EXCEPT ![w] = Holder(item'[w])]
          /\ outcome' = [outcome EXCEPT ![w] = Outcome(item'[w].state)]
      BY <2>2, <2>4
    <3>4. Fenced!Publish(w)
      <4>1. outcome[w] = "open" /\ holder[w] = item[w].fence /\ holder[w] # 0
        BY <3>1 DEF Goes, Outcome, LeasedFence
      <4>2. outcome' = [outcome EXCEPT ![w] = "published"]
        BY <3>1, <3>3 DEF Goes, Outcome
      <4>3. holder' = [holder EXCEPT ![w] = 0]
        BY <3>1, <3>3 DEF Goes
      <4>4. epoch' = epoch
        BY <3>1, <3>3 DEF Goes
      <4>5. output' = output \cup {<<w, holder[w]>>}
        BY <3>2, <4>1
      <4> QED
        BY <4>1, <4>2, <4>3, <4>4, <4>5 DEF Fenced!Publish
    <3> QED
      BY <3>4 DEF Fenced!FencedNext
  <2> QED
    BY <2>1, <2>3, <2>4, StepMovesOneItem DEF ItemStep
<1>3. Init => LeasedFence
  BY DEF Init, LeasedFence
<1> QED
  BY <1>1, <1>2, <1>3, LeasedFenceInductive, TypeCorrect, PTL
  DEF Spec, ImplementsFencedWork, Fenced!FencedSpec

-----------------------------------------------------------------------------
(* What the budget counters say *)

\* One more summand adds its units, and leaves finitely many if there were.
LEMMA SumGrows ==
    ASSUME NEW f, NEW g, NEW x, NEW n \in Nat, x \notin DOMAIN f,
           DOMAIN g = DOMAIN f \cup {x}, g[x] = n, \A y \in DOMAIN f : g[y] = f[y],
           IsFiniteSet(Units(f)) \/ IsFiniteSet(Units(g))
    PROVE  /\ IsFiniteSet(Units(f)) /\ IsFiniteSet(Units(g))
           /\ Sum(f) \in Nat /\ Sum(g) = Sum(f) + n
<1> DEFINE new == {x} \X (1 .. n)
<1>1. Units(g) = Units(f) \cup new
  BY DEF Units
<1>2. Units(f) \cap new = {}
  BY DEF Units
<1>3. IsFiniteSet(new) /\ Cardinality(new) = n
  <2>1. IsFiniteSet({x}) /\ Cardinality({x}) = 1
    BY FS_Singleton
  <2>2. IsFiniteSet(1 .. n) /\ Cardinality(1 .. n) = n
    BY FS_Interval
  <2>3. IsFiniteSet(new) /\ Cardinality(new) = Cardinality({x}) * Cardinality(1 .. n)
    BY <2>1, <2>2, FS_Product
  <2> QED
    BY <2>1, <2>2, <2>3
<1> HIDE DEF new
<1>4. IsFiniteSet(Units(f))
  BY <1>1, FS_Subset
<1>5. /\ IsFiniteSet(Units(g))
      /\ Cardinality(Units(g)) = Cardinality(Units(f)) + n - Cardinality(Units(f) \cap new)
  BY <1>1, <1>3, <1>4, FS_Union
<1>6. Cardinality(Units(f) \cap new) = 0
  BY <1>2, FS_EmptySet
<1>7. Cardinality(Units(f)) \in Nat
  BY <1>4, FS_CardinalityType
<1> QED
  BY <1>4, <1>5, <1>6, <1>7 DEF Sum

\* What the reservations of one status ask of a dimension, and what those that were
\* reconciled used of it.
Asked(s, d) == [r \in OfStatus(s) |-> resv[r].amount[d]]
Spent(d)    == [r \in OfStatus("reconciled") |-> resv[r].actual[d]]

\* The counters are the sums of the entries, of which there are finitely many.
Tally(d) ==
    /\ IsFiniteSet(Units(Asked("reserved", d))) /\ IsFiniteSet(Units(Spent(d)))
    /\ IsFiniteSet(Units(Asked("unreconciled", d)))
    /\ usage[d].reserved = Sum(Asked("reserved", d))
    /\ usage[d].consumed = Sum(Spent(d))
    /\ usage[d].unreconciled = Sum(Asked("unreconciled", d))

LEMMA InitTally == Init => \A d \in Dimension : Tally(d)
<1> SUFFICES ASSUME Init, NEW d \in Dimension PROVE Tally(d)
  OBVIOUS
<1>1. \A s : OfStatus(s) = {}
  BY DEF Init, OfStatus
<1>2. \A s : Units(Asked(s, d)) = {}
  BY <1>1 DEF Units, Asked
<1>3. Units(Spent(d)) = {}
  BY <1>1 DEF Units, Spent
<1>4. IsFiniteSet({}) /\ Cardinality({}) = 0
  BY FS_EmptySet
<1>5. /\ usage[d].reserved = 0 /\ usage[d].consumed = 0 /\ usage[d].unreconciled = 0
  BY DEF Init
<1> QED
  BY <1>2, <1>3, <1>4, <1>5 DEF Tally, Sum

\* A settled reservation leaves the reserved ones, for the ones of its new status.
LEMMA Settling ==
    ASSUME TypeOK, NEW r \in Reservation, NEW s \in {"reconciled", "unreconciled"},
           NEW row \in Resv, row.status = s,
           resv[r] # NoReservation, resv[r].status = "reserved",
           resv' = [resv EXCEPT ![r] = row]
    PROVE  /\ OfStatus("reserved") = OfStatus("reserved")' \cup {r}
           /\ r \notin OfStatus("reserved")'
           /\ OfStatus(s)' = OfStatus(s) \cup {r} /\ r \notin OfStatus(s)
           /\ \A t \in {"reconciled", "unreconciled"} \ {s} : OfStatus(t)' = OfStatus(t)
           /\ r \in Reservation /\ resv'[r] = row
           /\ \A q \in Reservation \ {r} : resv'[q] = resv[q]
BY NullAssumption DEF OfStatus, TypeOK

\* Every transaction of the broker moves counters and entries together.
LEMMA TallyInductive ==
    ASSUME TypeOK, [Next]_vars, NEW d \in Dimension, Tally(d) PROVE Tally(d)'
<1> USE NullAssumption
<1>0. usage[d] \in Usage /\ \A r \in Reservation : resv[r] # NoReservation => resv[r] \in Resv
  BY DEF TypeOK
<1>1. ASSUME UNCHANGED <<usage, resv>> PROVE Tally(d)'
  BY <1>1 DEF Tally, Asked, Spent, OfStatus
<1>2. ASSUME NEW id \in issued, NEW r \in Reservation, NEW amount \in [Dimension -> Amount],
             Reserve(id, r, amount)
      PROVE  Tally(d)'
  <2> DEFINE row == [status |-> "reserved", holder |-> id, amount |-> amount,
                     actual |-> [e \in Dimension |-> 0]]
  <2>1. /\ resv[r] = NoReservation /\ resv' = [resv EXCEPT ![r] = row]
        /\ usage'[d] = [usage[d] EXCEPT !.reserved = @ + amount[d]]
    BY <1>2 DEF Reserve, NewReservation
  <2>2. amount[d] \in Nat /\ row \in Resv
    BY AmountType DEF TypeOK, Resv
  <2>3. /\ OfStatus("reserved")' = OfStatus("reserved") \cup {r}
        /\ r \notin OfStatus("reserved")
        /\ OfStatus("reconciled")' = OfStatus("reconciled")
        /\ OfStatus("unreconciled")' = OfStatus("unreconciled")
        /\ resv'[r] = row /\ \A q \in Reservation \ {r} : resv'[q] = resv[q]
    BY <2>1, <2>2 DEF OfStatus, TypeOK
  <2>4. Asked("unreconciled", d)' = Asked("unreconciled", d) /\ Spent(d)' = Spent(d)
    <3>1. r \notin OfStatus("unreconciled") /\ r \notin OfStatus("reconciled")
      BY <2>1 DEF OfStatus
    <3> QED
      BY <2>3, <3>1 DEF Asked, Spent, OfStatus
  <2>5. /\ IsFiniteSet(Units(Asked("reserved", d)'))
        /\ Sum(Asked("reserved", d)) \in Nat
        /\ Sum(Asked("reserved", d)') = Sum(Asked("reserved", d)) + amount[d]
    <3> DEFINE f == Asked("reserved", d)
               g == Asked("reserved", d)'
               n == amount[d]
    <3>1. DOMAIN g = DOMAIN f \cup {r} /\ r \notin DOMAIN f
      BY <2>3 DEF Asked
    <3>2. g[r] = n /\ \A q \in DOMAIN f : g[q] = f[q]
      BY <2>3 DEF Asked, OfStatus
    <3>3. IsFiniteSet(Units(f)) /\ n \in Nat
      BY <2>2 DEF Tally
    <3> HIDE DEF f, g, n
    <3>4. IsFiniteSet(Units(g)) /\ Sum(f) \in Nat /\ Sum(g) = Sum(f) + n
      BY <3>1, <3>2, <3>3, SumGrows
    <3> QED
      BY <3>4 DEF f, g, n
  <2>6. /\ usage'[d].reserved = usage[d].reserved + amount[d]
        /\ usage'[d].consumed = usage[d].consumed
        /\ usage'[d].unreconciled = usage[d].unreconciled
    BY <1>0, <2>1 DEF Usage
  <2> QED
    BY <2>4, <2>5, <2>6 DEF Tally
<1>3. ASSUME NEW id \in issued, NEW r \in Reservation,
             NEW actual \in [Dimension -> Amount \cup {0}], Reconcile(id, r, actual)
      PROVE  Tally(d)'
  <2> DEFINE row == [resv[r] EXCEPT !.status = "reconciled", !.actual = actual]
             amt == resv[r].amount[d]
  <2>1. /\ resv[r] # NoReservation /\ resv[r].status = "reserved" /\ resv[r] \in Resv
        /\ resv' = [resv EXCEPT ![r] = row]
        /\ usage'[d] = [usage[d] EXCEPT !.reserved = @ - amt, !.consumed = @ + actual[d]]
    BY <1>0, <1>3 DEF Reconcile, Open, TypeOK
  <2>2. /\ actual[d] \in Nat /\ amt \in Nat
        /\ row \in Resv /\ row.status = "reconciled" /\ row.actual = actual
    <3>1. actual \in [Dimension -> Nat]
      BY AmountType
    <3>2. row \in Resv /\ row.status = "reconciled" /\ row.actual = actual
      BY <2>1, <3>1 DEF Resv
    <3>3. amt \in Nat
      BY <2>1 DEF Resv
    <3> QED
      BY <3>1, <3>2, <3>3
  <2> HIDE DEF row
  <2>3. /\ OfStatus("reserved") = OfStatus("reserved")' \cup {r}
        /\ r \notin OfStatus("reserved")'
        /\ OfStatus("reconciled")' = OfStatus("reconciled") \cup {r}
        /\ r \notin OfStatus("reconciled")
        /\ OfStatus("unreconciled")' = OfStatus("unreconciled")
        /\ resv'[r] = row /\ \A q \in Reservation \ {r} : resv'[q] = resv[q]
    BY <2>1, <2>2, Settling
  <2>4. Asked("unreconciled", d)' = Asked("unreconciled", d)
    <3>1. r \notin OfStatus("unreconciled")
      BY <2>1 DEF OfStatus
    <3> QED
      BY <2>3, <3>1 DEF Asked, OfStatus
  <2>5. /\ IsFiniteSet(Units(Asked("reserved", d)')) /\ Sum(Asked("reserved", d)') \in Nat
        /\ Sum(Asked("reserved", d)) = Sum(Asked("reserved", d)') + amt
    <3> DEFINE f == Asked("reserved", d)'
               g == Asked("reserved", d)
    <3>1. DOMAIN g = DOMAIN f \cup {r} /\ r \notin DOMAIN f
      BY <2>3 DEF Asked
    <3>2. g[r] = amt /\ \A q \in DOMAIN f : g[q] = f[q]
      BY <2>3 DEF Asked, OfStatus
    <3>3. IsFiniteSet(Units(g))
      BY DEF Tally
    <3> HIDE DEF f, g, amt
    <3>4. IsFiniteSet(Units(f)) /\ Sum(f) \in Nat /\ Sum(g) = Sum(f) + amt
      BY <2>2, <3>1, <3>2, <3>3, SumGrows
    <3> QED
      BY <3>4 DEF f, g
  <2>6. /\ IsFiniteSet(Units(Spent(d)')) /\ Sum(Spent(d)) \in Nat
        /\ Sum(Spent(d)') = Sum(Spent(d)) + actual[d]
    <3> DEFINE f == Spent(d)
               g == Spent(d)'
               n == actual[d]
    <3>1. DOMAIN g = DOMAIN f \cup {r} /\ r \notin DOMAIN f
      BY <2>3 DEF Spent
    <3>2. g[r] = n /\ \A q \in DOMAIN f : g[q] = f[q]
      BY <2>2, <2>3 DEF Spent, OfStatus
    <3>3. IsFiniteSet(Units(f)) /\ n \in Nat
      BY <2>2 DEF Tally
    <3> HIDE DEF f, g, n
    <3>4. IsFiniteSet(Units(g)) /\ Sum(f) \in Nat /\ Sum(g) = Sum(f) + n
      BY <3>1, <3>2, <3>3, SumGrows
    <3> QED
      BY <3>4 DEF f, g, n
  <2>7. /\ usage'[d].reserved = usage[d].reserved - amt
        /\ usage'[d].consumed = usage[d].consumed + actual[d]
        /\ usage'[d].unreconciled = usage[d].unreconciled
    BY <1>0, <2>1 DEF Usage
  <2> HIDE DEF amt
  <2> QED
    BY <2>2, <2>4, <2>5, <2>6, <2>7 DEF Tally
<1>4. ASSUME NEW id \in issued, NEW r \in Reservation, NEW now \in Time,
             MarkUnreconciled(id, r, now)
      PROVE  Tally(d)'
  <2> DEFINE row == [resv[r] EXCEPT !.status = "unreconciled"]
             amt == resv[r].amount[d]
  <2>1. /\ resv[r] # NoReservation /\ resv[r].status = "reserved" /\ resv[r] \in Resv
        /\ resv' = [resv EXCEPT ![r] = row]
        /\ usage'[d] = [usage[d] EXCEPT !.reserved = @ - amt, !.unreconciled = @ + amt]
    BY <1>0, <1>4 DEF MarkUnreconciled, Open, TypeOK
  <2>2. amt \in Nat /\ row \in Resv /\ row.status = "unreconciled" /\ row.amount[d] = amt
    BY <2>1 DEF Resv
  <2> HIDE DEF row
  <2>3. /\ OfStatus("reserved") = OfStatus("reserved")' \cup {r}
        /\ r \notin OfStatus("reserved")'
        /\ OfStatus("unreconciled")' = OfStatus("unreconciled") \cup {r}
        /\ r \notin OfStatus("unreconciled")
        /\ OfStatus("reconciled")' = OfStatus("reconciled")
        /\ resv'[r] = row /\ \A q \in Reservation \ {r} : resv'[q] = resv[q]
    BY <2>1, <2>2, Settling
  <2>4. Spent(d)' = Spent(d)
    <3>1. r \notin OfStatus("reconciled")
      BY <2>1 DEF OfStatus
    <3> QED
      BY <2>3, <3>1 DEF Spent, OfStatus
  <2>5. /\ IsFiniteSet(Units(Asked("reserved", d)')) /\ Sum(Asked("reserved", d)') \in Nat
        /\ Sum(Asked("reserved", d)) = Sum(Asked("reserved", d)') + amt
    <3> DEFINE f == Asked("reserved", d)'
               g == Asked("reserved", d)
    <3>1. DOMAIN g = DOMAIN f \cup {r} /\ r \notin DOMAIN f
      BY <2>3 DEF Asked
    <3>2. g[r] = amt /\ \A q \in DOMAIN f : g[q] = f[q]
      BY <2>3 DEF Asked, OfStatus
    <3>3. IsFiniteSet(Units(g))
      BY DEF Tally
    <3> HIDE DEF f, g, amt
    <3>4. IsFiniteSet(Units(f)) /\ Sum(f) \in Nat /\ Sum(g) = Sum(f) + amt
      BY <2>2, <3>1, <3>2, <3>3, SumGrows
    <3> QED
      BY <3>4 DEF f, g
  <2>6. /\ IsFiniteSet(Units(Asked("unreconciled", d)')) /\ Sum(Asked("unreconciled", d)) \in Nat
        /\ Sum(Asked("unreconciled", d)') = Sum(Asked("unreconciled", d)) + amt
    <3> DEFINE f == Asked("unreconciled", d)
               g == Asked("unreconciled", d)'
    <3>1. DOMAIN g = DOMAIN f \cup {r} /\ r \notin DOMAIN f
      BY <2>3 DEF Asked
    <3>2. g[r] = amt /\ \A q \in DOMAIN f : g[q] = f[q]
      BY <2>2, <2>3 DEF Asked, OfStatus
    <3>3. IsFiniteSet(Units(f))
      BY DEF Tally
    <3> HIDE DEF f, g, amt
    <3>4. IsFiniteSet(Units(g)) /\ Sum(f) \in Nat /\ Sum(g) = Sum(f) + amt
      BY <2>2, <3>1, <3>2, <3>3, SumGrows
    <3> QED
      BY <3>4 DEF f, g
  <2>7. /\ usage'[d].reserved = usage[d].reserved - amt
        /\ usage'[d].consumed = usage[d].consumed
        /\ usage'[d].unreconciled = usage[d].unreconciled + amt
    BY <1>0, <2>1 DEF Usage
  <2> HIDE DEF amt
  <2> QED
    BY <2>2, <2>4, <2>5, <2>6, <2>7 DEF Tally
<1>5. CASE CommandStep \/ AttemptStep \/ CreateLedger \/ UNCHANGED vars
  BY <1>1, <1>5, CommandFrame, AttemptFrame DEF CreateLedger, vars
<1> QED
  BY <1>2, <1>3, <1>4, <1>5 DEF Next, BudgetStep

\* The counters of the budget are what its append-only entries say, for every limit
\* and every set of reservations: nothing is reserved, consumed or blocked twice,
\* lost, or released twice.
THEOREM CountersMatchEntries == Spec => []BudgetConserved
<1> DEFINE Tallies == \A d \in Dimension : Tally(d)
<1>1. Init => Tallies
  BY InitTally
<1>2. TypeOK /\ Tallies /\ [Next]_vars => Tallies'
  BY TallyInductive
<1>3. Tallies => BudgetConserved
  BY DEF Tally, Asked, Spent, BudgetConserved
<1> HIDE DEF Tallies
<1> QED
  BY <1>1, <1>2, <1>3, TypeCorrect, PTL DEF Spec
=============================================================================
