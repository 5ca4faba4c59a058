--------------------------- MODULE ClosedLoopProofs ---------------------------
(* Theorems about ClosedLoop and their proofs. *)
EXTENDS ClosedLoop, TLAPS

LOCAL INSTANCE SequencesExt

-----------------------------------------------------------------------------
(* What the transactions of the coordinator do to a work item *)

\* The columns that tell what became of a work item.
Cell(it) == {"state", "attempt", "cancelRequested"} \subseteq DOMAIN it

Items ==
    /\ DOMAIN item = Work
    /\ \A w \in Work : Cell(item[w])
    /\ \A w \in Work : item[w].state \in {"cancel_requested", "cancelled"} => item[w].cancelRequested
    /\ \A id \in issued : id.work \in Work

\* Completed work is never touched again, nor is a cancellation taken back.
Advances(it, new) ==
    /\ Cell(new)
    /\ it.state = "completed" => new = it
    /\ it.cancelRequested => new.cancelRequested
    /\ new.state \in {"cancel_requested", "cancelled"} => new.cancelRequested

AllAdvance ==
    /\ DOMAIN item' = Work
    /\ \A w \in Work : Advances(item[w], item'[w])
    /\ \A id \in issued' : id.work \in Work

NoneCompletes ==
    /\ published' = published
    /\ \A w \in Work : item'[w].state = "completed" => item[w].state = "completed"

LEMMA OneAdvances ==
    ASSUME Items, NEW w \in Work, NEW new, item' = [item EXCEPT ![w] = new],
           Advances(item[w], new), \A id \in issued' : id.work \in Work
    PROVE  AllAdvance /\ \A v \in Work : v # w => item'[v] = item[v]
BY DEF Items, AllAdvance, Advances

LEMMA EnqueueAdvances ==
    ASSUME Items, NEW c, NEW k, NEW w \in Work, W!Enqueue(c, k, w)
    PROVE  AllAdvance /\ NoneCompletes
<1> DEFINE new == [item[w] EXCEPT !.state = "queued"]
<1>1. item[w].state = "absent" /\ item' = [item EXCEPT ![w] = new] /\ UNCHANGED <<issued, published>>
  BY DEF W!Enqueue, Items
<1>2. Advances(item[w], new) /\ new.state = "queued"
  BY <1>1 DEF Items, Cell, Advances
<1> HIDE DEF new
<1> QED
  BY <1>1, <1>2, OneAdvances DEF Items, NoneCompletes

LEMMA CancellationAdvances ==
    ASSUME Items, NEW c, NEW k, NEW w \in Work, W!RequestCancellation(c, k, w)
    PROVE  AllAdvance /\ NoneCompletes
<1>1. PICK next \in {"cancelled", "cancel_requested"} :
         item' = [item EXCEPT ![w].state = next, ![w].cancelRequested = TRUE, ![w].fence = W!NextFence(w)]
  BY DEF W!RequestCancellation
<1> DEFINE new == [[[item[w] EXCEPT !.state = next] EXCEPT !.cancelRequested = TRUE] EXCEPT !.fence = W!NextFence(w)]
<1>2. item' = [item EXCEPT ![w] = new] /\ item[w].state # "completed" /\ UNCHANGED <<issued, published>>
  BY <1>1 DEF W!RequestCancellation, W!Cancellable, Items
<1>3. Cell(item[w])
  BY DEF Items
<1>4. Cell(new) /\ new.state = next /\ new.cancelRequested = TRUE
  BY <1>3 DEF Cell
<1>5. Advances(item[w], new) /\ new.state # "completed"
  BY <1>2, <1>4 DEF Advances
<1> HIDE DEF new
<1> QED
  BY <1>2, <1>5, OneAdvances DEF Items, NoneCompletes

LEMMA CompletionAdvances ==
    ASSUME Items, NEW c, NEW k, NEW id \in issued, NEW safe, W!CompleteCancellation(c, k, id, safe)
    PROVE  AllAdvance /\ NoneCompletes
<1>0. id.work \in Work
  BY DEF Items
<1>1. PICK next \in {"cancelled", "failed"} :
         /\ item' = [item EXCEPT ![id.work].state = next]
         /\ item[id.work].state = "cancel_requested" /\ UNCHANGED <<issued, published>>
  BY DEF W!CompleteCancellation
<1> DEFINE new == [item[id.work] EXCEPT !.state = next]
<1>2. item' = [item EXCEPT ![id.work] = new]
  BY <1>0, <1>1 DEF Items
<1>3. Advances(item[id.work], new) /\ new.state # "completed"
  BY <1>0, <1>1 DEF Items, Cell, Advances
<1> HIDE DEF new
<1> QED
  BY <1>0, <1>1, <1>2, <1>3, OneAdvances DEF Items, NoneCompletes

LEMMA BeginRecoveryAdvances ==
    ASSUME Items, NEW id \in issued, NEW now, W!BeginExpiredLeaseRecovery(id, now)
    PROVE  AllAdvance /\ NoneCompletes
<1>0. id.work \in Work
  BY DEF Items
<1> DEFINE new == [[[item[id.work] EXCEPT !.state = "recovery_required"] EXCEPT !.recoveryRequired = TRUE]
                     EXCEPT !.fence = W!NextFence(id.work)]
<1>1. /\ item' = [item EXCEPT ![id.work] = new]
      /\ item[id.work].state = "leased" /\ UNCHANGED <<issued, published>>
  BY <1>0 DEF W!BeginExpiredLeaseRecovery, W!Current, Items
<1>2. Advances(item[id.work], new) /\ new.state # "completed"
  BY <1>0, <1>1 DEF Items, Cell, Advances
<1> HIDE DEF new
<1> QED
  BY <1>0, <1>1, <1>2, OneAdvances DEF Items, NoneCompletes

LEMMA RecoveryAdvances ==
    ASSUME Items, NEW id \in issued, NEW now, NEW avail, NEW safe, NEW admitted,
           W!CompleteRecovery(id, now, avail, safe, admitted)
    PROVE  AllAdvance /\ NoneCompletes
<1>0. id.work \in Work
  BY DEF Items
<1>1. PICK new \in {W!Requeued(item[id.work], avail), [item[id.work] EXCEPT !.state = "failed"]} :
         item' = [item EXCEPT ![id.work] = new]
  BY <1>0 DEF W!CompleteRecovery, Items
<1>2. item[id.work].state = "recovery_required" /\ UNCHANGED <<issued, published>>
  BY DEF W!CompleteRecovery
<1>3. Advances(item[id.work], W!Requeued(item[id.work], avail)) /\ W!Requeued(item[id.work], avail).state # "completed"
  BY <1>0, <1>2 DEF Items, Cell, Advances, W!Requeued
<1>4. /\ Advances(item[id.work], [item[id.work] EXCEPT !.state = "failed"])
      /\ [item[id.work] EXCEPT !.state = "failed"].state # "completed"
  BY <1>0, <1>2 DEF Items, Cell, Advances
<1> QED
  BY <1>0, <1>1, <1>2, <1>3, <1>4, OneAdvances DEF Items, NoneCompletes

LEMMA ClaimAdvances ==
    ASSUME Items, NEW w \in Work, NEW a, NEW now, NEW expires, W!Claim(w, a, now, expires)
    PROVE  AllAdvance /\ NoneCompletes
<1> DEFINE new == [[[[item[w] EXCEPT !.state = "leased"] EXCEPT !.attempt = a] EXCEPT !.count = @ + 1]
                     EXCEPT !.fence = W!NextFence(w)]
<1>1. item' = [item EXCEPT ![w] = new] /\ item[w].state = "queued"
  BY DEF W!Claim, Items
<1>2. \A id \in issued' : id.work \in Work
  BY DEF W!Claim, Items
<1>4. published' = published
  BY DEF W!Claim
<1>3. Advances(item[w], new) /\ new.state # "completed"
  BY <1>1 DEF Items, Cell, Advances
<1> HIDE DEF new
<1> QED
  BY <1>1, <1>2, <1>3, <1>4, OneAdvances DEF Items, NoneCompletes

LEMMA FinalizeAdvances ==
    ASSUME Items, NEW id, id.work \in Work, NEW now, W!Finalize(id, now)
    PROVE  /\ AllAdvance
           /\ published' = published \cup {id}
           /\ item[id.work].attempt = id.attempt
           /\ item'[id.work].state = "completed" /\ item'[id.work].attempt = id.attempt
           /\ \A w \in Work : w # id.work => item'[w] = item[w]
<1> DEFINE new == [item[id.work] EXCEPT !.state = "completed"]
<1>1. /\ item' = [item EXCEPT ![id.work] = new] /\ item[id.work].state = "leased"
      /\ UNCHANGED issued /\ published' = published \cup {id} /\ item[id.work].attempt = id.attempt
  BY DEF W!Finalize, W!Current, Items
<1>2. Advances(item[id.work], new) /\ new.state = "completed" /\ new.attempt = item[id.work].attempt
  BY <1>1 DEF Items, Cell, Advances
<1>3. item'[id.work] = new
  BY <1>1 DEF Items
<1> HIDE DEF new
<1> QED
  BY <1>1, <1>2, <1>3, OneAdvances DEF Items

LEMMA HeartbeatAdvances ==
    ASSUME Items, NEW id, NEW now, NEW expires, W!Heartbeat(id, now, expires)
    PROVE  AllAdvance /\ NoneCompletes
BY DEF W!Heartbeat, Items, AllAdvance, Advances, NoneCompletes

LEMMA NothingAdvances ==
    ASSUME Items, UNCHANGED workVars
    PROVE  AllAdvance /\ NoneCompletes
BY DEF workVars, Items, AllAdvance, Advances, NoneCompletes

-----------------------------------------------------------------------------
(* The loop and its runners *)

\* What a process knows is so: its lease is of its request, it goes on to finalize
\* only what is over, and whom it takes for cancelled is.
LocalOf(p) ==
    /\ {"at", "req", "seen", "id", "seq", "status"} \subseteq DOMAIN proc[p]
    /\ proc[p].status \in {"failed", "cancelled"}
    /\ proc[p].at # "idle" => proc[p].req \in Attempt
    /\ proc[p].at \in {"started", "beat", "stage", "last beat", "finalize"} =>
          proc[p].id.work = MyWork(p) /\ proc[p].id.attempt = proc[p].req
    /\ proc[p].at \in {"last beat", "finalize"} => Over(chain[MyWork(p)])
    /\ proc[p].at = "looked" /\ proc[p].seen \in {"cancel_requested", "cancelled"} =>
          item[MyWork(p)].cancelRequested
    /\ proc[p].at = "report" /\ proc[p].status = "cancelled" => item[MyWork(p)].cancelRequested

Locals == DOMAIN proc = Process /\ \A p \in Process : LocalOf(p)

\* The steps of a loop are those of its stages, one after the other.
Steps ==
    /\ DOMAIN chain = Work
    /\ \A w \in Work :
          /\ chain[w] \in Seq(Transition)
          /\ chain[w] # <<>> => Last(chain[w]).stage = Stages[Len(chain[w])]

Results ==
    /\ DOMAIN receipt = Attempt
    /\ \A w \in Work : item[w].state = "completed" => item[w].attempt \in Attempt
    /\ \A id \in published : id.attempt \in Attempt
    /\ CompletedTogether
    /\ CancelledReportIsTrue

Loop == Items /\ Locals /\ Steps /\ Results

LEMMA RequestWork == \A a \in Attempt : WorkOf[a] \in Work
BY RequestAssumption

\* A process that does not move goes on knowing what it knows.
LEMMA LocalKept ==
    ASSUME Loop, AllAdvance, \A w \in Work : Over(chain[w]) => Over(chain'[w]),
           NEW q \in Process, proc'[q] = proc[q]
    PROVE  LocalOf(q)'
<1>1. proc'[q] = proc[q] /\ LocalOf(q)
  BY DEF Loop, Locals
<1>2. MyWork(q)' = MyWork(q)
  BY <1>1 DEF MyWork
<1>3. proc[q].at # "idle" /\ Over(chain[MyWork(q)]) => Over(chain[MyWork(q)])'
  BY <1>1, <1>2, RequestWork DEF LocalOf, MyWork, Over, Reached
<1>4. proc[q].at # "idle" /\ item[MyWork(q)].cancelRequested => item'[MyWork(q)].cancelRequested
  BY <1>1, RequestWork DEF LocalOf, AllAdvance, Advances, MyWork
<1>5. /\ ({"at", "req", "seen", "id", "seq", "status"} \subseteq DOMAIN proc[q])'
      /\ (proc[q].status \in {"failed", "cancelled"})'
      /\ (proc[q].at # "idle" => proc[q].req \in Attempt)'
  BY <1>1 DEF LocalOf
<1>6. (proc[q].at \in {"started", "beat", "stage", "last beat", "finalize"} =>
         proc[q].id.work = MyWork(q) /\ proc[q].id.attempt = proc[q].req)'
  BY <1>1, <1>2 DEF LocalOf
<1>7. (proc[q].at \in {"last beat", "finalize"} => Over(chain[MyWork(q)]))'
  BY <1>1, <1>3 DEF LocalOf
<1>8. (proc[q].at = "looked" /\ proc[q].seen \in {"cancel_requested", "cancelled"} =>
         item[MyWork(q)].cancelRequested)'
  BY <1>1, <1>2, <1>4 DEF LocalOf
<1>9. (proc[q].at = "report" /\ proc[q].status = "cancelled" => item[MyWork(q)].cancelRequested)'
  BY <1>1, <1>2, <1>4 DEF LocalOf
<1> QED
  BY <1>5, <1>6, <1>7, <1>8, <1>9 DEF LocalOf

\* A step that publishes nothing, records nothing and reports nothing.
LEMMA StoreKept ==
    ASSUME Loop, AllAdvance, NoneCompletes, UNCHANGED <<chain, receipt>>
    PROVE  Items' /\ Steps' /\ Results'
<1>1. Items' /\ Steps'
  BY DEF Loop, Items, AllAdvance, Advances, Steps
<1>2. CompletedTogether'
  BY RequestWork DEF Loop, Results, CompletedTogether, AllAdvance, Advances, NoneCompletes, Over, Reached
<1>3. CancelledReportIsTrue'
  BY RequestWork DEF Loop, Results, CancelledReportIsTrue, AllAdvance, Advances
<1> QED
  BY <1>1, <1>2, <1>3 DEF Loop, Results, AllAdvance, Advances, NoneCompletes

\* Such a step of one process, which is left knowing what is so.
LEMMA Kept ==
    ASSUME Loop, AllAdvance, NoneCompletes, UNCHANGED <<chain, receipt>>,
           NEW p \in Process, DOMAIN proc' = Process,
           \A q \in Process : q # p => proc'[q] = proc[q], LocalOf(p)'
    PROVE  Loop'
<1>1. \A q \in Process : LocalOf(q)'
  BY LocalKept
<1> QED
  BY <1>1, StoreKept DEF Loop, Locals

LEMMA Returning ==
    ASSUME Loop, AllAdvance, NoneCompletes, UNCHANGED <<chain, receipt>>, NEW p \in Process, Return(p)
    PROVE  Loop'
<1>1. proc'[p] = Idle /\ DOMAIN proc' = Process /\ \A q \in Process : q # p => proc'[q] = proc[q]
  BY DEF Return, Loop, Locals
<1>2. LocalOf(p)'
  BY <1>1 DEF LocalOf, Idle
<1> QED
  BY <1>1, <1>2, Kept

\* The loop of a work item that has a step for every stage is over.
LEMMA AllStagesOver ==
    ASSUME Steps, NEW w \in Work, Len(chain[w]) = Len(Stages)
    PROVE  Over(chain[w])
<1>1. Len(Stages) \in Nat \ {0} /\ Len(Stages) \in DOMAIN Stages /\ Stages[Len(Stages)] = "rollback"
  BY StageAssumption DEF Last
<1>2. chain[w] # <<>> /\ Last(chain[w]) \in Transition /\ Last(chain[w]).stage = "rollback"
  BY <1>1 DEF Steps, Last
<1>3. ASSUME NEW step \in Branching PROVE step.stage # "rollback"
  BY DEF Branching, Step
<1>4. ASSUME NEW step \in Fixed, step.stage = "rollback" PROVE step.to = "rolled_back"
  <2>1. PICK i \in DOMAIN Stages :
           step = Step(Stages[i], OnlyDecision[Stages[i]],
                       IF i = Len(Stages) THEN "rolled_back" ELSE Stages[i + 1])
    BY DEF Fixed
  <2>2. i = Len(Stages)
    BY <1>1, <1>4, <2>1, StageAssumption DEF Step
  <2> QED
    BY <2>1, <2>2 DEF Step
<1>5. Last(chain[w]).to = "rolled_back"
  BY <1>2, <1>3, <1>4 DEF Transition
<1> QED
  BY <1>2, <1>5 DEF Over, Reached, TerminalState

LEMMA OthersKeep == Loop /\ OthersStep => Loop'
<1> SUFFICES ASSUME Loop, OthersStep PROVE Loop'
  OBVIOUS
<1>1. Items
  BY DEF Loop
<1>2. AllAdvance /\ NoneCompletes
  <2>1. ASSUME NEW c \in Caller, NEW w \in Work,
               W!Enqueue(c, KeyOf.enqueue, w) \/ W!RequestCancellation(c, KeyOf.request, w)
        PROVE  AllAdvance /\ NoneCompletes
    BY <1>1, <2>1, EnqueueAdvances, CancellationAdvances
  <2>2. ASSUME NEW c \in Caller, NEW id \in issued, NEW safe \in Cleanup,
               W!CompleteCancellation(c, KeyOf.complete, id, safe)
        PROVE  AllAdvance /\ NoneCompletes
    BY <1>1, <2>2, CompletionAdvances
  <2>3. ASSUME NEW id \in issued, NEW now \in Time, W!BeginExpiredLeaseRecovery(id, now)
        PROVE  AllAdvance /\ NoneCompletes
    BY <1>1, <2>3, BeginRecoveryAdvances
  <2>4. ASSUME NEW id \in issued, NEW now \in Time, NEW avail \in RetryAt, NEW safe \in Cleanup,
               NEW admitted \in BOOLEAN, W!CompleteRecovery(id, now, avail, safe, admitted)
        PROVE  AllAdvance /\ NoneCompletes
    BY <1>1, <2>4, RecoveryAdvances
  <2> QED
    BY <2>1, <2>2, <2>3, <2>4 DEF OthersStep
<1>3. UNCHANGED <<chain, receipt, proc>>
  BY DEF OthersStep
<1>4. \A q \in Process : LocalOf(q)'
  BY <1>2, <1>3, LocalKept
<1> QED
  BY <1>2, <1>3, <1>4, StoreKept DEF Loop, Locals

LEMMA RunnerKnows ==
    ASSUME Loop, NEW p \in Process,
           \/ \E a \in Attempt : Look(p, a)
           \/ StopUnstarted(p) \/ ClaimWork(p) \/ Resume(p) \/ Position(p) \/ Beat(p)
           \/ ReplayStage(p) \/ Fail(p)
    PROVE  Loop'
<1>0. Items /\ LocalOf(p) /\ DOMAIN proc = Process
  BY DEF Loop, Locals
<1>1. ASSUME NEW a \in Attempt, Look(p, a) PROVE Loop'
  <2>1. /\ proc'[p].at = "looked" /\ proc'[p].req = a /\ proc'[p].seen = item[WorkOf[a]].state
        /\ proc'[p].status = "failed"
        /\ {"at", "req", "seen", "id", "seq", "status"} \subseteq DOMAIN proc'[p]
        /\ DOMAIN proc' = Process /\ \A q \in Process : q # p => proc'[q] = proc[q]
    BY <1>0, <1>1 DEF Look, Idle
  <2>2. UNCHANGED <<workVars, chain, receipt>>
    BY <1>1 DEF Look
  <2>3. LocalOf(p)'
    BY <1>0, <2>1, <2>2, RequestWork DEF LocalOf, MyWork, Items, workVars
  <2> QED
    BY <1>0, <2>1, <2>2, <2>3, Kept, NothingAdvances
<1>2. CASE StopUnstarted(p)
  <2>1. /\ proc'[p].at = "report" /\ proc'[p].status = StatusOf(proc[p].seen)
        /\ proc'[p].req = proc[p].req /\ proc[p].at = "looked"
        /\ {"at", "req", "seen", "id", "seq", "status"} \subseteq DOMAIN proc'[p]
        /\ DOMAIN proc' = Process /\ \A q \in Process : q # p => proc'[q] = proc[q]
    BY <1>0, <1>2 DEF StopUnstarted, Unstarted, At, LocalOf
  <2>2. UNCHANGED <<workVars, chain, receipt>>
    BY <1>2 DEF StopUnstarted
  <2>3. LocalOf(p)'
    BY <1>0, <2>1, <2>2 DEF LocalOf, MyWork, StatusOf, workVars
  <2> QED
    BY <1>0, <2>1, <2>2, <2>3, Kept, NothingAdvances
<1>3. ASSUME NEW id, Started(p, id), id.work = MyWork(p), id.attempt = proc[p].req,
             proc[p].at = "looked", AllAdvance, NoneCompletes, UNCHANGED <<chain, receipt>>
      PROVE  Loop'
  <2>1. /\ proc'[p].at = "started" /\ proc'[p].id = id
        /\ proc'[p].req = proc[p].req /\ proc'[p].status = proc[p].status
        /\ {"at", "req", "seen", "id", "seq", "status"} \subseteq DOMAIN proc'[p]
        /\ DOMAIN proc' = Process /\ \A q \in Process : q # p => proc'[q] = proc[q]
    BY <1>0, <1>3 DEF Started, LocalOf
  <2>2. LocalOf(p)'
    BY <1>0, <1>3, <2>1 DEF LocalOf, MyWork
  <2> QED
    BY <1>3, <2>1, <2>2, Kept
<1>4. CASE ClaimWork(p)
  <2> DEFINE a == proc[p].req
             id == [work |-> WorkOf[a], attempt |-> a, fence |-> W!NextFence(WorkOf[a])]
  <2>1. /\ W!Claim(WorkOf[a], a, Schedule[a].claimAt, Schedule[a].claimExpires)
        /\ Started(p, id) /\ proc[p].at = "looked" /\ UNCHANGED <<chain, receipt>>
    BY <1>4 DEF ClaimWork, Unstarted, At
  <2>2. a \in Attempt /\ WorkOf[a] \in Work
    BY <1>0, <2>1, RequestWork DEF LocalOf
  <2>3. AllAdvance /\ NoneCompletes
    BY <1>0, <2>1, <2>2, ClaimAdvances
  <2>4. id.work = MyWork(p) /\ id.attempt = proc[p].req
    BY DEF MyWork
  <2> HIDE DEF id
  <2> QED
    BY <1>3, <2>1, <2>3, <2>4
<1>5. CASE Resume(p)
  <2>1. /\ UNCHANGED <<workVars, chain, receipt>> /\ proc[p].at = "looked"
        /\ Started(p, LeaseIdentity(MyWork(p))) /\ HasLease(p)
    BY <1>5 DEF Resume, Unstarted, At
  <2>2. LeaseIdentity(MyWork(p)).work = MyWork(p) /\ LeaseIdentity(MyWork(p)).attempt = proc[p].req
    BY <2>1 DEF LeaseIdentity, HasLease
  <2> QED
    BY <1>0, <1>3, <2>1, <2>2, NothingAdvances
<1>6. ASSUME NEW at \in {"beat", "stage", "last beat", "finalize"},
             proc'[p].at = at, proc'[p].id = proc[p].id,
             proc'[p].req = proc[p].req, proc'[p].status = proc[p].status,
             {"at", "req", "seen", "id", "seq", "status"} \subseteq DOMAIN proc'[p],
             DOMAIN proc' = Process, \A q \in Process : q # p => proc'[q] = proc[q],
             proc[p].at \in {"started", "beat", "stage", "last beat", "finalize"},
             at \in {"last beat", "finalize"} => Over(chain[MyWork(p)]),
             AllAdvance, NoneCompletes, UNCHANGED <<chain, receipt>>
      PROVE  Loop'
  <2>1. MyWork(p)' = MyWork(p)
    BY <1>6 DEF MyWork
  <2>2. Over(chain[MyWork(p)])' <=> Over(chain[MyWork(p)])
    BY <1>6, <2>1 DEF Over, Reached
  <2>3. LocalOf(p)'
    BY <1>0, <1>6, <2>1, <2>2 DEF LocalOf
  <2> QED
    BY <1>6, <2>3, Kept
<1>7. CASE Position(p)
  <2>1. /\ proc[p].at = "started" /\ UNCHANGED <<workVars, chain, receipt>>
        /\ proc'[p].at = IF Len(chain[MyWork(p)]) = Len(Stages) THEN "last beat" ELSE "beat"
        /\ proc'[p].id = proc[p].id
        /\ proc'[p].req = proc[p].req /\ proc'[p].status = proc[p].status
        /\ {"at", "req", "seen", "id", "seq", "status"} \subseteq DOMAIN proc'[p]
        /\ DOMAIN proc' = Process /\ \A q \in Process : q # p => proc'[q] = proc[q]
    BY <1>0, <1>7 DEF Position, At, LocalOf
  <2>2. MyWork(p) \in Work /\ Steps
    BY <1>0, <2>1, RequestWork DEF Loop, LocalOf, MyWork
  <2>3. proc'[p].at = "last beat" => Over(chain[MyWork(p)])
    BY <2>1, <2>2, AllStagesOver
  <2> QED
    BY <1>0, <1>6, <2>1, <2>3, NothingAdvances
<1>8. CASE Beat(p)
  <2>1. /\ proc[p].at \in {"beat", "last beat"} /\ UNCHANGED <<chain, receipt>>
        /\ W!Heartbeat(proc[p].id, Renewal(p).at, Renewal(p).expires)
        /\ proc'[p].at = IF proc[p].at = "beat" THEN "stage" ELSE "finalize"
        /\ proc'[p].id = proc[p].id
        /\ proc'[p].req = proc[p].req /\ proc'[p].status = proc[p].status
        /\ {"at", "req", "seen", "id", "seq", "status"} \subseteq DOMAIN proc'[p]
        /\ DOMAIN proc' = Process /\ \A q \in Process : q # p => proc'[q] = proc[q]
    BY <1>0, <1>8 DEF Beat, Goto, At, LocalOf
  <2>2. AllAdvance /\ NoneCompletes
    BY <1>0, <2>1, HeartbeatAdvances
  <2>3. proc'[p].at \in {"last beat", "finalize"} => Over(chain[MyWork(p)])
    BY <1>0, <2>1 DEF LocalOf
  <2> QED
    BY <1>6, <2>1, <2>2, <2>3
<1>9. CASE ReplayStage(p)
  <2> DEFINE over == Over(chain[MyWork(p)])
  <2>1. /\ proc[p].at = "stage" /\ UNCHANGED <<workVars, chain, receipt>>
        /\ proc'[p].at = IF over THEN "last beat" ELSE "beat"
        /\ proc'[p].id = proc[p].id
        /\ proc'[p].req = proc[p].req /\ proc'[p].status = proc[p].status
        /\ {"at", "req", "seen", "id", "seq", "status"} \subseteq DOMAIN proc'[p]
        /\ DOMAIN proc' = Process /\ \A q \in Process : q # p => proc'[q] = proc[q]
    BY <1>0, <1>9 DEF ReplayStage, Proceed, At, LocalOf
  <2> QED
    BY <1>0, <1>6, <2>1, NothingAdvances
<1>10. CASE Fail(p)
  <2>1. /\ proc[p].at \in {"started", "beat", "stage", "last beat", "finalize"}
        /\ UNCHANGED <<workVars, chain, receipt>>
        /\ proc'[p].at = "failing" /\ proc'[p].req = proc[p].req /\ proc'[p].status = proc[p].status
        /\ {"at", "req", "seen", "id", "seq", "status"} \subseteq DOMAIN proc'[p]
        /\ DOMAIN proc' = Process /\ \A q \in Process : q # p => proc'[q] = proc[q]
    BY <1>0, <1>10 DEF Fail, LocalOf
  <2>2. LocalOf(p)'
    BY <1>0, <2>1 DEF LocalOf
  <2> QED
    BY <1>0, <2>1, <2>2, Kept, NothingAdvances
<1> QED
  BY <1>1, <1>2, <1>4, <1>5, <1>7, <1>8, <1>9, <1>10

\* A failing run looks at its work again, and reports what it finds.
LEMMA ClassifyKeeps ==
    ASSUME Loop, NEW p \in Process, Classify(p)
    PROVE  Loop'
<1>0. Items /\ LocalOf(p) /\ DOMAIN proc = Process
  BY DEF Loop, Locals
<1>1. UNCHANGED <<workVars, chain, receipt>> /\ proc[p].at = "failing"
  BY DEF Classify, At
<1>2. CASE Return(p)
  BY <1>0, <1>1, <1>2, Returning, NothingAdvances
<1>3. CASE proc' = [proc EXCEPT ![p].at = "report", ![p].seq = 0,
                                ![p].status = StatusOf(item[MyWork(p)].state)]
  <2>1. /\ proc'[p].at = "report" /\ proc'[p].req = proc[p].req
        /\ proc'[p].status = StatusOf(item[MyWork(p)].state)
        /\ {"at", "req", "seen", "id", "seq", "status"} \subseteq DOMAIN proc'[p]
        /\ DOMAIN proc' = Process /\ \A q \in Process : q # p => proc'[q] = proc[q]
    BY <1>0, <1>3 DEF LocalOf
  <2>2. MyWork(p) \in Work /\ MyWork(p)' = MyWork(p)
    BY <1>0, <1>1, <2>1, RequestWork DEF LocalOf, MyWork
  <2>3. item[MyWork(p)].state \in {"cancel_requested", "cancelled"} => item[MyWork(p)].cancelRequested
    BY <1>0, <2>2 DEF Items
  <2>4. proc'[p].status = "cancelled" => item'[MyWork(p)].cancelRequested
    BY <1>1, <2>1, <2>3 DEF StatusOf, workVars
  <2>5. proc'[p].status \in {"failed", "cancelled"}
    BY <2>1 DEF StatusOf
  <2>6. LocalOf(p)'
    BY <1>0, <1>1, <2>1, <2>2, <2>4, <2>5 DEF LocalOf
  <2> QED
    BY <1>0, <1>1, <2>1, <2>6, Kept, NothingAdvances
<1> QED
  BY <1>2, <1>3 DEF Classify

\* A stage is added to a loop that is not over, so nobody is about to finalize it
\* and it did not complete.
LEMMA StageKeeps ==
    ASSUME Loop, NEW p \in Process, NEW step \in Transition, ExecuteStage(p, step)
    PROVE  Loop'
<1> DEFINE w == MyWork(p)
           steps == Append(chain[w], step)
<1>0. Items /\ LocalOf(p) /\ DOMAIN proc = Process
  BY DEF Loop, Locals
<1>1. /\ proc[p].at = "stage" /\ proc[p].seq = Len(chain[w]) /\ ~Over(chain[w])
      /\ step.stage = Stages[proc[p].seq + 1]
      /\ chain' = [chain EXCEPT ![w] = steps] /\ Proceed(p, Over(steps))
      /\ UNCHANGED <<workVars, receipt>>
  BY DEF ExecuteStage, NextInSequence, At
<1>2. w \in Work
  BY <1>0, <1>1, RequestWork DEF LocalOf, MyWork
<1>3. chain[w] \in Seq(Transition)
  BY <1>2 DEF Loop, Steps
<1>4. /\ steps \in Seq(Transition) /\ steps # <<>> /\ Len(steps) = Len(chain[w]) + 1
      /\ Last(steps) = step
  BY <1>3 DEF Last
<1>5. /\ DOMAIN chain' = Work /\ chain'[w] = steps
      /\ \A v \in Work : v # w => chain'[v] = chain[v]
  BY <1>1, <1>2 DEF Loop, Steps
<1>6. Steps'
  <2>1. Last(chain'[w]).stage = Stages[Len(chain'[w])]
    BY <1>1, <1>4, <1>5
  <2> HIDE DEF steps, w
  <2> QED
    BY <1>4, <1>5, <2>1 DEF Loop, Steps
<1>7. /\ proc'[p].at = IF Over(steps) THEN "last beat" ELSE "beat"
      /\ proc'[p].id = proc[p].id
      /\ proc'[p].req = proc[p].req /\ proc'[p].status = proc[p].status
      /\ {"at", "req", "seen", "id", "seq", "status"} \subseteq DOMAIN proc'[p]
      /\ DOMAIN proc' = Process /\ \A q \in Process : q # p => proc'[q] = proc[q]
  <2> HIDE DEF steps
  <2> QED
    BY <1>0, <1>1 DEF Proceed, LocalOf
<1>8. ASSUME NEW v \in Work, Over(chain[v]) PROVE chain'[v] = chain[v]
  BY <1>1, <1>5, <1>8
<1>9. ASSUME NEW q \in Process PROVE LocalOf(q)'
  <2>1. CASE q = p
    <3>1. MyWork(p)' = w
      BY <1>7 DEF MyWork
    <3>2. Over(chain[MyWork(p)])' <=> Over(steps)
      BY <1>5, <3>1 DEF Over, Reached
    <3> HIDE DEF steps
    <3> QED
      BY <1>0, <1>1, <1>7, <2>1, <3>1, <3>2 DEF LocalOf
  <2>2. CASE q # p
    <3>1. AllAdvance
      BY <1>0, <1>1, NothingAdvances
    <3>2. \A v \in Work : Over(chain[v]) => Over(chain'[v])
      BY <1>8
    <3> QED
      BY <1>7, <2>2, <3>1, <3>2, LocalKept
  <2> QED
    BY <2>1, <2>2
<1>10. Items'
  BY <1>0, <1>1 DEF Items, workVars
<1>11. Results'
  <2>1. \A v \in Work : Over(chain[v]) => Over(chain'[v])
    BY <1>8
  <2>2. CompletedTogether'
    BY <1>1, <2>1 DEF Loop, Results, CompletedTogether, workVars, Over, Reached
  <2> QED
    BY <1>1, <2>2 DEF Loop, Results, CancelledReportIsTrue, workVars
<1> QED
  BY <1>6, <1>7, <1>9, <1>10, <1>11 DEF Loop, Locals

\* A report is never one of completion, and is not written over one.
LEMMA StopKeeps ==
    ASSUME Loop, NEW p \in Process, Stop(p)
    PROVE  Loop'
<1> DEFINE a == proc[p].req
           r == proc[p].status
<1>0. Items /\ LocalOf(p) /\ DOMAIN proc = Process
  BY DEF Loop, Locals
<1>1. /\ proc[p].at = "report" /\ UNCHANGED <<workVars, chain>> /\ Return(p)
      /\ IF Insertable(a, r) THEN Insert(a, r) ELSE UNCHANGED receipt
  BY DEF Stop, At
<1>2. CASE UNCHANGED receipt
  BY <1>0, <1>1, <1>2, Returning, NothingAdvances
<1>3. CASE Insertable(a, r) /\ Insert(a, r)
  <2>1. /\ a \in Attempt /\ r \in {"failed", "cancelled"}
        /\ r = "cancelled" => item[WorkOf[a]].cancelRequested
    BY <1>0, <1>1 DEF LocalOf, MyWork
  <2>2. /\ DOMAIN receipt' = Attempt /\ receipt'[a] = r
        /\ \A b \in Attempt : b # a => receipt'[b] = receipt[b]
    BY <1>3, <2>1 DEF Insert, Loop, Results
  <2>3. receipt[a] # "completed" /\ receipt'[a] # "completed"
    BY <1>3, <2>1, <2>2, RequestAssumption DEF Insertable, Receipt
  <2>4. CompletedTogether'
    BY <1>1, <2>2, <2>3 DEF Loop, Results, CompletedTogether, workVars, Over, Reached
  <2>5. CancelledReportIsTrue'
    BY <1>1, <2>1, <2>2 DEF Loop, Results, CancelledReportIsTrue, workVars
  <2>6. Results'
    BY <1>1, <2>2, <2>4, <2>5 DEF Loop, Results, workVars
  <2>7. Items' /\ Steps'
    BY <1>1 DEF Loop, Items, Steps, workVars
  <2>8. DOMAIN proc' = Process /\ proc'[p] = Idle /\ \A q \in Process : q # p => proc'[q] = proc[q]
    BY <1>0, <1>1 DEF Return
  <2>9. LocalOf(p)'
    BY <2>8 DEF LocalOf, Idle
  <2>10. \A q \in Process : LocalOf(q)'
    BY <1>0, <1>1, <2>8, <2>9, LocalKept, NothingAdvances
  <2> QED
    BY <2>6, <2>7, <2>8, <2>10 DEF Loop, Locals
<1> QED
  BY <1>1, <1>2, <1>3

\* The work is completed, published and reported completed in one transaction.
LEMMA FinishKeeps ==
    ASSUME Loop, NEW p \in Process, FinishRun(p)
    PROVE  Loop'
<1> DEFINE a == proc[p].req
           id == proc[p].id
<1>0. Items /\ LocalOf(p) /\ DOMAIN proc = Process
  BY DEF Loop, Locals
<1>1. /\ proc[p].at = "finalize" /\ Insertable(a, "completed") /\ Insert(a, "completed")
      /\ W!Finalize(id, Schedule[a].renew[Len(Stages) + 1].at)
      /\ Return(p) /\ UNCHANGED chain
  BY DEF FinishRun, At
<1>2. /\ a \in Attempt /\ WorkOf[a] \in Work /\ id.work = WorkOf[a] /\ id.attempt = a
      /\ Over(chain[WorkOf[a]])
  BY <1>0, <1>1, RequestWork DEF LocalOf, MyWork
<1>3. /\ AllAdvance
      /\ published' = published \cup {id}
      /\ item'[id.work].state = "completed" /\ item'[id.work].attempt = id.attempt
      /\ \A w \in Work : w # id.work => item'[w] = item[w]
  BY <1>0, <1>1, <1>2, FinalizeAdvances
<1>4. /\ DOMAIN receipt' = Attempt /\ receipt'[a] = "completed"
      /\ \A b \in Attempt : b # a => receipt'[b] = receipt[b]
  BY <1>1, <1>2 DEF Insert, Loop, Results
<1>5. receipt[a] # "cancelled"
  BY <1>1, RequestAssumption DEF Insertable, Receipt
<1>6. CompletedTogether'
  <2>1. \A w \in Work : (item[w].state = "completed" =>
            Over(chain[w]) /\ receipt[item[w].attempt] = "completed")'
    <3>1. chain' = chain
      BY <1>1
    <3>2. CompletedTogether
      BY DEF Loop, Results
    <3> SUFFICES ASSUME NEW w \in Work, item'[w].state = "completed"
                 PROVE  Over(chain'[w]) /\ receipt'[item'[w].attempt] = "completed"
      OBVIOUS
    <3>3. CASE w = id.work
      BY <1>2, <1>3, <1>4, <3>1, <3>3
    <3>4. CASE w # id.work
      <4>1. item[w].state = "completed" /\ item'[w].attempt = item[w].attempt
        BY <1>3, <3>4
      <4>2. Over(chain[w]) /\ receipt[item[w].attempt] = "completed"
        BY <3>2, <4>1 DEF CompletedTogether
      <4>3. receipt'[item[w].attempt] = "completed"
        BY <1>1, <1>2, <1>4, <4>2 DEF Insert
      <4> QED
        BY <3>1, <4>1, <4>2, <4>3
    <3> QED
      BY <3>3, <3>4
  <2>2. \A b \in Attempt : (receipt[b] = "completed" =>
            item[WorkOf[b]].state = "completed" /\ item[WorkOf[b]].attempt = b)'
    <3>1. ASSUME NEW b \in Attempt, b # a, receipt[b] = "completed"
          PROVE  item'[WorkOf[b]] = item[WorkOf[b]]
      BY <3>1, <1>3, RequestWork DEF Loop, Results, CompletedTogether, AllAdvance, Advances
    <3> QED
      BY <1>2, <1>3, <1>4, <3>1 DEF Loop, Results, CompletedTogether
  <2>3. \A i \in published' : receipt'[i.attempt] = "completed"
    BY <1>2, <1>3, <1>4 DEF Loop, Results, CompletedTogether
  <2> QED
    BY <2>1, <2>2, <2>3 DEF CompletedTogether
<1>7. CancelledReportIsTrue'
  BY <1>2, <1>3, <1>4, RequestWork
  DEF Loop, Results, CancelledReportIsTrue, AllAdvance, Advances
<1>8. Results'
  BY <1>2, <1>3, <1>4, <1>6, <1>7 DEF Loop, Results
<1>9. Items' /\ Steps'
  BY <1>1, <1>3 DEF Loop, Items, Steps, AllAdvance, Advances
<1>10. DOMAIN proc' = Process /\ proc'[p] = Idle /\ \A q \in Process : q # p => proc'[q] = proc[q]
  BY <1>0, <1>1 DEF Return
<1>11. LocalOf(p)'
  BY <1>10 DEF LocalOf, Idle
<1>12. \A q \in Process : LocalOf(q)'
  BY <1>1, <1>3, <1>10, <1>11, LocalKept
<1> QED
  BY <1>8, <1>9, <1>10, <1>12 DEF Loop, Locals

LEMMA LoopInductive == Loop /\ [Next]_vars => Loop'
<1> SUFFICES ASSUME Loop, [Next]_vars PROVE Loop'
  OBVIOUS
<1>1. CASE UNCHANGED vars
  <2>1. UNCHANGED <<workVars, chain, receipt, proc>>
    BY <1>1 DEF vars
  <2>2. AllAdvance /\ NoneCompletes
    BY <2>1, NothingAdvances DEF Loop
  <2>3. \A q \in Process : LocalOf(q)'
    BY <2>1, <2>2, LocalKept
  <2> QED
    BY <2>1, <2>2, <2>3, StoreKept DEF Loop, Locals
<1>2. ASSUME NEW p \in Process, Replay(p) \/ NotClaimed(p) \/ Crash(p) PROVE Loop'
  BY <1>2, Returning, NothingAdvances DEF Loop, Replay, NotClaimed, Crash
<1> QED
  BY <1>1, <1>2, OthersKeep, RunnerKnows, ClassifyKeeps, StageKeeps, StopKeeps, FinishKeeps
  DEF Next, RunnerStep

LEMMA LoopHolds == Spec => []Loop
<1>1. Init => Loop
  <2> SUFFICES ASSUME Init PROVE Loop
    OBVIOUS
  <2>1. Items /\ published = {} /\ \A w \in Work : item[w].state = "absent"
    BY DEF Init, W!Init, Items, Cell
  <2>2. Locals
    BY DEF Init, Locals, LocalOf, Idle
  <2>3. Steps
    BY DEF Init, Steps
  <2>4. Results
    BY <2>1, RequestAssumption DEF Init, Results, CompletedTogether, CancelledReportIsTrue, Receipt
  <2> QED
    BY <2>1, <2>2, <2>3, <2>4 DEF Loop
<1> QED
  BY <1>1, LoopInductive, PTL DEF Spec

\* Work, its loop and its receipt are completed together or not at all, with any
\* number of processes that run one request, crash, and race with cancellations.
THEOREM CompletionIsWhole == Spec => []CompletedTogether
<1>1. Loop => CompletedTogether
  BY DEF Loop, Results
<1> QED
  BY <1>1, LoopHolds, PTL

\* No run is reported cancelled whose cancellation was not accepted.
THEOREM CancelledReportsAreTrue == Spec => []CancelledReportIsTrue
<1>1. Loop => CancelledReportIsTrue
  BY DEF Loop, Results
<1> QED
  BY <1>1, LoopHolds, PTL
=============================================================================
