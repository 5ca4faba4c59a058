--------------------------- MODULE EvidenceReduction ---------------------------
(***************************************************************************)
(* From replay receipts to an activation disposition: helpers/v3/          *)
(* evidence.py, composed with the replay of pairs.                         *)
(*                                                                         *)
(* No code of the repository turns receipts into an Evidence Bundle: a     *)
(* caller does, so here a bundle counts the eligible receipts of any set   *)
(* of requests and may carry one fault the caller knows of.  An envelope   *)
(* is the policy it was frozen under; profiles, manifest and certificate   *)
(* are those of the pairs.                                                 *)
(***************************************************************************)
EXTENDS ReplayPair, FiniteSets

CONSTANTS
    Cell,        \* the family and the bucket of an attempt
    Policies,    \* activation policies in force at some time
    Faults,      \* what a caller may know of a bundle: [family, bucket, codes]; None: all of them
    MaxClock, MaxScope   \* bounds

VARIABLES
    clock,
    scope,         \* the Activation Scope: its revision stands for its incumbent too
    bundle,        \* the Evidence Bundle, or None
    disposition    \* the latest Activation Disposition, with its inputs, or None

evidence == <<clock, scope, bundle, disposition>>

Unavailability == {"provider_unavailable", "grant_unavailable"}
HardFailures   == {"safety_veto", "schema_violation"}

RatioHolds(q) == q.d \in Nat \ {0} /\ q.n \in 0..q.d

PolicyHolds(p) ==
    /\ p.families # {} /\ p.buckets # {}
    /\ p.familyMinimum >= 1
    /\ DOMAIN p.rules = p.buckets
    /\ \A b \in p.buckets :
         /\ p.rules[b].minimum \in Nat \ {0}
         /\ RatioHolds(p.rules[b].pass) /\ RatioHolds(p.rules[b].fail) /\ RatioHolds(p.rules[b].gap)
    /\ p.hard \subseteq HardFailures

ASSUME RequestsFinite == IsFiniteSet(Request)
ASSUME PoliciesHold == \A p \in Policies : PolicyHolds(p)

-----------------------------------------------------------------------------
(* The bundle *)

Count(S, Test(_)) == Cardinality({r \in S : Test(r)})

CodesAt(fault, family, bucket) ==
    IF fault # None /\ fault.family = family /\ fault.bucket = bucket THEN fault.codes ELSE {}

\* A bucket of a family: the pairs that were evidence, and what either arm made of them.
BucketSummary(S, fault, cell) ==
    LET here == {r \in S : Cell[r] = cell} IN
    [completed |-> Cardinality(here),
     candidate |-> Count(here, LAMBDA r : receipts[r].arms[1] = "completed"),
     incumbent |-> Count(here, LAMBDA r : receipts[r].arms[2] = "completed"),
     codes |-> CodesAt(fault, cell.family, cell.bucket)]

FamilySummary(S, fault, family) ==
    [completed |-> Count(S, LAMBDA r : Cell[r].family = family), codes |-> CodesAt(fault, family, None)]

\* A cell nothing ran in has no summary.
Bundle(S, policy, fault) ==
    [at |-> clock, scope |-> scope, policy |-> policy, codes |-> CodesAt(fault, None, None),
     families |-> [f \in {Cell[r].family : r \in S} |-> FamilySummary(S, fault, f)],
     buckets  |-> [c \in {Cell[r] : r \in S} |-> BucketSummary(S, fault, c)]]

BundleHolds(b) ==
    /\ b.codes \subseteq Unavailability \cup HardFailures
    /\ \A f \in DOMAIN b.families : b.families[f].codes \subseteq Unavailability \cup HardFailures
    /\ \A c \in DOMAIN b.buckets :
         /\ b.buckets[c].codes \subseteq Unavailability \cup HardFailures
         /\ b.buckets[c].candidate <= b.buckets[c].completed
         /\ b.buckets[c].incumbent <= b.buckets[c].completed

-----------------------------------------------------------------------------
(* The reduction *)

\* Mutant: the distance to the incumbent is measured the other way round.
SwappedArms(b, rule) ==
    /\ b.candidate * rule.pass.d >= b.completed * rule.pass.n
    /\ (b.completed - b.candidate) * rule.fail.d <= b.completed * rule.fail.n
    /\ b.incumbent * rule.gap.d + rule.gap.n * b.completed >= b.candidate * rule.gap.d

\* The pass rate, the failure rate and the distance to the incumbent, in integers.
MetricsHold(b, rule) ==
    /\ b.candidate * rule.pass.d >= b.completed * rule.pass.n
    /\ (b.completed - b.candidate) * rule.fail.d <= b.completed * rule.fail.n
    /\ b.candidate * rule.gap.d + rule.gap.n * b.completed >= b.incumbent * rule.gap.d

Required(p) == [family : p.families, bucket : p.buckets]

EvidenceStale(b, p, now) == now - b.at > p.maximumAge \/ b.policy # p

LineageStale(b, current) == b.scope # current

\* The codes that count: the bundle's own, and those of what the policy requires.
Codes(b, p) ==
    b.codes \cup (UNION {b.families[f].codes : f \in p.families \cap DOMAIN b.families})
            \cup (UNION {b.buckets[c].codes : c \in Required(p) \cap DOMAIN b.buckets})

Recognized(b, p)   == Codes(b, p) \cap p.hard
Unrecognized(b, p) == (Codes(b, p) \cap HardFailures) \ p.hard

FamilyCovered(b, p, f) == f \in DOMAIN b.families /\ b.families[f].completed >= p.familyMinimum

BucketCovered(b, p, c) ==
    c \in DOMAIN b.buckets /\ b.buckets[c].completed >= p.rules[c.bucket].minimum

Covered(b, p) ==
    /\ \A f \in p.families : FamilyCovered(b, p, f)
    /\ \A c \in Required(p) : BucketCovered(b, p, c)

\* A bucket is only judged when it is covered and was available.
MetricFailure(b, p) ==
    \E c \in Required(p) :
        /\ BucketCovered(b, p, c)
        /\ b.buckets[c].codes \cap Unavailability = {}
        /\ ~MetricsHold(b.buckets[c], p.rules[c.bucket])

Unavailable(b, p, current, now) ==
    \/ ~p.approved
    \/ EvidenceStale(b, p, now) \/ LineageStale(b, current)
    \/ ~Covered(b, p)
    \/ Codes(b, p) \cap Unavailability # {}
    \/ Unrecognized(b, p) # {}

\* Mutant: the metrics are looked at before the availability of the evidence.
MetricsFirst(b, p, current, now) ==
    IF Recognized(b, p) # {} \/ MetricFailure(b, p) THEN "rejected"
    ELSE IF Unavailable(b, p, current, now) THEN "review_only"
    ELSE "promotion_ready"

\* Known harm first, then what keeps the evidence from counting, then the metrics.
Disposition(b, p, current, now) ==
    IF Recognized(b, p) # {} THEN "rejected"
    ELSE IF Unavailable(b, p, current, now) THEN "review_only"
    ELSE IF MetricFailure(b, p) THEN "rejected"
    ELSE "promotion_ready"

-----------------------------------------------------------------------------
EvidenceInit ==
    /\ Init
    /\ clock = 0 /\ scope = 0 /\ bundle = None /\ disposition = None

\* The caller counts pairs and freezes the envelope under a policy.  One bundle is followed,
\* after the runs it may count: neither changes what the other reads.
Collect(S, policy, fault) ==
    /\ bundle = None /\ \A p \in Process : process[p] = Idle
    /\ S # {} /\ \A r \in S : receipts[r] # None /\ receipts[r].eligible
    /\ BundleHolds(Bundle(S, policy, fault))
    /\ bundle' = Bundle(S, policy, fault)
    /\ UNCHANGED <<clock, scope, disposition>>

\* The reduction reads what is current and changes nothing of it.
Reduce(policy) ==
    /\ bundle # None /\ clock >= bundle.at
    /\ disposition' =
         [bundle |-> bundle, policy |-> policy, result |-> Disposition(bundle, policy, scope, clock)]
    /\ UNCHANGED <<clock, scope, bundle>>

Tick == bundle # None /\ clock < MaxClock /\ clock' = clock + 1 /\ UNCHANGED <<scope, bundle, disposition>>

Activated == bundle # None /\ scope < MaxScope /\ scope' = scope + 1 /\ UNCHANGED <<clock, bundle, disposition>>

EvidenceNext ==
    \/ bundle = None /\ Next /\ UNCHANGED evidence
    \/ /\ \/ \E S \in SUBSET Request, p \in Policies, f \in Faults \cup {None} : Collect(S, p, f)
          \/ \E p \in Policies : Reduce(p)
          \/ Tick \/ Activated
       /\ UNCHANGED vars

EvidenceSpec == EvidenceInit /\ [][EvidenceNext]_<<vars, evidence>>

-----------------------------------------------------------------------------
(* Properties *)

\* Readiness rests on replay that ran: behind a disposition that is promotion_ready, in every
\* cell its policy requires, are as many pairs as it asks for whose two arms dispatched
\* nothing live and kept to their fixture and bounds, and whose candidate passed as often.
ReadyRestsOnReplay ==
    (disposition # None /\ disposition.result = "promotion_ready") =>
        \A c \in Required(disposition.policy) :
            LET rule  == disposition.policy.rules[c.bucket]
                inert == {r \in Request : Cell[r] = c /\ Len(ran[r]) = 2 /\ ran[r][1].inert /\ ran[r][2].inert}
                passed == {r \in inert : ran[r][1].outcome = "completed"}
            IN  /\ Cardinality(inert) >= rule.minimum
                /\ Cardinality(passed) * rule.pass.d >= rule.minimum * rule.pass.n

\* A bundle that says worse of the candidate, cell by cell: a pass that failed, a failure of
\* the incumbent that passed, a cell that is missing, or one more code anywhere.
Worse(b) ==
    {[b EXCEPT !.buckets[c].candidate = @ - 1] : c \in {e \in DOMAIN b.buckets : b.buckets[e].candidate > 0}}
    \cup {[b EXCEPT !.buckets[c].incumbent = @ + 1] :
             c \in {e \in DOMAIN b.buckets : b.buckets[e].incumbent < b.buckets[e].completed}}
    \cup {[b EXCEPT !.buckets = [e \in DOMAIN b.buckets \ {c} |-> b.buckets[e]]] : c \in DOMAIN b.buckets}
    \cup {[b EXCEPT !.families = [e \in DOMAIN b.families \ {f} |-> b.families[e]]] : f \in DOMAIN b.families}
    \cup {[b EXCEPT !.codes = @ \cup {k}] : k \in Unavailability \cup HardFailures}
    \cup {[b EXCEPT !.buckets[c].codes = @ \cup {k}] : c \in DOMAIN b.buckets, k \in Unavailability \cup HardFailures}

\* Worse evidence never makes a candidate ready that was not, under any policy.
WorseNeverPromotes ==
    bundle # None => \A p \in Policies, w \in Worse(bundle) :
        Disposition(w, p, scope, clock) = "promotion_ready"
            => Disposition(bundle, p, scope, clock) = "promotion_ready"

\* "Provider or infrastructure exhaustion is unavailable or stopped and never candidate harm"
\* (docs/adr/0008:26): a candidate is rejected for a hard failure its policy names, or, on
\* evidence that lacks nothing the policy requires, for a pair that ran on nothing but its
\* fixture and whose candidate did not complete.
RejectionRestsOnHarm ==
    (disposition # None /\ disposition.result = "rejected") =>
        LET b == disposition.bundle
            p == disposition.policy
        IN  \/ Recognized(b, p) # {}
            \/ /\ p.approved /\ b.policy = p /\ Codes(b, p) = {} /\ Covered(b, p)
               /\ \E r \in Request :
                    /\ Cell[r] \in Required(p) /\ Len(ran[r]) = 2
                    /\ ran[r][1].inert /\ ran[r][2].inert
                    /\ ran[r][1].outcome = "deterministic_failure"
=============================================================================
