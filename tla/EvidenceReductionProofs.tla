------------------------ MODULE EvidenceReductionProofs ------------------------
(***************************************************************************)
(* Proofs about EvidenceReduction, and about the replay of pairs under it: *)
(* an arm that reached a verdict kept to its fixture and bounds, what is   *)
(* on record of a request is what the provider did, once, and a reduction  *)
(* is ready, or rejects, for reasons that lie in those arms.               *)
(*                                                                         *)
(* The gateway is a recursive function of the calls of an arm.  What it    *)
(* computes is proved by a least counterexample: the library's statement   *)
(* that the natural numbers are well founded gives the least number of     *)
(* calls for which the claim would fail.                                   *)
(***************************************************************************)
EXTENDS EvidenceReduction, WellFoundedInduction, FiniteSetTheorems, TLAPS

-----------------------------------------------------------------------------
(* The inductive invariant of the replay *)

Verdicts == Outcomes \cup {"harness_failure"}
ArmRuns  == [outcome : Verdicts, inert : BOOLEAN]

\* An arm that reached a verdict ran on nothing but the fixture, and within its bounds.
Sound(arm) == arm \in ArmRuns /\ (arm.outcome # "harness_failure" => arm.inert)

Domains ==
    /\ DOMAIN receipts = Request /\ DOMAIN completions = Request /\ DOMAIN ran = Request
    /\ DOMAIN process = Process

\* Claims are of requests, one under each key.
Claims ==
    /\ \A c \in claims : c.request \in Request /\ c = ClaimOf(c.request)
    /\ \A c, d \in claims : c.key = d.key => c = d

\* A run under way is the only one of its request, which was claimed and has no receipt;
\* what it keeps is what the provider did.
Dispatching(p) ==
    LET r == process[p].request IN
    process[p] # Idle =>
        /\ process[p] = [at |-> "dispatched", request |-> r, arms |-> process[p].arms]
        /\ r \in Request /\ Admissible(r)
        /\ ClaimOf(r) \in claims /\ receipts[r] = None
        /\ process[p].arms \in Seq(Verdicts)
        /\ Len(process[p].arms) = Len(ran[r])
        /\ \A i \in 1 .. Len(ran[r]) : process[p].arms[i] = ran[r][i].outcome
        /\ \A q \in Process \ {p} : process[q] # Idle => process[q].request # r

\* What is on record of a request.
Recorded(r) ==
    /\ ran[r] \in Seq(ArmRuns) /\ Len(ran[r]) <= 2
    /\ \A i \in 1 .. Len(ran[r]) : Sound(ran[r][i])
    /\ ran[r] # <<>> => ClaimOf(r) \in claims
    /\ receipts[r] = None => completions[r] = 0
    /\ receipts[r] # None =>
          /\ ClaimOf(r) \in claims /\ completions[r] = 1 /\ Len(ran[r]) = 2
          /\ receipts[r] = Receipt(r, <<ran[r][1].outcome, ran[r][2].outcome>>)

Answered == \A t \in told :
    t.request \in Request /\ receipts[t.request] # None /\ t.receipt = receipts[t.request]

ReplayInv ==
    /\ Domains /\ Claims /\ Answered
    /\ \A p \in Process : Dispatching(p)
    /\ \A r \in Request : Recorded(r)

-----------------------------------------------------------------------------
(* The inductive invariant of the reduction *)

\* A bundle counts eligible receipts.
Founded(b) ==
    \E S \in SUBSET Request, fault \in Faults \cup {None} :
        /\ \A r \in S : receipts[r] # None /\ receipts[r].eligible
        /\ b.buckets = [c \in {Cell[r] : r \in S} |-> BucketSummary(S, fault, c)]

Shaped(b) ==
    /\ b = [at |-> b.at, scope |-> b.scope, policy |-> b.policy, codes |-> b.codes,
            families |-> b.families, buckets |-> b.buckets]
    /\ BundleHolds(b)

\* The evidence is there, current and clean of what keeps it from counting.
Counts(b, p) ==
    /\ p.approved /\ b.policy = p /\ Covered(b, p)
    /\ Codes(b, p) \cap Unavailability = {} /\ Unrecognized(b, p) = {}

\* What a disposition says of its bundle.
Says(d) ==
    /\ d.result = "promotion_ready" =>
          Recognized(d.bundle, d.policy) = {} /\ Counts(d.bundle, d.policy)
          /\ ~MetricFailure(d.bundle, d.policy)
    /\ d.result = "rejected" =>
          \/ Recognized(d.bundle, d.policy) # {}
          \/ Counts(d.bundle, d.policy) /\ MetricFailure(d.bundle, d.policy)

EvidenceInv ==
    /\ ReplayInv
    /\ bundle # None => Founded(bundle) /\ Shaped(bundle)
    /\ disposition # None =>
          /\ bundle # None /\ disposition.bundle = bundle
          /\ disposition.policy \in Policies /\ Says(disposition)

-----------------------------------------------------------------------------
(* Induction over the natural numbers, by a least counterexample *)

Less == {p \in Nat \X Nat : p[1] < p[2]}

\* The order of the natural numbers is well founded.
LEMMA LessIsWellFounded == IsWellFoundedOn(Less, Nat)
  BY NatLessThanWellFounded DEF OpToRel, Less

\* A set of natural numbers that is not empty has a least element.
LEMMA LeastNumber ==
    ASSUME NEW T, T \subseteq Nat, T # {}
    PROVE  \E n \in T : \A m \in T : n <= m
<1>1. \E n \in T : \A m \in T : <<m, n>> \notin Less
  BY LessIsWellFounded, WFMin
<1>2. \A m, n \in Nat : <<m, n>> \notin Less => n <= m
  BY DEF Less
<1> QED BY <1>1, <1>2

-----------------------------------------------------------------------------
(* The gateway of an arm *)

\* A function that follows the gateway over the first n of the calls.
Follows(h, calls, limit, n) ==
    h = [i \in 0 .. n |-> IF i = 0 THEN Opened ELSE Continue(h[i - 1], calls[i], limit)]

\* One more call can always be followed.
LEMMA FollowedOnce ==
    ASSUME NEW calls, NEW limit, NEW n \in Nat, n > 0, NEW h, Follows(h, calls, limit, n - 1)
    PROVE  \E k : Follows(k, calls, limit, n)
<1> DEFINE Step(x, i) == Continue(x, calls[i], limit)
<1> DEFINE k == [i \in 0 .. n |-> IF i = n THEN Step(h[n - 1], n) ELSE h[i]]
<1>1. h = [i \in 0 .. n - 1 |-> IF i = 0 THEN Opened ELSE Step(h[i - 1], i)]
  BY DEF Follows
<1> HIDE DEF Step
<1>2. ASSUME NEW i \in 0 .. n
      PROVE  k[i] = IF i = 0 THEN Opened ELSE Step(k[i - 1], i)
  <2>1. CASE i = n
    <3>1. i # 0 /\ n - 1 \in 0 .. n /\ n - 1 # n
      BY <2>1
    <3>2. k[i] = Step(h[n - 1], n) /\ k[n - 1] = h[n - 1]
      BY <2>1, <3>1
    <3> QED BY <2>1, <3>1, <3>2
  <2>2. CASE i # n /\ i = 0
    <3>1. i \in 0 .. n - 1 /\ k[i] = h[i]
      BY <2>2
    <3> QED BY <2>2, <3>1, <1>1
  <2>3. CASE i # n /\ i # 0
    <3>1. i \in 0 .. n - 1 /\ i - 1 \in 0 .. n /\ i - 1 # n
      BY <2>3
    <3>2. k[i] = h[i] /\ k[i - 1] = h[i - 1]
      BY <2>3, <3>1
    <3>3. h[i] = Step(h[i - 1], i)
      BY <2>3, <3>1, <1>1
    <3> QED BY <2>3, <3>2, <3>3
  <2> QED BY <2>1, <2>2, <2>3
<1>3. k = [i \in 0 .. n |-> IF i = 0 THEN Opened ELSE Step(k[i - 1], i)]
  <2> DEFINE e == [i \in 0 .. n |-> IF i = 0 THEN Opened ELSE Step(k[i - 1], i)]
  <2>1. \A i \in 0 .. n : k[i] = e[i]
    BY <1>2
  <2> QED BY <2>1
<1>4. Follows(k, calls, limit, n)
  BY <1>3 DEF Follows, Step
<1> QED BY <1>4

\* Any number of calls can be followed.
LEMMA Followed ==
    ASSUME NEW calls, NEW limit, NEW m \in Nat
    PROVE  \E h : Follows(h, calls, limit, m)
<1> DEFINE T == {n \in Nat : ~\E h : Follows(h, calls, limit, n)}
<1>1. SUFFICES ASSUME T # {} PROVE FALSE
  OBVIOUS
<1>2. PICK n \in T : \A i \in T : n <= i
  BY <1>1, LeastNumber
<1>3. CASE n = 0
  <2> DEFINE h == [i \in 0 .. 0 |-> Opened]
  <2>1. \A i \in 0 .. 0 : i = 0
    OBVIOUS
  <2>2. h = [i \in 0 .. 0 |-> IF i = 0 THEN Opened ELSE Continue(h[i - 1], calls[i], limit)]
    BY <2>1, Zenon
  <2>3. Follows(h, calls, limit, 0)
    BY <2>2 DEF Follows
  <2> QED BY <1>3, <2>3
<1>4. CASE n > 0
  <2>1. n - 1 \in Nat /\ n - 1 \notin T
    BY <1>2, <1>4
  <2>2. PICK h : Follows(h, calls, limit, n - 1)
    BY <2>1
  <2>3. n \in Nat
    OBVIOUS
  <2>4. \E k : Follows(k, calls, limit, n)
    BY <2>2, <2>3, <1>4, FollowedOnce
  <2> QED BY <2>4
<1> QED BY <1>3, <1>4

\* The gateway starts opened, and goes on call by call.
LEMMA AfterEachCall ==
    ASSUME NEW calls \in Seq(Tools), NEW limit
    PROVE  /\ After(calls, limit)[0] = Opened
           /\ \A n \in 1 .. Len(calls) :
                After(calls, limit)[n] = Continue(After(calls, limit)[n - 1], calls[n], limit)
<1> DEFINE g == After(calls, limit)
<1>1. Len(calls) \in Nat
  OBVIOUS
<1>2. PICK h : Follows(h, calls, limit, Len(calls))
  BY <1>1, Followed
<1>3. g = CHOOSE x : Follows(x, calls, limit, Len(calls))
  BY Zenon DEF After, Follows
<1>4. Follows(g, calls, limit, Len(calls))
  BY <1>2, <1>3
<1>5. g = [i \in 0 .. Len(calls) |-> IF i = 0 THEN Opened ELSE Continue(g[i - 1], calls[i], limit)]
  BY <1>4 DEF Follows
<1> HIDE DEF g
<1>6. 0 \in 0 .. Len(calls)
  BY <1>1
<1>7. g[0] = Opened
  BY <1>5, <1>6
<1>8. ASSUME NEW n \in 1 .. Len(calls) PROVE g[n] = Continue(g[n - 1], calls[n], limit)
  <2>1. n \in 0 .. Len(calls) /\ n # 0
    BY <1>1
  <2> QED BY <1>5, <2>1
<1> QED BY <1>7, <1>8 DEF g

Refusals == {"live_tool_dispatch_denied", "budget_exhausted", "fixture_contract_mismatch"}
Gateways == [calls : Nat, violation : Refusals \cup {None}, live : BOOLEAN]

\* A gateway that refused nothing served so many steps of the fixture in their order, and no
\* more than its limit.
Served(g, calls, limit, n) ==
    g.violation = None =>
        /\ g.calls = n /\ ~g.live
        /\ n <= Len(Steps) /\ n <= limit
        /\ \A i \in 1 .. n : calls[i] = Steps[i]

\* The next call of a gateway keeps its type, and a refusal stays.
LEMMA ContinueServed ==
    ASSUME NEW calls \in Seq(Tools), NEW limit \in Nat, NEW n \in 1 .. Len(calls),
           NEW g \in Gateways, Served(g, calls, limit, n - 1)
    PROVE  /\ Continue(g, calls[n], limit) \in Gateways
           /\ Served(Continue(g, calls[n], limit), calls, limit, n)
<1> DEFINE t == calls[n]
<1> DEFINE next == Continue(g, t, limit)
<1> USE StepsAssumption
<1>1. n \in Nat /\ n > 0 /\ Len(Steps) \in Nat
  OBVIOUS
<1>2. CASE t = "live"
  <2>1. next = [g EXCEPT !.violation = "live_tool_dispatch_denied", !.live = TRUE]
    BY <1>2 DEF Continue, Gateways
  <2>2. next \in Gateways /\ next.violation # None
    BY <2>1, NoneAssumption DEF Gateways, Refusals
  <2> QED BY <2>2 DEF Served
<1>3. CASE t # "live" /\ g.calls >= limit
  <2>1. next = [g EXCEPT !.violation = "budget_exhausted"]
    BY <1>3 DEF Continue
  <2>2. next \in Gateways /\ next.violation # None
    BY <2>1, NoneAssumption DEF Gateways, Refusals
  <2> QED BY <2>2 DEF Served
<1>4. CASE t # "live" /\ ~(g.calls >= limit) /\ (g.calls = Len(Steps) \/ Steps[g.calls + 1] # t)
  <2>1. next = [g EXCEPT !.violation = "fixture_contract_mismatch"]
    BY <1>4 DEF Continue
  <2>2. next \in Gateways /\ next.violation # None
    BY <2>1, NoneAssumption DEF Gateways, Refusals
  <2> QED BY <2>2 DEF Served
<1>5. CASE t # "live" /\ ~(g.calls >= limit) /\ ~(g.calls = Len(Steps) \/ Steps[g.calls + 1] # t)
  <2>1. next = [g EXCEPT !.calls = @ + 1]
    BY <1>5 DEF Continue
  <2>2. next \in Gateways /\ next.calls = g.calls + 1 /\ next.violation = g.violation /\ next.live = g.live
    BY <2>1 DEF Gateways
  <2>3. ASSUME next.violation = None
        PROVE  /\ next.calls = n /\ ~next.live
               /\ n <= Len(Steps) /\ n <= limit
               /\ \A i \in 1 .. n : calls[i] = Steps[i]
    <3>1. /\ g.calls = n - 1 /\ ~g.live /\ n - 1 <= Len(Steps)
          /\ \A i \in 1 .. n - 1 : calls[i] = Steps[i]
      BY <2>2, <2>3 DEF Served
    <3>2. n - 1 < limit /\ n - 1 # Len(Steps) /\ Steps[n] = calls[n]
      BY <3>1, <1>5, <1>1
    <3>3. ASSUME NEW i \in 1 .. n PROVE calls[i] = Steps[i]
      <4>1. i = n \/ i \in 1 .. n - 1
        BY <1>1
      <4> QED BY <4>1, <3>1, <3>2
    <3>4. next.calls = n /\ ~next.live
      BY <2>2, <3>1, <1>1
    <3>5. n <= Len(Steps) /\ n <= limit
      BY <3>1, <3>2, <1>1
    <3> QED BY <3>3, <3>4, <3>5
  <2> QED BY <2>2, <2>3 DEF Served
<1> QED BY <1>2, <1>3, <1>4, <1>5

\* What the gateway of an arm says after all of its calls.
LEMMA GatewayServed ==
    ASSUME NEW calls \in Seq(Tools), NEW limit \in Nat
    PROVE  /\ Gateway(calls, limit) \in Gateways
           /\ Served(Gateway(calls, limit), calls, limit, Len(calls))
<1> DEFINE g == After(calls, limit)
<1> DEFINE Bad == {n \in 0 .. Len(calls) : ~(g[n] \in Gateways /\ Served(g[n], calls, limit, n))}
<1>1. Len(calls) \in Nat
  OBVIOUS
<1>2. /\ g[0] = Opened
      /\ \A n \in 1 .. Len(calls) : g[n] = Continue(g[n - 1], calls[n], limit)
  BY AfterEachCall
<1> HIDE DEF g
<1>3. SUFFICES ASSUME Bad # {} PROVE FALSE
  <2>1. Len(calls) \in 0 .. Len(calls)
    BY <1>1
  <2> QED BY <2>1, <1>3 DEF Gateway, g
<1>4. PICK n \in Bad : \A i \in Bad : n <= i
  <2>1. Bad \subseteq Nat
    BY <1>1
  <2> QED BY <2>1, <1>3, LeastNumber
<1>5. CASE n = 0
  <2>1. g[0] \in Gateways /\ Served(g[0], calls, limit, 0)
    <3>1. Opened \in Gateways /\ Opened.calls = 0 /\ ~Opened.live
      BY DEF Opened, Gateways
    <3>2. Len(Steps) \in Nat
      BY StepsAssumption
    <3> QED BY <3>1, <3>2, <1>2 DEF Served
  <2> QED BY <1>5, <2>1
<1>6. CASE n # 0
  <2>1. n \in 1 .. Len(calls) /\ n - 1 \in 0 .. Len(calls) /\ n - 1 < n
    BY <1>6, <1>1
  <2>2. n - 1 \notin Bad
    BY <2>1, <1>4
  <2>3. g[n - 1] \in Gateways /\ Served(g[n - 1], calls, limit, n - 1)
    BY <2>1, <2>2
  <2>4. g[n] \in Gateways /\ Served(g[n], calls, limit, n)
    BY <2>1, <2>3, <1>2, ContinueServed
  <2> QED BY <2>4
<1> QED BY <1>5, <1>6

\* The arms a provider may run: what reached a verdict ran on nothing but the fixture, and
\* within its bounds.
LEMMA ArmsAreSound ==
    ASSUME NEW r \in Request, Admissible(r), NEW arm \in Arms[r.bounds]
    PROVE  Sound(arm)
<1> DEFINE bounds == r.bounds
<1>1. bounds \in [tokens : Nat, calls : Nat]
  BY BoundsAssumption
<1>2. PICK c \in Conducts : arm = Arm(c, bounds)
  BY DEF Arms
<1>3. c.calls \in Seq(Tools)
  <2>1. c.calls \in SeqOf(Tools, MaxCalls)
    BY DEF Conducts
  <2>2. PICK m \in 0 .. MaxCalls : c.calls \in [1 .. m -> Tools]
    BY <2>1 DEF SeqOf
  <2>3. m \in Nat
    OBVIOUS
  <2> QED BY <2>2, <2>3
<1> DEFINE g == Gateway(c.calls, bounds.calls)
<1>4. g \in Gateways /\ Served(g, c.calls, bounds.calls, Len(c.calls))
  BY <1>1, <1>3, GatewayServed
<1> HIDE DEF g
<1>5. arm = [outcome |-> Verdict(c, g, bounds), inert |-> Inert(c, bounds)]
  BY <1>2 DEF Arm, g
<1>6. Verdict(c, g, bounds) \in Verdicts
  BY DEF Verdict, Verdicts, Conducts
<1>7. Inert(c, bounds) \in BOOLEAN
  BY DEF Inert
<1>8. ASSUME Verdict(c, g, bounds) # "harness_failure"
      PROVE  Inert(c, bounds)
  <2>1. g.violation = None /\ c.counters # None /\ WithinBounds(c, g, bounds)
    BY <1>8 DEF Verdict
  <2>2. ~c.counters.live /\ ~c.counters.hosted /\ c.counters.tokens <= bounds.tokens
    BY <2>1 DEF WithinBounds
  <2>3. /\ Len(c.calls) <= Len(Steps) /\ Len(c.calls) <= bounds.calls
        /\ \A i \in 1 .. Len(c.calls) : c.calls[i] = Steps[i]
    BY <2>1, <1>4 DEF Served
  <2>4. SubSeq(c.calls, 1, Len(c.calls)) = SubSeq(Steps, 1, Len(c.calls))
    BY <2>3, <1>3, StepsAssumption
  <2>5. IsPrefix(c.calls, Steps)
    BY <2>3, <2>4 DEF IsPrefix
  <2> QED BY <2>1, <2>2, <2>3, <2>5 DEF Inert
<1> HIDE DEF bounds
<1> QED BY <1>5, <1>6, <1>7, <1>8 DEF Sound, ArmRuns
-----------------------------------------------------------------------------
(* The invariant of the replay *)

\* A claim names the request it is of.
LEMMA ClaimNamesRequest ==
    ASSUME NEW r PROVE ClaimOf(r).request = r /\ ClaimOf(r).key = r.key
  BY DEF ClaimOf

\* Nothing ran, was claimed or answered at the start.
LEMMA ReplayStarts == Init => ReplayInv
<1> SUFFICES ASSUME Init PROVE ReplayInv
  OBVIOUS
<1>1. Domains
  BY DEF Init, Domains
<1>2. Claims /\ Answered
  BY DEF Init, Claims, Answered
<1>3. ASSUME NEW p \in Process PROVE Dispatching(p)
  BY DEF Init, Dispatching
<1>4. ASSUME NEW r \in Request PROVE Recorded(r)
  BY DEF Init, Recorded
<1> QED BY <1>1, <1>2, <1>3, <1>4 DEF ReplayInv

\* A claim is the first under its key, and nothing ran for the request before it.
LEMMA ClaimKeepsReplay ==
    ASSUME ReplayInv, NEW p \in Process, NEW r \in Request, Claim(p, r)
    PROVE  ReplayInv'
<1> DEFINE run == [at |-> "dispatched", request |-> r, arms |-> <<>>]
<1>1. /\ process[p] = Idle /\ Admissible(r) /\ Under(r) = {}
      /\ claims' = claims \cup {ClaimOf(r)}
      /\ process' = [process EXCEPT ![p] = run]
      /\ UNCHANGED <<receipts, completions, ran, told>>
  BY DEF Claim, Unclaimed
<1>2. Domains /\ Claims /\ Answered
  BY DEF ReplayInv
<1>3. Domains'
  BY <1>1, <1>2 DEF Domains
<1>4. \A c \in claims : c.key # r.key
  BY <1>1 DEF Under
<1>5. ClaimOf(r) \notin claims
  BY <1>4, ClaimNamesRequest
<1>6. Claims'
  <2>1. \A c \in claims' : c.request \in Request /\ c = ClaimOf(c.request)
    BY <1>1, <1>2, ClaimNamesRequest DEF Claims
  <2>2. \A c, d \in claims' : c.key = d.key => c = d
    BY <1>1, <1>2, <1>4, ClaimNamesRequest DEF Claims
  <2> QED BY <2>1, <2>2 DEF Claims
<1>7. Recorded(r) /\ ran[r] = <<>> /\ receipts[r] = None
  <2>1. Recorded(r)
    BY DEF ReplayInv
  <2> QED BY <2>1, <1>5 DEF Recorded
<1>8. Answered'
  BY <1>1, <1>2 DEF Answered
<1>9. ASSUME NEW q \in Process PROVE Dispatching(q)'
  <2>1. Dispatching(q)
    BY DEF ReplayInv
  <2>2. CASE q = p
    <3>1. process'[q] = run
      BY <1>1, <1>2, <2>2 DEF Domains
    <3>2. ASSUME NEW o \in Process \ {p}, process'[o] # Idle
          PROVE  process'[o].request # r
      <4>1. process'[o] = process[o] /\ Dispatching(o)
        BY <1>1, <1>2 DEF Domains, ReplayInv
      <4> QED BY <4>1, <3>2, <1>5 DEF Dispatching
    <3> QED BY <3>1, <3>2, <1>1, <1>7, <2>2 DEF Dispatching
  <2>3. CASE q # p
    <3>1. process'[q] = process[q]
      BY <1>1, <1>2, <2>3 DEF Domains
    <3>2. CASE process[q] = Idle
      BY <3>1, <3>2 DEF Dispatching
    <3>3. CASE process[q] # Idle
      <4> DEFINE s == process[q].request
      <4>1. ClaimOf(s) \in claims /\ s # r
        BY <3>3, <2>1, <1>5 DEF Dispatching
      <4>2. ASSUME NEW o \in Process \ {q}, process'[o] # Idle
            PROVE  process'[o].request # s
        <5>1. CASE o = p
          BY <5>1, <4>1, <1>1, <1>2 DEF Domains
        <5>2. CASE o # p
          <6>1. process'[o] = process[o]
            BY <5>2, <1>1, <1>2 DEF Domains
          <6> QED BY <6>1, <4>2, <3>3, <2>1 DEF Dispatching
        <5> QED BY <5>1, <5>2
      <4> QED BY <3>1, <3>3, <2>1, <4>1, <4>2, <1>1 DEF Dispatching
    <3> QED BY <3>2, <3>3
  <2> QED BY <2>2, <2>3
<1>10. ASSUME NEW q \in Request PROVE Recorded(q)'
  <2>1. Recorded(q)
    BY DEF ReplayInv
  <2> QED BY <2>1, <1>1 DEF Recorded
<1> QED BY <1>3, <1>6, <1>8, <1>9, <1>10 DEF ReplayInv

\* What the invariant says of the runs stands while a run ends or answers.
LEMMA EndKeepsReplay ==
    ASSUME ReplayInv, NEW p \in Process,
           process' = process \/ process' = [process EXCEPT ![p] = Idle],
           UNCHANGED <<claims, receipts, ran>>
    PROVE  \A q \in Process : Dispatching(q)'
<1> SUFFICES ASSUME NEW q \in Process PROVE Dispatching(q)'
  OBVIOUS
<1>1. Domains /\ Dispatching(q)
  BY DEF ReplayInv
<1>2. \A o \in Process : process'[o] = process[o] \/ process'[o] = Idle
  BY <1>1 DEF Domains
<1> QED BY <1>1, <1>2 DEF Dispatching

\* A run that stops leaves what is on record.
LEMMA StopKeepsReplay ==
    ASSUME ReplayInv, NEW p \in Process, Stop(p)
    PROVE  ReplayInv'
<1>1. /\ process' = [process EXCEPT ![p] = Idle]
      /\ UNCHANGED <<claims, receipts, completions, ran, told>>
  BY DEF Stop
<1>2. Domains /\ Claims /\ Answered
  BY DEF ReplayInv
<1>3. Domains' /\ Claims' /\ Answered'
  BY <1>1, <1>2 DEF Domains, Claims, Answered
<1>4. \A q \in Process : Dispatching(q)'
  BY <1>1, EndKeepsReplay
<1>5. \A r \in Request : Recorded(r)'
  BY <1>1 DEF Recorded, ReplayInv
<1> QED BY <1>3, <1>4, <1>5 DEF ReplayInv

\* A repetition is told what is on record.
LEMMA ReplayKeepsReplay ==
    ASSUME ReplayInv, NEW p \in Process, NEW r \in Request, Replay(p, r)
    PROVE  ReplayInv'
<1>1. /\ receipts[r] # None
      /\ told' = told \cup {[request |-> r, receipt |-> receipts[r]]}
      /\ UNCHANGED <<claims, receipts, completions, process, ran>>
  BY DEF Replay, Completed, Answer
<1>2. Domains /\ Claims /\ Answered
  BY DEF ReplayInv
<1>3. Domains' /\ Claims' /\ Answered'
  BY <1>1, <1>2 DEF Domains, Claims, Answered
<1>4. \A q \in Process : Dispatching(q)'
  BY <1>1, EndKeepsReplay
<1>5. \A q \in Request : Recorded(q)'
  BY <1>1 DEF Recorded, ReplayInv
<1> QED BY <1>3, <1>4, <1>5 DEF ReplayInv

\* An arm that runs is one more of its request, and nobody else runs one of it.
LEMMA RunArmKeepsReplay ==
    ASSUME ReplayInv, NEW p \in Process, RunArm(p)
    PROVE  ReplayInv'
<1> DEFINE r == process[p].request
<1> DEFINE a == process[p].arms
<1>1. PICK arm \in Arms[r.bounds] :
        /\ process' = [process EXCEPT ![p].arms = Append(@, arm.outcome)]
        /\ ran' = [ran EXCEPT ![r] = Append(@, arm)]
  BY DEF RunArm
<1>2. /\ process[p].at = "dispatched" /\ Len(a) < 2
      /\ UNCHANGED <<claims, receipts, completions, told>>
  BY DEF RunArm
<1>3. Domains /\ Claims /\ Answered /\ Dispatching(p)
  BY DEF ReplayInv
<1>4. process[p] # Idle
  BY <1>2 DEF Idle
<1>5. /\ r \in Request /\ Admissible(r) /\ ClaimOf(r) \in claims /\ receipts[r] = None
      /\ a \in Seq(Verdicts) /\ Len(a) = Len(ran[r])
      /\ \A i \in 1 .. Len(ran[r]) : a[i] = ran[r][i].outcome
      /\ \A q \in Process \ {p} : process[q] # Idle => process[q].request # r
  BY <1>3, <1>4 DEF Dispatching
<1>6. Sound(arm) /\ arm \in ArmRuns /\ arm.outcome \in Verdicts
  <2>1. Sound(arm)
    BY <1>1, <1>5, ArmsAreSound
  <2> QED BY <2>1 DEF Sound, ArmRuns
<1>7. Recorded(r) /\ ran[r] \in Seq(ArmRuns)
  BY <1>5 DEF ReplayInv, Recorded
<1>8. /\ ran'[r] = Append(ran[r], arm)
      /\ \A q \in Request : q # r => ran'[q] = ran[q]
  BY <1>1, <1>3, <1>5 DEF Domains
<1>9. /\ process'[p] = [process[p] EXCEPT !.arms = Append(@, arm.outcome)]
      /\ \A q \in Process : q # p => process'[q] = process[q]
  BY <1>1, <1>3 DEF Domains
<1>10. /\ process'[p] = [at |-> "dispatched", request |-> r, arms |-> Append(a, arm.outcome)]
       /\ process'[p].request = r /\ process'[p].arms = Append(a, arm.outcome)
  <2>1. process[p] = [at |-> "dispatched", request |-> r, arms |-> a]
    BY <1>3, <1>4 DEF Dispatching
  <2> HIDE DEF r, a
  <2> QED BY <1>9, <2>1
<1>11. Domains' /\ Claims' /\ Answered'
  BY <1>1, <1>2, <1>3 DEF Domains, Claims, Answered
<1>12. /\ Len(ran'[r]) = Len(ran[r]) + 1 /\ ran'[r] \in Seq(ArmRuns)
       /\ \A i \in 1 .. Len(ran'[r]) : ran'[r][i] = IF i = Len(ran[r]) + 1 THEN arm ELSE ran[r][i]
  BY <1>6, <1>7, <1>8
<1>13. /\ Len(process'[p].arms) = Len(a) + 1 /\ process'[p].arms \in Seq(Verdicts)
       /\ \A i \in 1 .. Len(a) + 1 :
            process'[p].arms[i] = IF i = Len(a) + 1 THEN arm.outcome ELSE a[i]
  <2>1. a \in Seq(Verdicts) /\ arm.outcome \in Verdicts /\ process'[p].arms = Append(a, arm.outcome)
    BY <1>5, <1>6, <1>10
  <2> HIDE DEF a
  <2> QED BY <2>1
<1>14. ASSUME NEW q \in Process PROVE Dispatching(q)'
  <2>1. Dispatching(q)
    BY DEF ReplayInv
  <2>2. CASE q = p
    <3>1. ASSUME NEW i \in 1 .. Len(ran'[r]) PROVE process'[p].arms[i] = ran'[r][i].outcome
      <4>1. Len(ran[r]) \in Nat /\ Len(a) = Len(ran[r]) /\ Len(ran'[r]) = Len(ran[r]) + 1
        BY <1>5, <1>7, <1>12
      <4>2. CASE i = Len(ran[r]) + 1
        BY <4>1, <4>2, <1>12, <1>13
      <4>3. CASE i # Len(ran[r]) + 1
        <5>1. i \in 1 .. Len(ran[r])
          BY <4>1, <4>3
        <5>2. process'[p].arms[i] = a[i] /\ ran'[r][i] = ran[r][i]
          BY <4>1, <4>3, <1>12, <1>13
        <5> QED BY <5>1, <5>2, <1>5
      <4> QED BY <4>2, <4>3
    <3>2. \A o \in Process \ {p} : process'[o] # Idle => process'[o].request # r
      BY <1>5, <1>9
    <3>3. Len(process'[p].arms) = Len(ran'[r])
      BY <1>5, <1>12, <1>13
    <3>4. r \in Request /\ Admissible(r) /\ ClaimOf(r) \in claims' /\ receipts'[r] = None
      BY <1>2, <1>5
    <3> HIDE DEF r, a
    <3> QED BY <2>2, <1>10, <1>13, <3>1, <3>2, <3>3, <3>4 DEF Dispatching
  <2>3. CASE q # p
    <3>1. process'[q] = process[q]
      BY <1>9, <2>3
    <3>2. CASE process[q] = Idle
      BY <3>1, <3>2 DEF Dispatching
    <3>3. CASE process[q] # Idle
      <4> DEFINE s == process[q].request
      <4>1. s # r /\ s \in Request
        BY <3>3, <2>1, <2>3, <1>5 DEF Dispatching
      <4>2. ran'[s] = ran[s]
        BY <4>1, <1>8
      <4>3. \A o \in Process \ {q} : process'[o] # Idle => process'[o].request # s
        <5>1. \A o \in Process \ {q} : process[o] # Idle => process[o].request # s
          BY <3>3, <2>1 DEF Dispatching
        <5>2. process'[p].request # s
          BY <4>1, <1>10
        <5> QED BY <5>1, <5>2, <1>9
      <4>4. claims' = claims /\ receipts' = receipts
        BY <1>2
      <4> QED BY <3>1, <3>3, <2>1, <4>2, <4>3, <4>4 DEF Dispatching
    <3> QED BY <3>2, <3>3
  <2> QED BY <2>2, <2>3
<1>15. ASSUME NEW q \in Request PROVE Recorded(q)'
  <2>1. Recorded(q)
    BY DEF ReplayInv
  <2>2. CASE q = r
    <3>1. Len(ran'[r]) <= 2 /\ ran'[r] \in Seq(ArmRuns)
      BY <1>2, <1>5, <1>7, <1>12
    <3>2. \A i \in 1 .. Len(ran'[r]) : Sound(ran'[r][i])
      BY <1>6, <1>7, <1>12, <2>1, <2>2 DEF Recorded
    <3>3. receipts'[r] = None /\ completions'[r] = 0 /\ ClaimOf(r) \in claims'
      BY <1>2, <1>5, <2>1, <2>2 DEF Recorded
    <3> QED BY <2>2, <3>1, <3>2, <3>3 DEF Recorded
  <2>3. CASE q # r
    <3>1. ran'[q] = ran[q]
      BY <1>8, <2>3
    <3> QED BY <2>1, <3>1, <1>2 DEF Recorded
  <2> QED BY <2>2, <2>3
<1> QED BY <1>11, <1>14, <1>15 DEF ReplayInv

\* The receipt a run writes is of the two arms the provider ran.
LEMMA CompleteKeepsReplay ==
    ASSUME ReplayInv, NEW p \in Process, Complete(p)
    PROVE  ReplayInv'
<1> DEFINE r == process[p].request
<1> DEFINE a == process[p].arms
<1>1. /\ process[p].at = "dispatched" /\ Len(a) = 2
      /\ process' = [process EXCEPT ![p] = Idle]
      /\ UNCHANGED <<claims, ran>>
  BY DEF Complete
<1>2. Domains /\ Claims /\ Answered /\ Dispatching(p)
  BY DEF ReplayInv
<1>3. process[p] # Idle
  BY <1>1 DEF Idle
<1>4. /\ r \in Request /\ ClaimOf(r) \in claims /\ receipts[r] = None
      /\ a \in Seq(Verdicts) /\ Len(a) = Len(ran[r])
      /\ \A i \in 1 .. Len(ran[r]) : a[i] = ran[r][i].outcome
      /\ \A q \in Process \ {p} : process[q] # Idle => process[q].request # r
  BY <1>2, <1>3 DEF Dispatching
<1>5. Recorded(r)
  BY <1>4 DEF ReplayInv
<1> DEFINE receipt == Receipt(r, a)
<1>6. /\ receipts' = [receipts EXCEPT ![r] = receipt]
      /\ completions' = [completions EXCEPT ![r] = @ + 1]
      /\ told' = told \cup {[request |-> r, receipt |-> receipt]} \/ told' = told
  BY <1>4 DEF Complete, Kept, Answer
<1>7. a = <<ran[r][1].outcome, ran[r][2].outcome>>
  BY <1>1, <1>4
<1>8. ran[r][1].outcome \in Verdicts /\ ran[r][2].outcome \in Verdicts /\ Len(ran[r]) = 2
  BY <1>1, <1>4
<1>9. receipt # None
  BY <1>4, <1>7, <1>8, NoneAssumption DEF Verdicts
<1> HIDE DEF receipt
<1>10. receipts'[r] = receipt /\ completions'[r] = 1
  BY <1>2, <1>4, <1>5, <1>6 DEF Domains, Recorded
<1>11. \A q \in Request : q # r => receipts'[q] = receipts[q] /\ completions'[q] = completions[q]
  BY <1>2, <1>6 DEF Domains
<1>12. Domains' /\ Claims'
  BY <1>1, <1>2, <1>6 DEF Domains, Claims
<1>13. Answered'
  <2>1. ASSUME NEW t \in told
        PROVE  t.request \in Request /\ receipts'[t.request] # None /\ t.receipt = receipts'[t.request]
    <3>1. t.request \in Request /\ receipts[t.request] # None /\ t.receipt = receipts[t.request]
      BY <1>2 DEF Answered
    <3>2. t.request # r
      BY <3>1, <1>4
    <3> QED BY <3>1, <3>2, <1>11
  <2> DEFINE new == [request |-> r, receipt |-> receipt]
  <2>2. new.request \in Request /\ receipts'[new.request] # None /\ new.receipt = receipts'[new.request]
    BY <1>4, <1>9, <1>10
  <2> HIDE DEF new
  <2>3. told' = told \cup {new} \/ told' = told
    BY <1>6 DEF new
  <2> QED BY <2>1, <2>2, <2>3 DEF Answered
<1>14. ASSUME NEW q \in Process PROVE Dispatching(q)'
  <2>1. Dispatching(q)
    BY DEF ReplayInv
  <2>2. CASE q = p \/ process[q] = Idle
    <3>1. process'[q] = Idle
      BY <2>2, <1>1, <1>2 DEF Domains
    <3> QED BY <3>1 DEF Dispatching
  <2>3. CASE q # p /\ process[q] # Idle
    <3>1. process'[q] = process[q] /\ \A o \in Process : process'[o] = process[o] \/ process'[o] = Idle
      BY <2>3, <1>1, <1>2 DEF Domains
    <3>2. process[q].request \in Request /\ process[q].request # r
      BY <2>1, <2>3, <1>4 DEF Dispatching
    <3>3. receipts'[process[q].request] = receipts[process[q].request]
      BY <3>2, <1>11
    <3> QED BY <2>1, <2>3, <3>1, <3>3, <1>1 DEF Dispatching
  <2> QED BY <2>2, <2>3
<1>15. ASSUME NEW q \in Request PROVE Recorded(q)'
  <2>1. Recorded(q)
    BY DEF ReplayInv
  <2>2. CASE q = r
    <3>1. receipt = Receipt(r, <<ran[r][1].outcome, ran[r][2].outcome>>)
      BY <1>7 DEF receipt
    <3> QED BY <2>1, <2>2, <3>1, <1>1, <1>4, <1>8, <1>9, <1>10 DEF Recorded
  <2>3. CASE q # r
    BY <2>1, <2>3, <1>1, <1>11 DEF Recorded
  <2> QED BY <2>2, <2>3
<1> QED BY <1>12, <1>13, <1>14, <1>15 DEF ReplayInv

\* A step of the replay keeps its invariant.
LEMMA ReplayIsKept ==
    ASSUME ReplayInv, [Next]_vars
    PROVE  ReplayInv'
<1>1. CASE UNCHANGED vars
  <2>1. Domains' /\ Claims' /\ Answered'
    BY <1>1 DEF ReplayInv, Domains, Claims, Answered, vars
  <2>2. \A q \in Process : Dispatching(q)'
    BY <1>1 DEF ReplayInv, Dispatching, vars
  <2>3. \A r \in Request : Recorded(r)'
    BY <1>1 DEF ReplayInv, Recorded, vars
  <2> QED BY <2>1, <2>2, <2>3 DEF ReplayInv
<1>2. CASE Next
  <2>1. PICK p \in Process :
          \/ \E r \in Request : Claim(p, r) \/ Replay(p, r)
          \/ RunArm(p) \/ Complete(p) \/ Stop(p)
    BY <1>2 DEF Next
  <2>2. ASSUME NEW r \in Request, Claim(p, r) PROVE ReplayInv'
    BY <2>2, ClaimKeepsReplay
  <2>3. ASSUME NEW r \in Request, Replay(p, r) PROVE ReplayInv'
    BY <2>3, ReplayKeepsReplay
  <2>4. CASE RunArm(p)
    BY <2>4, RunArmKeepsReplay
  <2>5. CASE Complete(p)
    BY <2>5, CompleteKeepsReplay
  <2>6. CASE Stop(p)
    BY <2>6, StopKeepsReplay
  <2> QED BY <2>1, <2>2, <2>3, <2>4, <2>5, <2>6
<1> QED BY <1>1, <1>2
-----------------------------------------------------------------------------
(* The invariant of the reduction *)

\* The pairs of a cell, and those of them whose candidate or whose incumbent completed.
Here(S, c)         == {r \in S : Cell[r] = c}
Completing(S, c, i) == {r \in Here(S, c) : receipts[r].arms[i] = "completed"}

\* What a bundle says of a cell are counts of the pairs in it.
CountsOf(b, S, c) ==
    b.buckets[c] = [completed |-> Cardinality(Here(S, c)), candidate |-> Cardinality(Completing(S, c, 1)),
                    incumbent |-> Cardinality(Completing(S, c, 2)), codes |-> b.buckets[c].codes]

\* There are pairs a founded bundle counts.
LEMMA BundleCounts ==
    ASSUME NEW b, Founded(b)
    PROVE  \E S \in SUBSET Request :
             /\ \A r \in S : receipts[r] # None /\ receipts[r].eligible
             /\ \A c \in DOMAIN b.buckets : CountsOf(b, S, c)
<1>1. PICK S \in SUBSET Request, fault \in Faults \cup {None} :
        /\ \A r \in S : receipts[r] # None /\ receipts[r].eligible
        /\ b.buckets = [c \in {Cell[r] : r \in S} |-> BucketSummary(S, fault, c)]
  BY DEF Founded
<1>2. ASSUME NEW c \in DOMAIN b.buckets PROVE CountsOf(b, S, c)
  <2>1. b.buckets[c] = BucketSummary(S, fault, c)
    BY <1>1
  <2>2. BucketSummary(S, fault, c) =
          [completed |-> Cardinality(Here(S, c)), candidate |-> Cardinality(Completing(S, c, 1)),
           incumbent |-> Cardinality(Completing(S, c, 2)), codes |-> CodesAt(fault, c.family, c.bucket)]
    BY DEF BucketSummary, Count, Here, Completing
  <2> QED BY <2>1, <2>2 DEF CountsOf
<1> QED BY <1>1, <1>2

\* Pairs are finitely many.
LEMMA PairsAreFinite ==
    ASSUME NEW S \in SUBSET Request, NEW c
    PROVE  /\ IsFiniteSet(Here(S, c)) /\ Cardinality(Here(S, c)) \in Nat
           /\ \A i \in 1 .. 2 : /\ IsFiniteSet(Completing(S, c, i)) /\ Cardinality(Completing(S, c, i)) \in Nat
<1>1. Here(S, c) \subseteq Request /\ \A i \in 1 .. 2 : Completing(S, c, i) \subseteq Request
  BY DEF Here, Completing
<1>2. \A T \in SUBSET Request : IsFiniteSet(T) /\ Cardinality(T) \in Nat
  BY RequestsFinite, FS_Subset, FS_CardinalityType
<1> QED BY <1>1, <1>2

\* The counts of a bundle are numbers.
LEMMA BundleTyped ==
    ASSUME NEW b, Founded(b), NEW c \in DOMAIN b.buckets
    PROVE  /\ b.buckets[c] = [completed |-> b.buckets[c].completed, candidate |-> b.buckets[c].candidate,
                              incumbent |-> b.buckets[c].incumbent, codes |-> b.buckets[c].codes]
           /\ b.buckets[c].completed \in Nat /\ b.buckets[c].candidate \in Nat
           /\ b.buckets[c].incumbent \in Nat
<1>1. PICK S \in SUBSET Request : CountsOf(b, S, c)
  BY BundleCounts
<1>2. /\ Cardinality(Here(S, c)) \in Nat
      /\ Cardinality(Completing(S, c, 1)) \in Nat /\ Cardinality(Completing(S, c, 2)) \in Nat
  BY PairsAreFinite
<1> QED BY <1>1, <1>2 DEF CountsOf

\* When a reduction is ready, and when it rejects.
LEMMA ReadyMeans ==
    ASSUME NEW b, NEW p, NEW s, NEW now
    PROVE  /\ Disposition(b, p, s, now) = "promotion_ready" <=>
                Recognized(b, p) = {} /\ ~Unavailable(b, p, s, now) /\ ~MetricFailure(b, p)
           /\ Disposition(b, p, s, now) = "rejected" <=>
                \/ Recognized(b, p) # {}
                \/ ~Unavailable(b, p, s, now) /\ MetricFailure(b, p)
  BY DEF Disposition

\* Evidence that is not unavailable is there, current and clean.
LEMMA AvailableCounts ==
    ASSUME NEW b, NEW p, NEW s, NEW now, ~Unavailable(b, p, s, now)
    PROVE  Counts(b, p)
  BY DEF Unavailable, EvidenceStale, Counts

\* The bundle of a caller counts eligible receipts.
LEMMA CollectIsFounded ==
    ASSUME NEW S \in SUBSET Request, NEW policy, NEW fault \in Faults \cup {None},
           Collect(S, policy, fault), UNCHANGED vars
    PROVE  Founded(bundle)' /\ Shaped(bundle)'
<1>1. /\ \A r \in S : receipts[r] # None /\ receipts[r].eligible
      /\ BundleHolds(Bundle(S, policy, fault))
      /\ bundle' = Bundle(S, policy, fault)
      /\ receipts' = receipts
  BY DEF Collect, vars
<1>2. bundle' = [at |-> clock, scope |-> scope, policy |-> policy, codes |-> CodesAt(fault, None, None),
                 families |-> [f \in {Cell[r].family : r \in S} |-> FamilySummary(S, fault, f)],
                 buckets  |-> [c \in {Cell[r] : r \in S} |-> BucketSummary(S, fault, c)]]
  BY <1>1 DEF Bundle
<1>3. bundle'.buckets = [c \in {Cell[r] : r \in S} |-> BucketSummary(S, fault, c)]
  BY <1>2
<1>4. [c \in {Cell[r] : r \in S} |-> BucketSummary(S, fault, c)]
        = [c \in {Cell[r] : r \in S} |-> BucketSummary(S, fault, c)']
  <2>1. \A c : BucketSummary(S, fault, c) = BucketSummary(S, fault, c)'
    BY <1>1 DEF BucketSummary, Count, CodesAt
  <2> QED BY <2>1
<1>5. Founded(bundle)'
  <2>1. \A r \in S : receipts'[r] # None /\ receipts'[r].eligible
    BY <1>1
  <2> QED BY <1>3, <1>4, <2>1 DEF Founded
<1>6. bundle' = [at |-> bundle'.at, scope |-> bundle'.scope, policy |-> bundle'.policy,
                 codes |-> bundle'.codes, families |-> bundle'.families, buckets |-> bundle'.buckets]
  BY <1>2
<1>7. BundleHolds(bundle)'
  BY <1>1 DEF BundleHolds
<1> QED BY <1>5, <1>6, <1>7 DEF Shaped

\* There is no evidence at the start.
LEMMA EvidenceStarts == EvidenceInit => EvidenceInv
<1> SUFFICES ASSUME EvidenceInit PROVE EvidenceInv
  OBVIOUS
<1>1. ReplayInv
  BY ReplayStarts DEF EvidenceInit
<1> QED BY <1>1 DEF EvidenceInit, EvidenceInv

\* A bundle stands while the receipts it counts do.
LEMMA BundleStands ==
    ASSUME EvidenceInv, UNCHANGED vars, UNCHANGED bundle, bundle # None
    PROVE  Founded(bundle)' /\ Shaped(bundle)'
<1>1. Founded(bundle) /\ Shaped(bundle)
  BY DEF EvidenceInv
<1>2. \A S, fault, c : BucketSummary(S, fault, c)' = BucketSummary(S, fault, c)
  BY DEF BucketSummary, Count, CodesAt, vars
<1>3. PICK S \in SUBSET Request, fault \in Faults \cup {None} :
        /\ \A r \in S : receipts[r] # None /\ receipts[r].eligible
        /\ bundle.buckets = [c \in {Cell[r] : r \in S} |-> BucketSummary(S, fault, c)]
  BY <1>1 DEF Founded
<1>4. /\ \A r \in S : receipts'[r] # None /\ receipts'[r].eligible
      /\ bundle'.buckets = [c \in {Cell[r] : r \in S} |-> BucketSummary(S, fault, c)']
  <2>1. [c \in {Cell[r] : r \in S} |-> BucketSummary(S, fault, c)]
          = [c \in {Cell[r] : r \in S} |-> BucketSummary(S, fault, c)']
    BY <1>2
  <2> QED BY <1>3, <2>1 DEF vars
<1>5. Founded(bundle)'
  BY <1>4 DEF Founded
<1>6. Shaped(bundle)'
  BY <1>1 DEF Shaped, BundleHolds
<1> QED BY <1>5, <1>6

\* A step of the replay or of the reduction keeps the invariant.
LEMMA EvidenceIsKept ==
    ASSUME EvidenceInv, [EvidenceNext]_<<vars, evidence>>
    PROVE  EvidenceInv'
<1>1. ReplayInv'
  <2>1. [Next]_vars
    BY DEF EvidenceNext
  <2>2. ReplayInv
    BY DEF EvidenceInv
  <2> QED BY <2>1, <2>2, ReplayIsKept
<1>2. CASE UNCHANGED evidence /\ bundle = None
  BY <1>1, <1>2 DEF EvidenceInv, evidence
<1>3. ASSUME UNCHANGED vars, bundle # None, UNCHANGED bundle
      PROVE  Founded(bundle)' /\ Shaped(bundle)'
  BY <1>3, BundleStands
<1>4. CASE UNCHANGED vars /\ UNCHANGED <<bundle, disposition>>
  <2>1. CASE disposition = None
    BY <2>1, <1>1, <1>3, <1>4 DEF EvidenceInv
  <2>2. CASE disposition # None
    <3>1. Says(disposition)'
      <4>1. Says(disposition)
        BY <2>2 DEF EvidenceInv
      <4> QED BY <4>1, <1>4
    <3> QED BY <2>2, <3>1, <1>1, <1>3, <1>4 DEF EvidenceInv
  <2> QED BY <2>1, <2>2
<1>5. ASSUME UNCHANGED vars, NEW S \in SUBSET Request, NEW p \in Policies, NEW f \in Faults \cup {None},
             Collect(S, p, f)
      PROVE  EvidenceInv'
  <2>1. Founded(bundle)' /\ Shaped(bundle)'
    BY <1>5, CollectIsFounded
  <2>2. disposition' = None
    BY <1>5 DEF Collect, EvidenceInv
  <2> QED BY <2>1, <2>2, <1>1 DEF EvidenceInv
<1>6. ASSUME UNCHANGED vars, NEW p \in Policies, Reduce(p)
      PROVE  EvidenceInv'
  <2> DEFINE d == [bundle |-> bundle, policy |-> p, result |-> Disposition(bundle, p, scope, clock)]
  <2>1. disposition' = d /\ bundle' = bundle /\ bundle # None
    BY <1>6 DEF Reduce
  <2>2. Says(d)
    <3>1. /\ d.result = "promotion_ready" <=>
                Recognized(bundle, p) = {} /\ ~Unavailable(bundle, p, scope, clock) /\ ~MetricFailure(bundle, p)
          /\ d.result = "rejected" <=>
                \/ Recognized(bundle, p) # {}
                \/ ~Unavailable(bundle, p, scope, clock) /\ MetricFailure(bundle, p)
      BY ReadyMeans
    <3>2. ~Unavailable(bundle, p, scope, clock) => Counts(bundle, p)
      BY AvailableCounts
    <3>3. d.bundle = bundle /\ d.policy = p
      OBVIOUS
    <3> HIDE DEF d
    <3> QED BY <3>1, <3>2, <3>3 DEF Says
  <2>3. Says(disposition)'
    <3> HIDE DEF d
    <3> QED BY <2>1, <2>2
  <2>4. disposition'.bundle = bundle' /\ disposition'.policy \in Policies
    BY <2>1
  <2> QED BY <2>1, <2>3, <2>4, <1>1, <1>3, <1>6 DEF EvidenceInv
<1>7. EvidenceNext \/ UNCHANGED <<vars, evidence>>
  OBVIOUS
<1>8. CASE UNCHANGED <<vars, evidence>>
  BY <1>4, <1>8 DEF evidence
<1>9. CASE EvidenceNext
  <2>1. CASE Tick \/ Activated
    BY <2>1, <1>9, <1>4 DEF Tick, Activated, EvidenceNext, Next
  <2> QED BY <1>2, <1>5, <1>6, <1>9, <2>1 DEF EvidenceNext
<1> QED BY <1>7, <1>8, <1>9
-----------------------------------------------------------------------------
(* The invariant, and what it says of the replay *)

\* The invariants of the replay of pairs and of the reduction of what it kept hold together.
THEOREM InvariantHolds == EvidenceSpec => []EvidenceInv
<1>1. EvidenceInit => EvidenceInv
  BY EvidenceStarts
<1>2. EvidenceInv /\ [EvidenceNext]_<<vars, evidence>> => EvidenceInv'
  BY EvidenceIsKept
<1> QED BY <1>1, <1>2, PTL DEF EvidenceSpec

\* A request is dispatched to the provider once: neither a repetition, a concurrent caller
\* nor a process that stopped after the claim makes an arm run again.
THEOREM PairsRunOnce == EvidenceSpec => []DispatchedOnce
<1>1. EvidenceInv => DispatchedOnce
  BY DEF EvidenceInv, ReplayInv, Recorded, DispatchedOnce
<1> QED BY <1>1, InvariantHolds, PTL

\* Everybody who is told the result of a request is told what the ledger holds, which is what
\* the provider did, with one completion event, under a key no other request has.
THEOREM AnswersHold == EvidenceSpec => []AnswersAreTheReceipt
<1>1. ASSUME EvidenceInv PROVE AnswersAreTheReceipt
  <2>1. \A t \in told : t.receipt = receipts[t.request]
    BY <1>1 DEF EvidenceInv, ReplayInv, Answered
  <2>2. ASSUME NEW r \in Request, receipts[r] # None
        PROVE  completions[r] = 1 /\ receipts[r].arms = [i \in 1..2 |-> ran[r][i].outcome]
    <3>1. Recorded(r)
      BY <1>1 DEF EvidenceInv, ReplayInv
    <3>2. completions[r] = 1 /\ receipts[r] = Receipt(r, <<ran[r][1].outcome, ran[r][2].outcome>>)
      BY <3>1, <2>2 DEF Recorded
    <3>3. receipts[r].arms = <<ran[r][1].outcome, ran[r][2].outcome>>
      BY <3>2 DEF Receipt
    <3> QED BY <3>2, <3>3
  <2>3. \A c, d \in claims : c.key = d.key => c = d
    BY <1>1 DEF EvidenceInv, ReplayInv, Claims
  <2> QED BY <2>1, <2>2, <2>3 DEF AnswersAreTheReceipt
<1> QED BY <1>1, InvariantHolds, PTL

-----------------------------------------------------------------------------
(* What a disposition rests on *)

\* A product grows with either factor.
LEMMA ProductGrows ==
    ASSUME NEW a \in Nat, NEW b \in Nat, NEW d \in Nat, a <= b
    PROVE  a * d <= b * d /\ d * a <= d * b
<1>1. PICK k \in Nat : b = a + k
  BY b - a \in Nat
<1>2. b * d = a * d + k * d /\ d * b = d * a + d * k
  BY <1>1
<1>3. k * d \in Nat /\ d * k \in Nat /\ a * d \in Nat /\ d * a \in Nat
  OBVIOUS
<1> QED BY <1>2, <1>3

\* The rules of a policy are of numbers.
LEMMA RulesTyped ==
    ASSUME NEW p \in Policies, NEW c \in Required(p)
    PROVE  /\ p.rules[c.bucket].minimum \in Nat
           /\ RatioHolds(p.rules[c.bucket].pass) /\ RatioHolds(p.rules[c.bucket].fail)
           /\ RatioHolds(p.rules[c.bucket].gap)
  BY PoliciesHold DEF PolicyHolds, Required

\* An eligible receipt is of two arms that ran on nothing but the fixture.
LEMMA EligibleIsInert ==
    ASSUME EvidenceInv, NEW r \in Request, receipts[r] # None, receipts[r].eligible
    PROVE  /\ Len(ran[r]) = 2 /\ ran[r][1].inert /\ ran[r][2].inert
           /\ receipts[r].arms[1] = ran[r][1].outcome
           /\ ran[r][1].outcome \in {"completed", "deterministic_failure"}
<1>1. Recorded(r)
  BY DEF EvidenceInv, ReplayInv
<1> DEFINE a == <<ran[r][1].outcome, ran[r][2].outcome>>
<1>2. Len(ran[r]) = 2 /\ receipts[r] = Receipt(r, a)
  BY <1>1 DEF Recorded
<1>3. Sound(ran[r][1]) /\ Sound(ran[r][2])
  BY <1>1, <1>2 DEF Recorded
<1>4. receipts[r].arms = a /\ Eligible(a[1]) /\ Eligible(a[2])
  <2>1. receipts[r].arms = a /\ receipts[r].eligible = \A i \in DOMAIN a : Eligible(a[i])
    BY <1>2 DEF Receipt
  <2>2. 1 \in DOMAIN a /\ 2 \in DOMAIN a
    OBVIOUS
  <2> QED BY <2>1, <2>2
<1> QED BY <1>2, <1>3, <1>4 DEF Sound, Eligible

\* What covers a bundle covers its required cells, and their codes are codes that count.
LEMMA CoveredCell ==
    ASSUME NEW b, NEW p, Counts(b, p), NEW c \in Required(p)
    PROVE  /\ c \in DOMAIN b.buckets /\ b.buckets[c].completed >= p.rules[c.bucket].minimum
           /\ BucketCovered(b, p, c)
           /\ b.buckets[c].codes \subseteq Codes(b, p)
           /\ b.buckets[c].codes \cap Unavailability = {}
<1>1. BucketCovered(b, p, c) /\ Codes(b, p) \cap Unavailability = {}
  BY DEF Counts, Covered
<1>2. c \in DOMAIN b.buckets /\ b.buckets[c].completed >= p.rules[c.bucket].minimum
  BY <1>1 DEF BucketCovered
<1>3. b.buckets[c].codes \subseteq Codes(b, p)
  <2> DEFINE all == {b.buckets[e].codes : e \in Required(p) \cap DOMAIN b.buckets}
  <2>1. b.buckets[c].codes \in all
    BY <1>2
  <2>2. b.buckets[c].codes \subseteq UNION all
    BY <2>1
  <2>3. UNION all \subseteq Codes(b, p)
    BY DEF Codes
  <2> QED BY <2>2, <2>3
<1> QED BY <1>1, <1>2, <1>3

\* Readiness rests on replay that ran: behind a disposition that is promotion_ready, in every
\* cell its policy requires, are as many pairs as it asks for whose two arms dispatched
\* nothing live and kept to their fixture and bounds, and whose candidate passed as often.
THEOREM ReadinessIsEarned == EvidenceSpec => []ReadyRestsOnReplay
<1>1. ASSUME EvidenceInv PROVE ReadyRestsOnReplay
  <2> DEFINE b == disposition.bundle
  <2> DEFINE p == disposition.policy
  <2>1. SUFFICES ASSUME disposition # None, disposition.result = "promotion_ready",
                        NEW c \in Required(p)
        PROVE  LET rule  == p.rules[c.bucket]
                   inert == {r \in Request : Cell[r] = c /\ Len(ran[r]) = 2 /\ ran[r][1].inert /\ ran[r][2].inert}
                   passed == {r \in inert : ran[r][1].outcome = "completed"}
               IN  /\ Cardinality(inert) >= rule.minimum
                   /\ Cardinality(passed) * rule.pass.d >= rule.minimum * rule.pass.n
    BY DEF ReadyRestsOnReplay
  <2>2. /\ p \in Policies /\ Founded(b) /\ Shaped(b)
        /\ Counts(b, p) /\ ~MetricFailure(b, p)
    BY <1>1, <2>1 DEF EvidenceInv, Says
  <2> HIDE DEF b, p
  <2> DEFINE rule == p.rules[c.bucket]
  <2> DEFINE inert == {r \in Request : Cell[r] = c /\ Len(ran[r]) = 2 /\ ran[r][1].inert /\ ran[r][2].inert}
  <2> DEFINE passed == {r \in inert : ran[r][1].outcome = "completed"}
  <2>3. /\ c \in DOMAIN b.buckets /\ b.buckets[c].completed >= rule.minimum
        /\ BucketCovered(b, p, c) /\ b.buckets[c].codes \cap Unavailability = {}
    BY <2>2, CoveredCell
  <2>4. MetricsHold(b.buckets[c], rule)
    BY <2>2, <2>3 DEF MetricFailure
  <2>5. PICK S \in SUBSET Request :
          /\ \A r \in S : receipts[r] # None /\ receipts[r].eligible
          /\ CountsOf(b, S, c)
    BY <2>2, <2>3, BundleCounts
  <2>6. Here(S, c) \subseteq inert /\ Completing(S, c, 1) \subseteq passed
    <3>1. \A r \in S : /\ Len(ran[r]) = 2 /\ ran[r][1].inert /\ ran[r][2].inert
                       /\ receipts[r].arms[1] = ran[r][1].outcome
      BY <1>1, <2>5, EligibleIsInert
    <3> QED BY <3>1 DEF Here, Completing
  <2>7. IsFiniteSet(inert) /\ IsFiniteSet(passed)
    <3>1. inert \subseteq Request /\ passed \subseteq Request
      OBVIOUS
    <3> HIDE DEF inert, passed
    <3> QED BY <3>1, RequestsFinite, FS_Subset
  <2> HIDE DEF rule, inert, passed
  <2>8. /\ Cardinality(Here(S, c)) <= Cardinality(inert)
        /\ Cardinality(Completing(S, c, 1)) <= Cardinality(passed)
        /\ Cardinality(inert) \in Nat /\ Cardinality(passed) \in Nat
        /\ Cardinality(Here(S, c)) \in Nat /\ Cardinality(Completing(S, c, 1)) \in Nat
    BY <2>6, <2>7, FS_Subset, FS_CardinalityType, PairsAreFinite
  <2>9. rule.minimum \in Nat /\ rule.pass.d \in Nat /\ rule.pass.n \in Nat
    <3>1. rule.minimum \in Nat /\ RatioHolds(rule.pass)
      BY <2>2, RulesTyped DEF rule
    <3> QED BY <3>1 DEF RatioHolds
  <2>10. /\ b.buckets[c].completed = Cardinality(Here(S, c))
         /\ b.buckets[c].candidate = Cardinality(Completing(S, c, 1))
    BY <2>5 DEF CountsOf
  <2>11. Cardinality(inert) >= rule.minimum
    BY <2>3, <2>8, <2>9, <2>10
  <2>12. Cardinality(Completing(S, c, 1)) * rule.pass.d >= Cardinality(Here(S, c)) * rule.pass.n
    BY <2>4, <2>10 DEF MetricsHold
  <2>13. /\ Cardinality(Completing(S, c, 1)) * rule.pass.d <= Cardinality(passed) * rule.pass.d
         /\ rule.minimum * rule.pass.n <= Cardinality(Here(S, c)) * rule.pass.n
    <3>1. rule.minimum <= Cardinality(Here(S, c))
      BY <2>3, <2>8, <2>9, <2>10
    <3> QED BY <3>1, <2>8, <2>9, ProductGrows
  <2>14. Cardinality(passed) * rule.pass.d >= rule.minimum * rule.pass.n
    <3> DEFINE w == Cardinality(passed) * rule.pass.d
    <3> DEFINE x == Cardinality(Completing(S, c, 1)) * rule.pass.d
    <3> DEFINE y == Cardinality(Here(S, c)) * rule.pass.n
    <3> DEFINE z == rule.minimum * rule.pass.n
    <3>1. w \in Int /\ x \in Int /\ y \in Int /\ z \in Int
      BY <2>8, <2>9
    <3>2. x <= w /\ z <= y /\ x >= y
      BY <2>12, <2>13
    <3> HIDE DEF w, x, y, z
    <3>3. w >= z
      BY <3>1, <3>2
    <3> QED BY <3>3 DEF w, z
  <2> QED BY <2>11, <2>14 DEF rule, inert, passed
<1> QED BY <1>1, InvariantHolds, PTL

\* "Provider or infrastructure exhaustion is unavailable or stopped and never candidate harm"
\* (docs/adr/0008:26): a candidate is rejected for a hard failure its policy names, or, on
\* evidence that lacks nothing the policy requires, for a pair that ran on nothing but its
\* fixture and whose candidate did not complete.
THEOREM RejectionIsEarned == EvidenceSpec => []RejectionRestsOnHarm
<1>1. ASSUME EvidenceInv PROVE RejectionRestsOnHarm
  <2> DEFINE b == disposition.bundle
  <2> DEFINE p == disposition.policy
  <2>1. SUFFICES ASSUME disposition # None, disposition.result = "rejected", Recognized(b, p) = {}
        PROVE  /\ p.approved /\ b.policy = p /\ Codes(b, p) = {} /\ Covered(b, p)
               /\ \E r \in Request :
                    /\ Cell[r] \in Required(p) /\ Len(ran[r]) = 2
                    /\ ran[r][1].inert /\ ran[r][2].inert
                    /\ ran[r][1].outcome = "deterministic_failure"
    BY DEF RejectionRestsOnHarm
  <2>2. /\ p \in Policies /\ Founded(b) /\ Shaped(b)
        /\ Counts(b, p) /\ MetricFailure(b, p)
    BY <1>1, <2>1 DEF EvidenceInv, Says
  <2>3. Recognized(b, p) = {}
    BY <2>1
  <2> HIDE DEF b, p
  <2>4. Codes(b, p) = {}
    <3>1. Codes(b, p) \subseteq Unavailability \cup HardFailures
      BY <2>2 DEF Shaped, BundleHolds, Codes
    <3>2. /\ Codes(b, p) \cap Unavailability = {} /\ Codes(b, p) \cap p.hard = {}
          /\ (Codes(b, p) \cap HardFailures) \ p.hard = {}
      BY <2>2, <2>3 DEF Counts, Recognized, Unrecognized
    <3> QED BY <3>1, <3>2
  <2>5. PICK c \in Required(p) : BucketCovered(b, p, c) /\ ~MetricsHold(b.buckets[c], p.rules[c.bucket])
    BY <2>2 DEF MetricFailure
  <2> DEFINE rule == p.rules[c.bucket]
  <2>6. c \in DOMAIN b.buckets
    BY <2>5 DEF BucketCovered
  <2>7. PICK S \in SUBSET Request :
          /\ \A r \in S : receipts[r] # None /\ receipts[r].eligible
          /\ CountsOf(b, S, c)
    BY <2>2, <2>6, BundleCounts
  <2>8. \E r \in Here(S, c) : receipts[r].arms[1] # "completed"
    <3>1. SUFFICES ASSUME Completing(S, c, 1) = Here(S, c) PROVE FALSE
      BY DEF Completing
    <3> DEFINE n == b.buckets[c].completed
    <3> DEFINE m == b.buckets[c].incumbent
    <3>2. b.buckets[c].candidate = n
      BY <2>7, <3>1 DEF CountsOf
    <3>3. n \in Nat /\ m \in Nat
      BY <2>2, <2>6, BundleTyped
    <3>4. m <= n
      BY <2>2, <2>6 DEF Shaped, BundleHolds
    <3>5. /\ RatioHolds(rule.pass) /\ RatioHolds(rule.fail) /\ RatioHolds(rule.gap)
      BY <2>2, RulesTyped
    <3>6. ~MetricsHold(b.buckets[c], rule)
      BY <2>5
    <3> HIDE DEF n, m, rule
    <3>7. n * rule.pass.d >= n * rule.pass.n
      BY <3>3, <3>5, ProductGrows DEF RatioHolds
    <3>8. (n - n) * rule.fail.d <= n * rule.fail.n
      <4>1. n * rule.fail.n \in Nat /\ n - n = 0 /\ 0 * rule.fail.d = 0
        BY <3>3, <3>5 DEF RatioHolds
      <4> QED BY <4>1
    <3>9. n * rule.gap.d + rule.gap.n * n >= m * rule.gap.d
      <4>1. m * rule.gap.d <= n * rule.gap.d
        BY <3>3, <3>4, <3>5, ProductGrows DEF RatioHolds
      <4>2. n * rule.gap.d \in Nat /\ rule.gap.n * n \in Nat /\ m * rule.gap.d \in Nat
        BY <3>3, <3>5 DEF RatioHolds
      <4> QED BY <4>1, <4>2
    <3>10. MetricsHold(b.buckets[c], rule)
      BY <3>2, <3>7, <3>8, <3>9 DEF MetricsHold, n, m
    <3> QED BY <3>6, <3>10
  <2>9. PICK r \in Request :
          Cell[r] = c /\ receipts[r] # None /\ receipts[r].eligible /\ receipts[r].arms[1] # "completed"
    BY <2>7, <2>8 DEF Here
  <2>10. /\ Len(ran[r]) = 2 /\ ran[r][1].inert /\ ran[r][2].inert
         /\ ran[r][1].outcome = "deterministic_failure"
    BY <1>1, <2>9, EligibleIsInert
  <2> QED BY <2>2, <2>4, <2>5, <2>9, <2>10 DEF Counts
<1> QED BY <1>1, InvariantHolds, PTL

-----------------------------------------------------------------------------
(* Worse evidence *)

\* A bundle that says no better of the candidate than another: of no more families and cells,
\* with no fewer codes, no more passes of the candidate and no fewer of the incumbent.
NoBetter(w, b) ==
    /\ w.at = b.at /\ w.scope = b.scope /\ w.policy = b.policy
    /\ b.codes \subseteq w.codes
    /\ DOMAIN w.families \subseteq DOMAIN b.families
    /\ \A f \in DOMAIN w.families : w.families[f] = b.families[f]
    /\ DOMAIN w.buckets \subseteq DOMAIN b.buckets
    /\ \A c \in DOMAIN w.buckets :
         /\ w.buckets[c].completed = b.buckets[c].completed
         /\ w.buckets[c].candidate \in Nat /\ w.buckets[c].candidate <= b.buckets[c].candidate
         /\ w.buckets[c].incumbent \in Nat /\ w.buckets[c].incumbent >= b.buckets[c].incumbent
         /\ b.buckets[c].codes \subseteq w.buckets[c].codes

\* Metrics that hold of a cell hold of one that is no worse.
LEMMA MetricsAreMonotone ==
    ASSUME NEW p \in Policies, NEW c \in Required(p),
           NEW completed \in Nat, NEW x \in Nat, NEW y \in Nat, NEW i \in Nat, NEW j \in Nat,
           y <= x, i <= j,
           NEW k, NEW l,
           MetricsHold([completed |-> completed, candidate |-> y, incumbent |-> j, codes |-> k],
                       p.rules[c.bucket])
    PROVE  MetricsHold([completed |-> completed, candidate |-> x, incumbent |-> i, codes |-> l],
                       p.rules[c.bucket])
<1> DEFINE rule == p.rules[c.bucket]
<1>1. /\ rule.pass.d \in Nat /\ rule.pass.n \in Nat /\ rule.fail.d \in Nat /\ rule.fail.n \in Nat
      /\ rule.gap.d \in Nat /\ rule.gap.n \in Nat
  <2>1. RatioHolds(rule.pass) /\ RatioHolds(rule.fail) /\ RatioHolds(rule.gap)
    BY RulesTyped
  <2> HIDE DEF rule
  <2> QED BY <2>1 DEF RatioHolds
<1> HIDE DEF rule
<1>2. /\ y * rule.pass.d >= completed * rule.pass.n
      /\ (completed - y) * rule.fail.d <= completed * rule.fail.n
      /\ y * rule.gap.d + rule.gap.n * completed >= j * rule.gap.d
  BY DEF MetricsHold, rule
<1>3. /\ y * rule.pass.d <= x * rule.pass.d /\ y * rule.gap.d <= x * rule.gap.d
      /\ y * rule.fail.d <= x * rule.fail.d /\ i * rule.gap.d <= j * rule.gap.d
  BY <1>1, ProductGrows
<1>4. x * rule.pass.d >= completed * rule.pass.n
  <2>1. x * rule.pass.d \in Nat /\ y * rule.pass.d \in Nat /\ completed * rule.pass.n \in Nat
    BY <1>1
  <2> QED BY <2>1, <1>2, <1>3
<1>5. (completed - x) * rule.fail.d <= completed * rule.fail.n
  <2>1. /\ (completed - x) * rule.fail.d = completed * rule.fail.d - x * rule.fail.d
        /\ (completed - y) * rule.fail.d = completed * rule.fail.d - y * rule.fail.d
    BY <1>1
  <2>2. /\ completed * rule.fail.d \in Nat /\ x * rule.fail.d \in Nat /\ y * rule.fail.d \in Nat
        /\ completed * rule.fail.n \in Nat
    BY <1>1
  <2> QED BY <2>1, <2>2, <1>2, <1>3
<1>6. x * rule.gap.d + rule.gap.n * completed >= i * rule.gap.d
  <2>1. /\ x * rule.gap.d \in Nat /\ y * rule.gap.d \in Nat /\ i * rule.gap.d \in Nat
        /\ j * rule.gap.d \in Nat /\ rule.gap.n * completed \in Nat
    BY <1>1
  <2> QED BY <2>1, <1>2, <1>3
<1> QED BY <1>4, <1>5, <1>6 DEF MetricsHold, rule

\* A reduction that is ready on a bundle is ready on one that is no worse.
LEMMA NoBetterNeverPromotes ==
    ASSUME NEW b, Founded(b), NEW w, NoBetter(w, b), NEW p \in Policies, NEW s, NEW now,
           Disposition(w, p, s, now) = "promotion_ready"
    PROVE  Disposition(b, p, s, now) = "promotion_ready"
<1>1. Recognized(w, p) = {} /\ ~Unavailable(w, p, s, now) /\ ~MetricFailure(w, p)
  BY ReadyMeans
<1>2. /\ p.approved /\ ~EvidenceStale(w, p, now) /\ ~LineageStale(w, s)
      /\ Covered(w, p) /\ Codes(w, p) \cap Unavailability = {} /\ Unrecognized(w, p) = {}
  BY <1>1 DEF Unavailable
<1>3. ~EvidenceStale(b, p, now) /\ ~LineageStale(b, s)
  BY <1>2 DEF EvidenceStale, LineageStale, NoBetter
<1>4. /\ \A f \in p.families : f \in DOMAIN w.families /\ f \in DOMAIN b.families /\ w.families[f] = b.families[f]
      /\ \A c \in Required(p) : c \in DOMAIN w.buckets /\ c \in DOMAIN b.buckets
  BY <1>2 DEF Covered, FamilyCovered, BucketCovered, NoBetter
<1>5. Covered(b, p)
  <2>1. ASSUME NEW f \in p.families PROVE FamilyCovered(b, p, f)
    BY <1>2, <1>4 DEF Covered, FamilyCovered
  <2>2. ASSUME NEW c \in Required(p) PROVE BucketCovered(b, p, c)
    BY <1>2, <1>4 DEF Covered, BucketCovered, NoBetter
  <2> QED BY <2>1, <2>2 DEF Covered
<1>6. Codes(b, p) \subseteq Codes(w, p)
  <2>1. ASSUME NEW k \in Codes(b, p) PROVE k \in Codes(w, p)
    <3>1. CASE k \in b.codes
      BY <3>1 DEF Codes, NoBetter
    <3>2. ASSUME NEW f \in p.families \cap DOMAIN b.families, k \in b.families[f].codes
          PROVE  k \in Codes(w, p)
      <4>1. f \in p.families \cap DOMAIN w.families /\ k \in w.families[f].codes
        BY <3>2, <1>4
      <4>2. k \in UNION {w.families[g].codes : g \in p.families \cap DOMAIN w.families}
        BY <4>1
      <4> QED BY <4>2 DEF Codes
    <3>3. ASSUME NEW c \in Required(p) \cap DOMAIN b.buckets, k \in b.buckets[c].codes
          PROVE  k \in Codes(w, p)
      <4>1. c \in Required(p) \cap DOMAIN w.buckets /\ k \in w.buckets[c].codes
        BY <3>3, <1>4 DEF NoBetter
      <4>2. k \in UNION {w.buckets[e].codes : e \in Required(p) \cap DOMAIN w.buckets}
        BY <4>1
      <4> QED BY <4>2 DEF Codes
    <3>4. \/ k \in b.codes
          \/ \E f \in p.families \cap DOMAIN b.families : k \in b.families[f].codes
          \/ \E c \in Required(p) \cap DOMAIN b.buckets : k \in b.buckets[c].codes
      BY <2>1 DEF Codes
    <3> QED BY <3>1, <3>2, <3>3, <3>4
  <2> QED BY <2>1
<1>7. Recognized(b, p) = {} /\ Codes(b, p) \cap Unavailability = {} /\ Unrecognized(b, p) = {}
  BY <1>1, <1>2, <1>6 DEF Recognized, Unrecognized
<1>8. ASSUME NEW c \in Required(p) PROVE MetricsHold(b.buckets[c], p.rules[c.bucket])
  <2>1. Counts(w, p)
    BY <1>1, AvailableCounts
  <2>2. BucketCovered(w, p, c) /\ w.buckets[c].codes \cap Unavailability = {}
    BY <2>1, CoveredCell
  <2>3. MetricsHold(w.buckets[c], p.rules[c.bucket])
    BY <2>2, <1>1 DEF MetricFailure
  <2>4. /\ b.buckets[c].completed \in Nat /\ b.buckets[c].candidate \in Nat /\ b.buckets[c].incumbent \in Nat
    BY <1>4, BundleTyped
  <2>5. /\ w.buckets[c].completed = b.buckets[c].completed
        /\ w.buckets[c].candidate \in Nat /\ w.buckets[c].candidate <= b.buckets[c].candidate
        /\ w.buckets[c].incumbent \in Nat /\ b.buckets[c].incumbent <= w.buckets[c].incumbent
    BY <1>4, <2>4 DEF NoBetter
  <2>6. MetricsHold([completed |-> b.buckets[c].completed, candidate |-> w.buckets[c].candidate,
                     incumbent |-> w.buckets[c].incumbent, codes |-> {}], p.rules[c.bucket])
    BY <2>3, <2>5 DEF MetricsHold
  <2>7. MetricsHold([completed |-> b.buckets[c].completed, candidate |-> b.buckets[c].candidate,
                     incumbent |-> b.buckets[c].incumbent, codes |-> {}], p.rules[c.bucket])
    <3> DEFINE n == b.buckets[c].completed
    <3> DEFINE x == b.buckets[c].candidate
    <3> DEFINE y == w.buckets[c].candidate
    <3> DEFINE i == b.buckets[c].incumbent
    <3> DEFINE j == w.buckets[c].incumbent
    <3>1. n \in Nat /\ x \in Nat /\ y \in Nat /\ i \in Nat /\ j \in Nat /\ y <= x /\ i <= j
      BY <2>4, <2>5
    <3>2. MetricsHold([completed |-> n, candidate |-> y, incumbent |-> j, codes |-> {}], p.rules[c.bucket])
      BY <2>6
    <3> HIDE DEF n, x, y, i, j
    <3>3. MetricsHold([completed |-> n, candidate |-> x, incumbent |-> i, codes |-> {}], p.rules[c.bucket])
      BY <3>1, <3>2, MetricsAreMonotone
    <3> QED BY <3>3 DEF n, x, i
  <2> QED BY <2>7 DEF MetricsHold
<1>9. ~MetricFailure(b, p)
  BY <1>8 DEF MetricFailure
<1>10. ~Unavailable(b, p, s, now)
  BY <1>2, <1>3, <1>5, <1>7 DEF Unavailable
<1> QED BY <1>7, <1>9, <1>10, ReadyMeans

\* A cell with one count or its codes replaced.
LEMMA CellReplaced ==
    ASSUME NEW q, q = [completed |-> q.completed, candidate |-> q.candidate,
                       incumbent |-> q.incumbent, codes |-> q.codes], NEW x
    PROVE  /\ LET e == [q EXCEPT !.candidate = x] IN
              e.completed = q.completed /\ e.candidate = x /\ e.incumbent = q.incumbent /\ e.codes = q.codes
           /\ LET e == [q EXCEPT !.incumbent = x] IN
              e.completed = q.completed /\ e.candidate = q.candidate /\ e.incumbent = x /\ e.codes = q.codes
           /\ LET e == [q EXCEPT !.codes = x] IN
              e.completed = q.completed /\ e.candidate = q.candidate /\ e.incumbent = q.incumbent /\ e.codes = x
<1>1. {"completed", "candidate", "incumbent", "codes"} = DOMAIN q
  OBVIOUS
<1> QED BY <1>1

\* A bundle with its cells, its families or its own codes replaced.
LEMMA BundleReplaced ==
    ASSUME NEW b, Shaped(b), NEW x
    PROVE  /\ LET w == [b EXCEPT !.buckets = x] IN
              /\ w.at = b.at /\ w.scope = b.scope /\ w.policy = b.policy
              /\ w.codes = b.codes /\ w.families = b.families /\ w.buckets = x
           /\ LET w == [b EXCEPT !.families = x] IN
              /\ w.at = b.at /\ w.scope = b.scope /\ w.policy = b.policy
              /\ w.codes = b.codes /\ w.families = x /\ w.buckets = b.buckets
           /\ LET w == [b EXCEPT !.codes = x] IN
              /\ w.at = b.at /\ w.scope = b.scope /\ w.policy = b.policy
              /\ w.codes = x /\ w.families = b.families /\ w.buckets = b.buckets
<1>1. {"at", "scope", "policy", "codes", "families", "buckets"} = DOMAIN b
  BY DEF Shaped
<1> QED BY <1>1

\* A bundle one cell of which says no better.
LEMMA WorseCell ==
    ASSUME NEW b, Founded(b), Shaped(b), NEW c \in DOMAIN b.buckets, NEW e,
           e.completed = b.buckets[c].completed,
           e.candidate \in Nat, e.candidate <= b.buckets[c].candidate,
           e.incumbent \in Nat, b.buckets[c].incumbent <= e.incumbent,
           b.buckets[c].codes \subseteq e.codes
    PROVE  NoBetter([b EXCEPT !.buckets[c] = e], b)
<1> DEFINE bs == [b.buckets EXCEPT ![c] = e]
<1> DEFINE w == [b EXCEPT !.buckets = bs]
<1>1. DOMAIN bs = DOMAIN b.buckets /\ bs[c] = e /\ \A d \in DOMAIN b.buckets : d # c => bs[d] = b.buckets[d]
  OBVIOUS
<1>2. /\ w.at = b.at /\ w.scope = b.scope /\ w.policy = b.policy
      /\ w.codes = b.codes /\ w.families = b.families /\ w.buckets = bs
  <2> HIDE DEF bs
  <2> QED BY BundleReplaced
<1>3. [b EXCEPT !.buckets[c] = e] = w
  OBVIOUS
<1> HIDE DEF w, bs
<1>4. ASSUME NEW d \in DOMAIN bs
      PROVE  /\ bs[d].completed = b.buckets[d].completed
             /\ bs[d].candidate \in Nat /\ bs[d].candidate <= b.buckets[d].candidate
             /\ bs[d].incumbent \in Nat /\ bs[d].incumbent >= b.buckets[d].incumbent
             /\ b.buckets[d].codes \subseteq bs[d].codes
  <2>1. CASE d = c
    <3>1. b.buckets[c].incumbent \in Nat
      BY BundleTyped
    <3> QED BY <2>1, <1>1, <3>1
  <2>2. CASE d # c
    <3>1. bs[d] = b.buckets[d] /\ d \in DOMAIN b.buckets
      BY <2>2, <1>1
    <3>2. b.buckets[d].candidate \in Nat /\ b.buckets[d].incumbent \in Nat
      BY <3>1, BundleTyped
    <3> QED BY <3>1, <3>2
  <2> QED BY <2>1, <2>2
<1>5. NoBetter(w, b)
  BY <1>1, <1>2, <1>4 DEF NoBetter
<1> QED BY <1>3, <1>5

\* A bundle that lacks a cell or a family, or has one more code.
LEMMA LessEvidence ==
    ASSUME NEW b, Founded(b), Shaped(b)
    PROVE  /\ \A c : NoBetter([b EXCEPT !.buckets = [e \in DOMAIN b.buckets \ {c} |-> b.buckets[e]]], b)
           /\ \A f : NoBetter([b EXCEPT !.families = [e \in DOMAIN b.families \ {f} |-> b.families[e]]], b)
           /\ \A k : NoBetter([b EXCEPT !.codes = b.codes \cup {k}], b)
<1>1. \A d \in DOMAIN b.buckets : b.buckets[d].candidate \in Nat /\ b.buckets[d].incumbent \in Nat
  BY BundleTyped
<1>2. ASSUME NEW c
      PROVE  NoBetter([b EXCEPT !.buckets = [e \in DOMAIN b.buckets \ {c} |-> b.buckets[e]]], b)
  <2> DEFINE bs == [e \in DOMAIN b.buckets \ {c} |-> b.buckets[e]]
  <2> DEFINE w == [b EXCEPT !.buckets = bs]
  <2>1. DOMAIN bs \subseteq DOMAIN b.buckets /\ \A d \in DOMAIN bs : bs[d] = b.buckets[d]
    OBVIOUS
  <2> HIDE DEF bs
  <2>2. /\ w.at = b.at /\ w.scope = b.scope /\ w.policy = b.policy
        /\ w.codes = b.codes /\ w.families = b.families /\ w.buckets = bs
    BY BundleReplaced
  <2> HIDE DEF w
  <2>3. NoBetter(w, b)
    BY <1>1, <2>1, <2>2 DEF NoBetter
  <2> QED BY <2>3 DEF w, bs
<1>3. ASSUME NEW f
      PROVE  NoBetter([b EXCEPT !.families = [e \in DOMAIN b.families \ {f} |-> b.families[e]]], b)
  <2> DEFINE fs == [e \in DOMAIN b.families \ {f} |-> b.families[e]]
  <2> DEFINE w == [b EXCEPT !.families = fs]
  <2>1. DOMAIN fs \subseteq DOMAIN b.families /\ \A d \in DOMAIN fs : fs[d] = b.families[d]
    OBVIOUS
  <2> HIDE DEF fs
  <2>2. /\ w.at = b.at /\ w.scope = b.scope /\ w.policy = b.policy
        /\ w.codes = b.codes /\ w.families = fs /\ w.buckets = b.buckets
    BY BundleReplaced
  <2> HIDE DEF w
  <2>3. NoBetter(w, b)
    BY <1>1, <2>1, <2>2 DEF NoBetter
  <2> QED BY <2>3 DEF w, fs
<1>4. ASSUME NEW k PROVE NoBetter([b EXCEPT !.codes = b.codes \cup {k}], b)
  <2> DEFINE ks == b.codes \cup {k}
  <2> DEFINE w == [b EXCEPT !.codes = ks]
  <2>1. b.codes \subseteq ks
    OBVIOUS
  <2> HIDE DEF ks
  <2>2. /\ w.at = b.at /\ w.scope = b.scope /\ w.policy = b.policy
        /\ w.codes = ks /\ w.families = b.families /\ w.buckets = b.buckets
    BY BundleReplaced
  <2> HIDE DEF w
  <2>3. NoBetter(w, b)
    BY <1>1, <2>1, <2>2 DEF NoBetter
  <2> QED BY <2>3 DEF w, ks
<1> QED BY <1>2, <1>3, <1>4

\* What is worse of a bundle is no better.
LEMMA WorseIsNoBetter ==
    ASSUME NEW b, Founded(b), Shaped(b), NEW w \in Worse(b)
    PROVE  NoBetter(w, b)
<1>1. ASSUME NEW c \in DOMAIN b.buckets
      PROVE  /\ b.buckets[c] = [completed |-> b.buckets[c].completed, candidate |-> b.buckets[c].candidate,
                                incumbent |-> b.buckets[c].incumbent, codes |-> b.buckets[c].codes]
             /\ b.buckets[c].candidate \in Nat /\ b.buckets[c].incumbent \in Nat
  BY BundleTyped
<1>2. ASSUME NEW c \in DOMAIN b.buckets, b.buckets[c].candidate > 0
      PROVE  NoBetter([b EXCEPT !.buckets[c].candidate = @ - 1], b)
  <2> DEFINE q == b.buckets[c]
  <2> DEFINE e == [q EXCEPT !.candidate = q.candidate - 1]
  <2>1. [b EXCEPT !.buckets[c].candidate = @ - 1] = [b EXCEPT !.buckets[c] = e]
    OBVIOUS
  <2>2. e.completed = q.completed /\ e.candidate = q.candidate - 1 /\ e.incumbent = q.incumbent /\ e.codes = q.codes
    <3> HIDE DEF q
    <3> QED BY <1>1, CellReplaced DEF q
  <2>3. q.candidate \in Nat /\ q.incumbent \in Nat /\ q.candidate > 0
    BY <1>1, <1>2
  <2> HIDE DEF e, q
  <2>4. /\ e.completed = q.completed
        /\ e.candidate \in Nat /\ e.candidate <= q.candidate
        /\ e.incumbent \in Nat /\ q.incumbent <= e.incumbent
        /\ q.codes \subseteq e.codes
    BY <2>2, <2>3
  <2>5. NoBetter([b EXCEPT !.buckets[c] = e], b)
    BY <2>4, WorseCell DEF q
  <2> QED BY <2>1, <2>5 DEF e, q
<1>3. ASSUME NEW c \in DOMAIN b.buckets
      PROVE  NoBetter([b EXCEPT !.buckets[c].incumbent = @ + 1], b)
  <2> DEFINE q == b.buckets[c]
  <2> DEFINE e == [q EXCEPT !.incumbent = q.incumbent + 1]
  <2>1. [b EXCEPT !.buckets[c].incumbent = @ + 1] = [b EXCEPT !.buckets[c] = e]
    OBVIOUS
  <2>2. e.completed = q.completed /\ e.candidate = q.candidate /\ e.incumbent = q.incumbent + 1 /\ e.codes = q.codes
    <3> HIDE DEF q
    <3> QED BY <1>1, CellReplaced DEF q
  <2>3. q.candidate \in Nat /\ q.incumbent \in Nat
    BY <1>1
  <2> HIDE DEF e, q
  <2>4. /\ e.completed = q.completed
        /\ e.candidate \in Nat /\ e.candidate <= q.candidate
        /\ e.incumbent \in Nat /\ q.incumbent <= e.incumbent
        /\ q.codes \subseteq e.codes
    BY <2>2, <2>3
  <2>5. NoBetter([b EXCEPT !.buckets[c] = e], b)
    BY <2>4, WorseCell DEF q
  <2> QED BY <2>1, <2>5 DEF e, q
<1>4. ASSUME NEW c \in DOMAIN b.buckets, NEW k
      PROVE  NoBetter([b EXCEPT !.buckets[c].codes = @ \cup {k}], b)
  <2> DEFINE q == b.buckets[c]
  <2> DEFINE e == [q EXCEPT !.codes = q.codes \cup {k}]
  <2>1. [b EXCEPT !.buckets[c].codes = @ \cup {k}] = [b EXCEPT !.buckets[c] = e]
    OBVIOUS
  <2>2. /\ e.completed = q.completed /\ e.candidate = q.candidate /\ e.incumbent = q.incumbent
        /\ e.codes = q.codes \cup {k}
    <3> HIDE DEF q
    <3> QED BY <1>1, CellReplaced DEF q
  <2>3. q.candidate \in Nat /\ q.incumbent \in Nat
    BY <1>1
  <2> HIDE DEF e, q
  <2>4. /\ e.completed = q.completed
        /\ e.candidate \in Nat /\ e.candidate <= q.candidate
        /\ e.incumbent \in Nat /\ q.incumbent <= e.incumbent
        /\ q.codes \subseteq e.codes
    BY <2>2, <2>3
  <2>5. NoBetter([b EXCEPT !.buckets[c] = e], b)
    BY <2>4, WorseCell DEF q
  <2> QED BY <2>1, <2>5 DEF e, q
<1> DEFINE Passed == {[b EXCEPT !.buckets[c].candidate = @ - 1] :
                         c \in {e \in DOMAIN b.buckets : b.buckets[e].candidate > 0}}
<1> DEFINE Failed == {[b EXCEPT !.buckets[c].incumbent = @ + 1] :
                         c \in {e \in DOMAIN b.buckets : b.buckets[e].incumbent < b.buckets[e].completed}}
<1> DEFINE NoCell == {[b EXCEPT !.buckets = [e \in DOMAIN b.buckets \ {c} |-> b.buckets[e]]] : c \in DOMAIN b.buckets}
<1> DEFINE NoFamily == {[b EXCEPT !.families = [e \in DOMAIN b.families \ {f} |-> b.families[e]]] : f \in DOMAIN b.families}
<1> DEFINE Code == {[b EXCEPT !.codes = @ \cup {k}] : k \in Unavailability \cup HardFailures}
<1> DEFINE CellCode == {[b EXCEPT !.buckets[c].codes = @ \cup {k}] :
                           c \in DOMAIN b.buckets, k \in Unavailability \cup HardFailures}
<1>5. /\ \A x \in Passed : NoBetter(x, b)
      /\ \A x \in Failed : NoBetter(x, b)
  BY <1>2, <1>3
<1>6. \A x \in CellCode : NoBetter(x, b)
  BY <1>4
<1>7. /\ \A x \in NoCell : NoBetter(x, b)
      /\ \A x \in NoFamily : NoBetter(x, b)
      /\ \A x \in Code : NoBetter(x, b)
  BY LessEvidence
<1>8. Worse(b) = Passed \cup Failed \cup NoCell \cup NoFamily \cup Code \cup CellCode
  BY DEF Worse
<1> HIDE DEF Passed, Failed, NoCell, NoFamily, Code, CellCode
<1> QED BY <1>5, <1>6, <1>7, <1>8

\* Worse evidence never makes a candidate ready that was not, under any policy: a pass that
\* failed, a failure of the incumbent that passed, a cell or a family that is missing, or one
\* more code anywhere.
THEOREM WorseIsNeverPromoted == EvidenceSpec => []WorseNeverPromotes
<1>1. ASSUME EvidenceInv PROVE WorseNeverPromotes
  <2>1. SUFFICES ASSUME bundle # None, NEW p \in Policies, NEW w \in Worse(bundle),
                        Disposition(w, p, scope, clock) = "promotion_ready"
        PROVE  Disposition(bundle, p, scope, clock) = "promotion_ready"
    BY DEF WorseNeverPromotes
  <2>2. Founded(bundle) /\ Shaped(bundle)
    BY <1>1, <2>1 DEF EvidenceInv
  <2>3. NoBetter(w, bundle)
    BY <2>2, WorseIsNoBetter
  <2> QED BY <2>1, <2>2, <2>3, NoBetterNeverPromotes
<1> QED BY <1>1, InvariantHolds, PTL
=============================================================================
