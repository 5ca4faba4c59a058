------------------------------ MODULE ReplayPair ------------------------------
(***************************************************************************)
(* Paired replay of a candidate and its incumbent on one admitted fixture: *)
(* helpers/v3/replay_adapter.py (the gateway of fixture tools, the two     *)
(* arms and their receipt) and helpers/v3/replay_repository.py (the claim  *)
(* before the dispatch, the receipt after it).                             *)
(*                                                                         *)
(* What a provider does in an arm is free: it calls tools in any order,    *)
(* swallows a refusal or lets it through, fails, and reports what it       *)
(* likes.  What it consumed and dispatched is what the counters of the     *)
(* observation boundary say.  One ceiling stands for the six of            *)
(* ReplayBounds that are compared alike; the calls of fixture tools have   *)
(* theirs.  A digest is what it is the digest of.  Transactions are        *)
(* SQLite's, and a process may stop anywhere between them.                 *)
(***************************************************************************)
EXTENDS Integers, Sequences, SequencesExt

CONSTANTS
    Process,
    Request,   \* [key, attempt, bindings, bounds, retryOf]; retryOf: a request, or None
    Steps,     \* the contracts of the tool steps of the fixture
    MaxToolSteps,   \* the bound the fixture sets on them
    Tools,     \* what a provider may call
    TokenLimit, MaxCalls,   \* bounds: consumption and tool calls of an arm
    None

VARIABLES
    claims,       \* claims, each with its accepted command
    receipts,     \* the receipt of a request
    completions,  \* completion events of a claim
    process,      \* the runs under way
    ran,          \* history: what the provider did in the arms dispatched for a request
    told          \* the results answered

vars == <<claims, receipts, completions, process, ran, told>>

ASSUME StepsAssumption == Steps \in Seq(Tools)
ASSUME BoundsAssumption == \A r \in Request : r.bounds \in [tokens : Nat, calls : Nat]

-----------------------------------------------------------------------------
(* What a request binds *)

\* An admission of the exact fixture, the manifest that selects it, a capability for the
\* profile of execution, and two different arms.
BindingsHold(b) ==
    /\ b.admission = b.fixture
    /\ b.manifest = [execution |-> b.execution, entry |-> b.admission]
    /\ b.capability = b.execution
    /\ b.candidate # b.incumbent

BoundsHold(bounds) == bounds.calls <= MaxToolSteps

\* A request that has a digest at all.
Admissible(r) == BindingsHold(r.bindings) /\ BoundsHold(r.bounds)

Links(r) == [bindings |-> r.bindings, retryOf |-> r.retryOf]

ClaimOf(r) == [key |-> r.key, request |-> r, links |-> Links(r)]

-----------------------------------------------------------------------------
(* One arm *)

Outcomes == {"completed", "deterministic_failure", "availability_failure"}

\* An arm that never reached a verdict is no evidence of the candidate.
Eligible(outcome) == outcome \in {"completed", "deterministic_failure"}

Opened == [calls |-> 0, violation |-> None, live |-> FALSE]

\* The next step of the fixture, or a refusal that stays.
Continue(g, tool, limit) ==
    LET deny(reason) == [g EXCEPT !.violation = reason] IN
    IF tool = "live" THEN [deny("live_tool_dispatch_denied") EXCEPT !.live = TRUE]
    ELSE IF g.calls >= limit THEN deny("budget_exhausted")
    ELSE IF g.calls = Len(Steps) \/ Steps[g.calls + 1] # tool THEN deny("fixture_contract_mismatch")
    ELSE [g EXCEPT !.calls = @ + 1]

\* The gateway after so many of the calls, and after all of them.
After(calls, limit) ==
    LET g[n \in 0 .. Len(calls)] ==
          IF n = 0 THEN Opened ELSE Continue(g[n - 1], calls[n], limit)
    IN g

Gateway(calls, limit) == After(calls, limit)[Len(calls)]

Counters == [tokens : 0..TokenLimit, live : BOOLEAN, hosted : BOOLEAN]

\* What a provider may do in an arm.  It ends with a report, by letting the refusal of the
\* gateway through, or with an error; the counters may be unreadable.
Conducts ==
    [calls    : SeqOf(Tools, MaxCalls),
     ends     : {"report", "refused", "error", "garbage"},
     own      : BOOLEAN,                  \* the report is of this arm and subject
     outcome  : Outcomes,
     declared : [tokens : 0..TokenLimit, calls : 0..Len(Steps)],
     counters : Counters \cup {None}]

\* What the observation boundary saw agrees with the report, and keeps to the bounds.
WithinBounds(c, g, bounds) ==
    /\ ~c.counters.live /\ ~c.counters.hosted
    /\ c.declared = [tokens |-> c.counters.tokens, calls |-> g.calls]
    /\ c.counters.tokens <= bounds.tokens

\* Mutant: a refusal the provider swallowed is forgotten.
TrustsReport(c, g, bounds) ==
    IF \/ g.live \/ c.counters = None \/ c.ends # "report" \/ ~c.own
       \/ ~WithinBounds(c, g, bounds)
      THEN "harness_failure"
      ELSE c.outcome

\* The report of an arm stands when nothing contradicts it.
Verdict(c, g, bounds) ==
    IF \/ g.live \/ c.counters = None \/ c.ends # "report" \/ ~c.own
       \/ g.violation # None
       \/ ~WithinBounds(c, g, bounds)
      THEN "harness_failure"
      ELSE c.outcome

\* Whether an arm ran on nothing but the fixture, and within its bounds.
Inert(c, bounds) ==
    /\ IsPrefix(c.calls, Steps) /\ Len(c.calls) <= bounds.calls
    /\ c.counters # None
    /\ ~c.counters.live /\ ~c.counters.hosted
    /\ c.counters.tokens <= bounds.tokens

Arm(c, bounds) ==
    [outcome |-> Verdict(c, Gateway(c.calls, bounds.calls), bounds), inert |-> Inert(c, bounds)]

Arms == [bounds \in {r.bounds : r \in {q \in Request : Admissible(q)}} |->
           {Arm(c, bounds) : c \in Conducts}]

-----------------------------------------------------------------------------
(* The claim *)

Idle == [at |-> "idle", request |-> None, arms |-> <<>>]

Init ==
    /\ claims = {}
    /\ receipts = [r \in Request |-> None]
    /\ completions = [r \in Request |-> 0]
    /\ process = [p \in Process |-> Idle]
    /\ ran = [r \in Request |-> <<>>]
    /\ told = {}

\* The command under a key; a different request under it is a conflict.
Under(r) == {c \in claims : c.key = r.key}

Claimed(r) == \E c \in Under(r) : c = ClaimOf(r)

\* A record is only kept beside the records it links to: a retry names a receipt.
Linked(r) == r.retryOf # None => receipts[r.retryOf] # None

\* Mutant: a claim without a receipt is taken for one that was never dispatched.
Unfinished(r) == {c \in Under(r) : receipts[c.request] # None} = {}

Unclaimed(r) == Under(r) = {}

Claim(p, r) ==
    /\ process[p] = Idle
    /\ Admissible(r)
    /\ Unclaimed(r)
    /\ Linked(r)
    /\ claims' = claims \cup {ClaimOf(r)}
    /\ process' = [process EXCEPT ![p] = [at |-> "dispatched", request |-> r, arms |-> <<>>]]
    /\ UNCHANGED <<receipts, completions, ran, told>>

Answer(r, receipt) == told' = told \cup {[request |-> r, receipt |-> receipt]}

Receipt(r, arms) ==
    [links |-> Links(r), arms |-> arms, eligible |-> \A i \in DOMAIN arms : Eligible(arms[i])]

ASSUME NoneAssumption ==
    /\ None \notin {"live_tool_dispatch_denied", "budget_exhausted", "fixture_contract_mismatch"}
    /\ \A r \in Request : \A a, b \in Outcomes \cup {"harness_failure"} : Receipt(r, <<a, b>>) # None

\* What a receipt must be to be read back as the result of a request.
ReceiptOf(r, receipt) == receipt = Receipt(r, receipt.arms) /\ Len(receipt.arms) = 2

\* The answer made of what the ledger holds: a receipt and its one event.
Completed(r) ==
    /\ receipts[r] # None /\ ReceiptOf(r, receipts[r])
    /\ completions[r] = 1

\* An exact repetition finds the receipt; a claim that has none is incomplete, and a
\* conflict is refused: both leave everything as it is.
Replay(p, r) ==
    /\ process[p] = Idle
    /\ Claimed(r) /\ Completed(r)
    /\ Answer(r, receipts[r])
    /\ UNCHANGED <<claims, receipts, completions, process, ran>>

-----------------------------------------------------------------------------
(* The pair *)

\* The candidate's arm, then the incumbent's, each from a fresh state.
RunArm(p) ==
    LET r == process[p].request IN
    /\ process[p].at = "dispatched" /\ Len(process[p].arms) < 2
    /\ \E arm \in Arms[r.bounds] :
         /\ process' = [process EXCEPT ![p].arms = Append(@, arm.outcome)]
         /\ ran' = [ran EXCEPT ![r] = Append(@, arm)]
    /\ UNCHANGED <<claims, receipts, completions, told>>

\* Mutant: the receipt is returned and never kept.
Unkept(r, receipt) == UNCHANGED <<receipts, completions>>

Kept(r, receipt) ==
    /\ receipts' = [receipts EXCEPT ![r] = receipt]
    /\ completions' = [completions EXCEPT ![r] = @ + 1]

\* The second transaction finds the claim as it was made, and keeps a receipt that is
\* there.  Its acknowledgement may be lost.
Complete(p) ==
    LET r == process[p].request
        receipt == Receipt(r, process[p].arms)
    IN  /\ process[p].at = "dispatched" /\ Len(process[p].arms) = 2
        /\ Claimed(r)
        /\ IF receipts[r] = None
             THEN Kept(r, receipt) /\ (Answer(r, receipt) \/ UNCHANGED told)
             ELSE /\ Completed(r)
                  /\ Answer(r, receipts[r]) \/ UNCHANGED told
                  /\ UNCHANGED <<receipts, completions>>
        /\ process' = [process EXCEPT ![p] = Idle]
        /\ UNCHANGED <<claims, ran>>

\* An error, a refusal of the executor, or the end of the process.
Stop(p) ==
    /\ process[p] # Idle
    /\ process' = [process EXCEPT ![p] = Idle]
    /\ UNCHANGED <<claims, receipts, completions, ran, told>>

Next ==
    \E p \in Process :
        \/ \E r \in Request : Claim(p, r) \/ Replay(p, r)
        \/ RunArm(p) \/ Complete(p) \/ Stop(p)

Spec == Init /\ [][Next]_vars

-----------------------------------------------------------------------------
(* Properties *)

\* A request is dispatched to the provider once: neither a repetition, a concurrent caller
\* nor a process that stopped after the claim makes an arm run again.
DispatchedOnce == \A r \in Request : Len(ran[r]) <= 2

\* Everybody who is told the result of a request is told what the ledger holds, which is
\* what the provider did, with one completion event, under a key no other request has.
AnswersAreTheReceipt ==
    /\ \A t \in told : t.receipt = receipts[t.request]
    /\ \A r \in Request : receipts[r] # None =>
          /\ completions[r] = 1
          /\ receipts[r].arms = [i \in 1..2 |-> ran[r][i].outcome]
    /\ \A c, d \in claims : c.key = d.key => c = d

\* Only "a failed pair" is retried (replay_adapter.py:544).
OnlyFailuresAreRetried ==
    \A c \in claims : c.links.retryOf # None => ~receipts[c.links.retryOf].eligible
=============================================================================
