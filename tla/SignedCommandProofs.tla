-------------------------- MODULE SignedCommandProofs --------------------------
(***************************************************************************)
(* Proofs about the two specifications that extend SignedCommand: those of *)
(* CommandSpec are about the signed commands of OperatorCommand, those of  *)
(* Spec about FixtureAuthority.                                            *)
(***************************************************************************)
EXTENDS OperatorCommand, FixtureAuthority, FiniteSetTheorems, SequenceTheorems, TLAPS

-----------------------------------------------------------------------------
(* What the steps leave alone *)

journal == <<scope, slots, assessments, commands, effects>>

\* Only the transaction of a command writes the journal of commands or moves a slot, and whatever
\* is answered without one is a receipt of that journal.
LEMMA StepExecutes ==
    [CommandNext]_commandVars =>
        \/ \E p \in Process : ExecuteCommand(p)
        \/ UNCHANGED journal /\ \A r \in answers' : r \in answers \/ r \in commands
<1> SUFFICES ASSUME [CommandNext]_commandVars, ~\E p \in Process : ExecuteCommand(p)
             PROVE  UNCHANGED journal /\ \A r \in answers' : r \in answers \/ r \in commands
  OBVIOUS
<1> USE DEF journal
<1>1. CASE UNCHANGED commandVars
  BY <1>1 DEF commandVars, store
<1>2. CASE /\ Tick \/ RotateChallenge \/ RevokeRequested \/ FinishRevocation \/ FailRevocation
           /\ UNCHANGED <<offers, store, requests, answers>>
  BY <1>2 DEF store
<1>3. ASSUME NEW w \in Work, Claim(w)
      PROVE  UNCHANGED journal /\ \A r \in answers' : r \in answers \/ r \in commands
  BY <1>3 DEF Claim
<1>4. ASSUME NEW p \in Process, HandleRequest(p)
      PROVE  UNCHANGED journal /\ \A r \in answers' : r \in answers \/ r \in commands
  <2>1. ASSUME NEW g, NEW body, SubmitCommand(p, g, body)
        PROVE  UNCHANGED <<journal, answers>>
    BY <2>1 DEF SubmitCommand, store
  <2>2. CASE Plan(p) \/ StopRequest(p)
    BY <2>2 DEF Plan, StopRequest, store
  <2>3. CASE ReplayCommand(p)
    <3>1. PICK a \in commands : answers' = answers \cup {a}
      BY <2>3 DEF ReplayCommand, PriorCommands, AnswerWith
    <3> QED
      BY <2>3, <3>1 DEF ReplayCommand, store
  <2> QED
    BY <1>4, <2>1, <2>2, <2>3 DEF HandleRequest
<1> QED
  BY <1>1, <1>2, <1>3, <1>4 DEF CommandNext

\* A transaction accepts one command, which no accepted one shares its key with,
\* under a grant verified again, and answers with the receipt it recorded.
LEMMA ExecuteAccepts ==
    ASSUME NEW p \in Process, ExecuteCommand(p)
    PROVE  \E r : /\ r.request = Req(p)
                  /\ \A a \in commands : KeyOf(a.request) # KeyOf(r.request)
                  /\ commands' = commands \cup {r}
                  /\ effects' = effects + 1
                  /\ answers' = answers \cup {r}
                  /\ GrantHolds(r.request)
<1>1. CommandReceipt(Req(p)).request = Req(p)
  BY DEF CommandReceipt
<1>2. \A a \in commands : KeyOf(a.request) # KeyOf(Req(p))
  BY DEF ExecuteCommand, PriorCommands
<1>3. /\ commands' = commands \cup {CommandReceipt(Req(p))}
      /\ effects' = effects + 1
      /\ answers' = answers \cup {CommandReceipt(Req(p))}
      /\ GrantHolds(Req(p))
  BY DEF ExecuteCommand, AnswerWith
<1> QED
  BY <1>1, <1>2, <1>3

-----------------------------------------------------------------------------
(* Commands *)

Counted ==
    /\ effects \in Nat
    /\ IsFiniteSet(commands)
    /\ OneEffectPerGrant

LEMMA CountedInductive == Counted /\ [CommandNext]_commandVars => Counted'
<1> SUFFICES ASSUME Counted, [CommandNext]_commandVars PROVE Counted'
  OBVIOUS
<1> USE DEF Counted, OneEffectPerGrant
<1>1. ASSUME NEW p \in Process, ExecuteCommand(p) PROVE Counted'
  <2>1. PICK r : /\ r.request = Req(p)
                 /\ \A a \in commands : KeyOf(a.request) # KeyOf(r.request)
                 /\ commands' = commands \cup {r}
                 /\ effects' = effects + 1
                 /\ answers' = answers \cup {r}
    BY <1>1, ExecuteAccepts
  <2>2. r \notin commands
    BY <2>1
  <2>3. IsFiniteSet(commands') /\ Cardinality(commands') = effects'
    BY <2>1, <2>2, FS_AddElement
  <2>4. \A a, b \in commands' : (KeyOf(a.request) = KeyOf(b.request) => a = b)'
    BY <2>1 DEF KeyOf, Command
  <2> QED
    BY <2>1, <2>3, <2>4
<1>2. CASE UNCHANGED journal /\ \A r \in answers' : r \in answers \/ r \in commands
  BY <1>2 DEF journal, KeyOf, Command
<1> QED
  BY <1>1, <1>2, StepExecutes

\* Sent again, raced with itself, or given another body under its key, a command
\* takes effect once, and whoever was answered was told what the ledger holds.
THEOREM CommandsTakeEffectOnce == CommandSpec => []OneEffectPerGrant
<1>1. CommandInit => Counted
  BY FS_EmptySet DEF CommandInit, Counted, OneEffectPerGrant
<1>2. Counted => OneEffectPerGrant
  BY DEF Counted
<1> QED
  BY <1>1, <1>2, CountedInductive, PTL DEF CommandSpec

-----------------------------------------------------------------------------
(* Slots *)

Moved(kind) == slots'[kind].revision = slots[kind].revision + 1

LEMMA Apart ==
    \A action :
        /\ action \in Transitions => action \notin Canary \cup Monitoring \cup WorkActions /\ ~Local(action)
        /\ action \in Canary => action \notin Transitions \cup Monitoring \cup WorkActions /\ ~Local(action)
        /\ action \in Monitoring => action \notin Transitions \cup Canary \cup WorkActions /\ ~Local(action)
  BY DEF Transitions, Canary, Monitoring, WorkActions, Local

\* A transaction moves a slot only if its command names it, and then by one revision.
LEMMA EffectMoves ==
    ASSUME NEW q, Effect(q), slots = [k \in Kinds |-> slots[k]]
    PROVE  /\ slots' = [k \in Kinds |-> slots'[k]]
           /\ \A k \in Kinds : slots'[k] = slots[k] \/ (k \in Names(Command(q).action) /\ Moved(k))
           /\ scope' = IF Command(q).action \in Transitions THEN scope + 1 ELSE scope
<1> DEFINE c == Command(q)
<1> USE DEF Kinds, Moved
<1>1. \A kind, occupant : Occupied(kind, occupant).revision = slots[kind].revision + 1
  BY DEF Occupied
<1>2. \A kind : Emptied(kind) = slots[kind] \/ Emptied(kind) = Occupied(kind, None)
  BY Zenon DEF Emptied
<1> DEFINE OnwardOrSame(slot, k) == slot = slots[k] \/ slot.revision = slots[k].revision + 1
<1>3. \A k, occupant : OnwardOrSame(Emptied(k), k) /\ OnwardOrSame(Occupied(k, occupant), k)
  BY <1>1, <1>2, Zenon
<1> HIDE DEF OnwardOrSame
<1>4. CASE c.action \in Transitions
  <2>1. Transits(c)
    BY <1>4, Apart DEF Effect
  <2>2. Names(c.action) = Kinds
    BY <1>4, Apart DEF Names
  <2>3. /\ scope' = scope + 1
        /\ slots' = [k \in Kinds |-> IF c.action = "activate" /\ k = "monitor"
                                       THEN Occupied(k, slots["canary"].occupant)
                                       ELSE Emptied(k)]
    BY <2>1 DEF Transits
  <2>4. \A k \in Kinds : OnwardOrSame(slots'[k], k)
    BY <1>3, <2>3
  <2> QED
    BY <1>4, <2>2, <2>3, <2>4 DEF OnwardOrSame
<1>5. CASE c.action \in Canary
  <2>1. Names(c.action) = {"canary"} /\ c.action \notin Transitions
    BY <1>5, Apart DEF Names
  <2>2. Tries(c)
    BY <1>5, Apart DEF Effect
  <2>3. PICK occupant : slots' = [slots EXCEPT !["canary"] = Occupied("canary", occupant)] /\ scope' = scope
    BY <2>2, Zenon DEF Tries
  <2>4. slots' = [k \in Kinds |-> slots'[k]] /\ \A k \in Kinds : k # "canary" => slots'[k] = slots[k]
    BY <2>3
  <2>5. OnwardOrSame(slots'["canary"], "canary")
    BY <1>3, <2>3
  <2> QED
    BY <2>1, <2>3, <2>4, <2>5 DEF OnwardOrSame
<1>6. CASE c.action \in Monitoring
  <2>1. Names(c.action) = {"monitor", "requalification"} /\ c.action \notin Transitions \cup Canary
    BY <1>6, Apart DEF Names
  <2>2. Concludes(c)
    BY <1>6, Apart DEF Effect
  <2>3. PICK window : /\ window = Emptied("requalification")
                         \/ \E occupant : window = Occupied("requalification", occupant)
                      /\ slots' = [slots EXCEPT !["monitor"] = Emptied("monitor"), !["requalification"] = window]
                      /\ scope' = scope
    BY <2>2, Zenon DEF Concludes
  <2>4. /\ slots' = [k \in Kinds |-> slots'[k]]
        /\ slots'["canary"] = slots["canary"]
        /\ slots'["monitor"] = Emptied("monitor")
        /\ slots'["requalification"] = window
    BY <2>3
  <2>5. OnwardOrSame(slots'["monitor"], "monitor") /\ OnwardOrSame(slots'["requalification"], "requalification")
    BY <1>3, <2>3, <2>4
  <2> QED
    BY <2>1, <2>3, <2>4, <2>5 DEF OnwardOrSame
<1>7. CASE c.action \notin Transitions \cup Canary \cup Monitoring
  <2>1. slots' = slots /\ scope' = scope
    BY <1>7 DEF Effect, Works, Calibrates, Assesses
  <2> QED
    BY <1>7, <2>1
<1> QED
  BY <1>4, <1>5, <1>6, <1>7

\* What was found in a slot is of an earlier revision than what is there, and so is the
\* scope a transition was made of.
Followed ==
    /\ scope \in Nat
    /\ slots = [k \in Kinds |-> slots[k]]
    /\ \A k \in Kinds : slots[k].revision \in Nat
    /\ \A k \in Kinds : \A a \in Moves(k) : Saw(a, k).revision \in Nat /\ Saw(a, k).revision < slots[k].revision
    /\ \A a \in Transited : Command(a.request).revision \in Nat /\ Command(a.request).revision < scope
    /\ SlotsFollowCommands

LEMMA FollowedInductive == Followed /\ [CommandNext]_commandVars => Followed'
<1> SUFFICES ASSUME Followed, [CommandNext]_commandVars PROVE Followed'
  OBVIOUS
<1>1. ASSUME NEW p \in Process, ExecuteCommand(p) PROVE Followed'
  <2> DEFINE q == Req(p)
             c == Command(q)
             r == CommandReceipt(q)
  <2>1. commands' = commands \cup {r} /\ Allowed(c, q.body) /\ Effect(q)
    BY <1>1 DEF ExecuteCommand
  <2>2. /\ slots' = [k \in Kinds |-> slots'[k]]
        /\ \A k \in Kinds : slots'[k] = slots[k] \/ (k \in Names(c.action) /\ Moved(k))
        /\ scope' = IF c.action \in Transitions THEN scope + 1 ELSE scope
    BY <2>1, EffectMoves DEF Followed
  <2>3. Command(r.request) = c
    BY DEF CommandReceipt
  <2>4. \A k \in Names(c.action) : Saw(r, k) = slots[k] /\ Left(r, k) = slots'[k]
    BY <2>1 DEF Allowed, ScopeHolds, Saw, Left, CommandReceipt
  <2>5. c.action \in Transitions => c.revision = scope
    BY <2>1 DEF Allowed, ScopeHolds, Names, Transitions, Kinds
  <2> HIDE DEF r, c, q
  <2>6. ASSUME NEW k \in Kinds
        PROVE  Moves(k)' = IF slots'[k] = slots[k] THEN Moves(k) ELSE Moves(k) \cup {r}
    <3>1. Moves(k)' = {a \in commands \cup {r} : k \in Names(Command(a.request).action) /\ Left(a, k) # Saw(a, k)}
      BY <2>1 DEF Moves, Names, Command, Left, Saw
    <3>2. k \in Names(c.action) => (Left(r, k) # Saw(r, k) <=> slots'[k] # slots[k])
      BY <2>4
    <3> QED
      BY <2>2, <2>3, <3>1, <3>2 DEF Moves
  <2>7. Transited' = IF c.action \in Transitions THEN Transited \cup {r} ELSE Transited
    BY <2>1, <2>3 DEF Transited, Command
  <2>8. (\A k \in Kinds : slots[k].revision \in Nat)'
    BY <2>2 DEF Followed, Moved
  <2>9. ASSUME NEW k \in Kinds
        PROVE  /\ \A a \in Moves(k)' : Saw(a, k).revision \in Nat /\ Saw(a, k).revision < slots'[k].revision
               /\ \A a, b \in Moves(k)' : Saw(a, k) = Saw(b, k) => a = b
               /\ \A found \in {slots'[k]} \cup {Saw(a, k) : a \in Moves(k)'} :
                     found.revision # 0 => \E a \in Moves(k)' : Left(a, k) = found
    <3>1. /\ slots[k].revision \in Nat
          /\ \A a \in Moves(k) : Saw(a, k).revision \in Nat /\ Saw(a, k).revision < slots[k].revision
          /\ \A a, b \in Moves(k) : Saw(a, k) = Saw(b, k) => a = b
          /\ \A found \in {slots[k]} \cup {Saw(a, k) : a \in Moves(k)} :
                found.revision # 0 => \E a \in Moves(k) : Left(a, k) = found
      BY DEF Followed, SlotsFollowCommands
    <3>2. CASE slots'[k] = slots[k]
      BY <2>6, <3>1, <3>2
    <3>3. CASE slots'[k] # slots[k]
      <4>1. Saw(r, k) = slots[k] /\ Left(r, k) = slots'[k] /\ Moved(k)
        BY <2>2, <2>4, <3>3
      <4>2. Moves(k)' = Moves(k) \cup {r}
        BY <2>6, <3>3
      <4>3. \A a \in Moves(k) : Saw(a, k) # Saw(r, k)
        BY <3>1, <4>1
      <4>4. \A a \in Moves(k)' : Saw(a, k).revision \in Nat /\ Saw(a, k).revision < slots'[k].revision
        BY <3>1, <4>1, <4>2 DEF Moved
      <4>5. \A a, b \in Moves(k)' : Saw(a, k) = Saw(b, k) => a = b
        BY <3>1, <4>2, <4>3
      <4>6. \A found \in {slots'[k]} \cup {Saw(a, k) : a \in Moves(k)'} :
                found.revision # 0 => \E a \in Moves(k)' : Left(a, k) = found
        BY <3>1, <4>1, <4>2
      <4> QED
        BY <4>4, <4>5, <4>6
    <3> QED
      BY <3>2, <3>3
  <2>10. /\ \A a \in Transited' : Command(a.request).revision \in Nat /\ Command(a.request).revision < scope'
         /\ \A a, b \in Transited' : Command(a.request).revision = Command(b.request).revision => a = b
    BY <2>2, <2>3, <2>5, <2>7 DEF Followed, SlotsFollowCommands
  <2>11. scope' \in Nat
    BY <2>2 DEF Followed
  <2> QED
    BY <2>2, <2>8, <2>9, <2>10, <2>11 DEF Followed, SlotsFollowCommands, Saw, Left, Command
<1>2. CASE UNCHANGED journal
  <2>1. Transited' = Transited /\ \A k \in Kinds : Moves(k)' = Moves(k)
    BY <1>2 DEF journal, Moves, Transited, Saw, Left, Names, Command
  <2> QED
    BY <1>2, <2>1 DEF journal, Followed, SlotsFollowCommands, Saw, Left, Command
<1> QED
  BY <1>1, <1>2, StepExecutes

\* Every accepted command took a slot on from where another had left it: whatever was in
\* a slot when an operator looked is what one command left there, and only one command
\* was accepted on the strength of it.
THEOREM SlotsAreFollowed == CommandSpec => []SlotsFollowCommands
<1>1. CommandInit => Followed
  BY DEF CommandInit, Followed, SlotsFollowCommands, Moves, Transited
<1>2. Followed => SlotsFollowCommands
  BY DEF Followed
<1> QED
  BY <1>1, <1>2, FollowedInductive, PTL DEF CommandSpec

-----------------------------------------------------------------------------
(* Annotations *)

\* Every annotation that corrects or withdraws another was checked against it, and
\* an annotation is never changed.
Lineages ==
    \A a \in assessments : a.prior # None =>
        /\ a.prior \in assessments
        /\ a.prior.by = a.by
        /\ a.prior.evidence = a.evidence
        /\ a.prior.annotation.profile = a.annotation.profile
        /\ a.prior.annotation.kind = a.annotation.kind

LEMMA LineagesInductive == Lineages /\ [CommandNext]_commandVars => Lineages'
<1> SUFFICES ASSUME Lineages, [CommandNext]_commandVars PROVE Lineages'
  OBVIOUS
<1>1. ASSUME NEW p \in Process, ExecuteCommand(p) PROVE Lineages'
  <2> DEFINE q == Req(p)
             c == Command(q)
  <2>1. Allowed(c, q.body) /\ Effect(q)
    BY <1>1 DEF ExecuteCommand
  <2>2. CASE c.action \in Transitions \cup Canary \cup Monitoring \cup WorkActions \/ Local(c.action)
    <3>1. assessments' = assessments
      BY <2>1, <2>2 DEF Effect, Transits, Tries, Concludes, Works, Calibrates
    <3> QED
      BY <3>1 DEF Lineages
  <2>3. CASE ~(c.action \in Transitions \cup Canary \cup Monitoring \cup WorkActions \/ Local(c.action))
    <3>1. PriorHolds(c, q.body)
      BY <2>1, <2>3 DEF Allowed
    <3>2. assessments' = assessments \cup {Assessment(q)}
      BY <2>1, <2>3 DEF Effect, Assesses
    <3>3. /\ Assessment(q).by = c.by /\ Assessment(q).evidence = c.target
          /\ Assessment(q).annotation = q.body.annotation /\ Assessment(q).prior = q.body.prior
      BY DEF Assessment
    <3>4. Assessment(q).prior # None =>
             /\ Assessment(q).prior \in assessments
             /\ Assessment(q).prior.by = Assessment(q).by
             /\ Assessment(q).prior.evidence = Assessment(q).evidence
             /\ Assessment(q).prior.annotation.profile = Assessment(q).annotation.profile
             /\ Assessment(q).prior.annotation.kind = Assessment(q).annotation.kind
      BY <3>1, <3>3 DEF PriorHolds
    <3> QED
      BY <3>2, <3>4 DEF Lineages
  <2> QED
    BY <2>2, <2>3
<1>2. CASE UNCHANGED journal
  BY <1>2 DEF journal, Lineages
<1> QED
  BY <1>1, <1>2, StepExecutes

\* However annotations were interleaved, corrected and withdrawn, the reduction of
\* those about one evidence and one profile never meets a lineage it cannot read.
THEOREM FeedbackReduces == CommandSpec => []ReductionIsTotal
<1>1. CommandInit => Lineages
  BY DEF CommandInit, Lineages
<1>2. Lineages => ReductionIsTotal
  BY DEF Lineages, ReductionIsTotal, Reducible, About
<1> QED
  BY <1>1, <1>2, LineagesInductive, PTL DEF CommandSpec


-----------------------------------------------------------------------------
(* Requests *)

\* What a request keeps, and what an accepted command is kept as.
Shaped ==
    /\ DOMAIN request = Request
    /\ \A p \in Request :
          request[p] = [at |-> request[p].at, grant |-> request[p].grant, now |-> request[p].now,
                        seal |-> request[p].seal, receipt |-> request[p].receipt]
    /\ \A a \in accepted : a = [grant |-> a.grant, receipt |-> a.receipt]

\* A step of a request moves that request only, and it keeps its grant or ends.
Goes(p, at, seal, receipt) ==
    /\ request'[p].at = at
    /\ request'[p].grant = request[p].grant
    /\ request'[p].seal = seal
    /\ request'[p].receipt = receipt

Others(p) == DOMAIN request' = Request /\ \A q \in Request \ {p} : request'[q] = request[q]

Intact(p) ==
    request'[p] = [at |-> request'[p].at, grant |-> request'[p].grant, now |-> request'[p].now,
                   seal |-> request'[p].seal, receipt |-> request'[p].receipt]

LEMMA Going ==
    ASSUME Shaped, NEW p \in Request, NEW at, Goto(p, at)
    PROVE  Goes(p, at, request[p].seal, request[p].receipt) /\ Others(p) /\ Intact(p)
BY DEF Shaped, Goto, Goes, Others, Intact

LEMMA Dropping ==
    ASSUME Shaped, NEW p \in Request, Drop(p)
    PROVE  request'[p].at = "idle" /\ Others(p) /\ Intact(p)
BY DEF Shaped, Drop, Idle, Others, Intact

LEMMA Sealing ==
    ASSUME Shaped, NEW p \in Request, NEW at, NEW seal,
           request' = [request EXCEPT ![p].at = at, ![p].seal = seal]
    PROVE  Goes(p, at, seal, request[p].receipt) /\ Others(p) /\ Intact(p)
<1>1. request'[p] = [[request[p] EXCEPT !.at = at] EXCEPT !.seal = seal]
  BY DEF Shaped
<1>2. Others(p)
  BY DEF Shaped, Others
<1> QED
  BY <1>1, <1>2 DEF Shaped, Goes, Intact

LEMMA Finalizing ==
    ASSUME Shaped, NEW p \in Request, NEW at, NEW receipt,
           request' = [request EXCEPT ![p].at = at, ![p].receipt = receipt]
    PROVE  Goes(p, at, request[p].seal, receipt) /\ Others(p) /\ Intact(p)
<1>1. request'[p] = [[request[p] EXCEPT !.at = at] EXCEPT !.receipt = receipt]
  BY DEF Shaped
<1>2. Others(p)
  BY DEF Shaped, Others
<1> QED
  BY <1>1, <1>2 DEF Shaped, Goes, Intact

LEMMA Submitting ==
    ASSUME Shaped, NEW p \in Request, NEW g, Submit(p, g)
    PROVE  /\ request'[p].at = "admitted" /\ request'[p].grant = g
           /\ Others(p) /\ Intact(p)
BY DEF Shaped, Submit, Idle, Others, Intact

-----------------------------------------------------------------------------
(* The journal of commands *)

Writing   == {"sealing_cipher", "sealing_key", "executed"}
Unlinking == {"unlinking_cipher", "unlinking_key"}

\* One request at a time is in a transaction, and nobody else accepts a command
\* under its key meanwhile; a request that unlinks was accepted.
Journal ==
    /\ Shaped
    /\ AcceptedIsRecorded
    /\ \A p \in Request :
          /\ request[p].at \in Writing =>
                writer = p /\ \A a \in accepted : Under(a.grant.command) # Under(Cmd(p))
          /\ request[p].at \in Unlinking =>
                [grant |-> request[p].grant, receipt |-> request[p].receipt] \in accepted

\* A step that accepts and answers nothing: the request goes on in its transaction,
\* or unlinks, as it did before, or waits.
LEMMA Quiet ==
    ASSUME Journal, NEW p \in Request, UNCHANGED <<accepted, told>>,
           Others(p), Intact(p),
           request'[p].at \in Writing =>
              /\ request[p].at \in Writing /\ request'[p].grant = request[p].grant,
           request'[p].at \in Unlinking =>
              /\ request[p].at \in Unlinking /\ request'[p].grant = request[p].grant
              /\ request'[p].receipt = request[p].receipt,
           \A q \in Request : request'[q].at \in Writing /\ request[q].at \in Writing => writer' = writer
    PROVE  Journal'
<1>1. Shaped'
  BY DEF Journal, Shaped, Others, Intact
<1>2. AcceptedIsRecorded'
  BY DEF Journal, AcceptedIsRecorded
<1>3. ASSUME NEW q \in Request
      PROVE  /\ request'[q].at \in Writing =>
                  writer' = q /\ \A a \in accepted : Under(a.grant.command) # Under(request'[q].grant.command)
             /\ request'[q].at \in Unlinking =>
                  [grant |-> request'[q].grant, receipt |-> request'[q].receipt] \in accepted
  <2>1. CASE q = p
    BY <2>1 DEF Journal, Cmd
  <2>2. CASE q # p
    BY <2>2 DEF Journal, Others, Cmd
  <2> QED
    BY <2>1, <2>2
<1> QED
  BY <1>1, <1>2, <1>3 DEF Journal, Cmd

LEMMA JournalInductive == Journal /\ [Next]_vars => Journal'
<1> SUFFICES ASSUME Journal, [Next]_vars PROVE Journal'
  OBVIOUS
<1> USE NobodyAssumption
<1>0. Shaped
  BY DEF Journal
<1>1. ASSUME UNCHANGED <<accepted, told, request, writer>> PROVE Journal'
  BY <1>1 DEF Journal, Shaped, AcceptedIsRecorded, Cmd, Under
<1>2. ASSUME NEW p \in Request, Handle(p) PROVE Journal'
  <2>1. ASSUME NEW g, Submit(p, g) PROVE Journal'
    BY <1>0, <2>1, Submitting, Quiet DEF Submit, ledger, Writing, Unlinking
  <2>2. CASE Replay(p)
    <3>1. PICK a \in accepted :
             /\ a.grant = request[p].grant
             /\ IF Finalizes(Cmd(p))
                  THEN /\ request' = [request EXCEPT ![p].at = "unlinking_cipher", ![p].receipt = a.receipt]
                       /\ UNCHANGED told
                  ELSE Answer(p, a.receipt)
      BY <2>2 DEF Replay, Prior, SameRequest
    <3>2. a = [grant |-> request[p].grant, receipt |-> a.receipt]
      BY <1>0, <3>1 DEF Shaped
    <3>3. UNCHANGED <<accepted, writer>>
      BY <2>2 DEF Replay, ledger
    <3>4. CASE Finalizes(Cmd(p))
      <4>1. Goes(p, "unlinking_cipher", request[p].seal, a.receipt) /\ Others(p) /\ Intact(p)
        BY <1>0, <3>1, <3>4, Finalizing
      <4> QED
        BY <3>1, <3>2, <3>3, <3>4, <4>1
        DEF Journal, Shaped, AcceptedIsRecorded, Goes, Others, Intact, Writing, Unlinking, Cmd
    <3>5. CASE ~Finalizes(Cmd(p))
      <4>1. request'[p].at = "idle" /\ Others(p) /\ Intact(p)
        BY <1>0, <3>1, <3>5, Dropping DEF Answer
      <4>2. told' = told \cup {a}
        BY <3>1, <3>2, <3>5 DEF Answer
      <4> QED
        BY <3>1, <3>3, <4>1, <4>2
        DEF Journal, Shaped, AcceptedIsRecorded, Others, Intact, Writing, Unlinking, Cmd
    <3> QED
      BY <3>4, <3>5
  <2>3. CASE Execute(p)
    <3> DEFINE at == IF Cmd(p).action = "fixture_draft" THEN "sealing_cipher" ELSE "executed"
    <3>1. Goes(p, at, request[p].seal, request[p].receipt) /\ Others(p) /\ Intact(p)
      BY <1>0, <2>3, Going DEF Execute
    <3>2. at \in Writing /\ at \notin Unlinking
      BY DEF Writing, Unlinking
    <3>3. \A q \in Request : request[q].at \notin Writing
      BY <2>3 DEF Journal, Execute
    <3>4. \A a \in accepted : Under(a.grant.command) # Under(Cmd(p))
      BY <2>3 DEF Execute, Prior
    <3>5. writer' = p /\ UNCHANGED <<accepted, told>>
      BY <2>3 DEF Execute, ledger
    <3> HIDE DEF at
    <3> QED
      BY <3>1, <3>2, <3>3, <3>4, <3>5
      DEF Journal, Shaped, AcceptedIsRecorded, Goes, Others, Intact, Cmd
  <2>4. CASE Refuse(p)
    BY <1>0, <2>4, Dropping, Quiet DEF Refuse, ledger, Writing, Unlinking
  <2>5. CASE SealCipher(p)
    <3>1. UNCHANGED <<accepted, told>> /\ request[p].at = "sealing_cipher"
      BY <2>5 DEF SealCipher, ledger
    <3>2. ASSUME NEW at \in Writing, NEW seal,
                 request' = [request EXCEPT ![p].at = at, ![p].seal = seal], UNCHANGED writer
          PROVE  Journal'
      BY <1>0, <3>1, <3>2, Sealing, Quiet DEF Goes, Writing, Unlinking
    <3>3. ASSUME Rollback(p) PROVE Journal'
      <4>1. \A q \in Request : q # p => request[q].at \notin Writing
        BY <3>1 DEF Journal, Writing
      <4> QED
        BY <1>0, <3>1, <3>3, <4>1, Dropping, Quiet DEF Rollback, Writing, Unlinking
    <3> QED
      BY <2>5, <3>2, <3>3 DEF SealCipher, Writing
  <2>6. CASE SealKey(p)
    <3>1. UNCHANGED <<accepted, told>> /\ request[p].at = "sealing_key"
      BY <2>6 DEF SealKey, ledger
    <3>2. ASSUME Goto(p, "executed"), UNCHANGED writer PROVE Journal'
      BY <1>0, <3>1, <3>2, Going, Quiet DEF Goes, Writing, Unlinking
    <3>3. ASSUME Rollback(p) PROVE Journal'
      <4>1. \A q \in Request : q # p => request[q].at \notin Writing
        BY <3>1 DEF Journal, Writing
      <4> QED
        BY <1>0, <3>1, <3>3, <4>1, Dropping, Quiet DEF Rollback, Writing, Unlinking
    <3> QED
      BY <2>6, <3>2, <3>3 DEF SealKey
  <2>7. CASE Commit(p)
    <3> DEFINE receipt == Receipt(Cmd(p), request[p].seal)
               new == [grant |-> request[p].grant, receipt |-> receipt]
    <3>1. /\ request[p].at = "executed" /\ writer = p
          /\ \A a \in accepted : Under(a.grant.command) # Under(new.grant.command)
          /\ \A q \in Request : q # p => request[q].at \notin Writing
      BY <2>7 DEF Journal, Commit, Writing, Cmd
    <3>2. accepted' = accepted \cup {new}
      BY <2>7 DEF Commit
    <3>3. new = [grant |-> new.grant, receipt |-> new.receipt]
      OBVIOUS
    <3>4. CASE Finalizes(Cmd(p))
      <4>1. Goes(p, "unlinking_cipher", request[p].seal, receipt) /\ Others(p) /\ Intact(p)
        BY <1>0, <2>7, <3>4, Finalizing DEF Commit
      <4>2. told' = told
        BY <2>7, <3>4 DEF Commit
      <4>3. [grant |-> request'[p].grant, receipt |-> request'[p].receipt] = new
        BY <4>1 DEF Goes
      <4>4. request'[p].at = "unlinking_cipher"
        BY <4>1 DEF Goes
      <4> HIDE DEF new, receipt
      <4> QED
        BY <3>1, <3>2, <3>3, <4>1, <4>2, <4>3, <4>4
        DEF Journal, Shaped, AcceptedIsRecorded, Others, Intact, Writing, Unlinking, Cmd
    <3>5. CASE ~Finalizes(Cmd(p))
      <4>1. request'[p].at = "idle" /\ Others(p) /\ Intact(p) /\ told' = told \cup {new}
        BY <1>0, <2>7, <3>5, Dropping DEF Commit, Answer
      <4> HIDE DEF new, receipt
      <4> QED
        BY <3>1, <3>2, <3>3, <4>1
        DEF Journal, Shaped, AcceptedIsRecorded, Others, Intact, Writing, Unlinking, Cmd
    <3> QED
      BY <3>4, <3>5
  <2>8. CASE UnlinkCipher(p)
    BY <1>0, <2>8, Going, Quiet DEF UnlinkCipher, ledger, Goes, Writing, Unlinking
  <2>9. CASE UnlinkKey(p)
    <3>1. request'[p].at = "idle" /\ Others(p) /\ Intact(p) /\ UNCHANGED <<accepted, writer>>
      BY <1>0, <2>9, Dropping DEF UnlinkKey, Answer, ledger
    <3>2. \A t \in told' : t \in accepted
      BY <2>9 DEF Journal, AcceptedIsRecorded, UnlinkKey, Answer, Unlinking
    <3> QED
      BY <3>1, <3>2 DEF Journal, Shaped, AcceptedIsRecorded, Others, Intact, Writing, Unlinking, Cmd
  <2>10. CASE Stop(p)
    <3>1. request'[p].at = "idle" /\ Others(p) /\ Intact(p) /\ UNCHANGED <<accepted, told>>
      BY <1>0, <2>10, Dropping DEF Stop, Rollback, ledger
    <3>2. \A q \in Request : request'[q].at \in Writing /\ request[q].at \in Writing => writer' = writer
      <4>1. CASE writer = p
        BY <3>1, <4>1 DEF Journal, Others, Writing
      <4>2. CASE writer # p
        BY <2>10, <4>2 DEF Stop
      <4> QED
        BY <4>1, <4>2
    <3> QED
      BY <3>1, <3>2, Quiet DEF Writing, Unlinking
  <2> QED
    BY <1>2, <2>1, <2>2, <2>3, <2>4, <2>5, <2>6, <2>7, <2>8, <2>9, <2>10 DEF Handle
<1> QED
  BY <1>1, <1>2 DEF Next, vars, ledger

LEMMA JournalHolds == Spec => []Journal
<1>1. Init => Journal
  BY DEF Init, Journal, Shaped, AcceptedIsRecorded, Idle, Writing, Unlinking
<1> QED
  BY <1>1, JournalInductive, PTL DEF Spec

\* There is one command of a person and an action under a key, and whoever is
\* answered, having made it, repeated it or raced with it, is told its receipt.
THEOREM AnswersAreRecorded == Spec => []AcceptedIsRecorded
<1>1. Journal => AcceptedIsRecorded
  BY DEF Journal
<1> QED
  BY <1>1, JournalHolds, PTL

-----------------------------------------------------------------------------
(* The history of a draft *)

\* A step of a request admits a new one, ends it, or goes on with its grant; only
\* Execute opens a transaction.
LEMMA Handled ==
    ASSUME Shaped, NEW p \in Request, Handle(p)
    PROVE  /\ Others(p)
           /\ \/ request'[p].at = "idle"
              \/ /\ request'[p].at = "admitted"
                 /\ \E g \in Grants(Commands) : request'[p].grant = g
              \/ /\ request'[p].grant = request[p].grant
                 /\ request[p].at # "idle"
                 /\ request'[p].at \in Writing => request[p].at \in Writing \/ Execute(p)
<1> USE DEF Writing
<1>1. ASSUME NEW g \in Grants(Commands), Submit(p, g)
      PROVE  Others(p) /\ request'[p].at = "admitted" /\ request'[p].grant = g
  BY <1>1, Submitting
<1>2. CASE Replay(p)
  BY <1>2, Dropping, Finalizing DEF Replay, Answer, Goes
<1>3. CASE Execute(p)
  BY <1>3, Going DEF Execute, Goes
<1>4. CASE Refuse(p) \/ UnlinkKey(p)
  BY <1>4, Dropping DEF Refuse, UnlinkKey, Answer
<1>5. CASE SealCipher(p)
  <2>1. request[p].at = "sealing_cipher"
    BY <1>5 DEF SealCipher
  <2>2. CASE request' = [request EXCEPT ![p].at = "sealing_key", ![p].seal = seals + 1]
    BY <2>1, <2>2, Sealing DEF Goes
  <2>3. CASE request' = [request EXCEPT ![p].at = "executed", ![p].seal = cipher[Ref(p)]]
    BY <2>1, <2>3, Sealing DEF Goes
  <2>4. CASE Drop(p)
    BY <2>4, Dropping
  <2> QED
    BY <1>5, <2>2, <2>3, <2>4 DEF SealCipher, Rollback
<1>6. CASE SealKey(p)
  BY <1>6, Going, Dropping DEF SealKey, Rollback, Goes
<1>7. CASE Commit(p)
  BY <1>7, Finalizing, Dropping DEF Commit, Answer, Goes
<1>8. CASE UnlinkCipher(p)
  BY <1>8, Going DEF UnlinkCipher, Goes
<1>9. CASE Stop(p)
  BY <1>9, Dropping DEF Stop, Rollback
<1> QED
  BY <1>1, <1>2, <1>3, <1>4, <1>5, <1>6, <1>7, <1>8, <1>9 DEF Handle

\* What a command names is recorded, and is not removed.
Named(c) ==
    /\ c.action \in {"fixture_draft", "fixture_review", "fixture_admit", "fixture_withdraw"}
    /\ c.action # "fixture_draft" => c.target \in drafts
    /\ c.action = "fixture_admit" => c.review \in reviews

\* What a transaction asked holds until it ends: nobody else writes.
Ready(c) ==
    /\ c.action = "fixture_admit" =>
          c.review.draft = c.target /\ c.review.by # c.target.author /\ events[c.target] = <<>>
    /\ c.action = "fixture_withdraw" => Fate(c.target) = <<"fixture_admitted">>

Admission(d, r) ==
    /\ r.type = "fixture_admitted"
    /\ r.review \in reviews /\ r.review.draft = d /\ r.review.by # d.author

History(d) ==
    \/ events[d] = <<>>
    \/ \E r : events[d] = <<r>> /\ Admission(d, r)
    \/ \E r, s : events[d] = <<r, s>> /\ Admission(d, r) /\ s.type = "fixture_withdrawn"

Histories ==
    /\ DOMAIN events = drafts
    /\ \A d \in drafts : History(d)
    /\ \A p \in Request :
          /\ request[p].at # "idle" => Named(Cmd(p))
          /\ request[p].at \in Writing => Ready(Cmd(p))

LEMMA AppendToOne == ASSUME NEW r, NEW s PROVE Append(<<r>>, s) = <<r, s>>
<1> DEFINE x == Append(<<r>>, s)
           y == <<r, s>>
<1>1. <<r>> \in Seq({r, s}) /\ x \in Seq({r, s}) /\ y \in Seq({r, s})
  OBVIOUS
<1>2. Len(x) = 2 /\ x[1] = r /\ x[2] = s
  BY <1>1
<1>3. Len(y) = 2 /\ y[1] = r /\ y[2] = s
  OBVIOUS
<1> HIDE DEF x, y
<1>4. \A i \in 1..Len(x) : x[i] = y[i]
  BY <1>2, <1>3
<1>5. x = y
  BY <1>1, <1>2, <1>3, <1>4, SeqEqual
<1> QED
  BY <1>5 DEF x, y

LEMMA GrantsName ==
    ASSUME NEW g \in Grants(Commands) PROVE Named(g.command)
<1>1. g.command \in Commands
  BY DEF Grants
<1> QED
  BY <1>1 DEF Commands, Named, Draft, Review, Admit, Withdraw

LEMMA HistoriesInductive == Journal /\ Histories /\ [Next]_vars => Histories'
<1> SUFFICES ASSUME Journal, Histories, [Next]_vars PROVE Histories'
  OBVIOUS
<1>0. Shaped
  BY DEF Journal
<1>1. ASSUME UNCHANGED <<drafts, reviews, events, request>> PROVE Histories'
  <2>1. \A d \in drafts' : History(d)'
    BY <1>1 DEF Histories, History, Admission
  <2>2. \A p \in Request : (request[p].at # "idle" => Named(Cmd(p)))'
    BY <1>1 DEF Histories, Named, Cmd
  <2>3. \A p \in Request : (request[p].at \in Writing => Ready(Cmd(p)))'
    BY <1>1 DEF Histories, Ready, Fate, Cmd
  <2> QED
    BY <1>1, <2>1, <2>2, <2>3 DEF Histories
<1>2. ASSUME NEW p \in Request, Handle(p) PROVE Histories'
  <2>1. CASE UNCHANGED <<drafts, reviews, events>>
    <3>1. \A d \in drafts : History(d)'
      BY <2>1 DEF Histories, History, Admission
    <3>2. \A c : (Named(c) => Named(c)') /\ (Ready(c) => Ready(c)')
      BY <2>1 DEF Named, Ready, Fate
    <3>3. Execute(p) => Ready(Cmd(p))
      <4>1. SUFFICES ASSUME Execute(p), Named(Cmd(p)) PROVE Ready(Cmd(p))
        BY DEF Execute, Histories
      <4> QED
        BY <4>1 DEF Execute, Permitted, Ready, Named, ReviewIsWhole, ReviewBinds
    <3>4. ASSUME NEW q \in Request
          PROVE  /\ request'[q].at # "idle" => Named(request'[q].grant.command)
                 /\ request'[q].at \in Writing => Ready(request'[q].grant.command)
      <4>1. CASE q = p
        BY <1>0, <1>2, <3>3, <4>1, Handled, GrantsName DEF Histories, Cmd, Writing
      <4>2. CASE q # p
        BY <1>0, <1>2, <4>2, Handled DEF Histories, Others, Cmd
      <4> QED
        BY <4>1, <4>2
    <3> QED
      BY <2>1, <3>1, <3>2, <3>4 DEF Histories, Cmd
  <2>2. CASE Commit(p)
    <3> DEFINE c == Cmd(p)
               receipt == Receipt(c, request[p].seal)
    <3>1. /\ request[p].at = "executed" /\ Named(c) /\ Ready(c) /\ Recorded(c, receipt)
          /\ \A q \in Request : q # p => request[q].at \notin Writing
      BY <2>2 DEF Journal, Histories, Commit, Writing
    <3>2. /\ request'[p].at \notin Writing
          /\ request'[p].at # "idle" => request'[p].grant = request[p].grant
          /\ Others(p)
      <4>1. CASE Finalizes(Cmd(p))
        <5>1. Goes(p, "unlinking_cipher", request[p].seal, receipt) /\ Others(p)
          BY <1>0, <2>2, <4>1, Finalizing DEF Commit
        <5> QED
          BY <5>1 DEF Goes, Writing
      <4>2. CASE ~Finalizes(Cmd(p))
        <5>1. request'[p].at = "idle" /\ Others(p)
          BY <1>0, <2>2, <4>2, Dropping DEF Commit, Answer
        <5> QED
          BY <5>1 DEF Writing
      <4> QED
        BY <4>1, <4>2
    <3>3. ASSUME drafts \subseteq drafts', reviews \subseteq reviews',
                 DOMAIN events' = drafts', \A d \in drafts' : History(d)'
          PROVE  Histories'
      <4>1. \A b : Named(b) => Named(b)'
        BY <3>3 DEF Named
      <4>2. ASSUME NEW q \in Request
            PROVE  /\ request'[q].at # "idle" => Named(request'[q].grant.command)
                   /\ request'[q].at \notin Writing
        <5>1. CASE q = p
          BY <3>1, <3>2, <5>1 DEF Cmd
        <5>2. CASE q # p
          BY <3>1, <3>2, <5>2 DEF Histories, Others, Cmd
        <5> QED
          BY <5>1, <5>2
      <4> QED
        BY <3>3, <4>1, <4>2 DEF Histories, Cmd
    <3>4. CASE c.action = "fixture_draft"
      <4>1. /\ drafts' = drafts \cup {receipt} /\ reviews' = reviews
            /\ events' = [d \in drafts' |-> IF d = receipt THEN <<>> ELSE events[d]]
        BY <3>1, <3>4 DEF Recorded
      <4>2. ASSUME NEW d \in drafts' PROVE History(d)'
        <5> HIDE DEF receipt
        <5>1. CASE d = receipt
          BY <4>1, <4>2, <5>1 DEF History
        <5>2. CASE d # receipt
          BY <4>1, <4>2, <5>2 DEF Histories, History, Admission
        <5> QED
          BY <5>1, <5>2
      <4> QED
        BY <3>3, <4>1, <4>2
    <3>5. CASE c.action = "fixture_review"
      <4>1. reviews \subseteq reviews' /\ UNCHANGED <<drafts, events>>
        BY <3>1, <3>5 DEF Recorded
      <4>2. \A d \in drafts' : History(d)'
        BY <4>1 DEF Histories, History, Admission
      <4> QED
        BY <3>3, <4>1, <4>2 DEF Histories
    <3>6. CASE c.action \in {"fixture_admit", "fixture_withdraw"}
      <4>0. PICK t, e : t = c.target /\ e = receipt
        OBVIOUS
      <4>1. /\ UNCHANGED <<drafts, reviews>> /\ t \in drafts
            /\ events' = [events EXCEPT ![t] = Append(@, e)]
        BY <3>1, <3>6, <4>0 DEF Recorded, Named
      <4>2. events'[t] = Append(events[t], e)
        BY <4>1 DEF Histories
      <4>3. ASSUME c.action = "fixture_admit" PROVE History(t)'
        <5>1. events'[t] = <<e>>
          <6>1. events[t] = <<>>
            BY <3>1, <4>0, <4>3 DEF Ready
          <6>2. Append(<<>>, e) = <<e>>
            OBVIOUS
          <6> QED
            BY <4>2, <6>1, <6>2
        <5>2. e.type = "fixture_admitted" /\ e.review = c.review
          BY <4>0, <4>3 DEF Receipt
        <5>3. Admission(t, e)'
          BY <3>1, <4>0, <4>1, <4>3, <5>2 DEF Ready, Named, Admission
        <5> QED
          BY <5>1, <5>3 DEF History
      <4>4. ASSUME c.action = "fixture_withdraw" PROVE History(t)'
        <5>1. PICK r : events[t] = <<r>> /\ Admission(t, r)
          <6>1. DOMAIN Fate(t) = DOMAIN events[t]
            BY DEF Fate
          <6>2. DOMAIN events[t] = 1..1
            BY <3>1, <4>0, <4>4, <6>1 DEF Ready
          <6>3. events[t] # <<>> /\ \A r, s : events[t] # <<r, s>>
            BY <6>2
          <6> QED
            BY <4>1, <6>3 DEF Histories, History
        <5>2. events'[t] = <<r, e>>
          BY <4>2, <5>1, AppendToOne
        <5>3. e.type = "fixture_withdrawn"
          BY <4>0, <4>4 DEF Receipt
        <5>4. Admission(t, r)'
          BY <4>1, <5>1 DEF Admission
        <5> QED
          BY <5>2, <5>3, <5>4 DEF History
      <4>5. ASSUME NEW d \in drafts, d # t PROVE History(d)'
        BY <4>1, <4>5 DEF Histories, History, Admission
      <4>6. History(t)'
        BY <3>6, <4>3, <4>4
      <4> QED
        BY <3>3, <4>1, <4>5, <4>6 DEF Histories
    <3> QED
      BY <3>1, <3>4, <3>5, <3>6 DEF Named
  <2> QED
    BY <1>2, <2>1, <2>2
    DEF Handle, Submit, Replay, Execute, Refuse, SealCipher, SealKey, UnlinkCipher, UnlinkKey, Stop, ledger
<1> QED
  BY <1>1, <1>2 DEF Next, vars, ledger

LEMMA HistoriesHold == Spec => []Histories
<1>1. Init => Histories
  BY DEF Init, Histories, Idle, Writing
<1> QED
  BY <1>1, HistoriesInductive, JournalHolds, PTL DEF Spec

\* A draft is admitted once and withdrawn once, in this order, and was reviewed
\* by somebody other than its author, whatever was submitted and raced.
THEOREM AdmissionsAreReviewed == Spec => []AdmittedWasReviewed
<1>1. ASSUME Histories, NEW d \in drafts
      PROVE  /\ Fate(d) \in {<<>>, <<"fixture_admitted">>, <<"fixture_admitted", "fixture_withdrawn">>}
             /\ \A i \in DOMAIN events[d] : events[d][i].type = "fixture_admitted" =>
                   LET r == events[d][i].review
                   IN  r \in reviews /\ r.draft = d /\ r.by # d.author
  <2>1. CASE events[d] = <<>>
    BY <2>1 DEF Fate
  <2>2. ASSUME NEW r, events[d] = <<r>>, Admission(d, r)
        PROVE  /\ Fate(d) = <<"fixture_admitted">>
               /\ \A i \in DOMAIN events[d] : events[d][i] = r
    BY <2>2 DEF Fate, Admission
  <2>3. ASSUME NEW r, NEW s, events[d] = <<r, s>>, Admission(d, r), s.type = "fixture_withdrawn"
        PROVE  /\ Fate(d) = <<"fixture_admitted", "fixture_withdrawn">>
               /\ \A i \in DOMAIN events[d] : events[d][i] = r \/ events[d][i] = s
    BY <2>3 DEF Fate, Admission
  <2> QED
    BY <1>1, <2>1, <2>2, <2>3 DEF Histories, History, Admission
<1>2. Histories => AdmittedWasReviewed
  BY <1>1 DEF AdmittedWasReviewed
<1> QED
  BY <1>2, HistoriesHold, PTL

-----------------------------------------------------------------------------
(* The content of a draft *)

\* The ciphertext a draft was sealed with is not in its place.
Gone(d) == cipher[VaultRef(d)] # d.seal

Draftlike(d) == \E by, key : \E a \in Authored : d = Drafted(a, by, key)

\* No seal is used twice, and each draft names one that was: a ciphertext that is
\* gone is gone for good.
Vaulted ==
    /\ seals \in Nat
    /\ DOMAIN cipher = Refs /\ \A v \in Refs : cipher[v] \in 0..seals
    /\ \A d \in drafts : VaultRef(d) \in Refs /\ d.seal \in 1..seals
    /\ \A p \in Request :
          /\ request[p].at # "idle" /\ Cmd(p).action = "fixture_draft" => Draftlike(Cmd(p).target)
          /\ request[p].at = "executed" /\ Cmd(p).action = "fixture_draft" => request[p].seal \in 1..seals
          /\ request[p].at = "sealing_key" => request[p].seal \in 1..seals
          /\ request[p].at \in Unlinking => Cmd(p).action = "fixture_withdraw"
          /\ request[p].at = "unlinking_key" => Gone(Cmd(p).target)
    /\ \A t \in told : t.grant.command.action = "fixture_withdraw" =>
          t.grant.command.target \in drafts /\ Gone(t.grant.command.target)

LEMMA DraftlikeRef ==
    ASSUME NEW d, Draftlike(d), NEW seal
    PROVE  /\ VaultRef(d) \in Refs
           /\ VaultRef([d EXCEPT !.seal = seal]) \in Refs /\ [d EXCEPT !.seal = seal].seal = seal
BY DEF Draftlike, Drafted, VaultRef, Refs

LEMMA GrantsDraft ==
    ASSUME NEW g \in Grants(Commands), g.command.action = "fixture_draft"
    PROVE  Draftlike(g.command.target)
<1>1. g.command \in Commands
  BY DEF Grants
<1> QED
  BY <1>1 DEF Commands, Draftlike, Draft, Review, Admit, Withdraw

\* A step leaves the ciphertexts, adds one under a new seal, or unlinks one.
LEMMA CipherSteps ==
    ASSUME NEW p \in Request, Handle(p)
    PROVE  \/ UNCHANGED <<cipher, seals>>
           \/ seals' = seals + 1 /\ \E v : cipher' = [cipher EXCEPT ![v] = seals + 1]
           \/ seals' = seals /\ \E v : cipher' = [cipher EXCEPT ![v] = 0]
<1>1. CASE SealCipher(p)
  BY <1>1 DEF SealCipher
<1>2. CASE SealKey(p)
  BY <1>2 DEF SealKey
<1>3. CASE UnlinkCipher(p)
  BY <1>3 DEF UnlinkCipher
<1>4. CASE UnlinkKey(p)
  BY <1>4 DEF UnlinkKey
<1> QED
  BY <1>1, <1>2, <1>3, <1>4 DEF Handle, Submit, Replay, Execute, Refuse, Commit, Stop, vault

LEMMA CiphersInductive ==
    ASSUME Vaulted,
           \/ UNCHANGED <<cipher, seals>>
           \/ seals' = seals + 1 /\ \E v : cipher' = [cipher EXCEPT ![v] = seals + 1]
           \/ seals' = seals /\ \E v : cipher' = [cipher EXCEPT ![v] = 0]
    PROVE  /\ seals' \in Nat /\ seals <= seals'
           /\ DOMAIN cipher' = Refs /\ \A v \in Refs : cipher'[v] \in 0..seals'
           /\ \A d \in drafts : Gone(d) => Gone(d)'
<1>1. CASE UNCHANGED <<cipher, seals>>
  BY <1>1 DEF Vaulted, Gone
<1>2. ASSUME NEW v, seals' = seals + 1, cipher' = [cipher EXCEPT ![v] = seals + 1]
      PROVE  /\ seals' \in Nat /\ seals <= seals'
             /\ DOMAIN cipher' = Refs /\ \A u \in Refs : cipher'[u] \in 0..seals'
             /\ \A d \in drafts : Gone(d) => Gone(d)'
  BY <1>2 DEF Vaulted, Gone
<1>3. ASSUME NEW v, seals' = seals, cipher' = [cipher EXCEPT ![v] = 0]
      PROVE  /\ seals' \in Nat /\ seals <= seals'
             /\ DOMAIN cipher' = Refs /\ \A u \in Refs : cipher'[u] \in 0..seals'
             /\ \A d \in drafts : Gone(d) => Gone(d)'
  BY <1>3 DEF Vaulted, Gone
<1> QED
  BY <1>1, <1>2, <1>3

\* Only the commit of a draft adds one, and under the seal of its request.
LEMMA StepDrafts ==
    ASSUME Journal, Histories, Vaulted, NEW p \in Request, Handle(p)
    PROVE  /\ drafts \subseteq drafts'
           /\ \A d \in drafts' \ drafts : VaultRef(d) \in Refs /\ d.seal \in 1..seals
<1>1. CASE Commit(p)
  <2> DEFINE c == Cmd(p)
  <2>1. /\ request[p].at = "executed" /\ Named(c) /\ Recorded(c, Receipt(c, request[p].seal))
    BY <1>1 DEF Commit, Histories
  <2>2. CASE c.action = "fixture_draft"
    <3>1. drafts' = drafts \cup {[c.target EXCEPT !.seal = request[p].seal]}
      BY <2>1, <2>2 DEF Recorded, Receipt
    <3>2. Draftlike(c.target) /\ request[p].seal \in 1..seals
      BY <2>1, <2>2 DEF Vaulted
    <3> DEFINE d == [c.target EXCEPT !.seal = request[p].seal]
    <3>3. VaultRef(d) \in Refs /\ d.seal = request[p].seal
      BY <3>2, DraftlikeRef
    <3> HIDE DEF d
    <3> QED
      BY <3>1, <3>2, <3>3 DEF d
  <2>3. CASE c.action # "fixture_draft"
    <3>1. drafts' = drafts
      BY <2>1, <2>3 DEF Recorded
    <3> QED
      BY <3>1
  <2> QED
    BY <2>2, <2>3
<1> QED
  BY <1>1
  DEF Handle, Submit, Replay, Execute, Refuse, SealCipher, SealKey, UnlinkCipher, UnlinkKey, Stop, ledger

\* What the request of a step is left with.
LEMMA StepSeals ==
    ASSUME Journal, Histories, Vaulted, NEW p \in Request, Handle(p), request'[p].at # "idle",
           request'[p].grant = request[p].grant, request[p].at # "idle"
    PROVE  /\ request'[p].at = "executed" /\ Cmd(p).action = "fixture_draft" => request'[p].seal \in 1..seals'
           /\ request'[p].at = "sealing_key" => request'[p].seal \in 1..seals'
           /\ request'[p].at \in Unlinking => Cmd(p).action = "fixture_withdraw"
           /\ request'[p].at = "unlinking_key" =>
                 cipher'[VaultRef(Cmd(p).target)] # Cmd(p).target.seal
<1> USE DEF Unlinking
<1>0. Shaped
  BY DEF Journal
<1>1. ASSUME NEW g, Submit(p, g) PROVE FALSE
  <2>1. request[p] = Idle
    BY <1>1 DEF Submit
  <2> QED
    BY <2>1 DEF Idle
<1>2. CASE Replay(p)
  BY <1>0, <1>2, Dropping, Finalizing DEF Replay, Answer, Finalizes, Goes
<1>3. CASE Execute(p)
  BY <1>0, <1>3, Going DEF Execute, Goes
<1>4. CASE Refuse(p) \/ UnlinkKey(p) \/ Stop(p)
  BY <1>0, <1>4, Dropping DEF Refuse, UnlinkKey, Stop, Rollback, Answer
<1>5. CASE SealCipher(p)
  <2>1. CASE Rollback(p)
    BY <1>0, <2>1, Dropping DEF Rollback
  <2>2. CASE /\ seals' = seals + 1
             /\ request' = [request EXCEPT ![p].at = "sealing_key", ![p].seal = seals + 1]
    <3>1. Goes(p, "sealing_key", seals + 1, request[p].receipt)
      BY <1>0, <2>2, Sealing
    <3> QED
      BY <2>2, <3>1 DEF Goes, Vaulted
  <2>3. CASE /\ seals' = seals /\ Sealed(Ref(p))
             /\ request' = [request EXCEPT ![p].at = "executed", ![p].seal = cipher[Ref(p)]]
    <3>1. Goes(p, "executed", cipher[Ref(p)], request[p].receipt)
      BY <1>0, <2>3, Sealing
    <3>2. Cmd(p).action = "fixture_draft" => Ref(p) \in Refs
      BY DraftlikeRef DEF Vaulted, Ref
    <3> QED
      BY <2>3, <3>1, <3>2 DEF Goes, Vaulted, Sealed
  <2> QED
    BY <1>5, <2>1, <2>2, <2>3 DEF SealCipher
<1>6. CASE SealKey(p)
  <2>1. CASE Rollback(p)
    BY <1>0, <2>1, Dropping DEF Rollback
  <2>2. CASE Goto(p, "executed") /\ request[p].at = "sealing_key" /\ seals' = seals
    BY <1>0, <2>2, Going DEF Goes, Vaulted
  <2> QED
    BY <1>6, <2>1, <2>2 DEF SealKey
<1>7. CASE Commit(p)
  BY <1>0, <1>7, Finalizing, Dropping DEF Commit, Answer, Finalizes, Goes
<1>8. CASE UnlinkCipher(p)
  <2>1. Goes(p, "unlinking_key", request[p].seal, request[p].receipt)
    BY <1>0, <1>8, Going DEF UnlinkCipher
  <2>2. request[p].at = "unlinking_cipher" /\ cipher' = [cipher EXCEPT ![Ref(p)] = 0]
    BY <1>8 DEF UnlinkCipher
  <2>3. Cmd(p).action = "fixture_withdraw" /\ Cmd(p).target \in drafts
    BY <2>2 DEF Vaulted, Histories, Named
  <2>4. cipher'[VaultRef(Cmd(p).target)] = 0 /\ Cmd(p).target.seal \in 1..seals
    BY <2>2, <2>3 DEF Vaulted, Ref
  <2> QED
    BY <2>1, <2>3, <2>4 DEF Goes, Vaulted
<1> QED
  BY <1>1, <1>2, <1>3, <1>4, <1>5, <1>6, <1>7, <1>8 DEF Handle

\* A withdrawal is answered when its ciphertext was unlinked.
LEMMA StepTells ==
    ASSUME Journal, Histories, Vaulted, NEW p \in Request, Handle(p), NEW t \in told',
           t \notin told, t.grant.command.action = "fixture_withdraw"
    PROVE  t.grant.command.target \in drafts /\ Gone(t.grant.command.target)
<1>1. PICK receipt : t = [grant |-> request[p].grant, receipt |-> receipt]
                     /\ (UnlinkKey(p) \/ ~Finalizes(Cmd(p)))
  BY DEF Handle, Submit, Replay, Execute, Refuse, SealCipher, SealKey, Commit, UnlinkCipher,
         UnlinkKey, Stop, Answer
<1>2. UnlinkKey(p)
  BY <1>1 DEF Finalizes, Cmd
<1>3. request[p].at = "unlinking_key"
  BY <1>2 DEF UnlinkKey
<1> QED
  BY <1>1, <1>3 DEF Vaulted, Histories, Named, Unlinking, Cmd

LEMMA VaultInductive == Journal /\ Histories /\ Vaulted /\ [Next]_vars => Vaulted'
<1> SUFFICES ASSUME Journal, Histories, Vaulted, [Next]_vars PROVE Vaulted'
  OBVIOUS
<1>0. Shaped
  BY DEF Journal
<1>1. ASSUME UNCHANGED <<drafts, cipher, seals, request, told>> PROVE Vaulted'
  BY <1>1 DEF Vaulted, Gone, Cmd
<1>2. ASSUME NEW p \in Request, Handle(p) PROVE Vaulted'
  <2>1. /\ seals' \in Nat /\ seals <= seals' /\ seals \in Nat
        /\ DOMAIN cipher' = Refs /\ \A v \in Refs : cipher'[v] \in 0..seals'
        /\ \A d \in drafts : Gone(d) => Gone(d)'
    BY <1>2, CipherSteps, CiphersInductive DEF Vaulted
  <2>2. /\ drafts \subseteq drafts'
        /\ \A d \in drafts' : VaultRef(d) \in Refs /\ d.seal \in 1..seals'
    BY <1>2, <2>1, StepDrafts DEF Vaulted
  <2>3. \A t \in told' : t.grant.command.action = "fixture_withdraw" =>
           t.grant.command.target \in drafts' /\ Gone(t.grant.command.target)'
    BY <1>2, <2>1, <2>2, StepTells DEF Vaulted
  <2>4. ASSUME NEW q \in Request
        PROVE  LET c == request'[q].grant.command IN
               /\ request'[q].at # "idle" /\ c.action = "fixture_draft" => Draftlike(c.target)
               /\ request'[q].at = "executed" /\ c.action = "fixture_draft" => request'[q].seal \in 1..seals'
               /\ request'[q].at = "sealing_key" => request'[q].seal \in 1..seals'
               /\ request'[q].at \in Unlinking => c.action = "fixture_withdraw"
               /\ request'[q].at = "unlinking_key" => cipher'[VaultRef(c.target)] # c.target.seal
    <3>1. CASE q # p
      <4>1. request'[q] = request[q]
        BY <1>0, <1>2, <3>1, Handled DEF Others
      <4>2. request[q].at = "unlinking_key" => Cmd(q).target \in drafts
        BY DEF Histories, Named, Vaulted, Unlinking
      <4> QED
        BY <2>1, <4>1, <4>2 DEF Vaulted, Gone, Cmd
    <3>2. CASE q = p /\ request'[p].at = "idle"
      BY <3>2 DEF Unlinking
    <3>3. ASSUME q = p, request'[p].at = "admitted", NEW g \in Grants(Commands), request'[p].grant = g
          PROVE  /\ g.command.action = "fixture_draft" => Draftlike(g.command.target)
                 /\ request'[p].at \notin Unlinking \cup {"executed", "sealing_key"}
      BY <3>3, GrantsDraft DEF Unlinking
    <3>4. CASE /\ q = p /\ request'[p].at # "idle"
               /\ request'[p].grant = request[p].grant /\ request[p].at # "idle"
      BY <1>2, <3>4, StepSeals DEF Vaulted, Cmd
    <3> QED
      BY <1>0, <1>2, <3>1, <3>2, <3>3, <3>4, Handled DEF Unlinking
  <2> QED
    BY <2>1, <2>2, <2>3, <2>4 DEF Vaulted, Gone, Cmd
<1> QED
  BY <1>1, <1>2 DEF Next, vars, ledger, vault

\* Once a withdrawal was answered, the ciphertext of its draft is gone, and no
\* later draft of the same content, begun before or after, brings it back.
THEOREM WithdrawnContentIsGone == Spec => []WithdrawalDestroys
<1>1. Init => Vaulted
  BY DEF Init, Vaulted, Idle, Unlinking
<1>2. Vaulted => WithdrawalDestroys
  BY DEF Vaulted, WithdrawalDestroys, Gone
<1> QED
  BY <1>1, <1>2, VaultInductive, JournalHolds, HistoriesHold, PTL DEF Spec
=============================================================================
