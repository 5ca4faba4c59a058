--------------------------- MODULE FixtureAuthority ---------------------------
(***************************************************************************)
(* Replay fixtures from draft to withdrawal, under signed commands:        *)
(* helpers/v3/fixtures.py (the coordinator), fixture_command_adapter.py,   *)
(* fixture_repository.py (the ledger and the resolvers), fixture_vault.py  *)
(* (the sealed content) and fixture_runtime_service.py (their assembly,    *)
(* and the content sessions), reached through api/operator_command.py.     *)
(*                                                                         *)
(* Every request assembles its own coordinator, whose memory holds what    *)
(* its resolvers hydrated and nothing else.  A transaction of the ledger   *)
(* is SQLite's one writer; the vault is a directory of two files for a     *)
(* pair of fixture and content, written inside the transaction and         *)
(* unlinked after it.  A request may stop anywhere, with its transaction   *)
(* undone and its files as they are.                                       *)
(***************************************************************************)
EXTENDS SignedCommand, Sequences

CONSTANTS
    Request,   \* requests that may be handled at one time
    Authored,  \* what may be drafted: [fixture, revision, content]
    Signers,   \* [by, key]: who commands under which idempotency key, by action
    MaxSeals   \* bound: encryptions of a content

ASSUME NobodyAssumption == None \notin Request

VARIABLES
    drafts,    \* fixture_draft records
    reviews,   \* fixture_review records
    events,    \* the domain events of every draft, oldest first
    accepted,  \* operator commands admitted by the ledger
    cipher, wrapped,   \* the two files of the vault, by fixture and content; 0: absent
    seals,     \* encryptions so far
    writer,    \* the request whose transaction is open
    request,   \* the requests being handled
    told       \* the receipts that were answered

ledger == <<drafts, reviews, events, accepted>>
vault  == <<cipher, wrapped, seals>>
vars   == <<authority, ledger, vault, writer, request, told>>

Refs == {[fixture |-> a.fixture, content |-> a.content] : a \in Authored}

\* A vault pair is named for the fixture and its content, not for the revision.
VaultRef(d) == [fixture |-> d.fixture, content |-> d.content]

\* The identity of a draft covers its author, its grant and the ciphertext.
Drafted(a, by, key) ==
    [fixture |-> a.fixture, revision |-> a.revision, content |-> a.content,
     author |-> by, key |-> key, seal |-> 0]

Idle == [at |-> "idle", grant |-> None, now |-> 0, seal |-> 0, receipt |-> None]

Init ==
    /\ AuthorityInit
    /\ drafts = {} /\ reviews = {} /\ accepted = {} /\ told = {}
    /\ events  = <<>>
    /\ cipher  = [v \in Refs |-> 0]
    /\ wrapped = [v \in Refs |-> 0]
    /\ seals = 0
    /\ writer = None
    /\ request = [p \in Request |-> Idle]

-----------------------------------------------------------------------------
(* Commands: a draft names what it authors, the others an exact record.  Who admits or   *)
(* withdraws need be neither the author nor the reviewer.                                *)

Draft(a, by, key)     == [action |-> "fixture_draft", target |-> Drafted(a, by, key), review |-> None, by |-> by, key |-> key]
Review(d, by, key)    == [action |-> "fixture_review", target |-> d, review |-> None, by |-> by, key |-> key]
Admit(d, r, by, key)  == [action |-> "fixture_admit", target |-> d, review |-> r, by |-> by, key |-> key]
Withdraw(d, by, key)  == [action |-> "fixture_withdraw", target |-> d, review |-> None, by |-> by, key |-> key]

Commands ==
    {Draft(a, s.by, s.key) : a \in Authored, s \in Signers["fixture_draft"]}
    \cup {Review(d, s.by, s.key) : d \in drafts, s \in Signers["fixture_review"]}
    \cup {Admit(d, r, s.by, s.key) : d \in drafts, r \in reviews, s \in Signers["fixture_admit"]}
    \cup {Withdraw(d, s.by, s.key) : d \in drafts, s \in Signers["fixture_withdraw"]}

UsesContent(c) == c.action \in {"fixture_draft", "fixture_review"}

\* The drafts in the memory of the coordinator a command is given.
Hydrated(c) == IF c.action = "fixture_draft" THEN {} ELSE {c.target}

\* What hydration requires of the records a request finds.
DraftIsWhole(d) == d.seal # 0

ReviewIsWhole(r) == DraftIsWhole(r.draft) /\ r.by # r.draft.author

AdmissionIsWhole(d) ==
    events[d] # <<>> =>
        /\ events[d][1].type = "fixture_admitted"
        /\ events[d][1].review.draft = d
        /\ ReviewIsWhole(events[d][1].review)

WithdrawalIsWhole(d) == Len(events[d]) > 1 => events[d][2].type = "fixture_withdrawn"

Whole(d) == DraftIsWhole(d) /\ AdmissionIsWhole(d) /\ WithdrawalIsWhole(d)

Fate(d) == [i \in DOMAIN events[d] |-> events[d][i].type]

Sealed(v) == cipher[v] # 0 /\ wrapped[v] = cipher[v]

\* Mutant: an admission does not ask whether the review is of the draft.
AnyReview(c) == TRUE

ReviewBinds(c) == c.review.draft = c.target

\* What the coordinator asks of a command, its authority apart.
Permitted(c) ==
  /\ \A d \in Hydrated(c) : Whole(d)
  /\ CASE c.action = "fixture_draft" ->
             \A d \in Hydrated(c) : d.content = c.target.content => d.fixture = c.target.fixture
        [] c.action = "fixture_review" -> c.by # c.target.author /\ Sealed(VaultRef(c.target))
        [] c.action = "fixture_admit" ->
             ReviewIsWhole(c.review) /\ ReviewBinds(c) /\ events[c.target] = <<>>
        [] c.action = "fixture_withdraw" -> Fate(c.target) = <<"fixture_admitted">>

-----------------------------------------------------------------------------
(* The admission of a request, outside any transaction. *)

Goto(p, at) == request' = [request EXCEPT ![p].at = at]
Drop(p)     == request' = [request EXCEPT ![p] = Idle]

Submit(p, g) ==
    /\ request[p] = Idle
    /\ Authorized(g, "fixture_use_grant", nonce, clock)
    /\ request' = [request EXCEPT ![p] = [Idle EXCEPT !.at = "admitted", !.grant = g, !.now = clock]]
    /\ UNCHANGED <<authority, ledger, vault, writer, told>>

Cmd(p) == request[p].grant.command

\* Mutant: a withdrawal is answered as soon as it is committed.
NoCleanup(c) == FALSE

\* The ledger finalizes a withdrawal after its transaction, made or repeated.
Finalizes(c) == c.action = "fixture_withdraw"

\* An idempotency key belongs to one subject and one action.
Under(c) == <<c.by, c.action, c.key>>

Prior(c) == {a \in accepted : Under(a.grant.command) = Under(c)}

\* Mutant: the digest of the earlier request is not compared.
SameKey(a, g) == a.grant.command.action = g.command.action

\* The digest of a request covers the identity of its grant.
SameRequest(a, g) == a.grant = g

\* Inside the transaction the ledger of revocations is read again, but the instant is
\* the one of the admission.
Revalidated(g, now) ==
    /\ Authorized(g, "fixture_use_grant", g.nonce, now)
    /\ UsesContent(g.command) => Authorized(g, "operator_content_session", g.nonce, now)

Answer(p, receipt) ==
    /\ told' = told \cup {[grant |-> request[p].grant, receipt |-> receipt]}
    /\ Drop(p)

\* The transaction opens, and finds the command was admitted before.
Replay(p) ==
    /\ request[p].at = "admitted" /\ writer = None
    /\ \E a \in Prior(Cmd(p)) :
         /\ SameRequest(a, request[p].grant)
         /\ IF Finalizes(Cmd(p))
              THEN /\ request' = [request EXCEPT ![p].at = "unlinking_cipher", ![p].receipt = a.receipt]
                   /\ UNCHANGED told
              ELSE Answer(p, a.receipt)
    /\ UNCHANGED <<authority, ledger, vault, writer>>

Execute(p) ==
    /\ request[p].at = "admitted" /\ writer = None
    /\ Prior(Cmd(p)) = {}
    /\ Revalidated(request[p].grant, request[p].now)
    /\ Permitted(Cmd(p))
    /\ writer' = p
    /\ Goto(p, IF Cmd(p).action = "fixture_draft" THEN "sealing_cipher" ELSE "executed")
    /\ UNCHANGED <<authority, ledger, vault, told>>

\* A conflict of keys, a denial, or a refusal of the coordinator: nothing is kept.
Refuse(p) ==
    /\ request[p].at = "admitted" /\ writer = None
    /\ IF Prior(Cmd(p)) = {}
         THEN ~Revalidated(request[p].grant, request[p].now) \/ ~Permitted(Cmd(p))
         ELSE \A a \in Prior(Cmd(p)) : ~SameRequest(a, request[p].grant)
    /\ Drop(p)
    /\ UNCHANGED <<authority, ledger, vault, writer, told>>

Rollback(p) == Drop(p) /\ writer' = None

-----------------------------------------------------------------------------
(* Sealing the content of a draft, inside its transaction. *)

Ref(p) == VaultRef(Cmd(p).target)

\* An existing pair is opened and kept; half a pair is an error.
SealCipher(p) ==
    LET v == Ref(p) IN
    /\ request[p].at = "sealing_cipher"
    /\ \/ /\ cipher[v] = 0 /\ wrapped[v] = 0 /\ seals < MaxSeals
          /\ cipher' = [cipher EXCEPT ![v] = seals + 1]
          /\ seals' = seals + 1
          /\ request' = [request EXCEPT ![p].at = "sealing_key", ![p].seal = seals + 1]
          /\ UNCHANGED writer
       \/ /\ Sealed(v)
          /\ request' = [request EXCEPT ![p].at = "executed", ![p].seal = cipher[v]]
          /\ UNCHANGED <<cipher, seals, writer>>
       \/ /\ (cipher[v] = 0) # (wrapped[v] = 0)
          /\ Rollback(p)
          /\ UNCHANGED <<cipher, seals>>
    /\ UNCHANGED <<authority, ledger, wrapped, told>>

\* The pair is read back: a withdrawal may have unlinked the ciphertext meanwhile.  A
\* key that cannot be written takes its ciphertext with it.
SealKey(p) ==
    LET v == Ref(p) IN
    /\ request[p].at = "sealing_key"
    /\ \/ /\ wrapped' = [wrapped EXCEPT ![v] = request[p].seal]
          /\ IF cipher[v] = request[p].seal THEN Goto(p, "executed") /\ UNCHANGED writer
                                            ELSE Rollback(p)
          /\ UNCHANGED cipher
       \/ /\ cipher' = [cipher EXCEPT ![v] = 0]
          /\ Rollback(p)
          /\ UNCHANGED wrapped
    /\ UNCHANGED <<authority, ledger, seals, told>>

-----------------------------------------------------------------------------
(* The end of the transaction, and what follows it. *)

\* What a command leaves in the ledger, named by what it is.
Receipt(c, seal) ==
    CASE c.action = "fixture_draft"    -> [c.target EXCEPT !.seal = seal]
      [] c.action = "fixture_review"   -> [draft |-> c.target, by |-> c.by, key |-> c.key]
      [] c.action = "fixture_admit"    -> [type |-> "fixture_admitted", review |-> c.review, key |-> c.key]
      [] c.action = "fixture_withdraw" -> [type |-> "fixture_withdrawn", review |-> None, key |-> c.key]

Recorded(c, receipt) ==
    CASE c.action = "fixture_draft" ->
           /\ drafts' = drafts \cup {receipt}
           /\ events' = [d \in drafts' |-> IF d = receipt THEN <<>> ELSE events[d]]
           /\ UNCHANGED reviews
      [] c.action = "fixture_review" ->
           /\ reviews' = reviews \cup {receipt}
           /\ UNCHANGED <<drafts, events>>
      [] OTHER ->
           /\ events' = [events EXCEPT ![c.target] = Append(@, receipt)]
           /\ UNCHANGED <<drafts, reviews>>

\* A withdrawal goes on to its content before it is answered.
Commit(p) ==
    LET receipt == Receipt(Cmd(p), request[p].seal) IN
    /\ request[p].at = "executed"
    /\ Recorded(Cmd(p), receipt)
    /\ accepted' = accepted \cup {[grant |-> request[p].grant, receipt |-> receipt]}
    /\ writer' = None
    /\ IF Finalizes(Cmd(p))
         THEN /\ request' = [request EXCEPT ![p].at = "unlinking_cipher", ![p].receipt = receipt]
              /\ UNCHANGED told
         ELSE Answer(p, receipt)
    /\ UNCHANGED <<authority, vault>>

UnlinkCipher(p) ==
    /\ request[p].at = "unlinking_cipher"
    /\ cipher' = [cipher EXCEPT ![Ref(p)] = 0]
    /\ Goto(p, "unlinking_key")
    /\ UNCHANGED <<authority, ledger, wrapped, seals, writer, told>>

UnlinkKey(p) ==
    /\ request[p].at = "unlinking_key"
    /\ wrapped' = [wrapped EXCEPT ![Ref(p)] = 0]
    /\ Answer(p, request[p].receipt)
    /\ UNCHANGED <<authority, ledger, cipher, seals, writer>>

\* An error or the end of the process: the transaction is undone, the files stay.
Stop(p) ==
    /\ request[p] # Idle
    /\ IF writer = p THEN Rollback(p) ELSE Drop(p) /\ UNCHANGED writer
    /\ UNCHANGED <<authority, ledger, vault, told>>

-----------------------------------------------------------------------------
\* Revocations matter to a request that was admitted and has not begun.
Revoke ==
    \E p \in Request, class \in Classes, at \in clock..MaxClock :
        /\ request[p].at = "admitted"
        /\ class = "operator_content_session" => UsesContent(Cmd(p))
        /\ AppendRevocation(request[p].grant, class, at)

Handle(p) ==
    \/ \E g \in Grants(Commands) : Submit(p, g)
    \/ Replay(p) \/ Execute(p) \/ Refuse(p)
    \/ SealCipher(p) \/ SealKey(p) \/ Commit(p)
    \/ UnlinkCipher(p) \/ UnlinkKey(p) \/ Stop(p)

Next ==
    \/ (Tick \/ RotateChallenge \/ Revoke \/ FinishRevocation \/ FailRevocation)
         /\ UNCHANGED <<ledger, vault, writer, request, told>>
    \/ \E p \in Request : Handle(p)

Spec == Init /\ [][Next]_vars

-----------------------------------------------------------------------------
(* Properties *)

\* An answer that accepts a command is about that very command: there is one command of a
\* subject and an action under a key, with the grant of the request, and its receipt is the one answered,
\* whether the request made it, repeated it, or raced with another.
AcceptedIsRecorded ==
    /\ \A t \in told : t \in accepted
    /\ \A a, b \in accepted : Under(a.grant.command) = Under(b.grant.command) => a = b

\* A fixture is admitted once, and withdrawn only then; and what was admitted is the very
\* draft that somebody other than its author reviewed.
AdmittedWasReviewed ==
    \A d \in drafts :
        /\ Fate(d) \in {<<>>, <<"fixture_admitted">>, <<"fixture_admitted", "fixture_withdrawn">>}
        /\ \A i \in DOMAIN events[d] : events[d][i].type = "fixture_admitted" =>
              LET r == events[d][i].review
              IN  r \in reviews /\ r.draft = d /\ r.by # d.author

\* Once a withdrawal is answered, the ciphertext its draft was sealed with is gone for good.
WithdrawalDestroys ==
    \A t \in told : t.grant.command.action = "fixture_withdraw"
        => cipher[VaultRef(t.grant.command.target)] # t.grant.command.target.seal

\* "Released payloads are deleted" on withdrawal (docs/adr/0005:21): a committed
\* withdrawal whose content is left always has a request at work on it, or a grant under
\* which it can be repeated.
WithdrawnIsNotStranded ==
    \A a \in accepted : a.grant.command.action = "fixture_withdraw" =>
        \/ cipher[VaultRef(a.grant.command.target)] # a.grant.command.target.seal
        \/ \E p \in Request : request[p].grant = a.grant
        \/ a.grant.nonce = nonce /\ clock < a.grant.expires

\* A content is governed once: "duplicate, and family checks" (IMPLEMENTATION_SPEC.md:635)
\* and the refusal of fixtures.py:536.
ContentIsGovernedOnce == \A d, e \in drafts : d.content = e.content => d.fixture = e.fixture

\* What is admitted and not withdrawn can be opened: a withdrawal is of "future eligibility
\* without changing any historical record" (fixtures.py:714) of one exact draft.
AdmittedIsReadable ==
    \A d \in drafts : Fate(d) = <<"fixture_admitted">> => Sealed(VaultRef(d))
=============================================================================
