----------------------------- MODULE StoreCutover -----------------------------
(***************************************************************************)
(* The migration of the legacy store and its cutover: the nine phases of a *)
(* Migration Run (helpers/v3/migration.py) over a fenced ledger            *)
(* (migration_repository.py), the manifest that selects the one            *)
(* authoritative generation (store_authority.py), the runtime that resolves*)
(* it (store_selection.py), and the local commands start, resume and       *)
(* confirm-cutover (scripts/a0_local_authority.py).  Processes crash, power*)
(* is lost, another run may cut over first, and the quarantine the run     *)
(* retains may be deleted meanwhile (QuarantineDeletion).                  *)
(*                                                                         *)
(* A snapshot of the legacy store is its rows and the pointers that        *)
(* activate some of them; what the decoder makes of a row depends on the   *)
(* instant the run was created, never on that of a resume.                 *)
(***************************************************************************)
EXTENDS QuarantineDeletion, SequencesExt

CONSTANTS
    Process,       \* processes that run migration commands
    Owner,         \* owner_id of a lease
    Row,           \* rows of the legacy store
    Content,       \* the successive contents of the legacy store: a sequence of snapshots
    Session,       \* coordinators that open the runtime store
    MaxCommands,   \* bounds: commands, process crashes and power losses
    MaxCrashes,
    MaxRevision

VARIABLES
    source,        \* index of the content of the legacy store
    barrier,       \* the process that holds the SQLite writer reservation
    ledger,        \* the migration ledger: phases, leases, dispositions, receipts
    gen,           \* the generation file of the run
    manifest,      \* the Store Authority Manifest file
    flock,         \* the process that holds the manifest lock
    proc,          \* the commands in progress
    told,          \* what commands reported: the cutover "completed" or "recovered"
    session,       \* what each coordinator selected
    commands, crashes

migration == <<source, barrier, ledger, gen, manifest, flock, proc, told, session,
               commands, crashes>>
vars == <<clock, quarantine, privacy, migration>>

\* What a file of the quarantine, the ledger's row of its two files and a receipt hold.
Envelopes == [dek : Nat, of : Nat, whole : BOOLEAN]
Pairs     == [cipher : Envelopes, key : Envelopes]
Receipts  == [snap : Nat, members : SUBSET Row]

\* What becomes of a row.
Dispositions == {"projected", "quarantined", "unsupported", "invalid"}

ASSUME ContentAssumption ==
    /\ Content # <<>>
    /\ Content \in Seq([row : [Row -> [table : STRING, form : STRING, expires : Int]],
                        active : SUBSET Row])
ASSUME NoneAssumption ==
    /\ None \notin Process \cup {"run"}
    /\ None \notin Envelopes \cup Pairs \cup Receipts
    /\ None \notin [Row -> Dispositions] /\ \A S \in SUBSET Row : S # None

MIGRATION_PHASES == <<"preflight", "workers_stopped", "snapshot_verified", "staging_created",
    "projecting", "projection_verified", "awaiting_cutover", "cutover_committed", "completed">>
Through(phase) == CHOOSE i \in DOMAIN MIGRATION_PHASES : MIGRATION_PHASES[i] = phase

-----------------------------------------------------------------------------
(* The decoder: every row gets a disposition, pointers decide what is active *)

Readable(s, r) == s.row[r].table = "guidance_versions" /\ s.row[r].form = "exact"
Expired(s, r, at) == s.row[r].expires <= at

\* A guidance row by its JSON, digests, schema, scope and lifetime.
GuidanceRead(s, r, at) ==
    CASE s.row[r].form = "broken"    -> "invalid"
      [] s.row[r].form = "free_form" -> "quarantined"
      [] s.row[r].form = "newer"     -> "unsupported"
      [] OTHER -> IF Expired(s, r, at) THEN "expired" ELSE "inactive"

\* A prompt by its baseline and its replacements; a pointer to one activates nothing.
PromptRead(s, r) ==
    IF s.row[r].form # "exact" THEN "invalid"
    ELSE IF r \in s.active THEN "unsupported" ELSE "quarantined"

\* Any other row by its JSON and digest alone.
ContentRead(s, r) == IF s.row[r].form = "exact" THEN "quarantined" ELSE "invalid"

\* active_guidance: the pointer is the sole authority of incumbency.
Members(s, at) ==
    {r \in s.active : Readable(s, r) /\ GuidanceRead(s, r, at) = "inactive"}

Disposition(s, r, at) ==
    LET read == GuidanceRead(s, r, at) IN
    CASE s.row[r].table = "prompt_artifacts" -> PromptRead(s, r)
      [] s.row[r].table \notin {"prompt_artifacts", "guidance_versions"} -> ContentRead(s, r)
      [] OTHER ->
            IF r \in Members(s, at) THEN "projected"
            ELSE IF read \in {"inactive", "expired"} THEN "unsupported"
            ELSE read

\* Mutant of AsOf: a resume decides expiry at its own instant.
AsOfNow(p) == proc[p].now

\* decode_legacy_snapshot(as_of = command.created_at): retries decide as the first try.
AsOf(p) == 0
Decode(i, p) == [r \in Row |-> Disposition(Content[i], r, AsOf(p))]
Projection(i, p) == Members(Content[i], AsOf(p))

-----------------------------------------------------------------------------
(* Files, ledger and commands *)

NoManifest == [rev |-> 0, gen |-> None, receipt |-> None]
NoRun   == [at |-> "idle", cmd |-> None, owner |-> None, now |-> 0, fence |-> 0, snap |-> 0,
            nth |-> 0]
NoGen   == [made |-> FALSE, nulls |-> FALSE, members |-> None, receipt |-> None]
NoLease == [owner |-> None, fence |-> 0, until |-> 0]
NewLedger == [made |-> FALSE, phase |-> 0, lease |-> NoLease, snap |-> 0, rows |-> None,
              receipt |-> None, verified |-> FALSE]
Closed == [at |-> "closed", sel |-> NoManifest]

Init ==
    /\ PrivacyInit
    /\ source = 1 /\ barrier = None /\ flock = None
    /\ ledger = NewLedger /\ gen = NoGen /\ manifest = File(NoManifest)
    /\ proc = [p \in Process |-> NoRun]
    /\ told = {}
    /\ session = [s \in Session |-> Closed]
    /\ commands = 0 /\ crashes = 0

At(p, at)  == proc[p].at = at
To(p, at)  == proc' = [proc EXCEPT ![p].at = at]
Freed(p)   == barrier' = IF barrier = p THEN None ELSE barrier
\* A command that ends, well or not, releases the barrier.
End(p)     == proc' = [proc EXCEPT ![p] = NoRun] /\ Freed(p)
Step(p, at) == To(p, at) /\ UNCHANGED barrier

Kept == UNCHANGED <<clock, quarantine, privacy>>
Rest == UNCHANGED <<source, told, session, commands, crashes>>

\* _require_fence: the lease is this owner's and has not been taken since.
Fenced(p) ==
    /\ ledger.lease.owner = proc[p].owner
    /\ ledger.lease.fence = proc[p].fence
    /\ ledger.lease.until > proc[p].now

Committed(m) == m.gen = "run"
Awaiting     == ledger.phase = Through("awaiting_cutover")

-----------------------------------------------------------------------------
(* Commands *)

\* start wants everything to be new; resume and confirm-cutover an existing ledger.
Invoke(p, o, cmd) ==
    /\ At(p, "idle") /\ commands < MaxCommands
    /\ IF cmd = "start"
       THEN /\ ~ledger.made /\ ~gen.made /\ cipher.seen = None /\ key.seen = None
            /\ manifest.seen.rev = 0
            /\ ledger' = [ledger EXCEPT !.made = TRUE]
       ELSE ledger.made /\ UNCHANGED ledger
    /\ proc' = [proc EXCEPT ![p] = [NoRun EXCEPT !.cmd = cmd, !.owner = o, !.now = clock, !.nth = commands + 1,
                     !.at = IF cmd = "start" THEN "barrier" ELSE "lease"]]
    /\ commands' = commands + 1
    /\ Kept /\ UNCHANGED <<source, barrier, gen, manifest, flock, told, session, crashes>>

\* The writer reservation on the legacy store; it excludes its writers and other runs.
Reserve(p) ==
    /\ At(p, "barrier")
    /\ IF barrier = None
       THEN barrier' = p /\ To(p, "lease")
       ELSE End(p)
    /\ Kept /\ Rest /\ UNCHANGED <<ledger, gen, manifest, flock>>

\* A lease is renewed by its owner, or taken over, under a new fence, when expired.
AcquireLease(p) ==
    LET l == ledger.lease
        mine == l.owner = proc[p].owner
        fence == IF l.owner = None THEN 1 ELSE IF mine THEN l.fence ELSE l.fence + 1
    IN
    /\ At(p, "lease")
    /\ IF l.owner # None /\ ~mine /\ l.until > proc[p].now
       THEN End(p) /\ UNCHANGED ledger
       ELSE /\ ledger' = [ledger EXCEPT !.lease =
                             [owner |-> proc[p].owner, fence |-> fence, until |-> proc[p].now + 1]]
            /\ proc' = [proc EXCEPT ![p].at = "recover", ![p].fence = fence]
            /\ UNCHANGED barrier
    /\ Kept /\ Rest /\ UNCHANGED <<gen, manifest, flock>>

\* The manifest decides: a committed run is finished from it alone.  Otherwise a
\* command goes on with the legacy source, within what the ledger allows.
Recover(p) ==
    LET m == manifest.seen IN
    /\ At(p, "recover")
    /\ CASE Committed(m) ->
              IF gen.receipt = m.receipt THEN Step(p, "project_receipt") ELSE End(p)
         [] ~Committed(m) /\ barrier = p ->
              IF proc[p].cmd = "swapped" THEN End(p) ELSE Step(p, "early")
         [] OTHER ->
              IF \/ m.rev # 0
                 \/ proc[p].cmd = "resume" /\ Awaiting
                 \/ proc[p].cmd = "confirm" /\ ~Awaiting
              THEN End(p)
              ELSE Step(p, "barrier")
    /\ Kept /\ Rest /\ UNCHANGED <<ledger, gen, manifest, flock>>

-----------------------------------------------------------------------------
(* The phases *)

\* append_checkpoint: under the fence, in exact order; a retry must be equal.
Appended(k) == ledger' = [ledger EXCEPT !.phase = IF @ < k THEN k ELSE @]

Checkpointed(p, k, next) ==
    IF ~Fenced(p) \/ ledger.phase < k - 1
    THEN End(p) /\ UNCHANGED ledger
    ELSE Step(p, next) /\ Appended(k)

Early(p) ==
    /\ At(p, "early")
    /\ IF ledger.phase < Through("workers_stopped")
       THEN Checkpointed(p, ledger.phase + 1, "early")
       ELSE Step(p, "capture") /\ UNCHANGED ledger
    /\ Kept /\ Rest /\ UNCHANGED <<gen, manifest, flock>>

\* The source is read again by every command and must be what was checkpointed.
Unchanged == ledger.snap \in {0, source}

Capture(p) ==
    /\ At(p, "capture")
    /\ CASE ~Unchanged -> End(p)
         [] Unchanged /\ ledger.phase >= Through("snapshot_verified") ->
              proc' = [proc EXCEPT ![p].at = "decode", ![p].snap = source] /\ UNCHANGED barrier
         [] OTHER ->
              IF (cipher.seen = None) # (key.seen = None)
              THEN End(p)      \* "partial quarantine persistence requires operator recovery"
              ELSE /\ proc' = [proc EXCEPT ![p].at = IF cipher.seen = None THEN "seal" ELSE "sealed",
                                          ![p].snap = source]
                   /\ UNCHANGED barrier
    /\ Kept /\ Rest /\ UNCHANGED <<ledger, gen, manifest, flock>>

\* _write_exclusive: created, written whole and synced, and its directory synced last.
\* Every sealing draws a fresh data key: that of the command that seals.
Envelope(p, whole) == [dek |-> proc[p].nth, of |-> proc[p].snap, whole |-> whole]
Created(p, f) == [f EXCEPT !.seen = Envelope(p, FALSE)]
Written(p, f) == [f EXCEPT !.seen = Envelope(p, TRUE)]

Seal(p) ==
    /\ \/ /\ At(p, "seal") /\ cipher.seen = None
          /\ cipher' = Created(p, cipher) /\ UNCHANGED key /\ Step(p, "write_cipher")
       \/ /\ At(p, "write_cipher")
          /\ cipher' = Written(p, cipher) /\ UNCHANGED key /\ Step(p, "sync_cipher")
       \/ /\ At(p, "sync_cipher")
          /\ cipher' = Synced(cipher) /\ UNCHANGED key /\ Step(p, "create_key")
       \/ /\ At(p, "create_key") /\ key.seen = None
          /\ key' = Created(p, key) /\ UNCHANGED cipher /\ Step(p, "write_key")
       \/ /\ At(p, "write_key")
          /\ key' = Written(p, key) /\ UNCHANGED cipher /\ Step(p, "sync_key")
       \/ /\ At(p, "sync_key")
          /\ key' = Synced(key) /\ UNCHANGED cipher /\ Step(p, "sealed")
    /\ Rest /\ UNCHANGED <<clock, retained, privacy, ledger, gen, manifest, flock>>

\* Decrypted and compared before it is retained; a retained row must be the same.
Retain(p) ==
    LET mine == [cipher |-> cipher.seen, key |-> key.seen] IN
    /\ At(p, "sealed")
    /\ IF /\ Opens(cipher.seen, key.seen) /\ cipher.seen.of = proc[p].snap
          /\ Fenced(p) /\ retained \in {None, mine}
       THEN retained' = mine /\ Step(p, "snapshot_verified")
       ELSE UNCHANGED retained /\ End(p)
    /\ Rest /\ UNCHANGED <<clock, cipher, key, privacy, ledger, gen, manifest, flock>>

SnapshotVerified(p) ==
    /\ At(p, "snapshot_verified")
    /\ IF Fenced(p) /\ ledger.phase = Through("snapshot_verified") - 1
       THEN /\ ledger' = [ledger EXCEPT !.phase = Through("snapshot_verified"),
                                        !.snap = proc[p].snap]
            /\ Step(p, "decode")
       ELSE UNCHANGED ledger /\ End(p)
    /\ Kept /\ Rest /\ UNCHANGED <<gen, manifest, flock>>

\* The projection is made from the retained quarantine, not from the source.
Decrypts(p) == Opens(cipher.seen, key.seen) /\ cipher.seen.of = proc[p].snap

Resumed(p) ==
    CASE ledger.phase < Through("staging_created") -> "stage"
      [] ledger.phase = Through("staging_created") -> "dispose"
      [] OTHER -> "verify"

Decrypt(p) ==
    /\ At(p, "decode")
    /\ IF Decrypts(p) THEN Step(p, Resumed(p)) ELSE End(p)
    /\ Kept /\ Rest /\ UNCHANGED <<ledger, gen, manifest, flock>>

\* The generation is created, then given its Null Artifacts, then checkpointed: one
\* found without its checkpoint is nobody's.
Stage(p) ==
    /\ \/ /\ At(p, "stage")
          /\ IF gen.made THEN End(p) /\ UNCHANGED gen
             ELSE gen' = [gen EXCEPT !.made = TRUE] /\ Step(p, "nulls")
          /\ UNCHANGED ledger
       \/ /\ At(p, "nulls")
          /\ gen' = [gen EXCEPT !.nulls = TRUE] /\ Step(p, "staging_created") /\ UNCHANGED ledger
       \/ /\ At(p, "staging_created")
          /\ Checkpointed(p, Through("staging_created"), "dispose") /\ UNCHANGED gen
    /\ Kept /\ Rest /\ UNCHANGED <<manifest, flock>>

\* Dispositions first, then one repository transaction, then the checkpoint.
Dispose(p) ==
    LET rows == Decode(proc[p].snap, p) IN
    /\ At(p, "dispose")
    /\ IF Fenced(p) /\ ledger.rows \in {None, rows}
       THEN ledger' = [ledger EXCEPT !.rows = rows] /\ Step(p, "project")
       ELSE UNCHANGED ledger /\ End(p)
    /\ Kept /\ Rest /\ UNCHANGED <<gen, manifest, flock>>

Project(p) ==
    LET members == Projection(proc[p].snap, p) IN
    /\ \/ /\ At(p, "project")
          /\ IF gen.nulls /\ gen.members \in {None, members}
             THEN gen' = [gen EXCEPT !.members = members] /\ Step(p, "projecting")
             ELSE UNCHANGED gen /\ End(p)
          /\ UNCHANGED ledger
       \/ /\ At(p, "projecting")
          /\ Checkpointed(p, Through("projecting"), "verify") /\ UNCHANGED gen
    /\ Kept /\ Rest /\ UNCHANGED <<manifest, flock>>

\* The staged profile, its composition and the count of dispositions are verified.
Verify(p) ==
    /\ At(p, "verify")
    /\ IF gen.members # None /\ ledger.rows # None
       THEN Checkpointed(p, Through("projection_verified"), "receipt")
       ELSE End(p) /\ UNCHANGED ledger
    /\ Kept /\ Rest /\ UNCHANGED <<gen, manifest, flock>>

\* The exact receipt goes into the generation and the ledger before the boundary,
\* where every command but a confirmation stops.
Receipt(p) == [snap |-> proc[p].snap, members |-> gen.members]

Await(p) ==
    /\ \/ /\ At(p, "receipt")
          /\ IF ledger.phase >= Through("awaiting_cutover") THEN UNCHANGED gen /\ Step(p, "cas")
             ELSE gen' = [gen EXCEPT !.receipt = Receipt(p)] /\ Step(p, "ledger_receipt")
          /\ UNCHANGED ledger
       \/ /\ At(p, "ledger_receipt")
          /\ IF Fenced(p) /\ ledger.receipt \in {None, Receipt(p)}
             THEN ledger' = [ledger EXCEPT !.receipt = Receipt(p)] /\ Step(p, "awaiting_cutover")
             ELSE UNCHANGED ledger /\ End(p)
          /\ UNCHANGED gen
       \/ /\ At(p, "awaiting_cutover")
          /\ IF proc[p].cmd # "confirm" /\ Fenced(p)
             THEN Appended(Through("awaiting_cutover")) /\ End(p)
             ELSE Checkpointed(p, Through("awaiting_cutover"), "cas")
          /\ UNCHANGED gen
    /\ Kept /\ Rest /\ UNCHANGED <<manifest, flock>>

-----------------------------------------------------------------------------
(* The cutover *)

Expected(m) == m.rev = 0       \* expected_authority_revision of the run

\* compare_and_swap, under the manifest lock: an exact retry is a lost acknowledgement,
\* another revision is stale; otherwise the file is replaced ...
Swap(p) ==
    LET m == manifest.seen
        mine == [rev |-> 1, gen |-> "run", receipt |-> Receipt(p)]
    IN
    /\ At(p, "cas") /\ flock = None
    /\ CASE m = mine -> Step(p, "recover") /\ UNCHANGED <<manifest, flock>>
         [] m # mine /\ Expected(m) /\ gen.made ->
              manifest' = [manifest EXCEPT !.seen = mine] /\ flock' = p /\ Step(p, "sync")
         [] OTHER -> End(p) /\ UNCHANGED <<manifest, flock>>
    /\ Kept /\ Rest /\ UNCHANGED <<ledger, gen>>

\* ... and its directory synced before anyone is answered.
SyncManifest(p) ==
    /\ At(p, "sync")
    /\ manifest' = Synced(manifest) /\ flock' = None
    /\ proc' = [proc EXCEPT ![p].at = "recover", ![p].cmd = "swapped"] /\ UNCHANGED barrier
    /\ Kept /\ Rest /\ UNCHANGED <<ledger, gen>>

\* recover_committed_migration: the receipt is projected into the ledger, then the two
\* last phases, which a ledger that lost its prefix is never given.  The receipt is the
\* one read with the manifest, which the generation was found to hold.
Finish(p) ==
    /\ \/ /\ At(p, "project_receipt")
          /\ IF Fenced(p) /\ ledger.receipt \in {None, gen.receipt}
             THEN ledger' = [ledger EXCEPT !.receipt = gen.receipt] /\ Step(p, "cutover_committed")
             ELSE UNCHANGED ledger /\ End(p)
          /\ UNCHANGED told
       \/ /\ At(p, "cutover_committed")
          /\ IF Awaiting THEN Checkpointed(p, Through("cutover_committed"), "verification")
             ELSE Step(p, "verification") /\ UNCHANGED ledger
          /\ UNCHANGED told
       \/ /\ At(p, "verification")
          /\ IF Fenced(p)
             THEN ledger' = [ledger EXCEPT !.verified = TRUE] /\ Step(p, "completed")
             ELSE UNCHANGED ledger /\ End(p)
          /\ UNCHANGED told
       \/ /\ At(p, "completed")
          /\ IF ledger.phase = Through("cutover_committed")
             THEN Checkpointed(p, Through("completed"), "answer")
             ELSE Step(p, "answer") /\ UNCHANGED ledger
          /\ UNCHANGED told
       \/ /\ At(p, "answer")
          /\ told' = told \cup {IF proc[p].cmd = "swapped" THEN "completed" ELSE "recovered"}
          /\ End(p) /\ UNCHANGED ledger
    /\ Kept /\ UNCHANGED <<source, session, commands, crashes, gen, manifest, flock>>

MigrationStep(p) ==
    \/ \E o \in Owner, cmd \in {"start", "resume", "confirm"} : Invoke(p, o, cmd)
    \/ Reserve(p) \/ AcquireLease(p) \/ Recover(p)
    \/ Early(p) \/ Capture(p) \/ Seal(p) \/ Retain(p) \/ SnapshotVerified(p) \/ Decrypt(p)
    \/ Stage(p) \/ Dispose(p) \/ Project(p) \/ Verify(p) \/ Await(p)
    \/ Swap(p) \/ SyncManifest(p) \/ Finish(p)

-----------------------------------------------------------------------------
(* The runtime *)

\* open_runtime_repository: the store is selected, opened and verified, and the
\* manifest read again before the coordinator is let in.
Select(s) ==
    /\ session[s].at = "closed"
    /\ session' = [session EXCEPT ![s] = [at |-> "selected", sel |-> manifest.seen]]
    /\ UNCHANGED <<source, barrier, ledger, gen, manifest, flock, proc, told, commands, crashes>>
    /\ Kept

Holds(m) == m.gen = "run" => gen.receipt = m.receipt

\* Mutant of Current: the manifest is not read again.
NotReread(s) == TRUE

Current(s) == manifest.seen = session[s].sel

\* An open ends: the coordinator is let in ...
Ended(s) ==
    /\ session[s].at = "selected"
    /\ session' = [session EXCEPT ![s] = Closed]
    /\ UNCHANGED <<source, barrier, ledger, gen, manifest, flock, proc, told, commands, crashes>>
    /\ Kept

Open(s) == Ended(s) /\ Holds(session[s].sel) /\ Current(s)

\* ... or turned away, and may select again.
TurnAway(s) == Ended(s) /\ ~(Holds(session[s].sel) /\ Current(s))

-----------------------------------------------------------------------------
(* The environment *)

\* Legacy workers write while nobody holds the reservation.
WriteSource ==
    /\ barrier = None /\ source < Len(Content)
    /\ source' = source + 1
    /\ Kept /\ UNCHANGED <<barrier, ledger, gen, manifest, flock, proc, told, session,
                           commands, crashes>>

\* Another Migration Run, with its own ledger and generation, cuts over.
Rival ==
    /\ flock = None /\ manifest.seen.rev < MaxRevision
    /\ manifest' = File([rev |-> manifest.seen.rev + 1, gen |-> "other", receipt |-> None])
    /\ Kept /\ UNCHANGED <<source, barrier, ledger, gen, flock, proc, told, session,
                           commands, crashes>>

Tick ==
    /\ clock < MaxClock /\ clock' = clock + 1
    /\ UNCHANGED <<quarantine, privacy, migration>>

Crash(p) ==
    /\ ~At(p, "idle") /\ crashes < MaxCrashes
    /\ crashes' = crashes + 1 /\ End(p)
    /\ flock' = IF flock = p THEN None ELSE flock
    /\ Kept /\ UNCHANGED <<source, ledger, gen, manifest, told, session, commands>>

\* Every process dies, and of a file whose directory was not synced either version
\* may be the one that is found again.
PowerLoss ==
    /\ crashes < MaxCrashes /\ crashes' = crashes + 1
    /\ \E c \in {cipher.seen, cipher.kept}, k \in {key.seen, key.kept},
          m \in {manifest.seen, manifest.kept} :
          cipher' = File(c) /\ key' = File(k) /\ manifest' = File(m)
    /\ proc' = [p \in Process |-> NoRun] /\ barrier' = None /\ flock' = None
    /\ session' = [s \in Session |-> Closed]
    /\ deleter' = [d \in Deleter |-> Idle]
    /\ UNCHANGED <<clock, retained, evidence, challenge, intent, steps, deleted,
                   source, ledger, gen, told, commands>>

DeleterCrash(d) ==
    /\ deleter[d].at # "idle" /\ crashes < MaxCrashes
    /\ crashes' = crashes + 1 /\ Leave(d)
    /\ UNCHANGED <<clock, quarantine, evidence, challenge, intent, steps, deleted, source,
                   barrier, ledger, gen, manifest, flock, proc, told, session, commands>>

Next ==
    \/ \E p \in Process : MigrationStep(p) \/ Crash(p)
    \/ \E s \in Session : Select(s) \/ Open(s) \/ TurnAway(s)
    \/ \E d \in Deleter : DeleterCrash(d)
    \/ PrivacyStep /\ UNCHANGED migration
    \/ WriteSource \/ Rival \/ Tick \/ PowerLoss

Spec == Init /\ [][Next]_vars

-----------------------------------------------------------------------------
(* Properties *)

\* A checkpoint is never ahead of what it attests, whichever command appended it and
\* wherever the last one died: the staged generation, its dispositions and projection,
\* the receipt in the generation and in the ledger, and the quarantine of the checkpointed
\* source while no deletion was admitted.  Its ciphertext is on disk; its wrapped key is
\* never another, and losing it takes two failures: a command cut off before the
\* directory of the key was synced, and later a power loss.
Quarantined ==
    \/ \E c \in Challenge : intent[c] # None
    \/ /\ Opens(retained.cipher, retained.key)
       /\ cipher.kept = retained.cipher /\ cipher.kept.of = ledger.snap
       /\ key.kept = retained.key \/ (key.kept = None /\ crashes >= 1)
       /\ key.seen = retained.key \/ (key.seen = None /\ crashes >= 2)

CheckpointsAreTrue ==
    LET reached(phase) == ledger.phase >= Through(phase) IN
    /\ reached("snapshot_verified") => retained # None /\ ledger.snap # 0 /\ Quarantined
    /\ reached("staging_created") => gen.nulls
    /\ reached("projecting") => gen.members # None /\ ledger.rows # None
    /\ reached("awaiting_cutover") => gen.receipt # None /\ ledger.receipt = gen.receipt
    /\ reached("cutover_committed") => ledger.receipt # None
    /\ reached("completed") => ledger.verified

\* The generation a manifest selects holds that manifest's receipt, and one that holds a
\* receipt was projected from the source its ledger quarantined and seeds exactly the
\* guidance that was active, intact and unexpired when the run was created.
SelectedIsVerified ==
    /\ Committed(manifest.seen) => gen.receipt = manifest.seen.receipt
    /\ gen.receipt # None =>
          LET s == Content[ledger.snap] IN
          /\ gen.receipt.snap = ledger.snap
          /\ gen.members = {r \in s.active : Readable(s, r) /\ ~Expired(s, r, 0)}

\* Authority only moves forward, one revision at a time and never over a revision that
\* was not expected.  Once the command that replaced the manifest answered, no power
\* loss takes it back; and no coordinator is let in under a manifest older than the one
\* on disk.
AuthorityMovesForward ==
    [][/\ manifest'.seen # manifest.seen =>
             \/ manifest'.seen.rev = manifest.seen.rev + 1
             \/ manifest'.seen = manifest.kept /\ "completed" \notin told
       /\ \A s \in Session : Open(s) => session[s].sel.rev >= manifest.kept.rev]_vars

\* IMPLEMENTATION_SPEC.md:656: the manifest is fsynced, "making authority and proof
\* durable together", before the phase that follows it is recorded.
CommittedIsDurable ==
    ledger.phase >= Through("cutover_committed") => manifest.kept.rev >= 1

\* IMPLEMENTATION_SPEC.md:649: snapshot_verified comes after "wrap the key through approved
\* custody, fsync, decrypt-test, and digest-verify"; both files would then be on disk.
QuarantineIsSynced ==
    ledger.phase >= Through("snapshot_verified") /\ (\A c \in Challenge : intent[c] = None) =>
        Opens(cipher.kept, key.kept) /\ cipher.kept.of = ledger.snap

\* tests/test_v3_local_migration_cli.py:143: the cutover takes an explicit confirmation;
\* start and resume stop at the boundary.
CutoverIsConfirmed ==
    [][\A p \in Process :
         At(p, "cas") /\ proc'[p].at = "sync" => proc[p].cmd = "confirm"]_vars
=============================================================================
