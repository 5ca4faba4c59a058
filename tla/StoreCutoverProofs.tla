-------------------------- MODULE StoreCutoverProofs --------------------------
(***************************************************************************)
(* Theorems about StoreCutover and their proofs: what the checkpoints of a *)
(* migration attest, what the manifest selects, what a deletion leaves, and*)
(* that authority only moves forward.                                      *)
(*                                                                         *)
(* The argument rests on who holds the legacy source: from the capture to  *)
(* the swap one command at a time works for the ledger, so that what it    *)
(* read is what the ledger says when it writes.  The fence of the lease is *)
(* not used: no theorem needs it.                                          *)
(***************************************************************************)
EXTENDS StoreCutover, TLAPS

-----------------------------------------------------------------------------
(* The inductive invariant *)

\* Where a command is while it holds the source, while it makes the quarantine, and
\* once it works from what the ledger says of it.
Seals   == {"seal", "write_cipher", "sync_cipher", "create_key", "write_key", "sync_key"}
Retains == {"sealed", "snapshot_verified"}
Projects == {"decode", "stage", "nulls", "staging_created", "dispose", "project",
             "projecting", "verify", "receipt", "ledger_receipt", "awaiting_cutover",
             "cas", "sync"}
Holding == {"early", "capture"} \cup Seals \cup Retains \cup Projects
Finishing == {"project_receipt", "cutover_committed", "verification", "completed", "answer"}
Pc == {"idle", "barrier", "lease", "recover"} \cup Holding \cup Finishing

Run == [at : Pc, cmd : {None, "start", "resume", "confirm", "swapped"}, owner : Owner \cup {None},
        now : Nat, fence : Nat, snap : 0 .. Len(Content), nth : Nat]
Ledger == [made : BOOLEAN, phase : 0 .. 9,
           lease : [owner : Owner \cup {None}, fence : Nat, until : Nat],
           snap : 0 .. Len(Content), rows : [Row -> Dispositions] \cup {None},
           receipt : Receipts \cup {None}, verified : BOOLEAN]
Generation == [made : BOOLEAN, nulls : BOOLEAN, members : {None} \cup SUBSET Row,
               receipt : Receipts \cup {None}]
Manifest == [rev : Nat, gen : {None, "run", "other"}, receipt : Receipts \cup {None}]
FileOf(S) == [seen : S, kept : S]
Deleting == {"unlinkKey", "syncKey", "markKey", "unlinkCipher", "syncCipher", "markCipher",
             "complete"}
Deletion == [at : {"idle", "begin"} \cup Deleting, op : Challenge \cup {None},
             read : Pairs \cup {None}, now : Nat]

TypeOK ==
    /\ clock \in Nat /\ commands \in Nat /\ crashes \in Nat
    /\ cipher \in FileOf(Envelopes \cup {None}) /\ key \in FileOf(Envelopes \cup {None})
    /\ retained \in Pairs \cup {None}
    /\ intent \in [Challenge -> Pairs \cup {None}]
    /\ steps \in [Challenge -> SUBSET {"key", "cipher"}]
    /\ deleted \subseteq Challenge
    /\ deleter \in [Deleter -> Deletion]
    /\ source \in 1 .. Len(Content)
    /\ barrier \in Process \cup {None} /\ flock \in Process \cup {None}
    /\ ledger \in Ledger /\ gen \in Generation
    /\ manifest \in FileOf(Manifest)
    /\ proc \in [Process -> Run]
    /\ told \subseteq {"completed", "recovered"}
    /\ session \in [Session -> [at : {"closed", "selected"}, sel : Manifest]]

\* The source and the manifest lock are held by one command, and commands are numbered.
HeldBy(p) ==
    /\ proc[p].at \in Holding => barrier = p
    /\ proc[p].at = "sync" => flock = p
NumberOf(p) ==
    proc[p].at # "idle" =>
        /\ proc[p].nth \in 1 .. commands
        /\ \A q \in Process \ {p} : proc[q].at # "idle" => proc[q].nth # proc[p].nth

\* How far the ledger is where a command is.
PacedAt(p) ==
    /\ proc[p].at \in Seals \cup Retains => ledger.phase < 3 /\ proc[p].snap # 0
    /\ proc[p].at \in Projects => ledger.phase >= 3 /\ proc[p].snap = ledger.snap
    /\ proc[p].at \in {"receipt", "ledger_receipt", "awaiting_cutover"} => ledger.phase >= 6
    /\ proc[p].at \in {"cas", "sync"} => ledger.phase >= 7

Held     == \A p \in Process : HeldBy(p)
Numbered == \A p \in Process : NumberOf(p)
Paced    == \A p \in Process : PacedAt(p)

Order == TypeOK /\ Held /\ Numbered /\ Paced

-----------------------------------------------------------------------------
(* The quarantine *)

Undisturbed == \A c \in Challenge : intent[c] = None

\* No file holds an envelope of this data key.
Unused(n) ==
    /\ \A e \in {cipher.seen, cipher.kept, key.seen, key.kept} : e # None => e.dek # n
    /\ retained # None => retained.cipher.dek # n

\* Data keys were drawn by commands, each by one that was not there yet.  The ciphertext,
\* if whole, is on disk before there is a wrapped key; the wrapped key is there when its
\* command was not cut off.
Durable(f) == f.seen # None /\ f.seen.whole => f.kept = f.seen
\* Where a command has not drawn its data key, and where the ciphertext is not yet on disk.
Before == {"barrier", "lease", "recover", "early", "capture", "seal"}
Keyless == {"seal", "write_cipher", "sync_cipher"}
Keyed   == {"create_key", "write_key", "sync_key"}
Syncing == \E p \in Process : proc[p].at = "sync_key"
DrawnBy(p) ==
    /\ proc[p].at \in Before /\ ledger.phase < 3 => Unused(proc[p].nth)
    /\ proc[p].at \in Seals /\ retained # None =>
          retained.cipher.dek # proc[p].nth /\ cipher.seen # retained.cipher
    /\ proc[p].at \in Keyless => key.seen = None
    /\ proc[p].at \in Keyed => Durable(cipher)
    /\ proc[p].at = "write_key" /\ Undisturbed => key.kept = None
Synchronised ==
    /\ key.kept # None => key.kept = key.seen
    /\ key.seen # None /\ key.seen.whole => key.kept # None \/ crashes >= 1 \/ Syncing
Drawn ==
    /\ key.seen # None => Durable(cipher)
    /\ Undisturbed => Synchronised
    /\ \A e \in {cipher.seen, cipher.kept, key.seen, key.kept} : e # None => e.dek <= commands
    /\ \A p \in Process : DrawnBy(p)

\* The retained files open, and are the ones there until a deletion is admitted: the
\* ciphertext on disk, the wrapped key unless a command was cut off before it synced it.
\* Their key leaves the disk before their ciphertext does.
Whole ==
    /\ cipher = File(retained.cipher)
    /\ key.kept = retained.key \/ (key.kept = None /\ crashes >= 1)
    /\ key.seen = retained.key \/ (key.seen = None /\ crashes >= 2)
OffDisk(e, f) == e \notin {f.seen, f.kept}
Retained ==
    retained # None =>
        /\ Opens(retained.cipher, retained.key)
        /\ retained.cipher.dek <= commands
        /\ Undisturbed => Whole
        /\ cipher.seen = retained.cipher => cipher.kept = retained.cipher
        /\ \A k \in {key.seen, key.kept} :
              k # None /\ k.whole /\ k.dek = retained.cipher.dek => k = retained.key
        /\ cipher.seen # retained.cipher => OffDisk(retained.key, key)

\* A deletion is of the retained files, and what it recorded is so for good.
Admitted(c) ==
    /\ intent[c] # None => retained # None /\ intent[c] = retained
    /\ steps[c] # {} => intent[c] # None
    /\ "key" \in steps[c] => OffDisk(retained.key, key)
    /\ "cipher" \in steps[c] => OffDisk(retained.cipher, cipher)
    /\ c \in deleted => "cipher" \in steps[c]
Carried(d) ==
    LET at == deleter[d].at
        c  == deleter[d].op
    IN
    /\ at = "begin" => c \in Challenge /\ retained # None /\ deleter[d].read = retained
    /\ at \in Deleting => c \in Challenge /\ intent[c] # None
    /\ at = "syncKey" => key.seen # retained.key
    /\ at = "markKey" => OffDisk(retained.key, key)
    /\ at \in {"unlinkCipher", "syncCipher", "markCipher"} => "key" \in steps[c]
    /\ at = "syncCipher" => cipher.seen # retained.cipher
    /\ at = "markCipher" => OffDisk(retained.cipher, cipher)
Admits == (\A c \in Challenge : Admitted(c)) /\ (\A d \in Deleter : Carried(d))

Quarantine == Drawn /\ Retained /\ Admits

-----------------------------------------------------------------------------
(* The ledger, the generation and the manifest *)

Attested ==
    /\ ledger.phase >= 3 =>
          retained # None /\ ledger.snap # 0 /\ ledger.snap = retained.cipher.of
    /\ ledger.phase >= 4 => gen.nulls
    /\ ledger.phase >= 5 => gen.members # None /\ ledger.rows # None
    /\ ledger.phase >= 7 => gen.receipt # None /\ ledger.receipt = gen.receipt
    /\ ledger.phase = 9 => ledger.verified
Projected ==
    /\ gen.members # None => ledger.phase >= 3 /\ gen.members = Members(Content[ledger.snap], 0)
    /\ gen.receipt # None =>
          gen.members # None /\ gen.receipt = [snap |-> ledger.snap, members |-> gen.members]
    /\ ledger.receipt # None => ledger.receipt = gen.receipt
    /\ \A m \in {manifest.seen, manifest.kept} :
          Committed(m) => gen.receipt # None /\ m.receipt = gen.receipt
WorksAt(p) ==
    /\ proc[p].at = "snapshot_verified" => retained # None /\ retained.cipher.of = proc[p].snap
    /\ proc[p].at = "staging_created" => gen.nulls
    /\ proc[p].at \in {"project", "projecting"} => ledger.rows # None
    /\ proc[p].at = "projecting" => gen.members # None
    /\ proc[p].at = "ledger_receipt" => gen.receipt # None
    /\ proc[p].at = "awaiting_cutover" => gen.receipt # None /\ ledger.receipt = gen.receipt
    /\ proc[p].at = "completed" => ledger.verified
Working == \A p \in Process : WorksAt(p)

Migrated == Attested /\ Projected /\ Working

\* A manifest that is not on disk yet is the first, and nobody was answered.
AnswersAt(p) ==
    /\ proc[p].at # "idle" /\ proc[p].cmd = "swapped" => manifest.kept.rev >= 1
    /\ proc[p].at = "sync" => manifest.seen.rev = 1
Answered ==
    /\ manifest.seen # manifest.kept => manifest.kept.rev = 0 /\ manifest.seen.rev = 1
    /\ "completed" \in told => manifest.kept.rev >= 1
    /\ \A p \in Process : AnswersAt(p)

IInv == Order /\ Quarantine /\ Migrated /\ Answered

\* Where each phase stands in MIGRATION_PHASES.
LEMMA Phases ==
    /\ Through("workers_stopped") = 2 /\ Through("snapshot_verified") = 3
    /\ Through("staging_created") = 4 /\ Through("projecting") = 5
    /\ Through("projection_verified") = 6 /\ Through("awaiting_cutover") = 7
    /\ Through("cutover_committed") = 8 /\ Through("completed") = 9
<1>1. DOMAIN MIGRATION_PHASES = 1 .. 9
  BY DEF MIGRATION_PHASES
<1>2. \A i \in 1 .. 9 : i = 1 \/ i = 2 \/ i = 3 \/ i = 4 \/ i = 5 \/ i = 6 \/ i = 7 \/ i = 8 \/ i = 9
  OBVIOUS
<1>3. /\ MIGRATION_PHASES[1] = "preflight" /\ MIGRATION_PHASES[2] = "workers_stopped"
      /\ MIGRATION_PHASES[3] = "snapshot_verified" /\ MIGRATION_PHASES[4] = "staging_created"
      /\ MIGRATION_PHASES[5] = "projecting" /\ MIGRATION_PHASES[6] = "projection_verified"
      /\ MIGRATION_PHASES[7] = "awaiting_cutover" /\ MIGRATION_PHASES[8] = "cutover_committed"
      /\ MIGRATION_PHASES[9] = "completed"
  BY DEF MIGRATION_PHASES
<1> HIDE DEF MIGRATION_PHASES
<1>4. \A i \in 1 .. 9, n \in 1 .. 9 : MIGRATION_PHASES[i] = MIGRATION_PHASES[n] => i = n
  <2> SUFFICES ASSUME NEW i \in 1 .. 9, NEW n \in 1 .. 9,
                      MIGRATION_PHASES[i] = MIGRATION_PHASES[n]
               PROVE  i = n
    OBVIOUS
  <2> QED BY <1>2, <1>3
<1>5. ASSUME NEW n \in 1 .. 9
      PROVE  Through(MIGRATION_PHASES[n]) = n
  BY <1>1, <1>4 DEF Through
<1> QED BY <1>3, <1>5

\* The phase of a ledger is a number.
LEMMA PhaseTyped == \A l \in Ledger : l.phase \in Nat
  BY DEF Ledger

\* The program starts well typed.
LEMMA TypesInit == Init => TypeOK
<1> SUFFICES ASSUME Init PROVE TypeOK
  OBVIOUS
<1> USE DEF Init, PrivacyInit
<1>1. NoRun \in Run
  BY DEF NoRun, Run, Pc
<1>2. NewLedger \in Ledger /\ NoGen \in Generation
  BY DEF NewLedger, NoLease, Ledger, NoGen, Generation
<1>3. NoManifest \in Manifest
  BY DEF NoManifest, Manifest
<1>4. source \in 1 .. Len(Content)
  BY ContentAssumption
<1>5. cipher \in FileOf(Envelopes \cup {None}) /\ key \in FileOf(Envelopes \cup {None})
  BY DEF FileOf, File, Absent
<1>6. manifest \in FileOf(Manifest)
  BY <1>3 DEF FileOf, File
<1>7. deleter \in [Deleter -> Deletion]
  BY DEF Idle, Deletion
<1>8. session \in [Session -> [at : {"closed", "selected"}, sel : Manifest]]
  BY <1>3 DEF Closed
<1> QED BY <1>1, <1>2, <1>4, <1>5, <1>6, <1>7, <1>8 DEF TypeOK

\* Where a command can be.
LEMMA Places ==
    /\ {"idle", "barrier", "lease", "recover", "early", "capture", "seal", "write_cipher",
        "sync_cipher", "create_key", "write_key", "sync_key", "sealed", "snapshot_verified",
        "decode", "stage", "nulls"}
         \subseteq Pc
    /\ {"staging_created", "dispose", "project", "projecting", "verify", "receipt",
        "ledger_receipt", "awaiting_cutover", "cas", "sync", "project_receipt",
        "cutover_committed", "verification", "completed", "answer"} \subseteq Pc
  BY DEF Pc, Holding, Seals, Retains, Projects, Finishing

\* A command that moves on, or ends, is one of the commands there may be.
LEMMA RunsTyped ==
    ASSUME proc \in [Process -> Run], NEW p \in Process
    PROVE  /\ NoRun \in Run /\ proc[p] \in Run
           /\ End(p) => proc' \in [Process -> Run]
           /\ \A at \in Pc : To(p, at) => proc' \in [Process -> Run]
<1>1. NoRun \in Run
  BY Places DEF NoRun, Run
<1>2. ASSUME NEW at \in Pc, To(p, at)
      PROVE  proc' \in [Process -> Run]
  <2>1. \A r \in Run, a \in Pc : [r EXCEPT !.at = a] \in Run
    BY DEF Run
  <2>2. proc' = [proc EXCEPT ![p] = [proc[p] EXCEPT !.at = at]]
    BY <1>2 DEF To
  <2> QED BY <2>1, <2>2
<1> QED BY <1>1, <1>2 DEF End

\* So is one that has read the source ...
LEMMA CaptureTyped ==
    ASSUME proc \in [Process -> Run], NEW p \in Process
    PROVE  /\ proc[p].snap \in 0 .. Len(Content)
           /\ \A at \in Pc, s \in 0 .. Len(Content) :
                 [proc EXCEPT ![p].at = at, ![p].snap = s] \in [Process -> Run]
<1>1. proc[p].snap \in 0 .. Len(Content)
  BY DEF Run
<1>2. ASSUME NEW at \in Pc, NEW s \in 0 .. Len(Content)
      PROVE  [proc EXCEPT ![p].at = at, ![p].snap = s] \in [Process -> Run]
  <2>1. [proc EXCEPT ![p].at = at, ![p].snap = s]
           = [proc EXCEPT ![p] = [proc[p] EXCEPT !.at = at, !.snap = s]]
    BY DEF Run
  <2>2. [proc[p] EXCEPT !.at = at, !.snap = s] \in Run
    BY DEF Run
  <2> QED BY <2>1, <2>2
<1> QED BY <1>1, <1>2

\* ... and one whose manifest was replaced.
LEMMA SwappedTyped ==
    ASSUME proc \in [Process -> Run], NEW p \in Process
    PROVE  [proc EXCEPT ![p].at = "recover", ![p].cmd = "swapped"] \in [Process -> Run]
<1>1. [proc EXCEPT ![p].at = "recover", ![p].cmd = "swapped"]
         = [proc EXCEPT ![p] = [proc[p] EXCEPT !.at = "recover", !.cmd = "swapped"]]
  BY DEF Run
<1>2. [proc[p] EXCEPT !.at = "recover", !.cmd = "swapped"] \in Run
  BY Places DEF Run
<1> QED BY <1>1, <1>2

\* Freeing the source leaves it to nobody or to whoever else holds it.
LEMMA BarrierTyped ==
    ASSUME barrier \in Process \cup {None}, NEW p \in Process, Freed(p)
    PROVE  barrier' \in Process \cup {None}
  BY DEF Freed

\* Each handler keeps the types: a new command,
LEMMA TypesInvoke ==
    ASSUME TypeOK, NEW p \in Process, NEW o \in Owner, NEW cmd \in {"start", "resume", "confirm"},
           Invoke(p, o, cmd)
    PROVE  TypeOK'
<1>1. ledger' \in Ledger
  <2>1. ledger \in Ledger /\ ledger' \in {ledger, [ledger EXCEPT !.made = TRUE]}
    BY DEF TypeOK, Invoke
  <2> QED BY <2>1 DEF Ledger
<1>2. proc' \in [Process -> Run]
  <2>1. clock \in Nat /\ commands + 1 \in Nat /\ proc \in [Process -> Run]
    BY DEF TypeOK
  <2>2. \A r \in Run, at \in Pc, n \in Nat :
           [r EXCEPT !.cmd = cmd, !.owner = o, !.now = clock, !.nth = n, !.at = at] \in Run
    BY <2>1 DEF Run
  <2>3. NoRun \in Run /\ (IF cmd = "start" THEN "barrier" ELSE "lease") \in Pc
    BY <2>1, RunsTyped, Places
  <2> QED BY <2>1, <2>2, <2>3 DEF Invoke
<1>3. commands' \in Nat
  BY DEF TypeOK, Invoke
<1> QED BY <1>1, <1>2, <1>3 DEF TypeOK, Invoke, Kept, quarantine, privacy

\* the reservation of the source,
LEMMA TypesReserve ==
    ASSUME TypeOK, NEW p \in Process, Reserve(p)
    PROVE  TypeOK'
<1>1. proc' \in [Process -> Run]
  BY RunsTyped DEF TypeOK, Reserve, Pc
<1>2. barrier' \in Process \cup {None}
  BY BarrierTyped DEF TypeOK, Reserve, End
<1> QED BY <1>1, <1>2 DEF TypeOK, Reserve, Kept, Rest, quarantine, privacy

\* the lease of the ledger,
LEMMA TypesAcquireLease ==
    ASSUME TypeOK, NEW p \in Process, AcquireLease(p)
    PROVE  TypeOK'
<1>0. ledger \in Ledger /\ proc \in [Process -> Run]
  BY DEF TypeOK
<1>1. ledger.lease \in [owner : Owner \cup {None}, fence : Nat, until : Nat] /\ proc[p] \in Run
  BY DEF TypeOK, Ledger
<1>2. CASE End(p) /\ UNCHANGED ledger
  <2>1. proc' \in [Process -> Run] /\ barrier' \in Process \cup {None}
    BY <1>2, RunsTyped, BarrierTyped DEF TypeOK, End
  <2> QED BY <1>2, <2>1 DEF TypeOK, AcquireLease, Kept, Rest, quarantine, privacy
<1>3. CASE \E fence \in Nat :
              /\ ledger' = [ledger EXCEPT !.lease =
                             [owner |-> proc[p].owner, fence |-> fence, until |-> proc[p].now + 1]]
              /\ proc' = [proc EXCEPT ![p].at = "recover", ![p].fence = fence]
              /\ UNCHANGED barrier
  <2>1. PICK fence \in Nat :
              /\ ledger' = [ledger EXCEPT !.lease =
                             [owner |-> proc[p].owner, fence |-> fence, until |-> proc[p].now + 1]]
              /\ proc' = [proc EXCEPT ![p].at = "recover", ![p].fence = fence]
              /\ UNCHANGED barrier
    BY <1>3
  <2>2. [owner |-> proc[p].owner, fence |-> fence, until |-> proc[p].now + 1]
           \in [owner : Owner \cup {None}, fence : Nat, until : Nat]
    BY <1>1 DEF Run
  <2>3. ledger' \in Ledger
    BY <1>0, <2>1, <2>2 DEF Ledger
  <2>4. proc' \in [Process -> Run]
    <3>1. \A r \in Run, a \in Pc, f \in Nat : [r EXCEPT !.at = a, !.fence = f] \in Run
      BY DEF Run
    <3>2. proc' = [proc EXCEPT ![p] = [proc[p] EXCEPT !.at = "recover", !.fence = fence]]
      BY <2>1
    <3>3. "recover" \in Pc
      BY Places
    <3> QED BY <1>0, <3>1, <3>2, <3>3
  <2> QED BY <2>1, <2>3, <2>4 DEF TypeOK, AcquireLease, Kept, Rest, quarantine, privacy
<1> QED BY <1>1, <1>2, <1>3 DEF AcquireLease

\* A step that only moves the command on, or ends it.
LEMMA TypesMove ==
    ASSUME TypeOK, NEW p \in Process, Kept, UNCHANGED <<source, flock>>,
           told' \subseteq {"completed", "recovered"}, UNCHANGED <<session, commands, crashes>>,
           \/ End(p)
           \/ \E at \in Pc : Step(p, at)
           \/ proc' \in [Process -> Run] /\ UNCHANGED barrier,
           ledger' \in Ledger, gen' \in Generation, manifest' \in FileOf(Manifest)
    PROVE  TypeOK'
<1>1. proc' \in [Process -> Run] /\ barrier' \in Process \cup {None}
  BY RunsTyped, BarrierTyped DEF TypeOK, End, Step
<1> QED BY <1>1 DEF TypeOK, Kept, quarantine, privacy

\* What is written into the ledger is of its type.
LEMMA LedgerTyped ==
    ASSUME ledger \in Ledger
    PROVE  /\ \A k \in 0 .. 9 : Appended(k) => ledger' \in Ledger
           /\ \A k \in 0 .. 9 : [ledger EXCEPT !.phase = k] \in Ledger
           /\ \A S \in [Row -> Dispositions] : [ledger EXCEPT !.rows = S] \in Ledger
           /\ \A r \in Receipts \cup {None} : [ledger EXCEPT !.receipt = r] \in Ledger
           /\ [ledger EXCEPT !.verified = TRUE] \in Ledger
           /\ \A s \in 0 .. Len(Content) : [ledger EXCEPT !.phase = 3, !.snap = s] \in Ledger
           /\ ledger.phase \in 0 .. 9
<1>1. \A k \in 0 .. 9, s \in 0 .. Len(Content) : [ledger EXCEPT !.phase = k, !.snap = s] \in Ledger
  BY DEF Ledger
<1>2. /\ \A k \in 0 .. 9 : [ledger EXCEPT !.phase = k] \in Ledger
      /\ \A S \in [Row -> Dispositions] : [ledger EXCEPT !.rows = S] \in Ledger
      /\ \A r \in Receipts \cup {None} : [ledger EXCEPT !.receipt = r] \in Ledger
      /\ [ledger EXCEPT !.verified = TRUE] \in Ledger
      /\ ledger.phase \in 0 .. 9
  BY DEF Ledger
<1>3. ASSUME NEW k \in 0 .. 9, Appended(k)
      PROVE  ledger' \in Ledger
  <2>1. PICK n \in 0 .. 9 : ledger' = [ledger EXCEPT !.phase = n]
    BY <1>2, <1>3 DEF Appended
  <2> QED BY <1>2, <2>1
<1>4. \A s \in 0 .. Len(Content) : [ledger EXCEPT !.phase = 3, !.snap = s] \in Ledger
  <2> SUFFICES ASSUME NEW s \in 0 .. Len(Content)
               PROVE  [ledger EXCEPT !.phase = 3, !.snap = s] \in Ledger
    OBVIOUS
  <2>1. PICK k \in 0 .. 9 : k = 3
    OBVIOUS
  <2>2. [ledger EXCEPT !.phase = k, !.snap = s] \in Ledger
    BY <1>1
  <2> QED BY <2>1, <2>2
<1> QED BY <1>2, <1>3, <1>4

\* What is written into the generation is of its type.
LEMMA GenerationTyped ==
    ASSUME gen \in Generation
    PROVE  /\ [gen EXCEPT !.made = TRUE] \in Generation
           /\ [gen EXCEPT !.nulls = TRUE] \in Generation
           /\ \A S \in SUBSET Row : [gen EXCEPT !.members = S] \in Generation
           /\ \A r \in Receipts \cup {None} : [gen EXCEPT !.receipt = r] \in Generation
  BY DEF Generation

\* A checkpoint keeps the ledger's type; its command ends or moves on.
LEMMA CheckpointTyped ==
    ASSUME ledger \in Ledger, NEW p \in Process, NEW k \in 0 .. 9, NEW next \in Pc,
           Checkpointed(p, k, next)
    PROVE  ledger' \in Ledger /\ (End(p) \/ Step(p, next))
  BY LedgerTyped DEF Checkpointed

\* The pointers of a content name rows.
LEMMA ContentTyped ==
    ASSUME NEW i \in 1 .. Len(Content)
    PROVE  Content[i].active \in SUBSET Row
<1> DEFINE Snapshot == [row : [Row -> [table : STRING, form : STRING, expires : Int]],
                        active : SUBSET Row]
<1>1. Content \in Seq(Snapshot)
  BY ContentAssumption
<1> HIDE DEF Snapshot
<1>2. Content[i] \in Snapshot
  BY <1>1
<1> QED BY <1>2 DEF Snapshot

\* The decoder gives every row a disposition, and projects rows.
LEMMA DecodeTyped ==
    ASSUME NEW i, NEW p \in Process
    PROVE  /\ Decode(i, p) \in [Row -> Dispositions]
           /\ i \in 1 .. Len(Content) => Projection(i, p) \in SUBSET Row
<1>1. ASSUME NEW r \in Row
      PROVE  Disposition(Content[i], r, AsOf(p)) \in Dispositions
  <2>1. GuidanceRead(Content[i], r, AsOf(p)) \in Dispositions \cup {"inactive", "expired"}
    BY DEF GuidanceRead, Dispositions
  <2>2. /\ PromptRead(Content[i], r) \in Dispositions
        /\ ContentRead(Content[i], r) \in Dispositions
    BY DEF PromptRead, ContentRead, Dispositions
  <2> QED BY <2>1, <2>2 DEF Disposition, Dispositions
<1>2. i \in 1 .. Len(Content) => Projection(i, p) \in SUBSET Row
  BY ContentTyped DEF Projection, Members
<1> QED BY <1>1, <1>2 DEF Decode

\* the steps that move a command through recovery, checkpoints and staging,
LEMMA TypesMoving ==
    ASSUME TypeOK, NEW p \in Process,
           Recover(p) \/ Early(p) \/ Capture(p) \/ SnapshotVerified(p) \/ Decrypt(p) \/ Stage(p) \/ Verify(p)
    PROVE  TypeOK'
<1>1. ledger \in Ledger /\ gen \in Generation /\ manifest \in FileOf(Manifest)
      /\ proc \in [Process -> Run] /\ told \subseteq {"completed", "recovered"}
  BY DEF TypeOK
<1>2. CASE Recover(p)
  <2>1. End(p) \/ \E at \in Pc : Step(p, at)
    BY <1>2, Places DEF Recover
  <2> QED BY <1>1, <1>2, <2>1, TypesMove DEF Recover, Rest
<1>3. CASE Early(p)
  <2>1. CASE ledger.phase < 2
    <3>0. ledger.phase + 1 \in 0 .. 9 /\ "early" \in Pc
      <4>1. ledger.phase \in 0 .. 9
        BY <1>1, LedgerTyped
      <4> QED BY <2>1, <4>1, Places
    <3>1. Checkpointed(p, ledger.phase + 1, "early")
      BY <1>3, <2>1, Phases DEF Early
    <3>2. ledger' \in Ledger /\ (End(p) \/ Step(p, "early"))
      <4>1. PICK k \in 0 .. 9 : k = ledger.phase + 1
        BY <3>0
      <4>2. Checkpointed(p, k, "early")
        BY <3>1, <4>1
      <4>3. "early" \in Pc /\ ledger \in Ledger
        BY <1>1, <3>0
      <4> QED BY <4>2, <4>3, CheckpointTyped
    <3> QED BY <1>1, <1>3, <3>0, <3>2, TypesMove DEF Early, Rest
  <2>2. CASE ~(ledger.phase < 2)
    <3>1. Step(p, "capture") /\ ledger' = ledger /\ "capture" \in Pc
      BY <1>3, <2>2, Phases, Places DEF Early
    <3> QED BY <1>1, <1>3, <3>1, TypesMove DEF Early, Rest
  <2> QED BY <2>1, <2>2
<1>4. CASE Capture(p)
  <2>1. End(p) \/ (proc' \in [Process -> Run] /\ UNCHANGED barrier)
    <3>1. source \in 0 .. Len(Content)
      BY DEF TypeOK
    <3>2. CASE End(p)
      BY <3>2
    <3>3. CASE /\ \E at \in Pc : proc' = [proc EXCEPT ![p].at = at, ![p].snap = source]
               /\ UNCHANGED barrier
      <4>1. PICK at \in Pc : proc' = [proc EXCEPT ![p].at = at, ![p].snap = source]
        BY <3>3
      <4>2. proc' \in [Process -> Run]
        BY <1>1, <3>1, <4>1, CaptureTyped
      <4> QED BY <3>3, <4>2
    <3>4. \/ End(p)
          \/ \E at \in {"decode", "seal", "sealed"} :
                /\ proc' = [proc EXCEPT ![p].at = at, ![p].snap = source]
                /\ UNCHANGED barrier
      BY <1>4 DEF Capture
    <3> QED BY <3>2, <3>3, <3>4, Places
  <2> QED BY <1>1, <1>4, <2>1, TypesMove DEF Capture, Rest
<1>5. CASE SnapshotVerified(p)
  <2>1. ledger' \in Ledger
    <3>1. proc[p].snap \in 0 .. Len(Content)
      BY <1>1, CaptureTyped
    <3>2. [ledger EXCEPT !.phase = 3, !.snap = proc[p].snap] \in Ledger
      BY <1>1, <3>1, LedgerTyped
    <3> QED BY <1>1, <1>5, <3>2, Phases DEF SnapshotVerified
  <2>2. End(p) \/ \E at \in Pc : Step(p, at)
    BY <1>5, Places DEF SnapshotVerified
  <2> QED BY <1>1, <1>5, <2>1, <2>2, TypesMove DEF SnapshotVerified, Rest
<1>6. CASE Decrypt(p)
  <2>1. End(p) \/ \E at \in Pc : Step(p, at)
    BY <1>6, Places DEF Decrypt, Resumed
  <2> QED BY <1>1, <1>6, <2>1, TypesMove DEF Decrypt, Rest
<1>7. CASE Stage(p)
  <2>1. "nulls" \in Pc /\ "staging_created" \in Pc /\ "dispose" \in Pc
    BY Places
  <2>2. ledger' \in Ledger /\ gen' \in Generation /\ (End(p) \/ \E at \in Pc : Step(p, at))
    <3>1. CASE Checkpointed(p, Through("staging_created"), "dispose") /\ UNCHANGED gen
      BY <1>1, <2>1, <3>1, Phases, CheckpointTyped
    <3>2. CASE /\ gen' \in {gen, [gen EXCEPT !.made = TRUE], [gen EXCEPT !.nulls = TRUE]}
               /\ UNCHANGED ledger
               /\ End(p) \/ Step(p, "nulls") \/ Step(p, "staging_created")
      <4>1. gen' \in Generation
        BY <3>2, <1>1, GenerationTyped
      <4> QED BY <1>1, <2>1, <3>2, <4>1
    <3> QED BY <1>7, <3>1, <3>2 DEF Stage
  <2> QED BY <1>1, <1>7, <2>2, TypesMove DEF Stage, Rest
<1>8. CASE Verify(p)
  <2>1. "receipt" \in Pc
    BY Places
  <2>2. ledger' \in Ledger /\ (End(p) \/ \E at \in Pc : Step(p, at))
    <3>1. CASE Checkpointed(p, Through("projection_verified"), "receipt")
      BY <1>1, <2>1, <3>1, Phases, CheckpointTyped
    <3>2. CASE End(p) /\ UNCHANGED ledger
      BY <1>1, <3>2
    <3> QED BY <1>8, <3>1, <3>2 DEF Verify
  <2> QED BY <1>1, <1>8, <2>2, TypesMove DEF Verify, Rest
<1> QED BY <1>2, <1>3, <1>4, <1>5, <1>6, <1>7, <1>8

\* What the commands and the deletions do to a file of the quarantine leaves a file.
LEMMA FilesTyped ==
    ASSUME NEW f \in FileOf(Envelopes \cup {None})
    PROVE  /\ f.seen \in Envelopes \cup {None} /\ f.kept \in Envelopes \cup {None}
           /\ \A e \in Envelopes \cup {None} : [f EXCEPT !.seen = e] \in FileOf(Envelopes \cup {None})
           /\ Synced(f) \in FileOf(Envelopes \cup {None})
           /\ \A e : Gone(f, e) \in FileOf(Envelopes \cup {None})
           /\ \A e \in Envelopes \cup {None} : File(e) \in FileOf(Envelopes \cup {None})
<1> DEFINE E == Envelopes \cup {None}
<1>1. None \in E
  OBVIOUS
<1> HIDE DEF E
<1>2. f \in FileOf(E)
  BY DEF E
<1>3. /\ f.seen \in E /\ f.kept \in E
      /\ \A e \in E : [f EXCEPT !.seen = e] \in FileOf(E)
      /\ Synced(f) \in FileOf(E)
      /\ \A e : Gone(f, e) \in FileOf(E)
      /\ \A e \in E : File(e) \in FileOf(E)
  BY <1>1, <1>2 DEF FileOf, Synced, Gone, File
<1> QED BY <1>3 DEF E

\* A command seals envelopes.
LEMMA EnvelopeTyped ==
    ASSUME proc \in [Process -> Run], NEW p \in Process, NEW w \in BOOLEAN
    PROVE  Envelope(p, w) \in Envelopes
<1>1. proc[p].nth \in Nat /\ proc[p].snap \in Nat
  BY DEF Run
<1> QED BY <1>1 DEF Envelope, Envelopes

\* Sealing and retaining keep the types,
LEMMA TypesQuarantined ==
    ASSUME TypeOK, NEW p \in Process, Seal(p) \/ Retain(p)
    PROVE  TypeOK'
<1>1. /\ proc \in [Process -> Run]
      /\ cipher \in FileOf(Envelopes \cup {None}) /\ key \in FileOf(Envelopes \cup {None})
  BY DEF TypeOK
<1>2. CASE Seal(p)
  <2>1. /\ cipher' \in {cipher, Created(p, cipher), Written(p, cipher), Synced(cipher)}
        /\ key' \in {key, Created(p, key), Written(p, key), Synced(key)}
        /\ \E at \in Pc : Step(p, at)
    BY <1>2, Places DEF Seal
  <2>2. /\ cipher' \in FileOf(Envelopes \cup {None})
        /\ key' \in FileOf(Envelopes \cup {None})
    BY <1>1, <2>1, FilesTyped, EnvelopeTyped DEF Created, Written
  <2>3. proc' \in [Process -> Run]
    BY <1>1, <2>1, RunsTyped DEF Step
  <2> QED BY <1>2, <2>1, <2>2, <2>3 DEF TypeOK, Seal, Rest, Step, privacy
<1>3. CASE Retain(p)
  <2>1. cipher.seen \in Envelopes \cup {None} /\ key.seen \in Envelopes \cup {None}
    BY <1>1, FilesTyped
  <2>2. \/ UNCHANGED retained /\ End(p)
        \/ /\ retained' = [cipher |-> cipher.seen, key |-> key.seen]
           /\ Opens(cipher.seen, key.seen) /\ Step(p, "snapshot_verified")
    BY <1>3 DEF Retain
  <2>3. retained' \in Pairs \cup {None}
    BY <2>1, <2>2 DEF TypeOK, Opens, Pairs
  <2>4. proc' \in [Process -> Run] /\ barrier' \in Process \cup {None}
    BY <1>1, <2>2, RunsTyped, BarrierTyped, Places DEF Step, End, TypeOK
  <2> QED BY <1>3, <2>3, <2>4 DEF TypeOK, Retain, Rest, privacy
<1> QED BY <1>2, <1>3

\* The receipt of a projection is a receipt.
LEMMA ReceiptTyped ==
    ASSUME proc \in [Process -> Run], NEW p \in Process, gen \in Generation, gen.members # None
    PROVE  Receipt(p) \in Receipts
<1>1. proc[p].snap \in Nat
  BY DEF Run
<1>2. gen.members \in SUBSET Row
  BY DEF Generation
<1> QED BY <1>1, <1>2 DEF Receipt, Receipts

\* and so do projection, boundary, swap and recovery,
LEMMA TypesWorking ==
    ASSUME IInv, NEW p \in Process,
           Dispose(p) \/ Project(p) \/ Await(p) \/ Swap(p) \/ SyncManifest(p) \/ Finish(p)
    PROVE  TypeOK'
<1>1. /\ TypeOK /\ ledger \in Ledger /\ gen \in Generation /\ manifest \in FileOf(Manifest)
      /\ proc \in [Process -> Run] /\ told \subseteq {"completed", "recovered"}
  BY DEF IInv, Order, TypeOK
<1>2. ASSUME At(p, "receipt") \/ At(p, "ledger_receipt") \/ At(p, "cas")
      PROVE  Receipt(p) \in Receipts
  <2>1. ledger.phase \in 0 .. 9 /\ Paced /\ Attested
    BY <1>1, LedgerTyped DEF IInv, Order, Migrated
  <2>2. ledger.phase >= 6 \/ ledger.phase >= 7
    BY <1>2, <2>1 DEF Paced, PacedAt, At
  <2>3. ledger.phase >= 5
    BY <2>1, <2>2
  <2>4. gen.members # None
    BY <2>1, <2>3 DEF Attested
  <2> QED BY <1>1, <2>4, ReceiptTyped
<1>3. CASE Dispose(p)
  <2>1. ledger' \in Ledger
    BY <1>1, <1>3, DecodeTyped, LedgerTyped DEF Dispose
  <2>2. End(p) \/ \E at \in Pc : Step(p, at)
    BY <1>3, Places DEF Dispose
  <2> QED BY <1>1, <1>3, <2>1, <2>2, TypesMove DEF Dispose, Rest
<1>4. CASE Project(p)
  <2>1. ASSUME At(p, "project")
        PROVE  proc[p].snap \in 1 .. Len(Content)
    <3>1. ledger.phase >= 3 /\ proc[p].snap = ledger.snap
      BY <2>1 DEF IInv, Order, Paced, PacedAt, At, Projects
    <3>2. ledger.snap # 0
      BY <3>1 DEF IInv, Migrated, Attested
    <3>3. proc[p].snap \in 0 .. Len(Content)
      BY <1>1, CaptureTyped
    <3> QED BY <3>1, <3>2, <3>3
  <2>2. gen' \in Generation /\ ledger' \in Ledger /\ (End(p) \/ \E at \in Pc : Step(p, at))
    <3>1. CASE Checkpointed(p, Through("projecting"), "verify") /\ UNCHANGED gen
      BY <1>1, <3>1, Phases, Places, CheckpointTyped
    <3>2. CASE /\ At(p, "project") /\ UNCHANGED ledger
               /\ \/ gen' = [gen EXCEPT !.members = Projection(proc[p].snap, p)] /\ Step(p, "projecting")
                  \/ UNCHANGED gen /\ End(p)
      BY <1>1, <2>1, <3>2, DecodeTyped, GenerationTyped, Places
    <3> QED BY <1>4, <3>1, <3>2 DEF Project
  <2> QED BY <1>1, <1>4, <2>2, TypesMove DEF Project, Rest
<1>5. CASE Await(p)
  <2>1. gen' \in Generation
    BY <1>1, <1>2, <1>5, GenerationTyped DEF Await
  <2>2. ledger' \in Ledger /\ (End(p) \/ \E at \in Pc : Step(p, at))
    <3>1. CASE At(p, "receipt")
      BY <1>1, <1>5, <3>1, Places DEF Await, At
    <3>2. CASE At(p, "ledger_receipt")
      <4>1. \/ ledger' = [ledger EXCEPT !.receipt = Receipt(p)] /\ Step(p, "awaiting_cutover")
            \/ UNCHANGED ledger /\ End(p)
        BY <1>5, <3>2 DEF Await, At
      <4> QED BY <1>1, <1>2, <3>2, <4>1, LedgerTyped, Places
    <3>3. CASE At(p, "awaiting_cutover")
      <4>1. (Appended(7) /\ End(p)) \/ Checkpointed(p, 7, "cas")
        BY <1>5, <3>3, Phases DEF Await, At
      <4>2. CASE Appended(7) /\ End(p)
        <5>1. \A k \in 0 .. 9 : Appended(k) => ledger' \in Ledger
          BY <1>1, LedgerTyped
        <5>2. 7 \in 0 .. 9
          OBVIOUS
        <5> QED BY <4>2, <5>1, <5>2
      <4>3. CASE Checkpointed(p, 7, "cas")
        BY <1>1, <4>3, CheckpointTyped, Places
      <4> QED BY <4>1, <4>2, <4>3
    <3> QED BY <1>5, <3>1, <3>2, <3>3 DEF Await
  <2> QED BY <1>1, <1>5, <2>1, <2>2, TypesMove DEF Await, Rest
<1>6. CASE Swap(p)
  <2> DEFINE mine == [rev |-> 1, gen |-> "run", receipt |-> Receipt(p)]
  <2>1. mine \in Manifest
    BY <1>2, <1>6 DEF Swap, Manifest
  <2>2. /\ manifest' = manifest \/ manifest' = [manifest EXCEPT !.seen = mine]
        /\ flock' = flock \/ flock' = p
        /\ End(p) \/ \E at \in Pc : Step(p, at)
    BY <1>6, Places DEF Swap
  <2>3. manifest' \in FileOf(Manifest)
    <3> HIDE DEF mine
    <3> QED BY <1>1, <2>1, <2>2 DEF FileOf
  <2>4. flock' \in Process \cup {None}
    BY <1>1, <2>2 DEF TypeOK
  <2>5. proc' \in [Process -> Run] /\ barrier' \in Process \cup {None}
    BY <1>1, <2>2, RunsTyped, BarrierTyped DEF Step, End, TypeOK
  <2> QED BY <1>1, <1>6, <2>3, <2>4, <2>5 DEF TypeOK, Swap, Kept, Rest, quarantine, privacy
<1>7. CASE SyncManifest(p)
  <2>1. manifest' \in FileOf(Manifest)
    BY <1>1, <1>7 DEF SyncManifest, Synced, FileOf
  <2>2. proc' \in [Process -> Run]
    BY <1>1, <1>7, SwappedTyped DEF SyncManifest
  <2>3. flock' = None /\ barrier' = barrier
    BY <1>7 DEF SyncManifest
  <2> QED BY <1>1, <1>7, <2>1, <2>2, <2>3 DEF TypeOK, SyncManifest, Kept, Rest, quarantine, privacy
<1>8. CASE Finish(p)
  <2>1. told' \subseteq {"completed", "recovered"}
    BY <1>1, <1>8 DEF Finish
  <2>2. ledger' \in Ledger /\ (End(p) \/ \E at \in Pc : Step(p, at))
    <3>1. \/ Checkpointed(p, 8, "verification") \/ Checkpointed(p, 9, "answer")
          \/ /\ \/ ledger' = [ledger EXCEPT !.receipt = gen.receipt]
                \/ ledger' = [ledger EXCEPT !.verified = TRUE]
                \/ ledger' = ledger
             /\ End(p) \/ (\E at \in Pc : Step(p, at))
      BY <1>8, Phases, Places DEF Finish
    <3>2. gen.receipt \in Receipts \cup {None}
      BY <1>1 DEF Generation
    <3>3. CASE Checkpointed(p, 8, "verification") \/ Checkpointed(p, 9, "answer")
      BY <1>1, <3>3, CheckpointTyped, Places
    <3>4. CASE ledger' = [ledger EXCEPT !.receipt = gen.receipt]
      BY <1>1, <3>1, <3>2, <3>3, <3>4, LedgerTyped
    <3> QED BY <1>1, <3>1, <3>3, <3>4, LedgerTyped
  <2> QED BY <1>1, <1>8, <2>1, <2>2, TypesMove DEF Finish
<1> QED BY <1>3, <1>4, <1>5, <1>6, <1>7, <1>8

\* the coordinators that open the store,
LEMMA TypesOfSessions ==
    ASSUME TypeOK, NEW s \in Session, Select(s) \/ Open(s) \/ TurnAway(s)
    PROVE  TypeOK'
<1>1. manifest.seen \in Manifest
  BY DEF TypeOK, FileOf
<1>2. NoManifest \in Manifest
  BY DEF NoManifest, Manifest
<1>3. session' \in [Session -> [at : {"closed", "selected"}, sel : Manifest]]
  BY <1>1, <1>2 DEF TypeOK, Select, Open, TurnAway, Ended, Closed
<1> QED BY <1>3 DEF TypeOK, Select, Open, TurnAway, Ended, Kept, quarantine, privacy

\* A deletion that moves on, or is left, is one of the deletions there may be.
LEMMA DeletersTyped ==
    ASSUME deleter \in [Deleter -> Deletion], NEW d \in Deleter
    PROVE  /\ deleter[d] \in Deletion
           /\ Leave(d) => deleter' \in [Deleter -> Deletion]
           /\ \A at \in {"idle", "begin"} \cup Deleting :
                 Goto(d, at) => deleter' \in [Deleter -> Deletion]
<1>1. Idle \in Deletion
  BY DEF Idle, Deletion
<1>2. ASSUME NEW at \in {"idle", "begin"} \cup Deleting, Goto(d, at)
      PROVE  deleter' \in [Deleter -> Deletion]
  BY <1>2 DEF Goto, Deletion
<1> QED BY <1>1, <1>2 DEF Leave

\* the deletions,
LEMMA TypesOfDeletion ==
    ASSUME IInv, NEW d \in Deleter, DeleterStep(d), UNCHANGED migration
    PROVE  TypeOK'
<1>0. TypeOK
  BY DEF IInv, Order
<1>1. /\ cipher \in FileOf(Envelopes \cup {None}) /\ key \in FileOf(Envelopes \cup {None})
      /\ deleter \in [Deleter -> Deletion] /\ clock \in Nat
      /\ intent \in [Challenge -> Pairs \cup {None}]
      /\ steps \in [Challenge -> SUBSET {"key", "cipher"}]
  BY <1>0 DEF TypeOK
<1>2. /\ "unlinkKey" \in Deleting /\ "syncKey" \in Deleting /\ "markKey" \in Deleting
      /\ "unlinkCipher" \in Deleting /\ "syncCipher" \in Deleting /\ "markCipher" \in Deleting
      /\ "complete" \in Deleting
  BY DEF Deleting
<1>3. ASSUME NEW c \in Challenge, Begin(d, c)
      PROVE  TypeOK'
  <2>1. [cipher |-> cipher.seen, key |-> key.seen] \in Pairs
    BY <1>1, <1>3, FilesTyped DEF Begin, Exact, Opens, Pairs
  <2>2. deleter' \in [Deleter -> Deletion]
    BY <1>1, <1>3, <2>1 DEF Begin, Deletion
  <2> QED BY <1>0, <1>3, <2>2 DEF TypeOK, Begin, quarantine, migration
<1>4. ASSUME NEW c \in Challenge, Resume(d, c)
      PROVE  TypeOK'
  <2>1. PICK at \in Deleting : deleter' = [deleter EXCEPT ![d] = [Idle EXCEPT !.op = c, !.at = at]]
    BY <1>2, <1>4 DEF Resume
  <2>2. [Idle EXCEPT !.op = c, !.at = at] \in Deletion
    BY DEF Idle, Deletion
  <2>3. deleter' \in [Deleter -> Deletion]
    BY <1>1, <2>1, <2>2
  <2> QED BY <1>0, <1>4, <2>3 DEF TypeOK, Resume, quarantine, migration
<1>5. CASE Consume(d)
  <2>1. deleter' \in [Deleter -> Deletion]
    BY <1>1, <1>5, DeletersTyped DEF Consume
  <2>2. deleter[d].read \in Pairs \cup {None}
    BY <1>1 DEF Deletion
  <2>3. intent' \in [Challenge -> Pairs \cup {None}]
    BY <1>1, <1>5, <2>2 DEF Consume
  <2> QED BY <1>0, <1>5, <2>1, <2>3 DEF TypeOK, Consume, quarantine, migration
<1>6. CASE UnlinkKey(d) \/ SyncKey(d)
  <2>1. deleter' \in [Deleter -> Deletion]
    BY <1>1, <1>2, <1>6, DeletersTyped DEF UnlinkKey, SyncKey, Unlink
  <2>2. key' \in FileOf(Envelopes \cup {None})
    BY <1>1, <1>6, FilesTyped DEF UnlinkKey, SyncKey
  <2> QED BY <1>0, <1>6, <2>1, <2>2 DEF TypeOK, UnlinkKey, SyncKey, migration
<1>7. CASE UnlinkCipher(d) \/ SyncCipher(d)
  <2>1. deleter' \in [Deleter -> Deletion]
    BY <1>1, <1>2, <1>7, DeletersTyped DEF UnlinkCipher, SyncCipher, Unlink
  <2>2. cipher' \in FileOf(Envelopes \cup {None})
    BY <1>1, <1>7, FilesTyped DEF UnlinkCipher, SyncCipher
  <2> QED BY <1>0, <1>7, <2>1, <2>2 DEF TypeOK, UnlinkCipher, SyncCipher, migration
<1>8. CASE Mark(d)
  <2>1. deleter' \in [Deleter -> Deletion]
    BY <1>1, <1>2, <1>8, DeletersTyped DEF Mark
  <2>2. steps' \in [Challenge -> SUBSET {"key", "cipher"}]
    BY <1>1, <1>8 DEF Mark
  <2> QED BY <1>0, <1>8, <2>1, <2>2 DEF TypeOK, Mark, quarantine, migration
<1>9. CASE Complete(d)
  <2>1. deleter' \in [Deleter -> Deletion]
    BY <1>1, <1>9, DeletersTyped DEF Complete
  <2>2. deleter[d].op \in Challenge
    BY <1>2, <1>9 DEF Complete, IInv, Quarantine, Admits, Carried
  <2> QED BY <1>0, <1>9, <2>1, <2>2 DEF TypeOK, Complete, quarantine, migration
<1> QED BY <1>3, <1>4, <1>5, <1>6, <1>7, <1>8, <1>9 DEF DeleterStep

\* and crashes, power losses, other runs and time.
LEMMA TypesOfEnvironment ==
    ASSUME TypeOK,
           \/ \E p \in Process : Crash(p)
           \/ \E d \in Deleter : DeleterCrash(d)
           \/ \E kind \in Kind : Attest(kind) /\ UNCHANGED migration
           \/ \E c \in Challenge : IssueChallenge(c) /\ UNCHANGED migration
           \/ WriteSource \/ Rival \/ Tick \/ PowerLoss
           \/ UNCHANGED vars
    PROVE  TypeOK'
<1>1. /\ proc \in [Process -> Run] /\ deleter \in [Deleter -> Deletion]
      /\ cipher \in FileOf(Envelopes \cup {None}) /\ key \in FileOf(Envelopes \cup {None})
      /\ manifest \in FileOf(Manifest) /\ clock \in Nat /\ crashes \in Nat
      /\ source \in 1 .. Len(Content)
      /\ session \in [Session -> [at : {"closed", "selected"}, sel : Manifest]]
  BY DEF TypeOK
<1>2. ASSUME NEW p \in Process, Crash(p)
      PROVE  TypeOK'
  <2>1. proc' \in [Process -> Run] /\ barrier' \in Process \cup {None}
    BY <1>1, <1>2, RunsTyped, BarrierTyped DEF Crash, End, TypeOK
  <2>2. flock' \in Process \cup {None} /\ crashes' \in Nat
    BY <1>2 DEF TypeOK, Crash
  <2> QED BY <1>2, <2>1, <2>2 DEF TypeOK, Crash, Kept, quarantine, privacy
<1>3. ASSUME NEW d \in Deleter, DeleterCrash(d)
      PROVE  TypeOK'
  <2>1. deleter' \in [Deleter -> Deletion] /\ crashes' \in Nat
    BY <1>1, <1>3, DeletersTyped DEF DeleterCrash
  <2> QED BY <1>3, <2>1 DEF TypeOK, DeleterCrash, quarantine
<1>4. ASSUME NEW kind \in Kind, Attest(kind), UNCHANGED migration
      PROVE  TypeOK'
  BY <1>4 DEF TypeOK, Attest, quarantine, migration
<1>5. ASSUME NEW c \in Challenge, IssueChallenge(c), UNCHANGED migration
      PROVE  TypeOK'
  BY <1>5 DEF TypeOK, IssueChallenge, quarantine, migration
<1>6. CASE WriteSource
  <2>1. source' \in 1 .. Len(Content)
    BY <1>1, <1>6, ContentAssumption DEF WriteSource
  <2> QED BY <1>6, <2>1 DEF TypeOK, WriteSource, Kept, quarantine, privacy
<1>7. CASE Rival
  <2>1. [rev |-> manifest.seen.rev + 1, gen |-> "other", receipt |-> None] \in Manifest
    BY <1>1 DEF FileOf, Manifest
  <2>2. manifest' \in FileOf(Manifest)
    BY <1>7, <2>1 DEF Rival, File, FileOf
  <2> QED BY <1>7, <2>2 DEF TypeOK, Rival, Kept, quarantine, privacy
<1>8. CASE Tick
  BY <1>8 DEF TypeOK, Tick, quarantine, privacy, migration
<1>9. CASE PowerLoss
  <2>1. proc' \in [Process -> Run] /\ deleter' \in [Deleter -> Deletion]
    BY <1>1, <1>9, RunsTyped DEF PowerLoss, Idle, Deletion
  <2>2. cipher' \in FileOf(Envelopes \cup {None}) /\ key' \in FileOf(Envelopes \cup {None})
    <3>1. PICK c \in {cipher.seen, cipher.kept}, k \in {key.seen, key.kept} :
             cipher' = File(c) /\ key' = File(k)
      BY <1>9 DEF PowerLoss
    <3> QED BY <1>1, <3>1, FilesTyped
  <2>3. manifest' \in FileOf(Manifest)
    BY <1>1, <1>9 DEF PowerLoss, File, FileOf
  <2>4. session' \in [Session -> [at : {"closed", "selected"}, sel : Manifest]]
    <3>1. NoManifest \in Manifest
      BY DEF NoManifest, Manifest
    <3> QED BY <1>1, <1>9, <3>1 DEF PowerLoss, Closed
  <2> QED BY <1>1, <1>9, <2>1, <2>2, <2>3, <2>4 DEF TypeOK, PowerLoss
<1>10. CASE UNCHANGED vars
  BY <1>10 DEF TypeOK, vars, quarantine, privacy, migration
<1> QED BY <1>2, <1>3, <1>4, <1>5, <1>6, <1>7, <1>8, <1>9, <1>10

\* Every step keeps the types.
LEMMA TypesKept == IInv /\ [Next]_vars => TypeOK'
<1> SUFFICES ASSUME IInv, [Next]_vars PROVE TypeOK'
  OBVIOUS
<1>0. TypeOK
  BY DEF IInv, Order
<1>1. ASSUME NEW p \in Process, MigrationStep(p)
      PROVE  TypeOK'
  BY <1>0, <1>1, TypesInvoke, TypesReserve, TypesAcquireLease, TypesMoving, TypesQuarantined,
     TypesWorking DEF MigrationStep
<1>2. ASSUME NEW s \in Session, Select(s) \/ Open(s) \/ TurnAway(s)
      PROVE  TypeOK'
  BY <1>0, <1>2, TypesOfSessions
<1>3. CASE PrivacyStep /\ UNCHANGED migration
  BY <1>0, <1>3, TypesOfDeletion, TypesOfEnvironment DEF PrivacyStep
<1>4. CASE \/ \E p \in Process : Crash(p)
           \/ \E d \in Deleter : DeleterCrash(d)
           \/ WriteSource \/ Rival \/ Tick \/ PowerLoss
           \/ UNCHANGED vars
  BY <1>0, <1>4, TypesOfEnvironment
<1> QED BY <1>1, <1>2, <1>3, <1>4 DEF Next

-----------------------------------------------------------------------------
(* What is recorded stays recorded *)

\* What the ledger and the generation say, and which files are retained, is never
\* unsaid: phases only advance, and what was written once is not written otherwise.
Grows ==
    /\ ledger'.phase >= ledger.phase
    /\ ledger.phase >= 3 => ledger'.snap = ledger.snap
    /\ ledger.rows # None => ledger'.rows # None
    /\ ledger.receipt # None => ledger'.receipt = ledger.receipt
    /\ ledger.verified => ledger'.verified
    /\ gen.nulls => gen'.nulls
    /\ gen.members # None => gen'.members = gen.members
    /\ gen.receipt # None => gen'.receipt = gen.receipt
    /\ retained # None => retained' = retained

\* The command that advances the ledger before the boundary holds the source.
Advances(p) == ledger'.phase # ledger.phase => barrier = p \/ ledger.phase >= 7

\* A checkpoint advances the phase and writes nothing else.
LEMMA CheckpointGrows ==
    ASSUME ledger \in Ledger, NEW p \in Process, NEW k \in 0 .. 9, NEW next,
           Checkpointed(p, k, next) \/ Appended(k)
    PROVE  /\ ledger'.phase >= ledger.phase /\ ledger'.phase \in {ledger.phase, k}
           /\ ledger'.snap = ledger.snap /\ ledger'.rows = ledger.rows
           /\ ledger'.receipt = ledger.receipt /\ ledger'.verified = ledger.verified
<1>1. UNCHANGED ledger \/ Appended(k)
  BY DEF Checkpointed
<1>2. ledger.phase \in 0 .. 9
  BY LedgerTyped
<1>3. CASE Appended(k)
  <2>1. PICK n \in 0 .. 9 : /\ ledger' = [ledger EXCEPT !.phase = n]
                            /\ n = IF ledger.phase < k THEN k ELSE ledger.phase
    BY <1>2, <1>3 DEF Appended
  <2>2. /\ ledger'.phase = n /\ ledger'.snap = ledger.snap /\ ledger'.rows = ledger.rows
        /\ ledger'.receipt = ledger.receipt /\ ledger'.verified = ledger.verified
    BY <2>1 DEF Ledger
  <2> QED BY <1>2, <2>1, <2>2
<1> QED BY <1>1, <1>2, <1>3

\* A step that leaves what is recorded unsays nothing.
LEMMA UnchangedGrows ==
    ASSUME TypeOK, UNCHANGED <<gen, retained>>,
           UNCHANGED ledger \/ (\E b \in BOOLEAN : ledger' = [ledger EXCEPT !.made = b])
              \/ (\E l : ledger' = [ledger EXCEPT !.lease = l])
    PROVE  Grows /\ UNCHANGED <<ledger.phase, ledger.snap, ledger.rows, ledger.receipt, ledger.verified>>
<1>1. ledger \in Ledger /\ ledger.phase \in 0 .. 9
  BY DEF TypeOK, Ledger
<1>2. UNCHANGED <<ledger.phase, ledger.snap, ledger.rows, ledger.receipt, ledger.verified>>
  BY <1>1 DEF Ledger
<1> QED BY <1>1, <1>2 DEF Grows

\* The same, for a command's step.
LEMMA CommandsGrow ==
    ASSUME IInv, NEW p \in Process, MigrationStep(p)
    PROVE  Grows /\ Advances(p)
<1>1. /\ TypeOK /\ ledger \in Ledger /\ gen \in Generation /\ ledger.phase \in 0 .. 9
      /\ Held /\ Paced /\ Attested /\ Projected /\ Working
  BY LedgerTyped DEF IInv, Order, TypeOK, Migrated
<1>2. /\ ledger.snap \in 0 .. Len(Content)
      /\ gen.receipt \in Receipts \cup {None}
  BY <1>1 DEF Ledger, Generation
<1>3. CASE \/ \E o \in Owner, cmd \in {"start", "resume", "confirm"} : Invoke(p, o, cmd)
           \/ Reserve(p) \/ AcquireLease(p) \/ Recover(p) \/ Capture(p) \/ Seal(p) \/ Decrypt(p)
           \/ Swap(p) \/ SyncManifest(p)
  <2>1. UNCHANGED <<gen, retained>>
    BY <1>3 DEF Invoke, Reserve, AcquireLease, Recover, Capture, Seal, Decrypt, Swap, SyncManifest,
                Kept, quarantine
  <2>2. \/ UNCHANGED ledger \/ (\E b \in BOOLEAN : ledger' = [ledger EXCEPT !.made = b])
        \/ (\E l : ledger' = [ledger EXCEPT !.lease = l])
    BY <1>3 DEF Invoke, Reserve, AcquireLease, Recover, Capture, Seal, Decrypt, Swap, SyncManifest
  <2> QED BY <1>1, <2>1, <2>2, UnchangedGrows DEF Advances
<1>4. CASE Early(p)
  <2>1. UNCHANGED <<gen, retained>> /\ barrier = p
    BY <1>1, <1>4 DEF Early, Kept, quarantine, Held, HeldBy, At, Holding
  <2>2. CASE UNCHANGED ledger
    BY <1>1, <2>1, <2>2, UnchangedGrows DEF Advances
  <2>3. CASE Checkpointed(p, ledger.phase + 1, "early") /\ ledger.phase < 2
    <3>1. PICK k \in 0 .. 9 : k = ledger.phase + 1
      BY <1>1, <2>3
    <3>2. Checkpointed(p, k, "early")
      BY <2>3, <3>1
    <3> QED BY <1>1, <2>1, <3>2, CheckpointGrows DEF Grows, Advances
  <2> QED BY <1>4, <2>2, <2>3, Phases DEF Early
<1>5. CASE Retain(p)
  <2>1. UNCHANGED <<ledger, gen>>
    BY <1>5 DEF Retain
  <2>2. retained # None => retained' = retained
    BY <1>5 DEF Retain
  <2> QED BY <1>1, <2>1, <2>2 DEF Grows, Advances
<1>6. CASE SnapshotVerified(p)
  <2>1. UNCHANGED <<gen, retained>> /\ barrier = p
    BY <1>1, <1>6 DEF SnapshotVerified, Kept, quarantine, Held, HeldBy, At, Holding, Retains
  <2>2. CASE UNCHANGED ledger
    BY <1>1, <2>1, <2>2, UnchangedGrows DEF Advances
  <2>3. CASE ledger.phase = 2 /\ ledger' = [ledger EXCEPT !.phase = 3, !.snap = proc[p].snap]
    <3>1. /\ ledger'.phase = 3 /\ ledger'.rows = ledger.rows
          /\ ledger'.receipt = ledger.receipt /\ ledger'.verified = ledger.verified
      BY <1>1, <2>3 DEF Ledger
    <3> QED BY <1>1, <2>1, <2>3, <3>1 DEF Grows, Advances
  <2>4. Through("snapshot_verified") = 3
    BY Phases
  <2>5. \/ UNCHANGED ledger
        \/ /\ ledger.phase = Through("snapshot_verified") - 1
           /\ ledger' = [ledger EXCEPT !.phase = Through("snapshot_verified"), !.snap = proc[p].snap]
    BY <1>6 DEF SnapshotVerified
  <2>6. UNCHANGED ledger \/ (ledger.phase = 2 /\ ledger' = [ledger EXCEPT !.phase = 3, !.snap = proc[p].snap])
    <3>1. PICK k \in 0 .. 9 : k = 3 /\ k = Through("snapshot_verified")
      BY <2>4
    <3>2. \/ UNCHANGED ledger
          \/ ledger.phase = k - 1 /\ ledger' = [ledger EXCEPT !.phase = k, !.snap = proc[p].snap]
      BY <2>5, <3>1
    <3>3. k - 1 = 2
      BY <3>1
    <3> QED BY <3>1, <3>2, <3>3
  <2> QED BY <2>2, <2>3, <2>6
<1>7. CASE Stage(p)
  <2>1. UNCHANGED retained /\ barrier = p
    BY <1>1, <1>7 DEF Stage, Kept, quarantine, Held, HeldBy, At, Holding, Projects
  <2>2. CASE UNCHANGED ledger /\ gen' \in {gen, [gen EXCEPT !.made = TRUE], [gen EXCEPT !.nulls = TRUE]}
    <3>1. gen'.members = gen.members /\ gen'.receipt = gen.receipt /\ (gen.nulls => gen'.nulls)
      BY <1>1, <2>2 DEF Generation
    <3> QED BY <1>1, <2>1, <2>2, <3>1 DEF Grows, Advances
  <2>3. CASE UNCHANGED gen /\ Checkpointed(p, 4, "dispose")
    BY <1>1, <2>1, <2>3, CheckpointGrows DEF Grows, Advances
  <2> QED BY <1>7, <2>2, <2>3, Phases DEF Stage
<1>8. CASE Dispose(p)
  <2>1. UNCHANGED <<gen, retained>>
    BY <1>8 DEF Dispose, Kept, quarantine
  <2>2. \/ UNCHANGED ledger
        \/ /\ ledger' = [ledger EXCEPT !.rows = Decode(proc[p].snap, p)]
           /\ Decode(proc[p].snap, p) \in [Row -> Dispositions]
    BY <1>8, DecodeTyped DEF Dispose
  <2>3. /\ ledger'.phase = ledger.phase /\ ledger'.snap = ledger.snap
        /\ ledger'.receipt = ledger.receipt /\ ledger'.verified = ledger.verified
        /\ ledger.rows # None => ledger'.rows # None
    BY <1>1, <2>2, NoneAssumption DEF Ledger
  <2> QED BY <1>1, <2>1, <2>3 DEF Grows, Advances
<1>9. CASE Project(p)
  <2>1. UNCHANGED retained /\ barrier = p
    BY <1>1, <1>9 DEF Project, Kept, quarantine, Held, HeldBy, At, Holding, Projects
  <2>2. CASE UNCHANGED ledger /\ (\/ UNCHANGED gen
                                  \/ \E S : /\ gen' = [gen EXCEPT !.members = S]
                                            /\ gen.members \in {None, S})
    <3>1. /\ gen'.receipt = gen.receipt /\ gen'.nulls = gen.nulls
          /\ gen.members # None => gen'.members = gen.members
      BY <1>1, <2>2 DEF Generation
    <3> QED BY <1>1, <2>1, <2>2, <3>1 DEF Grows, Advances
  <2>3. CASE UNCHANGED gen /\ Checkpointed(p, 5, "verify")
    BY <1>1, <2>1, <2>3, CheckpointGrows DEF Grows, Advances
  <2> QED BY <1>9, <2>2, <2>3, Phases DEF Project
<1>10. CASE Verify(p)
  <2>1. UNCHANGED <<gen, retained>> /\ barrier = p
    BY <1>1, <1>10 DEF Verify, Kept, quarantine, Held, HeldBy, At, Holding, Projects
  <2>2. CASE UNCHANGED ledger
    BY <1>1, <2>1, <2>2, UnchangedGrows DEF Advances
  <2>3. CASE Checkpointed(p, 6, "receipt")
    BY <1>1, <2>1, <2>3, CheckpointGrows DEF Grows, Advances
  <2> QED BY <1>10, <2>2, <2>3, Phases DEF Verify
<1>11. CASE Await(p)
  <2>1. UNCHANGED retained /\ barrier = p
    BY <1>1, <1>11 DEF Await, Kept, quarantine, Held, HeldBy, At, Holding, Projects
  <2>2. /\ At(p, "receipt") \/ At(p, "ledger_receipt") =>
              /\ proc[p].snap = ledger.snap /\ gen.members # None
              /\ Receipt(p) = [snap |-> ledger.snap, members |-> gen.members]
    <3> SUFFICES ASSUME At(p, "receipt") \/ At(p, "ledger_receipt")
                 PROVE  proc[p].snap = ledger.snap /\ gen.members # None
      BY DEF Receipt
    <3>1. ledger.phase >= 6 /\ proc[p].snap = ledger.snap
      BY <1>1 DEF Paced, PacedAt, At, Projects
    <3> QED BY <1>1, <3>1 DEF Attested
  <2>3. CASE At(p, "receipt")
    <3>1. UNCHANGED ledger
      BY <1>11, <2>3 DEF Await, At
    <3>2. \/ UNCHANGED gen
          \/ gen' = [gen EXCEPT !.receipt = [snap |-> ledger.snap, members |-> gen.members]]
      BY <1>11, <2>2, <2>3 DEF Await, At
    <3>3. /\ gen'.members = gen.members /\ gen'.nulls = gen.nulls
          /\ gen.receipt # None => gen'.receipt = gen.receipt
      BY <1>1, <3>2 DEF Generation, Projected
    <3> QED BY <1>1, <2>1, <3>1, <3>3 DEF Grows, Advances
  <2>4. CASE At(p, "ledger_receipt")
    <3>1. UNCHANGED gen
      BY <1>11, <2>4 DEF Await, At
    <3>2. \/ UNCHANGED ledger
          \/ /\ ledger' = [ledger EXCEPT !.receipt = Receipt(p)]
             /\ ledger.receipt \in {None, Receipt(p)}
      BY <1>11, <2>4 DEF Await, At
    <3>3. /\ ledger'.phase = ledger.phase /\ ledger'.snap = ledger.snap
          /\ ledger'.rows = ledger.rows /\ ledger'.verified = ledger.verified
          /\ ledger.receipt # None => ledger'.receipt = ledger.receipt
      BY <1>1, <3>2 DEF Ledger
    <3> QED BY <1>1, <2>1, <3>1, <3>3 DEF Grows, Advances
  <2>5. CASE At(p, "awaiting_cutover")
    <3>1. UNCHANGED gen
      BY <1>11, <2>5 DEF Await, At
    <3>2. Checkpointed(p, 7, "cas") \/ Appended(7)
      BY <1>11, <2>5, Phases DEF Await, At
    <3> QED BY <1>1, <2>1, <3>1, <3>2, CheckpointGrows DEF Grows, Advances
  <2> QED BY <1>11, <2>3, <2>4, <2>5 DEF Await
<1>12. CASE Finish(p)
  <2>1. UNCHANGED <<gen, retained>>
    BY <1>12 DEF Finish, Kept, quarantine
  <2>2. CASE UNCHANGED ledger
    BY <1>1, <2>1, <2>2, UnchangedGrows DEF Advances
  <2>3. CASE \/ /\ ledger' = [ledger EXCEPT !.receipt = gen.receipt]
                /\ ledger.receipt \in {None, gen.receipt}
             \/ ledger' = [ledger EXCEPT !.verified = TRUE]
    <3>1. /\ ledger'.phase = ledger.phase /\ ledger'.snap = ledger.snap
          /\ ledger'.rows = ledger.rows
          /\ ledger.receipt # None => ledger'.receipt = ledger.receipt
          /\ ledger.verified => ledger'.verified
      BY <1>1, <2>3 DEF Ledger
    <3> QED BY <1>1, <2>1, <3>1 DEF Grows, Advances
  <2>4. CASE Checkpointed(p, 8, "verification") /\ ledger.phase = 7
    BY <1>1, <2>1, <2>4, CheckpointGrows DEF Grows, Advances
  <2>5. CASE Checkpointed(p, 9, "answer") /\ ledger.phase = 8
    BY <1>1, <2>1, <2>5, CheckpointGrows DEF Grows, Advances
  <2> QED BY <1>12, <2>2, <2>3, <2>4, <2>5, Phases DEF Finish, Awaiting
<1> QED BY <1>3, <1>4, <1>5, <1>6, <1>7, <1>8, <1>9, <1>10, <1>11, <1>12 DEF MigrationStep

\* No step unsays what is recorded.
LEMMA EverythingGrows == IInv /\ [Next]_vars => Grows
<1> SUFFICES ASSUME IInv, [Next]_vars PROVE Grows
  OBVIOUS
<1>0. TypeOK
  BY DEF IInv, Order
<1>1. ASSUME NEW p \in Process, MigrationStep(p)
      PROVE  Grows
  BY <1>1, CommandsGrow
<1>2. ASSUME NEW p \in Process, Crash(p)
      PROVE  Grows
  BY <1>0, <1>2, UnchangedGrows DEF Crash, Kept, quarantine
<1>3. ASSUME NEW s \in Session, Select(s) \/ Open(s) \/ TurnAway(s)
      PROVE  Grows
  BY <1>0, <1>3, UnchangedGrows DEF Select, Open, TurnAway, Ended, Kept, quarantine
<1>4. ASSUME NEW d \in Deleter, DeleterCrash(d)
      PROVE  Grows
  BY <1>0, <1>4, UnchangedGrows DEF DeleterCrash, quarantine
<1>5. CASE PrivacyStep /\ UNCHANGED migration
  <2>1. UNCHANGED retained
    BY <1>5 DEF PrivacyStep, Attest, IssueChallenge, DeleterStep, Begin, Resume, Consume, UnlinkKey,
                SyncKey, UnlinkCipher, SyncCipher, Mark, Complete, quarantine
  <2> QED BY <1>0, <1>5, <2>1, UnchangedGrows DEF migration
<1>6. CASE WriteSource \/ Rival \/ Tick \/ PowerLoss \/ UNCHANGED vars
  BY <1>0, <1>6, UnchangedGrows DEF WriteSource, Rival, Tick, PowerLoss, vars, quarantine, migration, Kept
<1> QED BY <1>1, <1>2, <1>3, <1>4, <1>5, <1>6 DEF Next

-----------------------------------------------------------------------------
(* The order of commands *)

\* What a command's step does to the commands: it moves itself on, or ends, and takes
\* the source only when nobody holds it.
Runs(p) ==
    /\ \A q \in Process \ {p} : proc'[q] = proc[q] /\ (barrier = q => barrier' = q)
    /\ proc'[p].at # "idle" => proc[p].at # "idle" /\ proc'[p].nth = proc[p].nth
    /\ proc'[p].at \in Holding => barrier' = p
    /\ proc'[p].at = "sync" => flock' = p

\* Which places hold the source.
LEMMA IdleHoldsNothing ==
    /\ "idle" \notin Holding /\ "barrier" \notin Holding /\ "lease" \notin Holding /\ "recover" \notin Holding
    /\ \A at \in Finishing : at \notin Holding
    /\ "idle" \notin Seals \cup Retains \cup Projects
    /\ "barrier" \notin Seals \cup Retains \cup Projects /\ "lease" \notin Seals \cup Retains \cup Projects
    /\ "recover" \notin Seals \cup Retains \cup Projects /\ "early" \notin Seals \cup Retains \cup Projects
    /\ "capture" \notin Seals \cup Retains \cup Projects
    /\ \A at \in Finishing : at \notin Seals \cup Retains \cup Projects
    /\ \A at \in Seals \cup Retains : at \notin Projects
    /\ Seals \cup Retains \cup Projects \subseteq Holding
    /\ "early" \in Holding /\ "capture" \in Holding
  BY DEF Holding, Seals, Retains, Projects, Finishing

\* A command that ends releases what it held.
LEMMA EndRuns ==
    ASSUME TypeOK, NEW p \in Process, End(p)
    PROVE  Runs(p) /\ proc'[p] = NoRun /\ proc'[p].at = "idle"
<1>1. proc \in [Process -> Run]
  BY DEF TypeOK
<1>2. proc'[p] = NoRun /\ \A q \in Process \ {p} : proc'[q] = proc[q]
  BY <1>1 DEF End
<1>3. NoRun.at = "idle"
  BY DEF NoRun
<1>4. \A q \in Process \ {p} : barrier = q => barrier' = q
  BY DEF End, Freed
<1> QED BY <1>2, <1>3, <1>4, IdleHoldsNothing DEF Runs

\* A command moves on alone, and holds what it held.
LEMMA StepRuns ==
    ASSUME TypeOK, NEW p \in Process, proc[p].at # "idle", NEW at, at \in Holding => barrier = p,
           at = "sync" => flock' = p, Step(p, at)
    PROVE  /\ Runs(p) /\ proc'[p].at = at /\ proc'[p].snap = proc[p].snap
           /\ proc'[p].cmd = proc[p].cmd
<1>1. proc \in [Process -> Run]
  BY DEF TypeOK
<1>2. /\ \A q \in Process \ {p} : proc'[q] = proc[q]
      /\ proc'[p].at = at /\ proc'[p].nth = proc[p].nth /\ proc'[p].snap = proc[p].snap
      /\ proc'[p].cmd = proc[p].cmd
  BY <1>1 DEF Step, To, Run
<1> QED BY <1>2 DEF Runs, Step

\* A command goes on from a checkpoint only when the ledger has reached it.
LEMMA CheckpointReaches ==
    ASSUME ledger \in Ledger, NEW p \in Process, NEW k \in 0 .. 9, NEW next, Checkpointed(p, k, next)
    PROVE  End(p) \/ (Step(p, next) /\ ledger'.phase >= k)
<1>1. CASE Step(p, next) /\ Appended(k)
  <2>1. ledger.phase \in 0 .. 9
    BY LedgerTyped
  <2>2. ledger'.phase = IF ledger.phase < k THEN k ELSE ledger.phase
    BY <1>1 DEF Appended, Ledger
  <2> QED BY <1>1, <2>1, <2>2
<1> QED BY <1>1 DEF Checkpointed

\* After its step a command is where the ledger allows it to be.
Placed(p) == Runs(p) /\ PacedAt(p)' /\ WorksAt(p)'

\* An ended command asks nothing of the ledger.
LEMMA EndPlaces ==
    ASSUME TypeOK, NEW p \in Process, End(p)
    PROVE  Placed(p)
<1>1. Runs(p) /\ proc'[p].at = "idle"
  BY EndRuns
<1>2. PacedAt(p)'
  BY <1>1, IdleHoldsNothing DEF PacedAt
<1>3. WorksAt(p)'
  BY <1>1 DEF WorksAt
<1> QED BY <1>1, <1>2, <1>3 DEF Placed

\* A step to a place that asks nothing of the ledger.
LEMMA FreePlaces ==
    ASSUME TypeOK, NEW p \in Process, proc[p].at # "idle",
           NEW at \in {"barrier", "lease", "recover", "early", "capture"} \cup Finishing,
           at # "completed", at \in Holding => barrier = p, Step(p, at)
    PROVE  Placed(p)
<1>0. at # "sync"
  BY DEF Finishing
<1>1. Runs(p) /\ proc'[p].at = at
  BY <1>0, StepRuns
<1>2. PacedAt(p)'
  BY <1>1, IdleHoldsNothing DEF PacedAt, Finishing
<1>3. WorksAt(p)'
  BY <1>1 DEF WorksAt, Finishing
<1> QED BY <1>1, <1>2, <1>3 DEF Placed

\* A step on from where the ledger has the source's content.
LEMMA ProjectPlaces ==
    ASSUME IInv, TypeOK', Grows, NEW p \in Process, proc[p].at \in Projects, NEW at \in Projects, Step(p, at),
           at \in {"receipt", "ledger_receipt", "awaiting_cutover"} => ledger'.phase >= 6,
           at \in {"cas", "sync"} => ledger'.phase >= 7, at = "sync" => flock' = p,
           at = "staging_created" => gen'.nulls,
           at \in {"project", "projecting"} => ledger'.rows # None,
           at = "projecting" => gen'.members # None,
           at = "ledger_receipt" => gen'.receipt # None,
           at = "awaiting_cutover" => gen'.receipt # None /\ ledger'.receipt = gen'.receipt
    PROVE  Placed(p)
<1>1. TypeOK /\ HeldBy(p) /\ PacedAt(p)
  BY DEF IInv, Order, Held, Paced
<1>2. proc[p].at \in Holding /\ at \in Holding /\ proc[p].at # "idle"
      /\ at \notin Seals \cup Retains
  BY IdleHoldsNothing
<1>3. barrier = p
  BY <1>1, <1>2 DEF HeldBy
<1>4. Runs(p) /\ proc'[p].at = at /\ proc'[p].snap = proc[p].snap
  BY <1>1, <1>2, <1>3, StepRuns
<1>5. ledger.phase >= 3 /\ proc[p].snap = ledger.snap
  BY <1>1 DEF PacedAt
<1>6. ledger'.phase >= 3 /\ ledger'.snap = ledger.snap
  <2>1. ledger.phase \in Nat /\ ledger'.phase \in Nat
    <3>1. ledger \in Ledger /\ ledger' \in Ledger
      BY <1>1 DEF TypeOK
    <3> QED BY <3>1, PhaseTyped
  <2> QED BY <1>5, <2>1 DEF Grows
<1>7. PacedAt(p)'
  BY <1>2, <1>4, <1>5, <1>6 DEF PacedAt
<1>8. WorksAt(p)'
  <2>1. at # "snapshot_verified" /\ at # "completed"
    BY DEF Projects
  <2> QED BY <1>4, <2>1 DEF WorksAt
<1> QED BY <1>4, <1>7, <1>8 DEF Placed

\* Every step of a command takes it to a place that the ledger allows.
LEMMA CommandsPlace ==
    ASSUME IInv, TypeOK', NEW p \in Process, MigrationStep(p), proc[p].at # "idle"
    PROVE  Placed(p)
<1>0. /\ TypeOK /\ HeldBy(p) /\ PacedAt(p) /\ WorksAt(p) /\ Attested /\ Projected
      /\ Grows /\ ledger \in Ledger /\ gen \in Generation /\ ledger.phase \in 0 .. 9
      /\ proc \in [Process -> Run]
  BY CommandsGrow, LedgerTyped DEF IInv, Order, Held, Paced, Migrated, Working, TypeOK
<1> USE <1>0
<1>1. CASE Reserve(p)
  <2>1. CASE End(p)
    BY <2>1, EndPlaces
  <2>2. CASE barrier = None /\ barrier' = p /\ To(p, "lease")
    <3>1. /\ \A q \in Process \ {p} : proc'[q] = proc[q] /\ q # None
          /\ proc'[p].at = "lease" /\ proc'[p].nth = proc[p].nth
      BY <2>2, NoneAssumption DEF To, Run
    <3>2. Runs(p)
      BY <2>2, <3>1 DEF Runs
    <3>3. PacedAt(p)' /\ WorksAt(p)'
      BY <3>1, IdleHoldsNothing DEF PacedAt, WorksAt
    <3> QED BY <3>2, <3>3 DEF Placed
  <2> QED BY <1>1, <2>1, <2>2 DEF Reserve
<1>2. CASE AcquireLease(p)
  <2>1. CASE End(p)
    BY <2>1, EndPlaces
  <2>2. CASE (\E f : proc' = [proc EXCEPT ![p].at = "recover", ![p].fence = f]) /\ UNCHANGED barrier
    <3>1. /\ \A q \in Process \ {p} : proc'[q] = proc[q]
          /\ proc'[p].at = "recover" /\ proc'[p].nth = proc[p].nth
      BY <2>2 DEF Run
    <3>2. Runs(p)
      BY <2>2, <3>1, IdleHoldsNothing DEF Runs
    <3>3. PacedAt(p)' /\ WorksAt(p)'
      BY <3>1, IdleHoldsNothing DEF PacedAt, WorksAt
    <3> QED BY <3>2, <3>3 DEF Placed
  <2> QED BY <1>2, <2>1, <2>2 DEF AcquireLease
<1>3. CASE Recover(p)
  <2>1. \/ End(p) \/ Step(p, "project_receipt") \/ Step(p, "barrier")
        \/ (Step(p, "early") /\ barrier = p)
    BY <1>3 DEF Recover
  <2>2. "project_receipt" \in Finishing
    BY DEF Finishing
  <2> QED BY <2>1, <2>2, EndPlaces, FreePlaces, IdleHoldsNothing
<1>4. CASE Early(p)
  <2>1. barrier = p
    BY <1>4, IdleHoldsNothing DEF Early, At, HeldBy
  <2>2. \/ End(p) \/ Step(p, "early") \/ Step(p, "capture")
    BY <1>4 DEF Early, Checkpointed
  <2> QED BY <2>1, <2>2, EndPlaces, FreePlaces
<1>5. CASE Capture(p)
  <2>1. barrier = p
    BY <1>5, IdleHoldsNothing DEF Capture, At, HeldBy
  <2>2. CASE End(p)
    BY <2>2, EndPlaces
  <2>3. CASE \E at \in {"decode", "seal", "sealed"} :
               /\ proc' = [proc EXCEPT ![p].at = at, ![p].snap = source]
               /\ UNCHANGED barrier
               /\ at = "decode" => ledger.phase >= 3
               /\ at # "decode" => ledger.phase < 3
               /\ ledger.snap \in {0, source}
    <3>1. PICK at \in {"decode", "seal", "sealed"} :
               /\ proc' = [proc EXCEPT ![p].at = at, ![p].snap = source]
               /\ UNCHANGED barrier
               /\ at = "decode" => ledger.phase >= 3
               /\ at # "decode" => ledger.phase < 3
               /\ ledger.snap \in {0, source}
      BY <2>3
    <3>2. /\ \A q \in Process \ {p} : proc'[q] = proc[q]
          /\ proc'[p].at = at /\ proc'[p].nth = proc[p].nth /\ proc'[p].snap = source
      BY <3>1 DEF Run
    <3>3. Runs(p)
      BY <2>1, <3>1, <3>2 DEF Runs
    <3>4. ledger' = ledger /\ source \in Nat /\ source # 0
      BY <1>5 DEF Capture, TypeOK
    <3>5. at = "decode" => ledger.snap = source
      BY <3>1 DEF Attested
    <3>6. PacedAt(p)'
      BY <3>1, <3>2, <3>4, <3>5 DEF PacedAt, Seals, Retains, Projects
    <3>7. WorksAt(p)'
      BY <3>1, <3>2 DEF WorksAt
    <3> QED BY <3>3, <3>6, <3>7 DEF Placed
  <2>4. CASE Unchanged /\ ledger.phase >= Through("snapshot_verified")
    BY <1>5, <2>3, <2>4, Phases DEF Capture, Unchanged
  <2>5. CASE Unchanged /\ ~(ledger.phase >= Through("snapshot_verified"))
    BY <1>5, <2>2, <2>3, <2>5, Phases DEF Capture, Unchanged
  <2>6. CASE ~Unchanged
    BY <1>5, <2>2, <2>6 DEF Capture
  <2> QED BY <2>4, <2>5, <2>6
<1>6. CASE Seal(p)
  <2>1. PICK at \in {"write_cipher", "sync_cipher", "create_key", "write_key", "sync_key", "sealed"} :
           Step(p, at) /\ proc[p].at \in Seals
    BY <1>6 DEF Seal, At, Seals
  <2>2. at \in Seals \cup Retains
    BY DEF Seals, Retains
  <2>3. barrier = p
    BY <2>1, IdleHoldsNothing DEF HeldBy
  <2>4. Runs(p) /\ proc'[p].at = at /\ proc'[p].snap = proc[p].snap
    BY <2>1, <2>3, StepRuns
  <2>5. ledger' = ledger
    BY <1>6 DEF Seal
  <2>6. PacedAt(p)'
    <3>1. ledger.phase < 3 /\ proc[p].snap # 0
      BY <2>1 DEF PacedAt
    <3> QED BY <2>2, <2>4, <2>5, <3>1, IdleHoldsNothing DEF PacedAt
  <2>7. WorksAt(p)'
    BY <2>1, <2>4 DEF WorksAt
  <2> QED BY <2>4, <2>6, <2>7 DEF Placed
<1>7. CASE Retain(p)
  <2>1. CASE End(p)
    BY <2>1, EndPlaces
  <2>2. CASE Step(p, "snapshot_verified") /\ retained' = [cipher |-> cipher.seen, key |-> key.seen]
             /\ cipher.seen.of = proc[p].snap /\ Opens(cipher.seen, key.seen)
    <3>1. proc[p].at = "sealed" /\ ledger' = ledger
      BY <1>7 DEF Retain, At
    <3>2. "sealed" \in Retains /\ "snapshot_verified" \in Retains
      BY DEF Retains
    <3>3. barrier = p
      BY <3>1, <3>2, IdleHoldsNothing DEF HeldBy
    <3>4. Runs(p) /\ proc'[p].at = "snapshot_verified" /\ proc'[p].snap = proc[p].snap
      BY <2>2, <3>3, StepRuns
    <3>5. ledger.phase < 3 /\ proc[p].snap # 0
      BY <3>1, <3>2 DEF PacedAt
    <3>6. PacedAt(p)'
      BY <3>1, <3>2, <3>4, <3>5, IdleHoldsNothing DEF PacedAt
    <3>7. retained' # None
      <4>1. cipher.seen \in Envelopes \cup {None} /\ key.seen \in Envelopes \cup {None}
        BY FilesTyped DEF TypeOK
      <4>2. retained' \in Pairs
        BY <2>2, <4>1 DEF Opens, Pairs
      <4> QED BY <4>2, NoneAssumption
    <3>8. retained'.cipher.of = proc'[p].snap
      BY <2>2, <3>4
    <3>9. WorksAt(p)'
      BY <3>4, <3>7, <3>8 DEF WorksAt
    <3> QED BY <3>4, <3>6, <3>9 DEF Placed
  <2> QED BY <1>7, <2>1, <2>2 DEF Retain
<1>8. CASE SnapshotVerified(p)
  <2>1. CASE End(p)
    BY <2>1, EndPlaces
  <2>2. CASE Step(p, "decode") /\ ledger'.phase = 3 /\ ledger'.snap = proc[p].snap
    <3>1. proc[p].at \in Retains
      BY <1>8 DEF SnapshotVerified, At, Retains
    <3>2. barrier = p
      BY <3>1, IdleHoldsNothing DEF HeldBy
    <3>3. Runs(p) /\ proc'[p].at = "decode" /\ proc'[p].snap = proc[p].snap
      BY <2>2, <3>2, <1>8, StepRuns DEF SnapshotVerified, At
    <3>4. PacedAt(p)'
      BY <2>2, <3>3 DEF PacedAt, Seals, Retains
    <3>5. WorksAt(p)'
      BY <3>3 DEF WorksAt
    <3> QED BY <3>3, <3>4, <3>5 DEF Placed
  <2>3. \/ End(p)
        \/ /\ ledger' = [ledger EXCEPT !.phase = Through("snapshot_verified"), !.snap = proc[p].snap]
           /\ Step(p, "decode")
    BY <1>8 DEF SnapshotVerified
  <2>4. Through("snapshot_verified") = 3
    BY Phases
  <2>5. ledger' = [ledger EXCEPT !.phase = Through("snapshot_verified"), !.snap = proc[p].snap]
           => ledger'.phase = Through("snapshot_verified") /\ ledger'.snap = proc[p].snap
    BY DEF Ledger
  <2> QED BY <2>1, <2>2, <2>3, <2>4, <2>5
<1>9. CASE Decrypt(p)
  <2>1. CASE End(p)
    BY <2>1, EndPlaces
  <2>2. CASE \E at \in {"stage", "dispose", "verify"} : Step(p, at)
    <3>1. PICK at \in {"stage", "dispose", "verify"} : Step(p, at)
      BY <2>2
    <3>2. proc[p].at \in Projects /\ at \in Projects
      BY <1>9 DEF Decrypt, At, Projects
    <3> QED BY <3>1, <3>2, ProjectPlaces
  <2> QED BY <1>9, <2>1, <2>2 DEF Decrypt, Resumed
<1>10. CASE Stage(p)
  <2>1. proc[p].at \in Projects
    BY <1>10 DEF Stage, At, Projects
  <2>2. "nulls" \in Projects /\ "staging_created" \in Projects /\ "dispose" \in Projects
    BY DEF Projects
  <2>3. CASE At(p, "nulls")
    <3>1. Step(p, "staging_created") /\ gen' = [gen EXCEPT !.nulls = TRUE]
      BY <1>10, <2>3 DEF Stage, At
    <3>2. gen'.nulls
      BY <3>1 DEF Generation
    <3> QED BY <2>1, <2>2, <3>1, <3>2, ProjectPlaces
  <2>4. CASE End(p) \/ Step(p, "nulls") \/ Step(p, "dispose")
    BY <2>1, <2>2, <2>4, EndPlaces, ProjectPlaces
  <2> QED BY <1>10, <2>3, <2>4 DEF Stage, Checkpointed
<1>11. CASE Dispose(p)
  <2>1. proc[p].at \in Projects /\ "project" \in Projects
    BY <1>11 DEF Dispose, At, Projects
  <2>2. CASE End(p)
    BY <2>2, EndPlaces
  <2>3. CASE Step(p, "project") /\ ledger' = [ledger EXCEPT !.rows = Decode(proc[p].snap, p)]
    <3>1. ledger'.rows # None
      BY <2>3, DecodeTyped, NoneAssumption DEF Ledger
    <3> QED BY <2>1, <2>3, <3>1, ProjectPlaces
  <2> QED BY <1>11, <2>2, <2>3 DEF Dispose
<1>12. CASE Project(p)
  <2>1. proc[p].at \in Projects /\ "projecting" \in Projects /\ "verify" \in Projects
    BY <1>12 DEF Project, At, Projects
  <2>2. CASE At(p, "project")
    <3>1. ledger.rows # None /\ UNCHANGED ledger
      BY <1>12, <2>2 DEF Project, At, WorksAt
    <3>2. CASE End(p)
      BY <3>2, EndPlaces
    <3>3. CASE Step(p, "projecting") /\ gen' = [gen EXCEPT !.members = Projection(proc[p].snap, p)]
      <4>1. proc[p].snap \in 1 .. Len(Content)
        <5>1. ledger.phase >= 3 /\ proc[p].snap = ledger.snap
          BY <2>1 DEF PacedAt
        <5>2. ledger.snap # 0
          BY <5>1 DEF Attested
        <5>3. proc[p].snap \in 0 .. Len(Content)
          BY CaptureTyped
        <5> QED BY <5>1, <5>2, <5>3
      <4>2. gen'.members # None
        BY <3>3, <4>1, DecodeTyped, NoneAssumption DEF Generation
      <4> QED BY <2>1, <3>1, <3>3, <4>2, ProjectPlaces
    <3> QED BY <1>12, <2>2, <3>2, <3>3 DEF Project, At
  <2>3. CASE At(p, "projecting")
    <3>1. End(p) \/ Step(p, "verify")
      BY <1>12, <2>3 DEF Project, At, Checkpointed
    <3> QED BY <2>1, <3>1, EndPlaces, ProjectPlaces
  <2> QED BY <1>12, <2>2, <2>3 DEF Project
<1>13. CASE Verify(p)
  <2>1. proc[p].at \in Projects /\ "receipt" \in Projects
    BY <1>13 DEF Verify, At, Projects
  <2>2. CASE End(p)
    BY <2>2, EndPlaces
  <2>3. CASE Checkpointed(p, 6, "receipt")
    <3>1. End(p) \/ (Step(p, "receipt") /\ ledger'.phase >= 6)
      BY <2>3, CheckpointReaches
    <3> QED BY <2>1, <2>2, <3>1, ProjectPlaces
  <2> QED BY <1>13, <2>2, <2>3, Phases DEF Verify
<1>14. CASE Await(p)
  <2>1. proc[p].at \in Projects /\ "ledger_receipt" \in Projects /\ "awaiting_cutover" \in Projects
        /\ "cas" \in Projects /\ ledger.phase >= 6
    BY <1>14 DEF Await, At, Projects, PacedAt
  <2>2. ledger'.phase >= 6
    <3>1. ledger' \in Ledger
      BY DEF TypeOK
    <3>2. ledger'.phase \in Nat
      BY <3>1, PhaseTyped
    <3> QED BY <2>1, <3>2 DEF Grows
  <2>3. CASE At(p, "receipt")
    <3>1. CASE Step(p, "cas") /\ ledger.phase >= 7 /\ ledger' = ledger
      BY <2>1, <3>1, ProjectPlaces
    <3>2. CASE Step(p, "ledger_receipt") /\ gen' = [gen EXCEPT !.receipt = Receipt(p)]
      <4>1. gen.members # None
        BY <2>1 DEF Attested
      <4>2. gen'.receipt # None
        BY <3>2, <4>1, ReceiptTyped, NoneAssumption DEF Generation
      <4> QED BY <2>1, <2>2, <3>2, <4>2, ProjectPlaces
    <3> QED BY <1>14, <2>3, <3>1, <3>2, Phases DEF Await, At
  <2>4. CASE At(p, "ledger_receipt")
    <3>1. CASE End(p)
      BY <3>1, EndPlaces
    <3>2. CASE Step(p, "awaiting_cutover") /\ UNCHANGED gen
               /\ ledger' = [ledger EXCEPT !.receipt = Receipt(p)]
      <4>1. gen.receipt # None /\ proc[p].snap = ledger.snap
        BY <2>1, <2>4 DEF At, WorksAt, PacedAt
      <4>2. gen.receipt = Receipt(p)
        BY <4>1 DEF Projected, Receipt
      <4>3. ledger'.receipt = gen.receipt
        BY <3>2, <4>2 DEF Ledger
      <4> QED BY <2>1, <2>2, <3>2, <4>1, <4>3, ProjectPlaces
    <3> QED BY <1>14, <2>4, <3>1, <3>2 DEF Await, At
  <2>5. CASE At(p, "awaiting_cutover")
    <3>1. End(p) \/ Checkpointed(p, 7, "cas")
      BY <1>14, <2>5, Phases DEF Await, At
    <3>2. End(p) \/ (Step(p, "cas") /\ ledger'.phase >= 7)
      BY <3>1, CheckpointReaches
    <3> QED BY <2>1, <3>2, EndPlaces, ProjectPlaces
  <2> QED BY <1>14, <2>3, <2>4, <2>5 DEF Await
<1>15. CASE Swap(p)
  <2>1. proc[p].at \in Projects /\ "sync" \in Projects /\ ledger.phase >= 7 /\ ledger' = ledger
    BY <1>15 DEF Swap, At, Projects, PacedAt
  <2>2. End(p) \/ Step(p, "recover") \/ (Step(p, "sync") /\ flock' = p)
    BY <1>15 DEF Swap
  <2> QED BY <1>15, <2>1, <2>2, EndPlaces, FreePlaces, ProjectPlaces, IdleHoldsNothing
<1>16. CASE SyncManifest(p)
  <2>1. /\ \A q \in Process \ {p} : proc'[q] = proc[q]
        /\ proc'[p].at = "recover" /\ proc'[p].nth = proc[p].nth /\ barrier' = barrier
    BY <1>16 DEF SyncManifest, Run
  <2>2. Runs(p)
    BY <2>1, IdleHoldsNothing DEF Runs
  <2>3. PacedAt(p)' /\ WorksAt(p)'
    BY <2>1, IdleHoldsNothing DEF PacedAt, WorksAt
  <2> QED BY <2>2, <2>3 DEF Placed
<1>17. CASE Finish(p)
  <2>1. \/ End(p) \/ Step(p, "cutover_committed") \/ Step(p, "verification") \/ Step(p, "answer")
        \/ /\ ledger' = [ledger EXCEPT !.verified = TRUE] /\ Step(p, "completed")
    BY <1>17 DEF Finish, Checkpointed
  <2>2. "cutover_committed" \in Finishing /\ "verification" \in Finishing /\ "answer" \in Finishing
        /\ "completed" \in Finishing
    BY DEF Finishing
  <2>3. CASE ledger' = [ledger EXCEPT !.verified = TRUE] /\ Step(p, "completed")
    <3>1. Runs(p) /\ proc'[p].at = "completed"
      BY <2>2, <2>3, StepRuns, IdleHoldsNothing
    <3>2. ledger'.verified
      BY <2>3 DEF Ledger
    <3>3. PacedAt(p)' /\ WorksAt(p)'
      BY <2>2, <3>1, <3>2, IdleHoldsNothing DEF PacedAt, WorksAt
    <3> QED BY <3>1, <3>3 DEF Placed
  <2> QED BY <2>1, <2>2, <2>3, EndPlaces, FreePlaces, IdleHoldsNothing
<1>18. CASE \E o \in Owner, cmd \in {"start", "resume", "confirm"} : Invoke(p, o, cmd)
  BY <1>18 DEF Invoke, At
<1> QED BY <1>1, <1>2, <1>3, <1>4, <1>5, <1>6, <1>7, <1>8, <1>9, <1>10, <1>11, <1>12, <1>13,
           <1>14, <1>15, <1>16, <1>17, <1>18 DEF MigrationStep

\* A command that does not move keeps its place.
LEMMA OthersStay ==
    ASSUME IInv, TypeOK', Grows, NEW q \in Process, proc'[q] = proc[q],
           proc[q].at \in Seals \cup Retains => ledger'.phase = ledger.phase
    PROVE  PacedAt(q)' /\ WorksAt(q)'
<1>0. ledger \in Ledger /\ ledger' \in Ledger
  BY DEF IInv, Order, TypeOK
<1>1. /\ PacedAt(q) /\ WorksAt(q) /\ Attested /\ Projected
      /\ ledger.phase \in Nat /\ ledger'.phase \in Nat
  <2>1. ledger.phase \in Nat /\ ledger'.phase \in Nat
    BY <1>0, PhaseTyped
  <2> QED BY <2>1 DEF IInv, Order, Paced, Migrated, Working
<1>2. PacedAt(q)'
  BY <1>1 DEF PacedAt, Grows
<1>3. WorksAt(q)'
  BY <1>1, NoneAssumption DEF WorksAt, Grows
<1> QED BY <1>2, <1>3

\* A command's step keeps the order of commands.
LEMMA CommandsOrdered ==
    ASSUME IInv, TypeOK', NEW p \in Process, MigrationStep(p)
    PROVE  Order' /\ Working'
<1>1. /\ TypeOK /\ Held /\ Numbered /\ Paced /\ Working /\ Attested
      /\ proc \in [Process -> Run] /\ commands \in Nat
      /\ Grows /\ Advances(p)
  BY CommandsGrow DEF IInv, Order, Migrated, TypeOK
<1>2. CASE \E o \in Owner, cmd \in {"start", "resume", "confirm"} : Invoke(p, o, cmd)
  <2>1. PICK o \in Owner, cmd \in {"start", "resume", "confirm"} : Invoke(p, o, cmd)
    BY <1>2
  <2>2. /\ \A q \in Process \ {p} : proc'[q] = proc[q]
        /\ proc'[p].at \in {"barrier", "lease"} /\ proc'[p].nth = commands + 1
        /\ proc[p].at = "idle" /\ commands' = commands + 1
        /\ UNCHANGED <<barrier, flock>> /\ ledger'.phase = ledger.phase
    <3>1. PICK at \in {"barrier", "lease"} :
             proc' = [proc EXCEPT ![p] = [NoRun EXCEPT !.cmd = cmd, !.owner = o, !.now = clock,
                                                       !.nth = commands + 1, !.at = at]]
      BY <2>1 DEF Invoke
    <3>2. /\ \A q \in Process \ {p} : proc'[q] = proc[q]
          /\ proc'[p] = [NoRun EXCEPT !.cmd = cmd, !.owner = o, !.now = clock,
                                      !.nth = commands + 1, !.at = at]
      BY <1>1, <3>1
    <3>3. proc'[p].at = at /\ proc'[p].nth = commands + 1
      BY <3>2 DEF NoRun
    <3>4. ledger'.phase = ledger.phase
      <4>1. ledger \in Ledger
        BY <1>1 DEF TypeOK
      <4> QED BY <2>1, <4>1 DEF Invoke, Ledger
    <3> QED BY <2>1, <3>2, <3>3, <3>4 DEF Invoke, At
  <2>3. Held'
    BY <1>1, <2>2, IdleHoldsNothing DEF Held, HeldBy
  <2>4. Numbered'
    <3>1. \A q \in Process \ {p} : proc[q].at # "idle" => proc[q].nth \in 1 .. commands
      BY <1>1 DEF Numbered, NumberOf
    <3>2. ASSUME NEW q \in Process, proc'[q].at # "idle"
          PROVE  proc'[q].nth \in 1 .. commands'
      BY <1>1, <2>2, <3>1, <3>2
    <3>3. ASSUME NEW q \in Process, NEW r \in Process \ {q}, proc'[q].at # "idle", proc'[r].at # "idle"
          PROVE  proc'[r].nth # proc'[q].nth
      <4>1. CASE q = p
        BY <1>1, <2>2, <3>1, <3>3, <4>1
      <4>2. CASE r = p
        BY <1>1, <2>2, <3>1, <3>3, <4>2
      <4>3. CASE q # p /\ r # p
        BY <1>1, <2>2, <3>3, <4>3 DEF Numbered, NumberOf
      <4> QED BY <4>1, <4>2, <4>3
    <3> QED BY <3>2, <3>3 DEF Numbered, NumberOf
  <2>5. ASSUME NEW q \in Process
        PROVE  PacedAt(q)' /\ WorksAt(q)'
    <3>1. CASE q = p
      BY <2>2, <3>1, IdleHoldsNothing DEF PacedAt, WorksAt
    <3>2. CASE q # p
      BY <1>1, <2>2, <3>2, OthersStay
    <3> QED BY <3>1, <3>2
  <2> QED BY <2>3, <2>4, <2>5 DEF Order, Paced, Working
<1>3. CASE proc[p].at # "idle"
  <2>1. Runs(p) /\ PacedAt(p)' /\ WorksAt(p)'
    BY <1>3, CommandsPlace DEF Placed
  <2>2. \A q \in Process : proc'[q].at # "idle" => proc[q].at # "idle" /\ proc'[q].nth = proc[q].nth
    BY <2>1 DEF Runs
  <2>3. commands' = commands
    <3>1. ~ \E o \in Owner, cmd \in {"start", "resume", "confirm"} : Invoke(p, o, cmd)
      BY <1>3 DEF Invoke, At
    <3> QED BY <3>1 DEF MigrationStep, Reserve, AcquireLease, Recover, Early, Capture, Seal, Retain,
               SnapshotVerified, Decrypt, Stage, Dispose, Project, Verify, Await, Swap,
               SyncManifest, Finish, Rest
  <2>4. Numbered'
    BY <1>1, <2>2, <2>3 DEF Numbered, NumberOf
  <2>5. ASSUME NEW q \in Process \ {p}
        PROVE  PacedAt(q)' /\ WorksAt(q)'
    <3>1. proc'[q] = proc[q]
      BY <2>1 DEF Runs
    <3>2. ASSUME proc[q].at \in Seals \cup Retains
          PROVE  ledger'.phase = ledger.phase
      <4>1. barrier = q /\ ledger.phase < 3 /\ ledger.phase \in Nat
        <5>1. ledger \in Ledger
          BY <1>1 DEF TypeOK
        <5>2. ledger.phase \in Nat
          BY <5>1, PhaseTyped
        <5> QED BY <1>1, <3>2, <5>2, IdleHoldsNothing DEF Held, HeldBy, Paced, PacedAt
      <4> QED BY <1>1, <4>1 DEF Advances
    <3> QED BY <1>1, <3>1, <3>2, OthersStay
  <2>6. ASSUME NEW q \in Process
        PROVE  HeldBy(q)'
    <3>1. proc'[q].at \in Holding => barrier' = q
      BY <1>1, <2>1 DEF Runs, Held, HeldBy
    <3>2. proc'[q].at = "sync" => flock' = q
      <4>1. CASE q = p
        BY <2>1, <4>1 DEF Runs
      <4>2. CASE q # p /\ SyncManifest(p)
        <5>1. proc[p].at = "sync"
          BY <4>2 DEF SyncManifest, At
        <5>2. flock = p
          BY <1>1, <5>1 DEF Held, HeldBy
        <5> QED BY <1>1, <2>1, <4>2, <5>2 DEF Held, HeldBy, Runs
      <4>3. CASE q # p /\ ~SyncManifest(p)
        <5>1. flock' = flock \/ flock = None
          BY <4>3 DEF MigrationStep, Invoke, Reserve, AcquireLease, Recover, Early, Capture, Seal,
             Retain, SnapshotVerified, Decrypt, Stage, Dispose, Project, Verify, Await, Swap, Finish
        <5>2. proc[q].at = "sync" => flock' = q
          BY <1>1, <5>1, NoneAssumption DEF Held, HeldBy
        <5> QED BY <2>1, <4>3, <5>2 DEF Runs
      <4> QED BY <4>1, <4>2, <4>3
    <3> QED BY <3>1, <3>2 DEF HeldBy
  <2> QED BY <2>1, <2>4, <2>5, <2>6 DEF Order, Held, Paced, Working
<1>4. CASE proc[p].at = "idle"
  <2>1. \E o \in Owner, cmd \in {"start", "resume", "confirm"} : Invoke(p, o, cmd)
    BY <1>4 DEF MigrationStep, Reserve, AcquireLease, Recover, Early, Capture, Seal, Retain,
       SnapshotVerified, Decrypt, Stage, Dispose, Project, Verify, Await, Swap, SyncManifest,
       Finish, At
  <2> QED BY <1>2, <2>1
<1> QED BY <1>3, <1>4

\* Every step keeps the order of commands, and the ledger where they need it.
LEMMA OrderKept == IInv /\ [Next]_vars => Order' /\ Working'
<1> SUFFICES ASSUME IInv, [Next]_vars PROVE Order' /\ Working'
  OBVIOUS
<1>1. TypeOK' /\ Grows
  BY TypesKept, EverythingGrows
<1>2. /\ TypeOK /\ Held /\ Numbered /\ Paced /\ Working
      /\ proc \in [Process -> Run] /\ commands \in Nat /\ ledger.phase \in Nat
  BY DEF IInv, Order, Migrated, TypeOK, Ledger
<1>3. ASSUME NEW p \in Process, MigrationStep(p)
      PROVE  Order' /\ Working'
  BY <1>1, <1>3, CommandsOrdered
<1>4. CASE UNCHANGED <<proc, barrier, flock, ledger, commands>>
  <2>1. Held' /\ Numbered'
    BY <1>2, <1>4 DEF Held, HeldBy, Numbered, NumberOf
  <2>2. \A q \in Process : PacedAt(q)' /\ WorksAt(q)'
    BY <1>1, <1>4, OthersStay
  <2> QED BY <1>1, <2>1, <2>2 DEF Order, Paced, Working
<1>5. ASSUME NEW p \in Process, Crash(p)
      PROVE  Order' /\ Working'
  <2>2. /\ \A q \in Process \ {p} : proc'[q] = proc[q] /\ (barrier = q => barrier' = q)
                                     /\ (flock = q => flock' = q)
        /\ proc'[p].at = "idle" /\ UNCHANGED <<ledger, commands>>
    BY <1>2, <1>5, EndRuns DEF Crash, Runs
  <2>3. Held'
    BY <1>2, <2>2, IdleHoldsNothing DEF Held, HeldBy
  <2>4. Numbered'
    BY <1>2, <2>2 DEF Numbered, NumberOf
  <2>5. PacedAt(p)' /\ WorksAt(p)'
    BY <2>2, IdleHoldsNothing DEF PacedAt, WorksAt
  <2>6. \A q \in Process \ {p} : PacedAt(q)' /\ WorksAt(q)'
    BY <1>1, <2>2, OthersStay
  <2> QED BY <1>1, <2>3, <2>4, <2>5, <2>6 DEF Order, Paced, Working
<1>6. CASE PowerLoss
  <2>1. \A q \in Process : proc'[q].at = "idle"
    BY <1>6 DEF PowerLoss, NoRun
  <2> QED BY <1>1, <2>1, IdleHoldsNothing
          DEF Order, Held, HeldBy, Numbered, NumberOf, Paced, PacedAt, Working, WorksAt
<1>7. CASE WriteSource
  <2>1. UNCHANGED <<proc, barrier, flock, ledger, commands>>
    BY <1>7 DEF WriteSource
  <2> QED BY <1>4, <2>1
<1>8. CASE \/ \E s \in Session : Select(s) \/ Open(s) \/ TurnAway(s)
           \/ \E d \in Deleter : DeleterCrash(d)
           \/ PrivacyStep /\ UNCHANGED migration
           \/ Rival \/ Tick \/ UNCHANGED vars
  <2>1. UNCHANGED <<proc, barrier, flock, ledger, commands>>
    BY <1>8 DEF Select, Open, TurnAway, Ended, DeleterCrash, Rival, Tick, vars, migration
  <2> QED BY <1>4, <2>1
<1> QED BY <1>3, <1>5, <1>6, <1>7, <1>8 DEF Next

-----------------------------------------------------------------------------
(* Who writes what *)

\* The handlers that write the manifest, the generation and the ledger.
WritesManifest(p)   == Swap(p) \/ SyncManifest(p)
WritesGeneration(p) == Stage(p) \/ Project(p) \/ Await(p)
WritesLedger(p) ==
    \/ Early(p) \/ SnapshotVerified(p) \/ Stage(p) \/ Dispose(p) \/ Project(p) \/ Verify(p)
    \/ Await(p) \/ Finish(p) \/ AcquireLease(p)
    \/ \E o \in Owner, cmd \in {"start", "resume", "confirm"} : Invoke(p, o, cmd)

\* Only these steps of a command write them ...
LEMMA CommandsWrite ==
    ASSUME NEW p \in Process, MigrationStep(p)
    PROVE  /\ UNCHANGED manifest \/ WritesManifest(p)
           /\ UNCHANGED gen \/ WritesGeneration(p)
           /\ UNCHANGED ledger \/ WritesLedger(p)
<1>1. CASE \E o \in Owner, cmd \in {"start", "resume", "confirm"} : Invoke(p, o, cmd)
  <2>1. UNCHANGED <<gen, manifest>>
    BY <1>1 DEF Invoke
  <2> QED BY <1>1, <2>1 DEF WritesLedger
<1>2. CASE Reserve(p) \/ AcquireLease(p) \/ Recover(p)
  <2>1. UNCHANGED <<gen, manifest>> /\ (UNCHANGED ledger \/ AcquireLease(p))
    BY <1>2 DEF Reserve, AcquireLease, Recover
  <2> QED BY <2>1 DEF WritesLedger
<1>3. CASE Early(p) \/ Capture(p) \/ Seal(p) \/ Retain(p) \/ SnapshotVerified(p)
  <2>1. UNCHANGED <<gen, manifest>> /\ (UNCHANGED ledger \/ Early(p) \/ SnapshotVerified(p))
    BY <1>3 DEF Early, Capture, Seal, Retain, SnapshotVerified
  <2> QED BY <2>1 DEF WritesLedger
<1>4. CASE Decrypt(p) \/ Dispose(p) \/ Verify(p)
  <2>1. UNCHANGED <<gen, manifest>> /\ (UNCHANGED ledger \/ Dispose(p) \/ Verify(p))
    BY <1>4 DEF Decrypt, Dispose, Verify
  <2> QED BY <2>1 DEF WritesLedger
<1>5. CASE Stage(p) \/ Project(p) \/ Await(p)
  <2>1. UNCHANGED manifest
    BY <1>5 DEF Stage, Project, Await
  <2> QED BY <1>5, <2>1 DEF WritesGeneration, WritesLedger
<1>6. CASE Swap(p) \/ SyncManifest(p)
  <2>1. UNCHANGED <<gen, ledger>>
    BY <1>6 DEF Swap, SyncManifest
  <2> QED BY <1>6, <2>1 DEF WritesManifest
<1>7. CASE Finish(p)
  <2>1. UNCHANGED <<gen, manifest>>
    BY <1>7 DEF Finish
  <2> QED BY <1>7, <2>1 DEF WritesLedger
<1> QED BY <1>1, <1>2, <1>3, <1>4, <1>5, <1>6, <1>7 DEF MigrationStep

\* ... and of the rest, only another run and a power loss write the manifest.
LEMMA OnlyWriters ==
    ASSUME [Next]_vars
    PROVE  /\ UNCHANGED manifest \/ Rival \/ PowerLoss \/ \E p \in Process : WritesManifest(p)
           /\ UNCHANGED gen \/ \E p \in Process : WritesGeneration(p)
           /\ UNCHANGED ledger \/ \E p \in Process : WritesLedger(p)
<1>1. CASE \E p \in Process : MigrationStep(p)
  BY <1>1, CommandsWrite
<1>2. CASE \E p \in Process : Crash(p)
  BY <1>2 DEF Crash
<1>3. CASE \/ \E s \in Session : Select(s) \/ Open(s) \/ TurnAway(s)
           \/ \E d \in Deleter : DeleterCrash(d)
  BY <1>3 DEF Select, Open, TurnAway, Ended, DeleterCrash
<1>4. CASE WriteSource \/ Rival \/ PowerLoss
  BY <1>4 DEF WriteSource, Rival, PowerLoss
<1>5. CASE (PrivacyStep /\ UNCHANGED migration) \/ Tick \/ UNCHANGED vars
  BY <1>5 DEF Tick, vars, migration
<1> QED BY <1>1, <1>2, <1>3, <1>4, <1>5 DEF Next

-----------------------------------------------------------------------------
(* What the ledger attests *)

\* The phases are taken one at a time, each by the command that is there.
Taken(p) ==
    \/ ledger'.phase = ledger.phase
    \/ ledger'.phase = ledger.phase + 1 /\ ledger'.phase <= 2
    \/ SnapshotVerified(p) /\ ledger.phase = 2 /\ ledger'.phase = 3 /\ ledger'.snap = proc[p].snap
    \/ At(p, "staging_created") /\ ledger.phase = 3 /\ ledger'.phase = 4
    \/ At(p, "projecting") /\ ledger.phase = 4 /\ ledger'.phase = 5
    \/ ledger.phase = 5 /\ ledger'.phase = 6
    \/ At(p, "awaiting_cutover") /\ ledger.phase = 6 /\ ledger'.phase = 7
    \/ ledger.phase = 7 /\ ledger'.phase = 8
    \/ At(p, "completed") /\ ledger.phase = 8 /\ ledger'.phase = 9

\* A checkpoint takes the next phase or none.
LEMMA CheckpointTakes ==
    ASSUME ledger \in Ledger, NEW p \in Process, NEW k \in 1 .. 9, NEW next,
           Checkpointed(p, k, next) \/ (Appended(k) /\ ledger.phase >= k - 1)
    PROVE  ledger'.phase = ledger.phase \/ (ledger.phase = k - 1 /\ ledger'.phase = k)
<1>1. ledger.phase \in 0 .. 9
  BY LedgerTyped
<1>2. CASE UNCHANGED ledger
  BY <1>2
<1>3. CASE Appended(k) /\ ledger.phase >= k - 1
  <2>1. ledger'.phase = IF ledger.phase < k THEN k ELSE ledger.phase
    BY <1>3 DEF Appended, Ledger
  <2> QED BY <1>1, <1>3, <2>1
<1>4. UNCHANGED ledger \/ (Appended(k) /\ ledger.phase >= k - 1)
  BY <1>1 DEF Checkpointed
<1> QED BY <1>2, <1>3, <1>4

\* A command's step takes at most one phase, from the place that takes it.
LEMMA PhasesTaken ==
    ASSUME IInv, NEW p \in Process, MigrationStep(p)
    PROVE  Taken(p)
<1>1. ledger \in Ledger /\ ledger.phase \in 0 .. 9 /\ PacedAt(p)
  BY LedgerTyped DEF IInv, Order, TypeOK, Paced
<1>2. CASE UNCHANGED <<ledger.phase>>
  BY <1>2 DEF Taken
<1>3. CASE Early(p)
  <2>1. CASE Checkpointed(p, ledger.phase + 1, "early") /\ ledger.phase < 2
    <3>1. PICK k \in 1 .. 9 : k = ledger.phase + 1
      BY <1>1, <2>1
    <3>2. Checkpointed(p, k, "early")
      BY <2>1, <3>1
    <3> QED BY <1>1, <2>1, <3>1, <3>2, CheckpointTakes DEF Taken
  <2> QED BY <1>2, <1>3, <2>1, Phases DEF Early
<1>4. CASE SnapshotVerified(p)
  <2>1. CASE UNCHANGED ledger
    BY <1>2, <2>1
  <2>2. CASE /\ ledger.phase = Through("snapshot_verified") - 1
             /\ ledger' = [ledger EXCEPT !.phase = Through("snapshot_verified"), !.snap = proc[p].snap]
    <3>1. ledger'.phase = Through("snapshot_verified") /\ ledger'.snap = proc[p].snap
      BY <1>1, <2>2 DEF Ledger
    <3>2. ledger.phase = 2 /\ ledger'.phase = 3
      BY <2>2, <3>1, Phases
    <3> QED BY <1>4, <3>1, <3>2 DEF Taken
  <2> QED BY <1>4, <2>1, <2>2 DEF SnapshotVerified
<1>5. CASE Stage(p)
  <2>1. UNCHANGED ledger \/ (At(p, "staging_created") /\ Checkpointed(p, 4, "dispose"))
    BY <1>5, Phases DEF Stage
  <2> QED BY <1>1, <2>1, CheckpointTakes DEF Taken
<1>6. CASE Project(p)
  <2>1. UNCHANGED ledger \/ (At(p, "projecting") /\ Checkpointed(p, 5, "verify"))
    BY <1>6, Phases DEF Project
  <2> QED BY <1>1, <2>1, CheckpointTakes DEF Taken
<1>7. CASE Verify(p)
  <2>1. UNCHANGED ledger \/ Checkpointed(p, 6, "receipt")
    BY <1>7, Phases DEF Verify
  <2> QED BY <1>1, <2>1, CheckpointTakes DEF Taken
<1>8. CASE Await(p)
  <2>1. \/ UNCHANGED ledger
        \/ ledger' = [ledger EXCEPT !.receipt = Receipt(p)]
        \/ At(p, "awaiting_cutover") /\ (Checkpointed(p, 7, "cas") \/ Appended(7))
    BY <1>8, Phases DEF Await
  <2>2. CASE ledger' = [ledger EXCEPT !.receipt = Receipt(p)]
    BY <1>1, <1>2, <2>2 DEF Ledger
  <2>3. CASE At(p, "awaiting_cutover") /\ (Checkpointed(p, 7, "cas") \/ Appended(7))
    <3>1. ledger.phase >= 6
      BY <1>1, <2>3 DEF PacedAt, At
    <3>2. ledger'.phase = ledger.phase \/ (ledger.phase = 6 /\ ledger'.phase = 7)
      BY <1>1, <2>3, <3>1, CheckpointTakes
    <3> QED BY <2>3, <3>2 DEF Taken
  <2> QED BY <1>2, <2>1, <2>2, <2>3
<1>9. CASE Finish(p)
  <2>1. \/ UNCHANGED ledger
        \/ ledger' = [ledger EXCEPT !.receipt = gen.receipt]
        \/ ledger' = [ledger EXCEPT !.verified = TRUE]
        \/ Checkpointed(p, 8, "verification")
        \/ At(p, "completed") /\ Checkpointed(p, 9, "answer")
    BY <1>9, Phases DEF Finish
  <2>2. CASE \/ ledger' = [ledger EXCEPT !.receipt = gen.receipt]
             \/ ledger' = [ledger EXCEPT !.verified = TRUE]
    BY <1>1, <1>2, <2>2 DEF Ledger
  <2>3. CASE Checkpointed(p, 8, "verification")
    BY <1>1, <2>3, CheckpointTakes DEF Taken
  <2>4. CASE At(p, "completed") /\ Checkpointed(p, 9, "answer")
    BY <1>1, <2>4, CheckpointTakes DEF Taken
  <2> QED BY <1>2, <2>1, <2>2, <2>3, <2>4
<1>10. CASE Dispose(p)
  <2>1. UNCHANGED ledger \/ \E S : ledger' = [ledger EXCEPT !.rows = S]
    BY <1>10 DEF Dispose
  <2> QED BY <1>1, <1>2, <2>1 DEF Ledger
<1>11. CASE \/ \E o \in Owner, cmd \in {"start", "resume", "confirm"} : Invoke(p, o, cmd)
            \/ AcquireLease(p)
  <2>1. \/ UNCHANGED ledger \/ ledger' = [ledger EXCEPT !.made = TRUE]
        \/ \E l : ledger' = [ledger EXCEPT !.lease = l]
    BY <1>11 DEF Invoke, AcquireLease
  <2> QED BY <1>1, <1>2, <2>1 DEF Ledger
<1>12. CASE \/ Reserve(p) \/ Recover(p) \/ Capture(p) \/ Seal(p) \/ Retain(p) \/ Decrypt(p)
            \/ Swap(p) \/ SyncManifest(p)
  BY <1>2, <1>12 DEF Reserve, Recover, Capture, Seal, Retain, Decrypt, Swap, SyncManifest
<1> QED BY <1>3, <1>4, <1>5, <1>6, <1>7, <1>8, <1>9, <1>10, <1>11, <1>12 DEF MigrationStep

\* A phase is never taken before what it attests is there.
LEMMA AttestedKept == IInv /\ [Next]_vars => Attested'
<1> SUFFICES ASSUME IInv, [Next]_vars PROVE Attested'
  OBVIOUS
<1>1. TypeOK /\ TypeOK' /\ Grows /\ Attested /\ Working /\ Paced
  BY TypesKept, EverythingGrows DEF IInv, Order, Migrated
<1>2. ledger \in Ledger /\ ledger' \in Ledger
  BY <1>1 DEF TypeOK
<1>3. ledger.phase \in 0 .. 9 /\ ledger'.phase \in 0 .. 9
  BY <1>2 DEF Ledger
<1>4. CASE ledger'.phase = ledger.phase
  <2>1. /\ ledger'.phase >= 3 => retained' # None /\ ledger'.snap # 0 /\ ledger'.snap = retained'.cipher.of
        /\ ledger'.phase >= 4 => gen'.nulls
    BY <1>1, <1>3, <1>4 DEF Attested, Grows
  <2>2. ledger'.phase >= 5 => gen'.members # None /\ ledger'.rows # None
    BY <1>1, <1>3, <1>4 DEF Attested, Grows
  <2>3. ledger'.phase >= 7 => gen'.receipt # None /\ ledger'.receipt = gen'.receipt
    BY <1>1, <1>3, <1>4 DEF Attested, Grows
  <2>4. ledger'.phase = 9 => ledger'.verified
    BY <1>1, <1>3, <1>4 DEF Attested, Grows
  <2> QED BY <2>1, <2>2, <2>3, <2>4 DEF Attested
<1>5. ASSUME NEW p \in Process, MigrationStep(p)
      PROVE  Attested'
  <2>1. Taken(p) /\ PacedAt(p) /\ WorksAt(p)
    BY <1>1, <1>5, PhasesTaken DEF Paced, Working
  <2>2. ledger'.phase >= 3 => retained' # None /\ ledger'.snap # 0 /\ ledger'.snap = retained'.cipher.of
    <3>1. CASE ledger.phase >= 3
      BY <1>1, <3>1 DEF Attested, Grows
    <3>2. CASE SnapshotVerified(p) /\ ledger'.snap = proc[p].snap
      <4>1. proc[p].at = "snapshot_verified" /\ "snapshot_verified" \in Retains
        BY <3>2 DEF SnapshotVerified, At, Retains
      <4>2. retained # None /\ retained.cipher.of = proc[p].snap /\ proc[p].snap # 0
        BY <2>1, <4>1 DEF WorksAt, PacedAt
      <4> QED BY <1>1, <3>2, <4>2 DEF Grows
    <3> QED BY <1>3, <2>1, <3>1, <3>2 DEF Taken
  <2>3. ledger'.phase >= 4 => gen'.nulls
    BY <1>1, <1>3, <2>1 DEF Attested, Grows, Taken, WorksAt, At
  <2>4. ledger'.phase >= 5 => gen'.members # None /\ ledger'.rows # None
    BY <1>1, <1>3, <2>1 DEF Attested, Grows, Taken, WorksAt, At
  <2>5. ledger'.phase >= 7 => gen'.receipt # None /\ ledger'.receipt = gen'.receipt
    BY <1>1, <1>3, <2>1 DEF Attested, Grows, Taken, WorksAt, At
  <2>6. ledger'.phase = 9 => ledger'.verified
    BY <1>1, <1>3, <2>1 DEF Attested, Grows, Taken, WorksAt, At
  <2> QED BY <2>2, <2>3, <2>4, <2>5, <2>6 DEF Attested
<1>6. ASSUME ~ \E p \in Process : MigrationStep(p)
      PROVE  ledger'.phase = ledger.phase
  BY <1>6 DEF Next, vars, migration, Crash, Select, Open, TurnAway, Ended, DeleterCrash, WriteSource, Rival, Tick, PowerLoss
<1> QED BY <1>4, <1>5, <1>6

\* What is in the generation, and selected, stays what was projected.
LEMMA ProjectedKept == IInv /\ [Next]_vars => Projected'
<1> SUFFICES ASSUME IInv, [Next]_vars PROVE Projected'
  OBVIOUS
<1>1. TypeOK /\ TypeOK' /\ Grows /\ Attested /\ Projected /\ Working /\ Paced
  BY TypesKept, EverythingGrows DEF IInv, Order, Migrated
<1>2. ledger \in Ledger /\ ledger' \in Ledger /\ gen \in Generation /\ gen' \in Generation
      /\ proc \in [Process -> Run]
  BY <1>1 DEF TypeOK
<1>3. ledger.phase \in 0 .. 9 /\ ledger'.phase \in 0 .. 9
  BY <1>2 DEF Ledger
<1>4. \A p \in Process : proc[p].at \in Projects => ledger.phase >= 3 /\ proc[p].snap = ledger.snap
  BY <1>1 DEF Paced, PacedAt
<1>5. gen'.members = gen.members \/ \E p \in Process : Project(p) /\ At(p, "project")
                                       /\ gen'.members = Projection(proc[p].snap, p)
  <2>1. ASSUME NEW p \in Process, Project(p)
        PROVE  \/ gen'.members = gen.members
               \/ At(p, "project") /\ gen'.members = Projection(proc[p].snap, p)
    BY <1>2, <2>1 DEF Project, Generation
  <2>2. ASSUME NEW p \in Process, Stage(p)
        PROVE  gen'.members = gen.members
    BY <1>2, <2>2 DEF Stage, Generation
  <2>3. ASSUME NEW p \in Process, Await(p)
        PROVE  gen'.members = gen.members
    BY <1>2, <2>3 DEF Await, Generation
  <2>4. ASSUME ~ \E p \in Process : Project(p) \/ Stage(p) \/ Await(p)
        PROVE  gen' = gen
    BY <2>4, OnlyWriters DEF WritesGeneration
  <2> QED BY <2>1, <2>2, <2>3, <2>4
<1>6. gen'.members # None => ledger'.phase >= 3 /\ gen'.members = Members(Content[ledger'.snap], 0)
  <2>1. CASE gen.members # None
    BY <1>1, <1>3, <2>1 DEF Projected, Grows
  <2>2. ASSUME NEW p \in Process, At(p, "project"), gen'.members = Projection(proc[p].snap, p)
        PROVE  ledger'.phase >= 3 /\ gen'.members = Members(Content[ledger'.snap], 0)
    <3>1. ledger.phase >= 3 /\ proc[p].snap = ledger.snap
      BY <1>4, <2>2 DEF At, Projects
    <3>2. ledger'.phase >= 3 /\ ledger'.snap = ledger.snap
      BY <1>1, <1>3, <3>1 DEF Grows
    <3> QED BY <2>2, <3>1, <3>2 DEF Projection, AsOf
  <2> QED BY <1>5, <2>1, <2>2
<1>7. gen'.receipt # None =>
          gen'.members # None /\ gen'.receipt = [snap |-> ledger'.snap, members |-> gen'.members]
  <2>1. CASE gen.receipt # None
    <3>1. gen.members # None /\ ledger.phase >= 3 /\ gen.receipt = [snap |-> ledger.snap, members |-> gen.members]
      BY <1>1, <2>1 DEF Projected
    <3> QED BY <1>1, <2>1, <3>1 DEF Grows
  <2>2. ASSUME NEW p \in Process, At(p, "receipt"), gen'.receipt = Receipt(p)
        PROVE  gen'.members # None /\ gen'.receipt = [snap |-> ledger'.snap, members |-> gen'.members]
    <3>1. ledger.phase >= 6 /\ ledger.phase >= 3 /\ proc[p].snap = ledger.snap
      BY <1>1, <1>4, <2>2 DEF At, Projects, Paced, PacedAt
    <3>2. gen.members # None
      BY <1>1, <1>3, <3>1 DEF Attested
    <3> QED BY <1>1, <2>2, <3>1, <3>2 DEF Grows, Receipt
  <2>3. gen'.receipt = gen.receipt \/ \E p \in Process : At(p, "receipt") /\ gen'.receipt = Receipt(p)
    <3>1. ASSUME NEW p \in Process, Await(p)
          PROVE  gen'.receipt = gen.receipt \/ (At(p, "receipt") /\ gen'.receipt = Receipt(p))
      BY <1>2, <3>1 DEF Await, Generation
    <3>2. ASSUME NEW p \in Process, Stage(p)
          PROVE  gen'.receipt = gen.receipt
      BY <1>2, <3>2 DEF Stage, Generation
    <3>3. ASSUME NEW p \in Process, Project(p)
          PROVE  gen'.receipt = gen.receipt
      BY <1>2, <3>3 DEF Project, Generation
    <3>4. ASSUME ~ \E p \in Process : Project(p) \/ Stage(p) \/ Await(p)
          PROVE  gen' = gen
      BY <3>4, OnlyWriters DEF WritesGeneration
    <3> QED BY <3>1, <3>2, <3>3, <3>4
  <2> QED BY <2>1, <2>2, <2>3
<1>8. ledger'.receipt # None => ledger'.receipt = gen'.receipt
  <2>1. CASE ledger.receipt # None
    BY <1>1, <2>1 DEF Projected, Grows
  <2>2. \/ ledger'.receipt = ledger.receipt
        \/ ledger'.receipt = gen.receipt
    <3>1. ASSUME NEW p \in Process, Await(p)
          PROVE  ledger'.receipt = ledger.receipt \/ ledger'.receipt = gen.receipt
      <4>1. CASE At(p, "ledger_receipt")
        <5>1. UNCHANGED ledger \/ ledger' = [ledger EXCEPT !.receipt = Receipt(p)]
          BY <3>1, <4>1 DEF Await, At
        <5>2. gen.receipt # None /\ proc[p].snap = ledger.snap
          BY <1>1, <1>4, <4>1 DEF At, Projects, Working, WorksAt
        <5>3. gen.receipt = Receipt(p)
          BY <1>1, <5>2 DEF Projected, Receipt
        <5> QED BY <1>2, <5>1, <5>3 DEF Ledger
      <4>2. CASE UNCHANGED ledger
        BY <4>2
      <4>3. CASE Checkpointed(p, 7, "cas") \/ Appended(7)
        BY <1>2, <4>3, CheckpointGrows
      <4> QED BY <3>1, <4>1, <4>2, <4>3, Phases DEF Await
    <3>2. ASSUME NEW p \in Process, Finish(p)
          PROVE  ledger'.receipt = ledger.receipt \/ ledger'.receipt = gen.receipt
      <4>1. \/ UNCHANGED ledger
            \/ ledger' = [ledger EXCEPT !.receipt = gen.receipt]
            \/ ledger' = [ledger EXCEPT !.verified = TRUE]
            \/ Checkpointed(p, 8, "verification") \/ Checkpointed(p, 9, "answer")
        BY <3>2, Phases DEF Finish
      <4>2. CASE Checkpointed(p, 8, "verification") \/ Checkpointed(p, 9, "answer")
        BY <1>2, <4>2, CheckpointGrows
      <4> QED BY <1>2, <4>1, <4>2 DEF Ledger
    <3>3. ASSUME NEW p \in Process, Early(p) \/ Stage(p) \/ Project(p) \/ Verify(p)
          PROVE  ledger'.receipt = ledger.receipt
      <4>1. \/ UNCHANGED ledger
            \/ Checkpointed(p, ledger.phase + 1, "early") /\ ledger.phase < 2
            \/ Checkpointed(p, 4, "dispose") \/ Checkpointed(p, 5, "verify")
            \/ Checkpointed(p, 6, "receipt")
        BY <3>3, Phases DEF Early, Stage, Project, Verify
      <4>2. CASE Checkpointed(p, ledger.phase + 1, "early") /\ ledger.phase < 2
        <5>1. PICK k \in 0 .. 9 : k = ledger.phase + 1
          BY <1>3, <4>2
        <5>2. Checkpointed(p, k, "early")
          BY <4>2, <5>1
        <5> QED BY <1>2, <5>2, CheckpointGrows
      <4> QED BY <1>2, <4>1, <4>2, CheckpointGrows
    <3>4. ASSUME NEW p \in Process, SnapshotVerified(p) \/ Dispose(p)
                    \/ (\E o \in Owner, cmd \in {"start", "resume", "confirm"} : Invoke(p, o, cmd))
                    \/ AcquireLease(p)
          PROVE  ledger'.receipt = ledger.receipt
      <4>1. \/ UNCHANGED ledger
            \/ \E k, s : ledger' = [ledger EXCEPT !.phase = k, !.snap = s]
            \/ \E S : ledger' = [ledger EXCEPT !.rows = S]
            \/ ledger' = [ledger EXCEPT !.made = TRUE]
            \/ \E l : ledger' = [ledger EXCEPT !.lease = l]
        BY <3>4 DEF SnapshotVerified, Dispose, Invoke, AcquireLease
      <4> QED BY <1>2, <4>1 DEF Ledger
    <3>5. ASSUME ~ \E p \in Process :
                     \/ Await(p) \/ Finish(p) \/ Early(p) \/ Stage(p) \/ Project(p) \/ Verify(p)
                     \/ SnapshotVerified(p) \/ Dispose(p) \/ AcquireLease(p)
                     \/ \E o \in Owner, cmd \in {"start", "resume", "confirm"} : Invoke(p, o, cmd)
          PROVE  ledger' = ledger
      BY <3>5, OnlyWriters DEF WritesLedger
    <3> QED BY <3>1, <3>2, <3>3, <3>4, <3>5
  <2> QED BY <1>1, <2>1, <2>2 DEF Grows
<1>9. ASSUME NEW m \in {manifest'.seen, manifest'.kept}, Committed(m)
      PROVE  gen'.receipt # None /\ m.receipt = gen'.receipt
  <2>1. CASE m \in {manifest.seen, manifest.kept}
    BY <1>1, <1>9, <2>1 DEF Projected, Grows
  <2>2. ASSUME NEW p \in Process, At(p, "cas"), m = [rev |-> 1, gen |-> "run", receipt |-> Receipt(p)]
        PROVE  gen'.receipt # None /\ m.receipt = gen'.receipt
    <3>1. ledger.phase >= 7 /\ proc[p].snap = ledger.snap
      BY <1>1, <1>4, <2>2 DEF At, Projects, Paced, PacedAt
    <3>2. gen.receipt # None
      BY <1>1, <3>1 DEF Attested
    <3>3. gen.receipt = Receipt(p)
      BY <1>1, <3>1, <3>2 DEF Projected, Receipt
    <3> QED BY <1>1, <2>2, <3>2, <3>3 DEF Grows
  <2>3. \/ m \in {manifest.seen, manifest.kept}
        \/ \E p \in Process : At(p, "cas") /\ m = [rev |-> 1, gen |-> "run", receipt |-> Receipt(p)]
        \/ m.gen = "other"
    <3>0. manifest \in FileOf(Manifest)
      BY <1>1 DEF TypeOK
    <3>1. ASSUME NEW p \in Process, Swap(p)
          PROVE  \/ m \in {manifest.seen, manifest.kept}
                 \/ At(p, "cas") /\ m = [rev |-> 1, gen |-> "run", receipt |-> Receipt(p)]
      BY <1>9, <3>0, <3>1 DEF Swap, FileOf
    <3>2. ASSUME NEW p \in Process, SyncManifest(p)
          PROVE  m \in {manifest.seen, manifest.kept}
      BY <1>9, <3>0, <3>2 DEF SyncManifest, Synced, FileOf
    <3>3. CASE Rival
      <4>1. manifest'.seen.gen = "other" /\ manifest'.kept.gen = "other"
        BY <3>3 DEF Rival, File
      <4> QED BY <1>9, <4>1
    <3>4. CASE PowerLoss
      BY <1>9, <3>4 DEF PowerLoss, File
    <3>5. ASSUME ~ \E p \in Process : Swap(p) \/ SyncManifest(p), ~Rival, ~PowerLoss
          PROVE  manifest' = manifest
      BY <3>5, OnlyWriters DEF WritesManifest
    <3> QED BY <1>9, <3>1, <3>2, <3>3, <3>4, <3>5
  <2> QED BY <1>9, <2>1, <2>2, <2>3 DEF Committed
<1> QED BY <1>6, <1>7, <1>8, <1>9 DEF Projected

-----------------------------------------------------------------------------
(* The quarantine is kept *)

\* Where a command seals the ciphertext and where it seals the key.
LEMMA SealsSplit ==
    /\ Keyless \subseteq Seals /\ Keyed \subseteq Seals /\ "write_key" \in Keyed
    /\ "sync_key" \in Keyed /\ \A at \in Keyless : at \notin Keyed
  BY DEF Keyless, Keyed, Seals

\* A command draws its key once: it is where it has not drawn it only if it was, or
\* if the ledger is past the boundary, and it seals only what it found absent.
LEMMA CommandsDraw ==
    ASSUME IInv, NEW p \in Process, MigrationStep(p), proc[p].at # "idle"
    PROVE  /\ proc'[p].at \in Before => proc[p].at \in Before \/ ledger.phase >= 7
           /\ proc'[p].at \in Seals =>
                 \/ Seal(p)
                 \/ /\ proc[p].at = "capture" /\ proc'[p].at = "seal" /\ ledger.phase < 3
                    /\ cipher.seen = None /\ key.seen = None
           /\ proc[p].at \in Seals => Seal(p)
<1>1. TypeOK /\ proc \in [Process -> Run] /\ PacedAt(p)
  BY DEF IInv, Order, TypeOK, Paced
<1>2. ASSUME NEW at, Step(p, at) \/ To(p, at)
      PROVE  proc'[p].at = at
  BY <1>1, <1>2 DEF Step, To, Run
<1>3. End(p) => proc'[p].at = "idle"
  BY <1>1, EndRuns
<1>4. "idle" \notin Before \cup Seals
  BY DEF Before, Seals
<1>5. CASE Reserve(p) \/ AcquireLease(p) \/ Recover(p) \/ Early(p)
  <2>1. proc[p].at \in Before
    BY <1>5 DEF Reserve, AcquireLease, Recover, Early, At, Before
  <2>2. proc'[p].at \notin Seals
    <3>1. \/ End(p) \/ \E at \in {"lease", "recover", "project_receipt", "early", "barrier", "capture"} :
                          Step(p, at) \/ To(p, at)
          \/ \E f : proc' = [proc EXCEPT ![p].at = "recover", ![p].fence = f]
      BY <1>5 DEF Reserve, AcquireLease, Recover, Early, Checkpointed
    <3>2. ASSUME NEW f, proc' = [proc EXCEPT ![p].at = "recover", ![p].fence = f]
          PROVE  proc'[p].at = "recover"
      BY <1>1, <3>2 DEF Run
    <3> QED BY <1>2, <1>3, <3>1, <3>2 DEF Seals
  <2>3. proc[p].at \notin Seals
    BY <1>5 DEF Reserve, AcquireLease, Recover, Early, At, Seals
  <2> QED BY <2>1, <2>2, <2>3
<1>6. CASE Capture(p)
  <2>1. proc[p].at = "capture" /\ "capture" \in Before
    BY <1>6 DEF Capture, At, Before
  <2>2. ASSUME proc'[p].at \in Seals
        PROVE  cipher.seen = None /\ key.seen = None /\ ledger.phase < 3 /\ proc'[p].at = "seal"
    <3>1. ASSUME NEW at, proc' = [proc EXCEPT ![p].at = at, ![p].snap = source]
          PROVE  proc'[p].at = at
      BY <1>1, <3>1 DEF Run
    <3>2. "decode" \notin Seals /\ "sealed" \notin Seals
      BY DEF Seals
    <3>3. ~End(p)
      BY <1>3, <1>4, <2>2
    <3>4. ~(Unchanged /\ ledger.phase >= Through("snapshot_verified"))
      BY <1>6, <2>2, <3>1, <3>2 DEF Capture
    <3>5. Unchanged
      BY <1>6, <3>3 DEF Capture
    <3>6. ledger.phase < 3
      <4>1. ledger \in Ledger
        BY <1>1 DEF TypeOK
      <4>2. ledger.phase \in 0 .. 9
        BY <4>1, LedgerTyped
      <4> QED BY <3>4, <3>5, <4>2, Phases
    <3>7. /\ proc' = [proc EXCEPT ![p].at = IF cipher.seen = None THEN "seal" ELSE "sealed", ![p].snap = source]
          /\ cipher.seen = None => key.seen = None
      BY <1>6, <3>3, <3>4, <3>5 DEF Capture
    <3>8. proc'[p].at = IF cipher.seen = None THEN "seal" ELSE "sealed"
      BY <3>1, <3>7
    <3> QED BY <2>2, <3>2, <3>6, <3>7, <3>8
  <2>3. proc[p].at \notin Seals
    BY <2>1, IdleHoldsNothing
  <2> QED BY <2>1, <2>2, <2>3
<1>7. CASE Seal(p)
  <2>1. PICK at \in {"write_cipher", "sync_cipher", "create_key", "write_key", "sync_key", "sealed"} :
           Step(p, at) /\ proc[p].at \in Seals
    BY <1>7 DEF Seal, At, Seals
  <2>2. proc'[p].at \notin Before
    BY <1>2, <2>1 DEF Before
  <2> QED BY <1>7, <2>2
<1>8. CASE Swap(p) \/ SyncManifest(p)
  <2>1. ledger.phase >= 7
    BY <1>1, <1>8 DEF Swap, SyncManifest, At, PacedAt
  <2>2. \/ End(p) \/ Step(p, "recover") \/ Step(p, "sync")
        \/ proc' = [proc EXCEPT ![p].at = "recover", ![p].cmd = "swapped"]
    BY <1>8 DEF Swap, SyncManifest
  <2>3. proc' = [proc EXCEPT ![p].at = "recover", ![p].cmd = "swapped"] => proc'[p].at = "recover"
    BY <1>1 DEF Run
  <2>4. proc'[p].at \in {"idle", "recover", "sync"}
    BY <1>2, <1>3, <2>2, <2>3
  <2>5. proc[p].at \in {"cas", "sync"}
    BY <1>8 DEF Swap, SyncManifest, At
  <2> QED BY <2>1, <2>4, <2>5 DEF Seals
<1>9. CASE \/ Retain(p) \/ SnapshotVerified(p) \/ Decrypt(p) \/ Stage(p) \/ Dispose(p) \/ Project(p)
           \/ Verify(p) \/ Await(p) \/ Finish(p)
  <2>1. \/ End(p)
        \/ \E at \in Pc : Step(p, at) /\ at \notin Before \cup Seals
    BY <1>9, Places DEF Before, Seals, Retain, SnapshotVerified, Decrypt, Resumed, Stage, Dispose, Project,
       Verify, Await, Finish, Checkpointed
  <2>2. proc[p].at \notin Seals
    BY <1>9 DEF Seals, At, Retain, SnapshotVerified, Decrypt, Stage, Dispose, Project, Verify, Await, Finish
  <2> QED BY <1>2, <1>3, <1>4, <2>1, <2>2
<1>10. CASE \E o \in Owner, cmd \in {"start", "resume", "confirm"} : Invoke(p, o, cmd)
  BY <1>10 DEF Invoke, At
<1> QED BY <1>5, <1>6, <1>7, <1>8, <1>9, <1>10 DEF MigrationStep

\* Steps that leave the files and their record alone.
LEMMA UnfiledKept ==
    ASSUME IInv, UNCHANGED <<cipher, key, retained, intent, steps, deleted, deleter>>,
           commands' >= commands, commands' \in Nat, crashes' >= crashes, crashes' \in Nat,
           Syncing => Syncing' \/ crashes' >= 1, \A p \in Process : DrawnBy(p)'
    PROVE  Quarantine'
<1>1. /\ Drawn /\ Retained /\ Admits /\ commands \in Nat /\ crashes \in Nat
      /\ cipher \in FileOf(Envelopes \cup {None}) /\ key \in FileOf(Envelopes \cup {None})
      /\ retained \in Pairs \cup {None}
  BY DEF IInv, Quarantine, Order, TypeOK
<1>2. \A e \in {cipher.seen, cipher.kept, key.seen, key.kept} :
          e # None => e.dek \in Nat /\ e.dek <= commands
  BY <1>1 DEF Drawn, FileOf, Envelopes
<1>3. Drawn'
  <2>1. \A e \in {cipher.seen, cipher.kept, key.seen, key.kept} : e # None => e.dek <= commands'
    BY <1>1, <1>2
  <2>2. key'.seen # None => Durable(cipher)'
    BY <1>1 DEF Drawn, Durable
  <2>3. Undisturbed' => Synchronised'
    BY <1>1 DEF Drawn, Undisturbed, Synchronised
  <2> QED BY <2>1, <2>2, <2>3 DEF Drawn
<1>4. retained # None => retained.cipher.dek \in Nat
  BY <1>1 DEF Pairs, Envelopes
<1>5. Retained'
  <2>1. Whole => Whole'
    BY <1>1 DEF Whole
  <2> QED BY <1>1, <1>4, <2>1 DEF Retained, Undisturbed, OffDisk
<1>6. Admits'
  BY <1>1 DEF Admits, Admitted, Carried, OffDisk
<1> QED BY <1>3, <1>5, <1>6 DEF Quarantine

\* A step that leaves the files draws no data key.
LEMMA DrawnWithoutFiles ==
    ASSUME IInv, TypeOK', Grows, UNCHANGED <<cipher, key, retained, intent>>, NEW q \in Process,
           \/ proc'[q] = proc[q]
           \/ proc'[q].at = "idle"
    PROVE  DrawnBy(q)'
<1>1. DrawnBy(q) /\ ledger \in Ledger /\ ledger' \in Ledger
  BY DEF IInv, Quarantine, Drawn, Order, TypeOK
<1>2. ledger'.phase < 3 => ledger.phase < 3
  <2>1. ledger.phase \in Nat /\ ledger'.phase \in Nat
    BY <1>1, PhaseTyped
  <2> QED BY <2>1 DEF Grows
<1>3. CASE proc'[q].at = "idle"
  BY <1>3 DEF DrawnBy, Before, Seals, Keyless, Keyed
<1>4. CASE proc'[q] = proc[q]
  BY <1>1, <1>2, <1>4 DEF DrawnBy, Unused, Durable, Undisturbed
<1> QED BY <1>3, <1>4

\* A command that neither seals nor retains leaves the quarantine as it is.
LEMMA CommandsWithoutFiles ==
    ASSUME IInv, TypeOK', NEW p \in Process, MigrationStep(p), ~Seal(p), ~Retain(p)
    PROVE  Quarantine'
<1>1. Grows /\ TypeOK /\ Drawn /\ Retained /\ commands \in Nat /\ ledger \in Ledger /\ ledger' \in Ledger
      /\ crashes \in Nat
      /\ retained \in Pairs \cup {None} /\ proc \in [Process -> Run]
      /\ cipher \in FileOf(Envelopes \cup {None}) /\ key \in FileOf(Envelopes \cup {None})
  BY CommandsGrow DEF IInv, Quarantine, Order, TypeOK
<1>2. ledger.phase \in 0 .. 9 /\ ledger'.phase \in 0 .. 9
  BY <1>1 DEF Ledger
<1>3. UNCHANGED <<cipher, key, retained, intent, steps, deleted, deleter, crashes>>
  BY DEF MigrationStep, Rest, Invoke, Reserve, AcquireLease, Recover, Early, Capture, SnapshotVerified,
     Decrypt, Stage, Dispose, Project, Verify, Await, Swap, SyncManifest, Finish, Kept,
     quarantine, privacy
<1>4. CASE \E o \in Owner, cmd \in {"start", "resume", "confirm"} : Invoke(p, o, cmd)
  <2>1. PICK o \in Owner, cmd \in {"start", "resume", "confirm"} : Invoke(p, o, cmd)
    BY <1>4
  <2>2. /\ \A q \in Process \ {p} : proc'[q] = proc[q]
        /\ proc'[p].at \in {"barrier", "lease"} /\ proc'[p].nth = commands + 1
        /\ commands' = commands + 1
    <3>1. PICK at \in {"barrier", "lease"} :
             proc' = [proc EXCEPT ![p] = [NoRun EXCEPT !.cmd = cmd, !.owner = o, !.now = clock,
                                                       !.nth = commands + 1, !.at = at]]
      BY <2>1 DEF Invoke
    <3>2. /\ \A q \in Process \ {p} : proc'[q] = proc[q]
          /\ proc'[p] = [NoRun EXCEPT !.cmd = cmd, !.owner = o, !.now = clock,
                                      !.nth = commands + 1, !.at = at]
      BY <1>1, <3>1
    <3>3. proc'[p].at = at /\ proc'[p].nth = commands + 1
      BY <3>2 DEF NoRun
    <3> QED BY <2>1, <3>2, <3>3 DEF Invoke
  <2>3. DrawnBy(p)'
    <3>1. ASSUME NEW e \in {cipher.seen, cipher.kept, key.seen, key.kept}, e # None
          PROVE  e.dek # commands + 1
      <4>1. e.dek \in Nat /\ e.dek <= commands
        BY <1>1, <3>1 DEF Drawn, FileOf, Envelopes
      <4> QED BY <1>1, <4>1
    <3>2. retained # None => retained.cipher.dek # commands + 1
      BY <1>1 DEF Retained, Pairs, Envelopes
    <3>3. Unused(proc[p].nth)'
      BY <1>3, <2>2, <3>1, <3>2 DEF Unused
    <3>4. proc'[p].at \notin Seals
      BY <2>2 DEF Seals
    <3> QED BY <3>3, <3>4, SealsSplit DEF DrawnBy
  <2>4. \A q \in Process : DrawnBy(q)'
    BY <1>1, <1>3, <2>2, <2>3, DrawnWithoutFiles
  <2>5. Syncing => Syncing'
    <3>1. proc[p].at = "idle"
      BY <2>1 DEF Invoke, At
    <3> QED BY <2>2, <3>1 DEF Syncing
  <2> QED BY <1>1, <1>3, <2>2, <2>4, <2>5, UnfiledKept
<1>5. CASE ~ \E o \in Owner, cmd \in {"start", "resume", "confirm"} : Invoke(p, o, cmd)
  <2>1. proc[p].at # "idle" /\ commands' = commands
    BY <1>5 DEF MigrationStep, Reserve, AcquireLease, Recover, Early, Capture, Seal, Retain,
       SnapshotVerified, Decrypt, Stage, Dispose, Project, Verify, Await, Swap, SyncManifest,
       Finish, At, Rest
  <2>2. Runs(p)
    BY <2>1, CommandsPlace DEF Placed
  <2>3. /\ proc'[p].at \in Before => proc[p].at \in Before \/ ledger.phase >= 7
        /\ proc'[p].at \in Seals =>
              /\ proc[p].at = "capture" /\ proc'[p].at = "seal" /\ ledger.phase < 3
              /\ cipher.seen = None /\ key.seen = None
        /\ proc[p].at \notin Seals
    BY <2>1, CommandsDraw
  <2>4. proc'[p].nth = proc[p].nth \/ proc'[p].at = "idle"
    BY <2>2 DEF Runs
  <2>5. ledger'.phase < 3 => ledger.phase < 3
    BY <1>1, <1>2 DEF Grows
  <2>6. DrawnBy(p)
    BY <1>1 DEF Drawn
  <2>7. ASSUME proc'[p].at = "idle"
        PROVE  DrawnBy(p)'
    BY <2>7 DEF DrawnBy, Before, Seals, Keyless, Keyed
  <2>8. ASSUME proc'[p].at # "idle"
        PROVE  DrawnBy(p)'
    <3>1. ASSUME proc'[p].at \in Before, ledger'.phase < 3
          PROVE  Unused(proc[p].nth)'
      <4>1. proc[p].at \in Before /\ ledger.phase < 3 /\ proc'[p].nth = proc[p].nth
        BY <1>2, <2>3, <2>4, <2>5, <2>8, <3>1
      <4> QED BY <1>3, <2>6, <4>1 DEF DrawnBy, Unused
    <3>2. ASSUME proc'[p].at \in Seals, retained' # None
          PROVE  retained'.cipher.dek # proc'[p].nth /\ cipher'.seen # retained'.cipher
      <4>1. proc[p].at = "capture" /\ cipher.seen = None /\ ledger.phase < 3
        BY <2>3, <3>2
      <4>2. Unused(proc[p].nth)
        BY <2>6, <4>1 DEF DrawnBy, Before
      <4>3. retained.cipher \in Envelopes /\ retained.cipher # None
        BY <1>1, <1>3, <3>2, NoneAssumption DEF Pairs
      <4> QED BY <1>3, <2>4, <2>8, <3>2, <4>1, <4>2, <4>3 DEF Unused
    <3>3. proc'[p].at \in Seals => proc'[p].at = "seal" /\ key'.seen = None
      BY <1>3, <2>3
    <3>4. "seal" \notin Keyed /\ "seal" # "write_key"
      BY DEF Keyed
    <3> QED BY <3>1, <3>2, <3>3, <3>4, SealsSplit DEF DrawnBy
  <2>9. ASSUME NEW q \in Process \ {p}
        PROVE  DrawnBy(q)'
    <3>1. proc'[q] = proc[q]
      BY <2>2 DEF Runs
    <3> QED BY <1>1, <1>3, <3>1, DrawnWithoutFiles
  <2>10. \A q \in Process : DrawnBy(q)'
    <3>1. DrawnBy(p)'
      BY <2>7, <2>8
    <3> QED BY <2>9, <3>1
  <2>11. Syncing => Syncing'
    <3>1. proc[p].at # "sync_key"
      BY <2>3 DEF Seals
    <3> QED BY <2>2, <3>1 DEF Runs, Syncing
  <2> QED BY <1>1, <1>3, <2>1, <2>10, <2>11, UnfiledKept
<1> QED BY <1>4, <1>5

\* The envelope a command writes is its own and not the retained one.
LEMMA SealsAnew ==
    ASSUME IInv, TypeOK', NEW p \in Process, Seal(p)
    PROVE  Quarantine'
<1> DEFINE e == Envelope(p, TRUE)
           t == Envelope(p, FALSE)
<1>1. Grows /\ TypeOK /\ Drawn /\ Retained /\ Admits /\ commands \in Nat /\ Numbered /\ Held
      /\ retained \in Pairs \cup {None} /\ proc \in [Process -> Run]
      /\ cipher \in FileOf(Envelopes \cup {None}) /\ key \in FileOf(Envelopes \cup {None})
  BY CommandsGrow DEF IInv, Quarantine, Order, TypeOK, MigrationStep
<1>2. /\ UNCHANGED <<retained, intent, steps, deleted, deleter, commands, ledger>>
      /\ proc[p].at \in Seals
  BY DEF Seal, privacy, Rest, At, Seals
<1>3. /\ t \in Envelopes /\ e \in Envelopes /\ t # None /\ e # None
      /\ t.dek = proc[p].nth /\ e.dek = proc[p].nth /\ ~t.whole /\ e.whole
  BY <1>1, EnvelopeTyped, NoneAssumption DEF Envelope
<1>4. proc[p].nth \in 1 .. commands
  BY <1>1, <1>2 DEF Numbered, NumberOf, Seals
<1>5. retained # None => /\ retained.cipher.dek # proc[p].nth /\ retained.key.dek # proc[p].nth
                         /\ cipher.seen # retained.cipher /\ retained.cipher # None
                         /\ retained.key # None
  <2> SUFFICES ASSUME retained # None
               PROVE  /\ retained.cipher.dek # proc[p].nth /\ retained.key.dek # proc[p].nth
                      /\ cipher.seen # retained.cipher /\ retained.cipher # None
                      /\ retained.key # None
    OBVIOUS
  <2>1. retained.cipher.dek # proc[p].nth /\ cipher.seen # retained.cipher
    BY <1>1, <1>2 DEF Drawn, DrawnBy
  <2> QED BY <1>1, <2>1 DEF Retained, Opens
<1>6. \/ /\ proc[p].at \in {"seal", "write_cipher"} /\ Step(p, IF proc[p].at = "seal" THEN "write_cipher" ELSE "sync_cipher")
         /\ key' = key
         /\ \E x \in {e, t} : cipher' = [cipher EXCEPT !.seen = x]
      \/ /\ proc[p].at = "sync_cipher" /\ Step(p, "create_key")
         /\ cipher' = Synced(cipher) /\ key' = key
      \/ /\ proc[p].at = "create_key" /\ Step(p, "write_key") /\ key.seen = None
         /\ key' = [key EXCEPT !.seen = t] /\ cipher' = cipher
      \/ /\ proc[p].at = "write_key" /\ Step(p, "sync_key")
         /\ key' = [key EXCEPT !.seen = e] /\ cipher' = cipher
      \/ /\ proc[p].at = "sync_key" /\ Step(p, "sealed")
         /\ key' = Synced(key) /\ cipher' = cipher
  BY DEF Seal, Created, Written, At
<1> HIDE DEF e, t
<1>7. /\ cipher'.seen \in {cipher.seen, t, e} /\ cipher'.kept \in {cipher.kept, cipher.seen}
      /\ key'.seen \in {key.seen, t, e} /\ key'.kept \in {key.kept, key.seen}
  BY <1>1, <1>6 DEF FileOf, Synced
<1>7a. \A at : Step(p, at) => proc'[p].at = at
  BY <1>1 DEF Step, To, Run
\* The six steps, as far as the files and the place go.
<1>7b. \/ /\ proc[p].at \in {"seal", "write_cipher"} /\ proc'[p].at \in {"write_cipher", "sync_cipher"}
          /\ key' = key
       \/ /\ proc[p].at = "sync_cipher" /\ proc'[p].at = "create_key"
          /\ cipher'.kept = cipher'.seen /\ key' = key
       \/ /\ proc[p].at = "create_key" /\ proc'[p].at = "write_key" /\ key.seen = None
          /\ key'.seen = t /\ key'.kept = key.kept /\ cipher' = cipher
       \/ /\ proc[p].at = "write_key" /\ proc'[p].at = "sync_key"
          /\ key'.seen = e /\ key'.kept = key.kept /\ cipher' = cipher
       \/ /\ proc[p].at = "sync_key" /\ proc'[p].at = "sealed"
          /\ key'.kept = key'.seen /\ cipher' = cipher
  BY <1>1, <1>6, <1>7a DEF FileOf, Synced
<1>7c. DrawnBy(p)
  BY <1>1 DEF Drawn
<1>8. /\ key'.seen # None => Durable(cipher)'
      /\ proc'[p].at \in Keyless => key'.seen = None
      /\ proc'[p].at \in Keyed => Durable(cipher)'
  <2>1. CASE proc[p].at \in {"seal", "write_cipher"} /\ proc'[p].at \in {"write_cipher", "sync_cipher"} /\ key' = key
    BY <1>7c, <2>1 DEF DrawnBy, Keyless, Keyed
  <2>2. CASE /\ proc[p].at = "sync_cipher" /\ proc'[p].at = "create_key"
             /\ cipher'.kept = cipher'.seen /\ key' = key
    BY <2>2 DEF Durable, Keyless
  <2>3. CASE /\ cipher' = cipher /\ proc[p].at \in Keyed /\ proc'[p].at \notin Keyless
    BY <1>7c, <2>3 DEF DrawnBy, Durable
  <2> QED BY <1>7b, <2>1, <2>2, <2>3 DEF Keyless, Keyed
<1>9. \A f \in {cipher'.seen, cipher'.kept, key'.seen, key'.kept} :
          f # None => f.dek <= commands
  BY <1>1, <1>3, <1>4, <1>7 DEF Drawn
<1>10. Runs(p) /\ proc'[p].at \notin Before
  <2>1. proc[p].at # "idle"
    BY <1>2 DEF Seals
  <2>2. Runs(p)
    BY <2>1, CommandsPlace DEF Placed, MigrationStep
  <2>3. \E at \in {"write_cipher", "sync_cipher", "create_key", "write_key", "sync_key", "sealed"} : Step(p, at)
    BY DEF Seal
  <2>4. proc'[p].at \in {"write_cipher", "sync_cipher", "create_key", "write_key", "sync_key", "sealed"}
    BY <1>1, <2>3 DEF Step, To, Run
  <2> QED BY <2>2, <2>4 DEF Before
<1>10a. ASSUME Undisturbed
        PROVE  /\ key'.kept # None => key'.kept = key'.seen
               /\ proc'[p].at = "write_key" => key'.kept = None
               /\ key'.seen # None /\ key'.seen.whole =>
                     key'.kept # None \/ crashes >= 1 \/ proc'[p].at = "sync_key"
  <2>1. Synchronised
    BY <1>1, <1>10a DEF Drawn
  <2>2. CASE key' = key /\ proc[p].at \in Keyless /\ proc'[p].at # "write_key"
    <3>1. key.seen = None /\ key.kept = None
      BY <1>7c, <2>1, <2>2 DEF DrawnBy, Synchronised
    <3> QED BY <2>2, <3>1
  <2>3. CASE /\ proc[p].at = "create_key" /\ proc'[p].at = "write_key" /\ key.seen = None
             /\ key'.seen = t /\ key'.kept = key.kept
    <3>1. key.kept = None
      BY <2>1, <2>3 DEF Synchronised
    <3> QED BY <1>3, <2>3, <3>1
  <2>4. CASE /\ proc[p].at = "write_key" /\ proc'[p].at = "sync_key"
             /\ key'.seen = e /\ key'.kept = key.kept
    <3>1. key.kept = None
      BY <1>7c, <1>10a, <2>4 DEF DrawnBy
    <3> QED BY <2>4, <3>1
  <2>5. CASE proc'[p].at = "sealed" /\ key'.kept = key'.seen
    BY <2>5
  <2> QED BY <1>7b, <2>2, <2>3, <2>4, <2>5 DEF Keyless
<1>11. ASSUME retained # None
       PROVE  cipher'.seen # retained.cipher
  BY <1>3, <1>5, <1>7, <1>11
<1>12. ASSUME NEW q \in Process
       PROVE  DrawnBy(q)'
  <2>1. CASE q = p
    <3>1. proc'[p].at \in Seals => proc'[p].nth = proc[p].nth
      BY <1>10 DEF Runs, Seals
    <3>2. Undisturbed' => Undisturbed
      BY <1>2 DEF Undisturbed
    <3> QED BY <1>2, <1>5, <1>8, <1>10, <1>10a, <1>11, <2>1, <3>1, <3>2 DEF DrawnBy
  <2>2. CASE q # p
    <3>1. proc'[q] = proc[q] /\ DrawnBy(q)
      BY <1>1, <1>10, <2>2 DEF Runs, Drawn
    <3>2. proc[q].at \notin Seals
      <4>1. barrier = p
        BY <1>1, <1>2, IdleHoldsNothing DEF Held, HeldBy
      <4> QED BY <1>1, <2>2, <4>1, IdleHoldsNothing DEF Held, HeldBy
    <3>3. ASSUME proc[q].at \in Before, ledger.phase < 3
          PROVE  Unused(proc[q].nth)'
      <4>1. Unused(proc[q].nth)
        BY <3>1, <3>3 DEF DrawnBy
      <4>2. proc[q].nth # proc[p].nth
        BY <1>1, <1>2, <2>2, <3>3 DEF Numbered, NumberOf, Before, Seals
      <4> QED BY <1>2, <1>3, <1>7, <3>1, <4>1, <4>2 DEF Unused
    <3> QED BY <1>2, <3>1, <3>2, <3>3, SealsSplit DEF DrawnBy
  <2> QED BY <2>1, <2>2
<1>13. Drawn'
  <2>1. Undisturbed' => Undisturbed /\ crashes' = crashes
    BY <1>2 DEF Undisturbed, Seal, Rest
  <2>2. Undisturbed' => Synchronised'
    BY <1>10a, <2>1 DEF Synchronised, Syncing
  <2> QED BY <1>2, <1>8, <1>9, <1>12, <2>2 DEF Drawn
<1>14. ASSUME retained # None
       PROVE  /\ \A k \in {key'.seen, key'.kept} :
                    k # None /\ k.whole /\ k.dek = retained.cipher.dek => k = retained.key
              /\ OffDisk(retained.key, key)'
              /\ ~Undisturbed
              /\ OffDisk(retained.cipher, cipher) => OffDisk(retained.cipher, cipher)'
  <2>1. OffDisk(retained.key, key)
    BY <1>1, <1>5, <1>14 DEF Retained
  <2>2. OffDisk(retained.key, key)'
    BY <1>2, <1>3, <1>5, <1>7, <1>14, <2>1 DEF OffDisk
  <2>3. OffDisk(retained.cipher, cipher) => OffDisk(retained.cipher, cipher)'
    BY <1>2, <1>3, <1>5, <1>7, <1>14 DEF OffDisk
  <2>4. ~Undisturbed
    BY <1>1, <1>5, <1>14 DEF Retained, Whole, File
  <2>5. \A k \in {key'.seen, key'.kept} :
                    k # None /\ k.whole /\ k.dek = retained.cipher.dek => k = retained.key
    BY <1>1, <1>3, <1>5, <1>7, <1>14 DEF Retained
  <2> QED BY <2>2, <2>3, <2>4, <2>5
<1>15. Retained'
  <2> SUFFICES ASSUME retained # None PROVE Retained'
    BY <1>2 DEF Retained
  <2>1. ~Undisturbed'
    BY <1>2, <1>14 DEF Undisturbed
  <2> QED BY <1>1, <1>2, <1>11, <1>14, <2>1 DEF Retained
<1>16. ASSUME NEW c \in Challenge
       PROVE  Admitted(c)'
  <2>1. Admitted(c)
    BY <1>1 DEF Admits
  <2> QED BY <1>2, <1>14, <2>1 DEF Admitted
<1>17. ASSUME NEW d \in Deleter
       PROVE  Carried(d)'
  <2>1. Carried(d)
    BY <1>1 DEF Admits
  <2>2. deleter[d].at \in Deleting => retained # None
    BY <1>1, <2>1 DEF Carried, Admits, Admitted
  <2>3. retained # None => key'.seen # retained.key
    BY <1>2, <1>14 DEF OffDisk
  <2>4. "syncKey" \in Deleting /\ "markKey" \in Deleting /\ "syncCipher" \in Deleting
        /\ "markCipher" \in Deleting
    BY DEF Deleting
  <2> QED BY <1>2, <1>11, <1>14, <2>1, <2>2, <2>3, <2>4 DEF Carried
<1> QED BY <1>13, <1>15, <1>16, <1>17 DEF Quarantine, Admits

\* What is retained opens, and its ciphertext is on disk.
LEMMA RetainsDurable ==
    ASSUME IInv, TypeOK', NEW p \in Process, Retain(p)
    PROVE  Quarantine'
<1>1. /\ TypeOK /\ Drawn /\ Retained /\ Admits /\ commands \in Nat /\ Held /\ Paced
      /\ retained \in Pairs \cup {None} /\ proc \in [Process -> Run]
      /\ cipher \in FileOf(Envelopes \cup {None}) /\ key \in FileOf(Envelopes \cup {None})
  BY DEF IInv, Quarantine, Order, TypeOK
<1>2. /\ UNCHANGED <<cipher, key, intent, steps, deleted, deleter, commands, crashes, ledger>>
      /\ proc[p].at = "sealed" /\ crashes \in Nat
  BY <1>1 DEF Retain, privacy, Rest, At, TypeOK
<1>3. Runs(p) /\ Grows
  BY <1>2, CommandsPlace, CommandsGrow DEF Placed, MigrationStep
<1>4. proc'[p].at \notin Before \cup Seals
  <2>1. CASE End(p)
    BY <1>1, <2>1, EndRuns DEF Before, Seals
  <2>2. CASE Step(p, "snapshot_verified")
    BY <1>1, <2>2 DEF Step, To, Run, Before, Seals
  <2> QED BY <2>1, <2>2 DEF Retain
<1>5. barrier = p
  BY <1>1, <1>2, IdleHoldsNothing DEF Held, HeldBy, Retains
<1>5a. ~Syncing
  <2> SUFFICES ASSUME NEW q \in Process, proc[q].at = "sync_key" PROVE FALSE
    BY DEF Syncing
  <2>1. barrier = q
    BY <1>1, IdleHoldsNothing, SealsSplit DEF Held, HeldBy
  <2> QED BY <1>2, <1>5, <2>1
<1>6. CASE UNCHANGED retained
  <2>1. ASSUME NEW q \in Process
        PROVE  DrawnBy(q)'
    <3>1. CASE q = p
      BY <1>4, <3>1, SealsSplit DEF DrawnBy
    <3>2. CASE q # p
      <4>1. proc'[q] = proc[q]
        BY <1>3, <3>2 DEF Runs
      <4> QED BY <1>2, <1>3, <1>6, <4>1, DrawnWithoutFiles
    <3> QED BY <3>1, <3>2
  <2> QED BY <1>1, <1>2, <1>5a, <1>6, <2>1, UnfiledKept
<1>7. CASE /\ retained = None
           /\ retained' = [cipher |-> cipher.seen, key |-> key.seen]
           /\ Opens(cipher.seen, key.seen)
  <2>1. /\ retained' # None /\ retained'.cipher = cipher.seen /\ retained'.key = key.seen
        /\ cipher.seen # None /\ key.seen # None
    <3>1. cipher.seen \in Envelopes /\ key.seen \in Envelopes
      BY <1>1, <1>7, FilesTyped DEF Opens
    <3>2. retained' \in Pairs
      BY <1>7, <3>1 DEF Pairs
    <3> QED BY <1>7, <3>2, NoneAssumption DEF Opens
  <2>2. cipher = File(cipher.seen) /\ cipher.kept = cipher.seen
    <3>1. cipher.kept = cipher.seen
      BY <1>1, <1>7, <2>1 DEF Drawn, Durable, Opens
    <3> QED BY <1>1, <3>1 DEF FileOf, File
  <2>2a. Undisturbed
    BY <1>1, <1>7 DEF Admits, Admitted, Undisturbed
  <2>3. key.kept = key.seen \/ (key.kept = None /\ crashes >= 1)
    BY <1>1, <1>5a, <1>7, <2>1, <2>2a DEF Drawn, Synchronised, Opens
  <2>4. ASSUME NEW q \in Process
        PROVE  DrawnBy(q)'
    <3>1. CASE q = p
      BY <1>4, <3>1, SealsSplit DEF DrawnBy
    <3>2. CASE q # p
      <4>1. proc'[q] = proc[q] /\ DrawnBy(q)
        BY <1>1, <1>3, <3>2 DEF Runs, Drawn
      <4>2. proc[q].at \notin Seals
        BY <1>1, <1>5, <3>2, IdleHoldsNothing DEF Held, HeldBy
      <4>3. Unused(proc[q].nth) => Unused(proc[q].nth)'
        BY <1>2, <2>1, <4>1 DEF Unused
      <4> QED BY <1>2, <4>1, <4>2, <4>3, SealsSplit DEF DrawnBy
    <3> QED BY <3>1, <3>2
  <2>5. Drawn'
    <3>1. Synchronised'
      BY <1>2, <2>1, <2>3 DEF Synchronised
    <3>2. key'.seen # None => Durable(cipher)'
      BY <1>1, <1>2 DEF Drawn, Durable
    <3> QED BY <1>1, <1>2, <2>4, <3>1, <3>2 DEF Drawn
  <2>6. Retained'
    <3>1. retained'.cipher.dek <= commands
      BY <1>1, <2>1 DEF Drawn
    <3>2. Whole'
      BY <1>2, <2>1, <2>2, <2>3 DEF Whole
    <3> QED BY <1>2, <1>7, <2>1, <2>2, <2>3, <3>1, <3>2 DEF Retained, Opens
  <2>7. ASSUME NEW c \in Challenge
        PROVE  intent[c] = None /\ steps[c] = {} /\ c \notin deleted
    BY <1>1, <1>7 DEF Admits, Admitted
  <2>8. ASSUME NEW c \in Challenge
        PROVE  Admitted(c)'
    BY <1>2, <2>7 DEF Admitted
  <2>9. ASSUME NEW d \in Deleter
        PROVE  Carried(d)'
    <3>1. Carried(d)
      BY <1>1 DEF Admits
    <3>2. deleter[d].at # "begin" /\ deleter[d].at \notin Deleting
      BY <1>7, <2>7, <3>1 DEF Carried
    <3> QED BY <1>2, <3>2 DEF Carried, Deleting
  <2> QED BY <2>5, <2>6, <2>8, <2>9 DEF Quarantine, Admits
<1>8. \/ UNCHANGED retained
      \/ /\ retained = None
         /\ retained' = [cipher |-> cipher.seen, key |-> key.seen]
         /\ Opens(cipher.seen, key.seen)
  BY DEF Retain
<1> QED BY <1>6, <1>7, <1>8

\* Steps of the deletion that leave the files alone.
LEMMA DeletionRecords ==
    ASSUME IInv, TypeOK', UNCHANGED <<cipher, key, retained>>, UNCHANGED migration,
           \A c \in Challenge : Admitted(c)', \A d \in Deleter : Carried(d)',
           \A c \in Challenge : intent[c] # None => intent'[c] # None
    PROVE  Quarantine'
<1>1. /\ Drawn /\ Retained /\ Grows
  BY EverythingGrows, UnchangedGrows DEF IInv, Quarantine, Order, migration
<1>2. UNCHANGED <<proc, ledger, commands, crashes>>
  BY DEF migration
<1>2a. Undisturbed' => Undisturbed
  BY DEF Undisturbed
<1>3. \A q \in Process : DrawnBy(q)'
  BY <1>1, <1>2, <1>2a DEF Drawn, DrawnBy, Unused, Durable
<1>4. Drawn'
  <2>1. Synchronised => Synchronised'
    BY <1>2 DEF Synchronised, Syncing
  <2> QED BY <1>1, <1>2, <1>2a, <1>3, <2>1 DEF Drawn, Durable
<1>6. Retained'
  <2>1. Whole => Whole'
    BY <1>2 DEF Whole
  <2> QED BY <1>1, <1>2, <1>2a, <2>1 DEF Retained, OffDisk
<1> QED BY <1>4, <1>6 DEF Quarantine, Admits

\* A deletion that is admitted is of the retained files, and records what it did to them.
LEMMA DeletionReads ==
    ASSUME IInv, TypeOK', NEW d \in Deleter, UNCHANGED migration,
           (\E c \in Challenge : Begin(d, c) \/ Resume(d, c)) \/ Consume(d) \/ Mark(d) \/ Complete(d)
    PROVE  Quarantine'
<1>1. /\ TypeOK /\ Retained /\ Admits /\ retained \in Pairs \cup {None}
      /\ deleter \in [Deleter -> Deletion] /\ intent \in [Challenge -> Pairs \cup {None}]
      /\ steps \in [Challenge -> SUBSET {"key", "cipher"}]
      /\ cipher \in FileOf(Envelopes \cup {None}) /\ key \in FileOf(Envelopes \cup {None})
  BY DEF IInv, Quarantine, Order, TypeOK
<1>2. \A e \in Deleter : Carried(e)
  BY <1>1 DEF Admits
<1>3. \A c \in Challenge : Admitted(c)
  BY <1>1 DEF Admits
<1>4. Idle.at = "idle" /\ "idle" \notin Deleting /\ "begin" \notin Deleting
  BY DEF Idle, Deleting
<1>5. ASSUME NEW c \in Challenge, Begin(d, c)
      PROVE  Quarantine'
  <2>1. UNCHANGED <<cipher, key, retained, intent, steps, deleted>>
    BY <1>5 DEF Begin, quarantine
  <2>2. /\ \A e \in Deleter \ {d} : deleter'[e] = deleter[e]
        /\ deleter'[d] = [at |-> "begin", op |-> c, read |-> [cipher |-> cipher.seen, key |-> key.seen],
                           now |-> clock]
    BY <1>1, <1>5 DEF Begin
  <2>3. retained # None /\ retained = [cipher |-> cipher.seen, key |-> key.seen]
    <3>1. retained # None /\ cipher.seen = retained.cipher /\ Opens(cipher.seen, key.seen)
      BY <1>5 DEF Begin, Exact
    <3>2. key.seen = retained.key
      BY <1>1, <3>1 DEF Retained, Opens
    <3>3. retained \in Pairs
      BY <1>1, <3>1
    <3> QED BY <3>1, <3>2, <3>3 DEF Pairs
  <2>4. \A e \in Deleter : Carried(e)'
    <3>1. Carried(d)'
      BY <1>4, <2>1, <2>2, <2>3 DEF Carried
    <3>2. ASSUME NEW e \in Deleter \ {d}
          PROVE  Carried(e)'
      BY <1>2, <2>1, <2>2 DEF Carried, OffDisk
    <3> QED BY <3>1, <3>2
  <2>5. \A x \in Challenge : Admitted(x)'
    BY <1>3, <2>1 DEF Admitted, OffDisk
  <2> QED BY <2>1, <2>4, <2>5, DeletionRecords
<1>6. ASSUME NEW c \in Challenge, Resume(d, c)
      PROVE  Quarantine'
  <2>1. UNCHANGED <<cipher, key, retained, intent, steps, deleted>> /\ intent[c] # None
    BY <1>6 DEF Resume, quarantine
  <2>2. PICK at \in {"unlinkKey", "unlinkCipher", "complete"} :
           /\ deleter' = [deleter EXCEPT ![d] = [Idle EXCEPT !.op = c, !.at = at]]
           /\ at = "unlinkCipher" => "key" \in steps[c]
    BY <1>6 DEF Resume
  <2>3. /\ \A e \in Deleter \ {d} : deleter'[e] = deleter[e]
        /\ deleter'[d].at = at /\ deleter'[d].op = c
    <3>1. /\ \A e \in Deleter \ {d} : deleter'[e] = deleter[e]
          /\ deleter'[d] = [Idle EXCEPT !.op = c, !.at = at]
      BY <1>1, <2>2
    <3> QED BY <3>1 DEF Idle
  <2>4. \A e \in Deleter : Carried(e)'
    <3>1. Carried(d)'
      BY <2>1, <2>2, <2>3 DEF Carried, Deleting
    <3>2. ASSUME NEW e \in Deleter \ {d}
          PROVE  Carried(e)'
      BY <1>2, <2>1, <2>3 DEF Carried, OffDisk
    <3> QED BY <3>1, <3>2
  <2>5. \A x \in Challenge : Admitted(x)'
    BY <1>3, <2>1 DEF Admitted, OffDisk
  <2> QED BY <2>1, <2>4, <2>5, DeletionRecords
<1>7. CASE Consume(d)
  <2> DEFINE op == deleter[d].op
  <2>1. UNCHANGED <<cipher, key, retained, steps, deleted>> /\ deleter[d].at = "begin"
    BY <1>7 DEF Consume, quarantine
  <2>2. op \in Challenge /\ retained # None /\ deleter[d].read = retained
    BY <1>2, <2>1 DEF Carried
  <2>3. PICK c \in Challenge : c = op
    BY <2>2
  <2>4. intent' = intent \/ (intent[c] = None /\ intent' = [intent EXCEPT ![c] = retained])
    BY <1>7, <2>2, <2>3 DEF Consume, Unspent
  <2>5. \A x \in Challenge : intent'[x] = intent[x] \/ (intent[x] = None /\ intent'[x] = retained)
    BY <1>1, <2>4
  <2>6. /\ \A e \in Deleter \ {d} : deleter'[e] = deleter[e]
        /\ deleter'[d] = Idle
    BY <1>1, <1>7 DEF Consume, Leave
  <2>7. \A e \in Deleter : Carried(e)'
    <3>1. Carried(d)'
      BY <1>4, <2>6 DEF Carried, Deleting
    <3>2. ASSUME NEW e \in Deleter \ {d}
          PROVE  Carried(e)'
      BY <1>2, <2>1, <2>2, <2>5, <2>6 DEF Carried, OffDisk
    <3> QED BY <3>1, <3>2
  <2>8. \A x \in Challenge : Admitted(x)'
    <3> SUFFICES ASSUME NEW x \in Challenge PROVE Admitted(x)'
      OBVIOUS
    <3>1. Admitted(x) /\ (intent'[x] = intent[x] \/ (intent[x] = None /\ intent'[x] = retained))
      BY <1>3, <2>5
    <3> QED BY <2>1, <2>2, <3>1 DEF Admitted, OffDisk
  <2>9. \A x \in Challenge : intent[x] # None => intent'[x] # None
    BY <2>5
  <2> QED BY <2>1, <2>7, <2>8, <2>9, DeletionRecords
<1>8. CASE Mark(d)
  <2>1. UNCHANGED <<cipher, key, retained, intent, deleted>> /\ deleter[d].at \in {"markKey", "markCipher"}
    BY <1>8 DEF Mark, quarantine
  <2>2. deleter[d].op \in Challenge /\ intent[deleter[d].op] # None
    BY <1>2, <2>1 DEF Carried, Deleting
  <2>3. PICK c \in Challenge : c = deleter[d].op
    BY <2>2
  <2>4. PICK f \in {"key", "cipher"} : f = IF deleter[d].at = "markKey" THEN "key" ELSE "cipher"
    OBVIOUS
  <2>5. /\ steps' = [steps EXCEPT ![c] = @ \cup {f}]
        /\ \E at \in {"unlinkCipher", "complete"} :
              Goto(d, at) /\ (at = "unlinkCipher" => f = "key")
    BY <1>8, <2>3, <2>4 DEF Mark
  <2>6. PICK at \in {"unlinkCipher", "complete"} :
              Goto(d, at) /\ (at = "unlinkCipher" => f = "key")
    BY <2>5
  <2>7. /\ \A x \in Challenge \ {c} : steps'[x] = steps[x]
        /\ steps'[c] = steps[c] \cup {f}
    BY <1>1, <2>5
  <2>8. /\ \A e \in Deleter \ {d} : deleter'[e] = deleter[e]
        /\ deleter'[d].at = at /\ deleter'[d].op = c
    BY <1>1, <2>3, <2>6 DEF Goto, Deletion
  <2>9. f = "key" => OffDisk(retained.key, key)
    BY <1>2, <2>1, <2>4 DEF Carried
  <2>10. f = "cipher" => OffDisk(retained.cipher, cipher)
    BY <1>2, <2>1, <2>4 DEF Carried
  <2>11. \A e \in Deleter : Carried(e)'
    <3>1. Carried(d)'
      BY <2>1, <2>2, <2>3, <2>6, <2>7, <2>8 DEF Carried, Deleting
    <3>2. ASSUME NEW e \in Deleter \ {d}
          PROVE  Carried(e)'
      <4>1. \A x \in Challenge : "key" \in steps[x] => "key" \in steps'[x]
        BY <2>7
      <4>2. deleter[e].at \in {"unlinkCipher", "syncCipher", "markCipher"} => deleter[e].op \in Challenge
        BY <1>2 DEF Carried, Deleting
      <4> QED BY <1>2, <2>1, <2>8, <4>1, <4>2 DEF Carried, OffDisk
    <3> QED BY <3>1, <3>2
  <2>12. \A x \in Challenge : Admitted(x)'
    <3> SUFFICES ASSUME NEW x \in Challenge PROVE Admitted(x)'
      OBVIOUS
    <3>1. CASE x # c
      BY <1>3, <2>1, <2>7, <3>1 DEF Admitted, OffDisk
    <3>2. CASE x = c
      <4>1. Admitted(c) /\ intent[c] # None
        BY <1>3, <2>2, <2>3
      <4>2. intent'[c] # None /\ intent'[c] = retained' /\ retained' # None
        BY <2>1, <4>1 DEF Admitted
      <4>3. "key" \in steps'[c] => OffDisk(retained.key, key)'
        BY <2>1, <2>7, <2>9, <4>1 DEF Admitted, OffDisk
      <4>4. "cipher" \in steps'[c] => OffDisk(retained.cipher, cipher)'
        BY <2>1, <2>7, <2>10, <4>1 DEF Admitted, OffDisk
      <4>5. c \in deleted' => "cipher" \in steps'[c]
        BY <2>1, <2>7, <4>1 DEF Admitted
      <4> QED BY <3>2, <4>2, <4>3, <4>4, <4>5 DEF Admitted
    <3> QED BY <3>1, <3>2
  <2> QED BY <2>1, <2>11, <2>12, DeletionRecords
<1>9. CASE Complete(d)
  <2>1. UNCHANGED <<cipher, key, retained, intent, steps>> /\ deleted' = deleted \cup {deleter[d].op}
        /\ steps[deleter[d].op] = {"key", "cipher"}
    BY <1>9 DEF Complete, quarantine
  <2>2. /\ \A e \in Deleter \ {d} : deleter'[e] = deleter[e]
        /\ deleter'[d] = Idle
    BY <1>1, <1>9 DEF Complete, Leave
  <2>3. \A e \in Deleter : Carried(e)'
    <3>1. Carried(d)'
      BY <1>4, <2>2 DEF Carried, Deleting
    <3>2. ASSUME NEW e \in Deleter \ {d}
          PROVE  Carried(e)'
      BY <1>2, <2>1, <2>2 DEF Carried, OffDisk
    <3> QED BY <3>1, <3>2
  <2>4. \A x \in Challenge : Admitted(x)'
    BY <1>3, <2>1 DEF Admitted, OffDisk
  <2> QED BY <2>1, <2>3, <2>4, DeletionRecords
<1> QED BY <1>5, <1>6, <1>7, <1>8, <1>9

\* A deletion takes files away and puts none back.
LEMMA DeletionShrinks ==
    ASSUME IInv, NEW d \in Deleter, UNCHANGED migration, UNCHANGED <<retained, intent, steps, deleted>>,
           deleter[d].at \in Deleting,
           key'.seen \in {key.seen, None}, key'.kept \in {key.kept, key'.seen},
           cipher'.seen \in {cipher.seen, None}, cipher'.kept \in {cipher.kept, cipher'.seen},
           Durable(cipher) => Durable(cipher)',
           cipher'.seen # cipher.seen => "key" \in steps[deleter[d].op],
           \A e \in Deleter \ {d} : deleter'[e] = deleter[e],
           Carried(d)'
    PROVE  Quarantine'
<1>1. /\ Drawn /\ Retained /\ Admits /\ retained \in Pairs \cup {None}
      /\ UNCHANGED <<proc, ledger, commands>>
  BY DEF IInv, Quarantine, Order, TypeOK, migration
<1>2. Carried(d) /\ deleter[d].op \in Challenge /\ intent[deleter[d].op] # None /\ retained # None
      /\ ~Undisturbed
  BY <1>1 DEF Admits, Admitted, Carried, Undisturbed
<1>3. retained.cipher # None /\ retained.key # None
  BY <1>1, <1>2 DEF Retained, Opens
<1>4. /\ OffDisk(retained.key, key) => OffDisk(retained.key, key)'
      /\ OffDisk(retained.cipher, cipher) => OffDisk(retained.cipher, cipher)'
  BY <1>3 DEF OffDisk
<1>5. ASSUME NEW p \in Process
      PROVE  DrawnBy(p)'
  <2>1. DrawnBy(p)
    BY <1>1 DEF Drawn
  <2>2. Unused(proc[p].nth) => Unused(proc[p].nth)'
    BY <1>1 DEF Unused
  <2>3. ~Undisturbed'
    BY <1>2 DEF Undisturbed
  <2> QED BY <1>1, <1>3, <2>1, <2>2, <2>3 DEF DrawnBy
<1>6. Drawn'
  <2>1. \A e \in {cipher'.seen, cipher'.kept, key'.seen, key'.kept} : e # None => e.dek <= commands
    BY <1>1 DEF Drawn
  <2>2. ~Undisturbed'
    BY <1>2 DEF Undisturbed
  <2>3. key'.seen # None => Durable(cipher)'
    BY <1>1 DEF Drawn
  <2> QED BY <1>1, <1>5, <2>1, <2>2, <2>3 DEF Drawn
<1>7. Retained'
  <2>1. cipher'.seen # retained.cipher => OffDisk(retained.key, key)'
    <3>1. CASE cipher'.seen = cipher.seen
      BY <1>1, <1>2, <1>4, <3>1 DEF Retained
    <3>2. CASE cipher'.seen # cipher.seen
      <4>1. OffDisk(retained.key, key)
        BY <1>1, <1>2, <3>2 DEF Admits, Admitted
      <4> QED BY <1>4, <4>1
    <3> QED BY <3>1, <3>2
  <2>2. \A k \in {key'.seen, key'.kept} :
            k # None /\ k.whole /\ k.dek = retained.cipher.dek => k = retained.key
    BY <1>1, <1>2 DEF Retained
  <2>3. ~Undisturbed'
    BY <1>2 DEF Undisturbed
  <2>4. cipher'.seen = retained.cipher => cipher'.kept = retained.cipher
    BY <1>1, <1>2, <1>3 DEF Retained
  <2> QED BY <1>1, <1>2, <2>1, <2>2, <2>3, <2>4 DEF Retained
<1>8. ASSUME NEW c \in Challenge
      PROVE  Admitted(c)'
  <2>1. Admitted(c)
    BY <1>1 DEF Admits
  <2> QED BY <1>4, <2>1 DEF Admitted
<1>9. ASSUME NEW e \in Deleter
      PROVE  Carried(e)'
  <2>1. CASE e = d
    BY <2>1
  <2>2. CASE e # d
    <3>1. Carried(e) /\ deleter'[e] = deleter[e]
      BY <1>1, <2>2 DEF Admits
    <3> QED BY <1>3, <1>4, <3>1 DEF Carried
  <2> QED BY <2>1, <2>2
<1> QED BY <1>6, <1>7, <1>8, <1>9 DEF Quarantine, Admits

\* A deletion unlinks the key, and syncs its directory, before the ciphertext.
LEMMA DeletionUnlinks ==
    ASSUME IInv, NEW d \in Deleter, UNCHANGED migration,
           UnlinkKey(d) \/ SyncKey(d) \/ UnlinkCipher(d) \/ SyncCipher(d)
    PROVE  Quarantine'
<1>1. /\ Drawn /\ Retained /\ Admits /\ retained \in Pairs \cup {None}
      /\ deleter \in [Deleter -> Deletion]
      /\ cipher \in FileOf(Envelopes \cup {None}) /\ key \in FileOf(Envelopes \cup {None})
  BY DEF IInv, Quarantine, Order, TypeOK
<1>2. UNCHANGED <<retained, intent, steps, deleted>>
  BY DEF UnlinkKey, SyncKey, UnlinkCipher, SyncCipher
<1>3. deleter[d].at \in {"unlinkKey", "syncKey", "unlinkCipher", "syncCipher"} /\ deleter[d].at \in Deleting
  BY DEF UnlinkKey, SyncKey, UnlinkCipher, SyncCipher, Unlink, Deleting
<1>4. PICK c \in Challenge : c = deleter[d].op
  BY <1>1, <1>3 DEF Admits, Carried
<1>5. /\ Carried(d) /\ intent[c] # None /\ retained # None /\ intent[c] = retained
  BY <1>1, <1>3, <1>4 DEF Admits, Admitted, Carried
<1>6. retained.cipher # None /\ retained.key # None
  BY <1>1, <1>5 DEF Retained, Opens
<1>7. ASSUME NEW at, Goto(d, at)
      PROVE  /\ \A e \in Deleter \ {d} : deleter'[e] = deleter[e]
             /\ deleter'[d].at = at /\ deleter'[d].op = c
  BY <1>1, <1>4, <1>7 DEF Goto, Deletion
<1>8. Leave(d) => /\ \A e \in Deleter \ {d} : deleter'[e] = deleter[e]
                  /\ deleter'[d].at = "idle"
  BY <1>1 DEF Leave, Idle
<1>9. deleter'[d].at = "idle" => Carried(d)'
  BY DEF Carried, Deleting
<1>10. CASE UnlinkKey(d)
  <2>1. key' = Gone(key, retained.key) /\ cipher' = cipher
        /\ (IF key.seen \in {None, retained.key} THEN Goto(d, "syncKey") ELSE Leave(d))
    BY <1>4, <1>5, <1>10 DEF UnlinkKey, Unlink
  <2>2. /\ key'.seen = IF key.seen = retained.key THEN None ELSE key.seen
        /\ key'.kept = key.kept
    BY <1>1, <2>1 DEF Gone, FileOf
  <2>3. Durable(cipher) => Durable(cipher)'
    BY <2>1 DEF Durable
  <2>4. Carried(d)' /\ \A e \in Deleter \ {d} : deleter'[e] = deleter[e]
    <3>1. CASE key.seen \in {None, retained.key}
      <4>1. Goto(d, "syncKey")
        BY <2>1, <3>1
      <4>2. /\ \A e \in Deleter \ {d} : deleter'[e] = deleter[e]
            /\ deleter'[d].at = "syncKey" /\ deleter'[d].op = c
        BY <1>7, <4>1
      <4>3. key'.seen # retained'.key
        BY <1>2, <1>6, <2>2, <3>1
      <4> QED BY <1>2, <1>5, <4>2, <4>3 DEF Carried
    <3>2. CASE key.seen \notin {None, retained.key}
      BY <1>8, <1>9, <2>1, <3>2
    <3> QED BY <3>1, <3>2
  <2> QED BY <1>2, <1>3, <2>1, <2>2, <2>3, <2>4, DeletionShrinks
<1>11. CASE SyncKey(d)
  <2>1. key' = Synced(key) /\ cipher' = cipher
        /\ (IF key.seen = None THEN Goto(d, "markKey") ELSE Leave(d))
    BY <1>11 DEF SyncKey
  <2>2. key'.seen = key.seen /\ key'.kept = key.seen
    BY <1>1, <2>1 DEF Synced, FileOf
  <2>3. Durable(cipher) => Durable(cipher)'
    BY <2>1, <2>2 DEF Durable
  <2>4. Carried(d)' /\ \A e \in Deleter \ {d} : deleter'[e] = deleter[e]
    <3>1. CASE key.seen = None
      <4>1. Goto(d, "markKey")
        BY <2>1, <3>1
      <4>2. /\ \A e \in Deleter \ {d} : deleter'[e] = deleter[e]
            /\ deleter'[d].at = "markKey" /\ deleter'[d].op = c
        BY <1>7, <4>1
      <4>3. OffDisk(retained.key, key)'
        BY <1>2, <1>6, <2>2, <3>1 DEF OffDisk
      <4> QED BY <1>2, <1>5, <4>2, <4>3 DEF Carried
    <3>2. CASE key.seen # None
      BY <1>8, <1>9, <2>1, <3>2
    <3> QED BY <3>1, <3>2
  <2> QED BY <1>2, <1>3, <2>1, <2>2, <2>3, <2>4, DeletionShrinks
<1>12. CASE UnlinkCipher(d)
  <2>0. "key" \in steps[c]
    BY <1>4, <1>5, <1>12 DEF Carried, UnlinkCipher, Unlink
  <2>1. cipher' = Gone(cipher, retained.cipher) /\ key' = key
        /\ (IF cipher.seen \in {None, retained.cipher} THEN Goto(d, "syncCipher") ELSE Leave(d))
    BY <1>4, <1>5, <1>12 DEF UnlinkCipher, Unlink
  <2>2. /\ cipher'.seen = IF cipher.seen = retained.cipher THEN None ELSE cipher.seen
        /\ cipher'.kept = cipher.kept
    BY <1>1, <2>1 DEF Gone, FileOf
  <2>3. Durable(cipher) => Durable(cipher)'
    BY <2>1, <2>2 DEF Durable
  <2>4. Carried(d)' /\ \A e \in Deleter \ {d} : deleter'[e] = deleter[e]
    <3>1. CASE cipher.seen \in {None, retained.cipher}
      <4>1. Goto(d, "syncCipher")
        BY <2>1, <3>1
      <4>2. /\ \A e \in Deleter \ {d} : deleter'[e] = deleter[e]
            /\ deleter'[d].at = "syncCipher" /\ deleter'[d].op = c
        BY <1>7, <4>1
      <4>3. cipher'.seen # retained'.cipher
        BY <1>2, <1>6, <2>2, <3>1
      <4> QED BY <1>2, <1>5, <2>0, <4>2, <4>3 DEF Carried
    <3>2. CASE cipher.seen \notin {None, retained.cipher}
      BY <1>8, <1>9, <2>1, <3>2
    <3> QED BY <3>1, <3>2
  <2> QED BY <1>2, <1>3, <1>4, <2>0, <2>1, <2>2, <2>3, <2>4, DeletionShrinks
<1>13. CASE SyncCipher(d)
  <2>0. "key" \in steps[c] /\ cipher.seen # retained.cipher
    BY <1>4, <1>5, <1>13 DEF Carried, SyncCipher
  <2>1. cipher' = Synced(cipher) /\ key' = key
        /\ (IF cipher.seen = None THEN Goto(d, "markCipher") ELSE Leave(d))
    BY <1>13 DEF SyncCipher
  <2>2. cipher'.seen = cipher.seen /\ cipher'.kept = cipher.seen
    BY <1>1, <2>1 DEF Synced, FileOf
  <2>3. Durable(cipher) => Durable(cipher)'
    BY <2>1, <2>2 DEF Durable
  <2>4. Carried(d)' /\ \A e \in Deleter \ {d} : deleter'[e] = deleter[e]
    <3>1. CASE cipher.seen = None
      <4>1. Goto(d, "markCipher")
        BY <2>1, <3>1
      <4>2. /\ \A e \in Deleter \ {d} : deleter'[e] = deleter[e]
            /\ deleter'[d].at = "markCipher" /\ deleter'[d].op = c
        BY <1>7, <4>1
      <4>3. OffDisk(retained.cipher, cipher)'
        BY <1>2, <1>6, <2>2, <3>1 DEF OffDisk
      <4> QED BY <1>2, <1>5, <2>0, <4>2, <4>3 DEF Carried
    <3>2. CASE cipher.seen # None
      BY <1>8, <1>9, <2>1, <3>2
    <3> QED BY <3>1, <3>2
  <2> QED BY <1>2, <1>3, <2>1, <2>2, <2>3, <2>4, DeletionShrinks
<1> QED BY <1>10, <1>11, <1>12, <1>13

\* Every step keeps the quarantine.
LEMMA QuarantineKept == IInv /\ [Next]_vars => Quarantine'
<1> SUFFICES ASSUME IInv, [Next]_vars PROVE Quarantine'
  OBVIOUS
<1>1. /\ TypeOK' /\ Grows /\ Drawn /\ Retained /\ Admits /\ commands \in Nat
      /\ proc \in [Process -> Run] /\ deleter \in [Deleter -> Deletion]
      /\ cipher \in FileOf(Envelopes \cup {None}) /\ key \in FileOf(Envelopes \cup {None})
      /\ retained \in Pairs \cup {None} /\ TypeOK /\ crashes \in Nat
  BY TypesKept, EverythingGrows DEF IInv, Quarantine, Order, TypeOK
<1>2. ASSUME NEW p \in Process, MigrationStep(p)
      PROVE  Quarantine'
  BY <1>1, <1>2, CommandsWithoutFiles, SealsAnew, RetainsDurable
<1>3. CASE /\ UNCHANGED <<cipher, key, retained, intent, steps, deleted, deleter, commands>>
           /\ \/ UNCHANGED <<proc, crashes>>
              \/ /\ crashes' = crashes + 1
                 /\ \A q \in Process : proc'[q] = proc[q] \/ proc'[q].at = "idle"
  <2>1. \A q \in Process : DrawnBy(q)'
    BY <1>1, <1>3, DrawnWithoutFiles
  <2>2. Syncing => Syncing' \/ crashes' >= 1
    BY <1>1, <1>3 DEF Syncing
  <2> QED BY <1>1, <1>3, <2>1, <2>2, UnfiledKept
<1>4. ASSUME NEW p \in Process, Crash(p)
      PROVE  Quarantine'
  <2>1. \A q \in Process : proc'[q] = proc[q] \/ proc'[q].at = "idle"
    BY <1>1, <1>4, EndRuns DEF Crash, Runs
  <2> QED BY <1>3, <1>4, <2>1 DEF Crash, Kept, quarantine, privacy
<1>5. ASSUME NEW s \in Session, Select(s) \/ Open(s) \/ TurnAway(s)
      PROVE  Quarantine'
  BY <1>3, <1>5 DEF Select, Open, TurnAway, Ended, Kept, quarantine, privacy
<1>6. CASE WriteSource \/ Rival \/ Tick \/ UNCHANGED vars
  BY <1>3, <1>6 DEF WriteSource, Rival, Tick, vars, Kept, quarantine, privacy, migration
<1>7. CASE /\ UNCHANGED migration
           /\ \/ \E kind \in Kind : Attest(kind)
              \/ \E c \in Challenge : IssueChallenge(c)
  BY <1>3, <1>7 DEF Attest, IssueChallenge, quarantine, migration
<1>8. ASSUME NEW d \in Deleter, DeleterStep(d), UNCHANGED migration
      PROVE  Quarantine'
  BY <1>1, <1>8, DeletionReads, DeletionUnlinks DEF DeleterStep
<1>9. ASSUME NEW d \in Deleter, DeleterCrash(d)
      PROVE  Quarantine'
  <2>1. /\ UNCHANGED <<cipher, key, retained, intent, steps, deleted, commands, proc, ledger>>
        /\ crashes' = crashes + 1
    BY <1>9 DEF DeleterCrash, quarantine
  <2>2. \A e \in Deleter : deleter'[e] = deleter[e] \/ deleter'[e].at = "idle"
    BY <1>1, <1>9 DEF DeleterCrash, Leave, Idle
  <2>3. ASSUME NEW e \in Deleter
        PROVE  Carried(e)'
    <3>1. CASE deleter'[e] = deleter[e]
      BY <1>1, <2>1, <3>1 DEF Admits, Carried, OffDisk
    <3>2. CASE deleter'[e].at = "idle"
      BY <3>2 DEF Carried, Deleting
    <3> QED BY <2>2, <3>1, <3>2
  <2>4. \A c \in Challenge : Admitted(c)'
    BY <1>1, <2>1 DEF Admits, Admitted, OffDisk
  <2>5. Drawn'
    <3>1. \A q \in Process : DrawnBy(q)'
      BY <1>1, <2>1, DrawnWithoutFiles
    <3>2. Undisturbed' => Synchronised'
      BY <1>1, <2>1 DEF Drawn, Undisturbed, Synchronised
    <3> QED BY <1>1, <2>1, <3>1, <3>2 DEF Drawn, Durable
  <2>6. Retained'
    <3>1. Whole => Whole'
      BY <1>1, <2>1 DEF Whole
    <3> QED BY <1>1, <2>1, <3>1 DEF Retained, Undisturbed, OffDisk
  <2> QED BY <2>3, <2>4, <2>5, <2>6 DEF Quarantine, Admits
<1>10. CASE PowerLoss
  <2>1. PICK c \in {cipher.seen, cipher.kept}, k \in {key.seen, key.kept} :
           cipher' = File(c) /\ key' = File(k)
    BY <1>10 DEF PowerLoss
  <2>2. cipher'.seen = c /\ cipher'.kept = c /\ key'.seen = k /\ key'.kept = k
    BY <2>1 DEF File
  <2>3. /\ UNCHANGED <<retained, intent, steps, deleted, commands, ledger>> /\ crashes' = crashes + 1
        /\ \A q \in Process : proc'[q].at = "idle"
        /\ \A e \in Deleter : deleter'[e].at = "idle"
    BY <1>10 DEF PowerLoss, NoRun, Idle
  <2>4. Drawn'
    <3>1. \A q \in Process : DrawnBy(q)'
      BY <2>3 DEF DrawnBy, Before, Seals, Keyless, Keyed
    <3>2. \A e \in {cipher'.seen, cipher'.kept, key'.seen, key'.kept} : e # None => e.dek <= commands
      BY <1>1, <2>2 DEF Drawn
    <3>3. Synchronised' /\ Durable(cipher)'
      BY <2>2 DEF Synchronised, Durable
    <3> QED BY <2>2, <2>3, <3>1, <3>2, <3>3 DEF Drawn
  <2>5. /\ OffDisk(retained.key, key) => OffDisk(retained.key, key)'
        /\ OffDisk(retained.cipher, cipher) => OffDisk(retained.cipher, cipher)'
    BY <2>2, <2>3 DEF OffDisk
  <2>6. Retained'
    <3> SUFFICES ASSUME retained # None PROVE Retained'
      BY <2>3 DEF Retained
    <3>1. Undisturbed' => Whole'
      <4> SUFFICES ASSUME Undisturbed PROVE Whole'
        BY <2>3 DEF Undisturbed
      <4>1. Whole
        BY <1>1 DEF Retained
      <4>2. c = retained.cipher
        BY <4>1 DEF Whole, File
      <4>3. k = retained.key \/ (k = None /\ crashes >= 1)
        BY <1>1, <4>1 DEF Whole
      <4> QED BY <1>1, <2>1, <2>2, <2>3, <4>2, <4>3 DEF Whole
    <3>2. cipher'.seen # retained.cipher => OffDisk(retained.key, key)'
      <4>1. CASE cipher.seen = retained.cipher
        <5>1. cipher.kept = retained.cipher
          BY <1>1, <4>1 DEF Retained
        <5> QED BY <2>2, <4>1, <5>1
      <4>2. CASE cipher.seen # retained.cipher
        BY <1>1, <2>5, <4>2 DEF Retained
      <4> QED BY <4>1, <4>2
    <3>3. \A f \in {key'.seen, key'.kept} :
              f # None /\ f.whole /\ f.dek = retained.cipher.dek => f = retained.key
      BY <1>1, <2>2 DEF Retained
    <3> QED BY <1>1, <2>2, <2>3, <3>1, <3>2, <3>3 DEF Retained
  <2>7. ASSUME NEW x \in Challenge
        PROVE  Admitted(x)'
    <3>1. Admitted(x)
      BY <1>1 DEF Admits
    <3> QED BY <2>3, <2>5, <3>1 DEF Admitted
  <2>8. \A e \in Deleter : Carried(e)'
    BY <2>3 DEF Carried, Deleting
  <2> QED BY <2>4, <2>6, <2>7, <2>8 DEF Quarantine, Admits
<1> QED BY <1>2, <1>4, <1>5, <1>6, <1>7, <1>8, <1>9, <1>10 DEF Next, PrivacyStep

-----------------------------------------------------------------------------
(* What commands answer *)

\* A step that leaves the manifest answers nothing that is not on disk, if it leaves
\* what each command knows of the swap.
Knows(q) ==
    proc'[q].at # "idle" /\ (proc'[q].cmd = "swapped" \/ proc'[q].at = "sync") =>
        /\ proc[q].at # "idle" /\ proc'[q].cmd = proc[q].cmd
        /\ proc'[q].at = "sync" => proc[q].at = "sync"

\* A step that leaves the manifest keeps what was answered.
LEMMA AnsweredWithoutManifest ==
    ASSUME Answered, UNCHANGED manifest, "completed" \in told' => manifest.kept.rev >= 1,
           \A q \in Process : Knows(q)
    PROVE  Answered'
<1>1. \A q \in Process : AnswersAt(q)'
  BY DEF Answered, AnswersAt, Knows
<1> QED BY <1>1 DEF Answered

\* The steps of a command that are neither the swap nor its sync know no more of it.
LEMMA CommandsKnow ==
    ASSUME TypeOK, NEW p \in Process, MigrationStep(p), ~Swap(p), ~SyncManifest(p), NEW q \in Process
    PROVE  Knows(q)
<1>1. proc \in [Process -> Run]
  BY DEF TypeOK
<1>2. CASE End(p)
  BY <1>1, <1>2, EndRuns DEF Knows, Runs
<1>3. ASSUME NEW at, Step(p, at) \/ To(p, at), at # "sync", proc[p].at # "idle"
      PROVE  Knows(q)
  <2>1. CASE q = p
    <3>1. proc'[p].at = at /\ proc'[p].cmd = proc[p].cmd
      BY <1>1, <1>3 DEF Step, To, Run
    <3> QED BY <1>3, <2>1, <3>1 DEF Knows
  <2>2. CASE q # p
    <3>1. proc'[q] = proc[q]
      BY <1>1, <1>3, <2>2 DEF Step, To
    <3> QED BY <3>1 DEF Knows
  <2> QED BY <2>1, <2>2
<1>4. ASSUME NEW o \in Owner, NEW cmd \in {"start", "resume", "confirm"}, Invoke(p, o, cmd)
      PROVE  Knows(q)
  <2>1. PICK at \in {"barrier", "lease"} : at = IF cmd = "start" THEN "barrier" ELSE "lease"
    OBVIOUS
  <2>2. proc' = [proc EXCEPT ![p] = [NoRun EXCEPT !.cmd = cmd, !.owner = o, !.now = clock,
                                                  !.nth = commands + 1, !.at = at]]
    BY <1>4, <2>1 DEF Invoke
  <2>3. CASE q = p
    <3>1. proc'[p] = [NoRun EXCEPT !.cmd = cmd, !.owner = o, !.now = clock,
                                   !.nth = commands + 1, !.at = at]
      BY <1>1, <2>2
    <3>2. proc'[p].cmd = cmd /\ proc'[p].at = at
      BY <3>1 DEF NoRun
    <3> QED BY <2>3, <3>2 DEF Knows
  <2>4. CASE q # p
    <3>1. proc'[q] = proc[q]
      BY <1>1, <2>2, <2>4
    <3> QED BY <3>1 DEF Knows
  <2> QED BY <2>3, <2>4
<1>5. CASE Reserve(p)
  BY <1>2, <1>3, <1>5 DEF Reserve, At
<1>6. CASE AcquireLease(p)
  <2>1. End(p) \/ \E f : proc' = [proc EXCEPT ![p].at = "recover", ![p].fence = f]
    BY <1>6 DEF AcquireLease
  <2>2. ASSUME NEW f, proc' = [proc EXCEPT ![p].at = "recover", ![p].fence = f]
        PROVE  Knows(q)
    <3>1. proc[p].at # "idle"
      BY <1>6 DEF AcquireLease, At
    <3>2. proc'[p].at = "recover" /\ proc'[p].cmd = proc[p].cmd
      BY <1>1, <2>2 DEF Run
    <3>3. q # p => proc'[q] = proc[q]
      BY <1>1, <2>2
    <3> QED BY <3>1, <3>2, <3>3 DEF Knows
  <2> QED BY <1>2, <2>1, <2>2
<1>7. CASE Recover(p)
  BY <1>2, <1>3, <1>7 DEF Recover, At
<1>8. CASE Capture(p)
  <2>1. End(p) \/ \E at \in {"decode", "seal", "sealed"} :
                     proc' = [proc EXCEPT ![p].at = at, ![p].snap = source]
    BY <1>8 DEF Capture
  <2>2. ASSUME NEW at \in {"decode", "seal", "sealed"},
               proc' = [proc EXCEPT ![p].at = at, ![p].snap = source]
        PROVE  Knows(q)
    <3>1. proc[p].at # "idle"
      BY <1>8 DEF Capture, At
    <3>2. proc'[p].at = at /\ proc'[p].cmd = proc[p].cmd
      BY <1>1, <2>2 DEF Run
    <3>3. q # p => proc'[q] = proc[q]
      BY <1>1, <2>2
    <3> QED BY <3>1, <3>2, <3>3 DEF Knows
  <2> QED BY <1>2, <2>1, <2>2
<1>9. CASE Early(p) \/ Seal(p) \/ Retain(p) \/ SnapshotVerified(p)
  BY <1>2, <1>3, <1>9 DEF Early, Seal, Retain, SnapshotVerified, Checkpointed, At
<1>10. CASE Decrypt(p) \/ Stage(p) \/ Dispose(p) \/ Project(p) \/ Verify(p)
  <2>1. Resumed(p) # "sync"
    BY DEF Resumed
  <2> QED BY <1>2, <1>3, <1>10, <2>1 DEF Decrypt, Stage, Dispose, Project, Verify, Checkpointed, At
<1>11. CASE Await(p)
  BY <1>2, <1>3, <1>11 DEF Await, Checkpointed, At
<1>12. CASE Finish(p)
  BY <1>2, <1>3, <1>12 DEF Finish, Checkpointed, At
<1> QED BY <1>4, <1>5, <1>6, <1>7, <1>8, <1>9, <1>10, <1>11, <1>12 DEF MigrationStep

\* The swap replaces nothing but a first manifest that is on disk; its sync is what
\* makes the new one durable.
LEMMA SwapsAnswer ==
    ASSUME IInv, NEW p \in Process, Swap(p) \/ SyncManifest(p)
    PROVE  Answered'
<1>1. /\ TypeOK /\ Held /\ Answered /\ proc \in [Process -> Run]
      /\ manifest \in FileOf(Manifest) /\ flock \in Process \cup {None}
  BY DEF IInv, Order, TypeOK
<1>2. CASE Swap(p)
  <2>1. PICK mine : /\ mine.rev = 1
                    /\ \/ Step(p, "recover") /\ UNCHANGED manifest
                       \/ End(p) /\ UNCHANGED manifest
                       \/ /\ manifest.seen.rev = 0 /\ manifest' = [manifest EXCEPT !.seen = mine]
                          /\ Step(p, "sync")
    <3>1. PICK mine : mine = [rev |-> 1, gen |-> "run", receipt |-> Receipt(p)]
      OBVIOUS
    <3>2. mine.rev = 1
      BY <3>1
    <3>3. \/ Step(p, "recover") /\ UNCHANGED manifest
          \/ End(p) /\ UNCHANGED manifest
          \/ /\ manifest.seen.rev = 0 /\ manifest' = [manifest EXCEPT !.seen = mine]
             /\ Step(p, "sync")
      BY <1>2, <3>1 DEF Swap, Expected
    <3> QED BY <3>2, <3>3
  <2>2. proc[p].at = "cas" /\ UNCHANGED told
    BY <1>2 DEF Swap, At, Rest
  <2>3. CASE UNCHANGED manifest /\ (Step(p, "recover") \/ End(p))
    <3>1. /\ \A q \in Process \ {p} : proc'[q] = proc[q]
          /\ proc'[p].at = "idle" \/ (proc'[p].at = "recover" /\ proc'[p].cmd = proc[p].cmd)
      BY <1>1, <2>3, EndRuns DEF Step, To, Run, Runs
    <3>2. \A q \in Process : Knows(q)
      BY <2>2, <3>1 DEF Knows
    <3> QED BY <1>1, <2>2, <2>3, <3>2, AnsweredWithoutManifest DEF Answered
  <2>4. CASE /\ manifest.seen.rev = 0 /\ manifest' = [manifest EXCEPT !.seen = mine]
             /\ Step(p, "sync")
    <3>1. manifest'.seen.rev = 1 /\ manifest'.kept = manifest.kept
      BY <1>1, <2>1, <2>4 DEF FileOf
    <3>2. manifest.kept.rev = 0
      BY <1>1, <2>4 DEF Answered
    <3>3. /\ \A q \in Process \ {p} : proc'[q] = proc[q]
          /\ proc'[p].at = "sync" /\ proc'[p].cmd = proc[p].cmd
      BY <1>1, <2>4 DEF Step, To, Run
    <3>4. ASSUME NEW q \in Process
          PROVE  AnswersAt(q)'
      <4>1. proc'[q].at # "idle" /\ proc'[q].cmd = "swapped" => proc[q].at # "idle" /\ proc[q].cmd = "swapped"
        BY <2>2, <3>3
      <4> QED BY <1>1, <3>1, <4>1 DEF Answered, AnswersAt
    <3> QED BY <1>1, <2>2, <3>1, <3>2, <3>4 DEF Answered
  <2> QED BY <2>1, <2>3, <2>4
<1>3. CASE SyncManifest(p)
  <2>1. manifest.seen.rev = 1
    BY <1>1, <1>3 DEF SyncManifest, At, Answered, AnswersAt
  <2>2. manifest'.kept = manifest.seen /\ manifest'.seen = manifest.seen
    BY <1>1, <1>3 DEF SyncManifest, Synced, FileOf
  <2> QED BY <2>1, <2>2 DEF Answered, AnswersAt
<1> QED BY <1>2, <1>3

\* Every step keeps what was answered true.
LEMMA AnsweredKept == IInv /\ [Next]_vars => Answered'
<1> SUFFICES ASSUME IInv, [Next]_vars PROVE Answered'
  OBVIOUS
<1>1. /\ TypeOK /\ TypeOK' /\ Held /\ Answered /\ proc \in [Process -> Run]
      /\ manifest \in FileOf(Manifest)
  BY TypesKept DEF IInv, Order, TypeOK
<1>2. ASSUME NEW p \in Process, MigrationStep(p)
      PROVE  Answered'
  <2>1. CASE Swap(p) \/ SyncManifest(p)
    BY <2>1, SwapsAnswer
  <2>2. CASE ~Swap(p) /\ ~SyncManifest(p)
    <3>1. \A q \in Process : Knows(q)
      BY <1>1, <1>2, <2>2, CommandsKnow
    <3>2. UNCHANGED manifest
      BY <1>2, <2>2, CommandsWrite DEF WritesManifest
    <3>3. "completed" \in told' => manifest.kept.rev >= 1
      <4>1. CASE UNCHANGED told
        BY <1>1, <4>1 DEF Answered
      <4>2. CASE At(p, "answer") /\ told' = told \cup {IF proc[p].cmd = "swapped" THEN "completed" ELSE "recovered"}
        BY <1>1, <4>2 DEF Answered, AnswersAt, At
      <4> QED BY <1>2, <2>2, <4>1, <4>2
              DEF MigrationStep, Invoke, Reserve, AcquireLease, Recover, Early, Capture, Seal,
              Retain, SnapshotVerified, Decrypt, Stage, Dispose, Project, Verify, Await, Finish, Rest
    <3> QED BY <1>1, <3>1, <3>2, <3>3, AnsweredWithoutManifest
  <2> QED BY <2>1, <2>2
<1>3. CASE UNCHANGED <<manifest, told, proc>>
  BY <1>1, <1>3 DEF Answered, AnswersAt
<1>4. ASSUME NEW p \in Process, Crash(p)
      PROVE  Answered'
  <2>1. /\ \A q \in Process \ {p} : proc'[q] = proc[q]
        /\ proc'[p].at = "idle" /\ UNCHANGED <<manifest, told>>
    BY <1>1, <1>4, EndRuns DEF Crash, Runs
  <2>2. \A q \in Process : Knows(q)
    BY <2>1 DEF Knows
  <2> QED BY <1>1, <2>1, <2>2, AnsweredWithoutManifest DEF Answered
<1>5. CASE PowerLoss
  <2>1. PICK m \in {manifest.seen, manifest.kept} : manifest' = File(m)
    BY <1>5 DEF PowerLoss
  <2>2. manifest'.seen = m /\ manifest'.kept = m
    BY <2>1 DEF File
  <2>3. manifest.kept.rev >= 1 => manifest'.kept.rev >= 1
    BY <1>1, <2>1, <2>2 DEF Answered, FileOf, Manifest
  <2>4. UNCHANGED told /\ \A q \in Process : proc'[q].at = "idle"
    BY <1>5 DEF PowerLoss, NoRun
  <2> QED BY <1>1, <2>2, <2>3, <2>4 DEF Answered, AnswersAt
<1>6. CASE Rival
  <2>1. \A q \in Process : proc[q].at # "sync"
    <3>1. flock = None
      BY <1>6 DEF Rival
    <3> QED BY <1>1, <3>1, NoneAssumption DEF Held, HeldBy
  <2>2. manifest.seen.rev \in Nat /\ UNCHANGED <<told, proc>>
    BY <1>1, <1>6 DEF Rival, FileOf, Manifest
  <2>3. PICK m : manifest' = File(m) /\ m.rev = manifest.seen.rev + 1
    BY <1>6 DEF Rival
  <2>4. manifest'.seen = m /\ manifest'.kept = m
    BY <2>3 DEF File
  <2> QED BY <1>1, <2>1, <2>2, <2>3, <2>4 DEF Answered, AnswersAt
<1>7. CASE \/ \E s \in Session : Select(s) \/ Open(s) \/ TurnAway(s)
           \/ \E d \in Deleter : DeleterCrash(d)
           \/ PrivacyStep /\ UNCHANGED migration
           \/ WriteSource \/ Tick \/ UNCHANGED vars
  <2>1. UNCHANGED <<manifest, told, proc>>
    BY <1>7 DEF Select, Open, TurnAway, Ended, DeleterCrash, WriteSource, Tick, vars, migration
  <2> QED BY <1>3, <2>1
<1> QED BY <1>2, <1>4, <1>5, <1>6, <1>7 DEF Next

-----------------------------------------------------------------------------
(* The invariant *)

\* The invariant holds in the beginning ...
LEMMA InvariantInit == Init => IInv
<1> SUFFICES ASSUME Init PROVE IInv
  OBVIOUS
<1>1. TypeOK
  BY TypesInit
<1>2. \A p \in Process : proc[p].at = "idle" /\ proc[p].cmd = None
  BY DEF Init, NoRun
<1>3. \A d \in Deleter : deleter[d].at = "idle"
  BY DEF Init, PrivacyInit, Idle
<1>4. Order /\ Working
  <2>1. Held
    BY <1>2, IdleHoldsNothing DEF Held, HeldBy
  <2>2. Numbered /\ Paced /\ Working
    BY <1>2, IdleHoldsNothing DEF Numbered, NumberOf, Paced, PacedAt, Working, WorksAt
  <2> QED BY <1>1, <2>1, <2>2 DEF Order
<1>5. Quarantine
  <2>1. /\ cipher.seen = None /\ cipher.kept = None /\ key.seen = None /\ key.kept = None
        /\ retained = None /\ deleted = {}
        /\ \A c \in Challenge : intent[c] = None /\ steps[c] = {}
    BY DEF Init, PrivacyInit, Absent, File
  <2>2. Drawn
    BY <1>2, <2>1 DEF Drawn, DrawnBy, Synchronised, Unused, Before, Seals, Keyless, Keyed
  <2>3. Retained
    BY <2>1 DEF Retained
  <2>4. Admits
    BY <1>3, <2>1 DEF Admits, Admitted, Carried, Deleting
  <2> QED BY <2>2, <2>3, <2>4 DEF Quarantine
<1>6. Attested
  BY DEF Init, NewLedger, Attested
<1>7. Projected
  <2>1. manifest.seen = NoManifest /\ manifest.kept = NoManifest /\ NoManifest.gen = None
    BY DEF Init, File, NoManifest
  <2>2. None # "run"
    BY NoneAssumption
  <2> QED BY <2>1, <2>2 DEF Init, NewLedger, NoGen, Projected, Committed
<1>8. Answered
  BY <1>2 DEF Init, File, Answered, AnswersAt
<1> QED BY <1>4, <1>5, <1>6, <1>7, <1>8 DEF IInv, Migrated

\* ... and every step keeps it.
LEMMA InvariantKept == IInv /\ [Next]_vars => IInv'
<1> SUFFICES ASSUME IInv, [Next]_vars PROVE IInv'
  OBVIOUS
<1>1. Order' /\ Working'
  BY OrderKept
<1>2. Quarantine'
  BY QuarantineKept
<1>3. Attested' /\ Projected'
  BY AttestedKept, ProjectedKept
<1>4. Answered'
  BY AnsweredKept
<1> QED BY <1>1, <1>2, <1>3, <1>4 DEF IInv, Migrated

\* The inductive invariant of the migration holds throughout: of the order of commands,
\* the quarantine, what ledger, generation and manifest say, and what was answered.
THEOREM InvariantHolds == Spec => []IInv
<1> QED BY InvariantInit, InvariantKept, PTL DEF Spec

-----------------------------------------------------------------------------
(* What follows *)

\* The state is always of its type.
THEOREM TypesHold == Spec => []TypeOK
<1>1. IInv => TypeOK
  BY DEF IInv, Order
<1> QED BY <1>1, InvariantHolds, PTL

\* The nine checkpoints of the ledger are never ahead of what they attest, whichever
\* command appended them, over all crashes, power losses and takeovers of the lease.
THEOREM CheckpointsHold == Spec => []CheckpointsAreTrue
<1>1. IInv => CheckpointsAreTrue
  <2> SUFFICES ASSUME IInv PROVE CheckpointsAreTrue
    OBVIOUS
  <2>1. Attested /\ Retained /\ Projected /\ ledger.phase \in 0 .. 9
    BY LedgerTyped DEF IInv, Migrated, Quarantine, Order, TypeOK
  <2>2. ledger.phase >= 3 => retained # None /\ ledger.snap # 0 /\ Quarantined
    <3> SUFFICES ASSUME ledger.phase >= 3, ~ \E c \in Challenge : intent[c] # None
                 PROVE  Quarantined
      BY <2>1 DEF Attested, Quarantined
    <3>1. retained # None /\ retained.cipher.of = ledger.snap
      BY <2>1 DEF Attested
    <3>2. Whole /\ Opens(retained.cipher, retained.key)
      BY <2>1, <3>1 DEF Retained, Undisturbed
    <3> QED BY <3>1, <3>2 DEF Quarantined, Whole, File
  <2>3. /\ ledger.phase >= 4 => gen.nulls
        /\ ledger.phase >= 5 => gen.members # None /\ ledger.rows # None
        /\ ledger.phase >= 7 => gen.receipt # None /\ ledger.receipt = gen.receipt
        /\ ledger.phase >= 8 => ledger.receipt # None
        /\ ledger.phase >= 9 => ledger.verified
    BY <2>1 DEF Attested
  <2> QED BY <2>2, <2>3, Phases DEF CheckpointsAreTrue
<1> QED BY <1>1, InvariantHolds, PTL

\* The decoder projects the rows that are active, intact and unexpired.
LEMMA MembersSeeded ==
    ASSUME NEW s
    PROVE  Members(s, 0) = {r \in s.active : Readable(s, r) /\ ~Expired(s, r, 0)}
<1>1. ASSUME NEW r, Readable(s, r)
      PROVE  GuidanceRead(s, r, 0) = "inactive" <=> ~Expired(s, r, 0)
  BY <1>1 DEF Readable, GuidanceRead
<1> QED BY <1>1 DEF Members

\* A manifest that selects the run selects the generation that holds its receipt, and
\* that was projected from the quarantined source.
THEOREM SelectionIsVerified == Spec => []SelectedIsVerified
<1>1. IInv => SelectedIsVerified
  <2> SUFFICES ASSUME IInv PROVE SelectedIsVerified
    OBVIOUS
  <2>1. Projected
    BY DEF IInv, Migrated
  <2>2. Committed(manifest.seen) => gen.receipt = manifest.seen.receipt
    BY <2>1 DEF Projected
  <2>3. gen.receipt # None =>
           gen.receipt.snap = ledger.snap /\ gen.members = Members(Content[ledger.snap], 0)
    BY <2>1 DEF Projected
  <2> QED BY <2>2, <2>3, MembersSeeded DEF SelectedIsVerified
<1> QED BY <1>1, InvariantHolds, PTL

\* A wrapped key that was recorded as unlinked never comes back, and the ciphertext is
\* not unlinked before its key.
THEOREM KeysStayDeleted == Spec => []DeletedKeyStaysDeleted
<1>1. IInv => DeletedKeyStaysDeleted
  <2> SUFFICES ASSUME IInv, NEW c \in Challenge
               PROVE  /\ "key" \in steps[c] => intent[c].key \notin {key.seen, key.kept}
                      /\ c \in deleted => intent[c].cipher \notin {cipher.seen, cipher.kept}
                      /\ intent[c] # None /\ cipher.seen = None /\ cipher.kept = None =>
                            key.kept # intent[c].key
    BY DEF DeletedKeyStaysDeleted
  <2>1. Admitted(c) /\ Retained /\ retained \in Pairs \cup {None}
    BY DEF IInv, Quarantine, Admits, Order, TypeOK
  <2>2. /\ "key" \in steps[c] => intent[c] = retained /\ OffDisk(retained.key, key)
        /\ c \in deleted => intent[c] = retained /\ OffDisk(retained.cipher, cipher)
    BY <2>1 DEF Admitted
  <2>3. ASSUME intent[c] # None, cipher.seen = None
        PROVE  key.kept # intent[c].key
    <3>1. retained # None /\ intent[c] = retained
      BY <2>1, <2>3 DEF Admitted
    <3>2. retained.cipher # None
      BY <2>1, <3>1, NoneAssumption DEF Pairs
    <3>3. OffDisk(retained.key, key)
      BY <2>1, <2>3, <3>1, <3>2 DEF Retained
    <3> QED BY <3>1, <3>3 DEF OffDisk
  <2> QED BY <2>2, <2>3 DEF OffDisk
<1> QED BY <1>1, InvariantHolds, PTL

\* The manifest moves on by one revision; only a power loss before anyone was answered
\* takes it back, to what is on disk.
LEMMA ManifestMoves ==
    ASSUME IInv, [Next]_vars, manifest'.seen # manifest.seen
    PROVE  \/ manifest'.seen.rev = manifest.seen.rev + 1
           \/ manifest'.seen = manifest.kept /\ "completed" \notin told
<1>1. Answered /\ manifest \in FileOf(Manifest)
  BY DEF IInv, Order, TypeOK
<1>2. ASSUME NEW p \in Process, Swap(p)
      PROVE  manifest'.seen.rev = manifest.seen.rev + 1
  <2>1. PICK mine : mine = [rev |-> 1, gen |-> "run", receipt |-> Receipt(p)]
    OBVIOUS
  <2>2. manifest.seen.rev = 0 /\ manifest' = [manifest EXCEPT !.seen = mine]
    BY <1>2, <2>1 DEF Swap, Expected
  <2>3. manifest'.seen = mine
    BY <1>1, <2>2 DEF FileOf
  <2> QED BY <2>1, <2>2, <2>3
<1>3. CASE Rival
  <2>1. PICK m : manifest' = File(m) /\ m.rev = manifest.seen.rev + 1
    BY <1>3 DEF Rival
  <2> QED BY <2>1 DEF File
<1>4. CASE PowerLoss
  <2>1. PICK m \in {manifest.seen, manifest.kept} : manifest' = File(m)
    BY <1>4 DEF PowerLoss
  <2>2. manifest'.seen = manifest.kept /\ manifest.seen # manifest.kept
    BY <2>1 DEF File
  <2>3. manifest.kept.rev = 0
    BY <1>1, <2>2 DEF Answered
  <2> QED BY <1>1, <2>2, <2>3 DEF Answered
<1>5. ASSUME NEW p \in Process, SyncManifest(p)
      PROVE  FALSE
  BY <1>1, <1>5 DEF SyncManifest, Synced, FileOf
<1> QED BY <1>2, <1>3, <1>4, <1>5, OnlyWriters DEF WritesManifest

\* A coordinator is let in under the manifest of that instant, which is as new as any.
LEMMA SessionsAreCurrent ==
    ASSUME IInv, NEW s \in Session, Open(s)
    PROVE  session[s].sel.rev >= manifest.kept.rev
<1>1. /\ Answered /\ manifest.seen = session[s].sel
      /\ manifest.seen.rev \in Nat /\ manifest.kept.rev \in Nat
  BY DEF IInv, Order, TypeOK, FileOf, Manifest, Open, Current
<1>2. manifest.seen.rev >= manifest.kept.rev
  BY <1>1 DEF Answered
<1> QED BY <1>1, <1>2

\* Authority only moves forward, and no coordinator is let into the store under a manifest
\* older than the one on disk.
THEOREM AuthorityOnlyAdvances == Spec => AuthorityMovesForward
<1>1. IInv /\ [Next]_vars =>
        [/\ manifest'.seen # manifest.seen =>
               \/ manifest'.seen.rev = manifest.seen.rev + 1
               \/ manifest'.seen = manifest.kept /\ "completed" \notin told
         /\ \A s \in Session : Open(s) => session[s].sel.rev >= manifest.kept.rev]_vars
  BY ManifestMoves, SessionsAreCurrent
<1> QED BY <1>1, InvariantHolds, PTL DEF Spec, AuthorityMovesForward
===============================================================================
