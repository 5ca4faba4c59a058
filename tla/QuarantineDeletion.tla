-------------------------- MODULE QuarantineDeletion --------------------------
(***************************************************************************)
(* The Privacy Quarantine and its cryptographic deletion: two encrypted    *)
(* files (quarantine.py), export, waiver, challenge, intent and the        *)
(* resumable unlinking of the wrapped key before the ciphertext            *)
(* (privacy_lifecycle.py), over the append-only privacy ledger             *)
(* (migration_repository.py), as the local commands run them               *)
(* (scripts/a0_local_authority.py).                                        *)
(*                                                                         *)
(* A file is what a reader sees and what survives a power loss; the two    *)
(* differ until its directory is synced.  An envelope is the data key it   *)
(* was sealed with and the snapshot it seals; its digest is its identity.  *)
(* The quarantine identity is that of one Migration Run.                   *)
(***************************************************************************)
EXTENDS Integers, Sequences, FiniteSets

CONSTANTS
    Challenge,      \* deletion challenges, each good for one operation
    Deleter,        \* processes that run the deletion commands
    MaxClock,       \* bounds on time
    Kind,           \* the kinds of evidence an operator gives: export or waiver
    None

VARIABLES
    clock,          \* the instant an operator passes as --now
    cipher, key,    \* the ciphertext file and the wrapped-key file
    retained,       \* retained_quarantines: the digests of both files
    evidence,       \* export receipts and waivers
    challenge,      \* deletion challenges, by identity: issue and expiry
    intent,         \* deletion intents, by the challenge they consumed
    steps,          \* unlink markers, by operation
    deleted,        \* operations with a deletion receipt
    deleter         \* the local variables of the deletion commands

quarantine == <<cipher, key, retained>>
privacy    == <<evidence, challenge, intent, steps, deleted, deleter>>

File(f)   == [seen |-> f, kept |-> f]
Absent    == File(None)
Idle      == [at |-> "idle", op |-> None, read |-> None, now |-> 0]

PrivacyInit ==
    /\ clock = 0
    /\ cipher = Absent /\ key = Absent /\ retained = None
    /\ evidence = {} /\ deleted = {}
    /\ challenge = [c \in Challenge |-> None]
    /\ intent = [c \in Challenge |-> None]
    /\ steps = [c \in Challenge |-> {}]
    /\ deleter = [d \in Deleter |-> Idle]

\* Both files are whole and one key opens them.
Opens(c, k) == c # None /\ k # None /\ c.whole /\ k.whole /\ c.dek = k.dek

\* The files are there, are the ones the ledger retains, and decrypt.
Exact == retained # None /\ cipher.seen = retained.cipher /\ Opens(cipher.seen, key.seen)

-----------------------------------------------------------------------------
(* Evidence and challenges *)

\* An export receipt carries the digests of the files it copied; a waiver none.
Attest(kind) ==
    /\ retained # None /\ evidence = {}
    /\ kind = "export" => Exact
    /\ evidence' = {IF kind = "export"
                    THEN [kind |-> kind, cipher |-> cipher.seen, key |-> key.seen]
                    ELSE [kind |-> kind, cipher |-> None, key |-> None]}
    /\ UNCHANGED <<clock, quarantine, challenge, intent, steps, deleted, deleter>>

IssueChallenge(c) ==
    /\ retained # None /\ challenge[c] = None /\ clock < MaxClock
    /\ challenge' = [challenge EXCEPT ![c] = [issued |-> clock, expires |-> clock + 1]]
    /\ UNCHANGED <<clock, quarantine, evidence, intent, steps, deleted, deleter>>

\* Export evidence is good for the very files that are to be destroyed.
Warrants(e, c, k) == e.kind = "waiver" \/ (e.cipher = c /\ e.key = k)

-----------------------------------------------------------------------------
(* Deletion: begin admits an intent, resume carries it out *)

Goto(d, at) == deleter' = [deleter EXCEPT ![d].at = at]
Leave(d)    == deleter' = [deleter EXCEPT ![d] = Idle]

\* The files are read and verified before the intent is admitted.
Begin(d, c) ==
    /\ deleter[d].at = "idle" /\ Exact
    /\ \E e \in evidence : Warrants(e, cipher.seen, key.seen)
    /\ deleter' = [deleter EXCEPT ![d] =
          [at |-> "begin", op |-> c, read |-> [cipher |-> cipher.seen, key |-> key.seen],
           now |-> clock]]
    /\ UNCHANGED <<clock, quarantine, evidence, challenge, intent, steps, deleted>>

\* A challenge is live at the instant its command was given.
Unspent(c, now) ==
    /\ intent[c] = None
    /\ now >= challenge[c].issued /\ now < challenge[c].expires

\* One transaction consumes a live, unused challenge and appends the intent.
Consume(d) ==
    LET c == deleter[d].op IN
    /\ deleter[d].at = "begin"
    /\ IF challenge[c] # None /\ Unspent(c, deleter[d].now)
       THEN intent' = [intent EXCEPT ![c] = deleter[d].read]
       ELSE intent' = intent
    /\ Leave(d)
    /\ UNCHANGED <<clock, quarantine, evidence, challenge, steps, deleted>>

Resume(d, c) ==
    /\ deleter[d].at = "idle"
    /\ intent[c] # None /\ c \notin deleted /\ retained.cipher = intent[c].cipher
    /\ deleter' = [deleter EXCEPT ![d] =
          [Idle EXCEPT !.op = c,
                       !.at = IF "key" \notin steps[c] THEN "unlinkKey"
                              ELSE IF "cipher" \notin steps[c] THEN "unlinkCipher"
                              ELSE "complete"]]
    /\ UNCHANGED <<clock, quarantine, evidence, challenge, intent, steps, deleted>>

\* A missing file is already unlinked; a file with another digest stops the deletion.
Unlink(d, at, file, expected, next) ==
    /\ deleter[d].at = at
    /\ IF file.seen \in {None, expected}
       THEN Goto(d, next)
       ELSE Leave(d)

Gone(file, expected) ==
    IF file.seen = expected THEN [file EXCEPT !.seen = None] ELSE file

\* Mutant of Synced: the directory is not synced.
NotSynced(file) == file

\* The directory is synced before the marker is appended.
Synced(file) == [file EXCEPT !.kept = file.seen]

UnlinkKey(d) ==
    LET c == deleter[d].op IN
    /\ Unlink(d, "unlinkKey", key, intent[c].key, "syncKey")
    /\ key' = Gone(key, intent[c].key)
    /\ UNCHANGED <<clock, cipher, retained, evidence, challenge, intent, steps, deleted>>

UnlinkCipher(d) ==
    LET c == deleter[d].op IN
    /\ Unlink(d, "unlinkCipher", cipher, intent[c].cipher, "syncCipher")
    /\ cipher' = Gone(cipher, intent[c].cipher)
    /\ UNCHANGED <<clock, key, retained, evidence, challenge, intent, steps, deleted>>

\* The sync is followed by a check that the path is still free.
SyncKey(d) ==
    /\ deleter[d].at = "syncKey"
    /\ key' = Synced(key)
    /\ IF key.seen = None THEN Goto(d, "markKey") ELSE Leave(d)
    /\ UNCHANGED <<clock, cipher, retained, evidence, challenge, intent, steps, deleted>>

SyncCipher(d) ==
    /\ deleter[d].at = "syncCipher"
    /\ cipher' = Synced(cipher)
    /\ IF cipher.seen = None THEN Goto(d, "markCipher") ELSE Leave(d)
    /\ UNCHANGED <<clock, key, retained, evidence, challenge, intent, steps, deleted>>

\* A marker is appended once; the one of the ciphertext requires the one of the key.
Mark(d) ==
    LET c == deleter[d].op
        f == IF deleter[d].at = "markKey" THEN "key" ELSE "cipher"
    IN
    /\ deleter[d].at \in {"markKey", "markCipher"}
    /\ f = "cipher" => "key" \in steps[c]
    /\ steps' = [steps EXCEPT ![c] = @ \cup {f}]
    /\ Goto(d, IF f = "key" /\ "cipher" \notin steps[c] THEN "unlinkCipher" ELSE "complete")
    /\ UNCHANGED <<clock, quarantine, evidence, challenge, intent, deleted>>

Complete(d) ==
    /\ deleter[d].at = "complete"
    /\ steps[deleter[d].op] = {"key", "cipher"}
    /\ deleted' = deleted \cup {deleter[d].op}
    /\ Leave(d)
    /\ UNCHANGED <<clock, quarantine, evidence, challenge, intent, steps>>

DeleterStep(d) ==
    \/ \E c \in Challenge : Begin(d, c) \/ Resume(d, c)
    \/ Consume(d) \/ UnlinkKey(d) \/ SyncKey(d) \/ UnlinkCipher(d) \/ SyncCipher(d)
    \/ Mark(d) \/ Complete(d)

PrivacyStep ==
    \/ \E kind \in Kind : Attest(kind)
    \/ \E c \in Challenge : IssueChallenge(c)
    \/ \E d \in Deleter : DeleterStep(d)

-----------------------------------------------------------------------------
(* Properties *)

\* Once a deletion has recorded that the wrapped key is unlinked, that very key is
\* on no disk again, whatever crashed and whoever else deletes: the ciphertext is
\* only ever unlinked after its key, and a receipt means both are gone for good.
DeletedKeyStaysDeleted ==
    \A c \in Challenge :
        /\ "key" \in steps[c] => intent[c].key \notin {key.seen, key.kept}
        /\ c \in deleted => intent[c].cipher \notin {cipher.seen, cipher.kept}
        /\ intent[c] # None /\ cipher.seen = None /\ cipher.kept = None => key.kept # intent[c].key

\* IMPLEMENTATION_SPEC.md:672: the deletion destroys that exact Privacy Quarantine,
\* is irreversible "and cannot be undone by the runtime".  After a receipt, neither
\* file of the quarantine exists.
DeletionIsIrreversible ==
    deleted # {} => cipher.seen = None /\ key.seen = None
=============================================================================
