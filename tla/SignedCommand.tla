---------------------------- MODULE SignedCommand ----------------------------
(***************************************************************************)
(* The authority a signed operator command is admitted under: helpers/v3/  *)
(* authority.py and authority_service.py (grants, the directory of signed  *)
(* revocations, the local verifier), api/authority_challenge.py (the nonce *)
(* of the browser session) and the admission of api/operator_command.py.   *)
(*                                                                         *)
(* A grant is the set of its bindings: the exact command it is good for,   *)
(* the nonce of the session, and the instant it expires.  Signatures and   *)
(* identities are taken to be what they should be: a grant is its          *)
(* identity.  A revocation is one file of the ledger, and a verifier reads *)
(* every file of it: one that is not whole yet refuses every grant.        *)
(***************************************************************************)
EXTENDS Integers, FiniteSets

CONSTANTS
    Expiry,      \* the instants a grant may expire at
    MaxClock, MaxNonce, MaxRevocations,   \* bounds
    None

VARIABLES
    clock,
    nonce,       \* the session's current challenge; 0: none yet
    revocations, \* files of the revocation ledger
    revoking     \* the revocation the local command is writing

authority == <<clock, nonce, revocations, revoking>>

Classes == {"fixture_use_grant", "operator_content_session"}

AuthorityInit ==
    /\ clock = 0
    /\ nonce = 0
    /\ revocations = {}
    /\ revoking = None

\* The grants an operator can hold for a command: the latest nonce is in any new one.
Grants(commands) == [command : commands, nonce : 1..nonce, expires : Expiry]

\* Every entry must be whole and not dated ahead, whichever grant it revokes.
Readable(now) == \A r \in revocations : r.whole /\ r.at <= now

Revoked(g, class) == \E r \in revocations : r.grant = g /\ r.class = class

\* authorize_grant under one instant; the nonce the caller expects is its own argument.
Authorized(g, class, expected, now) ==
    /\ g.nonce = expected
    /\ now < g.expires
    /\ Readable(now)
    /\ ~Revoked(g, class)

-----------------------------------------------------------------------------
Tick ==
    /\ clock < MaxClock
    /\ clock' = clock + 1
    /\ UNCHANGED <<nonce, revocations, revoking>>

\* A new challenge replaces the old one, for every grant bound to it.
RotateChallenge ==
    /\ nonce < MaxNonce
    /\ nonce' = nonce + 1
    /\ UNCHANGED <<clock, revocations, revoking>>

\* The local command creates the file before it holds a byte; the instant of the
\* revocation is an argument of the command and may lie ahead.
AppendRevocation(g, class, at) ==
    /\ revoking = None
    /\ Cardinality(revocations) < MaxRevocations
    /\ ~Revoked(g, class)
    /\ LET r == [grant |-> g, class |-> class, at |-> at, whole |-> FALSE]
       IN  revocations' = revocations \cup {r} /\ revoking' = r
    /\ UNCHANGED <<clock, nonce>>

FinishRevocation ==
    /\ revoking # None
    /\ revocations' = (revocations \ {revoking}) \cup {[revoking EXCEPT !.whole = TRUE]}
    /\ revoking' = None
    /\ UNCHANGED <<clock, nonce>>

\* An error removes the file; the death of the process leaves it as it is.
FailRevocation ==
    /\ revoking # None
    /\ \/ revocations' = revocations \ {revoking}
       \/ UNCHANGED revocations
    /\ revoking' = None
    /\ UNCHANGED <<clock, nonce>>
=============================================================================
