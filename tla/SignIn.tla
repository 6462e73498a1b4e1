------------------------------- MODULE SignIn -------------------------------
(***************************************************************************)
(* Sign-in to one account with codes that may be used once, and the mobile *)
(* sessions it gives: time-based codes and backup codes after the password,*)
(* the challenges of passkeys and of the Keycloak hand-off, the rotation of*)
(* refresh tokens, and the credential version that ends sessions when the  *)
(* password changes.  Requests run at the same time in several gunicorn    *)
(* workers; each action is a statement on the database or a commit.        *)
(* Whether a password, a signature or a PKCE verifier is right is external *)
(* to the model; a wrong one ends the request.                             *)
(***************************************************************************)
EXTENDS Integers, Sequences, FiniteSets

CONSTANTS
    Requests,    \* requests that can be under way at the same time
    BackupCodes, \* numbers of the backup codes of the account
    Challenges,  \* numbers of the PasskeyChallenge rows
    Passkeys,    \* those of them that are for a passkey; the others hand over from Keycloak
    Retries,     \* attempts to replace the list of backup codes
    MaxStep,     \* bound: time steps of the codes
    MaxTokens,   \* bound: refresh tokens issued
    MaxChanges   \* bound: credential versions

VARIABLES
    version,     \* User.auth_version
    lastStep,    \* User.mfa_last_totp_step
    codes,       \* User.mfa_backup_codes_json
    rows,        \* the PasskeyChallenge rows
    sessions,    \* the mobile APIClient rows, with the version they began with
    now,         \* the current time step
    tokens,      \* number of refresh tokens issued
    ctx,         \* what each request has loaded, and where it stands
    locks,       \* the rows each request's transaction has locked
    grants,      \* how often each code, challenge or token has given tokens
    served,      \* for each request that was served: the session's beginning and its own
    crossed      \* two changes of credentials overlapped

vars == <<version, lastStep, codes, rows, sessions, now, tokens, ctx, locks, grants, served, crossed>>

Totp(n) == <<"totp", n>>
Backup(c) == <<"backup", c>>
Challenge(h) == <<"challenge", h>>
Token(t) == <<"token", t>>
Credentials ==
    {Totp(n) : n \in 1 .. MaxStep + 1} \cup {Backup(c) : c \in BackupCodes}
    \cup {Challenge(h) : h \in Challenges} \cup {Token(t) : t \in 1 .. MaxTokens}

NoCredential == <<"none", 0>>
Idle == [at |-> "idle", cred |-> NoCredential, version |-> 0, codes |-> {}, tries |-> 0, session |-> 0]

Init ==
    /\ version = 1 /\ lastStep = 0 /\ now = 1 /\ tokens = 1
    /\ codes \in SUBSET BackupCodes /\ rows \in SUBSET Challenges
    /\ \E on \in BOOLEAN : sessions = <<[active |-> on, version |-> 1, token |-> IF on THEN 1 ELSE 0, began |-> 1]>>
    /\ ctx = [r \in Requests |-> Idle]
    /\ locks = [r \in Requests |-> {}]
    /\ grants = [c \in Credentials |-> 0]
    /\ served = {} /\ crossed = FALSE

Free(r, row) == \A q \in Requests \ {r} : row \notin locks[q]
Lock(r, row) == Free(r, row) /\ locks' = [locks EXCEPT ![r] = @ \cup {row}]
End(r) == ctx' = [ctx EXCEPT ![r] = Idle] /\ locks' = [locks EXCEPT ![r] = {}]
User == <<"user", 0>>
Session(s) == <<"session", s>>

-----------------------------------------------------------------------------
(* Sign-in with a password and a second factor                             *)

\* The account is loaded, the password is right, and the code is one of the
\* accepted steps or looks like a backup code.
LoadUser(r, c) ==
    /\ ctx[r].at = "idle"
    /\ \/ \E n \in {now - 1, now, now + 1} : n > lastStep /\ c = Totp(n)
       \/ \E b \in codes : c = Backup(b)
    /\ ctx' = [ctx EXCEPT ![r] = [Idle EXCEPT !.at = "verify", !.cred = c, !.version = version, !.codes = codes]]
    /\ UNCHANGED <<version, lastStep, codes, rows, sessions, now, tokens, locks, grants, served, crossed>>

\* _claim_step: an update that matches only if no request has used the step.
\* The plausible mistake: it relies on the value loaded with the account.
StepFreeAsLoaded(n) == TRUE
StepFree(n) == lastStep < n

ClaimStep(r) ==
    /\ ctx[r].at = "verify" /\ ctx[r].cred[1] = "totp" /\ Free(r, User)
    /\ IF StepFree(ctx[r].cred[2])
       THEN /\ Lock(r, User)
            /\ ctx' = [ctx EXCEPT ![r].at = "issue"]
       ELSE End(r)
    /\ UNCHANGED <<version, lastStep, codes, rows, sessions, now, tokens, grants, served, crossed>>

\* The same for a backup code: the list is replaced if it is the one that was
\* loaded, and loaded again otherwise.
ClaimCode(r) ==
    /\ ctx[r].at = "verify" /\ ctx[r].cred[1] = "backup"
    /\ \/ /\ ctx[r].cred[2] \notin ctx[r].codes \/ ctx[r].tries = Retries
          /\ End(r)
       \/ /\ ctx[r].cred[2] \in ctx[r].codes /\ ctx[r].tries < Retries
          /\ codes = ctx[r].codes
          /\ Lock(r, User)
          /\ ctx' = [ctx EXCEPT ![r].at = "issue"]
       \/ /\ ctx[r].cred[2] \in ctx[r].codes /\ ctx[r].tries < Retries
          /\ codes # ctx[r].codes /\ Free(r, User)
          /\ ctx' = [ctx EXCEPT ![r].codes = codes, ![r].tries = @ + 1]
          /\ UNCHANGED locks
    /\ UNCHANGED <<version, lastStep, codes, rows, sessions, now, tokens, grants, served, crossed>>

(* Sign-in with a challenge                                                *)

\* The row is selected for update; Keycloak's user is loaded, a passkey's later.
TakeChallenge(r, h) ==
    /\ ctx[r].at = "idle" /\ h \in rows
    /\ Lock(r, Challenge(h))
    /\ ctx' = [ctx EXCEPT ![r] = [Idle EXCEPT !.at = IF h \in Passkeys THEN "consume" ELSE "issue",
                                              !.cred = Challenge(h), !.version = version]]
    /\ UNCHANGED <<version, lastStep, codes, rows, sessions, now, tokens, grants, served, crossed>>

\* "Consume before cryptographic verification to prevent replay": a commit.
ConsumeChallenge(r) ==
    /\ ctx[r].at = "consume"
    /\ rows' = rows \ {ctx[r].cred[2]}
    /\ locks' = [locks EXCEPT ![r] = {}]
    /\ ctx' = [ctx EXCEPT ![r].at = "check"]
    /\ UNCHANGED <<version, lastStep, codes, sessions, now, tokens, grants, served, crossed>>

CheckPasskey(r) ==
    /\ ctx[r].at = "check"
    /\ ctx' = [ctx EXCEPT ![r].at = "issue", ![r].version = version]
    /\ UNCHANGED <<version, lastStep, codes, rows, sessions, now, tokens, locks, grants, served, crossed>>

\* The verifier is wrong or the account is not usable: the row of a hand-off is
\* deleted, "single use, whatever the outcome".
RefuseHandoff(r) ==
    /\ ctx[r].at = "issue" /\ ctx[r].cred \in {Challenge(h) : h \in Challenges \ Passkeys}
    /\ rows' = rows \ {ctx[r].cred[2]}
    /\ End(r)
    /\ UNCHANGED <<version, lastStep, codes, sessions, now, tokens, grants, served, crossed>>

\* Challenges expire and are deleted.
Expire(h) ==
    /\ h \in rows /\ \A r \in Requests : Challenge(h) \notin locks[r]
    /\ rows' = rows \ {h}
    /\ UNCHANGED <<version, lastStep, codes, sessions, now, tokens, ctx, locks, grants, served, crossed>>

\* The version a new session carries: the one loaded with the account.  The
\* plausible mistake: the one the account has when the session is stored.
VersionNow(r) == version
VersionOf(r) == ctx[r].version

\* issue_mobile_session and the commit.
Issue(r) ==
    LET c == ctx[r].cred
    IN /\ ctx[r].at = "issue" /\ tokens < MaxTokens
       /\ tokens' = tokens + 1
       /\ sessions' = Append(sessions, [active |-> TRUE, version |-> VersionOf(r),
                                        token |-> tokens', began |-> ctx[r].version])
       /\ lastStep' = IF c[1] = "totp" THEN c[2] ELSE lastStep
       /\ codes' = IF c[1] = "backup" THEN codes \ {c[2]} ELSE codes
       /\ rows' = IF c[1] = "challenge" THEN rows \ {c[2]} ELSE rows
       /\ grants' = [grants EXCEPT ![c] = @ + 1]
       /\ End(r)
       /\ UNCHANGED <<version, now, served, crossed>>

-----------------------------------------------------------------------------
(* A mobile session                                                        *)

\* api_mobile_refresh selects the session of the token for update.
StartRefresh(r, s) ==
    /\ ctx[r].at = "idle" /\ sessions[s].active
    /\ Lock(r, Session(s))
    /\ ctx' = [ctx EXCEPT ![r] = [Idle EXCEPT !.at = "refresh", !.session = s, !.version = version,
                                              !.cred = Token(sessions[s].token)]]
    /\ UNCHANGED <<version, lastStep, codes, rows, sessions, now, tokens, grants, served, crossed>>

\* end_stale_mobile_session, and logout.
Ended(s) == [sessions EXCEPT ![s].active = FALSE, ![s].token = 0]

Refresh(r) ==
    LET s == ctx[r].session
    IN /\ ctx[r].at = "refresh"
       /\ IF sessions[s].version # ctx[r].version
          THEN sessions' = Ended(s) /\ UNCHANGED <<tokens, grants>>
          ELSE /\ tokens < MaxTokens
               /\ tokens' = tokens + 1
               /\ sessions' = [sessions EXCEPT ![s].token = tokens']
               /\ grants' = [grants EXCEPT ![ctx[r].cred] = @ + 1]
       /\ End(r)
       /\ UNCHANGED <<version, lastStep, codes, rows, now, served, crossed>>

\* authenticate_api_request: the session of the access token, then its user.
LoadClient(r, s) ==
    /\ ctx[r].at = "idle" /\ sessions[s].active
    /\ ctx' = [ctx EXCEPT ![r] = [Idle EXCEPT !.at = "load", !.session = s, !.version = version]]
    /\ UNCHANGED <<version, lastStep, codes, rows, sessions, now, tokens, locks, grants, served, crossed>>

Serve(r) ==
    LET s == ctx[r].session
    IN /\ ctx[r].at = "load" /\ Free(r, Session(s))
       /\ IF sessions[s].version = version
          THEN /\ served' = served \cup {<<sessions[s].began, ctx[r].version>>}
               /\ \/ End(r)
                  \/ ctx' = [ctx EXCEPT ![r].at = "logout"] /\ UNCHANGED locks
               /\ UNCHANGED sessions
          ELSE sessions' = Ended(s) /\ End(r) /\ UNCHANGED served
       /\ UNCHANGED <<version, lastStep, codes, rows, now, tokens, grants, crossed>>

Logout(r) ==
    /\ ctx[r].at = "logout" /\ Free(r, Session(ctx[r].session))
    /\ sessions' = Ended(ctx[r].session)
    /\ End(r)
    /\ UNCHANGED <<version, lastStep, codes, rows, now, tokens, grants, served, crossed>>

-----------------------------------------------------------------------------
(* A password is changed or reset, or the account is deactivated           *)

LoadForChange(r) ==
    /\ ctx[r].at = "idle" /\ version < MaxChanges
    /\ ctx' = [ctx EXCEPT ![r] = [Idle EXCEPT !.at = "change", !.version = version]]
    /\ UNCHANGED <<version, lastStep, codes, rows, sessions, now, tokens, locks, grants, served, crossed>>

\* auth_version += 1, of the version that was loaded.
CommitChange(r) ==
    /\ ctx[r].at = "change" /\ Free(r, User)
    /\ version' = ctx[r].version + 1
    /\ crossed' = (crossed \/ version # ctx[r].version)
    /\ End(r)
    /\ UNCHANGED <<lastStep, codes, rows, sessions, now, tokens, grants, served>>

-----------------------------------------------------------------------------
\* A request is refused by a check of its own, raises, or its worker dies.
Abort(r) ==
    /\ ctx[r].at # "idle"
    /\ End(r)
    /\ UNCHANGED <<version, lastStep, codes, rows, sessions, now, tokens, grants, served, crossed>>

Tick ==
    /\ now < MaxStep
    /\ now' = now + 1
    /\ UNCHANGED <<version, lastStep, codes, rows, sessions, tokens, ctx, locks, grants, served, crossed>>

Next ==
    \/ Tick
    \/ \E h \in Challenges : Expire(h)
    \/ \E r \in Requests :
          \/ \E c \in Credentials : LoadUser(r, c)
          \/ ClaimStep(r) \/ ClaimCode(r)
          \/ \E h \in Challenges : TakeChallenge(r, h)
          \/ ConsumeChallenge(r) \/ CheckPasskey(r) \/ RefuseHandoff(r) \/ Issue(r)
          \/ \E s \in DOMAIN sessions : StartRefresh(r, s) \/ LoadClient(r, s)
          \/ Refresh(r) \/ Serve(r) \/ Logout(r)
          \/ LoadForChange(r) \/ CommitChange(r)
          \/ Abort(r)

Spec == Init /\ [][Next]_vars

-----------------------------------------------------------------------------
TypeOK ==
    /\ version \in Nat /\ lastStep \in Nat /\ codes \subseteq BackupCodes /\ rows \subseteq Challenges
    /\ sessions \in Seq([active : BOOLEAN, version : Nat, token : Nat, began : Nat])
    /\ grants \in [Credentials -> Nat]

(* What may be used once is: a time step, a backup code, a challenge and a *)
(* refresh token each give tokens at most once, however many requests      *)
(* present it at the same time ("two simultaneous sign-ins with the same   *)
(* code cannot both succeed").                                             *)
UsedOnce == \A c \in Credentials : grants[c] <= 1

(* A request that arrives after a change of credentials is not served with *)
(* a session whose sign-in checked the older ones, although the sign-in    *)
(* may be stored, and the session refreshed, after the change.  (Two       *)
(* changes that overlap count as one: each adds one to what it loaded.)    *)
OldSessionsEnd == ~crossed => \A x \in served : x[1] >= x[2]
=============================================================================
