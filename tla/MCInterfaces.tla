---------------------------- MODULE MCInterfaces ----------------------------
(* The API: in some behaviours the requests of its clients, in the others  *)
(* sign-in and the sessions of the mobile app.                             *)
EXTENDS ApiRequests

CONSTANTS Signers, BackupCodes, Challenges, Passkeys, Retries, MaxStep, MaxTokens, MaxChanges
VARIABLES version, lastStep, codes, challenges, sessions, now, tokens, ctx, locks, grants, served, crossed
VARIABLE subject   \* what this behaviour is about: "api" or "accounts"

Accounts == INSTANCE SignIn WITH Requests <- Signers, rows <- challenges

ASSUME AccountsAssumption ==
    Retries \in Nat /\ MaxStep \in Nat /\ MaxTokens \in Nat \ {0} /\ MaxChanges \in Nat

accountVars == <<version, lastStep, codes, challenges, sessions, now, tokens, ctx, locks, grants, served,
                 crossed>>
allVars == <<vars, accountVars, subject>>

\* A creation sent twice, another one with the same key or with a key of its
\* own, and a monitoring event sent twice.
MCKeyings == {<<"a", "a", k, "m", "m">> : k \in {"a", "b"}}
MCBodyOf == <<1, 1, 2, 1, 2>>
MCKindOf == <<"create", "create", "create", "monitor", "monitor">>

MCNumbersOf == [k \in Kinds |->
    CASE k = "create" -> <<"INC">> [] k = "monitor" -> <<"EVT", "TASK">> [] k = "update" -> <<>>]

\* An account with two backup codes; one that signs in with a passkey; one that
\* comes from Keycloak; one that is signed in.
MCAccounts == {<<{1, 2}, {}, FALSE>>, <<{}, {1}, FALSE>>, <<{}, {2}, FALSE>>, <<{}, {}, TRUE>>}

MCInit ==
    /\ Init /\ Accounts!Init
    /\ subject \in {"api", "accounts"}
    /\ subject = "accounts" => key = <<"a", "a", "a", "m", "m">>
    /\ <<codes, challenges, sessions[1].active>> \in
         IF subject = "accounts" THEN MCAccounts ELSE {<<{}, {}, FALSE>>}

OfApi(A) == subject = "api" /\ A /\ UNCHANGED <<accountVars, subject>>
Api == OfApi(Next)
SignIns == subject = "accounts" /\ Accounts!Next /\ UNCHANGED <<vars, subject>>

MCSpec ==
    /\ MCInit /\ [][Api \/ SignIns]_allVars
    /\ \A r \in Requests : WF_allVars(OfApi(Step(r)))

(* A code, challenge or token is used once: SignIn's UsedOnce.             *)
UsedOnce == Accounts!UsedOnce

(* A change of credentials ends the older sessions: SignIn's               *)
(* OldSessionsEnd.                                                         *)
OldSessionsEnd == Accounts!OldSessionsEnd

(* Every request of a client comes to an end: ApiRequests' EveryRequestEnds.*)
ApiRequestsEnd == subject = "api" => EveryRequestEnds
=============================================================================
