-------------------------------- MODULE Access --------------------------------
(***************************************************************************)
(* Who a request acts for: the cookie sessions of the anonymous            *)
(* demonstration and of administrators (services/auth.py) and the bearer   *)
(* tokens of MCP clients (mcp/tokens.py, mcp/auth.py, mcp/access.py).      *)
(*                                                                         *)
(* A client may present any credential and any CSRF token it was given, in *)
(* any order: browser tabs share a cookie and keep the CSRF tokens of      *)
(* older pages.  Every step is one transaction.  The users and the tenant  *)
(* stay active; no code here disables them.                                *)
(***************************************************************************)
EXTENDS Integers, Sequences, FiniteSets

CONSTANTS
    Credential,   \* the rows of the session tables and of api_tokens
    Request,      \* requests in flight
    Collections,
    Offers,       \* the scopes and collections tokens are issued with
    MaxGrants     \* bound: CSRF tokens ever issued

ASSUME GrantsAssumption == MaxGrants \in Nat

VARIABLES
    credentials,
    grants,       \* history: for which session each CSRF token was issued
    gone,         \* history: the credentials that were revoked
    active,       \* the collections of the tenant that are active
    requests

accessVars == <<credentials, grants, gone, active, requests>>

Sessions == {"anonymous", "user"}
NoCredential == "none"
NoCsrf == 0

Absent == [kind |-> "absent", csrf |-> NoCsrf, revoked |-> FALSE,
           expired |-> FALSE, scopes |-> {}, collections |-> {}]
Idle == [step |-> "idle", cred |-> NoCredential, csrf |-> NoCsrf, late |-> FALSE]

AccessTypeOK ==
    /\ \A c \in Credential :
        /\ credentials[c].kind \in {"absent", "token"} \cup Sessions
        /\ credentials[c].csrf \in 0 .. Len(grants)
        /\ credentials[c].kind \in Sessions <=> credentials[c].csrf # NoCsrf
        /\ credentials[c].kind = "token" <=> credentials[c].collections # {}
    /\ Len(grants) <= MaxGrants
    /\ active \subseteq Collections
    /\ \A r \in Request :
        /\ requests[r].step \in {"idle", "renewing", "checking", "admitted", "reading"}
        /\ requests[r].cred \in Credential \cup {NoCredential}

AccessInit ==
    /\ credentials = [c \in Credential |-> Absent]
    /\ grants = <<>>
    /\ gone = {}
    /\ active = Collections
    /\ requests = [r \in Request |-> Idle]

-----------------------------------------------------------------------------
(* The row a cookie or a bearer token is looked up by. *)
Usable(c) ==
    /\ credentials[c].kind # "absent"
    /\ ~credentials[c].revoked
    /\ ~credentials[c].expired

Present(r, c, step, csrf) ==
    /\ requests[r].step = "idle"
    /\ requests' = [requests EXCEPT ![r] =
           [step |-> step, cred |-> c, csrf |-> csrf, late |-> c \in gone]]

Granted(c) ==
    /\ Len(grants) < MaxGrants
    /\ grants' = Append(grants, c)

(* A new session, for a visitor without a usable cookie or after a login.  *)
OpenSession(kind) ==
    \E c \in Credential :
        /\ credentials[c].kind = "absent"
        /\ Granted(c)
        /\ credentials' = [credentials EXCEPT ![c] =
               [Absent EXCEPT !.kind = kind, !.csrf = Len(grants')]]
        /\ UNCHANGED <<gone, active, requests>>

(* get_or_create: a usable session is looked up in one transaction ...     *)
Greet(r, c) ==
    /\ Usable(c)
    /\ credentials[c].kind \in Sessions
    /\ Present(r, c, "renewing", NoCsrf)
    /\ UNCHANGED <<credentials, grants, gone, active>>

(* Seeded bug: the row is written as a new one is. *)
RenewWhole(r) ==
    LET c == requests[r].cred IN
    /\ requests[r].step = "renewing"
    /\ Granted(c)
    /\ credentials' = [credentials EXCEPT ![c] =
           [Absent EXCEPT !.kind = credentials[c].kind, !.csrf = Len(grants')]]
    /\ requests' = [requests EXCEPT ![r] = Idle]
    /\ UNCHANGED <<gone, active>>

(* ... and gets a new CSRF token and a new expiry in another. *)
Renew(r) ==
    LET c == requests[r].cred IN
    /\ requests[r].step = "renewing"
    /\ Granted(c)
    /\ credentials' = [credentials EXCEPT ![c].csrf = Len(grants'),
                                          ![c].expired = FALSE]
    /\ requests' = [requests EXCEPT ![r] = Idle]
    /\ UNCHANGED <<gone, active>>

(* authenticate, for a request that only reads. *)
Read(r, c) ==
    /\ Usable(c)
    /\ Present(r, c, "reading", NoCsrf)
    /\ UNCHANGED <<credentials, grants, gone, active>>

(* require_csrf authenticates first ... *)
Write(r, c, csrf) ==
    /\ Usable(c)
    /\ credentials[c].kind \in Sessions
    /\ Present(r, c, "checking", csrf)
    /\ UNCHANGED <<credentials, grants, gone, active>>

CsrfOfSession(r) == credentials[requests[r].cred].csrf = requests[r].csrf

(* ... and compares with the hash stored by then. *)
CheckCsrf(r) ==
    /\ requests[r].step = "checking"
    /\ requests' = [requests EXCEPT ![r] =
           IF CsrfOfSession(r) THEN [@ EXCEPT !.step = "admitted"] ELSE Idle]
    /\ UNCHANGED <<credentials, grants, gone, active>>

Revoked(c) ==
    /\ credentials' = [credentials EXCEPT ![c].revoked = TRUE]
    /\ gone' = gone \cup {c}

(* logout: the session is authenticated once more before it is revoked. *)
LogOut(r) ==
    LET c == requests[r].cred IN
    /\ requests[r].step = "admitted"
    /\ IF Usable(c) THEN Revoked(c) ELSE UNCHANGED <<credentials, gone>>
    /\ requests' = [requests EXCEPT ![r] = Idle]
    /\ UNCHANGED <<grants, active>>

Issuable(collections) == collections # {} /\ collections \subseteq active

(* McpTokenOperator.issue accepts active collections only ... *)
IssueToken(c, scopes, collections) ==
    /\ credentials[c].kind = "absent"
    /\ Issuable(collections)
    /\ credentials' = [credentials EXCEPT ![c] =
           [Absent EXCEPT !.kind = "token", !.scopes = scopes, !.collections = collections]]
    /\ UNCHANGED <<grants, gone, active, requests>>

(* ... and revoke is final. *)
RevokeToken(c) ==
    /\ credentials[c].kind = "token"
    /\ ~credentials[c].revoked
    /\ Revoked(c)
    /\ UNCHANGED <<grants, active, requests>>

Expire(c) ==
    /\ credentials[c].kind # "absent"
    /\ ~credentials[c].expired
    /\ credentials' = [credentials EXCEPT ![c].expired = TRUE]
    /\ UNCHANGED <<grants, gone, active, requests>>

AccessNext ==
    \/ \E kind \in Sessions : OpenSession(kind)
    \/ \E r \in Request :
        \/ \E c \in Credential : Greet(r, c) \/ Read(r, c)
        \/ \E c \in Credential, csrf \in 1 .. Len(grants) : Write(r, c, csrf)
        \/ Renew(r) \/ CheckCsrf(r) \/ LogOut(r)
    \/ \E c \in Credential :
        \/ \E offer \in Offers : IssueToken(c, offer.scopes, offer.collections)
        \/ RevokeToken(c) \/ Expire(c)

-----------------------------------------------------------------------------
(* Logging out and revoking a token are final: no request that begins      *)
(* afterwards gets past the door, not even when the renewal of the session *)
(* was already under way.                                                  *)
NoEntryAfterRevocation ==
    \A r \in Request : requests[r].step # "idle" => ~requests[r].late

(* A request that may write carries a CSRF token issued for the very       *)
(* session it acts under, whatever other tabs renewed or signed in.        *)
CsrfBindsSession ==
    \A r \in Request :
        requests[r].step = "admitted" => grants[requests[r].csrf] = requests[r].cred
=============================================================================
