------------------------ MODULE KnowledgeCatalog_proofs ------------------------
(***************************************************************************)
(* Sessions, tokens and what they read, for any number of credentials,     *)
(* requests, documents, collections and citations.                         *)
(*                                                                         *)
(* The invariant of Access says that a row once used is never used again   *)
(* for another credential: a revoked one stays revoked, and the CSRF token *)
(* of a row is one that was issued for it.  That of the catalog says that  *)
(* what a request has resolved is permitted to its credential, which does  *)
(* not change while the request is served.                                 *)
(***************************************************************************)
EXTENDS KnowledgeCatalog, TLAPS

Kind == {"absent", "token"} \cup Sessions
AnyScopes == {{}} \cup {offer.scopes : offer \in Offers}
CredentialRow ==
    [kind : Kind, csrf : Nat, revoked : BOOLEAN, expired : BOOLEAN,
     scopes : AnyScopes, collections : SUBSET Collections]
RequestRow ==
    [step : {"idle", "renewing", "checking", "admitted", "reading"},
     cred : Credential \cup {NoCredential}, csrf : Nat, late : BOOLEAN]

AccessTypes ==
    /\ credentials \in [Credential -> CredentialRow]
    /\ grants \in Seq(Credential) /\ Len(grants) <= MaxGrants
    /\ active \subseteq Collections
    /\ requests \in [Request -> RequestRow]

(* What a row is: its CSRF token was issued for it. *)
RowsSound ==
    \A c \in Credential :
        /\ credentials[c].kind = "absent" => credentials[c] = Absent
        /\ credentials[c].kind \in Sessions <=> credentials[c].csrf # NoCsrf
        /\ credentials[c].kind = "token" <=> credentials[c].collections # {}
        /\ credentials[c].csrf # NoCsrf =>
              /\ credentials[c].csrf \in 1 .. Len(grants)
              /\ grants[credentials[c].csrf] = c

(* What was revoked stays so. *)
RevokedForGood == \A c \in gone : c \in Credential /\ credentials[c].revoked

(* What a request acts under, and with which CSRF token. *)
RequestsSound ==
    \A r \in Request :
        /\ ~requests[r].late
        /\ requests[r].step # "idle" =>
              /\ requests[r].cred \in Credential
              /\ credentials[requests[r].cred].kind # "absent"
        /\ requests[r].step \in {"renewing", "checking", "admitted"} =>
              credentials[requests[r].cred].kind \in Sessions
        /\ requests[r].step \in {"checking", "admitted"} =>
              requests[r].csrf \in 1 .. Len(grants)
        /\ requests[r].step = "admitted" => grants[requests[r].csrf] = requests[r].cred

AccessInv == AccessTypes /\ RowsSound /\ RevokedForGood /\ RequestsSound

(* A row that is given a token keeps the collections and kind it has. *)
SameRights(c) ==
    /\ credentials'[c].kind = credentials[c].kind
    /\ credentials'[c].collections = credentials[c].collections

-----------------------------------------------------------------------------
(* The steps that write one row, and those that only move a request. *)
LEMMA AbsentRow == Absent \in CredentialRow
BY DEF Absent, CredentialRow, Kind, AnyScopes, NoCsrf

LEMMA IdleRequest == Idle \in RequestRow
BY DEF Idle, RequestRow, NoCsrf

LEMMA PresentKeeps ==
    ASSUME AccessInv, NEW r \in Request, NEW c \in Credential, Usable(c),
           NEW step \in {"renewing", "checking", "reading"},
           step # "reading" => credentials[c].kind \in Sessions,
           NEW csrf \in Nat, step = "checking" => csrf \in 1 .. Len(grants),
           Present(r, c, step, csrf), UNCHANGED <<credentials, grants, gone, active>>
    PROVE  AccessInv'
<1>1. (c \in gone) = FALSE
    BY DEF AccessInv, RevokedForGood, Usable
<1>2. requests' = [requests EXCEPT ![r] =
          [step |-> step, cred |-> c, csrf |-> csrf, late |-> FALSE]]
    BY <1>1 DEF Present
<1>3. AccessTypes'
    BY <1>2 DEF AccessInv, AccessTypes, RequestRow
<1>4. RequestsSound'
    BY <1>2 DEF AccessInv, AccessTypes, RequestsSound, Usable
<1>5. RowsSound' /\ RevokedForGood'
    BY DEF AccessInv, RowsSound, RevokedForGood
<1> QED BY <1>3, <1>4, <1>5 DEF AccessInv

LEMMA EndKeeps ==
    ASSUME AccessInv, NEW r \in Request,
           requests' = requests \/ requests' = [requests EXCEPT ![r] = Idle],
           UNCHANGED <<credentials, grants, gone>>, active' \subseteq active
    PROVE  AccessInv'
<1>1. AccessTypes'
    BY IdleRequest DEF AccessInv, AccessTypes
<1>2. RequestsSound'
    BY DEF AccessInv, AccessTypes, RequestsSound, Idle
<1>3. RowsSound' /\ RevokedForGood'
    BY DEF AccessInv, RowsSound, RevokedForGood
<1> QED BY <1>1, <1>2, <1>3 DEF AccessInv

(* A row is written that keeps its kind, and perhaps a CSRF token issued. *)
LEMMA RowWriteKeeps ==
    ASSUME AccessInv, NEW c \in Credential, NEW row \in CredentialRow,
           credentials' = [credentials EXCEPT ![c] = row],
           \/ credentials[c].kind = "absent" /\ row.kind # "absent"
           \/ row.kind = credentials[c].kind /\ row.kind # "absent",
           row.kind \in Sessions <=> row.csrf # NoCsrf,
           row.kind = "token" <=> row.collections # {},
           \/ row.csrf \in {NoCsrf, credentials[c].csrf} /\ grants' = grants
           \/ Granted(c) /\ row.csrf = Len(grants'),
           credentials[c].revoked => row.revoked,
           gone' = gone \/ (gone' = gone \cup {c} /\ row.revoked),
           active' = active,
           requests' = requests \/ \E r \in Request : requests' = [requests EXCEPT ![r] = Idle]
    PROVE  AccessInv'
<1>1. /\ grants' \in Seq(Credential) /\ Len(grants') <= MaxGrants
      /\ Len(grants) <= Len(grants')
      /\ \A i \in 1 .. Len(grants) : grants'[i] = grants[i]
      /\ row.csrf # NoCsrf => row.csrf \in 1 .. Len(grants') /\ grants'[row.csrf] = c
  <2>1. CASE grants' = grants
      BY <2>1 DEF AccessInv, AccessTypes, RowsSound, Granted
  <2>2. CASE Granted(c) /\ row.csrf = Len(grants')
      BY <2>2, GrantsAssumption DEF AccessInv, AccessTypes, Granted
  <2> QED BY <2>1, <2>2
<1>2. AccessTypes'
    BY <1>1, IdleRequest DEF AccessInv, AccessTypes
<1>3. RowsSound'
  <2> SUFFICES ASSUME NEW d \in Credential
               PROVE  /\ credentials'[d].kind = "absent" => credentials'[d] = Absent
                      /\ credentials'[d].kind \in Sessions <=> credentials'[d].csrf # NoCsrf
                      /\ credentials'[d].kind = "token" <=> credentials'[d].collections # {}
                      /\ credentials'[d].csrf # NoCsrf =>
                            /\ credentials'[d].csrf \in 1 .. Len(grants')
                            /\ grants'[credentials'[d].csrf] = d
      BY DEF RowsSound
  <2>1. CASE d = c
      BY <1>1, <2>1 DEF AccessInv, AccessTypes
  <2>2. CASE d # c
    <3>1. credentials'[d] = credentials[d]
        BY <2>2 DEF AccessInv, AccessTypes
    <3>2. Len(grants) \in Nat /\ Len(grants') \in Nat
        BY <1>1 DEF AccessInv, AccessTypes
    <3> QED BY <1>1, <3>1, <3>2 DEF AccessInv, RowsSound
  <2> QED BY <2>1, <2>2
<1>4. RevokedForGood'
    BY DEF AccessInv, AccessTypes, RevokedForGood
<1>5. RequestsSound'
  <2>1. \A d \in Credential : credentials[d].kind # "absent" =>
            credentials'[d].kind = credentials[d].kind
      BY DEF AccessInv, AccessTypes
  <2>2. Len(grants) \in Nat /\ Len(grants') \in Nat
      BY <1>1 DEF AccessInv, AccessTypes
  <2>3. \A r \in Request : requests'[r] = requests[r] \/ requests'[r] = Idle
      BY DEF AccessInv, AccessTypes
  <2> SUFFICES ASSUME NEW r \in Request, requests'[r] = requests[r]
               PROVE  /\ ~requests'[r].late
                      /\ requests'[r].step # "idle" =>
                            /\ requests'[r].cred \in Credential
                            /\ credentials'[requests'[r].cred].kind # "absent"
                      /\ requests'[r].step \in {"renewing", "checking", "admitted"} =>
                            credentials'[requests'[r].cred].kind \in Sessions
                      /\ requests'[r].step \in {"checking", "admitted"} =>
                            requests'[r].csrf \in 1 .. Len(grants')
                      /\ requests'[r].step = "admitted" =>
                            grants'[requests'[r].csrf] = requests'[r].cred
      BY <2>3 DEF RequestsSound, Idle
  <2>4. requests[r].step \in {"renewing", "checking", "admitted"} => requests[r].step # "idle"
      OBVIOUS
  <2> QED BY <1>1, <2>1, <2>2, <2>4 DEF AccessInv, RequestsSound
<1> QED BY <1>2, <1>3, <1>4, <1>5 DEF AccessInv

-----------------------------------------------------------------------------
(* One lemma per way into the invariant, then every step of Access. *)
LEMMA OpenSessionKeeps ==
    ASSUME AccessInv, NEW kind \in Sessions, OpenSession(kind)
    PROVE  AccessInv'
<1>1. PICK c \in Credential :
          /\ credentials[c].kind = "absent"
          /\ Granted(c)
          /\ credentials' = [credentials EXCEPT ![c] =
                 [Absent EXCEPT !.kind = kind, !.csrf = Len(grants')]]
          /\ UNCHANGED <<gone, active, requests>>
    BY DEF OpenSession
<1> DEFINE row == [Absent EXCEPT !.kind = kind, !.csrf = Len(grants')]
<1>2. Len(grants') \in Nat \ {0}
    BY <1>1 DEF Granted, AccessInv, AccessTypes
<1>3. row \in CredentialRow /\ row.kind = kind /\ row.csrf = Len(grants')
      /\ row.collections = {}
    BY <1>2, AbsentRow DEF Absent, CredentialRow, Kind, Sessions
<1>4. ~credentials[c].revoked
    BY <1>1 DEF AccessInv, RowsSound, Absent
<1>5. kind # "absent" /\ kind # "token" /\ row.csrf # NoCsrf
    BY <1>2, <1>3 DEF Sessions, NoCsrf
<1> HIDE DEF row
<1>6. credentials' = [credentials EXCEPT ![c] = row]
    BY <1>1 DEF row
<1> QED BY <1>1, <1>3, <1>4, <1>5, <1>6, RowWriteKeeps

LEMMA RenewKeeps ==
    ASSUME AccessInv, NEW r \in Request, Renew(r)
    PROVE  AccessInv'
<1> DEFINE c == requests[r].cred
           row == [credentials[c] EXCEPT !.csrf = Len(grants'), !.expired = FALSE]
<1>1. c \in Credential /\ credentials[c] \in CredentialRow /\ credentials[c].kind \in Sessions
      /\ credentials[c].kind # "absent"
    BY DEF AccessInv, AccessTypes, RequestsSound, Renew, Sessions
<1>2. Granted(c) /\ Len(grants') \in Nat \ {0}
    BY <1>1 DEF Renew, Granted, AccessInv, AccessTypes
<1>3. /\ row \in CredentialRow /\ row.kind = credentials[c].kind /\ row.csrf = Len(grants')
      /\ row.collections = credentials[c].collections /\ row.revoked = credentials[c].revoked
    BY <1>1, <1>2 DEF CredentialRow
<1>4. row.csrf # NoCsrf /\ (row.kind = "token" <=> row.collections # {})
    BY <1>1, <1>2, <1>3 DEF NoCsrf, AccessInv, RowsSound
<1>5. credentials' = [credentials EXCEPT ![c] = row]
    BY <1>1 DEF Renew, AccessInv, AccessTypes
<1>6. UNCHANGED <<gone, active>> /\ requests' = [requests EXCEPT ![r] = Idle]
    BY DEF Renew
<1> HIDE DEF c, row
<1> QED BY <1>1, <1>2, <1>3, <1>4, <1>5, <1>6, RowWriteKeeps

LEMMA CheckCsrfKeeps ==
    ASSUME AccessInv, NEW r \in Request, CheckCsrf(r)
    PROVE  AccessInv'
<1>1. CASE ~CsrfOfSession(r)
    BY <1>1, EndKeeps DEF CheckCsrf
<1>2. CASE CsrfOfSession(r)
  <2>1. /\ requests' = [requests EXCEPT ![r] = [@ EXCEPT !.step = "admitted"]]
        /\ UNCHANGED <<credentials, grants, gone, active>>
        /\ requests[r].step = "checking"
      BY <1>2 DEF CheckCsrf
  <2>2. grants[requests[r].csrf] = requests[r].cred
      BY <1>2, <2>1 DEF CsrfOfSession, AccessInv, RowsSound, RequestsSound, NoCsrf
  <2>3. AccessTypes'
      BY <2>1 DEF AccessInv, AccessTypes, RequestRow
  <2>4. RequestsSound'
      BY <2>1, <2>2 DEF AccessInv, AccessTypes, RequestsSound, RequestRow
  <2> QED BY <2>1, <2>3, <2>4 DEF AccessInv, RowsSound, RevokedForGood
<1> QED BY <1>1, <1>2

LEMMA RevokedKeeps ==
    ASSUME AccessInv, NEW c \in Credential, credentials[c].kind # "absent", Revoked(c),
           UNCHANGED <<grants, active>>,
           requests' = requests \/ \E r \in Request : requests' = [requests EXCEPT ![r] = Idle]
    PROVE  AccessInv'
<1> DEFINE row == [credentials[c] EXCEPT !.revoked = TRUE]
<1>1. credentials[c] \in CredentialRow
    BY DEF AccessInv, AccessTypes
<1>2. /\ row \in CredentialRow /\ row.kind = credentials[c].kind
      /\ row.csrf = credentials[c].csrf /\ row.collections = credentials[c].collections
      /\ row.revoked
    BY <1>1 DEF CredentialRow
<1>3. /\ row.kind \in Sessions <=> row.csrf # NoCsrf
      /\ row.kind = "token" <=> row.collections # {}
    BY <1>2 DEF AccessInv, RowsSound
<1>4. credentials' = [credentials EXCEPT ![c] = row] /\ gone' = gone \cup {c}
    BY <1>1 DEF Revoked, AccessInv, AccessTypes
<1> HIDE DEF row
<1> QED BY <1>2, <1>3, <1>4, RowWriteKeeps

LEMMA ExpireKeeps ==
    ASSUME AccessInv, NEW c \in Credential, Expire(c)
    PROVE  AccessInv'
<1> DEFINE row == [credentials[c] EXCEPT !.expired = TRUE]
<1>1. credentials[c] \in CredentialRow
    BY DEF AccessInv, AccessTypes
<1>2. /\ row \in CredentialRow /\ row.kind = credentials[c].kind
      /\ row.csrf = credentials[c].csrf /\ row.collections = credentials[c].collections
      /\ credentials[c].revoked => row.revoked
    BY <1>1 DEF CredentialRow
<1>3. /\ row.kind \in Sessions <=> row.csrf # NoCsrf
      /\ row.kind = "token" <=> row.collections # {}
    BY <1>2 DEF AccessInv, RowsSound
<1>4. /\ credentials' = [credentials EXCEPT ![c] = row] /\ credentials[c].kind # "absent"
      /\ grants' = grants /\ gone' = gone /\ active' = active /\ requests' = requests
    BY <1>1 DEF Expire, AccessInv, AccessTypes
<1> HIDE DEF row
<1> QED BY <1>2, <1>3, <1>4, RowWriteKeeps

LEMMA IssueTokenKeeps ==
    ASSUME AccessInv, NEW c \in Credential, NEW offer \in Offers,
           IssueToken(c, offer.scopes, offer.collections)
    PROVE  AccessInv'
<1> DEFINE row == [Absent EXCEPT !.kind = "token", !.scopes = offer.scopes,
                                 !.collections = offer.collections]
<1>1. /\ credentials[c].kind = "absent" /\ credentials' = [credentials EXCEPT ![c] = row]
      /\ offer.collections # {} /\ offer.collections \subseteq Collections
      /\ UNCHANGED <<grants, gone, active, requests>>
    BY DEF IssueToken, Issuable, AccessInv, AccessTypes
<1>2. /\ row \in CredentialRow /\ row.kind = "token" /\ row.csrf = NoCsrf
      /\ row.collections = offer.collections
    BY <1>1, AbsentRow DEF Absent, CredentialRow, Kind, AnyScopes
<1>3. ~credentials[c].revoked /\ row.kind \notin Sessions /\ row.kind # "absent"
    BY <1>1, <1>2 DEF AccessInv, RowsSound, Absent, Sessions
<1> HIDE DEF row
<1> QED BY <1>1, <1>2, <1>3, RowWriteKeeps

LEMMA AccessStep ==
    ASSUME AccessInv, AccessNext
    PROVE  AccessInv'
<1>1. ASSUME NEW r \in Request, NEW c \in Credential, Greet(r, c) \/ Read(r, c)
      PROVE  AccessInv'
    BY <1>1, PresentKeeps DEF Greet, Read, NoCsrf
<1>2. ASSUME NEW r \in Request, NEW c \in Credential, NEW csrf \in 1 .. Len(grants),
             Write(r, c, csrf)
      PROVE  AccessInv'
  <2>1. csrf \in Nat
      BY DEF AccessInv, AccessTypes
  <2> QED BY <1>2, <2>1, PresentKeeps DEF Write
<1>3. ASSUME NEW r \in Request, LogOut(r) PROVE AccessInv'
  <2>1. requests[r].cred \in Credential /\ credentials[requests[r].cred].kind # "absent"
      BY <1>3 DEF LogOut, AccessInv, RequestsSound
  <2> QED BY <1>3, <2>1, RevokedKeeps, EndKeeps DEF LogOut
<1>4. ASSUME NEW c \in Credential, RevokeToken(c) PROVE AccessInv'
    BY <1>4, RevokedKeeps DEF RevokeToken
<1> QED
    BY <1>1, <1>2, <1>3, <1>4, OpenSessionKeeps, RenewKeeps, CheckCsrfKeeps, IssueTokenKeeps,
       ExpireKeeps
       DEF AccessNext

-----------------------------------------------------------------------------
(* What a request has resolved or opened is permitted to its credential. *)
WorkRow ==
    [op : Tools \cup {"found", "opened", "cited", "none"}, asked : SUBSET Collections,
     doc : Documents \cup {"none"}, cites : Submitted \cup {<<>>},
     resolved : SUBSET Documents, found : SUBSET Leaves, roots : SUBSET Roots]

CatalogTypes ==
    /\ status \in [Documents -> Status]
    /\ changes \in 0 .. MaxChanges
    /\ work \in [Request -> WorkRow]
    /\ response.roots \subseteq Roots

SoundFor(c, w) ==
    /\ w.op \in {"found", "cited"} => w.resolved \subseteq Permitted(c)
    /\ w.op = "opened" => w.doc \in Permitted(c)

WorkSound ==
    \A r \in Request : work[r].op # "none" =>
        requests[r].step = "reading" /\ SoundFor(requests[r].cred, work[r])

IInv == AccessInv /\ CatalogTypes /\ WorkSound

-----------------------------------------------------------------------------
(* A row that was issued keeps its rights, and a reader its credential. *)
LEMMA RightsKept ==
    ASSUME AccessInv, AccessNext
    PROVE  /\ \A c \in Credential : credentials[c].kind # "absent" => SameRights(c)
           /\ \A r \in Request : requests[r].step = "reading" => requests'[r] = requests[r]
<1> USE DEF AccessInv, AccessTypes, CredentialRow, RequestRow
<1>1. ASSUME NEW kind \in Sessions, OpenSession(kind)
      PROVE  \A c \in Credential : credentials[c].kind # "absent" => SameRights(c)
    BY <1>1 DEF OpenSession, SameRights
<1>2. ASSUME NEW r \in Request, Renew(r)
      PROVE  \A c \in Credential : SameRights(c)
    BY <1>2 DEF Renew, SameRights
<1>3. ASSUME NEW c \in Credential, Revoked(c)
      PROVE  \A d \in Credential : SameRights(d)
    BY <1>3 DEF Revoked, SameRights
<1>4. ASSUME NEW c \in Credential, Expire(c)
      PROVE  \A d \in Credential : SameRights(d)
    BY <1>4 DEF Expire, SameRights
<1>5. ASSUME NEW c \in Credential, NEW offer \in Offers,
             IssueToken(c, offer.scopes, offer.collections)
      PROVE  \A d \in Credential : credentials[d].kind # "absent" => SameRights(d)
    BY <1>5 DEF IssueToken, SameRights
<1>6. ASSUME UNCHANGED credentials
      PROVE  \A d \in Credential : SameRights(d)
    BY <1>6 DEF SameRights
<1> DEFINE Kept == \A c \in Credential : credentials[c].kind # "absent" => SameRights(c)
<1>7. Kept
  <2>1. ASSUME NEW r \in Request, Renew(r) \/ CheckCsrf(r) \/ LogOut(r) PROVE Kept
    <3>1. CASE LogOut(r) /\ Revoked(requests[r].cred)
      <4>1. requests[r].cred \in Credential
          BY <3>1 DEF LogOut, RequestsSound
      <4> QED BY <1>3, <3>1, <4>1
    <3> QED BY <1>2, <1>6, <2>1, <3>1 DEF CheckCsrf, LogOut
  <2>2. ASSUME NEW r \in Request, NEW c \in Credential, Greet(r, c) \/ Read(r, c) PROVE Kept
      BY <1>6, <2>2 DEF Greet, Read
  <2>3. ASSUME NEW r \in Request, NEW c \in Credential, NEW csrf \in 1 .. Len(grants),
               Write(r, c, csrf)
        PROVE  Kept
      BY <1>6, <2>3 DEF Write
  <2>4. ASSUME NEW c \in Credential, RevokeToken(c) PROVE Kept
      BY <1>3, <2>4 DEF RevokeToken
  <2> HIDE DEF Kept
  <2> QED BY <1>1, <1>4, <1>5, <2>1, <2>2, <2>3, <2>4 DEF AccessNext, Kept
<1>8. ASSUME NEW r \in Request, requests[r].step # "reading", NEW row,
             requests' = [requests EXCEPT ![r] = row]
      PROVE  \A q \in Request : requests[q].step = "reading" => requests'[q] = requests[q]
    BY <1>8
<1>9. \A r \in Request : requests[r].step = "reading" => requests'[r] = requests[r]
    BY <1>8
       DEF AccessNext, OpenSession, Greet, Read, Write, Renew, CheckCsrf, LogOut, IssueToken,
           RevokeToken, Expire, Present
<1> QED BY <1>7, <1>9

LEMMA ResolvedIsPermitted ==
    ASSUME NEW ready, NEW permission, NEW scope, Resolve(ready, permission, scope) # Conflict
    PROVE  Resolve(ready, permission, scope) \subseteq ready \cap permission
BY DEF Resolve

LEMMA NoWorkIsWork == NoWork \in WorkRow
BY DEF NoWork, WorkRow

LEMMA ContinueKeeps ==
    ASSUME IInv, NEW r \in Request, requests[r].step = "reading",
           NEW with \in WorkRow, SoundFor(requests[r].cred, with), Continue(r, with)
    PROVE  IInv'
<1>1. AccessInv'
    BY EndKeeps DEF IInv, Continue, accessVars
<1>2. CatalogTypes'
    BY DEF IInv, CatalogTypes, Continue, Nothing
<1>3. WorkSound'
    BY DEF IInv, CatalogTypes, WorkSound, SoundFor, Permitted, Continue, accessVars
<1> QED BY <1>1, <1>2, <1>3 DEF IInv

LEMMA ReplyKeeps ==
    ASSUME IInv, NEW r \in Request, NEW roots \in SUBSET Roots, NEW valid,
           Reply(r, roots, valid)
    PROVE  IInv'
<1>1. AccessInv'
    BY EndKeeps DEF IInv, Reply
<1>2. CatalogTypes'
    BY NoWorkIsWork DEF IInv, CatalogTypes, Reply
<1>3. WorkSound'
  <2>1. work'[r].op = "none"
      BY DEF IInv, CatalogTypes, Reply, NoWork
  <2>2. \A q \in Request \ {r} : work'[q] = work[q] /\ requests'[q] = requests[q]
      BY DEF IInv, AccessInv, AccessTypes, CatalogTypes, Reply
  <2>3. credentials' = credentials
      BY DEF Reply
  <2> QED BY <2>1, <2>2, <2>3 DEF IInv, WorkSound, SoundFor, Permitted
<1> QED BY <1>1, <1>2, <1>3 DEF IInv

-----------------------------------------------------------------------------
(* Every step of a request that is served keeps the invariant. *)
LEMMA AskKeeps ==
    ASSUME IInv, NEW r \in Request, NEW tool, NEW asked, NEW with \in WorkRow,
           with.op \in Tools, Ask(r, tool, asked, with)
    PROVE  IInv'
<1>1. SoundFor(requests[r].cred, with)
    BY DEF SoundFor, Tools, ToolScope
<1>2. CASE Continue(r, with)
    BY <1>1, <1>2, ContinueKeeps DEF Ask
<1>3. CASE Refuse(r)
    BY <1>3, ReplyKeeps DEF Refuse
<1> QED BY <1>2, <1>3 DEF Ask

LEMMA SearchKeeps ==
    ASSUME IInv, NEW r \in Request, ResolveSearch(r) \/ LoadFoundLeaves(r) \/ LoadFoundRoots(r)
    PROVE  IInv'
<1>1. /\ work[r] \in WorkRow /\ work[r].op \in {"search", "found"}
      /\ requests[r].step = "reading"
      /\ work[r].op = "found" => work[r].resolved \subseteq Permitted(requests[r].cred)
    BY DEF IInv, CatalogTypes, WorkSound, SoundFor, ResolveSearch, LoadFoundLeaves, LoadFoundRoots
<1>2. CASE Refuse(r)
    BY <1>2, ReplyKeeps DEF Refuse
<1>3. CASE ResolveSearch(r) /\ ~Refuse(r)
  <2> DEFINE resolved == Resolve(Ready, Permitted(requests[r].cred), ScopeOf(work[r].asked))
             Going(found) ==
                 Continue(r, [work[r] EXCEPT !.op = "found", !.resolved = resolved, !.found = found])
             candidates == {leaf \in Leaves : LeafDocument(leaf) \in resolved}
  <2>1. IF resolved \in {Conflict, {}} THEN Refuse(r)
        ELSE \E found \in SUBSET candidates : Going(found)
      BY <1>3 DEF ResolveSearch
  <2> HIDE DEF Going
  <2>2. resolved \subseteq Ready \cap Permitted(requests[r].cred)
    <3>1. resolved # Conflict
      <4> HIDE DEF resolved, candidates
      <4> QED BY <1>3, <2>1
    <3> QED BY <3>1, ResolvedIsPermitted
  <2> HIDE DEF resolved
  <2>3. PICK found \in SUBSET candidates : Going(found)
    <3> HIDE DEF candidates
    <3> QED BY <1>3, <2>1
  <2> DEFINE with == [work[r] EXCEPT !.op = "found", !.resolved = resolved, !.found = found]
  <2>4. with \in WorkRow /\ with.op = "found" /\ with.resolved = resolved
      BY <1>1, <2>2 DEF WorkRow, Ready
  <2>5. SoundFor(requests[r].cred, with)
      BY <2>2, <2>4 DEF SoundFor
  <2>6. Continue(r, with)
      BY <2>3 DEF Going
  <2> HIDE DEF with
  <2> QED BY <1>1, <2>4, <2>5, <2>6, ContinueKeeps
<1>4. CASE LoadFoundLeaves(r) /\ ~Refuse(r)
  <2> DEFINE leaves == LoadedLeaves(Ready, work[r].resolved, work[r].found)
             with == [work[r] EXCEPT !.roots = {RootOf[leaf] : leaf \in leaves}]
  <2>1. Continue(r, with) /\ work[r].op = "found"
      BY <1>4 DEF LoadFoundLeaves
  <2>2. {RootOf[leaf] : leaf \in leaves} \subseteq Roots
      BY <1>1, RootsAssumption DEF LoadedLeaves, WorkRow
  <2>3. /\ with \in WorkRow /\ with.op = work[r].op /\ with.resolved = work[r].resolved
    <3> DEFINE roots == {RootOf[leaf] : leaf \in leaves}
    <3> HIDE DEF roots
    <3>1. /\ [work[r] EXCEPT !.roots = roots] \in WorkRow
          /\ [work[r] EXCEPT !.roots = roots].op = work[r].op
          /\ [work[r] EXCEPT !.roots = roots].resolved = work[r].resolved
        BY <1>1, <2>2 DEF WorkRow, roots
    <3> QED BY <3>1 DEF roots
  <2>4. SoundFor(requests[r].cred, with)
      BY <1>1, <2>1, <2>3 DEF SoundFor
  <2> HIDE DEF with
  <2> QED BY <1>1, <2>1, <2>3, <2>4, ContinueKeeps
<1>5. CASE LoadFoundRoots(r)
  <2>1. LoadedRoots(Ready, work[r].resolved, work[r].roots) \subseteq Roots
      BY <1>1 DEF LoadedRoots, WorkRow
  <2> QED BY <1>5, <2>1, ReplyKeeps DEF LoadFoundRoots
<1> QED BY <1>2, <1>3, <1>4, <1>5

LEMMA InspectKeeps ==
    ASSUME IInv, NEW r \in Request,
           \/ AuthorizeDocument(r) \/ InspectDocument(r)
           \/ \E root \in Roots : InspectRoot(r, root)
    PROVE  IInv'
<1>1. work[r] \in WorkRow
      /\ (work[r].op \in {"sections", "opened"} => requests[r].step = "reading")
    BY DEF IInv, CatalogTypes, WorkSound
<1>2. CASE Refuse(r)
    BY <1>2, ReplyKeeps DEF Refuse
<1>3. CASE AuthorizeDocument(r) /\ ~Refuse(r)
  <2> DEFINE with == [work[r] EXCEPT !.op = "opened"]
  <2>1. /\ Continue(r, with) /\ work[r].op = "sections"
        /\ work[r].doc \in Permitted(requests[r].cred)
      BY <1>3 DEF AuthorizeDocument
  <2>2. with \in WorkRow /\ SoundFor(requests[r].cred, with)
      BY <1>1, <2>1 DEF WorkRow, SoundFor
  <2> QED BY <1>1, <2>1, <2>2, ContinueKeeps
<1>4. CASE InspectDocument(r)
    BY <1>2, <1>4, ReplyKeeps DEF InspectDocument
<1>5. CASE \E root \in Roots : InspectRoot(r, root)
    BY <1>2, <1>5, ReplyKeeps DEF InspectRoot
<1> QED BY <1>2, <1>3, <1>4, <1>5

LEMMA VerifyKeeps ==
    ASSUME IInv, NEW r \in Request, LoadCitedRoots(r) \/ Judge(r)
    PROVE  IInv'
<1>1. /\ work[r] \in WorkRow /\ work[r].op \in {"verify", "cited"}
      /\ requests[r].step = "reading"
      /\ {c.root : c \in ToSet(work[r].cites)} \subseteq Roots
  <2>1. work[r] \in WorkRow /\ work[r].op \in {"verify", "cited"} /\ requests[r].step = "reading"
      BY DEF IInv, CatalogTypes, WorkSound, LoadCitedRoots, Judge
  <2>2. work[r].cites \in Submitted \/ work[r].cites = <<>>
      BY <2>1 DEF WorkRow
  <2>3. \A i \in DOMAIN work[r].cites : work[r].cites[i].root \in Roots
      BY <2>2, SubmittedAssumption
  <2> QED BY <2>1, <2>3 DEF ToSet
<1>2. CASE LoadCitedRoots(r)
  <2> DEFINE resolved == Ready \cap Permitted(requests[r].cred)
             roots == LoadedRoots(Ready, resolved, {c.root : c \in ToSet(work[r].cites)})
             with == [work[r] EXCEPT !.op = "cited", !.resolved = resolved, !.roots = roots]
  <2>1. Continue(r, with)
      BY <1>2 DEF LoadCitedRoots
  <2>2. roots \subseteq Roots /\ resolved \subseteq Documents
        /\ resolved \subseteq Permitted(requests[r].cred)
      BY <1>1 DEF LoadedRoots, Ready
  <2> HIDE DEF resolved, roots
  <2>3. with \in WorkRow /\ with.op = "cited" /\ with.resolved = resolved
      BY <1>1, <2>2 DEF WorkRow
  <2>4. SoundFor(requests[r].cred, with)
      BY <2>2, <2>3 DEF SoundFor
  <2> HIDE DEF with
  <2> QED BY <1>1, <2>1, <2>3, <2>4, ContinueKeeps
<1>3. CASE Judge(r)
    BY <1>1, <1>3, ReplyKeeps DEF Judge
<1> QED BY <1>2, <1>3

LEMMA ServeKeeps ==
    ASSUME IInv, NEW r \in Request, Serve(r)
    PROVE  IInv'
<1>1. ASSUME NEW asked \in SUBSET Collections, AskSearch(r, asked) PROVE IInv'
  <2> DEFINE with == [NoWork EXCEPT !.op = "search", !.asked = asked]
  <2>1. with \in WorkRow /\ with.op \in Tools
      BY DEF NoWork, WorkRow, Tools, ToolScope
  <2> HIDE DEF with
  <2> QED BY <1>1, <2>1, AskKeeps DEF AskSearch, with
<1>2. ASSUME NEW d \in Documents, AskSections(r, d) PROVE IInv'
  <2> DEFINE with == [NoWork EXCEPT !.op = "sections", !.doc = d]
  <2>1. with \in WorkRow /\ with.op \in Tools
      BY DEF NoWork, WorkRow, Tools, ToolScope
  <2> HIDE DEF with
  <2> QED BY <1>2, <2>1, AskKeeps DEF AskSections, with
<1>3. ASSUME NEW cites \in Submitted, AskVerify(r, cites) PROVE IInv'
  <2> DEFINE with == [NoWork EXCEPT !.op = "verify", !.cites = cites]
  <2>1. with \in WorkRow /\ with.op \in Tools
      BY DEF NoWork, WorkRow, Tools, ToolScope
  <2> HIDE DEF with
  <2> QED BY <1>3, <2>1, AskKeeps DEF AskVerify, with
<1> QED BY <1>1, <1>2, <1>3, SearchKeeps, InspectKeeps, VerifyKeeps DEF Serve

LEMMA StepKeepsInvariant ==
    ASSUME IInv, [Next]_vars
    PROVE  IInv'
<1>1. ASSUME NEW r \in Request, Serve(r) PROVE IInv'
    BY <1>1, ServeKeeps
<1>2. CASE AccessNext /\ response' = Nothing /\ UNCHANGED <<status, changes, work>>
  <2>1. AccessInv'
      BY <1>2, AccessStep DEF IInv
  <2>2. CatalogTypes'
      BY <1>2 DEF IInv, CatalogTypes, Nothing
  <2>3. WorkSound'
    <3> SUFFICES ASSUME NEW r \in Request, work[r].op # "none"
                 PROVE  requests'[r].step = "reading"
                        /\ SoundFor(requests[r].cred, work[r])'
        BY <1>2 DEF WorkSound
    <3>1. requests[r].step = "reading" /\ SoundFor(requests[r].cred, work[r])
        BY DEF IInv, WorkSound
    <3>2. requests'[r] = requests[r] /\ SameRights(requests[r].cred)
        BY <1>2, <3>1, RightsKept DEF IInv, AccessInv, RequestsSound
    <3> QED BY <1>2, <3>1, <3>2 DEF SoundFor, Permitted, SameRights
  <2> QED BY <2>1, <2>2, <2>3 DEF IInv
<1>3. ASSUME NEW d \in Documents, NEW new \in Status, ChangeDocument(d, new) PROVE IInv'
  <2>1. AccessInv'
      BY <1>3 DEF ChangeDocument, accessVars, IInv, AccessInv, AccessTypes, RowsSound,
                  RevokedForGood, RequestsSound
  <2>2. CatalogTypes'
      BY <1>3, ChangesAssumption DEF ChangeDocument, IInv, CatalogTypes, Nothing
  <2>3. WorkSound'
      BY <1>3 DEF ChangeDocument, accessVars, IInv, WorkSound, SoundFor, Permitted
  <2> QED BY <2>1, <2>2, <2>3 DEF IInv
<1>4. ASSUME NEW c \in Collections, CloseCollection(c) PROVE IInv'
  <2>1. AccessInv'
      BY <1>4 DEF CloseCollection, IInv, AccessInv, AccessTypes, RowsSound, RevokedForGood,
                  RequestsSound
  <2>2. CatalogTypes'
      BY <1>4, ChangesAssumption DEF CloseCollection, IInv, CatalogTypes, Nothing
  <2>3. WorkSound'
      BY <1>4 DEF CloseCollection, IInv, WorkSound, SoundFor, Permitted
  <2> QED BY <2>1, <2>2, <2>3 DEF IInv
<1>5. CASE UNCHANGED vars
    BY <1>5 DEF vars, accessVars, IInv, AccessInv, AccessTypes, RowsSound, RevokedForGood,
                RequestsSound, CatalogTypes, WorkSound, SoundFor, Permitted
<1> QED BY <1>1, <1>2, <1>3, <1>4, <1>5 DEF Next

LEMMA InitIsInvariant ==
    ASSUME Init
    PROVE  IInv
<1>1. AccessInv
    BY AbsentRow, IdleRequest, GrantsAssumption
       DEF Init, AccessInit, AccessInv, AccessTypes, RowsSound, RevokedForGood, RequestsSound,
           Absent, Idle, Sessions, NoCsrf
<1>2. CatalogTypes /\ WorkSound
    BY NoWorkIsWork, ChangesAssumption
       DEF Init, CatalogTypes, WorkSound, Status, Nothing, NoWork
<1> QED BY <1>1, <1>2 DEF IInv

-----------------------------------------------------------------------------
(* Every row, request and piece of work is sound in every reachable state. *)
THEOREM CatalogInductive == Spec => []IInv
<1>1. Init => IInv
    BY InitIsInvariant
<1>2. IInv /\ [Next]_vars => IInv'
    BY StepKeepsInvariant
<1> QED BY <1>1, <1>2, PTL DEF Spec

(* Credentials, requests and the work on them keep their types. *)
THEOREM CatalogTyped == Spec => []TypeOK
<1>1. IInv => TypeOK
  <2> SUFFICES ASSUME IInv PROVE TypeOK
      OBVIOUS
  <2>1. AccessTypeOK
    <3>1. \A c \in Credential :
              /\ credentials[c].kind \in {"absent", "token"} \cup Sessions
              /\ credentials[c].csrf \in 0 .. Len(grants)
              /\ credentials[c].kind \in Sessions <=> credentials[c].csrf # NoCsrf
              /\ credentials[c].kind = "token" <=> credentials[c].collections # {}
        BY DEF IInv, AccessInv, AccessTypes, RowsSound, CredentialRow, Kind, NoCsrf
    <3> QED BY <3>1 DEF AccessTypeOK, IInv, AccessInv, AccessTypes, RequestRow
  <2>2. \A r \in Request :
            /\ work[r].op \in Tools \cup {"found", "opened", "cited", "none"}
            /\ work[r].op # "none" => requests[r].step = "reading"
            /\ work[r].resolved \subseteq Documents
            /\ work[r].found \subseteq Leaves /\ work[r].roots \subseteq Roots
      BY DEF IInv, CatalogTypes, WorkSound, WorkRow
  <2> QED BY <2>1, <2>2 DEF TypeOK, IInv, CatalogTypes
<1> QED BY <1>1, CatalogInductive, PTL

(* No request that begins after a logout or the revocation of its token    *)
(* gets in, whatever renewals were under way.                              *)
THEOREM RevocationFinal == Spec => []NoEntryAfterRevocation
<1>1. IInv => NoEntryAfterRevocation
    BY DEF IInv, AccessInv, RequestsSound, NoEntryAfterRevocation
<1> QED BY <1>1, CatalogInductive, PTL

(* A request that may write carries a CSRF token of its own session. *)
THEOREM CsrfBound == Spec => []CsrfBindsSession
<1>1. IInv => CsrfBindsSession
    BY DEF IInv, AccessInv, RequestsSound, CsrfBindsSession
<1> QED BY <1>1, CatalogInductive, PTL

-----------------------------------------------------------------------------
(* What a reply tells, whichever request is answered. *)
ServedIsPermitted ==
    response'.op \in {"found", "opened"} =>
        \A root \in response'.roots :
            /\ credentials[response'.to].kind = "token" =>
                  CollectionOf[DocumentOf[root]] \in credentials[response'.to].collections
            /\ response'.op = "found" => DocumentOf[root] \in Ready

ConfirmedIsReady ==
    response'.valid =>
        \A root \in response'.roots : DocumentOf[root] \in Ready \cap Permitted(response'.to)

LEMMA PermittedIsOfCollection ==
    ASSUME NEW c, NEW d \in Permitted(c), credentials[c].kind = "token"
    PROVE  CollectionOf[d] \in credentials[c].collections
BY DEF Permitted

LEMMA QuietIsFine ==
    ASSUME response' = Nothing \/ \E r \in Request : Refuse(r)
    PROVE  ServedIsPermitted /\ ConfirmedIsReady
<1>1. CASE response' = Nothing
    BY <1>1 DEF ServedIsPermitted, ConfirmedIsReady, Nothing
<1>2. CASE \E r \in Request : Refuse(r)
  <2>1. response'.roots = {} /\ response'.valid = FALSE
      BY <1>2 DEF Refuse, Reply
  <2> QED BY <2>1 DEF ServedIsPermitted, ConfirmedIsReady
<1> QED BY <1>1, <1>2

LEMMA FoundIsPermitted ==
    ASSUME IInv, NEW r \in Request, LoadFoundRoots(r)
    PROVE  ServedIsPermitted /\ ConfirmedIsReady
<1>1. /\ response'.to = requests[r].cred /\ response'.valid = FALSE
      /\ response'.roots = LoadedRoots(Ready, work[r].resolved, work[r].roots)
    BY DEF LoadFoundRoots, Reply
<1>2. work[r].resolved \subseteq Permitted(requests[r].cred)
    BY DEF LoadFoundRoots, IInv, WorkSound, SoundFor
<1>3. \A root \in response'.roots :
          DocumentOf[root] \in Ready /\ DocumentOf[root] \in Permitted(requests[r].cred)
    BY <1>1, <1>2 DEF LoadedRoots
<1> QED BY <1>1, <1>3, PermittedIsOfCollection DEF ServedIsPermitted, ConfirmedIsReady

LEMMA OpenedIsPermitted ==
    ASSUME IInv, NEW r \in Request,
           InspectDocument(r) \/ \E root \in Roots : InspectRoot(r, root)
    PROVE  ServedIsPermitted /\ ConfirmedIsReady
<1>1. CASE Refuse(r)
    BY <1>1, QuietIsFine
<1>2. CASE ~Refuse(r)
  <2>1. /\ response'.to = requests[r].cred /\ response'.op = "opened"
        /\ response'.valid = FALSE
        /\ \A root \in response'.roots : DocumentOf[root] = work[r].doc
    <3>1. CASE InspectDocument(r)
        BY <1>2, <3>1 DEF InspectDocument, Reply
    <3>2. ASSUME NEW root \in Roots, InspectRoot(r, root)
          PROVE  /\ response'.to = requests[r].cred /\ response'.op = "opened"
                 /\ response'.valid = FALSE
                 /\ \A other \in response'.roots : DocumentOf[other] = work[r].doc
        BY <1>2, <3>2 DEF InspectRoot, Reply
    <3> QED BY <3>1, <3>2
  <2>2. work[r].doc \in Permitted(requests[r].cred)
      BY DEF InspectDocument, InspectRoot, IInv, WorkSound, SoundFor
  <2> QED BY <2>1, <2>2, PermittedIsOfCollection DEF ServedIsPermitted, ConfirmedIsReady
<1> QED BY <1>1, <1>2

LEMMA JudgedIsServed ==
    ASSUME IInv, NEW r \in Request, Judge(r)
    PROVE  ServedIsPermitted /\ ConfirmedIsReady
<1> DEFINE cites == work[r].cites
           leaves == LoadedLeaves(Ready, work[r].resolved, UNION {c.leaves : c \in ToSet(cites)})
<1>1. /\ response'.to = requests[r].cred /\ response'.op = "cited"
      /\ response'.roots = {c.root : c \in ToSet(cites)}
      /\ response'.valid => \A i \in DOMAIN cites : Holds(cites[i], work[r].roots, leaves)
    BY DEF Judge, Reply
<1>2. work[r].resolved \subseteq Permitted(requests[r].cred)
    BY DEF Judge, IInv, WorkSound, SoundFor
<1>3. \A leaf \in leaves :
          LeafDocument(leaf) \in Ready /\ LeafDocument(leaf) \in Permitted(requests[r].cred)
    BY <1>2 DEF LoadedLeaves
<1> HIDE DEF leaves
<1>4. ASSUME response'.valid, NEW i \in DOMAIN cites
      PROVE  DocumentOf[cites[i].root] \in Ready \cap Permitted(requests[r].cred)
  <2>1. Holds(cites[i], work[r].roots, leaves)
      BY <1>1, <1>4
  <2>2. PICK leaf \in cites[i].leaves : leaf \in leaves /\ RootOf[leaf] = cites[i].root
      BY <2>1 DEF Holds
  <2> QED BY <1>3, <2>2 DEF LeafDocument
<1>5. response'.valid => \A root \in response'.roots :
          DocumentOf[root] \in Ready \cap Permitted(requests[r].cred)
    BY <1>1, <1>4 DEF ToSet
<1> QED BY <1>1, <1>5 DEF ServedIsPermitted, ConfirmedIsReady

LEMMA RepliesAreSound ==
    ASSUME IInv, Next
    PROVE  ServedIsPermitted /\ ConfirmedIsReady
<1>1. ASSUME NEW r \in Request, Serve(r) PROVE ServedIsPermitted /\ ConfirmedIsReady
  <2>1. CASE LoadFoundRoots(r) \/ InspectDocument(r) \/ Judge(r)
             \/ \E root \in Roots : InspectRoot(r, root)
      BY <2>1, FoundIsPermitted, OpenedIsPermitted, JudgedIsServed
  <2>2. ASSUME NEW tool, NEW asked, NEW with, Ask(r, tool, asked, with)
        PROVE  response' = Nothing \/ Refuse(r)
      BY <2>2 DEF Ask, Continue
  <2>3. CASE ResolveSearch(r) \/ LoadFoundLeaves(r) \/ AuthorizeDocument(r)
             \/ LoadCitedRoots(r)
    <3>1. response' = Nothing \/ Refuse(r)
        BY <2>3 DEF ResolveSearch, LoadFoundLeaves, AuthorizeDocument, LoadCitedRoots, Continue
    <3> QED BY <3>1, QuietIsFine
  <2>4. CASE \/ \E asked \in SUBSET Collections : AskSearch(r, asked)
             \/ \E d \in Documents : AskSections(r, d)
             \/ \E cites \in Submitted : AskVerify(r, cites)
    <3>1. response' = Nothing \/ Refuse(r)
        BY <2>2, <2>4 DEF AskSearch, AskSections, AskVerify
    <3> QED BY <3>1, QuietIsFine
  <2> QED BY <1>1, <2>1, <2>3, <2>4 DEF Serve
<1>2. CASE response' = Nothing
    BY <1>2, QuietIsFine
<1> QED BY <1>1, <1>2 DEF Next, ChangeDocument, CloseCollection

(* Whatever a token reads is in its collections, and what a search returns *)
(* is served when its roots are read.                                      *)
THEOREM ServedPermitted == Spec => OnlyPermittedIsServed
<1>1. IInv /\ [Next]_vars => [ServedIsPermitted]_vars
    BY RepliesAreSound
<1> QED BY <1>1, CatalogInductive, PTL DEF Spec, OnlyPermittedIsServed, ServedIsPermitted

(* A confirmed citation is of a document served and permitted. *)
THEOREM ConfirmedServed == Spec => ConfirmedIsServed
<1>1. IInv /\ [Next]_vars => [ConfirmedIsReady]_vars
    BY RepliesAreSound
<1> QED BY <1>1, CatalogInductive, PTL DEF Spec, ConfirmedIsServed, ConfirmedIsReady
=============================================================================
