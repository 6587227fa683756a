------------------------------ MODULE OAuthServer ------------------------------
(***************************************************************************)
(* mulchd as the OAuth authorization server of one MCP client, for one      *)
(* user: the user's consent (one OAuthGrant row, for one project, with a    *)
(* ceiling on the role), the authorization codes and the pairs of access    *)
(* and refresh token issued under it, and the requests that present them.   *)
(* Every query filters on client and user, so one of each is enough.        *)
(*                                                                          *)
(* Each request is a task, cut at its awaits; nothing runs in a             *)
(* transaction.  A code or a pair is named by the request that created it.  *)
(* Deleting the grant deletes its codes and pairs (ON DELETE CASCADE), and  *)
(* none can be inserted without it (FOREIGN KEY).                           *)
(***************************************************************************)
EXTENDS Naturals, FiniteSets

CONSTANTS
    Requests,    \* the requests the server receives, each one a task
    Projects,
    MaxRole,     \* the highest rank of a role; 0 is no membership at all
    Membership,  \* the user's memberships to begin with, [Projects -> 0..MaxRole]
    Ops,         \* the operations this instance exercises
    MaxUpsets,   \* how often time, an admin or a failure may intervene
    NoGrant, NoSecret

AllOps == {"page", "consent", "exchange", "refresh", "resolve", "remove",
           "revoke", "expire", "members", "activate", "fail"}
Roles == 1..MaxRole

ASSUME MaxRoleAssumption == MaxRole \in Nat \ {0}
ASSUME MaxUpsetsAssumption == MaxUpsets \in Nat
ASSUME MembershipAssumption == Membership \in [Projects -> 0..MaxRole]
ASSUME OpsAssumption == Ops \subseteq AllOps

Scopes == [project : Projects, role : Roles]
Grants == [id : Nat, project : Projects, role : Roles]
ASSUME NoGrantAssumption == NoGrant \notin Grants
ASSUME NoSecretAssumption == NoSecret \notin Requests

VARIABLES
    grant,      \* the OAuthGrant row, unique per client and user
    lastGrant,  \* the newest id of a row
    codes,      \* OAuthCode rows
    tokens,     \* OAuthToken rows: one row is a pair
    member,     \* the role of the user's UserMembership rows
    active,     \* User.active
    consents,   \* what the user ever agreed to, which only the grant records
    pc,         \* the step each request is at
    secret,     \* the code or the pair a request presents
    gid,        \* the id of the grant it loaded
    scope,      \* the project and role it is about
    reply,      \* what it was answered
    upsets      \* interventions so far

rows == <<grant, lastGrant, codes, tokens>>
account == <<member, active>>
vars == <<grant, lastGrant, codes, tokens, member, active, consents, pc, secret,
          gid, scope, reply, upsets>>

Codes == [by : Requests, grant : Nat, used : BOOLEAN, expired : BOOLEAN]
Tokens == [by : Requests,     \* the request it was issued to
           from : Requests,   \* the code or the pair that was spent for it
           root : Requests,   \* the code it descends from
           grant : Nat, revoked : BOOLEAN, expired : BOOLEAN]

\* The steps of a request that has loaded a code or a pair to spend it.
Spending == {"readCode", "claimCode", "readToken", "claimToken", "issue"}
Consenting == {"look", "create", "repoint"}
Resolving == {"user", "member"}
InFlight == Spending \cup Consenting \cup Resolving \cup {"code", "known", "delete"}
Replies == {"none", "ok", "form", "refused", "error", "tier1", "tier2", "401"}

TypeOK ==
    /\ grant \in Grants \cup {NoGrant}
    /\ lastGrant \in Nat
    /\ codes \subseteq Codes
    /\ tokens \subseteq Tokens
    /\ member \in [Projects -> 0..MaxRole]
    /\ active \in BOOLEAN
    /\ consents \subseteq Scopes
    /\ pc \in [Requests -> InFlight \cup {"idle", "done"}]
    /\ secret \in [Requests -> Requests \cup {NoSecret}]
    /\ \A q \in Requests : pc[q] \in Spending => secret[q] \in Requests
    /\ gid \in [Requests -> Nat]
    /\ scope \in [Requests -> Scopes \cup {NoGrant}]
    /\ \A q \in Requests :
         pc[q] \in Consenting \cup Resolving \/ reply[q] = "tier2" => scope[q] \in Scopes
    /\ reply \in [Requests -> Replies]
    /\ upsets \in 0..MaxUpsets

Init ==
    /\ grant = NoGrant
    /\ lastGrant = 0
    /\ codes = {}
    /\ tokens = {}
    /\ member = Membership
    /\ active = TRUE
    /\ consents = {}
    /\ pc = [q \in Requests |-> "idle"]
    /\ secret = [q \in Requests |-> NoSecret]
    /\ gid = [q \in Requests |-> 0]
    /\ scope = [q \in Requests |-> NoGrant]
    /\ reply = [q \in Requests |-> "none"]
    /\ upsets = 0

GoTo(q, step) == pc' = [pc EXCEPT ![q] = step] /\ UNCHANGED reply
Answer(q, r) == pc' = [pc EXCEPT ![q] = "done"] /\ reply' = [reply EXCEPT ![q] = r]
Receive(q, o) == o \in Ops /\ pc[q] = "idle"
Granted(id) == grant # NoGrant /\ grant.id = id

-----------------------------------------------------------------------------
(* oauth_consent_page, oauth_consent_submit *)

\* A grant that is remembered gets its code without asking again.
OpenPage(q) ==
    /\ Receive(q, "page") /\ active
    /\ IF grant = NoGrant
       THEN Answer(q, "form") /\ UNCHANGED gid
       ELSE GoTo(q, "code") /\ gid' = [gid EXCEPT ![q] = grant.id]
    /\ UNCHANGED <<rows, account, consents, secret, scope, upsets>>

\* The user allows the client to act in project p as any role up to the user's own.
Consent(q, p) ==
    /\ Receive(q, "consent") /\ active
    /\ \/ /\ member[p] = 0 /\ Answer(q, "refused")
          /\ UNCHANGED <<consents, scope>>
       \/ \E r \in 1..member[p] :
            /\ scope' = [scope EXCEPT ![q] = [project |-> p, role |-> r]]
            /\ consents' = consents \cup {[project |-> p, role |-> r]}
            /\ GoTo(q, "look")
    /\ UNCHANGED <<rows, account, secret, gid, upsets>>

\* Only another project makes the consent be written down again.
LookUpGrant(q) ==
    /\ pc[q] = "look"
    /\ IF grant = NoGrant THEN GoTo(q, "create") /\ UNCHANGED gid
       ELSE /\ gid' = [gid EXCEPT ![q] = grant.id]
            /\ GoTo(q, IF grant.project # scope[q].project THEN "repoint" ELSE "code")
    /\ UNCHANGED <<rows, account, consents, secret, scope, upsets>>

\* (client, user) is unique: the loser of a race is answered an error.
CreateGrant(q) ==
    /\ pc[q] = "create"
    /\ IF grant # NoGrant
       THEN Answer(q, "error") /\ UNCHANGED <<grant, lastGrant, gid>>
       ELSE /\ lastGrant' = lastGrant + 1
            /\ grant' = [id |-> lastGrant + 1, project |-> scope[q].project,
                         role |-> scope[q].role]
            /\ gid' = [gid EXCEPT ![q] = lastGrant + 1]
            /\ GoTo(q, "code")
    /\ UNCHANGED <<codes, tokens, account, consents, secret, scope, upsets>>

\* Mutant of Repoint: the ceiling agreed to for the other project is kept.
RepointKeepRole(q) ==
    /\ pc[q] = "repoint"
    /\ grant' = IF Granted(gid[q])
                THEN [grant EXCEPT !.project = scope[q].project] ELSE grant
    /\ GoTo(q, "code")
    /\ UNCHANGED <<lastGrant, codes, tokens, account, consents, secret, gid, scope, upsets>>

\* The row is saved by its id, which changes nothing when it is gone by now.
Repoint(q) ==
    /\ pc[q] = "repoint"
    /\ grant' = IF Granted(gid[q])
                THEN [grant EXCEPT !.project = scope[q].project, !.role = scope[q].role]
                ELSE grant
    /\ GoTo(q, "code")
    /\ UNCHANGED <<lastGrant, codes, tokens, account, consents, secret, gid, scope, upsets>>

\* _issue_oauth_code
CreateCode(q) ==
    /\ pc[q] = "code"
    /\ IF Granted(gid[q])
       THEN /\ codes' = codes \cup
                 {[by |-> q, grant |-> gid[q], used |-> FALSE, expired |-> FALSE]}
            /\ Answer(q, "ok")
       ELSE Answer(q, "error") /\ UNCHANGED codes
    /\ UNCHANGED <<grant, lastGrant, tokens, account, consents, secret, gid, scope, upsets>>

-----------------------------------------------------------------------------
(* load_authorization_code, exchange_authorization_code *)

LoadCode(q, k) ==
    /\ Receive(q, "exchange") /\ (\E c \in codes : c.by = k)
    /\ secret' = [secret EXCEPT ![q] = k]
    /\ IF \E c \in codes : c.by = k /\ ~c.used /\ ~c.expired
       THEN GoTo(q, "readCode") ELSE Answer(q, "refused")
    /\ UNCHANGED <<rows, account, consents, gid, scope, upsets>>

\* The row is read again; whether it has expired is not.
ReadCode(q) ==
    /\ pc[q] = "readCode"
    /\ \/ \E c \in codes :
            /\ c.by = secret[q] /\ ~c.used
            /\ gid' = [gid EXCEPT ![q] = c.grant]
            /\ GoTo(q, "claimCode")
       \/ /\ \A c \in codes : c.by = secret[q] => c.used
          /\ Answer(q, "refused") /\ UNCHANGED gid
    /\ UNCHANGED <<rows, account, consents, secret, scope, upsets>>

\* Mutant of ClaimCode: the code is marked as used, whether or not it was before.
ClaimCodeBlindly(q) ==
    /\ pc[q] = "claimCode"
    /\ codes' = {IF c.by = secret[q] THEN [c EXCEPT !.used = TRUE] ELSE c : c \in codes}
    /\ GoTo(q, "issue")
    /\ UNCHANGED <<grant, lastGrant, tokens, account, consents, secret, gid, scope, upsets>>

\* Compare and swap: UPDATE ... WHERE used = FALSE, and its row count.
ClaimCode(q) ==
    /\ pc[q] = "claimCode"
    /\ IF \E c \in codes : c.by = secret[q] /\ ~c.used
       THEN GoTo(q, "issue") ELSE Answer(q, "refused")
    /\ codes' = {IF c.by = secret[q] THEN [c EXCEPT !.used = TRUE] ELSE c : c \in codes}
    /\ UNCHANGED <<grant, lastGrant, tokens, account, consents, secret, gid, scope, upsets>>

-----------------------------------------------------------------------------
(* load_refresh_token, exchange_refresh_token *)

LoadToken(q, k) ==
    /\ Receive(q, "refresh") /\ (\E t \in tokens : t.by = k)
    /\ secret' = [secret EXCEPT ![q] = k]
    /\ IF \E t \in tokens : t.by = k /\ ~t.revoked
       THEN GoTo(q, "readToken") ELSE Answer(q, "refused")
    /\ UNCHANGED <<rows, account, consents, gid, scope, upsets>>

ReadToken(q) ==
    /\ pc[q] = "readToken"
    /\ \/ \E t \in tokens :
            /\ t.by = secret[q] /\ ~t.revoked
            /\ gid' = [gid EXCEPT ![q] = t.grant]
            /\ GoTo(q, "claimToken")
       \/ /\ \A t \in tokens : t.by = secret[q] => t.revoked
          /\ Answer(q, "refused") /\ UNCHANGED gid
    /\ UNCHANGED <<rows, account, consents, secret, scope, upsets>>

RevokePair(k) == tokens' =
    {IF t.by = k THEN [t EXCEPT !.revoked = TRUE] ELSE t : t \in tokens}

\* Mutant of ClaimToken: the pair is revoked, whether or not it was before.
ClaimTokenBlindly(q) ==
    /\ pc[q] = "claimToken"
    /\ RevokePair(secret[q])
    /\ GoTo(q, "issue")
    /\ UNCHANGED <<grant, lastGrant, codes, account, consents, secret, gid, scope, upsets>>

ClaimToken(q) ==
    /\ pc[q] = "claimToken"
    /\ IF \E t \in tokens : t.by = secret[q] /\ ~t.revoked
       THEN GoTo(q, "issue") ELSE Answer(q, "refused")
    /\ RevokePair(secret[q])
    /\ UNCHANGED <<grant, lastGrant, codes, account, consents, secret, gid, scope, upsets>>

-----------------------------------------------------------------------------
(* _issue_tokens *)

RootOf(k) == IF \E t \in tokens : t.by = k
             THEN (CHOOSE t \in tokens : t.by = k).root ELSE k
NewPair(q, id) == [by |-> q, from |-> secret[q], root |-> RootOf(secret[q]),
                   grant |-> id, revoked |-> FALSE, expired |-> FALSE]

\* Mutant of Issue: the pair is issued under whatever grant there is by now.
IssueUnderAny(q) ==
    /\ pc[q] = "issue"
    /\ IF grant # NoGrant
       THEN tokens' = tokens \cup {NewPair(q, gid[q])} /\ Answer(q, "ok")
       ELSE Answer(q, "error") /\ UNCHANGED tokens
    /\ UNCHANGED <<grant, lastGrant, codes, account, consents, secret, gid, scope, upsets>>

\* What was spent stays spent when the insert fails.
Issue(q) ==
    /\ pc[q] = "issue"
    /\ IF Granted(gid[q])
       THEN tokens' = tokens \cup {NewPair(q, gid[q])} /\ Answer(q, "ok")
       ELSE Answer(q, "error") /\ UNCHANGED tokens
    /\ UNCHANGED <<grant, lastGrant, codes, account, consents, secret, gid, scope, upsets>>

-----------------------------------------------------------------------------
(* resolve_mcp_tier, load_access_token, _auth_context_from_access_token *)

LoadAccess(q, k) ==
    /\ Receive(q, "resolve")
    /\ secret' = [secret EXCEPT ![q] = k]
    /\ \/ /\ \E t \in tokens : t.by = k /\ ~t.revoked /\ ~t.expired
          /\ scope' = [scope EXCEPT ![q] = [project |-> grant.project, role |-> grant.role]]
          /\ GoTo(q, "user")
       \/ /\ \A t \in tokens : t.by = k => t.revoked \/ t.expired
          /\ GoTo(q, "known") /\ UNCHANGED scope
    /\ UNCHANGED <<rows, account, consents, gid, upsets>>

\* is_known_oauth_token: the row of a pair whose grant was deleted is gone as well.
Known(q) ==
    /\ pc[q] = "known"
    /\ Answer(q, IF \E t \in tokens : t.by = secret[q] THEN "401" ELSE "tier1")
    /\ UNCHANGED <<rows, account, consents, secret, gid, scope, upsets>>

ReadUser(q) ==
    /\ pc[q] = "user"
    /\ IF active THEN GoTo(q, "member") ELSE Answer(q, "tier1")
    /\ UNCHANGED <<rows, account, consents, secret, gid, scope, upsets>>

Smaller(r, s) == IF r <= s THEN r ELSE s

ReadMember(q) ==
    /\ pc[q] = "member"
    /\ IF member[scope[q].project] = 0 THEN Answer(q, "tier1") /\ UNCHANGED scope
       ELSE /\ scope' = [scope EXCEPT ![q].role = Smaller(member[scope[q].project], @)]
            /\ Answer(q, "tier2")
    /\ UNCHANGED <<rows, account, consents, secret, gid, upsets>>

-----------------------------------------------------------------------------
(* The user's apps, the revocation endpoint, the clock and the admin pages *)

FindGrant(q) ==
    /\ Receive(q, "remove") /\ active
    /\ IF grant = NoGrant THEN Answer(q, "refused") /\ UNCHANGED gid
       ELSE GoTo(q, "delete") /\ gid' = [gid EXCEPT ![q] = grant.id]
    /\ UNCHANGED <<rows, account, consents, secret, scope, upsets>>

\* connect_apps_revoke, with the cascade.
DeleteGrant(q) ==
    /\ pc[q] = "delete"
    /\ grant' = IF Granted(gid[q]) THEN NoGrant ELSE grant
    /\ codes' = {c \in codes : c.grant # gid[q]}
    /\ tokens' = {t \in tokens : t.grant # gid[q]}
    /\ Answer(q, "ok")
    /\ UNCHANGED <<lastGrant, account, consents, secret, gid, scope, upsets>>

\* revoke_token, for either token of a pair.
RevokeToken(k) ==
    /\ "revoke" \in Ops /\ (\E t \in tokens : t.by = k) /\ RevokePair(k)
    /\ UNCHANGED <<grant, lastGrant, codes, account, consents, pc, secret, gid, scope, reply, upsets>>

Upset == upsets < MaxUpsets /\ upsets' = upsets + 1

ExpireCode(k) ==
    /\ "expire" \in Ops /\ Upset
    /\ codes' = {IF c.by = k THEN [c EXCEPT !.expired = TRUE] ELSE c : c \in codes}
    /\ UNCHANGED <<grant, lastGrant, tokens, account, consents, pc, secret, gid, scope, reply>>

ExpireAccess(k) ==
    /\ "expire" \in Ops /\ Upset
    /\ tokens' = {IF t.by = k THEN [t EXCEPT !.expired = TRUE] ELSE t : t \in tokens}
    /\ UNCHANGED <<grant, lastGrant, codes, account, consents, pc, secret, gid, scope, reply>>

\* An admin removes a membership, or adds one.
ChangeMembership(p, r) ==
    /\ "members" \in Ops /\ (member[p] = 0 <=> r # 0) /\ Upset
    /\ member' = [member EXCEPT ![p] = r]
    /\ UNCHANGED <<rows, active, consents, pc, secret, gid, scope, reply>>

\* An admin deactivates the user, or activates the user again.
SwitchAccount ==
    /\ "activate" \in Ops /\ Upset
    /\ active' = ~active
    /\ UNCHANGED <<rows, member, consents, pc, secret, gid, scope, reply>>

\* A query fails, the caller goes away or the process dies: the request ends where
\* it is.
Fail(q) ==
    /\ "fail" \in Ops /\ pc[q] \in InFlight /\ Upset
    /\ Answer(q, "error")
    /\ UNCHANGED <<rows, account, consents, secret, gid, scope>>

-----------------------------------------------------------------------------
Step(q) ==
    \/ OpenPage(q) \/ LookUpGrant(q) \/ CreateGrant(q) \/ Repoint(q) \/ CreateCode(q)
    \/ ReadCode(q) \/ ClaimCode(q) \/ ReadToken(q) \/ ClaimToken(q) \/ Issue(q)
    \/ Known(q) \/ ReadUser(q) \/ ReadMember(q) \/ FindGrant(q) \/ DeleteGrant(q)
    \/ Fail(q)

Rest == (\A q \in Requests : pc[q] \in {"idle", "done"}) /\ UNCHANGED vars

Present(q, k) == LoadCode(q, k) \/ LoadToken(q, k) \/ LoadAccess(q, k)

Next ==
    \/ \E q \in Requests : Step(q)
    \/ \E q \in Requests, p \in Projects : Consent(q, p)
    \/ \E q \in Requests, k \in Requests : Present(q, k)
    \/ \E k \in Requests : RevokeToken(k) \/ ExpireCode(k) \/ ExpireAccess(k)
    \/ \E p \in Projects, r \in 0..MaxRole : ChangeMembership(p, r)
    \/ SwitchAccount
    \/ Rest

Spec == Init /\ [][Next]_vars

-----------------------------------------------------------------------------
(* Properties *)

\* "Two concurrent exchanges of the same code must not both succeed", nor two
\* refreshes of the same token: what was spent bought one pair.
SpentOnce == \A t, u \in tokens : t.from = u.from => t = u

\* Of all the pairs that descend from one code by refreshing, one at most is live.
OneLivePair == \A t, u \in tokens : t.root = u.root /\ ~t.revoked /\ ~u.revoked => t = u

\* Once the descent of a code has ended (the client revoked its live pair, or a
\* refresh spent it and failed), no refresh that is still on its way revives it.
Alive(k) ==
    \/ \E t \in tokens : t.root = k /\ ~t.revoked
    \/ \E q \in Requests : pc[q] = "issue" /\ RootOf(secret[q]) = k
Ended(k) == (\E c \in codes : c.by = k /\ c.used) /\ ~Alive(k)
EndedStaysEnded == [][\A k \in Requests : Ended(k) => ~Alive(k)']_vars

\* Removing an app takes everything away from it, also what was being issued: no
\* code or pair is on file but under the consent there is.
NothingOutlivesItsGrant ==
    /\ \A c \in codes : Granted(c.grant)
    /\ \A t \in tokens : Granted(t.grant)

\* No request is served with a role in a project that the user never agreed to,
\* whatever consents for whatever projects overlap.
ServedWithinConsent == \A q \in Requests : reply[q] = "tier2" =>
    \E s \in consents : s.project = scope[q].project /\ scope[q].role <= s.role
=============================================================================
