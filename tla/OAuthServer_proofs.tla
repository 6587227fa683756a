-------------------------- MODULE OAuthServer_proofs --------------------------
(* Proofs about OAuthServer.  That everything on file is under the grant     *)
(* there is goes with the types: a request that presents a live pair reads   *)
(* the project and the role of its grant.                                    *)
EXTENDS OAuthServer, TLAPS

OnFile == TypeOK /\ NothingOutlivesItsGrant

LEMMA InitOnFile == Init => OnFile
  BY MembershipAssumption, MaxUpsetsAssumption
     DEF Init, OnFile, TypeOK, NothingOutlivesItsGrant, InFlight, Replies, Spending,
         Consenting, Resolving

\* The grant is read or written one request at a time: the consents.
LEMMA ConsentOnFile ==
  ASSUME OnFile, NEW q \in Requests,
         \/ OpenPage(q) \/ (\E p \in Projects : Consent(q, p)) \/ LookUpGrant(q)
         \/ CreateGrant(q) \/ Repoint(q) \/ CreateCode(q)
  PROVE  OnFile'
<1> USE DEF OnFile, InFlight, Replies, Spending, Consenting, Resolving, GoTo, Answer,
            Receive, Granted, rows, account, Grants
<1>1. ASSUME OpenPage(q) PROVE OnFile'
  BY <1>1 DEF OpenPage, TypeOK, NothingOutlivesItsGrant
<1>2. ASSUME NEW p \in Projects, Consent(q, p) PROVE OnFile'
  <2>1. CASE Answer(q, "refused") /\ UNCHANGED <<consents, scope>>
    BY <1>2, <2>1 DEF Consent, TypeOK, NothingOutlivesItsGrant
  <2>2. ASSUME NEW r \in 1..member[p],
               scope' = [scope EXCEPT ![q] = [project |-> p, role |-> r]],
               consents' = consents \cup {[project |-> p, role |-> r]},
               GoTo(q, "look")
        PROVE  OnFile'
    <3>1. [project |-> p, role |-> r] \in Scopes
      BY MaxRoleAssumption DEF TypeOK, Scopes, Roles
    <3> QED BY <1>2, <2>2, <3>1 DEF Consent, TypeOK, NothingOutlivesItsGrant
  <2> QED BY <1>2, <2>1, <2>2 DEF Consent
<1>3. ASSUME LookUpGrant(q) PROVE OnFile'
  BY <1>3 DEF LookUpGrant, TypeOK, NothingOutlivesItsGrant
<1>4. ASSUME CreateGrant(q) PROVE OnFile'
  <2>1. CASE grant # NoGrant
    BY <1>4, <2>1 DEF CreateGrant, TypeOK, NothingOutlivesItsGrant
  <2>2. CASE grant = NoGrant
    <3>1. codes = {} /\ tokens = {}
      BY <2>2 DEF NothingOutlivesItsGrant
    <3>2. grant' \in Grants /\ lastGrant' \in Nat
      BY <1>4, <2>2 DEF CreateGrant, TypeOK, Scopes
    <3> QED BY <1>4, <2>2, <3>1, <3>2 DEF CreateGrant, TypeOK, NothingOutlivesItsGrant
  <2> QED BY <2>1, <2>2
<1>5. ASSUME Repoint(q) PROVE OnFile'
  <2>1. grant' \in Grants \cup {NoGrant}
    BY <1>5 DEF Repoint, TypeOK, Scopes
  <2>2. \A id : Granted(id) => Granted(id)'
    BY <1>5, NoGrantAssumption, <2>1 DEF Repoint, TypeOK, Scopes
  <2>3. NothingOutlivesItsGrant'
    BY <1>5, <2>2 DEF Repoint, NothingOutlivesItsGrant
  <2> QED BY <1>5, <2>1, <2>3 DEF Repoint, TypeOK
<1>6. ASSUME CreateCode(q) PROVE OnFile'
  <2>1. [by |-> q, grant |-> gid[q], used |-> FALSE, expired |-> FALSE] \in Codes
    BY DEF TypeOK, Codes
  <2>2. codes' \subseteq Codes
    <3>1. codes \subseteq Codes
      BY DEF TypeOK
    <3>2. \/ codes' = codes
          \/ codes' = codes \cup
               {[by |-> q, grant |-> gid[q], used |-> FALSE, expired |-> FALSE]}
      BY <1>6 DEF CreateCode
    <3> QED BY <2>1, <3>1, <3>2
  <2>3. TypeOK'
    BY <1>6, <2>2 DEF CreateCode, TypeOK
  <2>4. NothingOutlivesItsGrant'
    <3>1. \A c \in codes' : c \in codes \/ (Granted(gid[q]) /\ c.grant = gid[q])
      BY <1>6 DEF CreateCode
    <3> QED BY <1>6, <3>1 DEF CreateCode, NothingOutlivesItsGrant
  <2> QED BY <2>3, <2>4
<1> QED BY <1>1, <1>2, <1>3, <1>4, <1>5, <1>6

\* The sets of rows a step updates in place keep their types and their grants.
LEMMA UpdatesOnFile ==
  ASSUME OnFile, NEW k
  PROVE  LET used == {IF c.by = k THEN [c EXCEPT !.used = TRUE] ELSE c : c \in codes}
             expiredC == {IF c.by = k THEN [c EXCEPT !.expired = TRUE] ELSE c : c \in codes}
             revoked == {IF t.by = k THEN [t EXCEPT !.revoked = TRUE] ELSE t : t \in tokens}
             expiredT == {IF t.by = k THEN [t EXCEPT !.expired = TRUE] ELSE t : t \in tokens}
         IN  /\ used \subseteq Codes /\ \A c \in used : Granted(c.grant)
             /\ expiredC \subseteq Codes /\ \A c \in expiredC : Granted(c.grant)
             /\ revoked \subseteq Tokens /\ \A t \in revoked : Granted(t.grant)
             /\ expiredT \subseteq Tokens /\ \A t \in expiredT : Granted(t.grant)
<1>1. codes \subseteq Codes /\ \A c \in codes : Granted(c.grant)
  BY DEF OnFile, TypeOK, NothingOutlivesItsGrant
<1>2. tokens \subseteq Tokens /\ \A t \in tokens : Granted(t.grant)
  BY DEF OnFile, TypeOK, NothingOutlivesItsGrant
<1>3. ASSUME NEW c \in codes
      PROVE  /\ [c EXCEPT !.used = TRUE] \in Codes /\ [c EXCEPT !.used = TRUE].grant = c.grant
             /\ [c EXCEPT !.expired = TRUE] \in Codes
             /\ [c EXCEPT !.expired = TRUE].grant = c.grant
  BY <1>1 DEF Codes
<1>4. ASSUME NEW t \in tokens
      PROVE  /\ [t EXCEPT !.revoked = TRUE] \in Tokens
             /\ [t EXCEPT !.revoked = TRUE].grant = t.grant
             /\ [t EXCEPT !.expired = TRUE] \in Tokens
             /\ [t EXCEPT !.expired = TRUE].grant = t.grant
  BY <1>2 DEF Tokens
<1> QED BY <1>1, <1>2, <1>3, <1>4 DEF Granted

\* Presenting, spending and issuing.
LEMMA SpendOnFile ==
  ASSUME OnFile, NEW q \in Requests,
         \/ \E k \in Requests : LoadCode(q, k) \/ LoadToken(q, k)
         \/ ReadCode(q) \/ ClaimCode(q) \/ ReadToken(q) \/ ClaimToken(q) \/ Issue(q)
  PROVE  OnFile'
<1> USE DEF OnFile, InFlight, Replies, Spending, Consenting, Resolving, GoTo, Answer,
            Receive, Granted, rows, account
<1>1. ASSUME NEW k \in Requests, LoadCode(q, k) PROVE OnFile'
  BY <1>1 DEF LoadCode, TypeOK, NothingOutlivesItsGrant
<1>2. ASSUME NEW k \in Requests, LoadToken(q, k) PROVE OnFile'
  BY <1>2 DEF LoadToken, TypeOK, NothingOutlivesItsGrant
<1>3. ASSUME ReadCode(q) PROVE OnFile'
  BY <1>3 DEF ReadCode, TypeOK, NothingOutlivesItsGrant, Codes
<1>4. ASSUME ReadToken(q) PROVE OnFile'
  BY <1>4 DEF ReadToken, TypeOK, NothingOutlivesItsGrant, Tokens
<1>5. ASSUME ClaimCode(q) PROVE OnFile'
  <2>1. codes' \subseteq Codes /\ \A c \in codes' : Granted(c.grant)
    BY <1>5, UpdatesOnFile DEF ClaimCode
  <2> QED BY <1>5, <2>1 DEF ClaimCode, TypeOK, NothingOutlivesItsGrant
<1>6. ASSUME ClaimToken(q) PROVE OnFile'
  <2>1. tokens' \subseteq Tokens /\ \A t \in tokens' : Granted(t.grant)
    BY <1>6, UpdatesOnFile DEF ClaimToken, RevokePair
  <2> QED BY <1>6, <2>1 DEF ClaimToken, TypeOK, NothingOutlivesItsGrant
<1>7. ASSUME Issue(q) PROVE OnFile'
  <2>1. RootOf(secret[q]) \in Requests
    BY <1>7 DEF Issue, RootOf, TypeOK, Tokens
  <2>2. NewPair(q, gid[q]) \in Tokens /\ NewPair(q, gid[q]).grant = gid[q]
    BY <1>7, <2>1 DEF Issue, NewPair, TypeOK, Tokens
  <2>3. tokens' \subseteq Tokens
    BY <1>7, <2>2 DEF Issue, TypeOK
  <2> QED BY <1>7, <2>2, <2>3 DEF Issue, TypeOK, NothingOutlivesItsGrant
<1> QED BY <1>1, <1>2, <1>3, <1>4, <1>5, <1>6, <1>7

\* Resolving a token writes nothing; the grant it reads is there.
LEMMA ResolveOnFile ==
  ASSUME OnFile, NEW q \in Requests,
         (\E k \in Requests : LoadAccess(q, k)) \/ Known(q) \/ ReadUser(q) \/ ReadMember(q)
  PROVE  OnFile'
<1> USE DEF OnFile, InFlight, Replies, Spending, Consenting, Resolving, GoTo, Answer,
            Receive, Granted, rows, account
<1>1. ASSUME NEW k \in Requests, LoadAccess(q, k) PROVE OnFile'
  <2>1. ASSUME NEW t \in tokens
        PROVE  [project |-> grant.project, role |-> grant.role] \in Scopes
    BY <2>1 DEF TypeOK, NothingOutlivesItsGrant, Grants, Scopes
  <2> QED BY <1>1, <2>1 DEF LoadAccess, TypeOK, NothingOutlivesItsGrant
<1>2. ASSUME Known(q) PROVE OnFile'
  BY <1>2 DEF Known, TypeOK, NothingOutlivesItsGrant
<1>3. ASSUME ReadUser(q) PROVE OnFile'
  BY <1>3 DEF ReadUser, TypeOK, NothingOutlivesItsGrant
<1>4. ASSUME ReadMember(q) PROVE OnFile'
  <2>1. scope[q] \in Scopes /\ member[scope[q].project] \in 0..MaxRole
    BY <1>4 DEF ReadMember, TypeOK, Scopes
  <2>2. CASE member[scope[q].project] = 0
    BY <1>4, <2>2 DEF ReadMember, TypeOK, NothingOutlivesItsGrant
  <2>3. CASE member[scope[q].project] # 0
    <3>1. Smaller(member[scope[q].project], scope[q].role) \in Roles
      BY <2>1, <2>3, MaxRoleAssumption DEF Smaller, Scopes, Roles
    <3>2. [scope[q] EXCEPT !.role = Smaller(member[scope[q].project], @)] \in Scopes
      BY <2>1, <3>1 DEF Scopes
    <3>3. scope' = [scope EXCEPT ![q] =
                      [scope[q] EXCEPT !.role = Smaller(member[scope[q].project], @)]]
      BY <1>4, <2>3 DEF ReadMember
    <3> QED BY <1>4, <2>3, <3>2, <3>3 DEF ReadMember, TypeOK, NothingOutlivesItsGrant
  <2> QED BY <2>2, <2>3
<1> QED BY <1>1, <1>2, <1>3, <1>4

\* The app is removed, or somebody intervenes.
LEMMA OthersOnFile ==
  ASSUME OnFile,
         \/ \E q \in Requests : FindGrant(q) \/ DeleteGrant(q) \/ Fail(q)
         \/ \E k \in Requests : RevokeToken(k) \/ ExpireCode(k) \/ ExpireAccess(k)
         \/ \E p \in Projects, r \in 0..MaxRole : ChangeMembership(p, r)
         \/ SwitchAccount
         \/ UNCHANGED vars
  PROVE  OnFile'
<1> USE DEF OnFile, InFlight, Replies, Spending, Consenting, Resolving, GoTo, Answer,
            Receive, Granted, rows, account, Upset
<1>1. ASSUME NEW q \in Requests, FindGrant(q) PROVE OnFile'
  BY <1>1 DEF FindGrant, TypeOK, NothingOutlivesItsGrant, Grants
<1>2. ASSUME NEW q \in Requests, DeleteGrant(q) PROVE OnFile'
  BY <1>2 DEF DeleteGrant, TypeOK, NothingOutlivesItsGrant
<1>3. ASSUME NEW q \in Requests, Fail(q) PROVE OnFile'
  BY <1>3, MaxUpsetsAssumption DEF Fail, TypeOK, NothingOutlivesItsGrant
<1>4. ASSUME NEW k \in Requests, RevokeToken(k) PROVE OnFile'
  <2>1. tokens' \subseteq Tokens /\ \A t \in tokens' : Granted(t.grant)
    BY <1>4, UpdatesOnFile DEF RevokeToken, RevokePair
  <2> QED BY <1>4, <2>1 DEF RevokeToken, TypeOK, NothingOutlivesItsGrant
<1>5. ASSUME NEW k \in Requests, ExpireCode(k) PROVE OnFile'
  <2>1. codes' \subseteq Codes /\ \A c \in codes' : Granted(c.grant)
    BY <1>5, UpdatesOnFile DEF ExpireCode
  <2> QED BY <1>5, <2>1, MaxUpsetsAssumption DEF ExpireCode, TypeOK, NothingOutlivesItsGrant
<1>6. ASSUME NEW k \in Requests, ExpireAccess(k) PROVE OnFile'
  <2>1. tokens' \subseteq Tokens /\ \A t \in tokens' : Granted(t.grant)
    BY <1>6, UpdatesOnFile DEF ExpireAccess
  <2> QED BY <1>6, <2>1, MaxUpsetsAssumption DEF ExpireAccess, TypeOK, NothingOutlivesItsGrant
<1>7. ASSUME NEW p \in Projects, NEW r \in 0..MaxRole, ChangeMembership(p, r) PROVE OnFile'
  BY <1>7, MaxUpsetsAssumption DEF ChangeMembership, TypeOK, NothingOutlivesItsGrant
<1>8. ASSUME SwitchAccount PROVE OnFile'
  BY <1>8, MaxUpsetsAssumption DEF SwitchAccount, TypeOK, NothingOutlivesItsGrant
<1>9. ASSUME UNCHANGED vars PROVE OnFile'
  BY <1>9 DEF vars, TypeOK, NothingOutlivesItsGrant
<1> QED BY <1>1, <1>2, <1>3, <1>4, <1>5, <1>6, <1>7, <1>8, <1>9

LEMMA NextOnFile == OnFile /\ [Next]_vars => OnFile'
  BY ConsentOnFile, SpendOnFile, ResolveOnFile, OthersOnFile DEF Next, Step, Present, Rest

LEMMA AlwaysOnFile == Spec => []OnFile
  BY InitOnFile, NextOnFile, PTL DEF Spec

\* Every variable keeps its type: in particular a request that is about to spend a
\* code or a pair knows which, and one that is served has a project and a role.
THEOREM TypeCorrect == Spec => []TypeOK
<1>1. OnFile => TypeOK
  BY DEF OnFile
<1> QED BY <1>1, AlwaysOnFile, PTL

\* connect_apps_revoke deletes the grant alone: with the foreign keys that is enough
\* for no code or pair to outlive it, for any number of requests on their way.
THEOREM RemovalIsComplete == Spec => []NothingOutlivesItsGrant
<1>1. OnFile => NothingOutlivesItsGrant
  BY DEF OnFile
<1> QED BY <1>1, AlwaysOnFile, PTL

-----------------------------------------------------------------------------
(* What the user agreed to *)

AgreedTo(p, r) == \E s \in consents : s.project = p /\ r <= s.role

\* The grant, every request that is to write one and every request that is served
\* stay within a consent.
Agreed ==
    /\ grant # NoGrant => AgreedTo(grant.project, grant.role)
    /\ \A q \in Requests : reply[q] = "tier2" => pc[q] = "done"
    /\ \A q \in Requests :
         pc[q] \in Consenting \cup Resolving \/ reply[q] = "tier2" =>
             AgreedTo(scope[q].project, scope[q].role)

\* Steps that neither consent, nor write the grant's scope, nor resolve a token.
LEMMA KeepsAgreed ==
  ASSUME Agreed, grant' \in {grant, NoGrant}, UNCHANGED <<consents, scope>>,
         \A q \in Requests :
            /\ pc'[q] \in Consenting \cup Resolving => pc[q] \in Consenting \cup Resolving
            /\ pc[q] = "done" => pc'[q] = "done"
            /\ reply'[q] = "tier2" => reply[q] = "tier2"
  PROVE  Agreed'
  BY DEF Agreed, AgreedTo

LEMMA ConsentAgreed ==
  ASSUME OnFile, Agreed, NEW q \in Requests,
         (\E p \in Projects : Consent(q, p)) \/ LookUpGrant(q) \/ CreateGrant(q) \/ Repoint(q)
  PROVE  Agreed'
<1> USE DEF GoTo, Answer, Consenting, Resolving, rows, account, Receive
<1>t. TypeOK
  BY DEF OnFile
<1>1. ASSUME NEW p \in Projects, Consent(q, p) PROVE Agreed'
  <2>1. CASE Answer(q, "refused") /\ UNCHANGED <<consents, scope>>
    BY <1>t, <1>1, <2>1 DEF Consent, Agreed, AgreedTo, TypeOK
  <2>2. ASSUME NEW r \in 1..member[p],
               scope' = [scope EXCEPT ![q] = [project |-> p, role |-> r]],
               consents' = consents \cup {[project |-> p, role |-> r]},
               GoTo(q, "look")
        PROVE  Agreed'
    <3>1. AgreedTo(p, r)'
      <4> DEFINE new == [project |-> p, role |-> r]
      <4>1. new \in consents' /\ new.project = p /\ r <= new.role
        BY <2>2
      <4> QED BY <4>1 DEF AgreedTo
    <3>2. \A u, v : AgreedTo(u, v) => AgreedTo(u, v)'
      BY <2>2 DEF AgreedTo
    <3>3. scope'[q].project = p /\ scope'[q].role = r
      BY <1>t, <2>2 DEF TypeOK
    <3>4. \A b \in Requests \ {q} : scope'[b] = scope[b] /\ pc'[b] = pc[b]
      BY <1>t, <2>2 DEF TypeOK
    <3>5. pc'[q] = "look" /\ reply' = reply /\ reply[q] # "tier2"
      BY <1>t, <1>1, <2>2 DEF Consent, TypeOK, Agreed
    <3>6. UNCHANGED grant
      BY <1>1 DEF Consent
    <3>7. (grant # NoGrant => AgreedTo(grant.project, grant.role))'
      BY <3>2, <3>6 DEF Agreed
    <3>8. \A b \in Requests : reply'[b] = "tier2" => pc'[b] = "done"
      BY <3>4, <3>5 DEF Agreed
    <3>9. \A b \in Requests : pc'[b] \in Consenting \cup Resolving \/ reply'[b] = "tier2" =>
             AgreedTo(scope[b].project, scope[b].role)'
      BY <3>1, <3>2, <3>3, <3>4, <3>5 DEF Agreed
    <3> QED BY <3>7, <3>8, <3>9 DEF Agreed
  <2> QED BY <1>1, <2>1, <2>2 DEF Consent
<1>2. ASSUME LookUpGrant(q) PROVE Agreed'
  BY <1>t, <1>2 DEF LookUpGrant, Agreed, AgreedTo, TypeOK
<1>3. ASSUME CreateGrant(q) PROVE Agreed'
  BY <1>t, <1>3 DEF CreateGrant, Agreed, AgreedTo, TypeOK
<1>4. ASSUME Repoint(q) PROVE Agreed'
  BY <1>t, <1>4 DEF Repoint, Agreed, AgreedTo, TypeOK, Grants, Granted
<1> QED BY <1>1, <1>2, <1>3, <1>4

LEMMA ResolveAgreed ==
  ASSUME OnFile, Agreed, NEW q \in Requests,
         (\E k \in Requests : LoadAccess(q, k)) \/ Known(q) \/ ReadUser(q) \/ ReadMember(q)
  PROVE  Agreed'
<1> USE DEF GoTo, Answer, Consenting, Resolving, rows, account, Receive
<1>t. TypeOK
  BY DEF OnFile
<1>1. ASSUME NEW k \in Requests, LoadAccess(q, k) PROVE Agreed'
  <2>1. ASSUME NEW t \in tokens PROVE grant # NoGrant
    BY DEF OnFile, NothingOutlivesItsGrant, Granted
  <2> QED BY <1>t, <1>1, <2>1 DEF LoadAccess, Agreed, AgreedTo, TypeOK
<1>2. ASSUME Known(q) PROVE Agreed'
  BY <1>t, <1>2 DEF Known, Agreed, AgreedTo, TypeOK
<1>3. ASSUME ReadUser(q) PROVE Agreed'
  BY <1>t, <1>3 DEF ReadUser, Agreed, AgreedTo, TypeOK
<1>4. ASSUME ReadMember(q) PROVE Agreed'
  <2>1. CASE member[scope[q].project] = 0
    BY <1>t, <1>4, <2>1 DEF ReadMember, Agreed, AgreedTo, TypeOK
  <2>2. CASE member[scope[q].project] # 0
    <3> DEFINE least == Smaller(member[scope[q].project], scope[q].role)
    <3>1. scope[q] \in Scopes /\ member[scope[q].project] \in Nat
      BY <1>t, <1>4, MaxRoleAssumption DEF ReadMember, TypeOK, Scopes
    <3>2. least <= scope[q].role /\ least \in Nat
      BY <3>1 DEF Smaller, Scopes, Roles
    <3>3. scope' = [scope EXCEPT ![q] = [scope[q] EXCEPT !.role = least]]
      BY <1>4, <2>2 DEF ReadMember
    <3>4. scope'[q].project = scope[q].project /\ scope'[q].role = least
      BY <1>t, <3>1, <3>3 DEF TypeOK, Scopes
    <3>5. AgreedTo(scope[q].project, scope[q].role)
      BY <1>4 DEF ReadMember, Agreed
    <3>6. UNCHANGED consents /\ consents \subseteq Scopes
      BY <1>t, <1>4 DEF ReadMember, TypeOK
    <3> HIDE DEF least
    <3>7. AgreedTo(scope[q].project, scope[q].role)'
      <4>1. PICK s \in consents : s.project = scope[q].project /\ scope[q].role <= s.role
        BY <3>5 DEF AgreedTo
      <4>2. s.role \in Nat /\ scope[q].role \in Nat /\ s \in consents'
        BY <3>1, <3>6 DEF Scopes, Roles
      <4>3. scope'[q].role <= s.role /\ s.project = scope'[q].project
        BY <3>2, <3>4, <4>1, <4>2
      <4> QED BY <4>2, <4>3 DEF AgreedTo
    <3>8. \A b \in Requests \ {q} :
             scope'[b] = scope[b] /\ pc'[b] = pc[b] /\ reply'[b] = reply[b]
      BY <1>t, <1>4, <2>2, <3>3 DEF ReadMember, TypeOK
    <3>9. pc'[q] = "done" /\ UNCHANGED grant
      BY <1>t, <1>4, <2>2 DEF ReadMember, TypeOK
    <3>10. \A u, v : AgreedTo(u, v) => AgreedTo(u, v)'
      BY <3>6 DEF AgreedTo
    <3> QED BY <3>7, <3>8, <3>9, <3>10 DEF Agreed
  <2> QED BY <2>1, <2>2
<1> QED BY <1>1, <1>2, <1>3, <1>4

LEMMA NextAgreed == OnFile /\ Agreed /\ [Next]_vars => Agreed'
<1> SUFFICES ASSUME OnFile, Agreed, [Next]_vars PROVE Agreed'
  OBVIOUS
<1>t. TypeOK
  BY DEF OnFile
<1> USE DEF GoTo, Answer, Consenting, Resolving, rows, account, Receive
<1>1. ASSUME NEW q \in Requests,
             \/ OpenPage(q) \/ CreateCode(q) \/ ReadCode(q) \/ ClaimCode(q) \/ ReadToken(q)
             \/ ClaimToken(q) \/ Issue(q) \/ FindGrant(q) \/ DeleteGrant(q) \/ Fail(q)
      PROVE  Agreed'
  BY <1>t, <1>1, KeepsAgreed
     DEF TypeOK, OpenPage, CreateCode, ReadCode, ClaimCode, ReadToken, ClaimToken, Issue,
         FindGrant, DeleteGrant, Fail, InFlight
<1>2. ASSUME NEW q \in Requests, NEW k \in Requests, LoadCode(q, k) \/ LoadToken(q, k)
      PROVE  Agreed'
  BY <1>t, <1>2, KeepsAgreed DEF TypeOK, LoadCode, LoadToken
<1>3. ASSUME \/ \E k \in Requests : RevokeToken(k) \/ ExpireCode(k) \/ ExpireAccess(k)
             \/ \E p \in Projects, r \in 0..MaxRole : ChangeMembership(p, r)
             \/ SwitchAccount
             \/ UNCHANGED vars
      PROVE  Agreed'
  BY <1>3, KeepsAgreed
     DEF RevokeToken, ExpireCode, ExpireAccess, ChangeMembership, SwitchAccount, vars
<1> QED BY <1>1, <1>2, <1>3, ConsentAgreed, ResolveAgreed DEF Next, Step, Present, Rest

\* However consents for several projects, exchanges, refreshes, removals and requests
\* overlap, a request is served within something the user agreed to.
THEOREM ConsentIsTheCeiling == Spec => []ServedWithinConsent
<1>1. Init => Agreed
  BY DEF Init, Agreed, Consenting, Resolving
<1>2. Agreed => ServedWithinConsent
  BY DEF Agreed, AgreedTo, ServedWithinConsent
<1> QED BY <1>1, <1>2, NextAgreed, AlwaysOnFile, PTL DEF Spec

-----------------------------------------------------------------------------
(* What was spent is spent *)

Unspent(k) ==
    \/ \E c \in codes : c.by = k /\ ~c.used
    \/ \E t \in tokens : t.by = k /\ ~t.revoked

\* Some row or some request names k.
Named(k) ==
    \/ \E c \in codes : c.by = k
    \/ \E t \in tokens : t.by = k \/ t.from = k
    \/ \E q \in Requests : pc[q] \in Spending /\ secret[q] = k

\* The compare and swap hands the right to issue to one request, and what it took
\* cannot be taken again: `Fresh` is why no later row is mistaken for it.
Fresh == \A k \in Requests : Named(k) => pc[k] = "done"
Apart == \A c \in codes, t \in tokens : c.by # t.by
Taken == \A q \in Requests : pc[q] = "issue" =>
    /\ ~Unspent(secret[q])
    /\ \A t \in tokens : t.from # secret[q]
    /\ \A r \in Requests : pc[r] = "issue" /\ secret[r] = secret[q] => r = q
Bought == \A t \in tokens : ~Unspent(t.from)
SpendInv == Fresh /\ Apart /\ Taken /\ Bought /\ SpentOnce

\* Steps that insert no row and take nothing: rows are deleted or updated in place.
LEMMA KeepsSpent ==
  ASSUME SpendInv,
         \A c \in codes' : \E b \in codes : b.by = c.by /\ (b.used => c.used),
         \A t \in tokens' : \E s \in tokens :
             s.by = t.by /\ s.from = t.from /\ (s.revoked => t.revoked),
         SpentOnce',
         \A q \in Requests :
            /\ pc[q] = "done" => pc'[q] = "done"
            /\ pc'[q] = "issue" => pc[q] = "issue" /\ secret'[q] = secret[q]
            /\ pc'[q] \in Spending => secret'[q] \in Requests /\ Named(secret'[q])
  PROVE  SpendInv'
<1>1. \A k : Unspent(k)' => Unspent(k)
  BY DEF Unspent
<1>2. \A k \in Requests : Named(k)' => Named(k)
  BY DEF Named
<1>3. Fresh'
  BY <1>2 DEF SpendInv, Fresh
<1>4. Apart'
  BY DEF SpendInv, Apart
<1>5. Taken'
  BY <1>1 DEF SpendInv, Taken
<1>6. Bought'
  BY <1>1 DEF SpendInv, Bought
<1> QED BY <1>3, <1>4, <1>5, <1>6 DEF SpendInv

\* A step of one request that keeps the rows, and hands it nothing to issue.
LEMMA MovesOn ==
  ASSUME TypeOK, SpendInv, NEW q \in Requests, UNCHANGED <<codes, tokens>>,
         NEW step, step # "issue", pc' = [pc EXCEPT ![q] = step], pc[q] # "done",
         \/ secret' = secret /\ (step \in Spending => pc[q] \in Spending)
         \/ \E k \in Requests : Named(k) /\ secret' = [secret EXCEPT ![q] = k]
  PROVE  SpendInv'
<1>1. \A b \in Requests \ {q} : pc'[b] = pc[b] /\ secret'[b] = secret[b]
  BY DEF TypeOK
<1>2. pc'[q] = step
  BY DEF TypeOK
<1>3. step \in Spending => secret'[q] \in Requests /\ Named(secret'[q])
  BY DEF TypeOK, Named
<1>4. \A b \in Requests : pc[b] \in Spending => secret[b] \in Requests /\ Named(secret[b])
  BY DEF TypeOK, Named
<1>5. SpentOnce'
  BY DEF SpendInv, SpentOnce
<1> QED BY <1>1, <1>2, <1>3, <1>4, <1>5, KeepsSpent

\* An unspent secret is taken by one request.
LEMMA TakesSecret ==
  ASSUME TypeOK, SpendInv, NEW q \in Requests, pc[q] \in {"claimCode", "claimToken"},
         Unspent(secret[q]), ~Unspent(secret[q])',
         pc' = [pc EXCEPT ![q] = "issue"], UNCHANGED secret,
         \A c \in codes' : \E b \in codes : b.by = c.by /\ (b.used => c.used),
         \A t \in tokens' : \E s \in tokens :
             s.by = t.by /\ s.from = t.from /\ (s.revoked => t.revoked),
         SpentOnce'
  PROVE  SpendInv'
<1> USE DEF SpendInv
<1>1. \A k : Unspent(k)' => Unspent(k)
  BY DEF Unspent
<1>2. \A b \in Requests : b # q => pc'[b] = pc[b]
  BY DEF TypeOK
<1>3. pc'[q] = "issue" /\ pc[q] \in Spending
  BY DEF TypeOK, Spending
<1>4. \A k \in Requests : Named(k)' => Named(k)
  BY <1>2, <1>3 DEF Named
<1>5. Fresh'
  BY <1>2, <1>3, <1>4 DEF Fresh, Spending
<1>6. \A t \in tokens' : t.from # secret[q]
  BY DEF Bought
<1>7. Taken'
  BY <1>1, <1>2, <1>3, <1>6 DEF Taken
<1>8. Bought' /\ Apart'
  BY <1>1 DEF Bought, Apart
<1> QED BY <1>5, <1>7, <1>8

\* Updating the rows of k in place.
LEMMA UpdatesSpent ==
  ASSUME OnFile, SpendInv, NEW k
  PROVE  LET used == {IF c.by = k THEN [c EXCEPT !.used = TRUE] ELSE c : c \in codes}
             expiredC == {IF c.by = k THEN [c EXCEPT !.expired = TRUE] ELSE c : c \in codes}
             revoked == {IF t.by = k THEN [t EXCEPT !.revoked = TRUE] ELSE t : t \in tokens}
             expiredT == {IF t.by = k THEN [t EXCEPT !.expired = TRUE] ELSE t : t \in tokens}
         IN  /\ \A c \in used : \E b \in codes :
                  b.by = c.by /\ (b.used => c.used) /\ (c.by = k => c.used)
             /\ \A c \in expiredC : \E b \in codes : b.by = c.by /\ (b.used => c.used)
             /\ \A t \in revoked : \E s \in tokens :
                  /\ s.by = t.by /\ s.from = t.from /\ (s.revoked => t.revoked)
                  /\ t.by = k => t.revoked
             /\ \A t \in expiredT : \E s \in tokens :
                  s.by = t.by /\ s.from = t.from /\ (s.revoked => t.revoked)
             /\ \A t, u \in revoked : t.from = u.from => t = u
             /\ \A t, u \in expiredT : t.from = u.from => t = u
<1>1. codes \subseteq Codes /\ tokens \subseteq Tokens
  BY DEF OnFile, TypeOK
<1>2. \A t, u \in tokens : t.from = u.from => t = u
  BY DEF SpendInv, SpentOnce
<1>3. ASSUME NEW c \in codes
      PROVE  /\ [c EXCEPT !.used = TRUE].by = c.by /\ [c EXCEPT !.used = TRUE].used
             /\ [c EXCEPT !.expired = TRUE].by = c.by
             /\ [c EXCEPT !.expired = TRUE].used = c.used
  BY <1>1 DEF Codes
<1>4. ASSUME NEW t \in tokens
      PROVE  /\ [t EXCEPT !.revoked = TRUE].by = t.by /\ [t EXCEPT !.revoked = TRUE].revoked
             /\ [t EXCEPT !.revoked = TRUE].from = t.from
             /\ [t EXCEPT !.expired = TRUE].by = t.by
             /\ [t EXCEPT !.expired = TRUE].from = t.from
             /\ [t EXCEPT !.expired = TRUE].revoked = t.revoked
  BY <1>1 DEF Tokens
<1> DEFINE U(c) == IF c.by = k THEN [c EXCEPT !.used = TRUE] ELSE c
           EC(c) == IF c.by = k THEN [c EXCEPT !.expired = TRUE] ELSE c
           R(t) == IF t.by = k THEN [t EXCEPT !.revoked = TRUE] ELSE t
           ET(t) == IF t.by = k THEN [t EXCEPT !.expired = TRUE] ELSE t
<1>5. \A c \in codes : U(c).by = c.by /\ (c.used => U(c).used) /\ (U(c).by = k => U(c).used)
  BY <1>3
<1>6. \A c \in codes : EC(c).by = c.by /\ (c.used => EC(c).used)
  BY <1>3
<1>7. \A t \in tokens : /\ R(t).by = t.by /\ R(t).from = t.from
                        /\ (t.revoked => R(t).revoked) /\ (R(t).by = k => R(t).revoked)
  BY <1>4
<1>8. \A t \in tokens : ET(t).by = t.by /\ ET(t).from = t.from /\ (t.revoked => ET(t).revoked)
  BY <1>4
<1> HIDE DEF U, EC, R, ET
<1>9. \A c \in {U(c) : c \in codes} : \E b \in codes :
         b.by = c.by /\ (b.used => c.used) /\ (c.by = k => c.used)
  BY <1>5
<1>10. \A c \in {EC(c) : c \in codes} : \E b \in codes : b.by = c.by /\ (b.used => c.used)
  BY <1>6
<1>11. \A t \in {R(t) : t \in tokens} : \E s \in tokens :
         /\ s.by = t.by /\ s.from = t.from /\ (s.revoked => t.revoked)
         /\ t.by = k => t.revoked
  BY <1>7
<1>12. \A t \in {ET(t) : t \in tokens} : \E s \in tokens :
         s.by = t.by /\ s.from = t.from /\ (s.revoked => t.revoked)
  BY <1>8
<1>13. \A t, u \in {R(t) : t \in tokens} : t.from = u.from => t = u
  BY <1>2, <1>7
<1>14. \A t, u \in {ET(t) : t \in tokens} : t.from = u.from => t = u
  BY <1>2, <1>8
<1> QED BY <1>9, <1>10, <1>11, <1>12, <1>13, <1>14 DEF U, EC, R, ET

LEMMA ClaimSpent ==
  ASSUME OnFile, SpendInv, NEW q \in Requests, ClaimCode(q) \/ ClaimToken(q)
  PROVE  SpendInv'
<1>t. TypeOK
  BY DEF OnFile
<1>s. SpentOnce
  BY DEF SpendInv
<1>1. CASE ClaimCode(q)
  <2>1. /\ \A c \in codes' : \E b \in codes :
              b.by = c.by /\ (b.used => c.used) /\ (c.by = secret[q] => c.used)
        /\ UNCHANGED <<tokens, secret>>
    BY <1>1, UpdatesSpent DEF ClaimCode
  <2>2. CASE \E c \in codes : c.by = secret[q] /\ ~c.used
    <3>1. pc[q] = "claimCode" /\ pc' = [pc EXCEPT ![q] = "issue"]
      BY <1>1, <2>2 DEF ClaimCode, GoTo
    <3>2. Unspent(secret[q])
      BY <2>2 DEF Unspent
    <3>3. ~Unspent(secret[q])'
      BY <2>1, <2>2 DEF Unspent, SpendInv, Apart
    <3>4. SpentOnce'
      BY <1>s, <2>1 DEF SpentOnce
    <3> QED BY <1>t, <2>1, <3>1, <3>2, <3>3, <3>4, TakesSecret
  <2>3. CASE ~\E c \in codes : c.by = secret[q] /\ ~c.used
    <3>1. pc[q] = "claimCode" /\ pc' = [pc EXCEPT ![q] = "done"]
      BY <1>1, <2>3 DEF ClaimCode, Answer
    <3>2. \A b \in Requests : b # q => pc'[b] = pc[b]
      BY <3>1
    <3>3. SpentOnce'
      BY <1>s, <2>1 DEF SpentOnce
    <3> QED BY <1>t, <2>1, <3>1, <3>2, <3>3, KeepsSpent DEF TypeOK, Named, Spending
  <2> QED BY <2>2, <2>3
<1>2. CASE ClaimToken(q)
  <2>1. /\ \A t \in tokens' : \E s \in tokens :
              /\ s.by = t.by /\ s.from = t.from /\ (s.revoked => t.revoked)
              /\ t.by = secret[q] => t.revoked
        /\ \A t, u \in tokens' : t.from = u.from => t = u
        /\ UNCHANGED <<codes, secret>>
    <3> DEFINE after == {IF t.by = secret[q] THEN [t EXCEPT !.revoked = TRUE] ELSE t : t \in tokens}
    <3>1. tokens' = after /\ UNCHANGED <<codes, secret>>
      BY <1>2 DEF ClaimToken, RevokePair
    <3>2. \A t \in after : \E s \in tokens :
             /\ s.by = t.by /\ s.from = t.from /\ (s.revoked => t.revoked)
             /\ t.by = secret[q] => t.revoked
      BY UpdatesSpent
    <3>3. \A t, u \in after : t.from = u.from => t = u
      BY UpdatesSpent, Zenon
    <3> HIDE DEF after
    <3> QED BY <3>1, <3>2, <3>3
  <2>s. SpentOnce'
    BY <2>1 DEF SpentOnce
  <2>2. CASE \E t \in tokens : t.by = secret[q] /\ ~t.revoked
    <3>1. pc[q] = "claimToken" /\ pc' = [pc EXCEPT ![q] = "issue"]
      BY <1>2, <2>2 DEF ClaimToken, GoTo
    <3>2. Unspent(secret[q])
      BY <2>2 DEF Unspent
    <3>3. ~Unspent(secret[q])'
      BY <2>1, <2>2 DEF Unspent, SpendInv, Apart
    <3> QED BY <1>t, <2>1, <2>s, <3>1, <3>2, <3>3, TakesSecret
  <2>3. CASE ~\E t \in tokens : t.by = secret[q] /\ ~t.revoked
    <3>1. pc[q] = "claimToken" /\ pc' = [pc EXCEPT ![q] = "done"]
      BY <1>2, <2>3 DEF ClaimToken, Answer
    <3>2. \A b \in Requests : b # q => pc'[b] = pc[b]
      BY <3>1
    <3> QED BY <1>t, <2>1, <2>s, <3>1, <3>2, KeepsSpent DEF TypeOK, Named, Spending
  <2> QED BY <2>2, <2>3
<1> QED BY <1>1, <1>2

\* A new row is named by a request that nothing named before.
LEMMA InsertSpent ==
  ASSUME OnFile, SpendInv, NEW q \in Requests, CreateCode(q) \/ Issue(q)
  PROVE  SpendInv'
<1> USE DEF SpendInv
<1>t. TypeOK
  BY DEF OnFile
<1>1. pc[q] \in {"code", "issue"} /\ ~Named(q)
  BY DEF CreateCode, Issue, Fresh
<1>2. pc' = [pc EXCEPT ![q] = "done"] /\ UNCHANGED secret
  BY DEF CreateCode, Issue, Answer
<1>3. pc'[q] = "done" /\ \A b \in Requests : b # q => pc'[b] = pc[b]
  BY <1>t, <1>2 DEF TypeOK
<1>4. \A b \in Requests : pc'[b] \in Spending => pc[b] \in Spending /\ b # q
  BY <1>3 DEF Spending
<1>5. CASE UNCHANGED <<codes, tokens>>
  <2>1. SpentOnce'
    BY <1>5 DEF SpentOnce
  <2> QED BY <1>t, <1>2, <1>3, <1>4, <1>5, <2>1, KeepsSpent DEF TypeOK, Named, Spending
<1>6. CASE /\ codes' = codes \cup
                {[by |-> q, grant |-> gid[q], used |-> FALSE, expired |-> FALSE]}
           /\ UNCHANGED tokens
  <2>1. \A k : k # q => (Unspent(k)' <=> Unspent(k))
    BY <1>6 DEF Unspent
  <2>2. Fresh'
    BY <1>2, <1>3, <1>4, <1>6 DEF Fresh, Named
  <2>3. Apart' /\ SpentOnce'
    BY <1>1, <1>6 DEF Apart, SpentOnce, Named
  <2>4. Taken'
    BY <1>1, <1>2, <1>3, <1>4, <1>6, <2>1 DEF Taken, Named, Spending
  <2>5. Bought'
    BY <1>1, <1>6, <2>1 DEF Bought, Named
  <2> QED BY <2>2, <2>3, <2>4, <2>5
<1>7. CASE pc[q] = "issue" /\ tokens' = tokens \cup {NewPair(q, gid[q])} /\ UNCHANGED codes
  <2> DEFINE new == NewPair(q, gid[q])
  <2>1. new.by = q /\ new.from = secret[q] /\ secret[q] # q
    BY <1>1, <1>7 DEF NewPair, Named, Spending
  <2>2. secret[q] \in Requests /\ Named(secret[q]) /\ pc[secret[q]] = "done"
    BY <1>t, <1>7 DEF TypeOK, Named, Spending, Fresh
  <2> HIDE DEF new
  <2>3. tokens' = tokens \cup {new}
    BY <1>7 DEF new
  <2>4. \A k : k # q => (Unspent(k)' <=> Unspent(k))
    BY <1>7, <2>1, <2>3 DEF Unspent
  <2>5. Fresh'
    BY <1>2, <1>3, <1>4, <1>7, <2>1, <2>2, <2>3 DEF Fresh, Named
  <2>6. Apart'
    BY <1>1, <1>7, <2>1, <2>3 DEF Apart, Named
  <2>7. Taken'
    BY <1>1, <1>2, <1>3, <1>4, <1>7, <2>1, <2>3, <2>4 DEF Taken, Named, Spending
  <2>8. Bought'
    BY <1>1, <1>7, <2>1, <2>3, <2>4 DEF Bought, Taken, Named
  <2>9. SpentOnce'
    BY <1>7, <2>1, <2>3 DEF SpentOnce, Taken
  <2> QED BY <2>5, <2>6, <2>7, <2>8, <2>9
<1> QED BY <1>5, <1>6, <1>7 DEF CreateCode, Issue

LEMMA NextSpent == OnFile /\ SpendInv /\ [Next]_vars => SpendInv'
<1> SUFFICES ASSUME OnFile, SpendInv, [Next]_vars PROVE SpendInv'
  OBVIOUS
<1>t. TypeOK
  BY DEF OnFile
<1>s. SpentOnce
  BY DEF SpendInv
<1>n. \A q \in Requests : pc[q] \in Spending => secret[q] \in Requests /\ Named(secret[q])
  BY <1>t DEF TypeOK, Named
<1> USE DEF GoTo, Answer, Receive, rows, account
<1>1. ASSUME NEW q \in Requests,
             \/ OpenPage(q) \/ (\E p \in Projects : Consent(q, p)) \/ LookUpGrant(q)
             \/ CreateGrant(q) \/ Repoint(q) \/ Known(q) \/ ReadUser(q) \/ ReadMember(q)
             \/ FindGrant(q) \/ Fail(q) \/ ReadCode(q) \/ ReadToken(q)
      PROVE  SpendInv'
  <2>1. UNCHANGED <<codes, tokens, secret>>
    BY <1>1 DEF OpenPage, Consent, LookUpGrant, CreateGrant, Repoint, Known, ReadUser,
                ReadMember, FindGrant, Fail, ReadCode, ReadToken
  <2>2. PICK step : /\ pc' = [pc EXCEPT ![q] = step] /\ step # "issue" /\ pc[q] # "done"
                    /\ step \in Spending => pc[q] \in Spending
    BY <1>1 DEF OpenPage, Consent, LookUpGrant, CreateGrant, Repoint, Known, ReadUser,
                ReadMember, FindGrant, Fail, ReadCode, ReadToken, InFlight, Spending,
                Consenting, Resolving
  <2> QED BY <1>t, <2>1, <2>2, MovesOn
<1>2. ASSUME NEW q \in Requests, NEW k \in Requests,
             LoadCode(q, k) \/ LoadToken(q, k) \/ LoadAccess(q, k)
      PROVE  SpendInv'
  <2>1. CASE LoadCode(q, k) \/ LoadToken(q, k)
    <3>1. UNCHANGED <<codes, tokens>> /\ Named(k) /\ secret' = [secret EXCEPT ![q] = k]
      BY <2>1 DEF LoadCode, LoadToken, Named
    <3>2. PICK step : pc' = [pc EXCEPT ![q] = step] /\ step # "issue" /\ pc[q] # "done"
      BY <2>1 DEF LoadCode, LoadToken
    <3> QED BY <1>t, <3>1, <3>2, MovesOn
  <2>2. CASE LoadAccess(q, k)
    <3>1. UNCHANGED <<codes, tokens>> /\ secret' = [secret EXCEPT ![q] = k] /\ pc[q] = "idle"
      BY <2>2 DEF LoadAccess
    <3>2. PICK step \in {"user", "known"} : pc' = [pc EXCEPT ![q] = step]
      BY <2>2 DEF LoadAccess
    <3>3. \A b \in Requests \ {q} : pc'[b] = pc[b] /\ secret'[b] = secret[b]
      BY <1>t, <3>1, <3>2 DEF TypeOK
    <3>4. pc'[q] \notin Spending /\ pc'[q] # "issue"
      BY <1>t, <3>2 DEF TypeOK, Spending
    <3>5. SpentOnce'
      BY <1>s, <3>1 DEF SpentOnce
    <3> QED BY <1>n, <3>1, <3>3, <3>4, <3>5, KeepsSpent
  <2> QED BY <1>2, <2>1, <2>2
<1>3. ASSUME NEW q \in Requests, DeleteGrant(q) PROVE SpendInv'
  <2>1. codes' \subseteq codes /\ tokens' \subseteq tokens /\ UNCHANGED secret
    BY <1>3 DEF DeleteGrant
  <2>2. pc' = [pc EXCEPT ![q] = "done"]
    BY <1>3 DEF DeleteGrant
  <2>3. SpentOnce'
    BY <1>s, <2>1 DEF SpentOnce
  <2>4. \A b \in Requests : pc'[b] \in {pc[b], "done"}
    BY <1>t, <2>2 DEF TypeOK
  <2> QED BY <1>n, <2>1, <2>3, <2>4, KeepsSpent DEF Spending
<1>4. ASSUME NEW k \in Requests, RevokeToken(k) \/ ExpireCode(k) \/ ExpireAccess(k)
      PROVE  SpendInv'
  <2>1. UNCHANGED <<pc, secret>>
    BY <1>4 DEF RevokeToken, ExpireCode, ExpireAccess
  <2>2. /\ \A c \in codes' : \E b \in codes : b.by = c.by /\ (b.used => c.used)
        /\ \A t \in tokens' : \E s \in tokens :
              s.by = t.by /\ s.from = t.from /\ (s.revoked => t.revoked)
        /\ \A t, u \in tokens' : t.from = u.from => t = u
    <3>1. CASE RevokeToken(k)
      BY <1>s, <3>1, UpdatesSpent DEF RevokeToken, RevokePair, SpentOnce
    <3>2. CASE ExpireCode(k)
      BY <1>s, <3>2, UpdatesSpent DEF ExpireCode, SpentOnce
    <3>3. CASE ExpireAccess(k)
      BY <1>s, <3>3, UpdatesSpent DEF ExpireAccess, SpentOnce
    <3> QED BY <1>4, <3>1, <3>2, <3>3
  <2>3. SpentOnce'
    BY <2>2 DEF SpentOnce
  <2> QED BY <1>n, <2>1, <2>2, <2>3, KeepsSpent
<1>5. ASSUME \/ \E p \in Projects, r \in 0..MaxRole : ChangeMembership(p, r)
             \/ SwitchAccount
             \/ UNCHANGED vars
      PROVE  SpendInv'
  <2>1. UNCHANGED <<codes, tokens, pc, secret>>
    BY <1>5 DEF ChangeMembership, SwitchAccount, vars
  <2>2. SpentOnce'
    BY <1>s, <2>1 DEF SpentOnce
  <2> QED BY <1>n, <2>1, <2>2, KeepsSpent
<1> QED BY <1>1, <1>2, <1>3, <1>4, <1>5, ClaimSpent, InsertSpent DEF Next, Step, Present, Rest

\* exchange_authorization_code and exchange_refresh_token: whatever races, the code or
\* the refresh token that was spent bought one pair of tokens.
THEOREM SecretsAreSpentOnce == Spec => []SpentOnce
<1>1. Init => SpendInv
  BY DEF Init, SpendInv, Fresh, Named, Apart, Taken, Bought, SpentOnce, Spending
<1>2. SpendInv => SpentOnce
  BY DEF SpendInv
<1> QED BY <1>1, <1>2, NextSpent, AlwaysOnFile, PTL DEF Spec

-----------------------------------------------------------------------------
(* Descent: of the pairs that come from one code by refreshing *)

\* A request that will get its pair: the grant it loaded is still there.
Issuing(q) == pc[q] = "issue" /\ Granted(gid[q])

\* The ids of grants go up, so that a request never meets the id it loaded again.
IdsInOrder ==
    /\ \A q \in Requests : gid[q] <= lastGrant
    /\ grant # NoGrant => grant.id <= lastGrant

NamesUnique ==
    /\ \A t, u \in tokens : t.by = u.by => t = u
    /\ \A b, c \in codes : b.by = c.by => b = c

RootsDone == \A t \in tokens : pc[t.root] = "done"

\* One of them at most can still be used for a descent: a live pair, a request that
\* will get one, or the code itself.
IssuingAlone == \A q \in Requests : Issuing(q) =>
    /\ \A t \in tokens : t.root = RootOf(secret[q]) => t.revoked
    /\ \A r \in Requests : Issuing(r) /\ RootOf(secret[r]) = RootOf(secret[q]) => r = q
CodeAlone == \A c \in codes : ~c.used =>
    /\ \A t \in tokens : t.root # c.by
    /\ \A q \in Requests : Issuing(q) => RootOf(secret[q]) # c.by
DescentInv == IdsInOrder /\ NamesUnique /\ RootsDone /\ IssuingAlone /\ CodeAlone /\ OneLivePair

LEMMA RootOfRow ==
  ASSUME NamesUnique, NEW t \in tokens
  PROVE  RootOf(t.by) = t.root
<1>1. \A u \in tokens : u.by = t.by => u = t
  BY DEF NamesUnique
<1>2. (CHOOSE u \in tokens : u.by = t.by) = t
  BY <1>1
<1> QED BY <1>2 DEF RootOf

LEMMA RootOfOther ==
  ASSUME NEW k, \A t \in tokens : t.by # k
  PROVE  RootOf(k) = k
  BY DEF RootOf

\* The root of k depends on the row of k alone.
LEMMA KeepsRoot ==
  ASSUME NamesUnique, NamesUnique', NEW k,
         \A t \in tokens' : t.by = k => \E s \in tokens : s.by = k /\ s.root = t.root,
         \A s \in tokens : s.by = k => \E t \in tokens' : t.by = k
  PROVE  RootOf(k)' = RootOf(k)
<1>1. CASE \E t \in tokens' : t.by = k
  <2>1. PICK t \in tokens' : t.by = k
    BY <1>1
  <2>2. PICK s \in tokens : s.by = k /\ s.root = t.root
    BY <2>1
  <2>3. RootOf(k) = s.root
    BY <2>2, RootOfRow
  <2>4. \A u \in tokens' : u.by = k => u = t
    BY <2>1 DEF NamesUnique
  <2>5. (CHOOSE u \in tokens' : u.by = k) = t
    BY <2>1, <2>4
  <2>6. RootOf(k)' = t.root
    BY <2>1, <2>5 DEF RootOf
  <2> QED BY <2>2, <2>3, <2>6
<1>2. CASE \A t \in tokens' : t.by # k
  <2>1. \A s \in tokens : s.by # k
    BY <1>2
  <2> QED BY <1>2, <2>1 DEF RootOf
<1> QED BY <1>1, <1>2

\* Steps that add nothing a descent could go on with: rows are deleted with their
\* grant or updated in place, and nothing is claimed.
LEMMA KeepsDescent ==
  ASSUME DescentInv, NamesUnique', IdsInOrder',
         \A t \in tokens' : \E s \in tokens :
             s.by = t.by /\ s.root = t.root /\ (s.revoked => t.revoked),
         \A s \in tokens : \E t \in tokens' : t.by = s.by,
         \A c \in codes' : \E b \in codes : b.by = c.by /\ (b.used => c.used),
         \A q \in Requests : pc[q] = "done" => pc'[q] = "done",
         \A t \in tokens : t.root \in Requests,
         \A q \in Requests : Issuing(q)' => Issuing(q) /\ secret'[q] = secret[q]
  PROVE  DescentInv'
<1> USE DEF DescentInv
<1>1. \A k : RootOf(k)' = RootOf(k)
  <2> TAKE k
  <2>1. \A t \in tokens' : t.by = k => \E s \in tokens : s.by = k /\ s.root = t.root
    OBVIOUS
  <2>2. \A s \in tokens : s.by = k => \E t \in tokens' : t.by = k
    OBVIOUS
  <2> QED BY <2>1, <2>2, KeepsRoot
<1>2. RootsDone'
  BY DEF RootsDone
<1>3. OneLivePair'
  BY DEF OneLivePair, NamesUnique
<1>4. \A q \in Requests : Issuing(q)' => RootOf(secret[q])' = RootOf(secret[q])
  BY <1>1
<1> HIDE DEF RootOf
<1>5. IssuingAlone'
  BY <1>4 DEF IssuingAlone
<1>6. CodeAlone'
  BY <1>4 DEF CodeAlone
<1> QED BY <1>2, <1>3, <1>5, <1>6

\* A step of one request that keeps the rows, and hands it nothing to issue.
LEMMA MovesInDescent ==
  ASSUME OnFile, DescentInv, NEW q \in Requests, UNCHANGED <<codes, tokens, lastGrant>>,
         NEW step, step # "issue", pc' = [pc EXCEPT ![q] = step], pc[q] # "done",
         \A b \in Requests \ {q} : secret'[b] = secret[b] /\ gid'[b] = gid[b],
         gid'[q] <= lastGrant,
         grant' # NoGrant => grant # NoGrant /\ grant'.id = grant.id
  PROVE  DescentInv'
<1>t. TypeOK
  BY DEF OnFile
<1>1. pc'[q] = step /\ \A b \in Requests \ {q} : pc'[b] = pc[b]
  BY <1>t DEF TypeOK
<1>2. \A b \in Requests : Issuing(b)' => Issuing(b) /\ secret'[b] = secret[b]
  BY <1>1 DEF Issuing, Granted
<1>3. IdsInOrder'
  BY DEF DescentInv, IdsInOrder
<1>4. NamesUnique'
  BY DEF DescentInv, NamesUnique
<1>5. \A t \in tokens : t.root \in Requests
  BY <1>t DEF TypeOK, Tokens
<1>6. \A b \in Requests : pc[b] = "done" => pc'[b] = "done"
  BY <1>1
<1> HIDE DEF DescentInv
<1> QED BY <1>2, <1>3, <1>4, <1>5, <1>6, KeepsDescent

\* Updating the rows of k in place.
LEMMA CodesInDescent ==
  ASSUME OnFile, NamesUnique, NEW k,
         \/ codes' = {IF c.by = k THEN [c EXCEPT !.used = TRUE] ELSE c : c \in codes}
         \/ codes' = {IF c.by = k THEN [c EXCEPT !.expired = TRUE] ELSE c : c \in codes}
  PROVE  /\ \A c \in codes' : \E b \in codes : b.by = c.by /\ (b.used => c.used)
         /\ \A b, c \in codes' : b.by = c.by => b = c
<1>1. codes \subseteq Codes /\ \A b, c \in codes : b.by = c.by => b = c
  BY DEF OnFile, TypeOK, NamesUnique
<1> DEFINE U(c) == IF c.by = k THEN [c EXCEPT !.used = TRUE] ELSE c
           E(c) == IF c.by = k THEN [c EXCEPT !.expired = TRUE] ELSE c
<1>2. \A c \in codes : U(c).by = c.by /\ (c.used => U(c).used)
  BY <1>1 DEF Codes
<1>3. \A c \in codes : E(c).by = c.by /\ (c.used => E(c).used)
  BY <1>1 DEF Codes
<1>4. codes' = {U(c) : c \in codes} \/ codes' = {E(c) : c \in codes}
  OBVIOUS
<1> HIDE DEF U, E
<1> QED BY <1>1, <1>2, <1>3, <1>4

LEMMA TokensInDescent ==
  ASSUME OnFile, NamesUnique, NEW k,
         \/ tokens' = {IF t.by = k THEN [t EXCEPT !.revoked = TRUE] ELSE t : t \in tokens}
         \/ tokens' = {IF t.by = k THEN [t EXCEPT !.expired = TRUE] ELSE t : t \in tokens}
  PROVE  /\ \A t \in tokens' : \E s \in tokens :
               s.by = t.by /\ s.root = t.root /\ (s.revoked => t.revoked)
         /\ \A s \in tokens : \E t \in tokens' : t.by = s.by
         /\ \A t, u \in tokens' : t.by = u.by => t = u
<1>1. tokens \subseteq Tokens /\ \A t, u \in tokens : t.by = u.by => t = u
  BY DEF OnFile, TypeOK, NamesUnique
<1> DEFINE R(t) == IF t.by = k THEN [t EXCEPT !.revoked = TRUE] ELSE t
           E(t) == IF t.by = k THEN [t EXCEPT !.expired = TRUE] ELSE t
<1>2. \A t \in tokens : R(t).by = t.by /\ R(t).root = t.root /\ (t.revoked => R(t).revoked)
  BY <1>1 DEF Tokens
<1>3. \A t \in tokens : E(t).by = t.by /\ E(t).root = t.root /\ (t.revoked => E(t).revoked)
  BY <1>1 DEF Tokens
<1>4. tokens' = {R(t) : t \in tokens} \/ tokens' = {E(t) : t \in tokens}
  OBVIOUS
<1> HIDE DEF R, E
<1> QED BY <1>1, <1>2, <1>3, <1>4

\* The descent goes over from the code to the request that claims it.
LEMMA ClaimCodeInDescent ==
  ASSUME OnFile, SpendInv, DescentInv, NEW q \in Requests, ClaimCode(q)
  PROVE  DescentInv'
<1>t. TypeOK
  BY DEF OnFile
<1> DEFINE k == secret[q]
<1>0. pc[q] = "claimCode" /\ UNCHANGED <<grant, lastGrant, tokens, secret, gid>>
  BY DEF ClaimCode
<1>s. \/ codes' = {IF c.by = k THEN [c EXCEPT !.used = TRUE] ELSE c : c \in codes}
      \/ codes' = {IF c.by = k THEN [c EXCEPT !.expired = TRUE] ELSE c : c \in codes}
  BY DEF ClaimCode
<1>i. NamesUnique
  BY DEF DescentInv
<1>1. /\ \A c \in codes' : \E b \in codes : b.by = c.by /\ (b.used => c.used)
      /\ \A b, c \in codes' : b.by = c.by => b = c
  BY <1>i, <1>s, CodesInDescent
<1>u. \A c \in codes' : c.by = k => c.used
  BY <1>t DEF ClaimCode, TypeOK, Codes
<1>2. NamesUnique' /\ IdsInOrder'
  BY <1>0, <1>1 DEF DescentInv, NamesUnique, IdsInOrder
<1>3. \A b \in Requests \ {q} : pc'[b] = pc[b]
  BY <1>t DEF ClaimCode, GoTo, Answer, TypeOK
<1>4. \A t \in tokens : t.root \in Requests
  BY <1>t DEF TypeOK, Tokens
<1>5. CASE \E c \in codes : c.by = k /\ ~c.used
  <2>1. pc'[q] = "issue"
    BY <1>t, <1>5 DEF ClaimCode, GoTo, TypeOK
  <2>2. PICK d \in codes : d.by = k /\ ~d.used
    BY <1>5
  <2>3. RootOf(k) = k
    BY <2>2, RootOfOther DEF SpendInv, Apart
  <2>4. \A b \in Requests : Issuing(b)' => b = q \/ Issuing(b)
    BY <1>0, <1>3 DEF Issuing, Granted
  <2>5. /\ \A t \in tokens : t.root # k
        /\ \A b \in Requests : Issuing(b) => RootOf(secret[b]) # k
    BY <2>2 DEF DescentInv, CodeAlone
  <2>6. \A b \in Requests : RootOf(secret[b])' = RootOf(secret[b])
    BY <1>0 DEF RootOf
  <2> HIDE DEF RootOf
  <2>7. IssuingAlone'
    BY <1>0, <2>3, <2>4, <2>5, <2>6 DEF DescentInv, IssuingAlone
  <2>8. CodeAlone'
    BY <1>0, <1>1, <1>u, <2>3, <2>4, <2>6 DEF DescentInv, CodeAlone
  <2>9. RootsDone' /\ OneLivePair'
    BY <1>0, <1>3, <1>4 DEF DescentInv, RootsDone, OneLivePair
  <2> QED BY <1>2, <2>7, <2>8, <2>9 DEF DescentInv
<1>6. CASE ~\E c \in codes : c.by = k /\ ~c.used
  <2>1. pc'[q] = "done"
    BY <1>t, <1>6 DEF ClaimCode, Answer, TypeOK
  <2>2. \A b \in Requests : Issuing(b)' => Issuing(b) /\ secret'[b] = secret[b]
    BY <1>0, <1>3, <2>1 DEF Issuing, Granted
  <2>3. \A c \in codes' : \E b \in codes : b.by = c.by /\ (b.used => c.used)
    BY <1>0, <1>1
  <2>4. \A b \in Requests : pc[b] = "done" => pc'[b] = "done"
    BY <1>3, <2>1
  <2> QED BY <1>0, <1>2, <1>4, <2>2, <2>3, <2>4, KeepsDescent
<1> QED BY <1>5, <1>6

\* The descent goes over from a live pair to the request that claims it.
LEMMA ClaimTokenInDescent ==
  ASSUME OnFile, SpendInv, DescentInv, NEW q \in Requests, ClaimToken(q)
  PROVE  DescentInv'
<1>t. TypeOK
  BY DEF OnFile
<1> DEFINE k == secret[q]
<1>0. pc[q] = "claimToken" /\ UNCHANGED <<grant, lastGrant, codes, secret, gid>>
  BY DEF ClaimToken
<1>s. \/ tokens' = {IF t.by = k THEN [t EXCEPT !.revoked = TRUE] ELSE t : t \in tokens}
      \/ tokens' = {IF t.by = k THEN [t EXCEPT !.expired = TRUE] ELSE t : t \in tokens}
  BY DEF ClaimToken, RevokePair
<1>i. NamesUnique
  BY DEF DescentInv
<1>1. /\ \A t \in tokens' : \E s \in tokens :
            s.by = t.by /\ s.root = t.root /\ (s.revoked => t.revoked)
      /\ \A s \in tokens : \E t \in tokens' : t.by = s.by
      /\ \A t, u \in tokens' : t.by = u.by => t = u
  BY <1>i, <1>s, TokensInDescent
<1>u. \A t \in tokens' : t.by = k => t.revoked
  BY <1>t DEF ClaimToken, RevokePair, TypeOK, Tokens
<1>2. NamesUnique' /\ IdsInOrder'
  BY <1>0, <1>1 DEF DescentInv, NamesUnique, IdsInOrder
<1>3. \A b \in Requests \ {q} : pc'[b] = pc[b]
  BY <1>t DEF ClaimToken, GoTo, Answer, TypeOK
<1>4. \A t \in tokens : t.root \in Requests
  BY <1>t DEF TypeOK, Tokens
<1>5. CASE \E t \in tokens : t.by = k /\ ~t.revoked
  <2>1. pc'[q] = "issue"
    BY <1>t, <1>5 DEF ClaimToken, GoTo, TypeOK
  <2>2. PICK s \in tokens : s.by = k /\ ~s.revoked
    BY <1>5
  <2>3. RootOf(k) = s.root
    BY <2>2, RootOfRow DEF DescentInv
  <2>4. \A b \in Requests : Issuing(b)' => b = q \/ Issuing(b)
    BY <1>0, <1>3 DEF Issuing, Granted
  <2>5. \A b \in Requests : Issuing(b) => RootOf(secret[b]) # s.root
    BY <2>2 DEF DescentInv, IssuingAlone
  <2>6. \A b \in Requests : RootOf(secret[b])' = RootOf(secret[b])
    <3> TAKE b \in Requests
    <3>2. \A t \in tokens' : t.by = secret[b] => \E u \in tokens : u.by = secret[b] /\ u.root = t.root
      BY <1>0, <1>1
    <3>3. \A u \in tokens : u.by = secret[b] => \E t \in tokens' : t.by = secret[b]
      BY <1>0, <1>1
    <3>4. PICK j : j = secret[b]
      OBVIOUS
    <3>5. RootOf(j)' = RootOf(j)
      BY <1>2, <3>2, <3>3, <3>4, KeepsRoot DEF DescentInv
    <3> QED BY <1>0, <3>4, <3>5
  <2> HIDE DEF RootOf
  <2>7. \A t \in tokens' : t.root = s.root => t.revoked
    BY <1>0, <1>1, <1>u, <2>2 DEF DescentInv, OneLivePair
  <2>8. IssuingAlone'
    <3>1. \A b \in Requests : Issuing(b) /\ b # q =>
             \A t \in tokens' : t.root = RootOf(secret[b]) => t.revoked
      BY <1>0, <1>1 DEF DescentInv, IssuingAlone
    <3> QED BY <1>0, <2>3, <2>4, <2>5, <2>6, <2>7, <3>1 DEF DescentInv, IssuingAlone
  <2>9. CodeAlone'
    <3>1. \A c \in codes : ~c.used => s.root # c.by
      BY <2>2 DEF DescentInv, CodeAlone
    <3> QED BY <1>0, <1>1, <2>3, <2>4, <2>6, <3>1 DEF DescentInv, CodeAlone
  <2>10. RootsDone' /\ OneLivePair'
    <3>1. RootsDone'
      BY <1>0, <1>1, <1>3, <1>4 DEF DescentInv, RootsDone
    <3>2. OneLivePair'
      BY <1>0, <1>1 DEF DescentInv, OneLivePair
    <3> QED BY <3>1, <3>2
  <2> QED BY <1>2, <2>8, <2>9, <2>10 DEF DescentInv
<1>6. CASE ~\E t \in tokens : t.by = k /\ ~t.revoked
  <2>1. pc'[q] = "done"
    BY <1>t, <1>6 DEF ClaimToken, Answer, TypeOK
  <2>2. \A b \in Requests : Issuing(b)' => Issuing(b) /\ secret'[b] = secret[b]
    BY <1>0, <1>3, <2>1 DEF Issuing, Granted
  <2>3. \A t \in tokens' : \E s \in tokens :
           s.by = t.by /\ s.root = t.root /\ (s.revoked => t.revoked)
    BY <1>0, <1>1
  <2>4. \A b \in Requests : pc[b] = "done" => pc'[b] = "done"
    BY <1>3, <2>1
  <2>5. \A s \in tokens : \E t \in tokens' : t.by = s.by
    BY <1>0, <1>1
  <2> QED BY <1>0, <1>2, <1>4, <2>2, <2>3, <2>4, <2>5, KeepsDescent
<1> QED BY <1>5, <1>6

\* The descent goes over from the request to the pair it is issued.
LEMMA IssueInDescent ==
  ASSUME OnFile, SpendInv, DescentInv, NEW q \in Requests, Issue(q)
  PROVE  DescentInv'
<1>t. TypeOK
  BY DEF OnFile
<1> DEFINE k == secret[q]
           new == NewPair(q, gid[q])
<1>0. /\ pc[q] = "issue" /\ pc' = [pc EXCEPT ![q] = "done"]
      /\ UNCHANGED <<grant, lastGrant, codes, secret, gid>>
  BY DEF Issue, Answer
<1>1. pc'[q] = "done" /\ \A b \in Requests \ {q} : pc'[b] = pc[b]
  BY <1>t, <1>0 DEF TypeOK
<1>2. \A b \in Requests : Issuing(b)' => Issuing(b) /\ b # q
  BY <1>0, <1>1 DEF Issuing, Granted
<1>3. IdsInOrder'
  BY <1>0 DEF DescentInv, IdsInOrder
<1>4. \A t \in tokens : t.root \in Requests
  BY <1>t DEF TypeOK, Tokens
<1>5. CASE ~Granted(gid[q])
  <2>1. UNCHANGED tokens
    BY <1>5 DEF Issue
  <2>2. NamesUnique'
    BY <1>0, <2>1 DEF DescentInv, NamesUnique
  <2>3. \A b \in Requests : pc[b] = "done" => pc'[b] = "done"
    BY <1>1
  <2> HIDE DEF DescentInv
  <2> QED BY <1>0, <1>2, <1>3, <1>4, <2>1, <2>2, <2>3, KeepsDescent
<1>6. CASE Granted(gid[q])
  <2>1. tokens' = tokens \cup {new}
    BY <1>6 DEF Issue
  <2>2. new.by = q /\ new.root = RootOf(k)
    BY DEF NewPair
  <2>3. Issuing(q)
    BY <1>0, <1>6 DEF Issuing
  <2>4. ~Named(q)
    BY <1>0 DEF SpendInv, Fresh
  <2>5. \A t \in tokens : t.by # q
    BY <2>4 DEF Named
  <2> HIDE DEF new
  <2>6. NamesUnique'
    BY <1>0, <2>1, <2>2, <2>5 DEF DescentInv, NamesUnique
  <2>7. \A j : j # q => RootOf(j)' = RootOf(j)
    <3> TAKE j
    <3> HAVE j # q
    <3>1. \A t \in tokens' : t.by = j => \E s \in tokens : s.by = j /\ s.root = t.root
      BY <2>1, <2>2
    <3>2. \A s \in tokens : s.by = j => \E t \in tokens' : t.by = j
      BY <2>1
    <3> QED BY <2>6, <3>1, <3>2, KeepsRoot DEF DescentInv
  <2>8. \A b \in Requests : pc[b] = "issue" => secret[b] # q
    BY <2>4 DEF Named, Spending
  <2>9. \A b \in Requests : Issuing(b) => RootOf(secret[b])' = RootOf(secret[b])
    BY <1>0, <2>7, <2>8 DEF Issuing
  <2>10. RootsDone'
    <3>1. pc[RootOf(k)] = "done" /\ RootOf(k) \in Requests
      <4>1. k \in Requests /\ Named(k)
        BY <1>t, <1>0 DEF TypeOK, Named, Spending
      <4>2. CASE \E t \in tokens : t.by = k
        <5>1. PICK t \in tokens : t.by = k
          BY <4>2
        <5>2. RootOf(k) = t.root
          BY <5>1, RootOfRow DEF DescentInv
        <5> QED BY <1>4, <5>1, <5>2 DEF DescentInv, RootsDone
      <4>3. CASE \A t \in tokens : t.by # k
        BY <4>1, <4>3, RootOfOther DEF SpendInv, Fresh
      <4> QED BY <4>2, <4>3
    <3> QED BY <1>1, <1>4, <2>1, <2>2, <3>1 DEF DescentInv, RootsDone
  <2> HIDE DEF RootOf
  <2>11. OneLivePair'
    BY <2>1, <2>2, <2>3 DEF DescentInv, OneLivePair, IssuingAlone
  <2>12. IssuingAlone'
    BY <1>0, <1>2, <2>1, <2>2, <2>3, <2>9 DEF DescentInv, IssuingAlone
  <2>13. CodeAlone'
    BY <1>0, <1>2, <2>1, <2>2, <2>3, <2>9 DEF DescentInv, CodeAlone
  <2> QED BY <1>3, <2>6, <2>10, <2>11, <2>12, <2>13 DEF DescentInv
<1> QED BY <1>5, <1>6

\* A descent begins: nothing descends from the request yet.
LEMMA CreateCodeInDescent ==
  ASSUME OnFile, SpendInv, DescentInv, NEW q \in Requests, CreateCode(q)
  PROVE  DescentInv'
<1>t. TypeOK
  BY DEF OnFile
<1> DEFINE new == [by |-> q, grant |-> gid[q], used |-> FALSE, expired |-> FALSE]
<1>0. /\ pc[q] = "code" /\ pc' = [pc EXCEPT ![q] = "done"]
      /\ UNCHANGED <<grant, lastGrant, tokens, secret, gid>>
      /\ codes' = codes \/ codes' = codes \cup {new}
  BY DEF CreateCode, Answer
<1>1. pc'[q] = "done" /\ \A b \in Requests \ {q} : pc'[b] = pc[b]
  BY <1>t, <1>0 DEF TypeOK
<1>2. \A b \in Requests : Issuing(b)' <=> Issuing(b)
  BY <1>0, <1>1 DEF Issuing, Granted
<1>3. \A b \in Requests : RootOf(secret[b])' = RootOf(secret[b])
  BY <1>0 DEF RootOf
<1>4. ~Named(q)
  BY <1>0 DEF SpendInv, Fresh
<1>5. \A t \in tokens : t.root # q /\ t.root \in Requests
  BY <1>t, <1>0 DEF TypeOK, Tokens, DescentInv, RootsDone
<1>6. \A b \in Requests : pc[b] = "issue" => RootOf(secret[b]) # q
  <2> TAKE b \in Requests
  <2> HAVE pc[b] = "issue"
  <2>1. secret[b] # q
    BY <1>4 DEF Named, Spending
  <2>2. CASE \E t \in tokens : t.by = secret[b]
    <3>1. PICK t \in tokens : t.by = secret[b]
      BY <2>2
    <3>2. RootOf(secret[b]) = t.root
      BY <3>1, RootOfRow DEF DescentInv
    <3> QED BY <1>5, <3>1, <3>2
  <2>3. CASE \A t \in tokens : t.by # secret[b]
    BY <2>1, <2>3, RootOfOther
  <2> QED BY <2>2, <2>3
<1>7. \A c \in codes' : c \in codes \/ (c.by = q /\ c = new)
  BY <1>0
<1>8. NamesUnique'
  <2>1. \A c \in codes : c.by # q
    BY <1>4 DEF Named
  <2> HIDE DEF new
  <2> QED BY <1>0, <1>7, <2>1 DEF DescentInv, NamesUnique
<1> HIDE DEF RootOf, new
<1>9. RootsDone' /\ OneLivePair' /\ IdsInOrder'
  BY <1>0, <1>1, <1>5 DEF DescentInv, RootsDone, OneLivePair, IdsInOrder
<1>10. IssuingAlone'
  BY <1>0, <1>2, <1>3 DEF DescentInv, IssuingAlone
<1>11. CodeAlone'
  <2> SUFFICES ASSUME NEW c \in codes', ~c.used
               PROVE  /\ \A t \in tokens : t.root # c.by
                      /\ \A b \in Requests : Issuing(b) => RootOf(secret[b]) # c.by
    BY <1>0, <1>2, <1>3 DEF CodeAlone
  <2>1. CASE c \in codes
    BY <2>1 DEF DescentInv, CodeAlone
  <2>2. CASE c.by = q
    BY <1>5, <1>6, <2>2 DEF Issuing
  <2> QED BY <1>7, <2>1, <2>2
<1> QED BY <1>8, <1>9, <1>10, <1>11 DEF DescentInv

\* A new grant has nothing under it, and no request has loaded its id.
LEMMA CreateGrantInDescent ==
  ASSUME OnFile, DescentInv, NEW q \in Requests, CreateGrant(q)
  PROVE  DescentInv'
<1>t. TypeOK
  BY DEF OnFile
<1>1. CASE grant # NoGrant
  <2>1. /\ pc[q] = "create" /\ pc' = [pc EXCEPT ![q] = "done"]
        /\ UNCHANGED <<grant, lastGrant, codes, tokens, secret, gid>>
    BY <1>1 DEF CreateGrant, Answer
  <2>2. gid[q] <= lastGrant
    BY DEF DescentInv, IdsInOrder
  <2> QED BY <2>1, <2>2, MovesInDescent
<1>2. CASE grant = NoGrant
  <2>1. codes = {} /\ tokens = {}
    BY <1>2 DEF OnFile, NothingOutlivesItsGrant, Granted
  <2>2. /\ lastGrant' = lastGrant + 1 /\ grant'.id = lastGrant + 1
        /\ gid' = [gid EXCEPT ![q] = lastGrant + 1]
        /\ pc' = [pc EXCEPT ![q] = "code"] /\ UNCHANGED <<codes, tokens>>
    BY <1>2 DEF CreateGrant, GoTo
  <2>3. /\ gid'[q] = lastGrant + 1 /\ pc'[q] = "code"
        /\ \A b \in Requests \ {q} : gid'[b] = gid[b]
    BY <1>t, <2>2 DEF TypeOK
  <2>4. lastGrant \in Nat /\ \A b \in Requests : gid[b] \in Nat /\ gid[b] <= lastGrant
    BY <1>t DEF TypeOK, DescentInv, IdsInOrder
  <2>5. IdsInOrder'
    BY <2>2, <2>3, <2>4 DEF IdsInOrder
  <2>6. \A b \in Requests : ~Issuing(b)'
    BY <2>2, <2>3, <2>4 DEF Issuing, Granted
  <2> QED BY <2>1, <2>2, <2>5, <2>6
          DEF DescentInv, NamesUnique, RootsDone, OneLivePair, IssuingAlone, CodeAlone
<1> QED BY <1>1, <1>2

\* The grant takes every descent with it.
LEMMA DeleteGrantInDescent ==
  ASSUME OnFile, DescentInv, NEW q \in Requests, DeleteGrant(q)
  PROVE  DescentInv'
<1>t. TypeOK
  BY DEF OnFile
<1>1. /\ pc[q] = "delete" /\ pc' = [pc EXCEPT ![q] = "done"]
      /\ UNCHANGED <<lastGrant, secret, gid>>
  BY DEF DeleteGrant, Answer
<1>2. CASE ~Granted(gid[q])
  <2>1. UNCHANGED <<grant, codes, tokens>>
    BY <1>2 DEF DeleteGrant, OnFile, NothingOutlivesItsGrant, Granted
  <2>2. gid[q] <= lastGrant
    BY DEF DescentInv, IdsInOrder
  <2> QED BY <1>1, <2>1, <2>2, MovesInDescent
<1>3. CASE Granted(gid[q])
  <2>1. grant' = NoGrant /\ codes' = {} /\ tokens' = {}
    BY <1>3 DEF DeleteGrant, OnFile, NothingOutlivesItsGrant, Granted
  <2>2. IdsInOrder'
    BY <1>1, <2>1 DEF DescentInv, IdsInOrder
  <2>3. \A b \in Requests : ~Issuing(b)'
    BY <2>1 DEF Issuing, Granted
  <2> QED BY <2>1, <2>2, <2>3
          DEF DescentInv, NamesUnique, RootsDone, OneLivePair, IssuingAlone, CodeAlone
<1> QED BY <1>2, <1>3

LEMMA NextDescent == OnFile /\ SpendInv /\ DescentInv /\ [Next]_vars => DescentInv'
<1> SUFFICES ASSUME OnFile, SpendInv, DescentInv, [Next]_vars PROVE DescentInv'
  OBVIOUS
<1>t. TypeOK
  BY DEF OnFile
<1>i. IdsInOrder /\ NamesUnique
  BY DEF DescentInv
<1>r. \A t \in tokens : t.root \in Requests
  BY <1>t DEF TypeOK, Tokens
<1> USE DEF GoTo, Answer, Receive, rows, account
<1>1. ASSUME NEW q \in Requests,
             \/ OpenPage(q) \/ (\E p \in Projects : Consent(q, p)) \/ LookUpGrant(q)
             \/ Repoint(q) \/ ReadCode(q) \/ ReadToken(q) \/ Known(q) \/ ReadUser(q)
             \/ ReadMember(q) \/ FindGrant(q) \/ Fail(q)
             \/ (\E k \in Requests : LoadCode(q, k) \/ LoadToken(q, k) \/ LoadAccess(q, k))
      PROVE  DescentInv'
  <2>1. UNCHANGED <<codes, tokens, lastGrant>>
    BY <1>1 DEF OpenPage, Consent, LookUpGrant, Repoint, Known, ReadUser, ReadMember,
                FindGrant, Fail, ReadCode, ReadToken, LoadCode, LoadToken, LoadAccess
  <2>2. PICK step : pc' = [pc EXCEPT ![q] = step] /\ step # "issue" /\ pc[q] # "done"
    BY <1>1 DEF OpenPage, Consent, LookUpGrant, Repoint, Known, ReadUser, ReadMember,
                FindGrant, Fail, ReadCode, ReadToken, LoadCode, LoadToken, LoadAccess,
                InFlight, Spending, Consenting, Resolving
  <2>3. \A b \in Requests \ {q} : secret'[b] = secret[b] /\ gid'[b] = gid[b]
    BY <1>t, <1>1 DEF OpenPage, Consent, LookUpGrant, Repoint, Known, ReadUser, ReadMember,
                FindGrant, Fail, ReadCode, ReadToken, LoadCode, LoadToken, LoadAccess, TypeOK
  <2>4. gid'[q] <= lastGrant
    <3>1. gid'[q] = gid[q] \/ Granted(gid'[q])
      BY <1>t, <1>1 DEF OpenPage, Consent, LookUpGrant, Repoint, Known, ReadUser, ReadMember,
                FindGrant, Fail, ReadCode, ReadToken, LoadCode, LoadToken, LoadAccess, TypeOK,
                Granted, OnFile, NothingOutlivesItsGrant
    <3> QED BY <1>i, <3>1 DEF IdsInOrder, Granted
  <2>5. grant' # NoGrant => grant # NoGrant /\ grant'.id = grant.id
    <3>1. CASE Repoint(q)
      BY <1>t, <3>1 DEF Repoint, Granted, TypeOK, Grants
    <3>2. CASE ~Repoint(q)
      BY <1>1, <3>2 DEF OpenPage, Consent, LookUpGrant, Known, ReadUser, ReadMember,
                FindGrant, Fail, ReadCode, ReadToken, LoadCode, LoadToken, LoadAccess
    <3> QED BY <3>1, <3>2
  <2> QED BY <2>1, <2>2, <2>3, <2>4, <2>5, MovesInDescent
<1>2. ASSUME NEW k \in Requests, RevokeToken(k) \/ ExpireAccess(k) PROVE DescentInv'
  <2>1. /\ UNCHANGED <<grant, lastGrant, codes, pc, secret, gid>>
        /\ \/ tokens' = {IF t.by = k THEN [t EXCEPT !.revoked = TRUE] ELSE t : t \in tokens}
           \/ tokens' = {IF t.by = k THEN [t EXCEPT !.expired = TRUE] ELSE t : t \in tokens}
    BY <1>2 DEF RevokeToken, RevokePair, ExpireAccess
  <2>2. /\ \A t \in tokens' : \E s \in tokens :
              s.by = t.by /\ s.root = t.root /\ (s.revoked => t.revoked)
        /\ \A s \in tokens : \E t \in tokens' : t.by = s.by
        /\ \A t, u \in tokens' : t.by = u.by => t = u
    BY <1>i, <2>1, TokensInDescent
  <2>3. NamesUnique' /\ IdsInOrder'
    BY <1>i, <2>1, <2>2 DEF NamesUnique, IdsInOrder
  <2>4. \A q \in Requests : Issuing(q)' => Issuing(q)
    BY <2>1 DEF Issuing, Granted
  <2> QED BY <1>r, <2>1, <2>2, <2>3, <2>4, KeepsDescent
<1>3. ASSUME NEW k \in Requests, ExpireCode(k) PROVE DescentInv'
  <2>1. UNCHANGED <<grant, lastGrant, tokens, pc, secret, gid>>
    BY <1>3 DEF ExpireCode
  <2>s. \/ codes' = {IF c.by = k THEN [c EXCEPT !.used = TRUE] ELSE c : c \in codes}
        \/ codes' = {IF c.by = k THEN [c EXCEPT !.expired = TRUE] ELSE c : c \in codes}
    BY <1>3 DEF ExpireCode
  <2>2. /\ \A c \in codes' : \E b \in codes : b.by = c.by /\ (b.used => c.used)
        /\ \A b, c \in codes' : b.by = c.by => b = c
    BY <1>i, <2>s, CodesInDescent
  <2>3. NamesUnique' /\ IdsInOrder'
    BY <1>i, <2>1, <2>2 DEF NamesUnique, IdsInOrder
  <2>4. \A q \in Requests : Issuing(q)' => Issuing(q)
    BY <2>1 DEF Issuing, Granted
  <2> QED BY <1>r, <2>1, <2>2, <2>3, <2>4, KeepsDescent
<1>4. ASSUME \/ \E p \in Projects, r \in 0..MaxRole : ChangeMembership(p, r)
             \/ SwitchAccount
             \/ UNCHANGED vars
      PROVE  DescentInv'
  <2>1. UNCHANGED <<grant, lastGrant, codes, tokens, pc, secret, gid>>
    BY <1>4 DEF ChangeMembership, SwitchAccount, vars
  <2>2. NamesUnique' /\ IdsInOrder'
    BY <1>i, <2>1 DEF NamesUnique, IdsInOrder
  <2>3. \A q \in Requests : Issuing(q)' => Issuing(q)
    BY <2>1 DEF Issuing, Granted
  <2> QED BY <1>r, <2>1, <2>2, <2>3, KeepsDescent
<1> QED BY <1>1, <1>2, <1>3, <1>4, ClaimCodeInDescent, ClaimTokenInDescent, IssueInDescent,
           CreateCodeInDescent, CreateGrantInDescent, DeleteGrantInDescent
        DEF Next, Step, Present, Rest

LEMMA AlwaysDescent == Spec => [](OnFile /\ SpendInv /\ DescentInv)
<1>1. Init => SpendInv
  BY DEF Init, SpendInv, Fresh, Named, Apart, Taken, Bought, SpentOnce, Spending
<1>2. Init => DescentInv
  BY DEF Init, DescentInv, IdsInOrder, NamesUnique, RootsDone, IssuingAlone, CodeAlone,
         OneLivePair, Issuing
<1> QED BY <1>1, <1>2, InitOnFile, NextOnFile, NextSpent, NextDescent, PTL DEF Spec

\* exchange_refresh_token hands a descent on and never forks it: however exchanges,
\* refreshes, revocations, failures and removals overlap, of the pairs that come from
\* one code one at most is live.
THEOREM DescentsDoNotFork == Spec => []OneLivePair
<1>1. DescentInv => OneLivePair
  BY DEF DescentInv
<1> QED BY <1>1, AlwaysDescent, PTL

LEMMA EndedStays ==
  ASSUME OnFile, SpendInv, DescentInv, Next, NEW k \in Requests, Ended(k)
  PROVE  ~Alive(k)'
<1>t. TypeOK
  BY DEF OnFile
<1>i. NamesUnique
  BY DEF DescentInv
<1>1. PICK c \in codes : c.by = k /\ c.used
  BY DEF Ended
<1>2. /\ \A t \in tokens : t.root = k => t.revoked
      /\ \A q \in Requests : pc[q] = "issue" => RootOf(secret[q]) # k
  BY <1>t DEF Ended, Alive, TypeOK, Tokens
<1>3. \A t \in tokens : t.by # k
  BY <1>1 DEF SpendInv, Apart
\* Steps that only remove or update rows, and let no request claim.
<1>4. ASSUME \A t \in tokens' : \E s \in tokens :
                 s.by = t.by /\ s.root = t.root /\ (s.revoked => t.revoked),
             NamesUnique',
             \A q \in Requests : pc'[q] = "issue" => pc[q] = "issue" /\ secret'[q] = secret[q]
      PROVE  ~Alive(k)'
  <2>1. \A t \in tokens' : t.root = k => t.revoked
    BY <1>2, <1>4
  <2>2. ASSUME NEW q \in Requests, pc'[q] = "issue" PROVE RootOf(secret[q])' # k
    <3>1. pc[q] = "issue" /\ secret'[q] = secret[q] /\ RootOf(secret[q]) # k
      BY <1>2, <1>4, <2>2
    <3>2. CASE \E t \in tokens' : t.by = secret[q]
      <4>1. PICK t \in tokens' : t.by = secret[q]
        BY <3>2
      <4>2. PICK s \in tokens : s.by = secret[q] /\ s.root = t.root
        BY <1>4, <4>1
      <4>3. RootOf(secret[q]) = s.root
        BY <1>i, <4>2, RootOfRow
      <4>4. \A u \in tokens' : u.by = secret[q] => u = t
        BY <1>4, <4>1 DEF NamesUnique
      <4>5. (CHOOSE u \in tokens' : u.by = secret'[q]) = t
        BY <3>1, <4>1, <4>4
      <4>6. RootOf(secret[q])' = t.root
        BY <3>1, <4>1, <4>5 DEF RootOf
      <4> QED BY <3>1, <4>2, <4>3, <4>6
    <3>3. CASE \A t \in tokens' : t.by # secret[q]
      <4>1. RootOf(secret[q])' = secret[q]
        BY <3>1, <3>3 DEF RootOf
      <4>2. secret[q] # k
        BY <1>3, <3>1, RootOfOther
      <4> QED BY <4>1, <4>2
    <3> QED BY <3>2, <3>3
  <2> QED BY <2>1, <2>2 DEF Alive
<1>5. NamesUnique'
  BY NextDescent DEF DescentInv
<1>6. ASSUME NEW q \in Requests,
             \/ OpenPage(q) \/ (\E p \in Projects : Consent(q, p)) \/ LookUpGrant(q)
             \/ CreateGrant(q) \/ Repoint(q) \/ CreateCode(q) \/ ReadCode(q) \/ ReadToken(q)
             \/ Known(q) \/ ReadUser(q) \/ ReadMember(q) \/ FindGrant(q) \/ DeleteGrant(q)
             \/ Fail(q)
             \/ (\E j \in Requests : LoadCode(q, j) \/ LoadToken(q, j) \/ LoadAccess(q, j))
      PROVE  ~Alive(k)'
  <2>1. tokens' \subseteq tokens
    BY <1>6 DEF OpenPage, Consent, LookUpGrant, CreateGrant, Repoint, CreateCode, ReadCode,
                ReadToken, Known, ReadUser, ReadMember, FindGrant, DeleteGrant, Fail,
                LoadCode, LoadToken, LoadAccess, rows
  <2>2. PICK step : pc' = [pc EXCEPT ![q] = step] /\ step # "issue"
    BY <1>6 DEF OpenPage, Consent, LookUpGrant, CreateGrant, Repoint, CreateCode, ReadCode,
                ReadToken, Known, ReadUser, ReadMember, FindGrant, DeleteGrant, Fail,
                LoadCode, LoadToken, LoadAccess, GoTo, Answer
  <2>3. \A b \in Requests \ {q} : secret'[b] = secret[b]
    BY <1>t, <1>6 DEF OpenPage, Consent, LookUpGrant, CreateGrant, Repoint, CreateCode,
                ReadCode, ReadToken, Known, ReadUser, ReadMember, FindGrant, DeleteGrant,
                Fail, LoadCode, LoadToken, LoadAccess, TypeOK
  <2>4. \A b \in Requests : pc'[b] = "issue" => pc[b] = "issue" /\ secret'[b] = secret[b]
    BY <1>t, <2>2, <2>3 DEF TypeOK
  <2> QED BY <1>4, <1>5, <2>1, <2>4
<1>7. ASSUME NEW j \in Requests, RevokeToken(j) \/ ExpireAccess(j) PROVE ~Alive(k)'
  <2>1. \/ tokens' = {IF t.by = j THEN [t EXCEPT !.revoked = TRUE] ELSE t : t \in tokens}
        \/ tokens' = {IF t.by = j THEN [t EXCEPT !.expired = TRUE] ELSE t : t \in tokens}
    BY <1>7 DEF RevokeToken, RevokePair, ExpireAccess
  <2>2. UNCHANGED <<pc, secret>>
    BY <1>7 DEF RevokeToken, ExpireAccess
  <2>3. \A t \in tokens' : \E s \in tokens :
           s.by = t.by /\ s.root = t.root /\ (s.revoked => t.revoked)
    BY <1>i, <2>1, TokensInDescent
  <2> QED BY <1>4, <1>5, <2>2, <2>3
<1>8. ASSUME \/ \E j \in Requests : ExpireCode(j)
             \/ \E p \in Projects, r \in 0..MaxRole : ChangeMembership(p, r)
             \/ SwitchAccount \/ UNCHANGED vars
      PROVE  ~Alive(k)'
  <2>1. UNCHANGED <<tokens, pc, secret>>
    BY <1>8 DEF ExpireCode, ChangeMembership, SwitchAccount, vars, rows
  <2> QED BY <1>4, <1>5, <2>1
<1>9. ASSUME NEW q \in Requests, ClaimCode(q) PROVE ~Alive(k)'
  <2>1. UNCHANGED <<tokens, secret>>
    BY <1>9 DEF ClaimCode
  <2>2. pc'[q] = "issue" => secret[q] # k /\ RootOf(secret[q]) = secret[q]
    <3>1. pc'[q] = "issue" => \E d \in codes : d.by = secret[q] /\ ~d.used
      BY <1>t, <1>9 DEF ClaimCode, Answer, TypeOK
    <3>2. (\E d \in codes : d.by = secret[q] /\ ~d.used) => secret[q] # k
      BY <1>i, <1>1 DEF NamesUnique
    <3>3. (\E d \in codes : d.by = secret[q]) => \A t \in tokens : t.by # secret[q]
      BY DEF SpendInv, Apart
    <3> QED BY <3>1, <3>2, <3>3, RootOfOther
  <2>3. \A b \in Requests \ {q} : pc'[b] = pc[b]
    BY <1>t, <1>9 DEF ClaimCode, GoTo, Answer, TypeOK
  <2>4. \A b \in Requests : RootOf(secret[b])' = RootOf(secret[b])
    BY <2>1 DEF RootOf
  <2> QED BY <1>2, <2>1, <2>2, <2>3, <2>4 DEF Alive
<1>10. ASSUME NEW q \in Requests, ClaimToken(q) PROVE ~Alive(k)'
  <2>1. UNCHANGED secret
    BY <1>10 DEF ClaimToken
  <2>2. tokens' = {IF t.by = secret[q] THEN [t EXCEPT !.revoked = TRUE] ELSE t : t \in tokens}
    BY <1>10 DEF ClaimToken, RevokePair
  <2>3. /\ \A t \in tokens' : \E s \in tokens :
              s.by = t.by /\ s.root = t.root /\ (s.revoked => t.revoked)
        /\ \A s \in tokens : \E t \in tokens' : t.by = s.by
    BY <1>i, <2>2, TokensInDescent, Zenon
  <2>4. pc'[q] = "issue" => RootOf(secret[q]) # k
    <3>1. pc'[q] = "issue" => \E t \in tokens : t.by = secret[q] /\ ~t.revoked
      BY <1>t, <1>10 DEF ClaimToken, Answer, TypeOK
    <3>2. ASSUME NEW t \in tokens, t.by = secret[q], ~t.revoked PROVE RootOf(secret[q]) # k
      BY <1>2, <1>i, <3>2, RootOfRow
    <3> QED BY <3>1, <3>2
  <2>5. \A b \in Requests \ {q} : pc'[b] = pc[b]
    BY <1>t, <1>10 DEF ClaimToken, GoTo, Answer, TypeOK
  <2>6. \A j : RootOf(j)' = RootOf(j)
    <3> TAKE j
    <3>1. \A t \in tokens' : t.by = j => \E s \in tokens : s.by = j /\ s.root = t.root
      BY <2>3
    <3>2. \A s \in tokens : s.by = j => \E t \in tokens' : t.by = j
      BY <2>3
    <3> QED BY <1>5, <1>i, <3>1, <3>2, KeepsRoot
  <2>7. \A b \in Requests : RootOf(secret[b])' = RootOf(secret[b])
    BY <2>1, <2>6
  <2> HIDE DEF RootOf
  <2> QED BY <1>2, <2>3, <2>4, <2>5, <2>7 DEF Alive
<1>11. ASSUME NEW q \in Requests, Issue(q) PROVE ~Alive(k)'
  <2> DEFINE new == NewPair(q, gid[q])
  <2>1. /\ pc[q] = "issue" /\ UNCHANGED secret /\ pc' = [pc EXCEPT ![q] = "done"]
        /\ tokens' = tokens \/ tokens' = tokens \cup {new}
    BY <1>11 DEF Issue, Answer
  <2>2. new.by = q /\ new.root = RootOf(secret[q])
    BY DEF NewPair
  <2>3. \A b \in Requests : pc'[b] = "issue" => pc[b] = "issue"
    BY <1>t, <2>1 DEF TypeOK
  <2>4. \A b \in Requests : pc[b] = "issue" => secret[b] # q
    BY <2>1 DEF SpendInv, Fresh, Named, Spending
  <2> HIDE DEF new
  <2>5. \A j : j # q => RootOf(j)' = RootOf(j)
    <3> TAKE j
    <3> HAVE j # q
    <3>1. \A t \in tokens' : t.by = j => \E s \in tokens : s.by = j /\ s.root = t.root
      BY <2>1, <2>2
    <3>2. \A s \in tokens : s.by = j => \E t \in tokens' : t.by = j
      BY <2>1
    <3> QED BY <1>5, <1>i, <3>1, <3>2, KeepsRoot
  <2>6. \A b \in Requests : pc'[b] = "issue" => RootOf(secret[b])' = RootOf(secret[b])
    BY <2>1, <2>3, <2>4, <2>5
  <2>7. \A t \in tokens' : t.root = k => t.revoked
    BY <1>2, <2>1, <2>2
  <2> HIDE DEF RootOf
  <2> QED BY <1>2, <2>3, <2>6, <2>7 DEF Alive
<1> QED BY <1>6, <1>7, <1>8, <1>9, <1>10, <1>11 DEF Next, Step, Present, Rest

\* What the client has revoked, or a failed refresh has spent, stays out of use: no
\* refresh still on its way brings the descent of a code back to life.
THEOREM EndedDescentsStayEnded == Spec => EndedStaysEnded
<1>1. OnFile /\ SpendInv /\ DescentInv /\ [Next]_vars
        => [\A k \in Requests : Ended(k) => ~Alive(k)']_vars
  BY EndedStays
<1> QED BY <1>1, AlwaysDescent, PTL DEF Spec, EndedStaysEnded
=============================================================================
