--------------------------- MODULE Invites_proofs ---------------------------
(* Proofs about Invites, and about Logins as far as it is a composition with  *)
(* Invites, for any number of users, requests and uses.                      *)
EXTENDS Logins, FiniteSetTheorems, TLAPS

-----------------------------------------------------------------------------
(* Type correctness *)

Uses == [by : Requests, user : Users]

LEMMA TypeStep == TypeOK /\ [Next]_vars => TypeOK'
<1> SUFFICES ASSUME TypeOK, [Next]_vars PROVE TypeOK'
  OBVIOUS
<1> USE DEF TypeOK, link, GoTo, Answer, InFlight
<1>1. ASSUME NEW q \in Requests, NEW o \in {"open", "login"}, Validate(q, o) PROVE TypeOK'
  <2>1. PICK u \in Users : user' = [user EXCEPT ![q] = u]
    BY <1>1 DEF Validate
  <2>2. \E p \in {"openDomain", "loginDomain", "done"} : pc' = [pc EXCEPT ![q] = p]
    BY <1>1 DEF Validate
  <2> QED
    BY <1>1, <2>1, <2>2 DEF Validate
<1>2. ASSUME NEW q \in Requests, CheckDomain(q) PROVE TypeOK'
  BY <1>2 DEF CheckDomain
<1>3. ASSUME NEW q \in Requests, CheckMember(q) PROVE TypeOK'
  BY <1>3 DEF CheckMember
<1>4. ASSUME NEW q \in Requests, Claim(q) PROVE TypeOK'
  <2>1. user[q] \in Users
    BY <1>4 DEF Claim
  <2>2. [by |-> q, user |-> user[q]] \in Uses
    BY <2>1 DEF Uses
  <2>3. used' \subseteq Uses /\ members' \subseteq Users /\ useCount' \in Nat
    BY <1>4, <2>1, <2>2 DEF Claim, Uses
  <2>4. \E r \in {"invalid", "error", "ok"} : Answer(q, r)
    BY <1>4 DEF Claim
  <2> QED
    BY <1>4, <2>3, <2>4 DEF Claim, Uses
<1>5. ASSUME NEW u \in Users, AddMember(u) PROVE TypeOK'
  BY <1>5 DEF AddMember
<1>6. ASSUME NEW u \in Users, RemoveMember(u) PROVE TypeOK'
  BY <1>6 DEF RemoveMember
<1>7. CASE Expire
  BY <1>7 DEF Expire
<1>8. CASE Revoke
  BY <1>8 DEF Revoke
<1>9. CASE UNCHANGED vars
  BY <1>9 DEF vars
<1> QED
  BY <1>1, <1>2, <1>3, <1>4, <1>5, <1>6, <1>7, <1>8, <1>9 DEF Next, Step, Rest

\* Every reachable state has the types the module declares: in particular no request
\* gets to a claim without a user.
THEOREM TypeCorrect == Spec => []TypeOK
<1>1. Init => TypeOK
  <2> SUFFICES ASSUME Init PROVE TypeOK
    OBVIOUS
  <2>1. revoked \in BOOLEAN /\ expired \in BOOLEAN
    BY Zenon DEF Init
  <2> QED
    BY <2>1 DEF Init, TypeOK, InFlight
<1> QED
  BY <1>1, TypeStep, PTL DEF Spec

-----------------------------------------------------------------------------
(* The counter, the rows and the limit *)

\* The inductive invariant: a use belongs to a request that is through, so a claim
\* adds a row that was not there.
UsedByFinished == \A x \in used : pc[x.by] = "done"
CountInv == TypeOK /\ WithinLimit /\ IsFiniteSet(used) /\ CountMatchesUses /\ UsedByFinished

\* A step that takes no use and starts no finished request again.
LEMMA NoUse ==
    ASSUME CountInv, TypeOK', useCount' = useCount, used' = used,
           \A q \in Requests : pc[q] = "done" => pc'[q] = "done"
    PROVE  CountInv'
<1>1. \A x \in used : x.by \in Requests
  BY DEF CountInv, TypeOK
<1>2. UsedByFinished'
  BY <1>1 DEF CountInv, UsedByFinished
<1> QED
  BY <1>2 DEF CountInv, WithinLimit, CountMatchesUses

LEMMA CountStep == CountInv /\ [Next]_vars => CountInv'
<1> SUFFICES ASSUME CountInv, [Next]_vars PROVE CountInv'
  OBVIOUS
<1>0. TypeOK /\ TypeOK'
  BY TypeStep DEF CountInv
<1> USE DEF link, GoTo, Answer
<1>1. ASSUME NEW q \in Requests, Claim(q), user[q] \notin members, useCount < MaxUses
      PROVE CountInv'
  <2> DEFINE row == [by |-> q, user |-> user[q]]
  <2>0. ~(useCount >= MaxUses)
    <3>1. useCount \in Nat
      BY <1>0 DEF TypeOK
    <3> QED
      BY <1>1, <3>1, MaxUsesAssumption
  <2>1. /\ used' = used \cup {row}
        /\ useCount' = useCount + 1
        /\ pc[q] = "claim" /\ pc' = [pc EXCEPT ![q] = "done"]
    BY <1>1, <2>0 DEF Claim
  <2>2. row \notin used
    BY <2>1 DEF CountInv, UsedByFinished
  <2>3. IsFiniteSet(used') /\ Cardinality(used') = Cardinality(used) + 1
    BY <2>1, <2>2, FS_AddElement DEF CountInv
  <2>4. CountMatchesUses'
    BY <2>1, <2>3 DEF CountInv, CountMatchesUses
  <2>5. WithinLimit'
    <3>1. useCount \in Nat
      BY <1>0 DEF TypeOK
    <3> QED
      BY <1>1, <2>1, <3>1, MaxUsesAssumption DEF WithinLimit
  <2>6. \A x \in used' : x = row \/ x \in used
    BY <2>1
  <2>7. \A x \in used : x.by \in Requests /\ pc[x.by] = "done"
    BY <1>0 DEF CountInv, UsedByFinished, TypeOK
  <2>8. UsedByFinished'
    BY <1>0, <2>1, <2>6, <2>7 DEF UsedByFinished, TypeOK
  <2> QED
    BY <1>0, <2>3, <2>4, <2>5, <2>8 DEF CountInv
<1>2. ASSUME NEW q \in Requests, Claim(q), user[q] \in members \/ useCount >= MaxUses
      PROVE CountInv'
  <2>1. useCount' = useCount /\ used' = used
    BY <1>0, <1>2, MaxUsesAssumption DEF Claim, TypeOK
  <2>2. pc' = [pc EXCEPT ![q] = "done"]
    BY <1>2 DEF Claim
  <2> QED
    BY <1>0, <2>1, <2>2, NoUse DEF TypeOK
<1>3. ASSUME NEW q \in Requests,
             Validate(q, "open") \/ Validate(q, "login") \/ CheckDomain(q) \/ CheckMember(q)
      PROVE CountInv'
  <2>1. useCount' = useCount /\ used' = used /\ pc[q] # "done"
    BY <1>3 DEF Validate, CheckDomain, CheckMember
  <2>2. \A r \in Requests \ {q} : pc'[r] = pc[r]
    BY <1>0, <1>3 DEF Validate, CheckDomain, CheckMember, TypeOK
  <2> QED
    BY <1>0, <2>1, <2>2, NoUse
<1>4. ASSUME \/ \E u \in Users : AddMember(u) \/ RemoveMember(u)
             \/ Expire \/ Revoke \/ UNCHANGED vars
      PROVE CountInv'
  <2>1. UNCHANGED <<useCount, used, pc>>
    BY <1>4 DEF AddMember, RemoveMember, Expire, Revoke, vars
  <2> QED
    BY <1>0, <2>1, NoUse
<1>5. ASSUME NEW q \in Requests, Claim(q) PROVE CountInv'
  <2>1. useCount < MaxUses \/ useCount >= MaxUses
    BY <1>0, MaxUsesAssumption DEF TypeOK
  <2> QED
    BY <1>1, <1>2, <1>5, <2>1
<1> QED
  BY <1>3, <1>4, <1>5 DEF Next, Step, Rest

LEMMA CountHolds == Spec => []CountInv
<1>1. Init /\ TypeOK => CountInv
  <2> SUFFICES ASSUME Init, TypeOK PROVE CountInv
    OBVIOUS
  <2>1. TypeOK
    OBVIOUS
  <2>2. IsFiniteSet(used) /\ Cardinality(used) = 0
    BY FS_EmptySet DEF Init
  <2> QED
    BY <2>1, <2>2, MaxUsesAssumption DEF Init, CountInv, WithinLimit, CountMatchesUses,
       UsedByFinished
<1> QED
  BY <1>1, CountStep, TypeCorrect, PTL DEF Spec

\* However many requests were let through while a use was left, no more people get
\* in through a link than its max_uses says.
THEOREM LimitHolds == Spec => []WithinLimit
<1>1. CountInv => WithinLimit
  BY DEF CountInv
<1> QED
  BY <1>1, CountHolds, PTL

\* The use_count of a link is the number of its InviteUse rows at any time.
THEOREM CountMatches == Spec => []CountMatchesUses
<1>1. CountInv => CountMatchesUses
  BY DEF CountInv
<1> QED
  BY <1>1, CountHolds, PTL
-----------------------------------------------------------------------------
(* Logins: types, and what a request knows at each step *)

\* Who is found or made, and where the first login is stamped, at the steps after it;
\* and what a callback carries until it knows its account.
Found == \A q \in Requests :
    /\ login[q].step \in {"link", "identify", "first", "logFirst", "claim"} =>
           login[q].account \in accounts
    /\ login[q].step \in {"identify", "logFirst"} =>
           [by |-> q, user |-> login[q].account] \in stamped
    /\ login[q].step \in {"identity", "email", "link", "unknown", "name", "create", "identify"} =>
           login[q].sub \in Subs /\ login[q].email \in Users
TypeInv == LoginTypeOK /\ Found

LoginTypes ==
    [step : LoginSteps, sub : Subs \cup {NoSub}, email : Users \cup {NoUser},
     pending : BOOLEAN, account : accounts \cup {NoUser}, knew : BOOLEAN,
     attempt : Names, after : SUBSET Requests, barred : BOOLEAN]

LEMMA LoginTypeInit == LoginInit => TypeInv
<1> SUFFICES ASSUME LoginInit PROVE TypeInv
  OBVIOUS
<1>1. TypeOK
  <2>1. revoked \in BOOLEAN /\ expired \in BOOLEAN
    BY Zenon DEF LoginInit, Init
  <2> QED
    BY <2>1 DEF LoginInit, Init, TypeOK, InFlight
<1>2. PICK x \in Settings : accounts = x.accounts /\ name = x.name /\ may = x.may
  BY DEF LoginInit
<1>3. /\ accounts \subseteq Users /\ name \in [Users -> Names]
      /\ may \subseteq {"callback", "token", "open"} \cup Upsets
  BY <1>2, LoginsAssumption
<1>4. NoLogin \in LoginTypes
  BY DEF NoLogin, LoginTypes, LoginSteps, Ends, Names
<1>5. login \in [Requests -> LoginTypes] /\ \A q \in Requests : login[q].step = "idle"
  BY <1>4 DEF LoginInit, NoLogin
<1>6. upsets \in 0..MaxUpsets
  BY LoginsAssumption DEF LoginInit
<1> QED
  BY <1>1, <1>3, <1>5, <1>6 DEF LoginInit, TypeInv, LoginTypeOK, LoginTypes, Found

(* Logins *)

LEMMA StepOfInvites ==
    ASSUME accounts \subseteq Users, [LoginNext]_<<vars, loginVars>> PROVE [Next]_vars
<1>1. ASSUME NEW q \in Requests, OpenLink(q) \/ ClaimPending(q) \/ ContinueClaim(q)
      PROVE  Next
  BY <1>1 DEF OpenLink, ClaimPending, ContinueClaim, Next, Step
<1>2. ASSUME ManageLink PROVE Next
  <2>1. ASSUME NEW u \in accounts, AddMember(u) \/ RemoveMember(u) PROVE Next
    BY <2>1 DEF Next
  <2>2. ASSUME Expire \/ Revoke PROVE Next
    BY <2>2 DEF Next
  <2> QED
    BY <1>2, <2>1, <2>2 DEF ManageLink
<1>3. UNCHANGED <<vars, loginVars>> => UNCHANGED vars
  OBVIOUS
<1> QED
  BY <1>1, <1>2, <1>3 DEF LoginNext, LoginRest

LEMMA StartedTypes ==
    ASSUME NEW step \in LoginSteps
    PROVE  /\ Started(step) \in LoginTypes /\ Started(step).step = step
           /\ Started(step).sub = NoSub /\ Started(step).barred = FALSE
           /\ \A r \in Started(step).after : login[r].step \in Ends \cup {"claim", "open"}
<1> DEFINE A == {r \in Requests : Finished(r)}
<1>1. A \in SUBSET Requests
  OBVIOUS
<1>2. Started(step) = [NoLogin EXCEPT !.step = step, !.after = A]
  BY DEF Started
<1>3. NoLogin \in LoginTypes
  BY DEF NoLogin, LoginTypes, LoginSteps, Ends, Names
<1>4. \A r \in A : login[r].step \in Ends \cup {"claim", "open"}
  BY DEF Finished
<1> HIDE DEF A
<1>5. Started(step) \in LoginTypes /\ Started(step).after = A
  BY <1>1, <1>2, <1>3 DEF LoginTypes
<1>6. Started(step).step = step /\ Started(step).sub = NoSub /\ Started(step).barred = FALSE
  BY <1>2 DEF NoLogin
<1> QED
  BY <1>4, <1>5, <1>6

\* A step that only begins a login.
LEMMA BeginTypes ==
    ASSUME TypeInv, TypeOK', NEW q \in Requests, NEW l \in LoginTypes,
           l.step \in {"identity", "first", "open"},
           l.step = "identity" => l.sub \in Subs /\ l.email \in Users,
           l.step = "first" => l.account \in accounts,
           login' = [login EXCEPT ![q] = l],
           UNCHANGED <<may, accountRows, identity, stamped, logged, unlinked, upsets>>
    PROVE  TypeInv'
<1>1. login \in [Requests -> LoginTypes] /\ LoginTypes' = LoginTypes
  BY DEF TypeInv, LoginTypeOK, LoginTypes, accountRows
<1>2. login' \in [Requests -> LoginTypes']
  BY <1>1
<1>3. LoginTypeOK'
  BY <1>2 DEF TypeInv, LoginTypeOK, LoginTypes, accountRows
<1>4. Found'
  BY <1>1 DEF TypeInv, Found, LoginTypeOK, accountRows
<1> QED
  BY <1>3, <1>4 DEF TypeInv

LEMMA LoginTypeStep == TypeInv /\ [LoginNext]_<<vars, loginVars>> => TypeInv'
<1> SUFFICES ASSUME TypeInv, [LoginNext]_<<vars, loginVars>> PROVE TypeInv'
  OBVIOUS
<1>0. TypeOK'
  BY StepOfInvites, TypeStep DEF TypeInv, LoginTypeOK
<1> USE DEF TypeInv, LoginTypeOK, Found, LoginSteps, Ends, Names, accountRows, loginVars, Proceed
<1>1. ASSUME NEW q \in Requests, NEW p \in Profiles, Callback(q, p[1], p[2]) PROVE TypeInv'
  <2>1. p[1] \in Subs /\ p[2] \in Users
    BY LoginsAssumption
  <2>2. PICK carries \in BOOLEAN :
            login' = [login EXCEPT ![q] = [Started("identity") EXCEPT
                !.sub = p[1], !.email = p[2], !.pending = carries, !.barred = Barred(p[1])]]
    BY <1>1 DEF Callback
  <2> DEFINE l == [Started("identity") EXCEPT
                !.sub = p[1], !.email = p[2], !.pending = carries, !.barred = Barred(p[1])]
  <2>3. Barred(p[1]) \in BOOLEAN
    BY <2>1 DEF Barred
  <2>4. l \in LoginTypes /\ l.step = "identity" /\ l.sub = p[1] /\ l.email = p[2]
    <3>1. Started("identity") \in LoginTypes /\ Started("identity").step = "identity"
      BY StartedTypes
    <3> HIDE DEF TypeInv
    <3> QED
      BY <2>1, <2>3, <3>1 DEF LoginTypes
  <2> HIDE DEF l, TypeInv
  <2> QED
    BY <1>0, <1>1, <2>1, <2>2, <2>4, BeginTypes DEF Callback, l
<1>2. ASSUME NEW q \in Requests, NEW u \in Users, TokenLogin(q, u) PROVE TypeInv'
  <2>1. PICK carries \in BOOLEAN :
            login' = [login EXCEPT ![q] = [Started("first") EXCEPT
                !.account = u, !.knew = u \in welcomed, !.pending = carries]]
    BY <1>2 DEF TokenLogin
  <2> DEFINE l == [Started("first") EXCEPT
                !.account = u, !.knew = u \in welcomed, !.pending = carries]
  <2>2. u \in accounts
    BY <1>2 DEF TokenLogin
  <2>3. l \in LoginTypes /\ l.step = "first" /\ l.account = u
    <3>1. Started("first") \in LoginTypes /\ Started("first").step = "first"
      BY StartedTypes
    <3>2. (u \in welcomed) \in BOOLEAN
      OBVIOUS
    <3> HIDE DEF TypeInv
    <3> QED
      BY <2>2, <3>1, <3>2 DEF LoginTypes
  <2> HIDE DEF l, TypeInv
  <2> QED
    BY <1>0, <1>2, <2>1, <2>2, <2>3, BeginTypes DEF TokenLogin, l
<1>3. ASSUME NEW q \in Requests, FindIdentity(q) PROVE TypeInv'
  BY <1>0, <1>3 DEF FindIdentity
<1>4. ASSUME NEW q \in Requests, FindEmail(q) PROVE TypeInv'
  BY <1>0, <1>4 DEF FindEmail
<1>5. ASSUME NEW q \in Requests, Identify(q) PROVE TypeInv'
  BY <1>0, <1>5 DEF Identify
<1>6. ASSUME NEW q \in Requests, Unknown(q) PROVE TypeInv'
  BY <1>0, <1>6 DEF Unknown
<1>7. ASSUME NEW q \in Requests, TryName(q) PROVE TypeInv'
  BY <1>0, <1>7 DEF TryName
<1>8. ASSUME NEW q \in Requests, CreateAccount(q) PROVE TypeInv'
  <2> DEFINE u == login[q].email
  <2>1. login[q].step = "create" /\ u \in Users /\ login[q].attempt \in Names
    BY <1>8 DEF CreateAccount
  <2>2. CASE u \in accounts \/ Taken(login[q].attempt)
    BY <1>0, <1>8, <2>2 DEF CreateAccount
  <2>3. CASE ~(u \in accounts \/ Taken(login[q].attempt))
    <3>1. /\ accounts' = accounts \cup {u} /\ active' = [active EXCEPT ![u] = TRUE]
          /\ welcomed' = welcomed \cup {u} /\ name' = [name EXCEPT ![u] = login[q].attempt]
          /\ stamped' = stamped \cup {[by |-> q, user |-> u]}
          /\ login' = [login EXCEPT ![q].step = "identify", ![q].account = u,
                                    ![q].knew = TRUE]
          /\ UNCHANGED <<may, identity, logged, unlinked, upsets>>
      BY <1>8, <2>3 DEF CreateAccount
    <3>2. /\ may' \subseteq {"callback", "token", "open"} \cup Upsets
          /\ accounts' \subseteq Users /\ welcomed' \subseteq accounts'
          /\ active' \in [Users -> BOOLEAN] /\ name' \in [Users -> Names]
          /\ identity' \in [Subs -> accounts' \cup {NoUser}]
          /\ logged' \subseteq stamped' /\ unlinked' \subseteq Subs /\ upsets' \in 0..MaxUpsets
      BY <2>1, <3>1
    <3>3. stamped' \subseteq [by : Requests, user : accounts']
      BY <2>1, <3>1
    <3>4. login' \in [Requests -> LoginTypes']
      <4>1. \A r \in Requests : login[r] \in LoginTypes'
        BY <3>1 DEF LoginTypes
      <4>2. [login[q] EXCEPT !.step = "identify", !.account = u, !.knew = TRUE] \in LoginTypes'
        <5>1. /\ login[q] \in LoginTypes' /\ u \in accounts' \cup {NoUser}
              /\ "identify" \in LoginSteps /\ TRUE \in BOOLEAN
          BY <3>1, <4>1
        <5> HIDE DEF u, TypeInv, LoginTypeOK, Found
        <5> QED
          BY <5>1 DEF LoginTypes
      <4> QED
        BY <3>1, <4>1, <4>2
    <3>5. Found'
      BY <2>1, <3>1
    <3> QED
      BY <1>0, <3>2, <3>3, <3>4, <3>5 DEF LoginTypes
  <2> QED
    BY <2>2, <2>3
<1>9. ASSUME NEW q \in Requests, First(q) PROVE TypeInv'
  <2> DEFINE u == login[q].account
  <2>1. login[q].step = "first" /\ u \in accounts
    BY <1>9 DEF First
  <2>2. CASE login[q].knew
    BY <1>0, <1>9, <2>2 DEF First
  <2>3. CASE ~login[q].knew
    <3>1. /\ welcomed' = welcomed \cup {u} /\ stamped' = stamped \cup {[by |-> q, user |-> u]}
          /\ login' = [login EXCEPT ![q].step = "logFirst"]
          /\ UNCHANGED <<may, accounts, active, name, identity, logged, unlinked, upsets>>
      BY <1>9, <2>3 DEF First
    <3>2. stamped' \subseteq [by : Requests, user : accounts']
      BY <2>1, <3>1
    <3>3. login' \in [Requests -> LoginTypes']
      BY <3>1 DEF LoginTypes
    <3>4. Found'
      BY <2>1, <3>1
    <3> QED
      BY <1>0, <2>1, <3>1, <3>2, <3>3, <3>4 DEF LoginTypes
  <2> QED
    BY <2>2, <2>3
<1>10. ASSUME NEW q \in Requests, LogFirst(q) PROVE TypeInv'
  BY <1>0, <1>10 DEF LogFirst
<1>11. ASSUME NEW q \in Requests, Fail(q) PROVE TypeInv'
  BY <1>0, <1>11, LoginsAssumption DEF Fail, Upset
<1>12. ASSUME NEW u \in Users, NEW n \in 1..Cardinality(Users), CreateUser(u, n) PROVE TypeInv'
  BY <1>0, <1>12, LoginsAssumption DEF CreateUser, Upset
<1>13. ASSUME NEW u \in Users, SwitchAccount(u) PROVE TypeInv'
  <2> DEFINE l(q) == [login[q] EXCEPT !.barred = @ /\ (identity[login[q].sub] # u \/ active[u])]
  <2>1. /\ login' = [q \in Requests |-> l(q)] /\ active' \in [Users -> BOOLEAN]
        /\ upsets' \in 0..MaxUpsets
    BY <1>13, LoginsAssumption DEF SwitchAccount, Upset
  <2>2. ASSUME NEW q \in Requests
        PROVE  /\ l(q) \in LoginTypes /\ l(q).step = login[q].step /\ l(q).sub = login[q].sub
               /\ l(q).email = login[q].email /\ l(q).account = login[q].account
    <3>1. login[q] \in LoginTypes /\ active[u] \in BOOLEAN
      BY DEF LoginTypes
    <3>2. (login[q].barred /\ (identity[login[q].sub] # u \/ active[u])) \in BOOLEAN
      OBVIOUS
    <3> QED
      BY <3>1, <3>2 DEF LoginTypes
  <2> HIDE DEF l
  <2> QED
    BY <1>0, <1>13, <2>1, <2>2 DEF SwitchAccount, LoginTypes
<1>14. ASSUME NEW s \in Subs, Unlink(s) PROVE TypeInv'
  <2> DEFINE l(q) == [login[q] EXCEPT !.barred = @ /\ login[q].sub # s]
  <2>1. /\ login' = [q \in Requests |-> l(q)] /\ upsets' \in 0..MaxUpsets
        /\ identity' \in [Subs -> accounts \cup {NoUser}]
    BY <1>14, LoginsAssumption DEF Unlink, Upset
  <2>2. ASSUME NEW q \in Requests
        PROVE  /\ l(q) \in LoginTypes /\ l(q).step = login[q].step /\ l(q).sub = login[q].sub
               /\ l(q).email = login[q].email /\ l(q).account = login[q].account
    <3>1. login[q] \in LoginTypes
      BY DEF LoginTypes
    <3>2. (login[q].barred /\ login[q].sub # s) \in BOOLEAN
      OBVIOUS
    <3> HIDE DEF TypeInv, LoginTypeOK, Found
    <3> QED
      BY <3>1, <3>2 DEF LoginTypes
  <2> HIDE DEF l
  <2> QED
    BY <1>0, <1>14, <2>1, <2>2 DEF Unlink, LoginTypes
<1>15. ASSUME NEW q \in Requests, OpenLink(q) PROVE TypeInv'
  <2>1. Started("open") \in LoginTypes /\ Started("open").step = "open"
    BY StartedTypes
  <2> HIDE DEF TypeInv
  <2> QED
    BY <1>0, <1>15, <2>1, BeginTypes DEF OpenLink
<1>16. ASSUME ManageLink PROVE TypeInv'
  BY <1>0, <1>16, LoginsAssumption DEF ManageLink, Upset
<1>17. ASSUME UNCHANGED loginVars PROVE TypeInv'
  BY <1>0, <1>17
<1> QED
  BY <1>1, <1>2, <1>3, <1>4, <1>5, <1>6, <1>7, <1>8, <1>9, <1>10, <1>11, <1>12, <1>13,
     <1>14, <1>15, <1>16, <1>17
     DEF LoginNext, LoginStep, Manage, LoginRest, ClaimPending, ContinueClaim

LEMMA TypeInvHolds == LoginSpec => []TypeInv
<1> QED
  BY LoginTypeInit, LoginTypeStep, PTL DEF LoginSpec

\* A login is never at a step without what that step reads: the profile a provider
\* vouched for, then the account, which has a row.
THEOREM LoginTypeCorrect == LoginSpec => []LoginTypeOK
<1>1. TypeInv => LoginTypeOK
  BY DEF TypeInv
<1> QED
  BY <1>1, TypeInvHolds, PTL

\* Composed with the logins, the link behaves as it does on its own: whatever a login,
\* an admin or a failure does is a step of Invites or leaves the link alone.
THEOREM LoginsUseInvites == LoginSpec => Spec
<1>1. LoginInit => Init
  BY DEF LoginInit
<1>2. TypeInv /\ [LoginNext]_<<vars, loginVars>> => [Next]_vars
  BY StepOfInvites DEF TypeInv, LoginTypeOK
<1> QED
  BY <1>1, <1>2, TypeInvHolds, PTL DEF LoginSpec, Spec

\* A link that logins carry is not used more often than its max_uses either, and its
\* use_count is the number of InviteUse rows, however many logins overlap or fail.
THEOREM LoginsKeepTheLimit == LoginSpec => [](WithinLimit /\ CountMatchesUses)
<1> QED
  BY LoginsUseInvites, LimitHolds, CountMatches, PTL

-----------------------------------------------------------------------------
(* Logins: who gets in *)

\* From the moment its account is known, a login is in the account of its identity;
\* while its identity is barred it gets no further than making an account.
Identified == \A q \in Requests :
    login[q].step \in {"first", "logFirst", "claim"} /\ login[q].sub \in Subs \ unlinked =>
        identity[login[q].sub] = login[q].account
HeldOut == \A q \in Requests : login[q].barred =>
    /\ login[q].sub \in Subs /\ Barred(login[q].sub)
    /\ login[q].step \in {"identity", "unknown", "name", "create", "identify"} \cup Ends

IdentityInv == TypeInv /\ Identified /\ HeldOut

LEMMA IdentityInit == LoginInit /\ TypeInv => Identified /\ HeldOut
  BY DEF LoginInit, NoLogin, Identified, HeldOut

LEMMA IdentityStep ==
    IdentityInv /\ TypeInv' /\ [LoginNext]_<<vars, loginVars>> => IdentityInv'
<1> SUFFICES ASSUME IdentityInv, TypeInv', [LoginNext]_<<vars, loginVars>>
             PROVE  Identified' /\ HeldOut'
  BY DEF IdentityInv
<1> USE DEF IdentityInv, TypeInv, LoginTypeOK, Found, Ends, Identified, HeldOut, Barred,
            accountRows, loginVars, Proceed
<1>1. ASSUME NEW q \in Requests, NEW p \in Profiles, Callback(q, p[1], p[2])
      PROVE  Identified' /\ HeldOut'
  <2>1. p[1] \in Subs
    BY LoginsAssumption
  <2>2. /\ \A r \in Requests \ {q} : login'[r] = login[r]
        /\ login'[q].step = "identity" /\ login'[q].sub = p[1] /\ login'[q].barred = Barred(p[1])
    <3>1. Started("identity") \in LoginTypes
      BY StartedTypes DEF LoginSteps
    <3>2. PICK carries \in BOOLEAN :
              login' = [login EXCEPT ![q] = [Started("identity") EXCEPT
                  !.sub = p[1], !.email = p[2], !.pending = carries, !.barred = Barred(p[1])]]
      BY <1>1 DEF Callback
    <3> HIDE DEF Barred
    <3>3. login'[q] = [Started("identity") EXCEPT
                  !.sub = p[1], !.email = p[2], !.pending = carries, !.barred = Barred(p[1])]
      BY <3>2
    <3> QED
      BY <3>1, <3>2, <3>3, StartedTypes DEF LoginTypes, LoginSteps
  <2> QED
    BY <1>1, <2>1, <2>2 DEF Callback
<1>2. ASSUME NEW q \in Requests, NEW u \in Users, TokenLogin(q, u)
      PROVE  Identified' /\ HeldOut'
  <2>1. /\ \A r \in Requests \ {q} : login'[r] = login[r]
        /\ login'[q].sub = NoSub /\ login'[q].barred = FALSE
    <3>1. /\ Started("first") \in LoginTypes /\ Started("first").sub = NoSub
          /\ Started("first").barred = FALSE
      BY StartedTypes DEF LoginSteps
    <3>2. PICK carries \in BOOLEAN :
              login' = [login EXCEPT ![q] = [Started("first") EXCEPT
                  !.account = u, !.knew = u \in welcomed, !.pending = carries]]
      BY <1>2 DEF TokenLogin
    <3>3. login'[q] = [Started("first") EXCEPT
                  !.account = u, !.knew = u \in welcomed, !.pending = carries]
      BY <3>2
    <3> QED
      BY <3>1, <3>2, <3>3 DEF LoginTypes
  <2> QED
    BY <1>2, <2>1, LoginsAssumption DEF TokenLogin
<1>3. ASSUME NEW q \in Requests, OpenLink(q) PROVE Identified' /\ HeldOut'
  <2>1. /\ \A r \in Requests \ {q} : login'[r] = login[r]
        /\ login'[q].step = "open" /\ login'[q].barred = FALSE
    <3>1. Started("open").step = "open" /\ Started("open").barred = FALSE
      BY StartedTypes DEF LoginSteps
    <3>2. login' = [login EXCEPT ![q] = Started("open")]
      BY <1>3 DEF OpenLink
    <3> QED
      BY <3>1, <3>2
  <2> QED
    BY <1>3, <2>1 DEF OpenLink
<1>4. ASSUME NEW q \in Requests, FindIdentity(q) PROVE Identified' /\ HeldOut'
  BY <1>4 DEF FindIdentity
<1>5. ASSUME NEW q \in Requests, FindEmail(q) PROVE Identified' /\ HeldOut'
  <2>1. /\ login[q].step = "email" /\ ~login[q].barred
        /\ \A r \in Requests \ {q} : login'[r] = login[r]
    BY <1>5 DEF FindEmail
  <2>2. /\ login'[q].step \in {"link", "unknown"}
        /\ login'[q].barred = login[q].barred
    BY <1>5 DEF FindEmail
  <2> QED
    BY <1>5, <2>1, <2>2 DEF FindEmail
<1>6. ASSUME NEW q \in Requests, Identify(q) PROVE Identified' /\ HeldOut'
  <2> DEFINE s == login[q].sub
             next == IF login[q].step = "link" THEN "first" ELSE "logFirst"
  <2>1. CASE identity[s] = NoUser
    <3>1. /\ identity' = [identity EXCEPT ![s] = login[q].account]
          /\ login' = [login EXCEPT ![q].step = next] /\ s \in Subs
          /\ UNCHANGED <<active, unlinked>>
      BY <1>6, <2>1 DEF Identify
    <3>2. ~login[q].barred
      BY <1>6, <2>1
    <3>3. \A r \in Requests : login[r].barred => identity'[login[r].sub] = identity[login[r].sub]
      BY <2>1, <3>1
    <3>4. Identified'
      <4>1. ASSUME NEW r \in Requests \ {q},
                   login[r].step \in {"first", "logFirst", "claim"},
                   login[r].sub \in Subs \ unlinked
            PROVE  identity'[login[r].sub] = login[r].account
        <5>1. identity[login[r].sub] = login[r].account /\ login[r].account \in Users
          BY <4>1
        <5>2. login[r].sub # s
          BY <2>1, <5>1, UsersAssumption
        <5> QED
          BY <3>1, <5>1, <5>2
      <4> QED
        BY <3>1, <4>1
    <3>5. HeldOut'
      BY <3>1, <3>2, <3>3
    <3> QED
      BY <3>4, <3>5
  <2>2. CASE identity[s] # NoUser
    <3>1. /\ login' = [login EXCEPT ![q].step = "failed"]
          /\ UNCHANGED <<identity, active, unlinked>>
      BY <1>6, <2>2 DEF Identify
    <3> QED
      BY <3>1
  <2> QED
    BY <2>1, <2>2
<1>7. ASSUME NEW q \in Requests, Unknown(q) \/ TryName(q) PROVE Identified' /\ HeldOut'
  BY <1>7 DEF Unknown, TryName
<1>8. ASSUME NEW q \in Requests, CreateAccount(q) PROVE Identified' /\ HeldOut'
  BY <1>8 DEF CreateAccount
<1>9. ASSUME NEW q \in Requests, First(q) \/ LogFirst(q) PROVE Identified' /\ HeldOut'
  <2>1. /\ login[q].step \in {"first", "logFirst"} /\ ~login[q].barred
        /\ \E step \in {"logFirst", "claim"} : login' = [login EXCEPT ![q].step = step]
        /\ UNCHANGED <<active, identity, unlinked>>
    BY <1>9 DEF First, LogFirst
  <2> QED
    BY <2>1
<1>10. ASSUME NEW q \in Requests, Fail(q) PROVE Identified' /\ HeldOut'
  BY <1>10 DEF Fail
<1>11. ASSUME NEW u \in Users, NEW n \in 1..Cardinality(Users), CreateUser(u, n)
       PROVE  Identified' /\ HeldOut'
  BY <1>11 DEF CreateUser
<1>12. ASSUME NEW u \in Users, SwitchAccount(u) PROVE Identified' /\ HeldOut'
  <2> DEFINE l(q) == [login[q] EXCEPT !.barred = @ /\ (identity[login[q].sub] # u \/ active[u])]
  <2>1. /\ login' = [q \in Requests |-> l(q)] /\ active' = [active EXCEPT ![u] = ~@]
        /\ UNCHANGED <<identity, unlinked>>
    BY <1>12 DEF SwitchAccount
  <2>2. ASSUME NEW q \in Requests
        PROVE  /\ l(q).step = login[q].step /\ l(q).sub = login[q].sub
               /\ l(q).account = login[q].account
               /\ l(q).barred = (login[q].barred /\ (identity[login[q].sub] # u \/ active[u]))
    OBVIOUS
  <2> HIDE DEF l
  <2>3. Identified'
    BY <2>1, <2>2
  <2>4. HeldOut'
    BY <2>1, <2>2, UsersAssumption
  <2> QED
    BY <2>3, <2>4
<1>13. ASSUME NEW s \in Subs, Unlink(s) PROVE Identified' /\ HeldOut'
  <2> DEFINE l(q) == [login[q] EXCEPT !.barred = @ /\ login[q].sub # s]
  <2>1. /\ login' = [q \in Requests |-> l(q)] /\ identity' = [identity EXCEPT ![s] = NoUser]
        /\ unlinked' = unlinked \cup {s} /\ UNCHANGED active
    BY <1>13 DEF Unlink
  <2>2. ASSUME NEW q \in Requests
        PROVE  /\ l(q).step = login[q].step /\ l(q).sub = login[q].sub
               /\ l(q).account = login[q].account
               /\ l(q).barred = (login[q].barred /\ login[q].sub # s)
    OBVIOUS
  <2> HIDE DEF l
  <2>3. Identified'
    BY <2>1, <2>2
  <2>4. HeldOut'
    BY <2>1, <2>2
  <2> QED
    BY <2>3, <2>4
<1>14. ASSUME ManageLink \/ UNCHANGED loginVars PROVE Identified' /\ HeldOut'
  BY <1>14 DEF ManageLink
<1> QED
  BY <1>1, <1>2, <1>3, <1>4, <1>5, <1>6, <1>7, <1>8, <1>9, <1>10, <1>11, <1>12, <1>13, <1>14
     DEF LoginNext, LoginStep, Manage, LoginRest, ClaimPending, ContinueClaim

LEMMA IdentityHolds == LoginSpec => []IdentityInv
<1>1. LoginInit /\ TypeInv => IdentityInv
  BY IdentityInit DEF IdentityInv
<1> QED
  BY <1>1, IdentityStep, TypeInvHolds, PTL DEF LoginSpec

\* However many callbacks of one identity or of one email overlap or fail half way,
\* nobody is logged in to an account that is not the one of their identity.
THEOREM LoginsMeetIdentities == LoginSpec => []LoginMeetsIdentity
<1>1. IdentityInv => LoginMeetsIdentity
  BY DEF IdentityInv, Identified, LoginMeetsIdentity, LoggedIn
<1> QED
  BY <1>1, IdentityHolds, PTL

\* A deactivated account bars its identities from every way in, also from another
\* account that the email would lead to and from one an invite would make.
THEOREM DeactivatedStayOut == LoginSpec => []DeactivatedStaysOut
<1>1. IdentityInv => DeactivatedStaysOut
  BY DEF IdentityInv, HeldOut, DeactivatedStaysOut, LoggedIn, Ends
<1> QED
  BY <1>1, IdentityHolds, PTL

-----------------------------------------------------------------------------
(* Logins: the first one *)

\* Who is welcomed was stamped, and by a request that is past it.
StampsWelcome ==
    /\ \A u \in welcomed : \E e \in stamped : e.user = u
    /\ \A e \in stamped : e.user \in welcomed
StampsAreOwn == \A e \in stamped :
    /\ login[e.by].account = e.user
    /\ login[e.by].step \in {"identify", "logFirst", "failed", "claim"}
    /\ login[e.by].step = "claim" => e \in logged
Welcome == \A q \in Requests :
    \/ login[q].step \in {"logFirst", "claim"}
    \/ login[q].step \in {"link", "first"} /\ login[q].knew
    => login[q].account \in welcomed

\* What was over when a request began stamps nothing anymore, and what it stamped
\* the request finds welcomed.
AfterIsOver == \A q \in Requests : \A r \in login[q].after :
    login[r].step \in Ends \cup {"claim", "open"}
NoneBefore == \A q \in Requests : \A e \in stamped :
    login[q].step \in {"link", "first"} /\ ~login[q].knew /\ e.by \in login[q].after
    => e.user # login[q].account
StampedOnce == \A e, f \in stamped : e.user = f.user => e.by \notin login[f.by].after

StampInv == StampsWelcome /\ StampsAreOwn /\ Welcome /\ AfterIsOver /\ NoneBefore /\ StampedOnce

LEMMA StampInit == LoginInit => StampInv
  BY DEF LoginInit, NoLogin, StampInv, StampsWelcome, StampsAreOwn, Welcome, AfterIsOver,
         NoneBefore, StampedOnce

\* A step of q that stamps nobody, and leaves what it is after alone.
LEMMA NoStamp ==
    ASSUME TypeInv, TypeInv', StampInv, NEW q \in Requests,
           UNCHANGED <<welcomed, stamped>>, logged \subseteq logged',
           \A r \in Requests \ {q} : login'[r] = login[r],
           login'[q].after = login[q].after,
           login[q].step \notin Ends \cup {"idle", "claim", "open"},
           \A e \in stamped : e.by = q =>
               /\ login'[q].account = e.user
               /\ login'[q].step \in {"identify", "logFirst", "failed", "claim"}
               /\ login'[q].step = "claim" => e \in logged',
           \/ login'[q].step \in {"logFirst", "claim"}
           \/ login'[q].step \in {"link", "first"} /\ login'[q].knew
           => login'[q].account \in welcomed,
           login'[q].step \in {"link", "first"} /\ ~login'[q].knew =>
               \/ login'[q].account \notin welcomed
               \/ /\ login[q].step \in {"link", "first"} /\ ~login[q].knew
                  /\ login[q].account = login'[q].account
    PROVE  StampInv'
<1> USE DEF StampInv, TypeInv, LoginTypeOK
<1>1. StampsWelcome'
  BY DEF StampsWelcome
<1>2. StampsAreOwn'
  BY DEF StampsAreOwn
<1>3. Welcome'
  BY DEF Welcome
<1>4. AfterIsOver'
  BY DEF AfterIsOver
<1>5. NoneBefore'
  BY DEF NoneBefore, StampsWelcome
<1>6. StampedOnce'
  BY DEF StampedOnce
<1> QED
  BY <1>1, <1>2, <1>3, <1>4, <1>5, <1>6

\* A step of q that stamps its account, whom nobody has welcomed as far as q knows.
LEMMA Stamp ==
    ASSUME TypeInv, TypeInv', StampInv, NEW q \in Requests, NEW u,
           stamped' = stamped \cup {[by |-> q, user |-> u]},
           welcomed' = welcomed \cup {u}, logged' = logged,
           \A r \in Requests \ {q} : login'[r] = login[r],
           login'[q].after = login[q].after, login'[q].account = u,
           login[q].step \notin Ends \cup {"idle", "claim", "open"},
           login[q].step \notin {"identify", "logFirst"},
           login'[q].step \in {"identify", "logFirst"},
           \A e \in stamped : e.by \in login[q].after => e.user # u
    PROVE  StampInv'
<1> USE DEF StampInv, TypeInv, LoginTypeOK
<1> DEFINE row == [by |-> q, user |-> u]
<1>0. /\ row.by = q /\ row.user = u /\ row \in stamped'
      /\ \A e \in stamped' : e = row \/ e \in stamped
      /\ \A e \in stamped : e.by \in Requests /\ e.by # q
  BY DEF StampsAreOwn, Ends
<1> HIDE DEF row
<1>1. StampsWelcome'
  <2>1. \A v \in welcomed' : \E e \in stamped' : e.user = v
    BY <1>0 DEF StampsWelcome
  <2> QED
    BY <1>0, <2>1 DEF StampsWelcome
<1>2. StampsAreOwn'
  BY <1>0 DEF StampsAreOwn
<1>3. Welcome'
  BY DEF Welcome
<1>4. AfterIsOver'
  BY DEF AfterIsOver
<1>5. \A r \in Requests : q \notin login[r].after /\ q \notin login'[r].after
  BY DEF AfterIsOver
<1>6. NoneBefore'
  BY <1>0, <1>5 DEF NoneBefore
<1>7. StampedOnce'
  BY <1>0, <1>5 DEF StampedOnce
<1> QED
  BY <1>1, <1>2, <1>3, <1>4, <1>6, <1>7

\* A request that begins, after those that are over.
LEMMA Begin ==
    ASSUME TypeInv, TypeInv', StampInv, NEW q \in Requests,
           UNCHANGED <<welcomed, stamped, logged>>,
           \A r \in Requests \ {q} : login'[r] = login[r],
           login[q].step = "idle",
           login'[q].step \in {"identity", "first", "open"},
           login'[q].step = "first" => (login'[q].knew <=> login'[q].account \in welcomed),
           \A r \in login'[q].after : login[r].step \in Ends \cup {"claim", "open"}
    PROVE  StampInv'
<1> USE DEF StampInv, TypeInv, LoginTypeOK
<1>0. /\ \A e \in stamped : e.by \in Requests /\ e.by # q
      /\ \A r \in Requests : login'[r].after \subseteq Requests \ {q}
  BY DEF StampsAreOwn, AfterIsOver, Ends
<1>1. StampsWelcome'
  BY DEF StampsWelcome
<1>2. StampsAreOwn'
  BY <1>0 DEF StampsAreOwn
<1>3. Welcome'
  BY DEF Welcome
<1>4. AfterIsOver'
  BY <1>0 DEF AfterIsOver
<1>5. NoneBefore'
  BY <1>0 DEF NoneBefore, StampsWelcome
<1>6. StampedOnce'
  BY <1>0 DEF StampedOnce
<1> QED
  BY <1>1, <1>2, <1>3, <1>4, <1>5, <1>6

\* A step in which no request moves.
LEMMA NobodyMoves ==
    ASSUME TypeInv, TypeInv', StampInv,
           UNCHANGED <<welcomed, stamped, logged>>,
           \A r \in Requests :
               /\ login'[r].step = login[r].step /\ login'[r].account = login[r].account
               /\ login'[r].knew = login[r].knew /\ login'[r].after = login[r].after
    PROVE  StampInv'
<1> USE DEF StampInv, TypeInv, LoginTypeOK
<1>1. StampsWelcome' /\ StampsAreOwn'
  BY DEF StampsWelcome, StampsAreOwn
<1>2. Welcome' /\ AfterIsOver'
  BY DEF Welcome, AfterIsOver
<1>3. NoneBefore' /\ StampedOnce'
  BY DEF NoneBefore, StampedOnce
<1> QED
  BY <1>1, <1>2, <1>3

LEMMA StampStep ==
    TypeInv /\ TypeInv' /\ StampInv /\ [LoginNext]_<<vars, loginVars>> => StampInv'
<1> SUFFICES ASSUME TypeInv, TypeInv', StampInv, [LoginNext]_<<vars, loginVars>>
             PROVE  StampInv'
  OBVIOUS
<1>0. /\ \A q \in Requests : login[q] \in LoginTypes
      /\ welcomed \subseteq accounts
  BY DEF TypeInv, LoginTypeOK, LoginTypes
<1>own. ASSUME NEW q \in Requests, NEW e \in stamped, e.by = q
        PROVE  /\ login[q].account = e.user
               /\ login[q].step \in {"identify", "logFirst", "failed", "claim"}
               /\ login[q].step = "claim" => e \in logged
  BY <1>own DEF StampInv, StampsAreOwn
<1> USE DEF accountRows, loginVars, Proceed, Ends
<1>1. ASSUME NEW q \in Requests, NEW p \in Profiles, Callback(q, p[1], p[2]) PROVE StampInv'
  <2>1. PICK carries \in BOOLEAN :
            login' = [login EXCEPT ![q] = [Started("identity") EXCEPT
                !.sub = p[1], !.email = p[2], !.pending = carries, !.barred = Barred(p[1])]]
    BY <1>1 DEF Callback
  <2>2. /\ \A r \in Requests \ {q} : login'[r] = login[r]
        /\ login'[q] = [Started("identity") EXCEPT
                !.sub = p[1], !.email = p[2], !.pending = carries, !.barred = Barred(p[1])]
    BY <2>1 DEF TypeInv, LoginTypeOK
  <2>3. login'[q].step = "identity" /\ login'[q].after = Started("identity").after
    BY <2>2, StartedTypes DEF LoginSteps, LoginTypes
  <2> QED
    BY <1>1, <2>2, <2>3, StartedTypes, Begin DEF Callback, LoginSteps
<1>2. ASSUME NEW q \in Requests, NEW u \in Users, TokenLogin(q, u) PROVE StampInv'
  <2>1. PICK carries \in BOOLEAN :
            login' = [login EXCEPT ![q] = [Started("first") EXCEPT
                !.account = u, !.knew = u \in welcomed, !.pending = carries]]
    BY <1>2 DEF TokenLogin
  <2>2. /\ \A r \in Requests \ {q} : login'[r] = login[r]
        /\ login'[q] = [Started("first") EXCEPT
                !.account = u, !.knew = u \in welcomed, !.pending = carries]
    BY <2>1 DEF TypeInv, LoginTypeOK
  <2>3. /\ login'[q].step = "first" /\ login'[q].after = Started("first").after
        /\ login'[q].account = u /\ login'[q].knew = (u \in welcomed)
    BY <2>2, StartedTypes DEF LoginSteps, LoginTypes
  <2> QED
    BY <1>2, <2>2, <2>3, StartedTypes, Begin DEF TokenLogin, LoginSteps
<1>3. ASSUME NEW q \in Requests, OpenLink(q) PROVE StampInv'
  <2>1. login' = [login EXCEPT ![q] = Started("open")]
    BY <1>3 DEF OpenLink
  <2>2. /\ \A r \in Requests \ {q} : login'[r] = login[r]
        /\ login'[q] = Started("open")
    BY <2>1 DEF TypeInv, LoginTypeOK
  <2> QED
    BY <1>3, <2>2, StartedTypes, Begin DEF OpenLink, LoginSteps
<1>4. ASSUME NEW q \in Requests, FindIdentity(q) \/ FindEmail(q) PROVE StampInv'
  <2>1. /\ \A r \in Requests \ {q} : login'[r] = login[r]
        /\ login'[q].after = login[q].after /\ login[q].step \in {"identity", "email"}
        /\ UNCHANGED <<welcomed, stamped, logged>>
        /\ \/ login'[q].step \in {"email", "unknown"}
           \/ login'[q].step \in {"link", "first"}
              /\ (login'[q].knew <=> login'[q].account \in welcomed)
    BY <1>0, <1>4 DEF FindIdentity, FindEmail, TypeInv, LoginTypeOK, LoginTypes
  <2> QED
    BY <2>1, <1>own, NoStamp
<1>5. ASSUME NEW q \in Requests, Identify(q) PROVE StampInv'
  <2>1. /\ \A r \in Requests \ {q} : login'[r] = login[r]
        /\ login'[q].after = login[q].after /\ login'[q].account = login[q].account
        /\ login'[q].knew = login[q].knew
        /\ UNCHANGED <<welcomed, stamped, logged>>
        /\ \/ login[q].step = "link" /\ login'[q].step \in {"first", "failed"}
           \/ login[q].step = "identify" /\ login'[q].step \in {"logFirst", "failed"}
    BY <1>0, <1>5 DEF Identify, TypeInv, LoginTypeOK, LoginTypes
  <2>2. login[q].step = "identify" => login[q].account \in welcomed
    BY DEF TypeInv, Found, StampInv, StampsWelcome
  <2>3. login[q].step = "link" /\ login[q].knew => login[q].account \in welcomed
    BY DEF StampInv, Welcome
  <2> QED
    BY <2>1, <2>2, <2>3, <1>own, NoStamp
<1>6. ASSUME NEW q \in Requests, Unknown(q) \/ TryName(q) PROVE StampInv'
  <2>1. /\ \A r \in Requests \ {q} : login'[r] = login[r]
        /\ login'[q].after = login[q].after /\ login[q].step \in {"unknown", "name"}
        /\ UNCHANGED <<welcomed, stamped, logged>>
        /\ login'[q].step \in {"name", "refused", "create"}
    BY <1>0, <1>6 DEF Unknown, TryName, TypeInv, LoginTypeOK, LoginTypes
  <2> QED
    BY <2>1, <1>own, NoStamp
<1>7. ASSUME NEW q \in Requests, CreateAccount(q) PROVE StampInv'
  <2> DEFINE u == login[q].email
  <2>1. login[q].step = "create"
    BY <1>7 DEF CreateAccount
  <2>2. CASE u \in accounts \/ Taken(login[q].attempt)
    <3>1. /\ login' = [login EXCEPT ![q].step = "failed"]
          /\ UNCHANGED <<welcomed, stamped, logged>>
      BY <1>7, <2>2 DEF CreateAccount
    <3>2. /\ \A r \in Requests \ {q} : login'[r] = login[r]
          /\ login'[q].after = login[q].after /\ login'[q].step = "failed"
      BY <1>0, <3>1 DEF TypeInv, LoginTypeOK, LoginTypes
    <3> QED
      BY <2>1, <3>1, <3>2, <1>own, NoStamp
  <2>3. CASE ~(u \in accounts \/ Taken(login[q].attempt))
    <3>1. /\ welcomed' = welcomed \cup {u} /\ logged' = logged
          /\ stamped' = stamped \cup {[by |-> q, user |-> u]}
          /\ login' = [login EXCEPT ![q].step = "identify", ![q].account = u,
                                    ![q].knew = TRUE]
      BY <1>7, <2>3 DEF CreateAccount
    <3>2. /\ \A r \in Requests \ {q} : login'[r] = login[r]
          /\ login'[q].after = login[q].after /\ login'[q].step = "identify"
          /\ login'[q].account = u
      BY <1>0, <3>1 DEF TypeInv, LoginTypeOK, LoginTypes
    <3>3. \A e \in stamped : e.user # u
      BY <1>0, <2>3 DEF StampInv, StampsWelcome
    <3> QED
      BY <2>1, <3>1, <3>2, <3>3, Stamp
  <2> QED
    BY <2>2, <2>3
<1>8. ASSUME NEW q \in Requests, First(q) PROVE StampInv'
  <2> DEFINE u == login[q].account
  <2>1. login[q].step = "first"
    BY <1>8 DEF First
  <2>2. CASE login[q].knew
    <3>1. /\ login' = [login EXCEPT ![q].step = "claim"]
          /\ UNCHANGED <<welcomed, stamped, logged>>
      BY <1>8, <2>2 DEF First
    <3>2. /\ \A r \in Requests \ {q} : login'[r] = login[r]
          /\ login'[q].after = login[q].after /\ login'[q].step = "claim"
          /\ login'[q].account = u
      BY <1>0, <3>1 DEF TypeInv, LoginTypeOK, LoginTypes
    <3>3. u \in welcomed
      BY <2>1, <2>2 DEF StampInv, Welcome
    <3> QED
      BY <2>1, <3>1, <3>2, <3>3, <1>own, NoStamp
  <2>3. CASE ~login[q].knew
    <3>1. /\ welcomed' = welcomed \cup {u} /\ logged' = logged
          /\ stamped' = stamped \cup {[by |-> q, user |-> u]}
          /\ login' = [login EXCEPT ![q].step = "logFirst"]
      BY <1>8, <2>3 DEF First
    <3>2. /\ \A r \in Requests \ {q} : login'[r] = login[r]
          /\ login'[q].after = login[q].after /\ login'[q].step = "logFirst"
          /\ login'[q].account = u
      BY <1>0, <3>1 DEF TypeInv, LoginTypeOK, LoginTypes
    <3>3. \A e \in stamped : e.by \in login[q].after => e.user # u
      BY <2>1, <2>3 DEF StampInv, NoneBefore
    <3> QED
      BY <2>1, <3>1, <3>2, <3>3, Stamp
  <2> QED
    BY <2>2, <2>3
<1>9. ASSUME NEW q \in Requests, LogFirst(q) PROVE StampInv'
  <2>1. /\ login[q].step = "logFirst" /\ login' = [login EXCEPT ![q].step = "claim"]
        /\ logged' = logged \cup {[by |-> q, user |-> login[q].account]}
        /\ UNCHANGED <<welcomed, stamped>>
    BY <1>9 DEF LogFirst
  <2>2. /\ \A r \in Requests \ {q} : login'[r] = login[r]
        /\ login'[q].after = login[q].after /\ login'[q].step = "claim"
        /\ login'[q].account = login[q].account
    BY <1>0, <2>1 DEF TypeInv, LoginTypeOK, LoginTypes
  <2>3. login[q].account \in welcomed
    BY <2>1 DEF StampInv, Welcome
  <2>4. \A e \in stamped : e.by = q => e \in logged'
    <3>1. ASSUME NEW e \in stamped, e.by = q PROVE e \in logged'
      <4>1. e = [by |-> q, user |-> login[q].account]
        BY <1>own, <3>1 DEF TypeInv, LoginTypeOK
      <4> QED
        BY <2>1, <4>1
    <3> QED
      BY <3>1
  <2> QED
    BY <2>1, <2>2, <2>3, <2>4, <1>own, NoStamp
<1>10. ASSUME NEW q \in Requests, Fail(q) PROVE StampInv'
  <2>1. /\ login[q].step \notin Ends \cup {"idle", "open", "claim"}
        /\ login' = [login EXCEPT ![q].step = "failed"]
        /\ UNCHANGED <<welcomed, stamped, logged>>
    BY <1>10 DEF Fail
  <2>2. /\ \A r \in Requests \ {q} : login'[r] = login[r]
        /\ login'[q].after = login[q].after /\ login'[q].step = "failed"
        /\ login'[q].account = login[q].account
    BY <1>0, <2>1 DEF TypeInv, LoginTypeOK, LoginTypes
  <2> QED
    BY <2>1, <2>2, <1>own, NoStamp
<1>11. ASSUME NEW u \in Users, NEW n \in 1..Cardinality(Users), CreateUser(u, n)
       PROVE  StampInv'
  BY <1>11, NobodyMoves DEF CreateUser
<1>12. ASSUME NEW u \in Users, SwitchAccount(u) PROVE StampInv'
  <2>1. ASSUME NEW r \in Requests
        PROVE  /\ login'[r].step = login[r].step /\ login'[r].account = login[r].account
               /\ login'[r].knew = login[r].knew /\ login'[r].after = login[r].after
    BY <1>0, <1>12 DEF SwitchAccount, LoginTypes
  <2> QED
    BY <1>12, <2>1, NobodyMoves DEF SwitchAccount
<1>13. ASSUME NEW s \in Subs, Unlink(s) PROVE StampInv'
  <2>1. ASSUME NEW r \in Requests
        PROVE  /\ login'[r].step = login[r].step /\ login'[r].account = login[r].account
               /\ login'[r].knew = login[r].knew /\ login'[r].after = login[r].after
    BY <1>0, <1>13 DEF Unlink, LoginTypes
  <2> QED
    BY <1>13, <2>1, NobodyMoves DEF Unlink
<1>14. ASSUME ManageLink \/ UNCHANGED loginVars PROVE StampInv'
  <2>1. UNCHANGED <<welcomed, stamped, logged, login>>
    BY <1>14 DEF ManageLink
  <2> QED
    BY <2>1, NobodyMoves
<1> QED
  BY <1>1, <1>2, <1>3, <1>4, <1>5, <1>6, <1>7, <1>8, <1>9, <1>10, <1>11, <1>12, <1>13, <1>14
     DEF LoginNext, LoginStep, Manage, LoginRest, ClaimPending, ContinueClaim

\* Every account that is logged in to has a FIRST_LOGIN row, or the request that stamped
\* it owes one; a second row needs a login that began before the first one was through.
THEOREM FirstLoginsAreLogged == LoginSpec => []FirstLoginIsLogged
<1>1. LoginInit => StampInv
  BY StampInit
<1>2. TypeInv /\ StampInv => FirstLoginIsLogged
  <2> SUFFICES ASSUME TypeInv, StampInv PROVE FirstLoginIsLogged
    OBVIOUS
  <2>1. ASSUME NEW q \in Requests, LoggedIn(q)
        PROVE  \E e \in stamped :
                   /\ e.user = login[q].account
                   /\ e \in logged \/ login[e.by].step \in {"identify", "logFirst", "failed"}
    <3>1. login[q].account \in welcomed
      BY <2>1 DEF LoggedIn, StampInv, Welcome
    <3> QED
      BY <3>1 DEF StampInv, StampsWelcome, StampsAreOwn
  <2>2. \A e, f \in logged : e.user = f.user => e.by \notin login[f.by].after
    BY DEF StampInv, StampedOnce, TypeInv, LoginTypeOK
  <2> QED
    BY <2>1, <2>2 DEF FirstLoginIsLogged
<1> QED
  BY <1>1, <1>2, StampStep, TypeInvHolds, PTL DEF LoginSpec
=============================================================================
