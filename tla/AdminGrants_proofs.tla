------------------------- MODULE AdminGrants_proofs -------------------------
(* Proofs about AdminGrants for any number of users and requests.            *)
EXTENDS AdminGrants, FiniteSetTheorems, TLAPS

-----------------------------------------------------------------------------
(* Type correctness *)

LogRows == [by : Requests, user : Users, kind : {"granted", "revoked", "deactivated"}]

LEMMA TypeStep == TypeOK /\ [Next]_vars => TypeOK'
<1> SUFFICES ASSUME TypeOK, [Next]_vars PROVE TypeOK'
  OBVIOUS
<1> USE DEF TypeOK, GoTo, InFlight, Txn
<1>a. ASSUME NEW q \in Requests, NEW kind \in {"granted", "revoked", "deactivated"},
             user[q] \in Users, Record(q, kind)
      PROVE  log' \subseteq LogRows
  BY <1>a DEF Record, LogRows
<1>1. ASSUME NEW q \in Requests, NEW o \in AllOps, Receive(q, o) PROVE TypeOK'
  <2>1. FirstStep(o) \in {"look", "find", "isAdmin", "activate", "bootCount"}
    BY DEF FirstStep, AllOps
  <2>2. user' \in [Requests -> Users \cup {NoUser}] /\ user'[q] \in Users
        /\ \A r \in Requests \ {q} : user'[r] = user[r]
    <3>1. PICK u \in Users : user' = [user EXCEPT ![q] = u]
      BY <1>1, UsersAssumption DEF Receive
    <3> QED
      BY <3>1
  <2>3. op' \in [Requests -> Ops \cup {"none"}]
    BY <1>1 DEF Receive
  <2>4. pc' = [pc EXCEPT ![q] = FirstStep(o)]
        /\ UNCHANGED <<active, grants, lastId, found, log, overtaken>>
    BY <1>1 DEF Receive
  <2> HIDE DEF FirstStep
  <2> QED
    BY <2>1, <2>2, <2>3, <2>4
<1>2. ASSUME NEW q \in Requests, BootCount(q) PROVE TypeOK'
  BY <1>2 DEF BootCount
<1>3. ASSUME NEW q \in Requests, Look(q) PROVE TypeOK'
  BY <1>3 DEF Look
<1>4. ASSUME NEW q \in Requests, Insert(q) PROVE TypeOK'
  <2>1. user[q] \in Users
    BY <1>4 DEF Insert
  <2>2. [user |-> user[q], id |-> lastId + 1] \in Grants
    BY <2>1 DEF Grants
  <2>3. grants' \subseteq Grants /\ lastId' \in Nat
    BY <1>4, <2>2 DEF Insert
  <2>4. \E p \in {"refetch", "logGrant"} : pc' = [pc EXCEPT ![q] = p]
    BY <1>4 DEF Insert
  <2> QED
    BY <1>4, <2>1, <2>3, <2>4 DEF Insert
<1>5. ASSUME NEW q \in Requests, Refetch(q) PROVE TypeOK'
  BY <1>5 DEF Refetch
<1>6. ASSUME NEW q \in Requests, LogGrant(q) PROVE TypeOK'
  BY <1>6, <1>a DEF LogGrant, LogRows
<1>7. ASSUME NEW q \in Requests, Find(q) PROVE TypeOK'
  <2>1. CASE pc'[q] = "lock"
    <3>1. PICK g \in grants : found' = [found EXCEPT ![q] = g]
      BY <1>7, <2>1 DEF Find
    <3> QED
      BY <1>7, <2>1, <3>1 DEF Find
  <2>2. CASE pc'[q] # "lock"
    BY <1>7, <2>2 DEF Find
  <2> QED
    BY <2>1, <2>2
<1>8. ASSUME NEW q \in Requests, Lock(q) PROVE TypeOK'
  BY <1>8 DEF Lock
<1>9. ASSUME NEW q \in Requests, Count(q) PROVE TypeOK'
  BY <1>9 DEF Count
<1>10. ASSUME NEW q \in Requests, Delete(q) PROVE TypeOK'
  BY <1>10 DEF Delete
<1>11. ASSUME NEW q \in Requests, LogRevoke(q) PROVE TypeOK'
  BY <1>11, <1>a DEF LogRevoke, LogRows
<1>12. ASSUME NEW q \in Requests, IsAdmin(q) PROVE TypeOK'
  BY <1>12 DEF IsAdmin
<1>13. ASSUME NEW q \in Requests, IsLast(q) PROVE TypeOK'
  BY <1>13 DEF IsLast
<1>14. ASSUME NEW q \in Requests, Write(q) PROVE TypeOK'
  BY <1>14 DEF Write
<1>15. ASSUME NEW q \in Requests, LogWrite(q) PROVE TypeOK'
  BY <1>15, <1>a DEF LogWrite, LogRows
<1>16. ASSUME NEW q \in Requests, Activate(q) PROVE TypeOK'
  BY <1>16 DEF Activate
<1>17. ASSUME UNCHANGED vars PROVE TypeOK'
  BY <1>17 DEF vars
<1> QED
  BY <1>1, <1>2, <1>3, <1>4, <1>5, <1>6, <1>7, <1>8, <1>9, <1>10, <1>11, <1>12,
     <1>13, <1>14, <1>15, <1>16, <1>17 DEF Next, Step, Rest

\* Every reachable state has the types the module declares: in particular no
\* revocation gets to its transaction without the grant it looked up.
THEOREM TypeCorrect == Spec => []TypeOK
<1>1. Init => TypeOK
  BY UsersAssumption DEF Init, TypeOK, Grants, InFlight, Txn
<1> QED
  BY <1>1, TypeStep, PTL DEF Spec

-----------------------------------------------------------------------------
(* The trail accounts for the grants                                         *)
(*                                                                           *)
(* A request that changed a grant owes the trail one row, which it adds once, *)
(* at its end; a revocation that got to its transaction deletes the row of   *)
(* its own user, which nobody else can have deleted meanwhile.               *)

Busy == {q \in Requests : pc[q] # "idle"}
Rows(u, kind) == {e \in log : e.user = u /\ e.kind = kind}
Due(u, step) == {q \in Requests : pc[q] = step /\ user[q] = u}

TrailInv ==
    /\ IsFiniteSet(Busy) /\ IsFiniteSet(log)
    /\ \A e \in log : pc[e.by] = "done"
    /\ \A g, h \in grants : g.user = h.user => g = h
    /\ \A q \in Requests : pc[q] \in Txn \cup {"lock"} => found[q].user = user[q]
    /\ \A q \in Requests : pc[q] \in Txn => found[q] \in grants
    /\ \A q, r \in Requests : q # r /\ pc[q] \in Txn /\ pc[r] \in Txn => found[q] # found[r]

\* The sets the balance counts are finite.
LEMMA RowsCountable ==
  ASSUME TrailInv, NEW u, NEW kind
  PROVE  /\ IsFiniteSet(Rows(u, kind)) /\ Logged(u, kind) = Cardinality(Rows(u, kind))
         /\ Logged(u, kind) \in Nat
<1>1. Rows(u, kind) \subseteq log
  BY DEF Rows
<1>2. IsFiniteSet(Rows(u, kind))
  BY <1>1, FS_Subset DEF TrailInv
<1>3. Logged(u, kind) = Cardinality(Rows(u, kind))
  BY DEF Logged, Rows
<1> QED BY <1>2, <1>3, FS_CardinalityType

LEMMA DueCountable ==
  ASSUME TrailInv, NEW u, NEW step, step # "idle"
  PROVE  /\ IsFiniteSet(Due(u, step)) /\ Pending(u, step) = Cardinality(Due(u, step))
         /\ Pending(u, step) \in Nat
<1>1. Due(u, step) \subseteq Busy
  BY DEF Due, Busy
<1>2. IsFiniteSet(Due(u, step))
  BY <1>1, FS_Subset DEF TrailInv
<1>3. Pending(u, step) = Cardinality(Due(u, step))
  BY DEF Pending, Due
<1> QED BY <1>2, <1>3, FS_CardinalityType

\* As many requests owe a row as before when none came to that step or left it.
LEMMA SamePending ==
  ASSUME NEW step,
         \A q \in Requests : pc'[q] = step <=> pc[q] = step,
         \A q \in Requests : pc[q] = step => user'[q] = user[q],
         NEW u
  PROVE  Pending(u, step)' = Pending(u, step)
<1>1. {q \in Requests : pc'[q] = step /\ user'[q] = u} = {q \in Requests : pc[q] = step /\ user[q] = u}
  OBVIOUS
<1> QED BY <1>1 DEF Pending

\* A request comes to owe a row about its user, or settles that.
LEMMA Owes ==
  ASSUME TypeOK, TrailInv, UNCHANGED user, NEW q \in Requests, NEW step, step # "idle",
         pc[q] # step, pc' = [pc EXCEPT ![q] = step]
  PROVE  /\ Pending(user[q], step)' = Pending(user[q], step) + 1
         /\ \A u \in Users : u # user[q] => Pending(u, step)' = Pending(u, step)
<1>1. Due(user[q], step)' = Due(user[q], step) \cup {q} /\ q \notin Due(user[q], step)
  BY DEF Due, TypeOK
<1>2. Pending(user[q], step)' = Cardinality(Due(user[q], step)')
  BY DEF Pending, Due
<1>a. /\ IsFiniteSet(Due(user[q], step))
      /\ Pending(user[q], step) = Cardinality(Due(user[q], step))
  BY DueCountable
<1>b. Cardinality(Due(user[q], step) \cup {q}) = Cardinality(Due(user[q], step)) + 1
  BY <1>1, <1>a, FS_AddElement
<1>3. Pending(user[q], step)' = Pending(user[q], step) + 1
  BY <1>1, <1>2, <1>a, <1>b
<1>4. ASSUME NEW u \in Users, u # user[q] PROVE Pending(u, step)' = Pending(u, step)
  <2>1. {r \in Requests : pc'[r] = step /\ user'[r] = u} = {r \in Requests : pc[r] = step /\ user[r] = u}
    BY <1>4 DEF TypeOK
  <2> QED BY <2>1 DEF Pending
<1> QED BY <1>3, <1>4

LEMMA Settles ==
  ASSUME TypeOK, TrailInv, UNCHANGED user, NEW q \in Requests, NEW step, step \notin {"idle", "done"},
         pc[q] = step, pc' = [pc EXCEPT ![q] = "done"]
  PROVE  /\ Pending(user[q], step)' = Pending(user[q], step) - 1
         /\ \A u \in Users : u # user[q] => Pending(u, step)' = Pending(u, step)
<1>1. Due(user[q], step)' = Due(user[q], step) \ {q} /\ q \in Due(user[q], step)
  BY DEF Due, TypeOK
<1>2. Pending(user[q], step)' = Cardinality(Due(user[q], step)')
  BY DEF Pending, Due
<1>a. /\ IsFiniteSet(Due(user[q], step))
      /\ Pending(user[q], step) = Cardinality(Due(user[q], step))
  BY DueCountable
<1>b. Cardinality(Due(user[q], step) \ {q}) = Cardinality(Due(user[q], step)) - 1
  BY <1>1, <1>a, FS_RemoveElement
<1>3. Pending(user[q], step)' = Pending(user[q], step) - 1
  BY <1>1, <1>2, <1>a, <1>b
<1>4. ASSUME NEW u \in Users, u # user[q] PROVE Pending(u, step)' = Pending(u, step)
  <2>1. {r \in Requests : pc'[r] = step /\ user'[r] = u} = {r \in Requests : pc[r] = step /\ user[r] = u}
    BY <1>4 DEF TypeOK
  <2> QED BY <2>1 DEF Pending
<1> QED BY <1>3, <1>4

\* A request that is not through adds its row to the trail: one more row of that kind
\* about that user, and no other.
LEMMA Adds ==
  ASSUME TypeOK, TrailInv, UNCHANGED user, NEW q \in Requests, pc[q] # "done",
         NEW kind, Record(q, kind)
  PROVE  /\ Logged(user[q], kind)' = Logged(user[q], kind) + 1
         /\ \A u \in Users, k \in {"granted", "revoked"} :
               u # user[q] \/ k # kind => Logged(u, k)' = Logged(u, k)
<1> DEFINE row == [by |-> q, user |-> user[q], kind |-> kind]
<1>0. row.by = q /\ row.user = user[q] /\ row.kind = kind
  OBVIOUS
<1>r. log' = log \cup {row}
  BY DEF Record
<1> HIDE DEF row
<1>1. row \notin log /\ log' = log \cup {row}
  BY <1>0, <1>r DEF TrailInv
<1>2. Rows(user[q], kind)' = Rows(user[q], kind) \cup {row} /\ row \notin Rows(user[q], kind)
  <2>2. {e \in log' : e.user = user[q] /\ e.kind = kind}
           = {e \in log : e.user = user[q] /\ e.kind = kind} \cup {row}
    BY <1>0, <1>1
  <2> QED BY <1>1, <2>2 DEF Rows
<1>3. /\ IsFiniteSet(Rows(user[q], kind))
      /\ Logged(user[q], kind) = Cardinality(Rows(user[q], kind))
      /\ Logged(user[q], kind)' = Cardinality(Rows(user[q], kind)')
  BY RowsCountable DEF Logged, Rows
<1>4. Cardinality(Rows(user[q], kind) \cup {row}) = Cardinality(Rows(user[q], kind)) + 1
  BY <1>2, <1>3, FS_AddElement
<1>5. Logged(user[q], kind)' = Logged(user[q], kind) + 1
  BY <1>2, <1>3, <1>4
<1>6. ASSUME NEW u \in Users, NEW k \in {"granted", "revoked"}, u # user[q] \/ k # kind
      PROVE  Logged(u, k)' = Logged(u, k)
  <2>1. {e \in log' : e.user = u /\ e.kind = k} = {e \in log : e.user = u /\ e.kind = k}
    BY <1>0, <1>1, <1>6
  <2> QED BY <2>1 DEF Logged
<1> QED BY <1>5, <1>6

\* A step that changes neither the grants nor the trail, and moves no request to or from
\* a step that owes a row, leaves the balance as it is.
LEMMA QuietBalance ==
  ASSUME AuditBalances, UNCHANGED <<grants, log>>,
         \A q \in Requests, step \in {"logGrant", "logRevoke"} :
            (pc'[q] = step <=> pc[q] = step) /\ (pc[q] = step => user'[q] = user[q])
  PROVE  AuditBalances'
<1> SUFFICES ASSUME NEW u \in Users PROVE (Given(u) = Taken(u) + (IF Holds(u) THEN 1 ELSE 0))'
  BY DEF AuditBalances
<1>1. Pending(u, "logGrant")' = Pending(u, "logGrant") /\ Pending(u, "logRevoke")' = Pending(u, "logRevoke")
  BY SamePending
<1>2. \A kind \in {"granted", "revoked"} : Logged(u, kind)' = Logged(u, kind)
  BY DEF Logged
<1>3. Holds(u)' <=> Holds(u)
  BY DEF Holds
<1> QED BY <1>1, <1>2, <1>3 DEF AuditBalances, Given, Taken

\* The requests that are busy and the rows stay finitely many.
LEMMA FewBusy ==
  ASSUME TypeOK, IsFiniteSet(Busy), NEW q \in Requests, NEW step, pc' = [pc EXCEPT ![q] = step],
         step # "idle"
  PROVE  IsFiniteSet(Busy)'
<1>1. {r \in Requests : pc'[r] # "idle"} = {r \in Requests : pc[r] # "idle"} \cup {q}
  BY DEF TypeOK
<1> QED BY <1>1, FS_AddElement DEF Busy

LEMMA TrailStep ==
  ASSUME TypeOK, TrailInv, AuditBalances, [Next]_vars
  PROVE  TrailInv' /\ AuditBalances'
<1>0. TypeOK'
  BY TypeStep
<1>t. \A u \in Users : /\ Pending(u, "logGrant") \in Nat /\ Pending(u, "logRevoke") \in Nat
                       /\ Logged(u, "granted") \in Nat /\ Logged(u, "revoked") \in Nat
  BY RowsCountable, DueCountable
<1> USE DEF GoTo
<1>1. ASSUME NEW q \in Requests, Insert(q) PROVE TrailInv' /\ AuditBalances'
  <2>1. /\ pc[q] = "insert" /\ UNCHANGED <<user, found, log>> /\ user[q] \in Users
        /\ \A r \in Requests \ {q} : pc'[r] = pc[r]
    BY <1>1 DEF Insert, TypeOK, InFlight
  <2>2. CASE Holds(user[q])
    <3>1. pc' = [pc EXCEPT ![q] = "refetch"] /\ UNCHANGED grants
      BY <1>1, <2>2 DEF Insert
    <3>2. IsFiniteSet(Busy)'
      BY <3>1, FewBusy DEF TrailInv
    <3>3. TrailInv'
      BY <2>1, <3>1, <3>2 DEF TrailInv, TypeOK, Txn
    <3>4. AuditBalances'
      BY <2>1, <3>1, QuietBalance DEF TypeOK
    <3> QED BY <3>3, <3>4
  <2>3. CASE ~Holds(user[q])
    <3> DEFINE row == [user |-> user[q], id |-> lastId + 1]
    <3>0. row.user = user[q]
      OBVIOUS
    <3>1. pc' = [pc EXCEPT ![q] = "logGrant"] /\ grants' = grants \cup {row}
      BY <1>1, <2>3 DEF Insert
    <3> HIDE DEF row
    <3>2. IsFiniteSet(Busy)'
      BY <3>1, FewBusy DEF TrailInv
    <3>3. \A g, h \in grants' : g.user = h.user => g = h
      BY <2>3, <3>0, <3>1 DEF TrailInv, Holds
    <3>4. \A e \in log' : pc'[e.by] = "done"
      BY <2>1, <3>1 DEF TrailInv, TypeOK
    <3>5. \A r \in Requests : pc'[r] \in Txn \cup {"lock"} => pc'[r] = pc[r]
      BY <2>1, <3>1 DEF TypeOK, Txn
    <3>6. TrailInv'
      BY <2>1, <3>1, <3>2, <3>3, <3>4, <3>5 DEF TrailInv
    <3>7. /\ Pending(user[q], "logGrant")' = Pending(user[q], "logGrant") + 1
          /\ \A u \in Users : u # user[q] => Pending(u, "logGrant")' = Pending(u, "logGrant")
      BY <2>1, <3>1, Owes
    <3>8. \A u \in Users : Pending(u, "logRevoke")' = Pending(u, "logRevoke")
      BY <2>1, <3>1, SamePending DEF TypeOK
    <3>9. \A u \in Users : Holds(u)' <=> Holds(u) \/ u = user[q]
      BY <3>0, <3>1 DEF Holds
    <3>10. \A u \in Users : Logged(u, "granted")' = Logged(u, "granted")
                         /\ Logged(u, "revoked")' = Logged(u, "revoked")
      BY <2>1 DEF Logged
    <3>11. ASSUME NEW u \in Users PROVE (Given(u) = Taken(u) + (IF Holds(u) THEN 1 ELSE 0))'
      <4>1. CASE u = user[q]
        BY <1>t, <2>1, <2>3, <3>7, <3>8, <3>9, <3>10, <4>1 DEF AuditBalances, Given, Taken
      <4>2. CASE u # user[q]
        BY <3>7, <3>8, <3>9, <3>10, <4>2 DEF AuditBalances, Given, Taken
      <4> QED BY <4>1, <4>2
    <3> QED BY <3>6, <3>11 DEF AuditBalances
  <2> QED BY <2>2, <2>3
<1>2. ASSUME NEW q \in Requests, Delete(q) PROVE TrailInv' /\ AuditBalances'
  <2>1. /\ pc[q] = "delete" /\ pc' = [pc EXCEPT ![q] = "logRevoke"]
        /\ grants' = grants \ {found[q]} /\ UNCHANGED <<user, found, log>>
    BY <1>2 DEF Delete
  <2>2. /\ user[q] \in Users /\ found[q] \in grants /\ found[q].user = user[q]
    BY <2>1 DEF TypeOK, InFlight, Txn, TrailInv
  <2>3. IsFiniteSet(Busy)'
    BY <2>1, FewBusy DEF TrailInv
  <2>4. \A r \in Requests : pc'[r] \in Txn \cup {"lock"} => pc'[r] = pc[r] /\ r # q
    BY <2>1 DEF TypeOK, Txn
  <2>5. \A r \in Requests : pc'[r] \in Txn => found'[r] \in grants'
    BY <2>1, <2>4 DEF TrailInv, Txn
  <2>6. \A e \in log' : pc'[e.by] = "done"
    BY <2>1 DEF TrailInv, TypeOK
  <2>7. TrailInv'
    BY <2>1, <2>3, <2>4, <2>5, <2>6 DEF TrailInv
  <2>8. /\ Pending(user[q], "logRevoke")' = Pending(user[q], "logRevoke") + 1
        /\ \A u \in Users : u # user[q] => Pending(u, "logRevoke")' = Pending(u, "logRevoke")
    BY <2>1, Owes
  <2>9. \A u \in Users : Pending(u, "logGrant")' = Pending(u, "logGrant")
    BY <2>1, SamePending DEF TypeOK
  <2>10. \A u \in Users : Holds(u)' <=> Holds(u) /\ u # user[q]
    BY <2>1, <2>2 DEF Holds, TrailInv
  <2>11. Holds(user[q])
    BY <2>2 DEF Holds
  <2>12. \A u \in Users : Logged(u, "granted")' = Logged(u, "granted")
                       /\ Logged(u, "revoked")' = Logged(u, "revoked")
    BY <2>1 DEF Logged
  <2>13. ASSUME NEW u \in Users PROVE (Given(u) = Taken(u) + (IF Holds(u) THEN 1 ELSE 0))'
    <3>1. CASE u = user[q]
      <4>1. Given(u) = Taken(u) + 1 /\ ~Holds(u)'
        BY <2>10, <2>11, <3>1 DEF AuditBalances
      <4>2. Given(u)' = Given(u)
        BY <2>9, <2>12 DEF Given
      <4>3. Taken(u)' = Taken(u) + 1
        BY <1>t, <2>1, <2>2, <2>8, <2>12, <3>1 DEF Taken
      <4>4. Taken(u) \in Nat
        BY <1>t DEF Taken
      <4> QED BY <4>1, <4>2, <4>3, <4>4
    <3>2. CASE u # user[q]
      BY <2>8, <2>9, <2>10, <2>12, <3>2 DEF AuditBalances, Given, Taken
    <3> QED BY <3>1, <3>2
  <2> QED BY <2>7, <2>13 DEF AuditBalances
<1>3. ASSUME NEW q \in Requests, NEW kind \in {"granted", "revoked", "deactivated"},
             pc[q] \in {"logGrant", "logRevoke", "logWrite"}, Record(q, kind),
             pc' = [pc EXCEPT ![q] = "done"], UNCHANGED <<grants, user, found>>
      PROVE  TrailInv'
  <2>1. IsFiniteSet(Busy)'
    BY <1>3, FewBusy DEF TrailInv
  <2>2. IsFiniteSet(log')
    BY <1>3, FS_AddElement DEF TrailInv, Record
  <2>3. \A e \in log' : pc'[e.by] = "done"
    <3> DEFINE row == [by |-> q, user |-> user[q], kind |-> kind]
    <3>1. row.by = q /\ log' = log \cup {row}
      BY <1>3 DEF Record
    <3> HIDE DEF row
    <3> QED BY <1>3, <3>1 DEF TrailInv, TypeOK
  <2>4. \A r \in Requests : pc'[r] \in Txn \cup {"lock"} => pc'[r] = pc[r]
    BY <1>3 DEF TypeOK, Txn
  <2> QED BY <1>3, <2>1, <2>2, <2>3, <2>4 DEF TrailInv
<1>4. ASSUME NEW q \in Requests, LogGrant(q) PROVE TrailInv' /\ AuditBalances'
  <2>1. /\ pc[q] = "logGrant" /\ pc' = [pc EXCEPT ![q] = "done"] /\ Record(q, "granted")
        /\ UNCHANGED <<grants, user, found>> /\ user[q] \in Users
    BY <1>4 DEF LogGrant, TypeOK, InFlight
  <2>2. TrailInv'
    BY <1>3, <2>1
  <2>3. /\ Pending(user[q], "logGrant")' = Pending(user[q], "logGrant") - 1
        /\ \A u \in Users : u # user[q] => Pending(u, "logGrant")' = Pending(u, "logGrant")
    BY <2>1, Settles
  <2>4. \A u \in Users : Pending(u, "logRevoke")' = Pending(u, "logRevoke")
    BY <2>1, SamePending DEF TypeOK
  <2>5. \A u \in Users : Holds(u)' <=> Holds(u)
    BY <2>1 DEF Holds
  <2>6. /\ Logged(user[q], "granted")' = Logged(user[q], "granted") + 1
        /\ \A u \in Users : u # user[q] => Logged(u, "granted")' = Logged(u, "granted")
        /\ \A u \in Users : Logged(u, "revoked")' = Logged(u, "revoked")
    BY <2>1, Adds
  <2>7. ASSUME NEW u \in Users PROVE (Given(u) = Taken(u) + (IF Holds(u) THEN 1 ELSE 0))'
    <3>1. CASE u = user[q]
      BY <1>t, <2>1, <2>3, <2>4, <2>5, <2>6, <3>1 DEF AuditBalances, Given, Taken
    <3>2. CASE u # user[q]
      BY <2>3, <2>4, <2>5, <2>6, <3>2 DEF AuditBalances, Given, Taken
    <3> QED BY <3>1, <3>2
  <2> QED BY <2>2, <2>7 DEF AuditBalances
<1>5. ASSUME NEW q \in Requests, LogRevoke(q) PROVE TrailInv' /\ AuditBalances'
  <2>1. /\ pc[q] = "logRevoke" /\ pc' = [pc EXCEPT ![q] = "done"] /\ Record(q, "revoked")
        /\ UNCHANGED <<grants, user, found>> /\ user[q] \in Users
    BY <1>5 DEF LogRevoke, TypeOK, InFlight
  <2>2. TrailInv'
    BY <1>3, <2>1
  <2>3. /\ Pending(user[q], "logRevoke")' = Pending(user[q], "logRevoke") - 1
        /\ \A u \in Users : u # user[q] => Pending(u, "logRevoke")' = Pending(u, "logRevoke")
    BY <2>1, Settles
  <2>4. \A u \in Users : Pending(u, "logGrant")' = Pending(u, "logGrant")
    BY <2>1, SamePending DEF TypeOK
  <2>5. \A u \in Users : Holds(u)' <=> Holds(u)
    BY <2>1 DEF Holds
  <2>6. /\ Logged(user[q], "revoked")' = Logged(user[q], "revoked") + 1
        /\ \A u \in Users : u # user[q] => Logged(u, "revoked")' = Logged(u, "revoked")
        /\ \A u \in Users : Logged(u, "granted")' = Logged(u, "granted")
    BY <2>1, Adds
  <2>7. ASSUME NEW u \in Users PROVE (Given(u) = Taken(u) + (IF Holds(u) THEN 1 ELSE 0))'
    <3>1. CASE u = user[q]
      BY <1>t, <2>1, <2>3, <2>4, <2>5, <2>6, <3>1 DEF AuditBalances, Given, Taken
    <3>2. CASE u # user[q]
      BY <2>3, <2>4, <2>5, <2>6, <3>2 DEF AuditBalances, Given, Taken
    <3> QED BY <3>1, <3>2
  <2> QED BY <2>2, <2>7 DEF AuditBalances
<1>6. ASSUME NEW q \in Requests, LogWrite(q) PROVE TrailInv' /\ AuditBalances'
  <2>1. /\ pc[q] = "logWrite" /\ pc' = [pc EXCEPT ![q] = "done"] /\ Record(q, "deactivated")
        /\ UNCHANGED <<grants, user, found>> /\ user[q] \in Users
    BY <1>6 DEF LogWrite, TypeOK, InFlight
  <2>2. TrailInv'
    BY <1>3, <2>1
  <2>3. \A u \in Users : Pending(u, "logGrant")' = Pending(u, "logGrant")
                      /\ Pending(u, "logRevoke")' = Pending(u, "logRevoke")
    BY <2>1, SamePending DEF TypeOK
  <2>4. \A u \in Users : Holds(u)' <=> Holds(u)
    BY <2>1 DEF Holds
  <2>5. \A u \in Users : Logged(u, "granted")' = Logged(u, "granted")
                      /\ Logged(u, "revoked")' = Logged(u, "revoked")
    BY <2>1, Adds
  <2>6. AuditBalances'
    BY <2>3, <2>4, <2>5 DEF AuditBalances, Given, Taken
  <2> QED BY <2>2, <2>6
<1>7. ASSUME NEW q \in Requests, NEW o \in AllOps, Receive(q, o) PROVE TrailInv' /\ AuditBalances'
  <2>1. FirstStep(o) \in {"look", "find", "isAdmin", "activate", "bootCount"}
    BY DEF FirstStep, AllOps
  <2>2. /\ pc[q] = "idle" /\ pc' = [pc EXCEPT ![q] = FirstStep(o)]
        /\ UNCHANGED <<grants, found, log>>
    BY <1>7 DEF Receive
  <2>3. \A r \in Requests \ {q} : user'[r] = user[r]
    BY <1>7 DEF Receive, TypeOK
  <2>4. IsFiniteSet(Busy)'
    BY <2>1, <2>2, FewBusy DEF TrailInv
  <2>5. \A r \in Requests : pc'[r] \in Txn \cup {"lock"} => pc'[r] = pc[r] /\ r # q
    BY <2>1, <2>2 DEF TypeOK, Txn
  <2>6. \A e \in log' : pc'[e.by] = "done"
    BY <2>2 DEF TrailInv, TypeOK
  <2>7. TrailInv'
    BY <2>2, <2>3, <2>4, <2>5, <2>6 DEF TrailInv
  <2>8. AuditBalances'
    BY <2>1, <2>2, <2>3, QuietBalance DEF TypeOK
  <2> QED BY <2>7, <2>8
<1>8. ASSUME NEW q \in Requests, Find(q) PROVE TrailInv' /\ AuditBalances'
  <2>1. /\ pc[q] = "find" /\ UNCHANGED <<grants, user, log>>
        /\ \/ pc' = [pc EXCEPT ![q] = "lock"] /\ found'[q].user = user[q]
           \/ pc' = [pc EXCEPT ![q] = "done"]
        /\ \A r \in Requests \ {q} : found'[r] = found[r]
    BY <1>8 DEF Find, TypeOK
  <2>2. IsFiniteSet(Busy)'
    BY <2>1, FewBusy DEF TrailInv
  <2>3. TrailInv'
    BY <2>1, <2>2 DEF TrailInv, TypeOK, Txn
  <2>4. AuditBalances'
    BY <2>1, QuietBalance DEF TypeOK
  <2> QED BY <2>3, <2>4
<1>9. ASSUME NEW q \in Requests, Lock(q) PROVE TrailInv' /\ AuditBalances'
  <2>1. /\ pc[q] = "lock" /\ UNCHANGED <<grants, user, found, log>>
        /\ \/ pc' = [pc EXCEPT ![q] = "count"] /\ found[q] \in grants
           \/ pc' = [pc EXCEPT ![q] = "done"]
    BY <1>9 DEF Lock
  <2>2. IsFiniteSet(Busy)'
    BY <2>1, FewBusy DEF TrailInv
  <2>3. \A r \in Requests \ {q} : pc[r] \in Txn => found[r] # found[q]
    BY <1>9 DEF Lock, Blocked
  <2>4. TrailInv'
    BY <2>1, <2>2, <2>3 DEF TrailInv, TypeOK, Txn
  <2>5. AuditBalances'
    BY <2>1, QuietBalance DEF TypeOK
  <2> QED BY <2>4, <2>5
<1>10. ASSUME NEW q \in Requests, Count(q) PROVE TrailInv' /\ AuditBalances'
  <2>1. /\ pc[q] = "count" /\ UNCHANGED <<grants, user, found, log>>
        /\ \/ pc' = [pc EXCEPT ![q] = "delete"]
           \/ pc' = [pc EXCEPT ![q] = "done"]
    BY <1>10 DEF Count
  <2>2. IsFiniteSet(Busy)'
    BY <2>1, FewBusy DEF TrailInv
  <2>3. TrailInv'
    BY <2>1, <2>2 DEF TrailInv, TypeOK, Txn
  <2>4. AuditBalances'
    BY <2>1, QuietBalance DEF TypeOK
  <2> QED BY <2>3, <2>4
<1>11. ASSUME NEW q \in Requests,
              \/ BootCount(q) \/ Look(q) \/ Refetch(q) \/ IsAdmin(q) \/ IsLast(q) \/ Write(q)
              \/ Activate(q)
       PROVE  TrailInv' /\ AuditBalances'
  <2>1. UNCHANGED <<grants, user, found, log>>
    BY <1>11 DEF BootCount, Look, Refetch, IsAdmin, IsLast, Write, Activate
  <2>2. PICK p \in {"look", "insert", "isLast", "write", "logWrite", "done"} :
           pc' = [pc EXCEPT ![q] = p]
    BY <1>11 DEF BootCount, Look, Refetch, IsAdmin, IsLast, Write, Activate
  <2>3. pc[q] \notin {"logGrant", "logRevoke", "done"}
    BY <1>11 DEF BootCount, Look, Refetch, IsAdmin, IsLast, Write, Activate
  <2>4. IsFiniteSet(Busy)'
    BY <2>2, FewBusy DEF TrailInv
  <2>5. TrailInv'
    BY <2>1, <2>2, <2>3, <2>4 DEF TrailInv, TypeOK, Txn
  <2>6. AuditBalances'
    BY <2>1, <2>2, <2>3, QuietBalance DEF TypeOK
  <2> QED BY <2>5, <2>6
<1>12. ASSUME UNCHANGED vars PROVE TrailInv' /\ AuditBalances'
  <2>1. TrailInv'
    BY <1>12 DEF vars, TrailInv, Busy
  <2>2. AuditBalances'
    BY <1>12, QuietBalance DEF vars
  <2> QED BY <2>1, <2>2
<1> QED
  BY <1>1, <1>2, <1>4, <1>5, <1>6, <1>7, <1>8, <1>9, <1>10, <1>11, <1>12 DEF Next, Step, Rest

LEMMA TrailInit == Init => TrailInv /\ AuditBalances
<1> SUFFICES ASSUME Init PROVE TrailInv /\ AuditBalances
  OBVIOUS
<1>1. Busy = {} /\ log = {}
  BY DEF Init, Busy
<1>2. TrailInv
  BY <1>1, FS_EmptySet DEF Init, TrailInv, Txn
<1>3. ASSUME NEW u \in Users PROVE Given(u) = Taken(u) + (IF Holds(u) THEN 1 ELSE 0)
  <2>1. \A kind \in {"granted", "revoked"} : Rows(u, kind) = {}
    BY <1>1 DEF Rows
  <2>2. \A step \in {"logGrant", "logRevoke"} : Due(u, step) = {}
    BY DEF Init, Due
  <2>3. /\ Logged(u, "granted") = 0 /\ Logged(u, "revoked") = 0
        /\ Pending(u, "logGrant") = 0 /\ Pending(u, "logRevoke") = 0
    BY <1>2, <2>1, <2>2, RowsCountable, DueCountable, FS_EmptySet
  <2>4. Holds(u) <=> u \in Admins
    <3>1. ASSUME u \in Admins PROVE [user |-> u, id |-> 0] \in grants
      BY <3>1 DEF Init
    <3>2. ASSUME NEW g \in grants, g.user = u PROVE u \in Admins
      BY <3>2 DEF Init
    <3> QED BY <3>1, <3>2 DEF Holds
  <2> QED BY <2>3, <2>4 DEF Given, Taken
<1> QED BY <1>2, <1>3 DEF AuditBalances

\* The InstanceEvent rows account for the grants of every user at all times, whatever
\* requests overlap, and whether transactions exclude each other or only lock rows.
THEOREM TrailBalances == Spec => []AuditBalances
<1> QED BY TrailInit, TrailStep, TypeCorrect, PTL DEF Spec

-----------------------------------------------------------------------------
(* What the row lock of a revocation is good for *)

\* A revocation that is not overtaken saw a second grant when it counted, and the
\* grant is still there: who deletes one overtakes every revocation that has counted.
OtherRemains == \A q \in Requests :
    pc[q] = "delete" /\ q \notin overtaken => \E g \in grants : g # found[q]

\* A step of a request that touches no grant, and is not the end of a count.
LEMMA OtherStays ==
  ASSUME OtherRemains, grants \subseteq grants', UNCHANGED overtaken,
         \A q \in Requests : pc'[q] = "delete" => pc[q] = "delete" /\ found'[q] = found[q]
  PROVE  OtherRemains'
BY DEF OtherRemains

LEMMA OtherStep ==
  ASSUME TypeOK, OtherRemains, [Next]_vars
  PROVE  OtherRemains'
<1> USE DEF GoTo
<1>1. ASSUME NEW q \in Requests, Count(q) PROVE OtherRemains'
  <2>1. /\ UNCHANGED <<grants, found, overtaken>>
        /\ \A r \in Requests \ {q} : pc'[r] = pc[r]
    BY <1>1 DEF Count, TypeOK
  <2>2. CASE CountIsOne
    BY <1>1, <2>1, <2>2, OtherStays DEF Count, TypeOK
  <2>3. CASE ~CountIsOne
    <3>1. PICK g, h \in grants : g # h
      BY <2>3 DEF CountIsOne
    <3>2. \E k \in grants' : k # found'[q]
      BY <2>1, <3>1
    <3> QED BY <2>1, <3>2 DEF OtherRemains
  <2> QED BY <2>2, <2>3
<1>2. ASSUME NEW q \in Requests, Delete(q) PROVE OtherRemains'
  <2>1. \A r \in Requests : pc'[r] = "delete" => r # q /\ pc[r] = "delete"
    BY <1>2 DEF Delete, TypeOK
  <2>2. \A r \in Requests : pc'[r] = "delete" => r \in overtaken'
    BY <1>2, <2>1 DEF Delete
  <2> QED BY <2>2 DEF OtherRemains
<1>3. ASSUME NEW q \in Requests, NEW o \in AllOps, Receive(q, o) PROVE OtherRemains'
  <2>1. FirstStep(o) # "delete"
    BY DEF FirstStep, AllOps
  <2> QED BY <1>3, <2>1, OtherStays DEF Receive, TypeOK
<1>4. ASSUME NEW q \in Requests, Find(q) PROVE OtherRemains'
  <2>1. /\ UNCHANGED <<grants, overtaken>> /\ pc'[q] # "delete"
        /\ \A r \in Requests \ {q} : pc'[r] = pc[r] /\ found'[r] = found[r]
    BY <1>4 DEF Find, TypeOK
  <2> QED BY <2>1, OtherStays
<1>5. ASSUME NEW q \in Requests,
             \/ BootCount(q) \/ Look(q) \/ Insert(q) \/ Refetch(q) \/ LogGrant(q)
             \/ Lock(q) \/ LogRevoke(q) \/ IsAdmin(q) \/ IsLast(q) \/ Write(q)
             \/ LogWrite(q) \/ Activate(q)
      PROVE OtherRemains'
  <2>1. grants \subseteq grants' /\ UNCHANGED <<found, overtaken>>
    BY <1>5 DEF BootCount, Look, Insert, Refetch, LogGrant, Lock, LogRevoke, IsAdmin, IsLast,
                Write, LogWrite, Activate
  <2>2. \E p \in (InFlight \ {"delete"}) \cup {"done"} : pc' = [pc EXCEPT ![q] = p]
    BY <1>5 DEF BootCount, Look, Insert, Refetch, LogGrant, Lock, LogRevoke, IsAdmin, IsLast,
                Write, LogWrite, Activate, InFlight, Txn
  <2>3. \A r \in Requests : pc'[r] = "delete" => pc[r] = "delete"
    BY <2>2 DEF TypeOK
  <2> QED BY <2>1, <2>3, OtherStays
<1>6. ASSUME UNCHANGED vars PROVE OtherRemains'
  BY <1>6, OtherStays DEF vars
<1> QED
  BY <1>1, <1>2, <1>3, <1>4, <1>5, <1>6 DEF Next, Step, Rest

\* Of the revocations that found one grant a single one deletes it, and only one that
\* was overtaken deletes the last, for any number of requests and whether transactions
\* exclude each other or only lock rows.
THEOREM LastGoesOvertaken == Spec => RevocationLeavesOne
<1>1. Init => OtherRemains
  BY DEF Init, OtherRemains
<1>2. ASSUME TypeOK, TrailInv, OtherRemains, [Next]_vars, NEW q \in Requests,
             pc[q] = "delete", pc'[q] # "delete"
      PROVE  found[q] \in grants /\ (grants' # {} \/ q \in overtaken)
  <2>1. Delete(q)
    <3>1. ASSUME NEW r \in Requests, Step(r), r # q PROVE FALSE
      BY <1>2, <3>1 DEF Step, BootCount, Look, Insert, Refetch, LogGrant, Find, Lock, Count,
                        Delete, LogRevoke, IsAdmin, IsLast, Write, LogWrite, Activate, GoTo,
                        TypeOK
    <3>2. ASSUME NEW r \in Requests, NEW o \in AllOps, Receive(r, o) PROVE FALSE
      BY <1>2, <3>2 DEF Receive, GoTo, TypeOK
    <3>3. Step(q)
      BY <1>2, <3>1, <3>2 DEF Next, Rest, vars
    <3> QED
      BY <1>2, <3>3 DEF Step, BootCount, Look, Insert, Refetch, LogGrant, Find, Lock, Count,
                        LogRevoke, IsAdmin, IsLast, Write, LogWrite, Activate
  <2>2. found[q] \in grants
    BY <1>2 DEF TrailInv, Txn
  <2>3. ASSUME q \notin overtaken PROVE grants' # {}
    <3>1. PICK g \in grants : g # found[q]
      BY <1>2, <2>3 DEF OtherRemains
    <3> QED BY <2>1, <3>1 DEF Delete
  <2> QED BY <2>2, <2>3
<1>3. TypeOK /\ TrailInv /\ OtherRemains /\ [Next]_vars =>
        [\A q \in Requests : pc[q] = "delete" /\ pc'[q] # "delete" =>
            found[q] \in grants /\ (grants' # {} \/ q \in overtaken)]_vars
  BY <1>2
<1> QED
  BY <1>1, <1>3, TrailInit, TrailStep, OtherStep, TypeCorrect, PTL DEF Spec, RevocationLeavesOne
=============================================================================
