---------------------------- MODULE Guardrail_proofs ----------------------------
(* Proofs about Guardrail for any number of calls and domains, any environment *)
(* and any number of policy changes, moves and deletes.                        *)
EXTENDS Guardrail, TLAPS

-----------------------------------------------------------------------------
(* Type correctness *)

Steps == CallSteps \cup AdminSteps
Overrides == Rows \cup {"nothing"}
CacheType ==
    /\ cached \in Rows \cup {"empty"} /\ raced \in BOOLEAN
    /\ fetched \in [Readers -> Overrides]

(* Whoever looks the policy up leaves the cache with a value of the table.     *)
LEMMA LookUpType ==
    ASSUME CacheType, NEW x \in Readers, NEW at, NEW override \in Rows, LookUp(x, at, override)
    PROVE  CacheType'
BY DEF CacheType, LookUp, Overrides

LEMMA ResolveType ==
    ASSUME env \in Envs, NEW override \in Rows
    PROVE  Resolve(override) \in Modes
BY GuardrailAssumption DEF Resolve, Default, Rows, Modes

LEMMA EnforcedType == ASSUME NEW c PROVE Enforced(c) \in {"write", "ask", "refused"}
BY DEF Enforced

LEMMA TypeStep == TypeOK /\ [Next]_vars => TypeOK'
<1> SUFFICES ASSUME TypeOK, [Next]_vars PROVE TypeOK'
  OBVIOUS
<1> USE DEF policy, record, locals, GoTo
<1>a. /\ env \in Envs /\ row \in Rows /\ wanted \in Modes /\ changes \in 0..MaxChanges
      /\ cls \in Tiers /\ place \in Domains \cup {"archived"} /\ upsets \in 0..MaxUpsets
      /\ req \in [Calls -> Requests] /\ before \in [Calls -> Tiers]
      /\ home \in [Calls -> Domains \cup {"archived"}]
      /\ alert \in [Calls -> BOOLEAN] /\ scanned \in [Calls -> SUBSET Domains]
      /\ used \in [Calls -> Modes \cup {"unasked"}]
      /\ approval \in [Calls -> {"none", "accepted", "confirmed"}]
      /\ pc \in [Readers -> Steps] /\ steady \in [Calls -> BOOLEAN]
  BY DEF TypeOK, Steps
<1>b. CacheType
  BY DEF TypeOK, CacheType, Overrides
<1>c. ASSUME CacheType', pc' \in [Readers -> Steps],
             env' \in Envs /\ row' \in Rows /\ wanted' \in Modes /\ changes' \in 0..MaxChanges,
             steady' \in [Calls -> BOOLEAN], UNCHANGED <<record, locals>>
      PROVE  TypeOK'
  BY <1>a, <1>c DEF TypeOK, CacheType, Overrides, Steps
<1>d. ASSUME pc' \in [Readers -> Steps], steady' \in [Calls -> BOOLEAN],
             UNCHANGED <<policy, record>>,
             req' \in [Calls -> Requests], before' \in [Calls -> Tiers],
             home' \in [Calls -> Domains \cup {"archived"}],
             alert' \in [Calls -> BOOLEAN], scanned' \in [Calls -> SUBSET Domains],
             used' \in [Calls -> Modes \cup {"unasked"}],
             approval' \in [Calls -> {"none", "accepted", "confirmed"}]
      PROVE  TypeOK'
  BY <1>a, <1>b, <1>d DEF TypeOK, CacheType, Overrides, Steps
<1>e. ASSUME NEW x \in Readers, NEW step \in Steps, GoTo(x, step)
      PROVE  pc' \in [Readers -> Steps]
  BY <1>a, <1>e
<1>f. Calls \subseteq Readers /\ Admin \in Readers
  BY DEF Readers
<1>1. ASSUME NEW x \in Readers, NEW at, Fetch(x, at) PROVE TypeOK'
  <2>1. CacheType'
    BY <1>1, <1>a, <1>b DEF Fetch, CacheType, Overrides
  <2> QED
    BY <1>1, <1>a, <1>c, <2>1 DEF Fetch
<1>2. ASSUME Expire PROVE TypeOK'
  <2>1. CacheType'
    BY <1>2, <1>b DEF Expire, CacheType
  <2> QED
    BY <1>2, <1>a, <1>c, <2>1 DEF Expire
<1>3. ASSUME NEW mode \in Modes, AdminStart(mode) PROVE TypeOK'
  <2>1. CacheType' /\ pc' \in [Readers -> Steps]
    BY <1>3, <1>a, <1>b, <1>e, <1>f DEF AdminStart, CacheType, Steps, AdminSteps
  <2>2. changes' \in 0..MaxChanges
    BY <1>3, <1>a, GuardrailAssumption DEF AdminStart
  <2> QED
    BY <1>3, <1>a, <1>c, <2>1, <2>2 DEF AdminStart
<1>4. ASSUME AdminCheck PROVE TypeOK'
  <2>1. CacheType'
    BY <1>4, <1>b, <1>f, LookUpType DEF AdminCheck
  <2>2. pc' \in [Readers -> Steps]
    BY <1>4, <1>a, <1>f DEF AdminCheck, Steps, AdminSteps
  <2> QED
    BY <1>4, <1>a, <1>c, <2>1, <2>2 DEF AdminCheck
<1>5. ASSUME AdminSet PROVE TypeOK'
  <2>1. CacheType' /\ pc' \in [Readers -> Steps]
    BY <1>5, <1>a, <1>b, <1>e, <1>f DEF AdminSet, CacheType, Steps, AdminSteps
  <2>2. row' \in Rows
    BY <1>5, <1>a DEF AdminSet, Rows
  <2> QED
    BY <1>5, <1>a, <1>c, <2>1, <2>2 DEF AdminSet
<1>6. ASSUME AdminDrop PROVE TypeOK'
  <2>1. CacheType' /\ pc' \in [Readers -> Steps]
    BY <1>6, <1>a, <1>b, <1>e, <1>f DEF AdminDrop, CacheType, Steps, AdminSteps
  <2> QED
    BY <1>6, <1>a, <1>c, <2>1 DEF AdminDrop
<1>7. ASSUME NEW c \in Calls, NEW r \in Requests, Begin(c, r) PROVE TypeOK'
  <2>1. \E step \in {"refused", "alerts", "gate"} : pc' = [pc EXCEPT ![c] = step]
    BY <1>7 DEF Begin
  <2>2. pc' \in [Readers -> Steps]
    BY <1>a, <1>f, <2>1 DEF Steps, CallSteps
  <2>3. Calm \in BOOLEAN /\ (r.op = "override" \/ cls > r.cls) \in BOOLEAN
    BY DEF Calm
  <2>4. alert' \in [Calls -> BOOLEAN] /\ steady' \in [Calls -> BOOLEAN]
    BY <1>7, <1>a, <2>3 DEF Begin
  <2> QED
    BY <1>7, <1>a, <1>d, <2>2, <2>4 DEF Begin
<1>8. ASSUME NEW c \in Calls, NEW d \in Domains, ScanDomain(c, d) PROVE TypeOK'
  <2>1. pc' \in [Readers -> Steps]
    BY <1>8, <1>a, <1>f DEF ScanDomain, Steps, CallSteps
  <2>2. alert' \in [Calls -> BOOLEAN] /\ scanned' \in [Calls -> SUBSET Domains]
    BY <1>8, <1>a DEF ScanDomain
  <2> QED
    BY <1>8, <1>a, <1>d, <2>1, <2>2 DEF ScanDomain
<1>9. ASSUME NEW c \in Calls, Unguarded(c) \/ Decline(c) PROVE TypeOK'
  <2>1. pc' \in [Readers -> Steps]
    BY <1>9, <1>a, <1>f DEF Unguarded, Decline, Steps, CallSteps
  <2> QED
    BY <1>9, <1>a, <1>d, <2>1 DEF Unguarded, Decline
<1>10. ASSUME NEW c \in Calls, Gate(c) PROVE TypeOK'
  <2>1. PICK override \in Rows :
          /\ LookUp(c, "gate", override)
          /\ used' = [used EXCEPT ![c] = Resolve(override)]
          /\ pc' = [pc EXCEPT ![c] = IF Resolve(override) = "warn" THEN "write" ELSE Enforced(c)]
    BY <1>10 DEF Gate
  <2>2. CacheType'
    BY <1>b, <1>f, <2>1, LookUpType
  <2>3. pc' \in [Readers -> Steps]
    BY <1>a, <1>f, <2>1, EnforcedType DEF Steps, CallSteps
  <2>4. used' \in [Calls -> Modes \cup {"unasked"}]
    BY <1>a, <2>1, ResolveType
  <2>5. approval' \in [Calls -> {"none", "accepted", "confirmed"}]
    BY <1>10, <1>a DEF Gate
  <2> QED
    BY <1>10, <1>a, <2>2, <2>3, <2>4, <2>5 DEF Gate, TypeOK, CacheType, Overrides, Steps
<1>11. ASSUME NEW c \in Calls, Accept(c) PROVE TypeOK'
  <2>1. pc' \in [Readers -> Steps] /\ approval' \in [Calls -> {"none", "accepted", "confirmed"}]
    BY <1>11, <1>a, <1>f DEF Accept, Steps, CallSteps
  <2> QED
    BY <1>11, <1>a, <1>d, <2>1 DEF Accept
<1>12. ASSUME NEW c \in Calls, Write(c) PROVE TypeOK'
  <2>1. \E step \in {"refused", "written"} : pc' = [pc EXCEPT ![c] = step]
    BY <1>12 DEF Write
  <2>2. pc' \in [Readers -> Steps]
    BY <1>a, <1>f, <2>1 DEF Steps, CallSteps
  <2>3. req[c].cls \in Tiers
    BY <1>a DEF Requests
  <2>4. cls' \in Tiers
    BY <1>12, <1>a, <2>3 DEF Write
  <2>5. \A x \in Calls : (steady[x] /\ (x = c \/ pc[x] = "written" \/ cls = cls')) \in BOOLEAN
    BY <1>a, ZenonT(30)
  <2>6. steady' \in [Calls -> BOOLEAN]
    BY <1>12, <1>a, <2>5 DEF Write
  <2> QED
    BY <1>12, <1>a, <1>b, <2>2, <2>4, <2>6 DEF Write, TypeOK, CacheType, Overrides, Steps
<1>13. ASSUME Delete \/ \E d \in Domains : Move(d) PROVE TypeOK'
  <2>1. /\ place' \in Domains \cup {"archived"} /\ upsets' \in 0..MaxUpsets
        /\ steady' = [c \in Calls |-> FALSE] /\ UNCHANGED <<policy, cls, locals, pc>>
    BY <1>13, <1>a, GuardrailAssumption DEF Delete, Move
  <2> QED
    BY <1>a, <1>b, <2>1 DEF TypeOK, CacheType, Overrides, Steps
<1>14. ASSUME UNCHANGED vars PROVE TypeOK'
  BY <1>14 DEF vars, TypeOK
<1>15. \A c \in Calls : Asked[c] \subseteq Requests
  BY GuardrailAssumption
<1> QED
  BY <1>f, <1>1, <1>2, <1>3, <1>4, <1>5, <1>6, <1>7, <1>8, <1>9, <1>10, <1>11, <1>12, <1>13,
     <1>14, <1>15 DEF Next, CallStep

(* Every reachable state has the declared types: the cache holds values of the *)
(* table, and a call only ever uses a mode there is.                           *)
THEOREM TypeCorrect == Spec => []TypeOK
<1>1. Init => TypeOK
  <2> SUFFICES ASSUME Init PROVE TypeOK
    OBVIOUS
  <2>1. NoRequest \in Requests
    BY DEF NoRequest, Requests, Tiers
  <2>2. 0 \in Tiers /\ 0 \in 0..MaxChanges /\ 0 \in 0..MaxUpsets
    BY GuardrailAssumption DEF Tiers
  <2>3. "warn" \in Modes /\ "idle" \in CallSteps
    BY DEF Modes, CallSteps
  <2> QED
    BY <2>1, <2>2, <2>3 DEF Init, TypeOK
<1> QED
  BY <1>1, TypeStep, PTL DEF Spec


-----------------------------------------------------------------------------
(* The cache of overrides *)

LEMMA AdminApart == Admin \notin Calls /\ Admin \in Readers /\ Calls \subseteq Readers
BY GuardrailAssumption DEF Readers

LEMMA StaleStep == TypeOK /\ StaleOnlyByRace /\ [Next]_vars => StaleOnlyByRace'
<1> SUFFICES ASSUME TypeOK, StaleOnlyByRace, [Next]_vars PROVE StaleOnlyByRace'
  OBVIOUS
<1> USE DEF policy, record, locals, GoTo, StaleOnlyByRace
<1>a. /\ pc \in [Readers -> CallSteps \cup AdminSteps]
      /\ cached \in Rows \cup {"empty"} /\ row \in Rows
  BY DEF TypeOK
<1>b. "empty" \notin Rows
  BY DEF Rows, Modes
<1>1. ASSUME NEW x \in Readers, NEW at, Fetch(x, at) PROVE StaleOnlyByRace'
  BY <1>1 DEF Fetch
<1>2. ASSUME Expire \/ AdminDrop PROVE StaleOnlyByRace'
  BY <1>2, <1>b DEF Expire, AdminDrop
<1>3. ASSUME NEW mode \in Modes, AdminStart(mode) PROVE StaleOnlyByRace'
  BY <1>3, <1>a, AdminApart DEF AdminStart
<1>4. ASSUME AdminCheck PROVE StaleOnlyByRace'
  <2>1. PICK override \in Rows : LookUp(Admin, "locked?", override)
    BY <1>4 DEF AdminCheck
  <2>2. row' = row /\ pc[Admin] # "drop"
    BY <1>4, <2>1 DEF AdminCheck, LookUp
  <2> QED
    BY <2>1, <2>2 DEF LookUp
<1>5. ASSUME AdminSet PROVE StaleOnlyByRace'
  BY <1>5, <1>a, AdminApart DEF AdminSet
<1>6. ASSUME NEW c \in Calls, Gate(c) PROVE StaleOnlyByRace'
  <2>1. PICK override \in Rows : LookUp(c, "gate", override)
    BY <1>6 DEF Gate
  <2>2. pc'[Admin] = pc[Admin] /\ row' = row
    BY <1>6, <1>a, AdminApart DEF Gate
  <2> QED
    BY <2>1, <2>2 DEF LookUp
<1>7. ASSUME NEW c \in Calls,
             \/ \E r \in Asked[c] : Begin(c, r)
             \/ \E d \in Domains : ScanDomain(c, d)
             \/ Unguarded(c) \/ Accept(c) \/ Decline(c) \/ Write(c)
      PROVE  StaleOnlyByRace'
  <2>1. UNCHANGED policy /\ \E step : pc' = [pc EXCEPT ![c] = step]
    BY <1>7 DEF Begin, ScanDomain, Unguarded, Accept, Decline, Write
  <2> QED
    BY <1>a, <2>1, AdminApart
<1>8. ASSUME Delete \/ (\E d \in Domains : Move(d)) \/ UNCHANGED vars PROVE StaleOnlyByRace'
  BY <1>8 DEF Delete, Move, vars
<1> QED
  BY AdminApart, <1>1, <1>2, <1>3, <1>4, <1>5, <1>6, <1>7, <1>8 DEF Next, CallStep

(* A cached override differs from the row only while a change of it has not    *)
(* dropped it yet, or when it was read before a change and kept after it: with *)
(* any number of readers, and any order of their steps.                        *)
THEOREM StaleOverrides == Spec => []StaleOnlyByRace
<1>1. Init => StaleOnlyByRace
  BY DEF Init, StaleOnlyByRace, Rows, Modes
<1> QED
  BY <1>1, StaleStep, TypeCorrect, PTL DEF Spec

-----------------------------------------------------------------------------
(* What a call that nothing was changed under has come to.                     *)

(* Nothing is changed under a call only while the cache agrees with the row.   *)
SteadyIsCalm == (\E c \in Calls : steady[c]) => Calm

Approved(c) == approval[c] = IF req[c].elicit THEN "accepted" ELSE "confirmed"

(* The record is still what the call has read, and the alert that its request  *)
(* calls for is raised: among the domains scanned, and then altogether.        *)
Warned(c) ==
    /\ place \in Domains /\ home[c] = place
    /\ pc[c] # "written" => cls = before[c]
    /\ pc[c] = "alerts" =>
        /\ req[c].op = "replace"
        /\ (place \in scanned[c] /\ Alarms(before[c], req[c].cls)) => alert[c]
    /\ pc[c] # "alerts" => (Warrants(req[c], before[c]) => alert[c])

Answered(c) ==
    /\ pc[c] = "ask" => req[c].elicit
    /\ (pc[c] \in {"write", "written"} /\ alert[c] /\ Effective = "enforce") => Approved(c)

Careful(c) ==
    /\ pc[c] = "idle" => scanned[c] = {} /\ ~steady[c]
    /\ (steady[c] /\ pc[c] # "refused") => Warned(c) /\ Answered(c)

CarefulInv == SteadyIsCalm /\ \A c \in Calls : Careful(c)

LEMMA SteadyStep == TypeOK /\ SteadyIsCalm /\ [Next]_vars => SteadyIsCalm'
<1> SUFFICES ASSUME TypeOK, SteadyIsCalm, [Next]_vars PROVE SteadyIsCalm'
  OBVIOUS
<1> USE DEF policy, record, locals, GoTo
<1>a. /\ pc \in [Readers -> CallSteps \cup AdminSteps]
      /\ fetched \in [Readers -> Rows \cup {"nothing"}]
      /\ steady \in [Calls -> BOOLEAN]
  BY DEF TypeOK
<1>b. ASSUME Calm => Calm', \A c \in Calls : steady'[c] => steady[c] PROVE SteadyIsCalm'
  BY <1>b DEF SteadyIsCalm
<1>1. ASSUME NEW x \in Readers, NEW at, Fetch(x, at) PROVE SteadyIsCalm'
  BY <1>1, <1>a, <1>b DEF Fetch, Calm
<1>2. ASSUME Expire PROVE SteadyIsCalm'
  BY <1>2, <1>b DEF Expire, Calm
<1>3. ASSUME AdminDrop \/ \E mode \in Modes : AdminStart(mode) PROVE SteadyIsCalm'
  BY <1>3, <1>a, <1>b, AdminApart DEF AdminDrop, AdminStart, Calm
<1>4. ASSUME NEW x \in Readers, NEW at, NEW override \in Rows, LookUp(x, at, override),
             UNCHANGED <<row, steady>>, pc'[Admin] = "drop" => pc[Admin] = "drop"
      PROVE  SteadyIsCalm'
  BY <1>4, <1>a, <1>b DEF LookUp, Calm
<1>5. ASSUME AdminCheck PROVE SteadyIsCalm'
  BY <1>5, <1>a, <1>4, AdminApart DEF AdminCheck
<1>6. ASSUME NEW c \in Calls, Gate(c) PROVE SteadyIsCalm'
  <2>1. PICK override \in Rows : LookUp(c, "gate", override)
    BY <1>6 DEF Gate
  <2>2. pc'[Admin] = pc[Admin] /\ row' = row /\ steady' = steady
    BY <1>6, <1>a, AdminApart DEF Gate
  <2> QED
    BY <1>4, <2>1, <2>2, AdminApart
<1>7. ASSUME AdminSet \/ Delete \/ \E d \in Domains : Move(d) PROVE SteadyIsCalm'
  BY <1>7 DEF AdminSet, Delete, Move, SteadyIsCalm
<1>8. ASSUME NEW c \in Calls, NEW r, Begin(c, r) PROVE SteadyIsCalm'
  <2>1. UNCHANGED policy /\ pc'[Admin] = pc[Admin] /\ steady' = [steady EXCEPT ![c] = Calm]
    BY <1>8, <1>a, AdminApart DEF Begin
  <2>2. Calm' = Calm
    BY <2>1 DEF Calm
  <2>3. CASE Calm
    BY <2>2, <2>3 DEF SteadyIsCalm
  <2>4. CASE ~Calm
    BY <1>a, <2>1, <2>4 DEF SteadyIsCalm
  <2> QED
    BY <2>3, <2>4
<1>9. ASSUME NEW c \in Calls,
             (\E d \in Domains : ScanDomain(c, d)) \/ Unguarded(c) \/ Accept(c) \/ Decline(c)
      PROVE  SteadyIsCalm'
  <2>1. UNCHANGED <<policy, steady>> /\ \E step : pc' = [pc EXCEPT ![c] = step]
    BY <1>9 DEF ScanDomain, Unguarded, Accept, Decline
  <2> QED
    BY <1>a, <1>b, <2>1, AdminApart DEF Calm
<1>10. ASSUME NEW c \in Calls, Write(c) PROVE SteadyIsCalm'
  <2>1. UNCHANGED policy /\ \E step : pc' = [pc EXCEPT ![c] = step]
    BY <1>10 DEF Write
  <2>2. \A x \in Calls : steady'[x] => steady[x]
    BY <1>10 DEF Write
  <2> QED
    BY <1>a, <1>b, <2>1, <2>2, AdminApart DEF Calm
<1>11. ASSUME UNCHANGED vars PROVE SteadyIsCalm'
  BY <1>11, <1>b DEF vars, Calm
<1> QED
  BY AdminApart, <1>1, <1>2, <1>3, <1>5, <1>6, <1>7, <1>8, <1>9, <1>10, <1>11 DEF Next, CallStep


(* An answer of a steady reader's look-up is the mode that holds.              *)
LEMMA LookUpEffective ==
    ASSUME TypeOK, Calm, NEW x \in Readers, NEW at, NEW override \in Rows, LookUp(x, at, override)
    PROVE  Resolve(override) = Effective
BY DEF Calm, LookUp, Resolve, Effective, Rows, Modes

LEMMA CarefulStep == TypeOK /\ CarefulInv /\ [Next]_vars => CarefulInv'
<1> SUFFICES ASSUME TypeOK, CarefulInv, [Next]_vars PROVE CarefulInv'
  OBVIOUS
<1> USE DEF policy, record, locals, GoTo
<1>a. /\ pc \in [Readers -> CallSteps \cup AdminSteps]
      /\ steady \in [Calls -> BOOLEAN] /\ alert \in [Calls -> BOOLEAN]
      /\ scanned \in [Calls -> SUBSET Domains]
      /\ approval \in [Calls -> {"none", "accepted", "confirmed"}]
      /\ req \in [Calls -> Requests] /\ before \in [Calls -> Tiers]
      /\ home \in [Calls -> Domains \cup {"archived"}]
      /\ cls \in Tiers /\ place \in Domains \cup {"archived"}
  BY DEF TypeOK
<1>b. \A c \in Calls : Careful(c)
  BY DEF CarefulInv
<1>c. SteadyIsCalm'
  BY SteadyStep DEF CarefulInv
<1>d. ASSUME \A c \in Calls : Careful(c)' PROVE CarefulInv'
  BY <1>c, <1>d DEF CarefulInv
<1>e. "archived" \notin Domains
  BY GuardrailAssumption
(* A step that touches neither the call nor what it depends on.                *)
<1>f. ASSUME NEW x \in Calls,
             /\ pc'[x] = pc[x] /\ req'[x] = req[x] /\ before'[x] = before[x]
             /\ home'[x] = home[x] /\ alert'[x] = alert[x]
             /\ scanned'[x] = scanned[x] /\ approval'[x] = approval[x],
             steady'[x] => steady[x],
             steady'[x] => /\ row' = row /\ env' = env /\ place' = place
                           /\ (cls' = cls \/ pc[x] = "written")
      PROVE  Careful(x)'
  <2>1. Careful(x)
    BY <1>b
  <2>2. CASE steady'[x]
    <3>1. Effective' = Effective
      BY <1>f, <2>2 DEF Effective, Resolve, Default
    <3> QED
      BY <1>f, <2>1, <2>2, <3>1 DEF Careful, Warned, Answered, Approved, Warrants, Alarms
  <2>3. CASE ~steady'[x]
    BY <1>f, <2>1, <2>3 DEF Careful
  <2> QED
    BY <2>2, <2>3
<1>1. ASSUME UNCHANGED <<env, row, record, locals, steady>>,
             \A c \in Calls : pc'[c] = pc[c]
      PROVE  CarefulInv'
  BY <1>1, <1>f, <1>d
<1>2. ASSUME (\E x \in Readers, at \in {"gate", "locked?"} : Fetch(x, at)) \/ Expire PROVE CarefulInv'
  BY <1>1, <1>2 DEF Fetch, Expire
<1>3. ASSUME AdminCheck \/ AdminDrop \/ \E mode \in Modes : AdminStart(mode) PROVE CarefulInv'
  <2>1. UNCHANGED <<env, row, record, locals, steady>>
    BY <1>3 DEF AdminCheck, AdminDrop, AdminStart
  <2>2. \A c \in Calls : pc'[c] = pc[c]
    BY <1>3, <1>a, AdminApart DEF AdminCheck, AdminDrop, AdminStart
  <2> QED
    BY <1>1, <2>1, <2>2
<1>4. ASSUME AdminSet \/ Delete \/ \E d \in Domains : Move(d) PROVE CarefulInv'
  <2>1. UNCHANGED locals /\ \A c \in Calls : pc'[c] = pc[c] /\ ~steady'[c]
    BY <1>4, <1>a, AdminApart DEF AdminSet, Delete, Move
  <2> QED
    BY <1>d, <1>f, <2>1
<1>5. ASSUME NEW c \in Calls, NEW r \in Requests, Begin(c, r) PROVE CarefulInv'
  <2>1. ASSUME NEW x \in Calls, x # c PROVE Careful(x)'
    BY <1>5, <1>a, <1>f, <2>1, AdminApart DEF Begin
  <2>2. Careful(c)'
    <3>1. /\ req'[c] = r /\ before'[c] = cls /\ home'[c] = place /\ scanned'[c] = scanned[c]
          /\ UNCHANGED <<record, policy>>
      BY <1>5, <1>a DEF Begin
    <3>2. scanned[c] = {}
      BY <1>5, <1>b DEF Careful, Begin
    <3>3. CASE place = "archived"
      <4>1. pc'[c] = "refused"
        BY <1>5, <1>a, <3>3, AdminApart DEF Begin
      <4> QED
        BY <4>1 DEF Careful
    <3>4. CASE place # "archived" /\ r.op = "replace"
      <4>1. pc'[c] = "alerts"
        BY <1>5, <1>a, <3>4, AdminApart DEF Begin
      <4> QED
        BY <1>a, <3>1, <3>2, <3>4, <4>1 DEF Careful, Warned, Answered
    <3>5. CASE place # "archived" /\ r.op # "replace"
      <4>1. pc'[c] = "gate" /\ alert'[c] = (r.op = "override" \/ cls > r.cls)
        BY <1>5, <1>a, <3>5, AdminApart DEF Begin
      <4>2. Warrants(r, cls) => alert'[c]
        BY <3>5, <4>1 DEF Warrants
      <4>3. Warrants(req[c], before[c])' => alert'[c]
        BY <3>1, <4>2 DEF Warrants
      <4> QED
        BY <1>a, <3>1, <3>5, <4>1, <4>3 DEF Careful, Warned, Answered
    <3> QED
      BY <3>3, <3>4, <3>5
  <2> QED
    BY <1>d, <2>1, <2>2
<1>6. ASSUME NEW c \in Calls, NEW d \in Domains, ScanDomain(c, d) PROVE CarefulInv'
  <2>1. ASSUME NEW x \in Calls, x # c PROVE Careful(x)'
    BY <1>6, <1>a, <1>f, <2>1, AdminApart DEF ScanDomain
  <2>2. Careful(c)'
    <3>1. /\ UNCHANGED <<policy, record, req, before, home, approval, steady>> /\ pc[c] = "alerts"
          /\ scanned'[c] = scanned[c] \cup {d}
          /\ pc'[c] = IF Domains \subseteq scanned[c] \cup {d} THEN "gate" ELSE "alerts"
      BY <1>6, <1>a, AdminApart DEF ScanDomain
    <3>2. alert'[c] = (alert[c] \/ (place = d /\ Alarms(cls, req[c].cls)))
      BY <1>6, <1>a DEF ScanDomain
    <3>3. CASE ~steady[c]
      BY <3>1, <3>3 DEF Careful
    <3>4. CASE steady[c]
      <4>1. Warned(c) /\ req[c].op = "replace" /\ cls = before[c]
        BY <1>b, <3>1, <3>4 DEF Careful, Warned
      <4>2. (place \in scanned'[c] /\ Alarms(before[c], req[c].cls)) => alert'[c]
        BY <3>1, <3>2, <4>1 DEF Warned
      <4>3. pc'[c] = "gate" => (Warrants(req[c], before[c]) => alert'[c])
        <5>1. pc'[c] = "gate" => place \in scanned'[c]
          BY <3>1, <4>1 DEF Warned
        <5>2. Warrants(req[c], before[c]) => Alarms(before[c], req[c].cls)
          BY <4>1 DEF Warrants, Alarms
        <5> QED
          BY <4>2, <5>1, <5>2
      <4> HIDE <3>2
      <4>4. Warned(c)'
        <5>1. (place \in scanned[c] /\ Alarms(before[c], req[c].cls))' => alert'[c]
          BY <3>1, <4>2 DEF Alarms
        <5>2. pc'[c] # "alerts" => (Warrants(req[c], before[c])' => alert'[c])
          BY <3>1, <4>3 DEF Warrants
        <5> QED
          BY <3>1, <4>1, <5>1, <5>2 DEF Warned
      <4> QED
        BY <3>1, <4>4 DEF Careful, Answered
    <3> QED
      BY <1>a, <3>3, <3>4
  <2> QED
    BY <1>d, <2>1, <2>2

<1>7. ASSUME NEW c \in Calls, Unguarded(c) \/ Accept(c) \/ Decline(c) PROVE CarefulInv'
  <2>1. ASSUME NEW x \in Calls, x # c PROVE Careful(x)'
    BY <1>7, <1>a, <1>f, <2>1, AdminApart DEF Unguarded, Accept, Decline
  <2>2. Careful(c)'
    <3>1. UNCHANGED <<policy, record, req, before, home, alert, scanned, steady>>
      BY <1>7 DEF Unguarded, Accept, Decline
    <3>2. Effective' = Effective /\ (Warrants(req[c], before[c]))' = Warrants(req[c], before[c])
      BY <3>1 DEF Effective, Resolve, Default, Warrants
    <3>3. CASE Unguarded(c)
      <4>1. pc[c] = "gate" /\ pc'[c] = "write" /\ ~alert[c]
        BY <1>a, <3>3, AdminApart DEF Unguarded
      <4> QED
        BY <1>b, <3>1, <3>2, <4>1 DEF Careful, Warned, Answered
    <3>4. CASE Accept(c)
      <4>1. pc[c] = "ask" /\ pc'[c] = "write" /\ approval'[c] = "accepted"
        BY <1>a, <3>4, AdminApart DEF Accept
      <4> QED
        BY <1>b, <3>1, <3>2, <4>1 DEF Careful, Warned, Answered, Approved
    <3>5. CASE Decline(c)
      <4>1. pc'[c] = "refused"
        BY <1>a, <3>5, AdminApart DEF Decline
      <4> QED
        BY <4>1 DEF Careful
    <3> QED
      BY <1>7, <3>3, <3>4, <3>5
  <2> QED
    BY <1>d, <2>1, <2>2
<1>8. ASSUME NEW c \in Calls, Gate(c) PROVE CarefulInv'
  <2>1. ASSUME NEW x \in Calls, x # c PROVE Careful(x)'
    BY <1>8, <1>a, <1>f, <2>1, AdminApart DEF Gate
  <2>2. Careful(c)'
    <3>1. PICK override \in Rows :
            /\ LookUp(c, "gate", override)
            /\ pc' = [pc EXCEPT ![c] = IF Resolve(override) = "warn" THEN "write" ELSE Enforced(c)]
            /\ approval' = [approval EXCEPT ![c] =
                    IF Resolve(override) = "enforce" /\ pc'[c] = "write" THEN "confirmed" ELSE @]
      BY <1>8 DEF Gate
    <3>2. /\ UNCHANGED <<env, row, record, req, before, home, alert, scanned, steady>>
          /\ pc[c] = "gate"
      BY <1>8, <3>1 DEF Gate, LookUp
    <3>3. /\ pc'[c] = IF Resolve(override) = "warn" THEN "write" ELSE Enforced(c)
          /\ approval'[c] = IF Resolve(override) = "enforce" /\ pc'[c] = "write"
                            THEN "confirmed" ELSE approval[c]
      BY <1>a, <3>1, AdminApart
    <3>4. pc'[c] \in {"write", "ask", "refused"}
      BY <3>3, EnforcedType
    <3>5. CASE ~steady[c]
      BY <3>2, <3>4, <3>5 DEF Careful
    <3>6. CASE steady[c]
      <4>1. Resolve(override) = Effective
        BY <3>1, <3>6, LookUpEffective, AdminApart DEF CarefulInv, SteadyIsCalm
      <4>2. Effective' = Effective /\ (Warrants(req[c], before[c]))' = Warrants(req[c], before[c])
        BY <3>2 DEF Effective, Resolve, Default, Warrants
      <4>3. Warned(c)
        BY <1>b, <3>2, <3>6 DEF Careful
      <4>4. Warned(c)'
        BY <3>2, <3>4, <4>2, <4>3 DEF Warned
      <4>5. Answered(c)'
        <5>1. CASE Effective = "enforce"
          <6>1. pc'[c] = Enforced(c) /\ (pc'[c] = "write" => approval'[c] = "confirmed")
            BY <3>3, <4>1, <5>1
          <6>2. CASE req[c].elicit
            <7>1. pc'[c] = "ask"
              BY <6>1, <6>2 DEF Enforced
            <7> QED
              BY <3>2, <6>2, <7>1 DEF Answered
          <6>3. CASE ~req[c].elicit
            <7>1. pc'[c] \in {"write", "refused"}
              BY <6>1, <6>3 DEF Enforced
            <7> QED
              BY <3>2, <6>1, <6>3, <7>1 DEF Answered, Approved
          <6> QED
            BY <6>2, <6>3
        <5>2. CASE Effective # "enforce"
          <6>1. Effective = "warn"
            BY <4>1, <5>2, ResolveType DEF Modes, TypeOK
          <6> QED
            BY <3>3, <4>1, <4>2, <6>1 DEF Answered
        <5> QED
          BY <5>1, <5>2
      <4> QED
        BY <3>4, <4>4, <4>5 DEF Careful
    <3> QED
      BY <1>a, <3>5, <3>6
  <2> QED
    BY <1>d, <2>1, <2>2
<1>9. ASSUME NEW c \in Calls, Write(c) PROVE CarefulInv'
  <2>1. \E step \in {"refused", "written"} : pc' = [pc EXCEPT ![c] = step]
    BY <1>9 DEF Write
  <2>2. UNCHANGED <<policy, place, locals>> /\ pc[c] = "write"
    BY <1>9 DEF Write
  <2>3. ASSUME NEW x \in Calls, x # c PROVE Careful(x)'
    <3>1. pc'[x] = pc[x]
      BY <1>a, <2>1, <2>3, AdminApart
    <3>2. steady'[x] => steady[x] /\ (cls' = cls \/ pc[x] = "written")
      BY <1>9, <2>3 DEF Write
    <3> QED
      BY <1>f, <2>2, <3>1, <3>2
  <2>4. Careful(c)'
    <3>1. pc'[c] \in {"refused", "written"} /\ (steady'[c] => steady[c])
      <4>1. steady'[c] => steady[c]
        BY <1>9 DEF Write
      <4> QED
        BY <1>a, <2>1, <4>1, AdminApart
    <3>2. Effective' = Effective /\ (Warrants(req[c], before[c]))' = Warrants(req[c], before[c])
      BY <2>2 DEF Effective, Resolve, Default, Warrants
    <3> QED
      BY <1>b, <2>2, <3>1, <3>2 DEF Careful, Warned, Answered, Approved
  <2> QED
    BY <1>d, <2>3, <2>4
<1>10. ASSUME UNCHANGED vars PROVE CarefulInv'
  BY <1>1, <1>10 DEF vars
<1>11. \A c \in Calls : Asked[c] \subseteq Requests
  BY GuardrailAssumption
<1> QED
  BY AdminApart, <1>2, <1>3, <1>4, <1>5, <1>6, <1>7, <1>8, <1>9, <1>10, <1>11 DEF Next, CallStep

(* Where the policy is to enforce, a call that nothing was changed under never *)
(* replaces or downgrades a record unasked, and what it replaces is live: the  *)
(* look-up finds the mode that holds, and the alert was raised in time.        *)
THEOREM GuardedWrites == Spec => []NothingReplacedUnasked
<1>1. Init => CarefulInv
  BY DEF Init, CarefulInv, SteadyIsCalm, Careful, Readers
<1>2. CarefulInv => NothingReplacedUnasked
  <2> SUFFICES ASSUME CarefulInv, NEW c \in Calls, pc[c] = "written", steady[c]
      PROVE  /\ place # "archived"
             /\ (Effective = "enforce" /\ Warrants(req[c], before[c])) => Approved(c)
    BY DEF NothingReplacedUnasked, Approved
  <2>1. Warned(c) /\ Answered(c)
    BY DEF CarefulInv, Careful
  <2> QED
    BY <2>1, GuardrailAssumption DEF Warned, Answered
<1> QED
  BY <1>1, <1>2, CarefulStep, TypeCorrect, PTL DEF Spec
=============================================================================
