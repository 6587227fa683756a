------------------------ MODULE RecordHistory_proofs ------------------------
(* Proofs about RecordHistory for any number of calls, users and fields,     *)
(* whatever overlaps and whatever fails.                                     *)
EXTENDS RecordHistory, FiniteSetTheorems, WellFoundedInduction, TLAPS

-----------------------------------------------------------------------------
(* Type correctness *)

EventRows == [by : Calls, session : Nat \ {0}]
EditRows == [by : Calls, session : Nat \ {0}, before : Snapshots]

\* Writing the values of a snapshot, of a call or of the admin page into a record
\* leaves a record with all its required fields.
Record == {r \in [Fields -> Values] : \A f \in Required : r[f] # Absent}

LEMMA MlEditType ==
    ASSUME value \in Record, NEW S, NEW new,
           \A f \in Fields \cap S : new[f] \in Values \ {Absent},
           MlEdit(S, new)
    PROVE  value' \in Record
BY DEF Record, MlEdit, Fields

\* A session that is looked up or issued is a positive number.
LEMMA SessionForType ==
    ASSUME NEW u \in Users, session \in [Users -> Nat], issued \in Nat
    PROVE  SessionFor(u) \in Nat \ {0}
BY DEF SessionFor

\* Every step of a call, a fault, the clock or the admin page keeps the types.
LEMMA TypeStep == TypeOK /\ [Next]_vars => TypeOK'
<1> SUFFICES ASSUME TypeOK, [Next]_vars PROVE TypeOK'
  OBVIOUS
<1> USE DEF TypeOK, rows, task, GoTo, Answer, InFlight, Replies
<1>z. value \in Record
  BY DEF Record
<1>a. ASSUME value' \in Record PROVE value' \in [Fields -> Values]
                                     /\ \A f \in Required : value'[f] # Absent
  BY <1>a DEF Record
<1>b. \A S \in SUBSET Fields : \A b \in [S -> Values \ {Absent}] :
        DOMAIN b \subseteq Fields /\ \A f \in DOMAIN b : b[f] \in Values \ {Absent}
  OBVIOUS
<1>c. \A b \in Snapshots :
        DOMAIN b \subseteq Fields /\ \A f \in DOMAIN b : b[f] \in Values \ {Absent}
  BY <1>b DEF Snapshots
<1>d. \A c \in Calls : c \in Values \ {Absent}
  BY ValuesAssumption DEF Values
<1>1. ASSUME NEW c \in Calls, StartEdit(c) PROVE TypeOK'
  <2>1. PICK S \in (SUBSET regime.fields) \ {{}} :
          /\ fields' = [fields EXCEPT ![c] = S]
          /\ before' = [before EXCEPT ![c] =
                          [f \in {g \in S : value[g] # Absent} |-> value[f]]]
    BY <1>1 DEF StartEdit
  <2>. regime.fields \subseteq Fields
    BY RegimesAssumption
  <2>2. [f \in {g \in S : value[g] # Absent} |-> value[f]]
          \in [{g \in S : value[g] # Absent} -> Values \ {Absent}]
    OBVIOUS
  <2>3. [f \in {g \in S : value[g] # Absent} |-> value[f]] \in Snapshots
    BY <2>2 DEF Snapshots
  <2>4. before' \in [Calls -> Snapshots] /\ fields' \in [Calls -> SUBSET Fields]
    BY <2>1, <2>3
  <2>5. \/ pc' = [pc EXCEPT ![c] = "gate"] /\ reply' = reply
        \/ pc' = [pc EXCEPT ![c] = "done"] /\ reply' = [reply EXCEPT ![c] = "refused"]
    BY <1>1 DEF StartEdit
  <2>6. UNCHANGED <<value, outcomes, events, edits, session, issued, status, sid,
                    faults, regime>>
    BY <1>1 DEF StartEdit
  <2> QED
    BY <2>4, <2>5, <2>6
<1>2. ASSUME NEW c \in Calls, Reject(c) PROVE TypeOK'
  BY <1>2 DEF Reject
<1>3. ASSUME NEW c \in Calls, Apply(c) PROVE TypeOK'
  <2>1. value' \in Record
    BY <1>3, <1>z, <1>d, MlEditType DEF Apply
  <2> QED
    BY <1>3, <1>a, <2>1 DEF Apply
<1>4. ASSUME NEW c \in Calls, CreateEvent(c) PROVE TypeOK'
  <2> DEFINE s == SessionFor(User[c])
  <2>1. s \in Nat \ {0} /\ User[c] \in Users
    BY SessionForType, UserAssumption
  <2>2. [by |-> c, session |-> s] \in EventRows
    BY <2>1 DEF EventRows
  <2>3. events' \in Seq(EventRows)
    BY <1>4, <2>2 DEF CreateEvent, EventRows
  <2>4. /\ session' = [session EXCEPT ![User[c]] = s]
        /\ issued' = IF s > issued THEN s ELSE issued
        /\ sid' = [sid EXCEPT ![c] = s]
        /\ pc' = [pc EXCEPT ![c] = "row"]
        /\ UNCHANGED <<value, outcomes, edits, fields, status, before, reply, faults,
                       regime>>
    BY <1>4 DEF CreateEvent
  <2> HIDE DEF s
  <2> QED
    BY <2>1, <2>3, <2>4 DEF EventRows
<1>5. ASSUME NEW c \in Calls, CreateEdit(c) PROVE TypeOK'
  <2>1. [by |-> c, session |-> sid[c], before |-> before[c]] \in EditRows
    BY <1>5 DEF CreateEdit, EditRows
  <2>2. edits' \in Seq(EditRows)
    BY <1>5, <2>1 DEF CreateEdit, EditRows
  <2> QED
    BY <1>5, <2>2 DEF CreateEdit, EditRows
<1>6. ASSUME NEW c \in Calls, UndoEdit(c) PROVE TypeOK'
  <2>1. value' \in Record
    BY <1>6, <1>z, <1>c, MlEditType DEF UndoEdit
  <2> QED
    BY <1>6, <1>a, <2>1 DEF UndoEdit
<1>7. ASSUME NEW c \in Calls, StartOutcome(c) PROVE TypeOK'
  <2>1. PICK s \in Statuses : status' = [status EXCEPT ![c] = s]
    BY <1>7 DEF StartOutcome
  <2>2. \/ pc' = [pc EXCEPT ![c] = "append"] /\ reply' = reply
        \/ pc' = [pc EXCEPT ![c] = "done"] /\ reply' = [reply EXCEPT ![c] = "refused"]
    BY <1>7 DEF StartOutcome
  <2> QED
    BY <1>7, <2>1, <2>2, ValuesAssumption DEF StartOutcome
<1>e. ASSUME NEW c \in Calls, pc[c] = "append", MlOutcome(c)
      PROVE  outcomes' \subseteq [by : Calls, status : Statuses, after : Nat,
                                  on : [ContentFields -> Values]]
  <2>1. [f \in ContentFields |-> value[f]] \in [ContentFields -> Values]
    BY FieldsAssumption DEF Fields
  <2>2. Len(edits) \in Nat /\ status[c] \in Statuses
    BY <1>e
  <2>3. [by |-> c, status |-> status[c], after |-> Len(edits),
         on |-> [f \in ContentFields |-> value[f]]]
           \in [by : Calls, status : Statuses, after : Nat, on : [ContentFields -> Values]]
    BY <2>1, <2>2
  <2>4. outcomes \subseteq [by : Calls, status : Statuses, after : Nat,
                            on : [ContentFields -> Values]]
    OBVIOUS
  <2> QED
    BY <1>e, <2>3, <2>4, Zenon DEF MlOutcome
<1>8. ASSUME NEW c \in Calls, AppendOutcome(c) PROVE TypeOK'
  BY <1>8, <1>e DEF AppendOutcome
<1>9. ASSUME NEW c \in Calls, DbFails(c) PROVE TypeOK'
  BY <1>9, BoundsAssumption DEF DbFails
<1>10. ASSUME NEW c \in Calls, MlFails(c) PROVE TypeOK'
  <2>1. value' \in Record
    <3>1. CASE MlEffect(c)
      BY <3>1, <1>z, <1>c, <1>d, MlEditType DEF MlEffect
    <3>2. CASE ~MlEffect(c)
      BY <3>2, <1>10, <1>z DEF MlFails
    <3> QED
      BY <3>1, <3>2
  <2>2. outcomes' \subseteq [by : Calls, status : Statuses, after : Nat,
                             on : [ContentFields -> Values]]
    <3>1. CASE outcomes' = outcomes
      BY <3>1
    <3>2. CASE outcomes' # outcomes
      BY <3>2, <1>10, <1>e DEF MlFails, MlEffect
    <3> QED
      BY <3>1, <3>2
  <2>3. /\ pc' = [pc EXCEPT ![c] = "done"]
        /\ reply' = [reply EXCEPT ![c] = "error"]
        /\ faults' \in 0..MaxFaults
        /\ UNCHANGED <<events, edits, session, issued, fields, status, before, sid,
                       regime>>
    BY <1>10, BoundsAssumption DEF MlFails
  <2> QED
    BY <1>a, <2>1, <2>2, <2>3
<1>11. ASSUME NEW u \in Users, Expire(u) PROVE TypeOK'
  BY <1>11 DEF Expire
<1>12. ASSUME NEW f \in Fields, AdminEdit(f) PROVE TypeOK'
  <2>1. value' \in Record
    BY <1>12, <1>z, ValuesAssumption, MlEditType DEF AdminEdit, Values
  <2> QED
    BY <1>12, <1>a, <2>1 DEF AdminEdit
<1>13. ASSUME Crash PROVE TypeOK'
  BY <1>13, BoundsAssumption DEF Crash
<1>14. ASSUME UNCHANGED vars PROVE TypeOK'
  BY <1>14 DEF vars
<1> QED
  BY <1>1, <1>2, <1>3, <1>4, <1>5, <1>6, <1>7, <1>8, <1>9, <1>10, <1>11, <1>12,
     <1>13, <1>14 DEF Next, Step, Rest

\* Every reachable state has the types the module declares: in particular a record
\* never loses a required field, and no row is inserted without a session.
THEOREM TypeCorrect == Spec => []TypeOK
<1>1. Init => TypeOK
  <2> SUFFICES ASSUME Init PROVE TypeOK
    OBVIOUS
  <2>1. [f \in {} |-> Absent] \in [{} -> Values \ {Absent}]
    OBVIOUS
  <2>2. [f \in {} |-> Absent] \in Snapshots
    BY <2>1 DEF Snapshots
  <2>3. value \in [Fields -> Values] /\ \A f \in Required : value[f] # Absent
    BY ValuesAssumption DEF Init, Values, Fields
  <2> QED
    BY <2>2, <2>3, BoundsAssumption DEF Init, TypeOK, InFlight, Replies
<1> QED
  BY <1>1, TypeStep, PTL DEF Spec

-----------------------------------------------------------------------------
(* The history never crosses actors *)

\* Who was given which session id: the owners of the rows, of the live sessions,
\* and of the ids that calls between their two inserts hold.
Holders ==
    {<<User[events[k].by], events[k].session>> : k \in DOMAIN events} \cup
    {<<User[edits[k].by], edits[k].session>> : k \in DOMAIN edits} \cup
    {<<u, session[u]>> : u \in {v \in Users : session[v] # 0}} \cup
    {<<User[c], sid[c]>> : c \in {b \in Calls : pc[b] = "row"}}

\* The inductive invariant: a session id was issued, and to one user.
SessionsApart ==
    /\ \A h \in Holders : h[1] \in Users /\ h[2] \in 1..issued
    /\ \A g, h \in Holders : g[2] = h[2] => g[1] = h[1]

\* A step that hands out no session id keeps the ids apart.
LEMMA FewerHolders ==
    ASSUME SessionsApart, Holders' \subseteq Holders, issued' = issued
    PROVE  SessionsApart'
BY DEF SessionsApart

\* So does one that hands out an id nobody had.
LEMMA FreshHolder ==
    ASSUME SessionsApart, issued \in Nat, NEW u \in Users, issued' = issued + 1,
           Holders' \subseteq Holders \cup {<<u, issued + 1>>}
    PROVE  SessionsApart'
<1>1. \A h \in Holders : h[2] \in 1..issued /\ h[2] # issued + 1
  BY DEF SessionsApart
<1>2. \A h \in Holders' : h \in Holders \/ h = <<u, issued + 1>>
  OBVIOUS
<1>3. \A h \in Holders' : h[1] \in Users /\ h[2] \in 1..(issued + 1)
  BY <1>1, <1>2 DEF SessionsApart
<1>4. \A g, h \in Holders' : g[2] = h[2] => g[1] = h[1]
  BY <1>1, <1>2 DEF SessionsApart
<1> QED
  BY <1>3, <1>4 DEF SessionsApart

\* The rows of a table after an insert.
LEMMA AppendedRow ==
    ASSUME NEW T, NEW table \in Seq(T), NEW r \in T
    PROVE  \A k \in DOMAIN Append(table, r) :
             \/ k \in DOMAIN table /\ Append(table, r)[k] = table[k]
             \/ Append(table, r)[k] = r
OBVIOUS

LEMMA SessionStep == TypeOK /\ SessionsApart /\ [Next]_vars => SessionsApart'
<1> SUFFICES ASSUME TypeOK, SessionsApart, [Next]_vars PROVE SessionsApart'
  OBVIOUS
<1> USE DEF rows, task, GoTo, Answer
<1>1. ASSUME NEW c \in Calls, CreateEvent(c) PROVE SessionsApart'
  <2> DEFINE s == SessionFor(User[c])
             row == [by |-> c, session |-> s]
  <2>1. User[c] \in Users /\ s \in Nat \ {0}
    BY SessionForType, UserAssumption DEF TypeOK
  <2>2. row \in EventRows /\ events \in Seq(EventRows)
    BY <2>1 DEF EventRows, TypeOK
  <2>3. /\ events' = Append(events, row)
        /\ session' = [session EXCEPT ![User[c]] = s]
        /\ issued' = IF s > issued THEN s ELSE issued
        /\ sid' = [sid EXCEPT ![c] = s]
        /\ pc' = [pc EXCEPT ![c] = "row"]
        /\ edits' = edits
    BY <1>1 DEF CreateEvent
  <2>4. \A k \in DOMAIN events' : \/ k \in DOMAIN events /\ events'[k] = events[k]
                                  \/ events'[k] = row
    BY <2>2, <2>3, AppendedRow
  <2>5. Holders' \subseteq Holders \cup {<<User[c], s>>}
    <3>1. ASSUME NEW k \in DOMAIN events'
          PROVE <<User[events'[k].by], events'[k].session>> \in Holders \cup {<<User[c], s>>}
      BY <2>4 DEF Holders
    <3>2. ASSUME NEW u \in Users, session'[u] # 0
          PROVE <<u, session'[u]>> \in Holders \cup {<<User[c], s>>}
      BY <2>3, <3>2 DEF Holders, TypeOK
    <3>3. ASSUME NEW b \in Calls, pc'[b] = "row"
          PROVE <<User[b], sid'[b]>> \in Holders \cup {<<User[c], s>>}
      BY <2>3, <3>3 DEF Holders, TypeOK
    <3> QED
      BY <2>3, <3>1, <3>2, <3>3 DEF Holders
  <2>6. CASE session[User[c]] # 0
    <3>1. s = session[User[c]] /\ <<User[c], s>> \in Holders
      BY <2>1, <2>6 DEF SessionFor, Holders
    <3>2. s \in 1..issued
      BY <3>1 DEF SessionsApart
    <3>3. issued' = issued
      BY <2>3, <3>2 DEF TypeOK
    <3> QED
      BY <2>5, <3>1, <3>3, FewerHolders
  <2>7. CASE session[User[c]] = 0
    <3>1. s = issued + 1 /\ issued \in Nat
      BY <2>7 DEF SessionFor, TypeOK
    <3>2. issued' = issued + 1
      BY <2>3, <3>1
    <3> QED
      BY <2>1, <2>5, <3>1, <3>2, FreshHolder
  <2> QED
    BY <2>6, <2>7
<1>2. ASSUME NEW c \in Calls, CreateEdit(c) PROVE SessionsApart'
  <2> DEFINE row == [by |-> c, session |-> sid[c], before |-> before[c]]
  <2>1. row \in EditRows /\ edits \in Seq(EditRows)
    BY <1>2 DEF CreateEdit, EditRows, TypeOK
  <2>2. /\ edits' = Append(edits, row)
        /\ pc[c] = "row" /\ pc' = [pc EXCEPT ![c] = "done"]
        /\ UNCHANGED <<events, session, issued, sid>>
    BY <1>2 DEF CreateEdit
  <2>3. \A k \in DOMAIN edits' : \/ k \in DOMAIN edits /\ edits'[k] = edits[k]
                                 \/ edits'[k] = row
    BY <2>1, <2>2, AppendedRow
  <2>4. <<User[c], sid[c]>> \in Holders
    BY <2>2 DEF Holders
  <2>5. ASSUME NEW k \in DOMAIN edits'
        PROVE <<User[edits'[k].by], edits'[k].session>> \in Holders
    BY <2>3, <2>4 DEF Holders
  <2>6. ASSUME NEW b \in Calls, pc'[b] = "row" PROVE pc[b] = "row"
    BY <2>2, <2>6 DEF TypeOK
  <2>7. Holders' \subseteq Holders
    BY <2>2, <2>5, <2>6 DEF Holders
  <2> QED
    BY <2>2, <2>7, FewerHolders
<1>3. ASSUME /\ UNCHANGED <<events, edits, issued, sid>>
             /\ \A u \in Users : session'[u] \in {session[u], 0}
             /\ \A b \in Calls : pc'[b] = "row" => pc[b] = "row"
      PROVE SessionsApart'
  <2>1. Holders' \subseteq Holders
    BY <1>3 DEF Holders
  <2> QED
    BY <1>3, <2>1, FewerHolders
<1>4. ASSUME NEW c \in Calls,
             \/ StartEdit(c) \/ Reject(c) \/ Apply(c) \/ UndoEdit(c)
             \/ StartOutcome(c) \/ AppendOutcome(c) \/ DbFails(c) \/ MlFails(c)
      PROVE SessionsApart'
  <2>1. UNCHANGED <<events, edits, issued, sid, session>>
    BY <1>4 DEF StartEdit, Reject, Apply, UndoEdit, StartOutcome, AppendOutcome,
                DbFails, MlFails
  <2>2. \E p \in {"gate", "event", "undo", "append", "done"} : pc' = [pc EXCEPT ![c] = p]
    BY <1>4 DEF StartEdit, Reject, Apply, UndoEdit, StartOutcome, AppendOutcome,
                DbFails, MlFails
  <2>3. \A b \in Calls : pc'[b] = "row" => pc[b] = "row"
    BY <2>2 DEF TypeOK
  <2> QED
    BY <1>3, <2>1, <2>3
<1>5. ASSUME NEW u \in Users, Expire(u) PROVE SessionsApart'
  BY <1>3, <1>5 DEF Expire, TypeOK
<1>6. ASSUME NEW f \in Fields, AdminEdit(f) PROVE SessionsApart'
  BY <1>3, <1>6 DEF AdminEdit
<1>7. ASSUME Crash PROVE SessionsApart'
  BY <1>3, <1>7 DEF Crash, InFlight
<1>8. ASSUME UNCHANGED vars PROVE SessionsApart'
  BY <1>3, <1>8 DEF vars
<1> QED
  BY <1>1, <1>2, <1>4, <1>5, <1>6, <1>7, <1>8 DEF Next, Step, Rest

\* get_record_history never shows what one user overwrote with an edit of another,
\* for any number of users and calls, any overlap, any failed insert, `ml` fault,
\* crash or session expiry: the rows it pairs carry one session id, and no id is
\* ever given to two users.
THEOREM HistoryNeverCrosses == Spec => []HistoryNeverCrossesActors
<1>1. Init => SessionsApart
  BY DEF Init, SessionsApart, Holders
<1>2. TypeOK /\ SessionsApart => HistoryNeverCrossesActors
  <2> SUFFICES ASSUME SessionsApart, NEW k \in DOMAIN events, NEW j \in PairedRows(k)
               PROVE  User[edits[j].by] = User[events[k].by]
    BY DEF HistoryNeverCrossesActors
  <2>1. j \in DOMAIN edits /\ edits[j].session = events[k].session
    BY DEF PairedRows
  <2>2. /\ <<User[events[k].by], events[k].session>> \in Holders
        /\ <<User[edits[j].by], edits[j].session>> \in Holders
    BY <2>1 DEF Holders
  <2>3. \A g, h \in Holders : g[2] = h[2] => g[1] = h[1]
    BY DEF SessionsApart
  <2> QED
    BY <2>1, <2>2, <2>3
<1> QED
  BY <1>1, <1>2, TypeCorrect, SessionStep, PTL DEF Spec

-----------------------------------------------------------------------------
(* A status counts once *)

\* One call of each user is in flight.
InTurn == OneCallEach => \A b, c \in Calls :
    b # c /\ User[b] = User[c] /\ pc[b] \in InFlight => pc[c] \notin InFlight

\* The inductive invariant: what is on its way to be reported was not reported.
ReportedOnce ==
    /\ \A o \in outcomes : pc[o.by] = "done" /\ o.after <= Len(edits)
    /\ OneOutcomePerStatus
    /\ OneCallEach => \A c \in Calls, o \in outcomes :
            pc[c] = "append" /\ User[o.by] = User[c] => o.status # status[c]

\* The regime is chosen once.
LEMMA RegimeStays == [Next]_vars => regime' = regime
BY DEF Next, Step, Rest, vars, GoTo, Answer, StartEdit, Reject, Apply, CreateEvent,
       CreateEdit, UndoEdit, StartOutcome, AppendOutcome, DbFails, MlFails, Expire,
       AdminEdit, Crash

\* A call that was not in flight starts, and MayStart let it; all others were.
LEMMA FlightStep ==
    ASSUME TypeOK, [Next]_vars, NEW c \in Calls, pc'[c] \in InFlight, pc[c] \notin InFlight
    PROVE  /\ \E op \in {"edit", "outcome"} : MayStart(c, op)
           /\ \E p \in {"gate", "append"} : pc' = [pc EXCEPT ![c] = p]
<1> USE DEF TypeOK, GoTo, Answer, InFlight
<1>1. ASSUME NEW b \in Calls, StartEdit(b)
      PROVE /\ MayStart(b, "edit")
            /\ \E p \in {"gate", "done"} : pc' = [pc EXCEPT ![b] = p]
  BY <1>1 DEF StartEdit
<1>2. ASSUME NEW b \in Calls, StartOutcome(b)
      PROVE /\ MayStart(b, "outcome")
            /\ \E p \in {"append", "done"} : pc' = [pc EXCEPT ![b] = p]
  BY <1>2 DEF StartOutcome
<1>3. ASSUME NEW b \in Calls,
             \/ Reject(b) \/ Apply(b) \/ CreateEvent(b) \/ CreateEdit(b) \/ UndoEdit(b)
             \/ AppendOutcome(b) \/ DbFails(b) \/ MlFails(b)
      PROVE FALSE
  <2>1. pc[b] \in InFlight /\ \E p \in InFlight \cup {"done"} : pc' = [pc EXCEPT ![b] = p]
    BY <1>3 DEF Reject, Apply, CreateEvent, CreateEdit, UndoEdit, AppendOutcome,
                DbFails, MlFails
  <2> QED
    BY <2>1
<1>4. ASSUME \/ \E u \in Users : Expire(u)
             \/ \E f \in Fields : AdminEdit(f)
             \/ Crash \/ UNCHANGED vars
      PROVE FALSE
  BY <1>4 DEF Expire, AdminEdit, Crash, vars
<1> QED
  BY <1>1, <1>2, <1>3, <1>4 DEF Next, Step, Rest

LEMMA InTurnStep == TypeOK /\ InTurn /\ [Next]_vars => InTurn'
<1> SUFFICES ASSUME TypeOK, InTurn, [Next]_vars, OneCallEach',
                    NEW b \in Calls, NEW c \in Calls, b # c, User[b] = User[c],
                    pc'[b] \in InFlight, pc'[c] \in InFlight
             PROVE  FALSE
  BY DEF InTurn
<1>1. OneCallEach
  BY RegimeStays DEF OneCallEach
<1>2. ASSUME NEW x \in Calls, NEW y \in Calls, x # y, User[x] = User[y],
             pc'[x] \in InFlight, pc'[y] \in InFlight, pc[x] \notin InFlight
      PROVE  FALSE
  <2>1. /\ \E op \in {"edit", "outcome"} : MayStart(x, op)
        /\ \E p \in {"gate", "append"} : pc' = [pc EXCEPT ![x] = p]
    BY <1>2, FlightStep
  <2>2. pc[y] \in InFlight
    BY <1>2, <2>1 DEF TypeOK
  <2> QED
    BY <1>1, <1>2, <2>1, <2>2 DEF MayStart, OneCallEach
<1> QED
  BY <1>1, <1>2 DEF InTurn

\* An outcome that is appended was not reported before by its user.
LEMMA AppendStep ==
    ASSUME TypeOK, InTurn, ReportedOnce, NEW c \in Calls, pc[c] = "append",
           MlOutcome(c), pc' = [pc EXCEPT ![c] = "done"],
           UNCHANGED <<status, edits, regime>>
    PROVE  ReportedOnce'
<1> DEFINE new == [by |-> c, status |-> status[c], after |-> Len(edits),
                   on |-> [f \in ContentFields |-> value[f]]]
<1>1. outcomes' = outcomes \cup {new} /\ new.by = c /\ new.status = status[c]
        /\ new.after = Len(edits) /\ Len(edits) \in Nat
  BY DEF MlOutcome, TypeOK
<1>2. OneCallEach' <=> OneCallEach
  BY DEF OneCallEach
<1>3. \A o \in outcomes : o.by \in Calls
  BY DEF TypeOK
<1> HIDE DEF new
<1>4. \A o \in outcomes' : pc'[o.by] = "done" /\ o.after <= Len(edits)'
  BY <1>1, <1>3 DEF ReportedOnce, TypeOK
<1>5. OneOutcomePerStatus'
  BY <1>1, <1>2 DEF ReportedOnce, OneOutcomePerStatus
<1>6. ASSUME OneCallEach, NEW b \in Calls, NEW o \in outcomes',
             pc'[b] = "append", User[o.by] = User[b]
      PROVE  o.status # status'[b]
  <2>1. b # c /\ pc[b] = "append"
    BY <1>6 DEF TypeOK
  <2>2. User[b] # User[c]
    BY <1>6, <2>1 DEF InTurn, InFlight
  <2> QED
    BY <1>1, <1>6, <2>1, <2>2 DEF ReportedOnce
<1> QED
  BY <1>2, <1>4, <1>5, <1>6 DEF ReportedOnce

LEMMA ReportedStep == TypeOK /\ InTurn /\ ReportedOnce /\ [Next]_vars => ReportedOnce'
<1> SUFFICES ASSUME TypeOK, InTurn, ReportedOnce, [Next]_vars PROVE ReportedOnce'
  OBVIOUS
<1> USE DEF rows, task, GoTo, Answer
<1>z. OneCallEach' <=> OneCallEach
  BY RegimeStays DEF OneCallEach
<1>a. \A o \in outcomes : o.by \in Calls /\ o.after \in Nat
  BY DEF TypeOK
<1>b. Len(edits) \in Nat
  BY DEF TypeOK
\* A step that appends no outcome and lets none go ahead.
<1>0. ASSUME outcomes' = outcomes, Len(edits') >= Len(edits), Len(edits') \in Nat,
             \A b \in Calls : /\ pc[b] = "done" => pc'[b] = "done"
                              /\ pc'[b] = "append" =>
                                   pc[b] = "append" /\ status'[b] = status[b]
      PROVE ReportedOnce'
  <2>1. \A o \in outcomes' : pc'[o.by] = "done" /\ o.after <= Len(edits)'
    BY <1>0, <1>a, <1>b DEF ReportedOnce
  <2>2. OneOutcomePerStatus'
    BY <1>0, <1>z DEF ReportedOnce, OneOutcomePerStatus
  <2> QED
    BY <1>0, <1>z, <2>1, <2>2 DEF ReportedOnce
<1>1. ASSUME NEW c \in Calls, StartOutcome(c) PROVE ReportedOnce'
  <2>1. PICK s \in Statuses :
          /\ status' = [status EXCEPT ![c] = s]
          /\ IF \E o \in outcomes : User[o.by] = User[c] /\ o.status = s
             THEN Answer(c, "refused") ELSE GoTo(c, "append")
    BY <1>1 DEF StartOutcome
  <2>2. pc[c] = "idle" /\ outcomes' = outcomes /\ edits' = edits
    BY <1>1 DEF StartOutcome
  <2>3. \E p \in {"append", "done"} : pc' = [pc EXCEPT ![c] = p]
    BY <2>1
  <2>4. \A o \in outcomes' : pc'[o.by] = "done" /\ o.after <= Len(edits)'
    BY <1>a, <2>2, <2>3 DEF ReportedOnce, TypeOK
  <2>5. OneOutcomePerStatus'
    BY <1>z, <2>2 DEF ReportedOnce, OneOutcomePerStatus
  <2>6. ASSUME OneCallEach, NEW b \in Calls, NEW o \in outcomes',
               pc'[b] = "append", User[o.by] = User[b]
        PROVE  o.status # status'[b]
    <3>1. CASE b = c
      BY <2>1, <2>2, <2>6, <3>1 DEF TypeOK
    <3>2. CASE b # c
      BY <2>1, <2>2, <2>3, <2>6, <3>2 DEF TypeOK, ReportedOnce
    <3> QED
      BY <3>1, <3>2
  <2> QED
    BY <1>z, <2>4, <2>5, <2>6 DEF ReportedOnce
<1>2. ASSUME NEW c \in Calls, AppendOutcome(c) PROVE ReportedOnce'
  BY <1>2, AppendStep DEF AppendOutcome
<1>3. ASSUME NEW c \in Calls, MlFails(c) PROVE ReportedOnce'
  <2>1. CASE pc[c] = "append" /\ MlOutcome(c)
    BY <1>3, <2>1, AppendStep DEF MlFails
  <2>2. CASE outcomes' = outcomes
    BY <1>0, <1>3, <1>b, <2>2 DEF MlFails, TypeOK
  <2> QED
    BY <1>3, <2>1, <2>2 DEF MlFails, MlEffect
<1>4. ASSUME NEW c \in Calls, CreateEdit(c) PROVE ReportedOnce'
  <2>1. Len(edits') = Len(edits) + 1
    BY <1>4 DEF CreateEdit, TypeOK
  <2> QED
    BY <1>0, <1>4, <1>b, <2>1 DEF CreateEdit, TypeOK
<1>5. ASSUME NEW c \in Calls, StartEdit(c) PROVE ReportedOnce'
  <2>1. /\ outcomes' = outcomes /\ edits' = edits /\ status' = status /\ pc[c] = "idle"
        /\ \E p \in {"gate", "done"} : pc' = [pc EXCEPT ![c] = p]
    BY <1>5 DEF StartEdit
  <2> QED
    BY <1>0, <1>b, <2>1 DEF TypeOK
<1>6. ASSUME NEW c \in Calls, Reject(c) \/ Apply(c) \/ UndoEdit(c) \/ CreateEvent(c) \/ DbFails(c)
      PROVE ReportedOnce'
  <2>1. /\ outcomes' = outcomes /\ edits' = edits /\ status' = status /\ pc[c] # "done"
        /\ \E p \in {"event", "row", "undo", "done"} : pc' = [pc EXCEPT ![c] = p]
    BY <1>6 DEF Reject, Apply, UndoEdit, CreateEvent, DbFails
  <2> QED
    BY <1>0, <1>b, <2>1 DEF TypeOK
<1>7. ASSUME \/ \E u \in Users : Expire(u)
             \/ \E f \in Fields : AdminEdit(f)
             \/ UNCHANGED vars
      PROVE ReportedOnce'
  <2>1. UNCHANGED <<outcomes, edits, pc, status>>
    BY <1>7 DEF Expire, AdminEdit, vars
  <2> QED
    BY <1>0, <1>b, <2>1
<1>8. ASSUME Crash PROVE ReportedOnce'
  BY <1>0, <1>8, <1>b DEF Crash, InFlight, TypeOK
<1> QED
  BY <1>1, <1>2, <1>3, <1>4, <1>5, <1>6, <1>7, <1>8 DEF Next, Step, Rest

\* Who makes one call at a time has each status counted once, whatever other users
\* do and whatever fails: the check that record_outcome makes before its `ml`
\* command still holds when the command runs, also after an answer was lost.
THEOREM StatusesCountOnce == Spec => []OneOutcomePerStatus
<1>1. Init => InTurn /\ ReportedOnce
  BY DEF Init, InTurn, ReportedOnce, OneOutcomePerStatus, InFlight
<1>2. ReportedOnce => OneOutcomePerStatus
  BY DEF ReportedOnce
<1> QED
  BY <1>1, <1>2, TypeCorrect, InTurnStep, ReportedStep, PTL DEF Spec

-----------------------------------------------------------------------------
(* Every event is shown with its own row *)

\* How many rows of session s a table has, and a call between its two inserts.
Count(table, s) == Cardinality({m \in DOMAIN table : table[m].session = s})
Waits(c, s) == pc[c] = "row" /\ sid[c] = s

LEMMA CountFinite ==
    ASSUME NEW T, NEW table \in Seq(T), NEW s
    PROVE  /\ IsFiniteSet({m \in DOMAIN table : table[m].session = s})
           /\ Count(table, s) \in Nat
<1>1. Len(table) \in Nat /\ DOMAIN table = 1..Len(table)
  OBVIOUS
<1>2. IsFiniteSet(DOMAIN table)
  BY <1>1, FS_Interval
<1>3. {m \in DOMAIN table : table[m].session = s} \in SUBSET DOMAIN table
  OBVIOUS
<1>4. IsFiniteSet({m \in DOMAIN table : table[m].session = s})
  BY <1>2, <1>3, FS_Subset
<1> QED
  BY <1>4, FS_CardinalityType DEF Count

\* A row that is inserted is counted for its session only.
LEMMA CountAppend ==
    ASSUME NEW T, NEW table \in Seq(T), NEW r \in T, NEW s
    PROVE  Count(Append(table, r), s) =
             IF r.session = s THEN Count(table, s) + 1 ELSE Count(table, s)
<1> DEFINE old == {m \in DOMAIN table : table[m].session = s}
           new == {m \in DOMAIN Append(table, r) : Append(table, r)[m].session = s}
           n == Len(table) + 1
<1>1. /\ Len(table) \in Nat /\ DOMAIN table = 1..Len(table)
      /\ DOMAIN Append(table, r) = 1..n /\ Append(table, r)[n] = r
      /\ \A m \in 1..Len(table) : Append(table, r)[m] = table[m]
  OBVIOUS
<1>2. CASE r.session = s
  <2>1. new = old \cup {n} /\ n \notin old
    BY <1>1, <1>2
  <2>2. IsFiniteSet(old)
    BY CountFinite
  <2>3. Cardinality(new) = Cardinality(old) + 1
    BY <2>1, <2>2, FS_AddElement
  <2> QED
    BY <1>2, <2>3 DEF Count
<1>3. CASE r.session # s
  <2>1. new = old
    BY <1>1, <1>3
  <2> QED
    BY <1>3, <2>1 DEF Count
<1> QED
  BY <1>2, <1>3

\* It leaves the places of the older rows and takes the last place of its session.
LEMMA RankAppend ==
    ASSUME NEW T, NEW table \in Seq(T), NEW r \in T
    PROVE  /\ \A n \in DOMAIN table : Rank(Append(table, r), n) = Rank(table, n)
           /\ Rank(Append(table, r), Len(table) + 1) = Count(table, r.session) + 1
<1> DEFINE l == Len(table) + 1
<1>1. /\ Len(table) \in Nat /\ DOMAIN table = 1..Len(table)
      /\ DOMAIN Append(table, r) = 1..l /\ Append(table, r)[l] = r
      /\ \A m \in 1..Len(table) : Append(table, r)[m] = table[m]
  OBVIOUS
<1>2. ASSUME NEW n \in DOMAIN table PROVE Rank(Append(table, r), n) = Rank(table, n)
  <2>1. {m \in 1..n : Append(table, r)[m].session = Append(table, r)[n].session}
          = {m \in 1..n : table[m].session = table[n].session}
    BY <1>1, <1>2
  <2> QED
    BY <2>1 DEF Rank
<1>3. Rank(Append(table, r), l) = Count(Append(table, r), r.session)
  <2>1. {m \in 1..l : Append(table, r)[m].session = Append(table, r)[l].session}
          = {m \in DOMAIN Append(table, r) : Append(table, r)[m].session = r.session}
    BY <1>1
  <2> QED
    BY <2>1 DEF Rank, Count
<1> QED
  BY <1>2, <1>3, CountAppend

\* Two rows of a session have different places in it.
LEMMA RankDistinct ==
    ASSUME NEW T, NEW table \in Seq(T), NEW k \in DOMAIN table, NEW n \in DOMAIN table,
           table[k].session = table[n].session, Rank(table, k) = Rank(table, n)
    PROVE  k = n
<1>1. ASSUME NEW i \in DOMAIN table, NEW j \in DOMAIN table,
             table[i].session = table[j].session, Rank(table, i) = Rank(table, j), i < j
      PROVE  FALSE
  <2> DEFINE I == {m \in 1..i : table[m].session = table[i].session}
             J == {m \in 1..j : table[m].session = table[j].session}
  <2>1. i \in Nat /\ j \in Nat
    OBVIOUS
  <2>2. IsFiniteSet(1..j) /\ J \in SUBSET (1..j)
    BY <2>1, FS_Interval
  <2>3. IsFiniteSet(J)
    BY <2>2, FS_Subset
  <2>4. I \in SUBSET J /\ j \in J /\ j \notin I
    BY <1>1, <2>1
  <2>5. Cardinality(J) = Cardinality(I)
    BY <1>1 DEF Rank
  <2>6. J = I
    BY <2>3, <2>4, <2>5, FS_Subset
  <2> QED
    BY <2>4, <2>6
<1>2. k \in Nat /\ n \in Nat
  OBVIOUS
<1> QED
  BY <1>1, <1>2

\* Every edit row is paired, and with its own event; the event of a call that
\* waits for its second insert is the last of its session and the only one
\* without a row; the sessions that may go on have as many rows as events.
Aligned(j, k) ==
    edits[j].session = events[k].session /\ Rank(edits, j) = Rank(events, k)
EventsOnce ==
    /\ \A c \in Calls : reply[c] = "ok" => pc[c] = "done"
    /\ \A k \in DOMAIN events : pc[events[k].by] \in {"row", "done"}
    /\ \A k, m \in DOMAIN events : events[k].by = events[m].by => k = m
RowsMatch ==
    /\ \A j \in DOMAIN edits : \E k \in DOMAIN events :
            edits[j].by = events[k].by /\ Aligned(j, k)
    /\ \A k \in DOMAIN events : reply[events[k].by] = "ok" =>
            \E j \in DOMAIN edits : Aligned(j, k)
EventWaits(c) == \E k \in DOMAIN events :
    /\ events[k].by = c /\ events[k].session = sid[c]
    /\ Rank(events, k) = Count(events, sid[c])
    /\ Count(events, sid[c]) = Count(edits, sid[c]) + 1
Balanced(u) == session[u] # 0 /\ (\A c \in Calls : ~Waits(c, session[u])) =>
    Count(events, session[u]) = Count(edits, session[u])
Pairing ==
    /\ EventsOnce
    /\ RowsMatch
    /\ \A c \in Calls : pc[c] = "row" => EventWaits(c)
    /\ \A u \in Users : Balanced(u)
PairingInv == OneCallEach /\ InsertsSucceed => Pairing

LEMMA RowTypes ==
    ASSUME TypeOK
    PROVE  /\ \A k \in DOMAIN events : events[k] \in EventRows /\ events[k].by \in Calls
           /\ \A j \in DOMAIN edits : edits[j] \in EditRows /\ edits[j].by \in Calls
<1>1. events \in Seq(EventRows) /\ edits \in Seq(EditRows)
  BY DEF TypeOK, EventRows, EditRows
<1>2. /\ \A k \in DOMAIN events : events[k] \in EventRows
      /\ \A j \in DOMAIN edits : edits[j] \in EditRows
  BY <1>1
<1>3. (\A r \in EventRows : r.by \in Calls) /\ (\A r \in EditRows : r.by \in Calls)
  BY DEF EventRows, EditRows
<1> QED
  BY <1>2, <1>3

\* Two calls between their two inserts hold different sessions.
LEMMA OneWaiter ==
    ASSUME TypeOK, SessionsApart, InTurn, OneCallEach, NEW b \in Calls, NEW c \in Calls,
           pc[b] = "row", pc[c] = "row", sid[b] = sid[c]
    PROVE  b = c
<1>1. <<User[b], sid[b]>> \in Holders /\ <<User[c], sid[c]>> \in Holders
  BY DEF Holders
<1>2. User[b] = User[c]
  BY <1>1 DEF SessionsApart
<1> QED
  BY <1>2 DEF InTurn, InFlight

\* Nobody waits for the session that a call is about to insert its event under,
\* its tables are balanced, and no other user has it.
LEMMA SessionIsFree ==
    ASSUME TypeOK, SessionsApart, InTurn, OneCallEach, Pairing,
           NEW c \in Calls, pc[c] = "event"
    PROVE  LET s == SessionFor(User[c]) IN
             /\ \A b \in Calls : ~Waits(b, s)
             /\ Count(events, s) = Count(edits, s)
             /\ \A v \in Users : v # User[c] => session[v] # s
<1> DEFINE s == SessionFor(User[c])
<1>u. User[c] \in Users
  BY UserAssumption
<1>w. \A b \in Calls : Waits(b, s) => <<User[b], s>> \in Holders /\ pc[b] = "row"
  BY DEF Waits, Holders
<1>v. \A v \in Users : session[v] = s /\ s # 0 => <<v, s>> \in Holders
  BY DEF Holders
<1>t. s \in Nat \ {0}
  BY <1>u, SessionForType DEF TypeOK
<1>1. CASE session[User[c]] # 0
  <2>1. s = session[User[c]]
    BY <1>1 DEF SessionFor
  <2> HIDE DEF s
  <2>2. <<User[c], s>> \in Holders
    BY <1>u, <1>v, <1>t, <2>1
  <2>3. ASSUME NEW b \in Calls, Waits(b, s) PROVE FALSE
    <3>1. User[b] = User[c] /\ pc[b] = "row"
      BY <1>w, <2>2, <2>3 DEF SessionsApart
    <3> QED
      BY <3>1 DEF InTurn, InFlight
  <2>4. ASSUME NEW v \in Users, session[v] = s PROVE v = User[c]
    BY <1>v, <1>t, <2>2, <2>4 DEF SessionsApart
  <2>5. Count(events, s) = Count(edits, s)
    BY <1>1, <1>u, <2>1, <2>3 DEF Pairing, Balanced
  <2> QED
    BY <2>3, <2>4, <2>5 DEF s
<1>2. CASE session[User[c]] = 0
  <2>1. s = issued + 1 /\ issued \in Nat
    BY <1>2 DEF SessionFor, TypeOK
  <2> HIDE DEF s
  <2>2. \A h \in Holders : h[2] # s
    BY <2>1 DEF SessionsApart
  <2>3. /\ \A b \in Calls : ~Waits(b, s)
        /\ \A v \in Users : session[v] # s
    BY <1>v, <1>w, <1>t, <2>2
  <2>4. {m \in DOMAIN events : events[m].session = s} = {}
    <3>1. ASSUME NEW m \in DOMAIN events PROVE events[m].session # s
      <4>1. <<User[events[m].by], events[m].session>> \in Holders
        BY DEF Holders
      <4> QED
        BY <2>2, <4>1
    <3> QED
      BY <3>1
  <2>5. {m \in DOMAIN edits : edits[m].session = s} = {}
    <3>1. ASSUME NEW m \in DOMAIN edits PROVE edits[m].session # s
      <4>1. <<User[edits[m].by], edits[m].session>> \in Holders
        BY DEF Holders
      <4> QED
        BY <2>2, <4>1
    <3> QED
      BY <3>1
  <2>6. Count(events, s) = Count(edits, s)
    BY <2>4, <2>5 DEF Count
  <2> QED
    BY <2>3, <2>6 DEF s
<1> QED
  BY <1>1, <1>2

\* The first insert of an edit: its event becomes the last one of its session.
LEMMA PairingAfterEvent ==
    ASSUME TypeOK, SessionsApart, InTurn, OneCallEach, Pairing,
           NEW c \in Calls, CreateEvent(c)
    PROVE  Pairing'
<1> DEFINE s == SessionFor(User[c])
           row == [by |-> c, session |-> s]
           l == Len(events) + 1
<1>1. /\ events' = Append(events, row)
      /\ session' = [session EXCEPT ![User[c]] = s]
      /\ sid' = [sid EXCEPT ![c] = s]
      /\ pc[c] = "event" /\ pc' = [pc EXCEPT ![c] = "row"]
      /\ edits' = edits /\ reply' = reply
  BY DEF CreateEvent, GoTo
<1>2. /\ \A b \in Calls : ~Waits(b, s)
      /\ Count(events, s) = Count(edits, s)
      /\ \A v \in Users : v # User[c] => session[v] # s
  BY <1>1, SessionIsFree
<1>3. User[c] \in Users /\ s \in Nat \ {0}
  BY SessionForType, UserAssumption DEF TypeOK
<1> HIDE DEF s
<1>4. row \in EventRows /\ events \in Seq(EventRows)
  BY <1>3 DEF EventRows, TypeOK
<1>5. /\ l \in Nat /\ DOMAIN events = 1..(l - 1) /\ DOMAIN events' = 1..l
      /\ \A k \in DOMAIN events : events'[k] = events[k]
      /\ events'[l] = row /\ row.by = c /\ row.session = s
  BY <1>1, <1>4
<1>6. /\ \A k \in DOMAIN events : Rank(events', k) = Rank(events, k)
      /\ Rank(events', l) = Count(events, s) + 1
  BY <1>1, <1>4, <1>5, RankAppend
<1>7. \A t : Count(events', t) = IF s = t THEN Count(events, t) + 1 ELSE Count(events, t)
  BY <1>1, <1>4, <1>5, CountAppend
<1>8. \A k \in DOMAIN events : events[k].by \in Calls /\ events[k].by # c
  BY <1>1, RowTypes DEF Pairing, EventsOnce
<1> HIDE DEF row, l
<1>9. EventsOnce'
  <2>1. \A b \in Calls : reply'[b] = "ok" => pc'[b] = "done"
    BY <1>1 DEF Pairing, EventsOnce, TypeOK
  <2>2. \A k \in DOMAIN events' : pc'[events'[k].by] \in {"row", "done"}
    BY <1>1, <1>5, <1>8 DEF Pairing, EventsOnce, TypeOK
  <2>3. \A k, m \in DOMAIN events' : events'[k].by = events'[m].by => k = m
    BY <1>5, <1>8 DEF Pairing, EventsOnce
  <2> QED
    BY <2>1, <2>2, <2>3 DEF EventsOnce
<1>10. RowsMatch'
  <2>1. \A j \in DOMAIN edits : \A k \in DOMAIN events : Aligned(j, k) => Aligned(j, k)'
    BY <1>1, <1>5, <1>6 DEF Aligned
  <2>2. \A j \in DOMAIN edits' : \E k \in DOMAIN events' :
            edits'[j].by = events'[k].by /\ Aligned(j, k)'
    BY <1>1, <1>5, <2>1 DEF Pairing, RowsMatch
  <2>3. ASSUME NEW k \in DOMAIN events', reply'[events'[k].by] = "ok"
        PROVE  \E j \in DOMAIN edits' : Aligned(j, k)'
    <3>1. k \in DOMAIN events
      BY <1>1, <1>5, <2>3 DEF Pairing, EventsOnce
    <3> QED
      BY <1>1, <1>5, <2>1, <2>3, <3>1 DEF Pairing, RowsMatch
  <2> QED
    BY <2>2, <2>3 DEF RowsMatch
<1>11. ASSUME NEW b \in Calls, pc'[b] = "row" PROVE EventWaits(b)'
  <2>1. CASE b = c
    <3>1. sid'[b] = s
      BY <1>1, <2>1 DEF TypeOK
    <3>2. /\ l \in DOMAIN events' /\ events'[l].by = b /\ events'[l].session = sid'[b]
          /\ Rank(events', l) = Count(events', sid'[b])
          /\ Count(events', sid'[b]) = Count(edits', sid'[b]) + 1
      BY <1>1, <1>2, <1>5, <1>6, <1>7, <2>1, <3>1
    <3> QED
      BY <3>2 DEF EventWaits
  <2>2. CASE b # c
    <3>1. pc[b] = "row" /\ sid'[b] = sid[b]
      BY <1>1, <1>11, <2>2 DEF TypeOK
    <3>2. sid[b] # s
      BY <1>2, <3>1 DEF Waits
    <3>3. PICK k \in DOMAIN events :
            /\ events[k].by = b /\ events[k].session = sid[b]
            /\ Rank(events, k) = Count(events, sid[b])
            /\ Count(events, sid[b]) = Count(edits, sid[b]) + 1
      BY <3>1 DEF Pairing, EventWaits
    <3>4. k \in DOMAIN events' /\ events'[k] = events[k] /\ Rank(events', k) = Rank(events, k)
      BY <1>5, <1>6
    <3>5. Count(events', sid[b]) = Count(events, sid[b])
      BY <1>7, <3>2
    <3> QED
      BY <1>1, <3>1, <3>3, <3>4, <3>5 DEF EventWaits
  <2> QED
    BY <2>1, <2>2
<1>12. ASSUME NEW u \in Users PROVE Balanced(u)'
  <2>1. CASE u = User[c]
    <3>1. Waits(c, session[u])'
      BY <1>1, <1>3, <2>1 DEF Waits, TypeOK
    <3> QED
      BY <3>1 DEF Balanced
  <2>2. CASE u # User[c]
    <3>1. session'[u] = session[u] /\ session[u] # s
      BY <1>1, <1>2, <1>3, <2>2 DEF TypeOK
    <3>2. ASSUME NEW b \in Calls, Waits(b, session[u]) PROVE Waits(b, session[u])'
      BY <1>1, <3>1, <3>2 DEF Waits, TypeOK
    <3>3. Count(events', session[u]) = Count(events, session[u])
      BY <1>7, <3>1
    <3>4. Balanced(u)
      BY DEF Pairing
    <3> QED
      BY <1>1, <3>1, <3>2, <3>3, <3>4 DEF Balanced
  <2> QED
    BY <2>1, <2>2
<1> QED
  BY <1>9, <1>10, <1>11, <1>12 DEF Pairing

\* The second insert: the row takes the place in its session that the event has.
LEMMA PairingAfterRow ==
    ASSUME TypeOK, SessionsApart, InTurn, OneCallEach, Pairing,
           NEW c \in Calls, CreateEdit(c)
    PROVE  Pairing'
<1> DEFINE s == sid[c]
           row == [by |-> c, session |-> s, before |-> before[c]]
<1>l. PICK l : l = Len(edits) + 1
  OBVIOUS
<1>1. /\ edits' = Append(edits, row)
      /\ pc[c] = "row" /\ pc' = [pc EXCEPT ![c] = "done"]
      /\ reply' = [reply EXCEPT ![c] = "ok"]
      /\ events' = events /\ session' = session /\ sid' = sid
  BY DEF CreateEdit, Answer, rows, task
<1>2. row \in EditRows /\ edits \in Seq(EditRows)
  BY <1>1 DEF EditRows, TypeOK
<1>3. /\ l \in Nat /\ l \in 1..l /\ DOMAIN edits = 1..(l - 1) /\ DOMAIN edits' = 1..l
      /\ \A j \in DOMAIN edits : edits'[j] = edits[j]
      /\ edits'[l] = row /\ row.by = c /\ row.session = s
  BY <1>l, <1>1, <1>2
<1>4. /\ \A j \in DOMAIN edits : Rank(edits', j) = Rank(edits, j)
      /\ Rank(edits', l) = Count(edits, s) + 1
  BY <1>l, <1>1, <1>2, <1>3, RankAppend
<1>5. \A t : Count(edits', t) = IF s = t THEN Count(edits, t) + 1 ELSE Count(edits, t)
  BY <1>1, <1>2, <1>3, CountAppend
<1>6. \A b \in Calls : pc[b] = "row" /\ sid[b] = s => b = c
  BY <1>1, OneWaiter
<1>7. PICK k0 \in DOMAIN events :
        /\ events[k0].by = c /\ events[k0].session = s
        /\ Rank(events, k0) = Count(events, s)
        /\ Count(events, s) = Count(edits, s) + 1
  BY <1>1 DEF Pairing, EventWaits
<1>8. \A k \in DOMAIN events : events[k].by \in Calls
  BY RowTypes
<1> HIDE DEF row, s
<1>9. EventsOnce'
  <2>1. \A b \in Calls : reply'[b] = "ok" => pc'[b] = "done"
    BY <1>1 DEF Pairing, EventsOnce, TypeOK
  <2>2. \A k \in DOMAIN events' : pc'[events'[k].by] \in {"row", "done"}
    BY <1>1, <1>8 DEF Pairing, EventsOnce, TypeOK
  <2> QED
    BY <1>1, <2>1, <2>2 DEF Pairing, EventsOnce
<1>10. RowsMatch'
  <2>1. \A j \in DOMAIN edits : \A k \in DOMAIN events : Aligned(j, k) => Aligned(j, k)'
    BY <1>1, <1>3, <1>4 DEF Aligned
  <2>2. Aligned(l, k0)' /\ edits'[l].by = events'[k0].by
    BY <1>1, <1>3, <1>4, <1>7 DEF Aligned
  <2>3. ASSUME NEW j \in DOMAIN edits'
        PROVE  \E k \in DOMAIN events' : edits'[j].by = events'[k].by /\ Aligned(j, k)'
    <3>1. CASE j = l
      BY <1>1, <2>2, <3>1
    <3>2. CASE j \in DOMAIN edits
      BY <1>1, <1>3, <2>1, <3>2 DEF Pairing, RowsMatch
    <3> QED
      BY <1>3, <3>1, <3>2
  <2>4. ASSUME NEW k \in DOMAIN events', reply'[events'[k].by] = "ok"
        PROVE  \E j \in DOMAIN edits' : Aligned(j, k)'
    <3>1. CASE events[k].by = c
      <4>1. k = k0
        BY <1>1, <1>7, <3>1 DEF Pairing, EventsOnce
      <4> QED
        BY <1>3, <2>2, <4>1
    <3>2. CASE events[k].by # c
      <4>1. reply[events[k].by] = "ok"
        BY <1>1, <1>8, <2>4, <3>2 DEF TypeOK
      <4> QED
        BY <1>1, <1>3, <2>1, <4>1 DEF Pairing, RowsMatch
    <3> QED
      BY <3>1, <3>2
  <2> QED
    BY <2>3, <2>4 DEF RowsMatch
<1>11. ASSUME NEW b \in Calls, pc'[b] = "row" PROVE EventWaits(b)'
  <2>1. pc[b] = "row" /\ b # c
    BY <1>1, <1>11 DEF TypeOK
  <2>2. sid[b] # s
    BY <1>6, <2>1
  <2>3. Count(edits', sid[b]) = Count(edits, sid[b])
    BY <1>5, <2>2
  <2>4. EventWaits(b)
    BY <2>1 DEF Pairing
  <2> QED
    BY <1>1, <2>3, <2>4 DEF EventWaits
<1>12. ASSUME NEW u \in Users PROVE Balanced(u)'
  <2>1. CASE session[u] = s
    <3>1. Count(events, s) = Count(edits', s)
      BY <1>5, <1>7
    <3> QED
      BY <1>1, <2>1, <3>1 DEF Balanced
  <2>2. CASE session[u] # s
    <3>1. ASSUME NEW b \in Calls, Waits(b, session[u]) PROVE Waits(b, session[u])'
      BY <1>1, <2>2, <3>1 DEF Waits, TypeOK, s
    <3>2. Count(edits', session[u]) = Count(edits, session[u])
      BY <1>5, <2>2
    <3>3. Balanced(u)
      BY DEF Pairing
    <3> QED
      BY <1>1, <3>1, <3>2, <3>3 DEF Balanced
  <2> QED
    BY <2>1, <2>2
<1> QED
  BY <1>9, <1>10, <1>11, <1>12 DEF Pairing

\* A step that inserts nothing keeps the tables aligned, unless it takes a call away
\* from between its two inserts and leaves its session open.
LEMMA PairingKept ==
    ASSUME TypeOK, Pairing, UNCHANGED <<events, edits, sid>>,
           \A b \in Calls : pc[b] \in {"row", "done"} => pc'[b] \in {"row", "done"},
           \A b \in Calls : pc'[b] = "row" => pc[b] = "row",
           \A b \in Calls : reply'[b] = "ok" =>
                pc'[b] = "done" /\ (reply[b] = "ok" \/ pc[b] \notin {"row", "done"}),
           \A u \in Users : session'[u] \in {session[u], 0},
           \/ \A b \in Calls : pc[b] = "row" => pc'[b] = "row"
           \/ \A u \in Users : session'[u] = 0
    PROVE  Pairing'
<1>1. \A k \in DOMAIN events : events[k].by \in Calls
  BY RowTypes
<1>2. EventsOnce'
  BY <1>1 DEF Pairing, EventsOnce
<1>3. RowsMatch'
  BY <1>1 DEF Pairing, EventsOnce, RowsMatch, Aligned
<1>4. ASSUME NEW b \in Calls, pc'[b] = "row" PROVE EventWaits(b)'
  BY <1>4 DEF Pairing, EventWaits
<1>5. ASSUME NEW u \in Users PROVE Balanced(u)'
  <2>1. CASE session'[u] = 0
    BY <2>1 DEF Balanced
  <2>2. CASE session'[u] # 0
    <3>1. session'[u] = session[u] /\ \A b \in Calls : pc[b] = "row" => pc'[b] = "row"
      BY <2>2
    <3>2. \A b \in Calls : Waits(b, session[u]) => Waits(b, session[u])'
      BY <3>1 DEF Waits
    <3> QED
      BY <3>1, <3>2 DEF Pairing, Balanced
  <2> QED
    BY <2>1, <2>2
<1> QED
  BY <1>2, <1>3, <1>4, <1>5 DEF Pairing

LEMMA PairingStep ==
    TypeOK /\ SessionsApart /\ InTurn /\ PairingInv /\ [Next]_vars => PairingInv'
<1> SUFFICES ASSUME TypeOK, SessionsApart, InTurn, PairingInv, [Next]_vars,
                    OneCallEach', InsertsSucceed'
             PROVE  Pairing'
  BY DEF PairingInv
<1>z. OneCallEach /\ InsertsSucceed /\ Pairing
  BY RegimeStays DEF OneCallEach, InsertsSucceed, PairingInv
<1> USE DEF rows, task, GoTo, Answer
<1>1. ASSUME NEW c \in Calls, CreateEvent(c) PROVE Pairing'
  BY <1>1, <1>z, PairingAfterEvent
<1>2. ASSUME NEW c \in Calls, CreateEdit(c) PROVE Pairing'
  BY <1>2, <1>z, PairingAfterRow
<1>3. ASSUME NEW c \in Calls, DbFails(c) PROVE FALSE
  BY <1>3, <1>z DEF DbFails, InsertsSucceed
<1>4. ASSUME NEW c \in Calls,
             \/ StartEdit(c) \/ Reject(c) \/ Apply(c) \/ UndoEdit(c)
             \/ StartOutcome(c) \/ AppendOutcome(c) \/ MlFails(c)
      PROVE Pairing'
  <2>1. /\ UNCHANGED <<events, edits, sid, session>>
        /\ pc[c] \in {"idle", "gate", "undo", "append"}
        /\ \/ /\ \E p \in {"gate", "event", "append"} : pc' = [pc EXCEPT ![c] = p]
              /\ reply' = reply
           \/ /\ pc' = [pc EXCEPT ![c] = "done"]
              /\ \E r \in Replies : reply' = [reply EXCEPT ![c] = r]
    BY <1>4 DEF StartEdit, Reject, Apply, UndoEdit, StartOutcome, AppendOutcome, MlFails,
                Replies
  <2>2. \A b \in Calls : reply[b] = "ok" => pc[b] = "done"
    BY <1>z DEF Pairing, EventsOnce
  <2>3. /\ \A b \in Calls : pc[b] \in {"row", "done"} => pc'[b] \in {"row", "done"}
        /\ \A b \in Calls : pc'[b] = "row" <=> pc[b] = "row"
        /\ \A b \in Calls : reply'[b] = "ok" =>
                pc'[b] = "done" /\ (reply[b] = "ok" \/ pc[b] \notin {"row", "done"})
    BY <2>1, <2>2 DEF TypeOK
  <2> QED
    BY <1>z, <2>1, <2>3, PairingKept
<1>5. ASSUME UNCHANGED <<events, edits, sid, pc, reply>>,
             \A u \in Users : session'[u] \in {session[u], 0}
      PROVE  Pairing'
  <2>1. \A b \in Calls : reply[b] = "ok" => pc[b] = "done"
    BY <1>z DEF Pairing, EventsOnce
  <2> QED
    BY <1>5, <1>z, <2>1, PairingKept
<1>6. ASSUME Crash PROVE Pairing'
  <2>1. \A b \in Calls : reply[b] = "ok" => pc[b] = "done"
    BY <1>z DEF Pairing, EventsOnce
  <2>2. /\ UNCHANGED <<events, edits, sid>>
        /\ \A u \in Users : session'[u] = 0
        /\ \A b \in Calls : pc'[b] = IF pc[b] \in InFlight THEN "done" ELSE pc[b]
        /\ \A b \in Calls : reply'[b] = IF pc[b] \in InFlight THEN "lost" ELSE reply[b]
    BY <1>6 DEF Crash
  <2> QED
    BY <1>z, <2>1, <2>2, PairingKept DEF InFlight
<1>7. ASSUME NEW u \in Users, Expire(u) PROVE Pairing'
  BY <1>5, <1>7 DEF Expire, TypeOK
<1>8. ASSUME NEW f \in Fields, AdminEdit(f) PROVE Pairing'
  BY <1>5, <1>8 DEF AdminEdit
<1>9. ASSUME UNCHANGED vars PROVE Pairing'
  BY <1>5, <1>9 DEF vars
<1> QED
  BY <1>1, <1>2, <1>3, <1>4, <1>6, <1>7, <1>8, <1>9 DEF Next, Step, Rest

\* On the page, an event whose session fits it has the place it has in the history.
LEMMA PagePlace ==
    ASSUME TypeOK, NEW k \in Shown, FitsPage(k)
    PROVE  ShownRank(k) = Rank(events, k)
<1>1. DOMAIN events = 1..Len(events) /\ Len(events) \in Nat /\ k \in DOMAIN events
  BY DEF TypeOK, Shown
<1>2. {m \in Shown : m <= k /\ events[m].session = events[k].session}
        = {m \in 1..k : events[m].session = events[k].session}
  BY <1>1 DEF FitsPage, Shown
<1> QED
  BY <1>2 DEF ShownRank, Rank

\* While a user makes one call at a time and the inserts succeed, the history and
\* the activity page show each edit with the row it inserted itself, for any
\* number of users, calls and sessions, across crashes and expiring sessions: the
\* k-th row of a session is that of its k-th event, since a call that dies between
\* its two inserts takes its session with it.
THEOREM EachEditWithItsRow == Spec => []PairsOwnSnapshot
<1>1. Init => InTurn /\ PairingInv /\ SessionsApart
  BY DEF Init, InTurn, InFlight, PairingInv, Pairing, EventsOnce, RowsMatch, Balanced,
         SessionsApart, Holders
<1>2. TypeOK /\ PairingInv => PairsOwnSnapshot
  <2> SUFFICES ASSUME TypeOK, Pairing
               PROVE  /\ \A k \in DOMAIN events :
                          /\ \A j \in PairedRows(k) : edits[j].by = events[k].by
                          /\ reply[events[k].by] = "ok" => PairedRows(k) # {}
                      /\ \A k \in {m \in Shown : FitsPage(m)} : \A j \in PageRows(k) :
                          edits[j].by = events[k].by
    BY DEF PairingInv, PairsOwnSnapshot
  <2>1. ASSUME NEW k \in DOMAIN events, NEW j \in DOMAIN edits,
               edits[j].session = events[k].session, Rank(edits, j) = Rank(events, k)
        PROVE  edits[j].by = events[k].by
    <3>1. PICK i \in DOMAIN events : edits[j].by = events[i].by /\ Aligned(j, i)
      BY DEF Pairing, RowsMatch
    <3>2. events[i].session = events[k].session /\ Rank(events, i) = Rank(events, k)
      BY <2>1, <3>1 DEF Aligned
    <3>3. i = k
      BY <3>2, RankDistinct DEF TypeOK
    <3> QED
      BY <3>1, <3>3
  <2>2. ASSUME NEW k \in DOMAIN events, reply[events[k].by] = "ok"
        PROVE  PairedRows(k) # {}
    BY <2>2 DEF Pairing, RowsMatch, Aligned, PairedRows
  <2>3. ASSUME NEW k \in Shown, FitsPage(k), NEW j \in PageRows(k)
        PROVE  edits[j].by = events[k].by
    <3>1. k \in DOMAIN events
      BY DEF Shown
    <3> QED
      BY <2>1, <2>3, <3>1, PagePlace DEF PageRows
  <2> QED
    BY <2>1, <2>2, <2>3 DEF PairedRows
<1> QED
  BY <1>1, <1>2, TypeCorrect, InTurnStep, SessionStep, PairingStep, PTL DEF Spec

-----------------------------------------------------------------------------
(* The snapshots replay to the record *)

LEMMA Newest ==
    ASSUME NEW n \in Nat, NEW S \in SUBSET (1..n), S # {}
    PROVE  \E m \in S : \A i \in S : i <= m
<1> DEFINE T == {x \in Nat : n - x \in S}
<1>1. T \subseteq Nat
  OBVIOUS
<1>2. T # {}
  <2>1. PICK i \in S : TRUE
    OBVIOUS
  <2>2. n - i \in Nat /\ n - (n - i) = i
    BY <2>1
  <2> QED
    BY <2>1, <2>2
<1> HIDE DEF T
<1>3. PICK x \in T : \A y \in T : ~(<<y, x>> \in OpToRel(<, Nat))
  BY <1>1, <1>2, NatLessThanWellFounded, WFMin
<1>4. \A y \in T : ~(y < x)
  BY <1>1, <1>3 DEF OpToRel
<1>5. n - x \in S /\ x \in Nat
  BY <1>3 DEF T
<1>6. ASSUME NEW i \in S PROVE i <= n - x
  <2>1. n - i \in T /\ n - i \in Nat /\ i \in Nat
    BY DEF T
  <2> QED
    BY <1>4, <1>5, <2>1
<1> QED
  BY <1>5, <1>6

\* Who LastEditor names: the call of the newest row about the field.
LEMMA LastEditorIs ==
    ASSUME NEW f, NEW n \in Nat, NEW k \in 1..n, f \in DOMAIN edits[k].before,
           \A i \in 1..n : f \in DOMAIN edits[i].before => i <= k
    PROVE  LastEditor(f, n) = edits[k].by
<1> DEFINE touching == {j \in 1..n : f \in DOMAIN edits[j].before}
           newest == CHOOSE j \in touching : \A i \in touching : i <= j
<1>1. k \in touching /\ \A i \in touching : i <= k
  OBVIOUS
<1>2. newest \in touching /\ \A i \in touching : i <= newest
  BY <1>1
<1>3. newest = k
  BY <1>1, <1>2
<1> QED
  BY <1>1, <1>3 DEF LastEditor

LEMMA LastEditorNone ==
    ASSUME NEW f, NEW n \in Nat, \A i \in 1..n : f \notin DOMAIN edits[i].before
    PROVE  LastEditor(f, n) = Original
BY DEF LastEditor

\* A new row leaves what the older ones say, and speaks for its fields.
LEMMA LastEditorAppend ==
    ASSUME NEW r \in EditRows, edits \in Seq(EditRows), edits' = Append(edits, r),
           NEW f, NEW n \in Nat, n <= Len(edits)
    PROVE  /\ LastEditor(f, n)' = LastEditor(f, n)
           /\ n = Len(edits) =>
                LastEditor(f, n + 1)' = IF f \in DOMAIN r.before THEN r.by ELSE LastEditor(f, n)
<1>1. /\ DOMAIN edits = 1..Len(edits) /\ Len(edits) \in Nat
      /\ \A i \in 1..n : edits'[i] = edits[i]
      /\ n = Len(edits) => edits'[n + 1] = r
  OBVIOUS
<1> DEFINE touching == {i \in 1..n : f \in DOMAIN edits[i].before}
<1>2. CASE touching = {}
  <2>1. LastEditor(f, n) = Original
    BY <1>2, LastEditorNone
  <2>2. LastEditor(f, n)' = Original
    BY <1>1, <1>2 DEF LastEditor
  <2>3. ASSUME n = Len(edits), f \in DOMAIN r.before
        PROVE  LastEditor(f, n + 1)' = r.by
    <3>1. {i \in 1..(n + 1) : f \in DOMAIN edits'[i].before} = {n + 1}
      BY <1>1, <1>2, <2>3
    <3> QED
      BY <1>1, <2>3, <3>1 DEF LastEditor
  <2>4. ASSUME n = Len(edits), f \notin DOMAIN r.before
        PROVE  LastEditor(f, n + 1)' = Original
    <3>1. {i \in 1..(n + 1) : f \in DOMAIN edits'[i].before} = {}
      BY <1>1, <1>2, <2>4
    <3> QED
      BY <3>1 DEF LastEditor
  <2> QED
    BY <2>1, <2>2, <2>3, <2>4
<1>3. CASE touching # {}
  <2>1. PICK k \in touching : \A i \in touching : i <= k
    BY <1>3, Newest
  <2>2. LastEditor(f, n) = edits[k].by
    BY <2>1, LastEditorIs
  <2>3. LastEditor(f, n)' = edits[k].by
    <3>1. {i \in 1..n : f \in DOMAIN edits'[i].before} = touching
      BY <1>1
    <3>2. (CHOOSE j \in touching : \A i \in touching : i <= j) = k
      BY <2>1
    <3> HIDE DEF touching
    <3>3. LastEditor(f, n)' = edits'[k].by
      BY <1>3, <3>1, <3>2 DEF LastEditor
    <3> QED
      BY <1>1, <2>1, <3>3 DEF touching
  <2>4. ASSUME n = Len(edits), f \in DOMAIN r.before
        PROVE  LastEditor(f, n + 1)' = r.by
    <3> DEFINE now == {i \in 1..(n + 1) : f \in DOMAIN edits'[i].before}
    <3>1. n + 1 \in now /\ \A i \in now : i <= n + 1
      BY <1>1, <2>4
    <3>2. (CHOOSE j \in now : \A i \in now : i <= j) = n + 1
      BY <3>1
    <3> HIDE DEF now
    <3>3. LastEditor(f, n + 1)' = edits'[n + 1].by
      BY <3>1, <3>2 DEF LastEditor, now
    <3> QED
      BY <1>1, <2>4, <3>3
  <2>5. ASSUME n = Len(edits), f \notin DOMAIN r.before
        PROVE  LastEditor(f, n + 1)' = edits[k].by
    <3>1. {i \in 1..(n + 1) : f \in DOMAIN edits'[i].before} = touching
      BY <1>1, <2>5
    <3>2. (CHOOSE j \in touching : \A i \in touching : i <= j) = k
      BY <2>1
    <3> HIDE DEF touching
    <3>3. LastEditor(f, n + 1)' = edits'[k].by
      BY <1>3, <3>1, <3>2 DEF LastEditor
    <3> QED
      BY <1>1, <2>1, <3>3 DEF touching
  <2> QED
    BY <2>2, <2>3, <2>4, <2>5
<1> QED
  BY <1>2, <1>3

\* An edit that was applied and is neither recorded nor undone yet.
Applied(c) == pc[c] \in {"event", "row", "undo"}
Last(f) == LastEditor(f, Len(edits))
ReplaysTo(f) ==
    /\ \A k \in DOMAIN edits : f \in DOMAIN edits[k].before =>
            edits[k].before[f] = LastEditor(f, k - 1)
    /\ \A c \in Calls : Editing(c) /\ f \in fields[c] =>
            f \in DOMAIN before[c] /\ before[c][f] = Last(f)
    /\ \A c \in Calls : Applied(c) /\ f \in fields[c] => value[f] = c
    /\ (\A c \in Calls : Applied(c) => f \notin fields[c]) => value[f] = Last(f)
ReplayInv == OneEditAtATime =>
    /\ \A b, c \in Calls : Editing(b) /\ Editing(c) => b = c
    /\ \A c \in Calls : Editing(c) => fields[c] # {} /\ DOMAIN before[c] \subseteq fields[c]
    /\ \A f \in Required : ReplaysTo(f)

\* The regime of OneEditAtATime: no overlap, no `ml` fault, no crash, no admin edit.
LEMMA CalmRegime ==
    ASSUME [Next]_vars, OneEditAtATime'
    PROVE  /\ OneEditAtATime
           /\ \A c \in Calls : ~MlFails(c)
           /\ ~Crash
           /\ \A f \in Fields : ~AdminEdit(f)
           /\ \A c \in Calls : MayStart(c, "edit") =>
                \A b \in Calls \ {c} : ~Editing(b)
<1>1. OneEditAtATime
  BY RegimeStays DEF OneEditAtATime
<1>2. \A c \in Calls : MayStart(c, "edit") => \A b \in Calls \ {c} : ~Editing(b)
  BY <1>1 DEF OneEditAtATime, MayStart, Editing, InFlight
<1> QED
  BY <1>1, <1>2 DEF OneEditAtATime, MlFails, Crash, AdminEdit

\* What a call that starts notes of a required field is what the last edit left.
LEMMA ReplayAfterStart ==
    ASSUME TypeOK, OneEditAtATime, ReplayInv, NEW c \in Calls, StartEdit(c),
           \A b \in Calls \ {c} : ~Editing(b)
    PROVE  ReplayInv'
<1>1. PICK S \in (SUBSET regime.fields) \ {{}} :
        /\ fields' = [fields EXCEPT ![c] = S]
        /\ before' = [before EXCEPT ![c] =
                        [f \in {g \in S : value[g] # Absent} |-> value[f]]]
  BY DEF StartEdit
<1>2. /\ pc[c] = "idle" /\ \E p \in {"gate", "done"} : pc' = [pc EXCEPT ![c] = p]
      /\ value' = value /\ edits' = edits
  BY DEF StartEdit, GoTo, Answer, rows
<1>3. \A b \in Calls : ~Applied(b) /\ ~Applied(b)' /\ (Editing(b)' => b = c)
  BY <1>2 DEF Applied, Editing, TypeOK
<1>4. ASSUME NEW f \in Required PROVE ReplaysTo(f)'
  <2>1. value[f] = Last(f) /\ value[f] # Absent
    BY <1>3 DEF ReplayInv, ReplaysTo, TypeOK
  <2>2. Last(f)' = Last(f)
    BY <1>2 DEF Last, LastEditor
  <2>3. \A k \in DOMAIN edits : LastEditor(f, k - 1)' = LastEditor(f, k - 1)
    BY <1>2 DEF LastEditor
  <2>4. f \in fields'[c] => f \in DOMAIN before'[c] /\ before'[c][f] = value[f]
    BY <1>1, <2>1 DEF TypeOK
  <2>5. \A k \in DOMAIN edits' : f \in DOMAIN edits'[k].before =>
            edits'[k].before[f] = LastEditor(f, k - 1)'
    BY <1>2, <2>3 DEF ReplayInv, ReplaysTo
  <2> QED
    BY <1>2, <1>3, <2>1, <2>2, <2>4, <2>5 DEF ReplaysTo
<1>5. fields'[c] # {} /\ DOMAIN before'[c] \subseteq fields'[c]
  <2>1. fields'[c] = S /\ before'[c] = [f \in {g \in S : value[g] # Absent} |-> value[f]]
    BY <1>1 DEF TypeOK
  <2>2. DOMAIN before'[c] = {g \in S : value[g] # Absent}
    BY <2>1, Zenon
  <2> QED
    BY <1>1, <2>1, <2>2
<1> QED
  BY <1>3, <1>4, <1>5 DEF ReplayInv

\* The row of an edit holds what the row before it put into the field.
LEMMA ReplayAfterRow ==
    ASSUME TypeOK, OneEditAtATime, ReplayInv, NEW c \in Calls, CreateEdit(c)
    PROVE  ReplayInv'
<1>1. /\ pc[c] = "row" /\ pc' = [pc EXCEPT ![c] = "done"]
      /\ UNCHANGED <<value, fields, before>>
      /\ edits' = Append(edits, [by |-> c, session |-> sid[c], before |-> before[c]])
  BY DEF CreateEdit, Answer, task
<1>2. PICK r \in EditRows : r = [by |-> c, session |-> sid[c], before |-> before[c]]
  BY <1>1 DEF TypeOK, EditRows
<1>3. r.by = c /\ r.before = before[c] /\ edits' = Append(edits, r) /\ edits \in Seq(EditRows)
  BY <1>1, <1>2 DEF TypeOK, EditRows
<1>4. PICK n \in Nat : n = Len(edits)
  BY <1>3
<1>5. /\ DOMAIN edits = 1..n /\ DOMAIN edits' = 1..(n + 1) /\ Len(edits') = n + 1
      /\ edits'[n + 1] = r /\ \A k \in 1..n : edits'[k] = edits[k]
  BY <1>3, <1>4
<1>6. \A b \in Calls : /\ Editing(b) => b = c
                       /\ ~Editing(b)' /\ ~Applied(b)'
  <2>1. Editing(c)
    BY <1>1 DEF Editing
  <2>2. \A b \in Calls : Editing(b) => b = c
    BY <2>1 DEF ReplayInv
  <2> QED
    BY <1>1, <2>2 DEF Editing, Applied, TypeOK
<1>7. ASSUME NEW f \in Required PROVE ReplaysTo(f)'
  <2>1. ReplaysTo(f)
    BY DEF ReplayInv
  <2>2. /\ Last(f) = LastEditor(f, n)
        /\ Last(f)' = IF f \in DOMAIN before[c] THEN c ELSE Last(f)
    <3>1. Last(f) = LastEditor(f, n) /\ Last(f)' = LastEditor(f, n + 1)'
      BY <1>4, <1>5 DEF Last, LastEditor
    <3>2. LastEditor(f, n + 1)' = IF f \in DOMAIN r.before THEN r.by ELSE LastEditor(f, n)
      <4>1. n <= Len(edits) /\ n = Len(edits)
        BY <1>4
      <4>2. n = Len(edits) =>
              LastEditor(f, n + 1)' = IF f \in DOMAIN r.before THEN r.by ELSE LastEditor(f, n)
        BY <1>3, <4>1, LastEditorAppend
      <4> QED
        BY <4>1, <4>2
    <3> QED
      BY <1>3, <3>1, <3>2
  <2>3. ASSUME NEW k \in DOMAIN edits', f \in DOMAIN edits'[k].before
        PROVE  edits'[k].before[f] = LastEditor(f, k - 1)'
    <3>1. k - 1 \in Nat /\ k - 1 <= n
      BY <1>5
    <3>2. LastEditor(f, k - 1)' = LastEditor(f, k - 1)
      BY <1>3, <1>4, <3>1, LastEditorAppend
    <3>3. CASE k \in DOMAIN edits
      BY <1>5, <2>1, <2>3, <3>2, <3>3 DEF ReplaysTo
    <3>4. CASE k = n + 1
      <4>1. f \in DOMAIN before[c] /\ f \in fields[c]
        BY <1>1, <1>3, <1>5, <2>3, <3>4 DEF ReplayInv, Editing
      <4>2. before[c][f] = Last(f)
        BY <1>1, <2>1, <4>1 DEF ReplaysTo, Editing
      <4>3. k - 1 = n
        BY <3>4
      <4> QED
        BY <1>3, <1>5, <2>2, <3>2, <3>4, <4>2, <4>3
    <3> QED
      BY <1>5, <3>3, <3>4
  <2>4. value[f] = Last(f)'
    <3>1. CASE f \in fields[c]
      BY <1>1, <2>1, <2>2, <3>1 DEF ReplaysTo, Applied, Editing
    <3>2. CASE f \notin fields[c]
      <4>1. f \notin DOMAIN before[c]
        BY <1>1, <3>2 DEF ReplayInv, Editing
      <4>2. \A b \in Calls : Applied(b) => f \notin fields[b]
        BY <1>6, <3>2 DEF Applied, Editing
      <4> QED
        BY <2>1, <2>2, <4>1, <4>2 DEF ReplaysTo
    <3> QED
      BY <3>1, <3>2
  <2> QED
    BY <1>1, <1>6, <2>3, <2>4 DEF ReplaysTo
<1> QED
  BY <1>6, <1>7 DEF ReplayInv

\* A step that changes no row, no record and nobody's edit.
LEMMA ReplayKept ==
    ASSUME ReplayInv, OneEditAtATime, UNCHANGED <<value, edits, fields, before>>,
           \A b \in Calls : (Editing(b)' => Editing(b)) /\ (Applied(b)' <=> Applied(b))
    PROVE  ReplayInv'
<1>1. ASSUME NEW f \in Required PROVE ReplaysTo(f)'
  <2>1. /\ Last(f)' = Last(f)
        /\ \A k \in DOMAIN edits : LastEditor(f, k - 1)' = LastEditor(f, k - 1)
    BY DEF Last, LastEditor
  <2>2. ReplaysTo(f)
    BY DEF ReplayInv
  <2> QED
    BY <2>1, <2>2 DEF ReplaysTo
<1> QED
  BY <1>1 DEF ReplayInv

\* The `ml edit` of the one call that edits, forth or back.
LEMMA ReplayAfterMl ==
    ASSUME TypeOK, OneEditAtATime, ReplayInv, NEW c \in Calls, Apply(c) \/ UndoEdit(c)
    PROVE  ReplayInv'
<1>1. Editing(c) /\ UNCHANGED <<edits, fields, before>>
  BY DEF Apply, UndoEdit, Editing, rows, task
<1>2. \A b \in Calls : (Editing(b) => b = c) /\ (Applied(b) => b = c)
  BY <1>1 DEF ReplayInv, Editing, Applied
<1>3. \/ pc' = [pc EXCEPT ![c] = "event"] /\ ~Applied(c) /\ Apply(c)
      \/ pc' = [pc EXCEPT ![c] = "done"] /\ Applied(c) /\ UndoEdit(c) /\ ~Apply(c)
  BY DEF Apply, UndoEdit, GoTo, Answer, Applied
<1>4. \A b \in Calls : /\ (Editing(b)' => b = c) /\ (Applied(b)' => b = c)
                       /\ (Editing(c)' <=> Apply(c)) /\ (Applied(c)' <=> Apply(c))
  BY <1>2, <1>3 DEF Editing, Applied, TypeOK
<1>5. ASSUME NEW f \in Required PROVE ReplaysTo(f)'
  <2>1. /\ Last(f)' = Last(f)
        /\ \A k \in DOMAIN edits : LastEditor(f, k - 1)' = LastEditor(f, k - 1)
    BY <1>1 DEF Last, LastEditor
  <2>2. ReplaysTo(f) /\ DOMAIN before[c] \subseteq fields[c] /\ f \in Fields
    BY <1>1 DEF ReplayInv, Fields
  <2>3. CASE Apply(c)
    <3>1. value'[f] = IF f \in fields[c] THEN c ELSE value[f]
      BY <2>2, <2>3 DEF Apply, MlEdit, Fields
    <3>2. f \notin fields[c] => value[f] = Last(f)
      BY <1>2, <2>2 DEF ReplaysTo
    <3>3. Applied(c)'
      BY <1>4, <2>3
    <3> QED
      BY <1>1, <1>2, <1>4, <2>1, <2>2, <3>1, <3>2, <3>3 DEF ReplaysTo
  <2>4. CASE UndoEdit(c) /\ ~Apply(c)
    <3>1. value'[f] = IF f \in DOMAIN before[c] THEN before[c][f] ELSE value[f]
      BY <2>2, <2>4 DEF UndoEdit, MlEdit, Fields
    <3>2. value'[f] = Last(f)
      <4>1. CASE f \in fields[c]
        BY <1>1, <2>2, <3>1, <4>1 DEF ReplaysTo
      <4>2. CASE f \notin fields[c]
        BY <1>2, <2>2, <3>1, <4>2 DEF ReplaysTo
      <4> QED
        BY <4>1, <4>2
    <3>3. \A b \in Calls : ~Editing(b)' /\ ~Applied(b)'
      BY <1>4, <2>4
    <3> QED
      BY <1>1, <2>1, <2>2, <3>2, <3>3 DEF ReplaysTo
  <2> QED
    BY <2>3, <2>4
<1>6. \A b \in Calls : Editing(b)' => fields'[b] # {} /\ DOMAIN before'[b] \subseteq fields'[b]
  BY <1>1, <1>4 DEF ReplayInv
<1> QED
  BY <1>4, <1>5, <1>6 DEF ReplayInv

LEMMA ReplayStep == TypeOK /\ ReplayInv /\ [Next]_vars => ReplayInv'
<1> SUFFICES ASSUME TypeOK, ReplayInv, [Next]_vars, OneEditAtATime' PROVE ReplayInv'
  BY DEF ReplayInv
<1>z. /\ OneEditAtATime
      /\ \A c \in Calls : ~MlFails(c)
      /\ ~Crash
      /\ \A f \in Fields : ~AdminEdit(f)
      /\ \A c \in Calls : MayStart(c, "edit") => \A b \in Calls \ {c} : ~Editing(b)
  BY CalmRegime
<1> USE DEF rows, task, GoTo, Answer
<1>1. ASSUME NEW c \in Calls, StartEdit(c) PROVE ReplayInv'
  BY <1>1, <1>z, ReplayAfterStart DEF StartEdit
<1>2. ASSUME NEW c \in Calls, CreateEdit(c) PROVE ReplayInv'
  BY <1>2, <1>z, ReplayAfterRow
<1>3. ASSUME NEW c \in Calls, Apply(c) \/ UndoEdit(c) PROVE ReplayInv'
  BY <1>3, <1>z, ReplayAfterMl
<1>4. ASSUME NEW c \in Calls,
             \/ Reject(c) \/ CreateEvent(c) \/ DbFails(c) \/ StartOutcome(c) \/ AppendOutcome(c)
      PROVE ReplayInv'
  <2>1. /\ UNCHANGED <<value, edits, fields, before>>
        /\ \/ pc[c] \in {"gate", "idle", "append"}
                /\ \E p \in {"append", "done"} : pc' = [pc EXCEPT ![c] = p]
           \/ pc[c] \in {"event", "row"}
                /\ \E p \in {"row", "undo"} : pc' = [pc EXCEPT ![c] = p]
    BY <1>4 DEF Reject, CreateEvent, DbFails, StartOutcome, AppendOutcome
  <2>2. \A b \in Calls : (Editing(b)' => Editing(b)) /\ (Applied(b)' <=> Applied(b))
    BY <2>1 DEF Editing, Applied, TypeOK
  <2> QED
    BY <1>z, <2>1, <2>2, ReplayKept
<1>5. ASSUME (\E u \in Users : Expire(u)) \/ UNCHANGED vars PROVE ReplayInv'
  <2>1. UNCHANGED <<value, edits, fields, before, pc>>
    BY <1>5 DEF Expire, vars
  <2> QED
    BY <1>z, <2>1, ReplayKept DEF Editing, Applied
<1> QED
  BY <1>1, <1>2, <1>3, <1>4, <1>5, <1>z DEF Next, Step, Rest

LEMMA ReplayInit == Init => ReplayInv
<1> SUFFICES ASSUME Init PROVE ReplayInv
  OBVIOUS
<1>1. \A c \in Calls : ~Editing(c) /\ ~Applied(c)
  BY DEF Init, Editing, Applied
<1>2. ASSUME NEW f \in Required PROVE value[f] = Last(f)
  <2>1. value[f] = Original
    BY DEF Init, Fields
  <2>2. Last(f) = Original
    BY LastEditorNone DEF Init, Last
  <2> QED
    BY <2>1, <2>2
<1> QED
  BY <1>1, <1>2 DEF ReplayInv, ReplaysTo, Init

\* While edits come one at a time and only inserts fail, the snapshots of the
\* RecordEdit rows replay: each holds what the row before it put into a required
\* field, and the record is as the newest rows left it once no edit is under way,
\* also after failed edits were undone.
THEOREM HistoryReplays == Spec => []SnapshotsReplay
<1>1. ReplayInv => SnapshotsReplay
  BY DEF ReplayInv, SnapshotsReplay, ReplaysTo, Replays, Last, Applied, Editing
<1> QED
  BY <1>1, ReplayInit, TypeCorrect, ReplayStep, PTL DEF Spec

-----------------------------------------------------------------------------
(* What a confirmation that counts was given for *)

\* An outcome describes the content there is now, or a newer row, an edit under
\* way or one that failed accounts for the difference.
Describes(o, f) ==
    \/ o.on[f] = value[f]
    \/ \E k \in DOMAIN edits : k > o.after /\ f \in DOMAIN edits[k].before
    \/ \E c \in Calls : Applied(c) /\ f \in fields[c]
    \/ \E c \in Calls : reply[c] = "error" /\ fields[c] # {}
Answered == \A c \in Calls : reply[c] # "none" => pc[c] = "done"
DescribedInv == OneEditAtATime => \A o \in outcomes, f \in ContentFields : Describes(o, f)

LEMMA AnsweredStep == TypeOK /\ Answered /\ [Next]_vars => Answered'
<1> SUFFICES ASSUME TypeOK, Answered, [Next]_vars PROVE Answered'
  OBVIOUS
<1> USE DEF rows, task, GoTo, Answer, Answered, TypeOK
<1>1. ASSUME NEW c \in Calls, Step(c) PROVE Answered'
  <2>1. \/ /\ \E p \in InFlight : pc' = [pc EXCEPT ![c] = p]
           /\ reply' = reply /\ pc[c] # "done"
        \/ /\ pc' = [pc EXCEPT ![c] = "done"]
           /\ \E r \in Replies : reply' = [reply EXCEPT ![c] = r]
    BY <1>1 DEF Step, StartEdit, Reject, Apply, CreateEvent, CreateEdit, UndoEdit,
                StartOutcome, AppendOutcome, DbFails, MlFails, InFlight, Replies
  <2> QED
    BY <2>1
<1>2. ASSUME Crash PROVE Answered'
  BY <1>2 DEF Crash, InFlight
<1>3. ASSUME \/ \E u \in Users : Expire(u)
             \/ \E f \in Fields : AdminEdit(f)
             \/ UNCHANGED vars
      PROVE Answered'
  <2>1. UNCHANGED <<pc, reply>>
    BY <1>3 DEF Expire, AdminEdit, vars
  <2> QED
    BY <2>1
<1> QED
  BY <1>1, <1>2, <1>3 DEF Next, Rest

LEMMA DescribedStep ==
    /\ TypeOK /\ Answered /\ ReportedOnce /\ ReplayInv /\ DescribedInv /\ [Next]_vars
    => DescribedInv'
<1> SUFFICES ASSUME TypeOK, Answered, ReportedOnce, ReplayInv, DescribedInv, [Next]_vars,
                    OneEditAtATime', NEW o \in outcomes', NEW f \in ContentFields
             PROVE  Describes(o, f)'
  BY DEF DescribedInv
<1>z. /\ OneEditAtATime
      /\ \A c \in Calls : ~MlFails(c)
      /\ ~Crash
      /\ \A g \in Fields : ~AdminEdit(g)
  BY CalmRegime
<1>f. f \in Required /\ f \in Fields
  BY FieldsAssumption DEF Fields
<1> USE DEF rows, task, GoTo, Answer
<1>1. ASSUME NEW c \in Calls, StartEdit(c) PROVE Describes(o, f)'
  <2>1. PICK S \in (SUBSET regime.fields) \ {{}} : fields' = [fields EXCEPT ![c] = S]
    BY <1>1 DEF StartEdit
  <2>2. /\ pc[c] = "idle" /\ \E p \in {"gate", "done"} : pc' = [pc EXCEPT ![c] = p]
        /\ UNCHANGED <<value, edits, outcomes>>
        /\ \A b \in Calls \ {c} : reply'[b] = reply[b]
    BY <1>1 DEF StartEdit, TypeOK
  <2>3. reply[c] = "none"
    BY <2>2 DEF Answered
  <2>4. \A b \in Calls : Applied(b) => Applied(b)' /\ fields'[b] = fields[b]
    BY <2>1, <2>2 DEF Applied, TypeOK
  <2>5. \A b \in Calls : reply[b] = "error" => reply'[b] = "error" /\ fields'[b] = fields[b]
    BY <2>1, <2>2, <2>3 DEF TypeOK
  <2>6. Describes(o, f)
    BY <1>z, <2>2 DEF DescribedInv
  <2> QED
    BY <2>2, <2>4, <2>5, <2>6 DEF Describes
<1>2. ASSUME NEW c \in Calls, Apply(c) PROVE Describes(o, f)'
  <2>1. /\ pc[c] = "gate" /\ pc' = [pc EXCEPT ![c] = "event"]
        /\ UNCHANGED <<edits, outcomes, fields, reply>>
        /\ value'[f] = IF f \in fields[c] THEN c ELSE value[f]
    BY <1>2, <1>f DEF Apply, MlEdit
  <2>2. Describes(o, f)
    BY <1>z, <2>1 DEF DescribedInv
  <2>3. \A b \in Calls : Applied(b) => Applied(b)'
    BY <2>1 DEF Applied, TypeOK
  <2>4. Applied(c)'
    BY <2>1 DEF Applied, TypeOK
  <2> QED
    BY <2>1, <2>2, <2>3, <2>4 DEF Describes
<1>3. ASSUME NEW c \in Calls, CreateEdit(c) PROVE Describes(o, f)'
  <2>1. /\ pc[c] = "row" /\ pc' = [pc EXCEPT ![c] = "done"]
        /\ UNCHANGED <<value, outcomes, fields>>
        /\ \A b \in Calls \ {c} : reply'[b] = reply[b]
        /\ edits' = Append(edits, [by |-> c, session |-> sid[c], before |-> before[c]])
    BY <1>3 DEF CreateEdit, TypeOK
  <2>2. Describes(o, f)
    BY <1>z, <2>1 DEF DescribedInv
  <2>3. /\ DOMAIN edits \subseteq DOMAIN edits' /\ Len(edits) \in Nat
        /\ Len(edits) + 1 \in DOMAIN edits'
        /\ \A k \in DOMAIN edits : edits'[k] = edits[k]
        /\ edits'[Len(edits) + 1].before = before[c]
    BY <2>1 DEF TypeOK
  <2>4. o.after <= Len(edits) /\ o.after \in Nat
    BY <2>1 DEF ReportedOnce, TypeOK
  <2>5. ASSUME Applied(c), f \in fields[c] PROVE Describes(o, f)'
    <3>1. f \in DOMAIN before[c]
      BY <1>f, <1>z, <2>1, <2>5 DEF ReplayInv, ReplaysTo, Editing
    <3>2. Len(edits) + 1 > o.after
      BY <2>3, <2>4
    <3> QED
      BY <2>3, <3>1, <3>2 DEF Describes
  <2>6. \A b \in Calls \ {c} : Applied(b) => Applied(b)'
    BY <2>1 DEF Applied, TypeOK
  <2>7. reply[c] # "error"
    BY <2>1 DEF Answered
  <2> QED
    BY <2>1, <2>2, <2>3, <2>5, <2>6, <2>7 DEF Describes
<1>4. ASSUME NEW c \in Calls, UndoEdit(c) PROVE Describes(o, f)'
  <2>1. fields[c] # {} /\ fields' = fields /\ reply'[c] = "error"
    BY <1>4, <1>z DEF UndoEdit, ReplayInv, Editing, TypeOK
  <2> QED
    BY <2>1 DEF Describes
\* A step that leaves the record, its rows and the edits under way.
<1>5. ASSUME UNCHANGED <<value, edits, fields>>, o \in outcomes,
             \A b \in Calls : (Applied(b) => Applied(b)')
                                /\ (reply[b] = "error" => reply'[b] = "error")
      PROVE  Describes(o, f)'
  <2>1. Describes(o, f)
    BY <1>5, <1>z DEF DescribedInv
  <2> QED
    BY <1>5, <2>1 DEF Describes
<1>6. ASSUME NEW c \in Calls, AppendOutcome(c) PROVE Describes(o, f)'
  <2>1. /\ pc[c] = "append" /\ pc' = [pc EXCEPT ![c] = "done"]
        /\ UNCHANGED <<value, edits, fields>>
        /\ \A b \in Calls \ {c} : reply'[b] = reply[b]
        /\ MlOutcome(c)
    BY <1>6 DEF AppendOutcome, TypeOK
  <2>2. CASE o \in outcomes
    <3>1. \A b \in Calls : (Applied(b) => Applied(b)')
                            /\ (reply[b] = "error" => reply'[b] = "error")
      BY <2>1 DEF Applied, Answered, TypeOK
    <3> QED
      BY <1>5, <2>1, <2>2, <3>1
  <2>3. CASE o \notin outcomes
    <3>1. o.on = [g \in ContentFields |-> value[g]]
      BY <2>1, <2>3 DEF MlOutcome
    <3> QED
      BY <2>1, <3>1 DEF Describes
  <2> QED
    BY <2>2, <2>3
<1>7. ASSUME NEW c \in Calls,
             Reject(c) \/ CreateEvent(c) \/ DbFails(c) \/ StartOutcome(c)
      PROVE  Describes(o, f)'
  <2>1. /\ UNCHANGED <<value, edits, fields, outcomes>>
        /\ \/ pc[c] \in {"gate", "idle"}
                /\ \E p \in {"append", "done"} : pc' = [pc EXCEPT ![c] = p]
           \/ pc[c] \in {"event", "row"}
                /\ \E p \in {"row", "undo"} : pc' = [pc EXCEPT ![c] = p]
        /\ \A b \in Calls \ {c} : reply'[b] = reply[b]
    BY <1>7 DEF Reject, CreateEvent, DbFails, StartOutcome, TypeOK
  <2>2. \A b \in Calls : (Applied(b) => Applied(b)')
                          /\ (reply[b] = "error" => reply'[b] = "error")
    BY <2>1 DEF Applied, Answered, TypeOK
  <2> QED
    BY <1>5, <2>1, <2>2
<1>8. ASSUME (\E u \in Users : Expire(u)) \/ UNCHANGED vars PROVE Describes(o, f)'
  <2>1. UNCHANGED <<value, edits, fields, outcomes, pc, reply>>
    BY <1>8 DEF Expire, vars
  <2> QED
    BY <1>5, <2>1 DEF Applied
<1> QED
  BY <1>1, <1>2, <1>3, <1>4, <1>6, <1>7, <1>8, <1>z DEF Next, Step, Rest

\* An outcome that clears the newest content edit was given for the content there
\* is, and that edit is what put it there.
LEMMA ClearedIsConfirmed ==
    ASSUME TypeOK, ReplayInv, DescribedInv, OneEditAtATime, Trusted, NoEditFailed
    PROVE  \E k \in ContentEdits, o \in outcomes :
             /\ \A j \in ContentEdits : j <= k
             /\ edits[k].by \in Authors /\ User[o.by] # User[edits[k].by]
             /\ \A f \in ContentFields : o.on[f] = value[f]
<1>1. PICK n \in Nat : n = Len(edits) /\ DOMAIN edits = 1..n
  BY DEF TypeOK
<1>2. \A c \in Calls : ~Editing(c) /\ ~Applied(c)
  BY DEF Trusted, Editing, Applied
<1>3. \A f \in ContentFields : value[f] = LastEditor(f, n)
  BY <1>1, <1>2, FieldsAssumption DEF ReplayInv, ReplaysTo, Last
<1>4. ContentEdits # {}
  <2>1. PICK f \in ContentFields : value[f] \in Calls
    BY DEF Trusted, Authors
  <2>2. CASE \A i \in 1..n : f \notin DOMAIN edits[i].before
    <3>1. value[f] = Original
      BY <1>3, <2>2, LastEditorNone
    <3> QED
      BY <2>1, <3>1, ValuesAssumption
  <2> QED
    BY <1>1, <2>2 DEF ContentEdits
<1>5. PICK k \in ContentEdits : \A j \in ContentEdits : j <= k
  <2>1. ContentEdits \in SUBSET (1..n)
    BY <1>1 DEF ContentEdits
  <2> QED
    BY <1>4, <2>1, Newest
<1>6. PICK o \in outcomes : Clears(o, k)
  BY <1>5 DEF Trusted, Stale
<1>7. edits[k].by \in Authors
  <2>1. PICK f \in ContentFields : f \in DOMAIN edits[k].before
    BY DEF ContentEdits
  <2>2. LastEditor(f, n) = edits[k].by
    BY <1>1, <1>5, <2>1, LastEditorIs DEF ContentEdits
  <2>3. edits[k].by \in Calls
    BY <1>1, RowTypes DEF ContentEdits
  <2> QED
    BY <1>3, <2>1, <2>2, <2>3 DEF Authors
<1>8. ASSUME NEW f \in ContentFields PROVE o.on[f] = value[f]
  <2>1. Describes(o, f)
    BY DEF DescribedInv
  <2>2. o.after >= k /\ o.after \in Nat /\ k \in Nat
    BY <1>1, <1>6 DEF Clears, ContentEdits, TypeOK
  <2>3. ASSUME NEW j \in DOMAIN edits, j > o.after, f \in DOMAIN edits[j].before PROVE FALSE
    <3>1. j \in ContentEdits
      BY <2>3 DEF ContentEdits
    <3> QED
      BY <1>1, <1>5, <2>2, <2>3, <3>1
  <2> QED
    BY <1>2, <2>1, <2>3 DEF Describes, NoEditFailed
<1> QED
  BY <1>5, <1>6, <1>7, <1>8 DEF Clears

\* When annotate_outcome_staleness lets a record's confirmations count, somebody
\* other than the author of its newest content edit confirmed the content there is
\* now, while edits come one at a time and none failed; outcomes may overlap them.
THEOREM ConfirmationsAreOthers == Spec => []ConfirmedByAnother
<1>1. Init => InTurn /\ ReportedOnce /\ Answered /\ DescribedInv
  BY DEF Init, InTurn, ReportedOnce, OneOutcomePerStatus, InFlight, Answered, DescribedInv
<1>2. TypeOK /\ ReplayInv /\ DescribedInv => ConfirmedByAnother
  BY ClearedIsConfirmed DEF ConfirmedByAnother
<1> QED
  BY <1>1, <1>2, ReplayInit, TypeCorrect, InTurnStep, ReportedStep, AnsweredStep,
     ReplayStep, DescribedStep, PTL DEF Spec
=============================================================================
