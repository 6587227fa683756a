----------------------- MODULE RecordLifecycle_proofs -----------------------
(* Proofs about RecordLifecycle for any number of calls, domains and ids.   *)
EXTENDS RecordLifecycle, TLAPS

-----------------------------------------------------------------------------
(* Type correctness *)

\* A fault that may strike once more stays within its bound.
LEMMA StrikeCounts ==
    ASSUME TypeOK, NEW k \in FaultKinds, MayStrike(k),
           faults' = [faults EXCEPT ![k] = @ + 1]
    PROVE  faults' \in [FaultKinds -> 0..MaxFaults]
<1>1. faults[k] \in 0..MaxFaults /\ faults[k] < MaxFaults
  BY DEF TypeOK, MayStrike
<1>2. faults[k] + 1 \in 0..MaxFaults
  BY <1>1, BoundsAssumption
<1>3. QED
  BY <1>2 DEF TypeOK

\* Every step of a call, a fault or an admin request keeps the types.
LEMMA TypeStep == TypeOK /\ [Next]_vars => TypeOK'
<1> SUFFICES ASSUME TypeOK, [Next]_vars PROVE TypeOK'
  OBVIOUS
<1> USE DEF TypeOK, store, db, task, GoTo, Answer, Src, Dst, Id, InFlight,
            WriteSteps, DeleteSteps, MoveSteps, SharedSteps, Replies
<1>1. ASSUME NEW c \in Calls, StartWrite(c) PROVE TypeOK'
  BY <1>1 DEF StartWrite, Requests, CallOps
<1>2. ASSUME NEW c \in Calls, StartDelete(c) PROVE TypeOK'
  BY <1>2 DEF StartDelete, Requests, CallOps
<1>3. ASSUME NEW c \in Calls, StartMove(c) PROVE TypeOK'
  BY <1>3 DEF StartMove, Requests, CallOps
<1>4. ASSUME NEW c \in Calls, NEW d \in Domains, ScanDomain(c, d) PROVE TypeOK'
  BY <1>4 DEF ScanDomain
<1>5. ASSUME NEW c \in Calls, PassPrecheck(c) PROVE TypeOK'
  BY <1>5 DEF PassPrecheck
<1>6. ASSUME NEW c \in Calls, Record(c) PROVE TypeOK'
  BY <1>6 DEF Record, MlRecord, Requests
<1>7. ASSUME NEW c \in Calls, NotWritten(c) PROVE TypeOK'
  BY <1>7 DEF NotWritten
<1>8. ASSUME NEW c \in Calls, Tidy(c) PROVE TypeOK'
  BY <1>8 DEF Tidy
<1>9. ASSUME NEW c \in Calls, CreateMeta(c) PROVE TypeOK'
  BY <1>9 DEF CreateMeta, Requests
<1>10. ASSUME NEW c \in Calls, MetaTaken(c) PROVE TypeOK'
  BY <1>10 DEF MetaTaken
<1>11. ASSUME NEW c \in Calls, Rollback(c) PROVE TypeOK'
  <2>1. arg[c] \in Requests /\ Src(c) \in Domains /\ Id(c) \in Ids
    BY <1>11 DEF Rollback, Requests
  <2>2. CASE MlArchive(Src(c), Id(c))
    <3>1. live' \in [Domains -> SUBSET Ids] /\ archive' \subseteq Domains \X Ids
          /\ files' = files
      BY <2>1, <2>2 DEF MlArchive
    <3>2. \E r \in Replies : Answer(c, r)
      BY <1>11 DEF Rollback
    <3>3. QED
      BY <1>11, <3>1, <3>2 DEF Rollback
  <2>3. CASE ~MlArchive(Src(c), Id(c))
    <3>1. UNCHANGED store /\ Answer(c, "error")
      BY <1>11, <2>3 DEF Rollback
    <3>2. QED
      BY <1>11, <3>1 DEF Rollback
  <2>4. QED
    BY <2>2, <2>3
<1>12. ASSUME NEW c \in Calls, Archive(c) PROVE TypeOK'
  BY <1>12 DEF Archive, MlArchive, Requests
<1>13. ASSUME NEW c \in Calls, Restore(c) PROVE TypeOK'
  <2>1. arg[c] \in Requests /\ Id(c) \in Ids
    BY <1>13 DEF Restore, Requests
  <2>2. live' \in [Domains -> SUBSET Ids] /\ archive' \subseteq Domains \X Ids
        /\ files' \subseteq Domains
    <3>1. CASE MlRestore(Id(c))
      <4>1. PICK d \in Domains :
              /\ live' = [live EXCEPT ![d] = @ \cup {Id(c)}]
              /\ files' = files \cup {d}
              /\ archive' = archive \ {<<d, Id(c)>>}
        BY <3>1 DEF MlRestore
      <4>2. QED
        BY <2>1, <4>1
    <3>2. CASE UNCHANGED store
      BY <3>2
    <3>3. QED
      BY <1>13, <3>1, <3>2 DEF Restore
  <2>3. QED
    BY <1>13, <2>2 DEF Restore
<1>14. ASSUME NEW c \in Calls, Move(c) PROVE TypeOK'
  BY <1>14 DEF Move, MlMove, Requests
<1>15. ASSUME NEW c \in Calls, Relabel(c) PROVE TypeOK'
  BY <1>15 DEF Relabel, Requests
<1>16. ASSUME NEW c \in Calls, MoveBack(c) PROVE TypeOK'
  BY <1>16 DEF MoveBack, MlMove, Requests
<1>17. ASSUME NEW c \in Calls, CreateEvent(c) PROVE TypeOK'
  BY <1>17 DEF CreateEvent, AfterEvent, Events, Requests, CallOps
<1>18. ASSUME NEW c \in Calls, DbFails(c) PROVE TypeOK'
  <2>1. faults' \in [FaultKinds -> 0..MaxFaults]
    BY <1>18, StrikeCounts DEF DbFails, FaultKinds
  <2>2. QED
    BY <1>18, <2>1 DEF DbFails, Undo, Requests, CallOps
<1>19. ASSUME NEW c \in Calls, Sweep(c) PROVE TypeOK'
  BY <1>19 DEF Sweep
<1>20. ASSUME NEW c \in Calls, Unlink(c) PROVE TypeOK'
  BY <1>20 DEF Unlink, Requests
<1>21. ASSUME NEW c \in Calls, MlFails(c) PROVE TypeOK'
  <2>1. arg[c] \in Requests /\ Src(c) \in Domains /\ Dst(c) \in Domains /\ Id(c) \in Ids
    BY <1>21 DEF MlFails, Requests
  <2>2. live' \in [Domains -> SUBSET Ids] /\ archive' \subseteq Domains \X Ids
        /\ files' \subseteq Domains
    <3>1. CASE pc[c] = "record" /\ MlRecord(Src(c), Id(c))
      BY <2>1, <3>1 DEF MlRecord
    <3>2. CASE MlArchive(Src(c), Id(c))
      BY <2>1, <3>2 DEF MlArchive
    <3>3. CASE MlMove(Src(c), Dst(c), Id(c)) \/ MlMove(Dst(c), Src(c), Id(c))
      BY <2>1, <3>3 DEF MlMove
    <3>4. CASE MlRestore(Id(c))
      <4>1. PICK d \in Domains :
              /\ live' = [live EXCEPT ![d] = @ \cup {Id(c)}]
              /\ files' = files \cup {d}
              /\ archive' = archive \ {<<d, Id(c)>>}
        BY <3>4 DEF MlRestore
      <4>2. QED
        BY <2>1, <4>1
    <3>5. CASE UNCHANGED <<live, archive>> /\ files' \subseteq files \cup {Src(c)}
      BY <2>1, <3>5
    <3>6. MlEffect(c) \/ (UNCHANGED <<live, archive>> /\ files' \subseteq files \cup {Src(c)})
      BY <1>21 DEF MlFails
    <3>7. QED
      BY <3>1, <3>2, <3>3, <3>4, <3>5, <3>6 DEF MlEffect
  <2>3. faults' \in [FaultKinds -> 0..MaxFaults]
    BY <1>21, StrikeCounts DEF MlFails, FaultKinds
  <2>4. QED
    BY <1>21, <2>2, <2>3 DEF MlFails
<1>22. CASE Crash
  <2>1. faults' \in [FaultKinds -> 0..MaxFaults]
    BY <1>22, StrikeCounts DEF Crash, FaultKinds
  <2>2. QED
    BY <1>22, <2>1 DEF Crash
<1>23. ASSUME NEW d \in Domains, NEW i \in Ids, AdminDelete(d, i) PROVE TypeOK'
  BY <1>23, BoundsAssumption DEF AdminDelete, MlArchive
<1>24. ASSUME NEW i \in Ids, AdminRestore(i) PROVE TypeOK'
  BY <1>24, BoundsAssumption DEF AdminRestore, MlRestore
<1>25. CASE UNCHANGED vars
  BY <1>25 DEF vars
<1>26. QED
  BY <1>1, <1>2, <1>3, <1>4, <1>5, <1>6, <1>7, <1>8, <1>9, <1>10, <1>11,
     <1>12, <1>13, <1>14, <1>15, <1>16, <1>17, <1>18, <1>19, <1>20, <1>21,
     <1>22, <1>23, <1>24, <1>25 DEF Next, Start, Step, Rest

\* In every reachable state the files, the rows and the calls have their types.
THEOREM TypeCorrect == Spec => []TypeOK
<1>1. Init => TypeOK
  BY InitLiveAssumption, BoundsAssumption DEF Init, TypeOK, Replies, InFlight,
     WriteSteps, DeleteSteps, MoveSteps, SharedSteps
<1>2. QED
  BY <1>1, TypeStep, PTL DEF Spec
-----------------------------------------------------------------------------
(* Each call stays within the handler of its operation *)

Phases == \A c \in Calls :
    /\ pc[c] \in WriteSteps => arg[c].op = "write"
    /\ pc[c] \in DeleteSteps => arg[c].op = "delete"
    /\ pc[c] \in MoveSteps => arg[c].op = "move"
    /\ pc[c] \in {"sweep", "unlink"} => arg[c].op \in {"delete", "move"}
    /\ pc[c] \in InFlight => arg[c].op \in Ops

\* A step of a handler leads to a step of the same handler.
LEMMA PhaseStep == TypeOK /\ Phases /\ [Next]_vars => Phases'
<1> SUFFICES ASSUME TypeOK, Phases, [Next]_vars PROVE Phases'
  OBVIOUS
<1> USE DEF Phases, TypeOK, InFlight, WriteSteps, DeleteSteps, MoveSteps, SharedSteps
<1>1. CASE \E c \in Calls : Start(c)
  BY <1>1 DEF Start, StartWrite, StartDelete, StartMove, GoTo, Answer, store, db
<1>2. CASE \E c \in Calls : Step(c)
  <2> PICK c \in Calls : Step(c)
    BY <1>2
  <2> USE DEF GoTo, Answer, task
  <2>1. CASE \E d \in Domains : ScanDomain(c, d)
    BY <2>1 DEF ScanDomain
  <2>2. CASE PassPrecheck(c) \/ Record(c) \/ NotWritten(c) \/ Tidy(c)
    BY <2>2 DEF PassPrecheck, Record, NotWritten, Tidy
  <2>3. CASE CreateMeta(c) \/ MetaTaken(c) \/ Rollback(c)
    BY <2>3 DEF CreateMeta, MetaTaken, Rollback
  <2>4. CASE Archive(c) \/ Restore(c) \/ Move(c) \/ Relabel(c) \/ MoveBack(c)
    BY <2>4 DEF Archive, Restore, Move, Relabel, MoveBack
  <2>5. CASE CreateEvent(c)
    BY <2>5 DEF CreateEvent, AfterEvent, Requests, CallOps
  <2>6. CASE Sweep(c) \/ Unlink(c)
    BY <2>6 DEF Sweep, Unlink
  <2>7. QED
    BY <2>1, <2>2, <2>3, <2>4, <2>5, <2>6 DEF Step
<1>3. CASE \E c \in Calls : DbFails(c)
  BY <1>3 DEF DbFails, Undo, GoTo, task, Requests, CallOps
<1>4. CASE \E c \in Calls : MlFails(c)
  BY <1>4 DEF MlFails, task
<1>5. CASE Crash
  BY <1>5 DEF Crash, task
<1>6. CASE (\E d \in Domains, i \in Ids : AdminDelete(d, i)) \/ (\E i \in Ids : AdminRestore(i))
  BY <1>6 DEF AdminDelete, AdminRestore, task
<1>7. CASE UNCHANGED vars
  BY <1>7 DEF vars
<1>8. QED
  BY <1>1, <1>2, <1>3, <1>4, <1>5, <1>6, <1>7 DEF Next, Rest

LEMMA PhaseInvariant == Spec => []Phases
<1>1. Init => Phases
  BY DEF Init, Phases, InFlight, WriteSteps, DeleteSteps, MoveSteps, SharedSteps
<1>2. QED
  BY <1>1, PhaseStep, TypeCorrect, PTL DEF Spec

-----------------------------------------------------------------------------
(* The registry decides the race between writes of one content.             *)
(*                                                                          *)
(* A copy that appears in a file belongs to an unsettled write; it settles  *)
(* only by inserting the one RecordMeta row of its id, and every write that *)
(* finds the row taken, or whose insert fails, removes the copy before it   *)
(* lets go of it.  Moving a copy or restoring one from the archive escapes  *)
(* that argument, so no such step may be taken here.                        *)

NoEscape == \A c \in Calls : pc[c] \notin {"move", "moveBack", "relabel", "restore"}
HomeInv == TypeOK /\ Phases /\ NoEscape /\ RegisteredHome

NoMoveNoRestore ==
    /\ "move" \notin Ops /\ "adminRestore" \notin Ops
    /\ "ml" \notin Faults /\ "crash" \notin Faults
    /\ "db" \notin Faults \/ "delete" \notin Ops

\* No step leads to a move or to a restore from the archive.
LEMMA NoEscapeStep ==
  ASSUME NoMoveNoRestore, HomeInv, [Next]_vars
  PROVE  NoEscape'
<1> USE DEF HomeInv, NoMoveNoRestore, NoEscape, TypeOK, GoTo, Answer
<1>1. CASE \E c \in Calls : Start(c)
  BY <1>1 DEF Start, StartWrite, StartDelete, StartMove
<1>2. CASE \E c \in Calls : Step(c)
  <2> PICK c \in Calls : Step(c)
    BY <1>2
  <2>1. CASE \E d \in Domains : ScanDomain(c, d)
    BY <2>1 DEF ScanDomain
  <2>2. CASE PassPrecheck(c) \/ Record(c) \/ NotWritten(c) \/ Tidy(c)
    BY <2>2 DEF PassPrecheck, Record, NotWritten, Tidy
  <2>3. CASE CreateMeta(c) \/ MetaTaken(c) \/ Rollback(c)
    BY <2>3 DEF CreateMeta, MetaTaken, Rollback
  <2>4. CASE Archive(c) \/ Restore(c) \/ Move(c) \/ Relabel(c) \/ MoveBack(c)
    BY <2>4 DEF Archive, Restore, Move, Relabel, MoveBack
  <2>5. CASE CreateEvent(c)
    <3>1. arg[c].op \in {"write", "delete"}
      BY <2>5 DEF CreateEvent, Phases, InFlight, SharedSteps, Requests, CallOps
    <3>2. QED
      BY <2>5, <3>1 DEF CreateEvent, AfterEvent
  <2>6. CASE Sweep(c) \/ Unlink(c)
    BY <2>6 DEF Sweep, Unlink
  <2>7. QED
    BY <2>1, <2>2, <2>3, <2>4, <2>5, <2>6 DEF Step
<1>3. CASE \E c \in Calls : DbFails(c)
  <2> PICK c \in Calls : DbFails(c)
    BY <1>3
  <2>1. arg[c].op = "write"
    BY DEF DbFails, MayStrike, Phases, InFlight, WriteSteps, SharedSteps, Requests, CallOps
  <2>2. QED
    BY <2>1 DEF DbFails, Undo
<1>4. CASE \E c \in Calls : MlFails(c)
  BY <1>4 DEF MlFails, MayStrike
<1>5. CASE Crash
  BY <1>5 DEF Crash
<1>6. CASE (\E d \in Domains, i \in Ids : AdminDelete(d, i)) \/ (\E i \in Ids : AdminRestore(i))
  BY <1>6 DEF AdminDelete, AdminRestore
<1>7. CASE UNCHANGED vars
  BY <1>7 DEF vars
<1>8. QED
  BY <1>1, <1>2, <1>3, <1>4, <1>5, <1>6, <1>7 DEF Next, Rest

\* A step that adds no copy, settles none and changes no row keeps every settled
\* copy in the domain of its row.
LEMMA ShrinkingKeepsHomes ==
  ASSUME RegisteredHome, TypeOK, meta' = meta,
         \A d \in Domains : live'[d] \subseteq live[d],
         \A c \in Calls, i \in Ids, d \in Domains :
             Unsettled(c, i, d) /\ i \in live'[d] => Unsettled(c, i, d)'
  PROVE  RegisteredHome'
BY DEF RegisteredHome, Homes

\* No step settles a copy anywhere but in the domain of its row.
LEMMA HomeStep ==
  ASSUME NoMoveNoRestore, HomeInv, [Next]_vars
  PROVE  RegisteredHome'
<1> USE DEF HomeInv, NoMoveNoRestore
<1>1. CASE \E c \in Calls : Start(c)
  <2>1. live' = live /\ meta' = meta
    BY <1>1 DEF Start, StartWrite, StartDelete, StartMove, store, db
  <2>2. \A c \in Calls, i \in Ids, d \in Domains : Unsettled(c, i, d) => Unsettled(c, i, d)'
    BY <1>1 DEF Start, StartWrite, StartDelete, StartMove, Unsettled, Id, Src, GoTo, Answer, TypeOK
  <2>3. QED
    BY <2>1, <2>2, ShrinkingKeepsHomes
<1>2. CASE \E c \in Calls : Step(c)
  <2> PICK c \in Calls : Step(c)
    BY <1>2
  <2>1. CASE \/ \E d \in Domains : ScanDomain(c, d)
             \/ PassPrecheck(c) \/ NotWritten(c) \/ Tidy(c)
             \/ MetaTaken(c) \/ CreateEvent(c) \/ Sweep(c)
    <3>1. live' = live /\ meta' = meta /\ arg' = arg
      BY <2>1 DEF ScanDomain, PassPrecheck, NotWritten, Tidy, MetaTaken, CreateEvent, Sweep,
         store, db, task
    <3>2. \A b \in Calls, i \in Ids, d \in Domains : Unsettled(b, i, d) => Unsettled(b, i, d)'
      BY <2>1, <3>1 DEF ScanDomain, PassPrecheck, NotWritten, Tidy, MetaTaken, CreateEvent, Sweep,
         Unsettled, Id, Src, GoTo, Answer, TypeOK
    <3>3. QED
      BY <3>1, <3>2, ShrinkingKeepsHomes
  <2>2. CASE Record(c)
    <3>1. meta' = meta /\ arg' = arg
      BY <2>2 DEF Record, db, task
    <3>2. Unsettled(c, Id(c), Src(c))'
      BY <2>2, <3>1 DEF Record, Unsettled, GoTo, Id, Src, TypeOK
    <3>3. \A b \in Calls, i \in Ids, d \in Domains : Unsettled(b, i, d) => Unsettled(b, i, d)'
      BY <2>2, <3>1 DEF Record, Unsettled, GoTo, Id, Src, TypeOK
    <3>4. \A i \in Ids, d \in Domains : i \in live'[d] =>
            i \in live[d] \/ (i = Id(c) /\ d = Src(c))
      BY <2>2 DEF Record, MlRecord, TypeOK
    <3>5. QED
      BY <3>1, <3>2, <3>3, <3>4 DEF RegisteredHome, Homes, Id, Src
  <2>3. CASE CreateMeta(c)
    <3>1. live' = live /\ arg' = arg /\ arg[c] \in Requests
      BY <2>3 DEF CreateMeta, store, task, TypeOK, InFlight, WriteSteps
    <3>2. Id(c) \in Ids /\ Src(c) \in Domains
      BY <3>1 DEF Requests, Id, Src
    <3>3. Homes(Id(c)) = {}
      BY <2>3, <3>2, NullAssumption DEF CreateMeta, RegisteredHome, Homes
    <3>4. meta' = [meta EXCEPT ![Id(c)] = Src(c)]
      BY <2>3 DEF CreateMeta
    <3>5. \A i \in Ids, d \in Domains : ~(i = Id(c) /\ d = Src(c)) =>
            \A b \in Calls : Unsettled(b, i, d) <=> Unsettled(b, i, d)'
      BY <2>3, <3>1, <3>2 DEF CreateMeta, Unsettled, GoTo, Id, Src, TypeOK
    <3>6. \A i \in Ids : \A d \in Homes(i)' : d \in Homes(i) \/ (i = Id(c) /\ d = Src(c))
      BY <3>1, <3>5 DEF Homes
    <3>7. QED
      BY <3>2, <3>3, <3>4, <3>6 DEF RegisteredHome, TypeOK
  <2>4. CASE Rollback(c)
    <3>1. meta' = meta /\ arg' = arg /\ arg[c] \in Requests
      BY <2>4 DEF Rollback, db, task, TypeOK, InFlight, WriteSteps
    <3>2. /\ Id(c) \notin live'[Src(c)]
          /\ \A d \in Domains : live'[d] \subseteq live[d]
      BY <2>4, <3>1 DEF Rollback, MlArchive, store, TypeOK, Requests, Src, Id
    <3>3. pc' = [pc EXCEPT ![c] = "done"]
      BY <2>4 DEF Rollback, Answer
    <3>4. \A b \in Calls, i \in Ids, d \in Domains :
            Unsettled(b, i, d) /\ i \in live'[d] => Unsettled(b, i, d)'
      BY <3>1, <3>2, <3>3 DEF Unsettled, Id, Src, TypeOK
    <3>5. QED
      BY <3>1, <3>2, <3>4, ShrinkingKeepsHomes
  <2>5. CASE Archive(c) \/ Unlink(c)
    <3>1. meta' = meta /\ arg' = arg /\ arg[c] \in Requests
      BY <2>5 DEF Archive, Unlink, db, task, TypeOK, InFlight, DeleteSteps, SharedSteps
    <3>2. \A d \in Domains : live'[d] \subseteq live[d]
      BY <2>5, <3>1 DEF Archive, Unlink, MlArchive, store, TypeOK, Requests, Src, Id
    <3>3. \A b \in Calls, i \in Ids, d \in Domains : Unsettled(b, i, d) => Unsettled(b, i, d)'
      BY <2>5, <3>1 DEF Archive, Unlink, Unsettled, GoTo, Answer, Id, Src, TypeOK
    <3>4. QED
      BY <3>1, <3>2, <3>3, ShrinkingKeepsHomes
  <2>6. CASE Restore(c) \/ Move(c) \/ Relabel(c) \/ MoveBack(c)
    BY <2>6 DEF Restore, Move, Relabel, MoveBack, NoEscape
  <2>7. QED
    BY <2>1, <2>2, <2>3, <2>4, <2>5, <2>6 DEF Step
<1>3. CASE \E c \in Calls : DbFails(c)
  <2> PICK c \in Calls : DbFails(c)
    BY <1>3
  <2>1. arg[c].op = "write"
    BY DEF DbFails, MayStrike, Phases, InFlight, WriteSteps, SharedSteps, MoveSteps, TypeOK, Requests, CallOps
  <2>2. live' = live /\ meta' = meta /\ arg' = arg
    BY DEF DbFails, store, db, task
  <2>3. \A b \in Calls, i \in Ids, d \in Domains : Unsettled(b, i, d) => Unsettled(b, i, d)'
    BY <2>1, <2>2 DEF DbFails, Undo, GoTo, Unsettled, Id, Src, TypeOK
  <2>4. QED
    BY <2>2, <2>3, ShrinkingKeepsHomes
<1>4. CASE \E d \in Domains, i \in Ids : AdminDelete(d, i)
  <2>1. /\ meta' = meta /\ arg' = arg /\ pc' = pc
        /\ \A d \in Domains : live'[d] \subseteq live[d]
    BY <1>4 DEF AdminDelete, MlArchive, db, task, TypeOK
  <2>2. \A b \in Calls, i \in Ids, d \in Domains : Unsettled(b, i, d) => Unsettled(b, i, d)'
    BY <2>1 DEF Unsettled, Id, Src
  <2>3. QED
    BY <2>1, <2>2, ShrinkingKeepsHomes
<1>5. CASE UNCHANGED vars
  <2>1. /\ meta' = meta /\ live' = live
        /\ \A b \in Calls, i \in Ids, d \in Domains : Unsettled(b, i, d) => Unsettled(b, i, d)'
    BY <1>5 DEF vars, Unsettled, Id, Src
  <2>2. QED
    BY <2>1, ShrinkingKeepsHomes
<1>6. ~(\E c \in Calls : MlFails(c)) /\ ~Crash /\ ~(\E i \in Ids : AdminRestore(i))
  BY DEF MlFails, Crash, MayStrike, AdminRestore
<1>7. QED
  BY <1>1, <1>2, <1>3, <1>4, <1>5, <1>6 DEF Next, Rest

LEMMA HomeInvariant ==
  ASSUME NoMoveNoRestore PROVE Spec => []HomeInv
<1>1. Init => HomeInv
  <2> SUFFICES ASSUME Init PROVE HomeInv
    OBVIOUS
  <2>1. TypeOK
    BY InitLiveAssumption, BoundsAssumption DEF Init, TypeOK, Replies, InFlight,
       WriteSteps, DeleteSteps, MoveSteps, SharedSteps
  <2>2. Phases /\ NoEscape
    BY DEF Init, Phases, NoEscape, InFlight, WriteSteps, DeleteSteps, MoveSteps, SharedSteps
  <2>3. RegisteredHome
    <3> SUFFICES ASSUME NEW i \in Ids, NEW d \in Domains, i \in InitLive[d]
                 PROVE  meta[i] = d
      BY DEF Init, RegisteredHome, Homes
    <3> DEFINE e == CHOOSE e \in Domains : i \in InitLive[e]
    <3>1. e \in Domains /\ i \in InitLive[e]
      OBVIOUS
    <3>2. e = d
      BY <3>1, InitLiveAssumption
    <3>3. meta[i] = e
      BY DEF Init
    <3>4. QED
      BY <3>2, <3>3
  <2>4. QED
    BY <2>1, <2>2, <2>3 DEF HomeInv
<1>2. HomeInv /\ [Next]_vars => HomeInv'
  BY TypeStep, PhaseStep, NoEscapeStep, HomeStep DEF HomeInv
<1>3. QED
  BY <1>1, <1>2, PTL DEF Spec

\* Without moves and restores, and as long as what may fail is an insert of a
\* write, every settled copy of a record is in the one domain that its
\* RecordMeta row names: two concurrent writes of one content to two domains
\* never both stay on disk.
THEOREM RegisteredHomeHolds ==
  ASSUME NoMoveNoRestore PROVE Spec => []RegisteredHome
<1>1. HomeInv => RegisteredHome
  BY DEF HomeInv
<1>2. QED
  BY <1>1, HomeInvariant, PTL

-----------------------------------------------------------------------------
(* What a step leaves of the calls and of the counts of faults *)

\* A call keeps its arguments once it has them, and its answer once it has that.
LEMMA CallsKeep ==
  ASSUME TypeOK, [Next]_vars
  PROVE  \A c \in Calls :
            /\ pc[c] # "idle" => arg'[c] = arg[c] /\ pc'[c] # "idle"
            /\ pc[c] = "done" => pc'[c] = "done" /\ reply'[c] = reply[c]
            /\ pc'[c] = "idle" => arg'[c] = arg[c] /\ reply'[c] = reply[c]
<1> USE DEF TypeOK, InFlight, WriteSteps, DeleteSteps, MoveSteps, SharedSteps, GoTo, Answer
<1>1. CASE \E c \in Calls : Start(c)
  BY <1>1 DEF Start, StartWrite, StartDelete, StartMove
<1>2. CASE \E c \in Calls : Step(c)
  <2> PICK c \in Calls : Step(c)
    BY <1>2
  <2>1. CASE \E d \in Domains : ScanDomain(c, d)
    BY <2>1 DEF ScanDomain
  <2>2. CASE PassPrecheck(c) \/ Record(c) \/ NotWritten(c) \/ Tidy(c)
    BY <2>2 DEF PassPrecheck, Record, NotWritten, Tidy, task
  <2>3. CASE CreateMeta(c) \/ MetaTaken(c) \/ Rollback(c)
    BY <2>3 DEF CreateMeta, MetaTaken, Rollback, task
  <2>4. CASE Archive(c) \/ Restore(c) \/ Move(c) \/ Relabel(c) \/ MoveBack(c)
    BY <2>4 DEF Archive, Restore, Move, Relabel, MoveBack, task
  <2>5. CASE CreateEvent(c) \/ Sweep(c) \/ Unlink(c)
    <3>1. UNCHANGED arg /\ pc[c] \notin {"idle", "done"}
      BY <2>5 DEF CreateEvent, Sweep, Unlink, task
    <3>2. PICK step : pc' = [pc EXCEPT ![c] = step] /\ step # "idle"
      BY <2>5 DEF CreateEvent, AfterEvent, Sweep, Unlink, Requests, CallOps
    <3>3. \A b \in Calls \ {c} : reply'[b] = reply[b]
      BY <2>5 DEF CreateEvent, Sweep, Unlink
    <3> QED BY <3>1, <3>2, <3>3
  <2> QED BY <2>1, <2>2, <2>3, <2>4, <2>5 DEF Step
<1>3. CASE \E c \in Calls : DbFails(c)
  BY <1>3 DEF DbFails, Undo, task, Requests, CallOps
<1>4. CASE \E c \in Calls : MlFails(c)
  BY <1>4 DEF MlFails, task
<1>5. CASE Crash
  BY <1>5 DEF Crash, task
<1>6. CASE (\E d \in Domains, i \in Ids : AdminDelete(d, i)) \/ (\E i \in Ids : AdminRestore(i))
  BY <1>6 DEF AdminDelete, AdminRestore, task
<1>7. CASE UNCHANGED vars
  BY <1>7 DEF vars
<1> QED BY <1>1, <1>2, <1>3, <1>4, <1>5, <1>6, <1>7 DEF Next, Rest

\* Faults and admin requests are only ever counted up; while none is counted, no
\* action of theirs is taken.
LEMMA CountsKeep ==
  ASSUME TypeOK, [Next]_vars
  PROVE  /\ \A k \in FaultKinds : faults'[k] >= faults[k]
         /\ admin' >= admin
         /\ \A c \in Calls : DbFails(c) => faults'["db"] = faults["db"] + 1
         /\ \A c \in Calls : MlFails(c) => faults'["ml"] > 0
         /\ Crash => faults'["crash"] > 0
         /\ \A i \in Ids : AdminRestore(i) => admin' > 0
         /\ \A d \in Domains, i \in Ids : AdminDelete(d, i) => admin' > 0
<1>0. /\ faults \in [FaultKinds -> Nat] /\ admin \in Nat
      /\ {"db", "ml", "crash"} \subseteq FaultKinds
  BY BoundsAssumption DEF TypeOK, FaultKinds
<1>1. ASSUME NEW c \in Calls, DbFails(c)
      PROVE  UNCHANGED admin /\ faults' = [faults EXCEPT !["db"] = @ + 1]
  BY <1>1 DEF DbFails
<1>2. ASSUME NEW c \in Calls, MlFails(c)
      PROVE  UNCHANGED admin /\ faults' = [faults EXCEPT !["ml"] = @ + 1]
  BY <1>2 DEF MlFails
<1>3. ASSUME Crash PROVE UNCHANGED admin /\ faults' = [faults EXCEPT !["crash"] = @ + 1]
  BY <1>3 DEF Crash
<1>4. ASSUME NEW d \in Domains, NEW i \in Ids, AdminDelete(d, i) \/ AdminRestore(i)
      PROVE  UNCHANGED faults /\ admin' = admin + 1
  BY <1>4 DEF AdminDelete, AdminRestore
<1>5. ASSUME NEW i \in Ids, AdminRestore(i) PROVE UNCHANGED faults /\ admin' = admin + 1
  BY <1>5 DEF AdminRestore
<1>6. ASSUME (\E c \in Calls : Start(c) \/ Step(c)) \/ UNCHANGED vars
      PROVE  UNCHANGED <<faults, admin>>
  BY <1>6 DEF Start, StartWrite, StartDelete, StartMove, Step, ScanDomain, PassPrecheck,
       Record, NotWritten, Tidy, CreateMeta, MetaTaken, Rollback, Archive, Restore, Move,
       Relabel, MoveBack, CreateEvent, Sweep, Unlink, vars
<1>7. /\ \A k \in FaultKinds : faults'[k] >= faults[k]
      /\ admin' >= admin
  <2>1. CASE \E c \in Calls : DbFails(c)
    BY <1>0, <1>1, <2>1
  <2>2. CASE \E c \in Calls : MlFails(c)
    BY <1>0, <1>2, <2>2
  <2>3. CASE Crash
    BY <1>0, <1>3, <2>3
  <2>4. CASE \E d \in Domains, i \in Ids : AdminDelete(d, i)
    BY <1>0, <1>4, <2>4
  <2>5. CASE \E i \in Ids : AdminRestore(i)
    BY <1>0, <1>5, <2>5
  <2>6. CASE (\E c \in Calls : Start(c) \/ Step(c)) \/ UNCHANGED vars
    BY <1>0, <1>6, <2>6
  <2> QED BY <2>1, <2>2, <2>3, <2>4, <2>5, <2>6 DEF Next, Rest
<1> QED BY <1>0, <1>1, <1>2, <1>3, <1>4, <1>5, <1>7

\* A call that waits has no answer, and one that is answered is through, or tidies up.
Answered == \A c \in Calls :
    /\ pc[c] = "idle" => arg[c] = NoCall /\ reply[c] = "none"
    /\ reply[c] = "ok" => pc[c] = "done"
    /\ reply[c] \in {"collision", "error"} => pc[c] \in {"done", "tidy"}

LEMMA AnsweredStep ==
  ASSUME TypeOK, Answered, [Next]_vars
  PROVE  Answered'
<1> USE DEF Answered, TypeOK, InFlight, WriteSteps, DeleteSteps, MoveSteps, SharedSteps,
            GoTo, Answer
<1>1. CASE \E c \in Calls : Start(c)
  BY <1>1 DEF Start, StartWrite, StartDelete, StartMove
<1>2. CASE \E c \in Calls : Step(c)
  <2> PICK c \in Calls : Step(c)
    BY <1>2
  <2>1. CASE \E d \in Domains : ScanDomain(c, d)
    BY <2>1 DEF ScanDomain
  <2>2. CASE PassPrecheck(c) \/ Record(c) \/ NotWritten(c) \/ Tidy(c)
    BY <2>2 DEF PassPrecheck, Record, NotWritten, Tidy, task
  <2>3. CASE CreateMeta(c) \/ MetaTaken(c) \/ Rollback(c)
    BY <2>3 DEF CreateMeta, MetaTaken, Rollback, task
  <2>4. CASE Archive(c) \/ Restore(c) \/ Move(c) \/ Relabel(c) \/ MoveBack(c)
    BY <2>4 DEF Archive, Restore, Move, Relabel, MoveBack, task
  <2>5. CASE CreateEvent(c)
    <3>1. UNCHANGED arg /\ pc[c] = "event" /\ reply[c] \notin {"ok", "collision", "error"}
      BY <2>5 DEF CreateEvent, task
    <3>2. \/ pc' = [pc EXCEPT ![c] = "done"] /\ reply' = [reply EXCEPT ![c] = "ok"]
          \/ \E step \in {"sweep", "relabel"} : pc' = [pc EXCEPT ![c] = step] /\ UNCHANGED reply
      BY <2>5 DEF CreateEvent, AfterEvent, Requests, CallOps
    <3> QED BY <3>1, <3>2
  <2>6. CASE Sweep(c) \/ Unlink(c)
    BY <2>6 DEF Sweep, Unlink, task
  <2> QED BY <2>1, <2>2, <2>3, <2>4, <2>5, <2>6 DEF Step
<1>3. CASE \E c \in Calls : DbFails(c)
  BY <1>3 DEF DbFails, Undo, task, Requests, CallOps
<1>4. CASE \E c \in Calls : MlFails(c)
  BY <1>4 DEF MlFails, task
<1>5. CASE Crash
  BY <1>5 DEF Crash, task
<1>6. CASE (\E d \in Domains, i \in Ids : AdminDelete(d, i)) \/ (\E i \in Ids : AdminRestore(i))
  BY <1>6 DEF AdminDelete, AdminRestore, task
<1>7. CASE UNCHANGED vars
  BY <1>7 DEF vars
<1> QED BY <1>1, <1>2, <1>3, <1>4, <1>5, <1>6, <1>7 DEF Next, Rest

LEMMA AlwaysAnswered == Spec => [](TypeOK /\ Phases /\ Answered)
<1>1. Init => Answered
  BY DEF Init, Answered
<1> QED BY <1>1, AnsweredStep, TypeCorrect, PhaseInvariant, PTL DEF Spec

-----------------------------------------------------------------------------
(* What may lose a record *)

LEMMA MlKeepsRecords ==
  ASSUME TypeOK, NEW d \in Domains, NEW e \in Domains, NEW i \in Ids,
         MlRecord(d, i) \/ MlArchive(d, i) \/ MlRestore(i) \/ MlMove(d, e, i) \/ UNCHANGED store
  PROVE  \A j \in Ids : OnDisk(j) => OnDisk(j)'
<1> USE DEF TypeOK, OnDisk
<1>1. CASE MlRecord(d, i)
  BY <1>1 DEF MlRecord
<1>2. CASE MlArchive(d, i)
  BY <1>2 DEF MlArchive
<1>3. CASE MlRestore(i)
  <2>1. PICK f \in Domains :
           /\ live' = [live EXCEPT ![f] = @ \cup {i}]
           /\ archive' = archive \ {<<f, i>>}
    BY <1>3 DEF MlRestore
  <2>2. ASSUME NEW j \in Ids, NEW g \in Domains, j \in live[g] \/ <<g, j>> \in archive
        PROVE  j \in live'[g] \/ <<g, j>> \in archive'
    BY <2>1, <2>2
  <2> QED BY <2>2
<1>4. CASE MlMove(d, e, i)
  <2>1. ASSUME NEW j \in Ids, NEW g \in Domains, j \in live[g]
        PROVE  \E h \in Domains : j \in live'[h]
    BY <1>4, <2>1 DEF MlMove
  <2> QED BY <1>4, <2>1 DEF MlMove
<1>5. CASE UNCHANGED store
  BY <1>5 DEF store
<1> QED BY <1>1, <1>2, <1>3, <1>4, <1>5

\* No `ml` command, rollback, tidy-up, fault, crash or admin request makes a record
\* disappear: the one step that does is the removal of a file that was found empty
\* earlier.
THEOREM RecordsAreLostByUnlinkOnly == Spec => OnlyUnlinkLoses
<1>1. ASSUME TypeOK, [Next]_vars, ~\E c \in Calls : Unlink(c)
      PROVE  \A i \in Ids : OnDisk(i) => OnDisk(i)'
  <2>1. CASE UNCHANGED <<live, archive>>
    BY <2>1 DEF OnDisk
  <2>2. ASSUME NEW c \in Calls, pc[c] \in InFlight,
               MlRecord(Src(c), Id(c)) \/ MlArchive(Src(c), Id(c)) \/ MlRestore(Id(c))
               \/ MlMove(Src(c), Dst(c), Id(c)) \/ MlMove(Dst(c), Src(c), Id(c))
        PROVE  \A i \in Ids : OnDisk(i) => OnDisk(i)'
    <3>1. arg[c] \in Requests
      BY <1>1, <2>2 DEF TypeOK
    <3>2. Src(c) \in Domains /\ Dst(c) \in Domains /\ Id(c) \in Ids
      BY <3>1 DEF Requests, Src, Dst, Id
    <3> QED BY <1>1, <2>2, <3>2, MlKeepsRecords
  <2>3. CASE \E c \in Calls : Start(c)
    BY <2>1, <2>3 DEF Start, StartWrite, StartDelete, StartMove, store
  <2>4. ASSUME NEW c \in Calls, Step(c) PROVE \A i \in Ids : OnDisk(i) => OnDisk(i)'
    <3>1. CASE \/ \E d \in Domains : ScanDomain(c, d)
               \/ PassPrecheck(c) \/ NotWritten(c) \/ Tidy(c) \/ CreateMeta(c) \/ MetaTaken(c)
               \/ Relabel(c) \/ CreateEvent(c) \/ Sweep(c)
      BY <2>1, <3>1 DEF ScanDomain, PassPrecheck, NotWritten, Tidy, CreateMeta, MetaTaken,
           Relabel, CreateEvent, Sweep, store
    <3>2. CASE Record(c) \/ Rollback(c) \/ Archive(c) \/ Restore(c) \/ Move(c) \/ MoveBack(c)
      <4>1. pc[c] \in InFlight
        BY <3>2 DEF Record, Rollback, Archive, Restore, Move, MoveBack, InFlight, WriteSteps,
             DeleteSteps, MoveSteps
      <4>2. \/ MlRecord(Src(c), Id(c)) \/ MlArchive(Src(c), Id(c)) \/ MlRestore(Id(c))
            \/ MlMove(Src(c), Dst(c), Id(c)) \/ MlMove(Dst(c), Src(c), Id(c))
            \/ UNCHANGED <<live, archive>>
        BY <3>2 DEF Record, Rollback, Archive, Restore, Move, MoveBack, store
      <4> QED BY <2>1, <2>2, <4>1, <4>2
    <3> QED BY <1>1, <2>4, <3>1, <3>2 DEF Step
  <2>5. ASSUME NEW c \in Calls, MlFails(c) PROVE \A i \in Ids : OnDisk(i) => OnDisk(i)'
    <3>1. pc[c] \in InFlight
      BY <2>5 DEF MlFails, InFlight, WriteSteps, DeleteSteps, MoveSteps
    <3>2. \/ MlRecord(Src(c), Id(c)) \/ MlArchive(Src(c), Id(c)) \/ MlRestore(Id(c))
          \/ MlMove(Src(c), Dst(c), Id(c)) \/ MlMove(Dst(c), Src(c), Id(c))
          \/ UNCHANGED <<live, archive>>
      BY <2>5 DEF MlFails, MlEffect, store
    <3> QED BY <2>1, <2>2, <3>1, <3>2
  <2>6. CASE (\E c \in Calls : DbFails(c)) \/ Crash \/ UNCHANGED vars
    BY <2>1, <2>6 DEF DbFails, Crash, store, vars
  <2>7. CASE (\E d \in Domains, i \in Ids : AdminDelete(d, i)) \/ (\E i \in Ids : AdminRestore(i))
    BY <1>1, <2>7, MlKeepsRecords DEF AdminDelete, AdminRestore, MlRestore
  <2> QED BY <1>1, <2>3, <2>4, <2>5, <2>6, <2>7 DEF Next, Rest
<1>2. TypeOK /\ [Next]_vars
        => [\A i \in Ids : OnDisk(i) /\ ~OnDisk(i)' => \E c \in Calls : Unlink(c)]_vars
  BY <1>1
<1> QED BY <1>2, TypeCorrect, PTL DEF Spec, OnlyUnlinkLoses

-----------------------------------------------------------------------------
(* One write of a content is acknowledged *)

\* c owns the RecordMeta row of its id.
Registered(c) == Asked(c, "write") /\ (pc[c] = "event" \/ reply[c] = "ok")

OneRegistered ==
    /\ \A c \in Calls : Registered(c) => meta[Id(c)] # NoRow
    /\ \A b, c \in Calls : Registered(b) /\ Registered(c) /\ Id(b) = Id(c) => b = c

\* A row stays: nothing deletes one.
LEMMA RowsStay ==
  ASSUME TypeOK, [Next]_vars
  PROVE  \A i \in Ids : meta[i] # NoRow => meta'[i] # NoRow
<1>1. CASE UNCHANGED meta
  BY <1>1
<1>2. ASSUME NEW c \in Calls, CreateMeta(c) \/ Relabel(c) PROVE
             \A i \in Ids : meta[i] # NoRow => meta'[i] # NoRow
  <2>1. arg[c] \in Requests
    BY <1>2 DEF CreateMeta, Relabel, TypeOK, InFlight, WriteSteps, MoveSteps
  <2>2. Src(c) # NoRow /\ Dst(c) # NoRow
    BY <2>1, NullAssumption DEF Requests, Src, Dst
  <2> QED BY <1>2, <2>2 DEF CreateMeta, Relabel, TypeOK
<1>3. CASE ~\E c \in Calls : CreateMeta(c) \/ Relabel(c)
  BY <1>1, <1>3 DEF Next, Start, StartWrite, StartDelete, StartMove, Step, ScanDomain,
     PassPrecheck, Record, NotWritten, Tidy, MetaTaken, Rollback, Archive, Restore, Move,
     MoveBack, CreateEvent, Sweep, Unlink, DbFails, MlFails, Crash, AdminDelete,
     AdminRestore, Rest, vars, db
<1> QED BY <1>2, <1>3

LEMMA RegisteredStep ==
  ASSUME TypeOK, Phases, Answered, OneRegistered, [Next]_vars
  PROVE  OneRegistered'
<1>1. ASSUME \A c \in Calls : Registered(c)' => Registered(c) /\ arg'[c] = arg[c]
      PROVE  OneRegistered'
  <2>1. \A c \in Calls : Registered(c) => Id(c) \in Ids
    BY NoCallAssumption DEF Registered, Asked, Id, TypeOK, Requests
  <2> QED BY <1>1, <2>1, RowsStay DEF OneRegistered, Id
<1>2. ASSUME NEW c \in Calls, CreateMeta(c) PROVE OneRegistered'
  <2>1. /\ pc[c] = "meta" /\ meta[Id(c)] = NoRow /\ pc' = [pc EXCEPT ![c] = "event"]
        /\ meta' = [meta EXCEPT ![Id(c)] = Src(c)] /\ UNCHANGED <<arg, reply>>
    BY <1>2 DEF CreateMeta, GoTo, task
  <2>2. arg[c] \in Requests
    BY <2>1 DEF TypeOK, InFlight, WriteSteps
  <2>3. meta'[Id(c)] # NoRow
    BY <2>1, <2>2, NullAssumption DEF TypeOK, Requests, Id, Src
  <2>4. \A b \in Calls \ {c} : Registered(b)' => Registered(b) /\ Id(b) \in Ids
    BY <2>1, NoCallAssumption DEF Registered, Asked, Id, TypeOK, Requests
  <2>5. \A b \in Calls \ {c} : Registered(b)' => meta'[Id(b)] # NoRow /\ Id(b) # Id(c)
    BY <2>1, <2>4, RowsStay DEF OneRegistered
  <2> QED BY <2>1, <2>3, <2>4, <2>5 DEF OneRegistered, Id
<1>3. ASSUME ~\E c \in Calls : CreateMeta(c)
      PROVE  \A c \in Calls : Registered(c)' => Registered(c) /\ arg'[c] = arg[c]
  <2> USE DEF Registered, Asked, TypeOK, Answered, GoTo, Answer
  <2>1. CASE \E c \in Calls : Start(c)
    BY <2>1 DEF Start, StartWrite, StartDelete, StartMove
  <2>2. CASE \E c \in Calls : Step(c)
    <3> PICK c \in Calls : Step(c)
      BY <2>2
    <3>1. CASE \E d \in Domains : ScanDomain(c, d)
      BY <3>1 DEF ScanDomain
    <3>2. CASE PassPrecheck(c) \/ Record(c) \/ NotWritten(c) \/ Tidy(c)
      BY <3>2 DEF PassPrecheck, Record, NotWritten, Tidy, task
    <3>3. CASE MetaTaken(c) \/ Rollback(c)
      BY <3>3 DEF MetaTaken, Rollback, task
    <3>4. CASE Archive(c) \/ Restore(c) \/ Move(c) \/ Relabel(c) \/ MoveBack(c)
      BY <3>4 DEF Archive, Restore, Move, Relabel, MoveBack, task, Phases, DeleteSteps, MoveSteps
    <3>5. CASE CreateEvent(c)
      <4>1. UNCHANGED arg /\ pc[c] = "event" /\ arg[c] \in Requests
        BY <3>5 DEF CreateEvent, task, InFlight, SharedSteps
      <4>2. \/ arg[c].op = "write" /\ pc' = [pc EXCEPT ![c] = "done"] /\ reply' = [reply EXCEPT ![c] = "ok"]
            \/ \E step \in {"sweep", "relabel"} : pc' = [pc EXCEPT ![c] = step] /\ UNCHANGED reply
        BY <3>5, <4>1 DEF CreateEvent, AfterEvent, Requests, CallOps
      <4> QED BY <4>1, <4>2, NoCallAssumption
    <3>6. CASE Sweep(c) \/ Unlink(c)
      BY <3>6 DEF Sweep, Unlink, task, Phases
    <3> QED BY <1>3, <3>1, <3>2, <3>3, <3>4, <3>5, <3>6 DEF Step
  <2>3. CASE \E c \in Calls : DbFails(c)
    BY <2>3 DEF DbFails, Undo, task, Requests, CallOps
  <2>4. CASE \E c \in Calls : MlFails(c)
    BY <2>4 DEF MlFails, task
  <2>5. CASE Crash
    BY <2>5 DEF Crash, task
  <2>6. CASE (\E d \in Domains, i \in Ids : AdminDelete(d, i)) \/ (\E i \in Ids : AdminRestore(i))
    BY <2>6 DEF AdminDelete, AdminRestore, task
  <2>7. CASE UNCHANGED vars
    BY <2>7 DEF vars
  <2> QED BY <2>1, <2>2, <2>3, <2>4, <2>5, <2>6, <2>7 DEF Next, Rest
<1> QED BY <1>1, <1>2, <1>3

\* The unique RecordMeta row settles the race of write_*: whatever fails and whenever,
\* of the writes of one content to several domains one is told that it recorded it.
THEOREM OneWriteIsAcknowledged == Spec => []OneAcknowledgedWriter
<1>1. Init => OneRegistered
  BY DEF Init, OneRegistered, Registered
<1>2. OneRegistered => OneAcknowledgedWriter
  BY DEF OneRegistered, Registered, OneAcknowledgedWriter
<1> QED BY <1>1, <1>2, RegisteredStep, AlwaysAnswered, PTL DEF Spec

-----------------------------------------------------------------------------
(* An acknowledged write keeps its record *)

\* The copy of c's write is on disk, if nobody else took it: c is deciding about it,
\* has registered it or was told that it is recorded.
Holds(c) ==
    /\ Asked(c, "write")
    /\ pc[c] \in {"meta", "collide", "rollback", "event"} \/ reply[c] = "ok"

CopiesHeld ==
    /\ \A c \in Calls : Holds(c) /\ ~Disturbed(c) => Id(c) \in live[Src(c)]
    /\ \A b, c \in Calls :
          /\ Holds(b) /\ Holds(c) /\ ~Disturbed(c)
          /\ Id(b) = Id(c) /\ Src(b) = Src(c)
          => b = c

\* Who disturbs a write goes on disturbing it.
LEMMA DisturbedStays ==
  ASSUME TypeOK, Answered, [Next]_vars, NEW c \in Calls, arg'[c] = arg[c], Disturbed(c)
  PROVE  Disturbed(c)'
<1>1. CASE admin > 0
  <2>1. admin \in Nat /\ admin' \in Nat
    BY TypeStep, BoundsAssumption DEF TypeOK
  <2> QED BY <1>1, <2>1, CountsKeep DEF Disturbed
<1>2. CASE ~(admin > 0)
  <2>1. PICK b \in Calls : /\ Asked(b, "delete") \/ Asked(b, "move")
                           /\ Id(b) = Id(c) \/ Src(b) = Src(c)
    BY <1>2 DEF Disturbed
  <2>2. pc[b] # "idle"
    BY <2>1 DEF Asked, Answered
  <2>3. arg'[b] = arg[b]
    BY <2>2, CallsKeep
  <2> QED BY <2>1, <2>3 DEF Disturbed, Asked, Id, Src
<1> QED BY <1>1, <1>2

\* A step after which no call holds a copy that it did not hold before, and every
\* copy held undisturbed is still there.
LEMMA KeepsCopies ==
  ASSUME TypeOK, Answered, CopiesHeld, [Next]_vars,
         \A c \in Calls : Holds(c)' => Holds(c) /\ arg'[c] = arg[c],
         \A c \in Calls : Holds(c)' /\ ~Disturbed(c)' /\ Id(c) \in live[Src(c)]
             => Id(c) \in live'[Src(c)]
  PROVE  CopiesHeld'
<1>1. \A c \in Calls : Holds(c)' /\ ~Disturbed(c)' => Holds(c) /\ ~Disturbed(c)
  BY DisturbedStays
<1>2. \A c \in Calls : Holds(c)' => Id(c)' = Id(c) /\ Src(c)' = Src(c)
  BY DEF Id, Src
<1> QED BY <1>1, <1>2 DEF CopiesHeld

\* Steps that take nothing out of a file.
LEMMA QuietCopies ==
  ASSUME TypeOK, Phases, Answered, CopiesHeld, [Next]_vars,
         \/ \E c \in Calls : Start(c) \/ DbFails(c)
         \/ \E c \in Calls, d \in Domains : ScanDomain(c, d)
         \/ \E c \in Calls :
               \/ PassPrecheck(c) \/ NotWritten(c) \/ Tidy(c) \/ CreateMeta(c) \/ MetaTaken(c)
               \/ Relabel(c) \/ CreateEvent(c) \/ Sweep(c)
         \/ Crash
         \/ UNCHANGED vars
  PROVE  CopiesHeld'
<1>1. UNCHANGED live
  BY DEF Start, StartWrite, StartDelete, StartMove, DbFails, ScanDomain, PassPrecheck,
     NotWritten, Tidy, CreateMeta, MetaTaken, Relabel, CreateEvent, Sweep, Crash, vars, store
<1>2. \A c \in Calls : Holds(c)' => Holds(c) /\ arg'[c] = arg[c]
  <2> USE DEF Holds, Asked, TypeOK, Answered, GoTo, Answer
  <2>1. CASE \E c \in Calls : Start(c)
    BY <2>1 DEF Start, StartWrite, StartDelete, StartMove
  <2>2. CASE \E c \in Calls : DbFails(c)
    BY <2>2 DEF DbFails, Undo, task, Requests, CallOps, Phases, WriteSteps, MoveSteps
  <2>3. CASE \E c \in Calls, d \in Domains : ScanDomain(c, d)
    BY <2>3 DEF ScanDomain
  <2>4. CASE \E c \in Calls : PassPrecheck(c) \/ NotWritten(c) \/ Tidy(c) \/ CreateMeta(c) \/ MetaTaken(c)
    BY <2>4 DEF PassPrecheck, NotWritten, Tidy, CreateMeta, MetaTaken, task
  <2>5. CASE \E c \in Calls : Relabel(c) \/ Sweep(c)
    BY <2>5 DEF Relabel, Sweep, task, Phases, MoveSteps
  <2>6. ASSUME NEW c \in Calls, CreateEvent(c)
        PROVE  \A b \in Calls : Holds(b)' => Holds(b) /\ arg'[b] = arg[b]
    <3>1. UNCHANGED arg /\ pc[c] = "event" /\ arg[c] \in Requests
      BY <2>6 DEF CreateEvent, task, InFlight, SharedSteps
    <3>2. \/ pc' = [pc EXCEPT ![c] = "done"] /\ reply' = [reply EXCEPT ![c] = "ok"]
          \/ \E step \in {"sweep", "relabel"} : pc' = [pc EXCEPT ![c] = step] /\ UNCHANGED reply
      BY <2>6, <3>1 DEF CreateEvent, AfterEvent, Requests, CallOps
    <3> QED BY <3>1, <3>2
  <2>7. CASE Crash
    BY <2>7 DEF Crash, task
  <2>8. CASE UNCHANGED vars
    BY <2>8 DEF vars
  <2> QED BY <2>1, <2>2, <2>3, <2>4, <2>5, <2>6, <2>7, <2>8
<1> QED BY <1>1, <1>2, KeepsCopies

\* Only the call that holds a copy alone, or one that disturbs it, removes it.
LEMMA TakingCopies ==
  ASSUME TypeOK, Phases, Answered, CopiesHeld, [Next]_vars, NEW c \in Calls,
         Rollback(c) \/ Archive(c) \/ Restore(c) \/ Move(c) \/ MoveBack(c) \/ Unlink(c)
  PROVE  CopiesHeld'
<1>r. arg[c] \in Requests /\ Src(c) \in Domains /\ Dst(c) \in Domains /\ Id(c) \in Ids
  BY DEF Rollback, Archive, Restore, Move, MoveBack, Unlink, TypeOK, InFlight, WriteSteps,
     DeleteSteps, MoveSteps, SharedSteps, Requests, Src, Dst, Id
<1>a. UNCHANGED arg
  BY DEF Rollback, Archive, Restore, Move, MoveBack, Unlink, task
<1>h. \A b \in Calls : Holds(b) => Id(b) \in Ids /\ Src(b) \in Domains
  BY NoCallAssumption DEF Holds, Asked, TypeOK, Requests, Id, Src
<1>1. CASE Rollback(c)
  <2>1. /\ pc' = [pc EXCEPT ![c] = "done"]
        /\ \E r \in {"collision", "error"} : reply' = [reply EXCEPT ![c] = r]
    BY <1>1 DEF Rollback, Answer
  <2>2. \A b \in Calls : Holds(b)' => Holds(b) /\ b # c
    BY <1>a, <2>1 DEF Holds, Asked, TypeOK
  <2>3. Holds(c)
    BY <1>1, <1>r, NoCallAssumption DEF Rollback, Holds, Asked, Phases, WriteSteps
  <2>4. \A d \in Domains, i \in Ids : i \in live[d] /\ ~(d = Src(c) /\ i = Id(c)) => i \in live'[d]
    BY <1>1, <1>r DEF Rollback, MlArchive, store, TypeOK
  <2>5. \A b \in Calls : Holds(b)' /\ ~Disturbed(b)' => ~(Src(b) = Src(c) /\ Id(b) = Id(c))
    <3> SUFFICES ASSUME NEW b \in Calls, Holds(b)', ~Disturbed(b)', Src(b) = Src(c), Id(b) = Id(c)
                 PROVE  FALSE
      OBVIOUS
    <3>1. ~Disturbed(b)
      BY <1>a, DisturbedStays
    <3>2. c = b
      BY <2>2, <2>3, <3>1 DEF CopiesHeld
    <3> QED BY <2>2, <3>2
  <2> QED BY <1>a, <1>h, <2>2, <2>4, <2>5, KeepsCopies
<1>2. CASE ~Rollback(c)
  <2>1. Asked(c, "delete") \/ Asked(c, "move")
    BY <1>2, <1>r, NoCallAssumption
       DEF Archive, Restore, Move, MoveBack, Unlink, Phases, DeleteSteps, MoveSteps, Asked
  <2>2. \A b \in Calls : (Id(b) = Id(c) \/ Src(b) = Src(c)) => Disturbed(b)'
    BY <1>a, <2>1 DEF Disturbed, Asked, Id, Src
  <2>3. \A d \in Domains, i \in Ids : i \in live[d] /\ d # Src(c) /\ i # Id(c) => i \in live'[d]
    <3>1. CASE Archive(c) \/ Unlink(c)
      BY <1>r, <3>1 DEF Archive, Unlink, MlArchive, store, TypeOK
    <3>2. CASE Move(c) \/ MoveBack(c)
      BY <1>r, <3>2 DEF Move, MoveBack, MlMove, store, TypeOK
    <3>3. CASE Restore(c)
      <4>1. CASE MlRestore(Id(c))
        BY <1>r, <4>1 DEF MlRestore, TypeOK
      <4>2. CASE UNCHANGED live
        BY <4>2
      <4> QED BY <3>3, <4>1, <4>2 DEF Restore, store
    <3> QED BY <1>2, <3>1, <3>2, <3>3
  <2>4. \A b \in Calls : Holds(b)' => Holds(b)
    <3>1. arg[c].op # "write"
      BY <2>1 DEF Asked
    <3>2. \A b \in Calls \ {c} : pc'[b] = pc[b] /\ reply'[b] = reply[b]
      BY <1>2 DEF Archive, Restore, Move, MoveBack, Unlink, GoTo, Answer, TypeOK
    <3> QED BY <1>a, <3>1, <3>2 DEF Holds, Asked
  <2> QED BY <1>a, <1>h, <2>2, <2>3, <2>4, KeepsCopies
<1> QED BY <1>1, <1>2

LEMMA RecordsCopy ==
  ASSUME TypeOK, Phases, Answered, CopiesHeld, [Next]_vars, NEW c \in Calls, Record(c)
  PROVE  CopiesHeld'
<1>1. /\ pc[c] = "record" /\ pc' = [pc EXCEPT ![c] = "meta"] /\ UNCHANGED <<arg, reply, admin>>
      /\ MlRecord(Src(c), Id(c))
  BY DEF Record, GoTo, task
<1>2. arg[c] \in Requests /\ Src(c) \in Domains /\ Id(c) \in Ids
  BY <1>1 DEF TypeOK, InFlight, WriteSteps, Requests, Src, Id
<1>3. /\ Id(c) \notin live[Src(c)] /\ Id(c) \in live'[Src(c)]
      /\ \A d \in Domains : live[d] \subseteq live'[d]
  BY <1>1, <1>2 DEF MlRecord, TypeOK
<1>4. \A b \in Calls : /\ Id(b)' = Id(b) /\ Src(b)' = Src(b)
                       /\ (Disturbed(b)' <=> Disturbed(b))
  BY <1>1 DEF Id, Src, Disturbed, Asked
<1>5. \A b \in Calls \ {c} : Holds(b)' <=> Holds(b)
  BY <1>1 DEF Holds, Asked, TypeOK
<1>6. \A b \in Calls : Holds(b) => Src(b) \in Domains
  BY NoCallAssumption DEF Holds, Asked, TypeOK, Requests, Src
<1>7. \A b \in Calls : Src(b) = Src(c) /\ Id(b) = Id(c) => (Disturbed(b) <=> Disturbed(c))
  BY DEF Disturbed
<1>8. \A b \in Calls : Holds(b)' /\ ~Disturbed(b)' => Id(b) \in live'[Src(b)]
  BY <1>3, <1>4, <1>5, <1>6 DEF CopiesHeld
<1>9. \A b \in Calls \ {c} : Holds(b)' /\ ~Disturbed(c)' => ~(Src(b) = Src(c) /\ Id(b) = Id(c))
  BY <1>3, <1>4, <1>5, <1>7 DEF CopiesHeld
<1>10. \A a, b \in Calls : /\ Holds(a)' /\ Holds(b)' /\ ~Disturbed(b)'
                           /\ Id(a) = Id(b) /\ Src(a) = Src(b)
                           => a = b
  BY <1>4, <1>5, <1>7, <1>9 DEF CopiesHeld
<1> QED BY <1>4, <1>8, <1>10 DEF CopiesHeld

LEMMA FaultyCopies ==
  ASSUME TypeOK, Phases, Answered, CopiesHeld, [Next]_vars, NEW c \in Calls, MlFails(c)
  PROVE  CopiesHeld'
<1>1. /\ pc[c] \in {"record", "archive", "collide", "rollback", "move", "moveBack", "restore"}
      /\ reply' = [reply EXCEPT ![c] = "error"] /\ UNCHANGED arg
      /\ \E step \in {"tidy", "done"} : pc' = [pc EXCEPT ![c] = step]
  BY DEF MlFails, task
<1>r. arg[c] \in Requests /\ Src(c) \in Domains /\ Dst(c) \in Domains /\ Id(c) \in Ids
  BY <1>1 DEF TypeOK, InFlight, WriteSteps, DeleteSteps, MoveSteps, Requests, Src, Dst, Id
<1>h. \A b \in Calls : Holds(b) => Id(b) \in Ids /\ Src(b) \in Domains
  BY NoCallAssumption DEF Holds, Asked, TypeOK, Requests, Id, Src
<1>2. \A b \in Calls : Holds(b)' => Holds(b) /\ b # c
  BY <1>1 DEF Holds, Asked, TypeOK
<1>3. CASE \A d \in Domains : live[d] \subseteq live'[d]
  BY <1>1, <1>2, <1>3, <1>h, KeepsCopies
<1>4. CASE pc[c] \in {"collide", "rollback"}
  <2>1. Holds(c)
    BY <1>4, <1>r, NoCallAssumption DEF Holds, Asked, Phases, WriteSteps
  <2>2. \A d \in Domains, i \in Ids : i \in live[d] /\ ~(d = Src(c) /\ i = Id(c)) => i \in live'[d]
    BY <1>4, <1>r DEF MlFails, MlEffect, MlArchive, store, TypeOK
  <2>3. \A b \in Calls : Holds(b)' /\ ~Disturbed(b)' => ~(Src(b) = Src(c) /\ Id(b) = Id(c))
    <3> SUFFICES ASSUME NEW b \in Calls, Holds(b)', ~Disturbed(b)', Src(b) = Src(c), Id(b) = Id(c)
                 PROVE  FALSE
      OBVIOUS
    <3>1. ~Disturbed(b)
      BY <1>1, DisturbedStays
    <3>2. c = b
      BY <1>2, <2>1, <3>1 DEF CopiesHeld
    <3> QED BY <1>2, <3>2
  <2> QED BY <1>1, <1>2, <1>h, <2>2, <2>3, KeepsCopies
<1>5. CASE pc[c] \in {"archive", "move", "moveBack"}
  <2>1. Asked(c, "delete") \/ Asked(c, "move")
    BY <1>5, <1>r, NoCallAssumption DEF Phases, DeleteSteps, MoveSteps, Asked
  <2>2. \A b \in Calls : (Id(b) = Id(c) \/ Src(b) = Src(c)) => Disturbed(b)'
    BY <1>1, <2>1 DEF Disturbed, Asked, Id, Src
  <2>3. \A d \in Domains, i \in Ids : i \in live[d] /\ d # Src(c) /\ i # Id(c) => i \in live'[d]
    <3>1. CASE MlArchive(Src(c), Id(c)) \/ UNCHANGED store
      BY <1>r, <3>1 DEF MlArchive, store, TypeOK
    <3>2. CASE MlMove(Src(c), Dst(c), Id(c)) \/ MlMove(Dst(c), Src(c), Id(c))
      BY <1>r, <3>2 DEF MlMove, TypeOK
    <3> QED BY <1>5, <3>1, <3>2 DEF MlFails, MlEffect
  <2> QED BY <1>1, <1>2, <1>h, <2>2, <2>3, KeepsCopies
<1>6. CASE pc[c] \in {"record", "restore"}
  <2>1. \A d \in Domains : live[d] \subseteq live'[d]
    <3>1. CASE MlRecord(Src(c), Id(c))
      BY <1>r, <3>1 DEF MlRecord, TypeOK
    <3>2. CASE MlRestore(Id(c))
      BY <1>r, <3>2 DEF MlRestore, TypeOK
    <3>3. CASE UNCHANGED live
      BY <3>3
    <3> QED BY <1>6, <3>1, <3>2, <3>3 DEF MlFails, MlEffect, store
  <2> QED BY <1>3, <2>1
<1> QED BY <1>1, <1>4, <1>5, <1>6

LEMMA CopiesStep ==
  ASSUME TypeOK, Phases, Answered, CopiesHeld, [Next]_vars
  PROVE  CopiesHeld'
<1>1. ASSUME (\E d \in Domains, i \in Ids : AdminDelete(d, i)) \/ (\E i \in Ids : AdminRestore(i))
      PROVE  CopiesHeld'
  <2>1. admin' > 0
    BY <1>1, CountsKeep
  <2> QED BY <2>1 DEF CopiesHeld, Disturbed
<1> QED BY <1>1, QuietCopies, TakingCopies, RecordsCopy, FaultyCopies DEF Next, Step, Rest

\* No rollback, no tidy-up and no fault of one write_* call takes away the record of
\* another one that was told "Recorded": that takes a delete, a move or an admin.
THEOREM AcknowledgedIsKept == Spec => []AcknowledgedWriteSurvives
<1>1. Init => CopiesHeld
  BY DEF Init, CopiesHeld, Holds, Asked
<1>2. CopiesHeld => AcknowledgedWriteSurvives
  BY DEF CopiesHeld, Holds, AcknowledgedWriteSurvives
<1> QED BY <1>1, <1>2, CopiesStep, AlwaysAnswered, PTL DEF Spec

-----------------------------------------------------------------------------
(* The empty file of a domain is somebody's to remove *)

\* A delete or a move that has yet to look whether it emptied domain d.
Sweeper(c, d) ==
    /\ pc[c] \in {"event", "relabel", "sweep", "unlink"}
    /\ arg[c].op # "write" /\ Src(c) = d
Covered(d) == live[d] # {} \/ \E c \in Calls : Sweeper(c, d)

Smooth == NothingFailed /\ admin = 0 /\ ~WriteRolledBack
SweepInv == Smooth =>
    /\ \A c \in Calls : pc[c] \notin {"restore", "moveBack"}
    /\ \A d \in files : Covered(d)

\* What has gone wrong stays so.
LEMMA SmoothBefore ==
  ASSUME TypeOK, Phases, Answered, [Next]_vars, Smooth'
  PROVE  /\ Smooth
         /\ ~\E c \in Calls : DbFails(c) \/ MlFails(c) \/ Rollback(c)
         /\ ~Crash /\ ~(\E i \in Ids : AdminRestore(i))
         /\ ~\E d \in Domains, i \in Ids : AdminDelete(d, i)
<1>t. TypeOK'
  BY TypeStep
<1>0. /\ faults \in [FaultKinds -> Nat] /\ faults' \in [FaultKinds -> Nat]
      /\ admin \in Nat /\ admin' = 0
      /\ {"db", "ml", "crash"} \subseteq FaultKinds
  BY <1>t, BoundsAssumption DEF TypeOK, FaultKinds, Smooth
<1>1. \A k \in FaultKinds : faults'[k] = 0
  BY DEF Smooth, NothingFailed
<1>2. NothingFailed /\ admin = 0
  BY <1>0, <1>1, CountsKeep DEF NothingFailed
<1>3. /\ ~\E c \in Calls : DbFails(c) \/ MlFails(c)
      /\ ~Crash /\ ~(\E i \in Ids : AdminRestore(i))
      /\ ~\E d \in Domains, i \in Ids : AdminDelete(d, i)
  BY <1>0, <1>1, <1>2, CountsKeep DEF NothingFailed
<1>4. ASSUME NEW c \in Calls, Asked(c, "write"), reply[c] \in {"collision", "error"} PROVE FALSE
  <2>1. pc[c] \in {"done", "tidy"} /\ arg'[c] = arg[c]
    BY <1>4, CallsKeep DEF Answered
  <2>2. reply'[c] = reply[c]
    <3>1. CASE pc[c] = "done"
      BY <3>1, CallsKeep
    <3>2. CASE pc[c] = "tidy"
      <4>1. CASE UNCHANGED vars
        BY <4>1 DEF vars
      <4>2. CASE \E b \in Calls : Start(b)
        BY <3>2, <4>2 DEF Start, StartWrite, StartDelete, StartMove, GoTo, Answer, TypeOK
      <4>3. CASE \E b \in Calls : Step(b)
        <5> PICK b \in Calls : Step(b)
          BY <4>3
        <5>1. CASE \E d \in Domains : ScanDomain(b, d)
          BY <3>2, <5>1 DEF ScanDomain, Answer, TypeOK
        <5>2. CASE PassPrecheck(b) \/ Record(b) \/ NotWritten(b) \/ Tidy(b)
          BY <3>2, <5>2 DEF PassPrecheck, Record, NotWritten, Tidy, GoTo, Answer, TypeOK
        <5>3. CASE CreateMeta(b) \/ MetaTaken(b) \/ Rollback(b) \/ CreateEvent(b) \/ Sweep(b) \/ Unlink(b)
          BY <3>2, <5>3 DEF CreateMeta, MetaTaken, Rollback, CreateEvent, Sweep, Unlink, GoTo, Answer, TypeOK
        <5>4. CASE Archive(b) \/ Restore(b) \/ Move(b) \/ Relabel(b) \/ MoveBack(b)
          BY <3>2, <5>4 DEF Archive, Restore, Move, Relabel, MoveBack, GoTo, Answer, TypeOK
        <5> QED BY <5>1, <5>2, <5>3, <5>4 DEF Step
      <4> QED BY <1>3, <4>1, <4>2, <4>3 DEF Next, Rest
    <3> QED BY <2>1, <3>1, <3>2
  <2> QED BY <1>4, <2>1, <2>2 DEF Smooth, WriteRolledBack, Asked
<1>5. ASSUME NEW c \in Calls, Rollback(c) PROVE FALSE
  <2>1. pc[c] \in {"collide", "rollback"} /\ UNCHANGED arg
    BY <1>5 DEF Rollback, task
  <2>2. reply'[c] \in {"collision", "error"}
    BY <1>5 DEF Rollback, Answer, TypeOK
  <2>3. Asked(c, "write")'
    BY <2>1, NoCallAssumption DEF Phases, WriteSteps, InFlight, TypeOK, Asked
  <2> QED BY <2>2, <2>3 DEF Smooth, WriteRolledBack
<1> QED BY <1>2, <1>3, <1>4, <1>5 DEF Smooth, WriteRolledBack

LEMMA SweepStep ==
  ASSUME TypeOK, Phases, Answered, SweepInv, [Next]_vars
  PROVE  SweepInv'
<1> SUFFICES ASSUME Smooth'
             PROVE  /\ \A c \in Calls : pc'[c] \notin {"restore", "moveBack"}
                    /\ \A d \in files' : Covered(d)'
  BY DEF SweepInv
<1>0. /\ \A c \in Calls : pc[c] \notin {"restore", "moveBack"}
      /\ \A d \in files : Covered(d)
  BY SmoothBefore DEF SweepInv
\* Steps that take nothing from a file and let no sweeper go.
<1>1. ASSUME files' \subseteq files, \A d \in Domains : live[d] \subseteq live'[d],
             \A c \in Calls : Sweeper(c, Src(c)) => Sweeper(c, Src(c))' /\ Src(c)' = Src(c)
      PROVE  \A d \in files' : Covered(d)'
  <2> SUFFICES ASSUME NEW d \in files' PROVE Covered(d)'
    OBVIOUS
  <2>1. d \in Domains /\ Covered(d)
    BY <1>0, <1>1 DEF TypeOK
  <2>2. CASE live[d] # {}
    BY <1>1, <2>1, <2>2 DEF Covered
  <2>3. CASE \E c \in Calls : Sweeper(c, d)
    <3>1. PICK c \in Calls : Sweeper(c, d)
      BY <2>3
    <3>2. Src(c) = d /\ Src(c)' = d /\ Sweeper(c, Src(c))'
      BY <1>1, <3>1 DEF Sweeper
    <3>3. Sweeper(c, d)'
      BY <3>2 DEF Sweeper
    <3> QED BY <3>3 DEF Covered
  <2> QED BY <2>1, <2>2, <2>3 DEF Covered
<1> USE DEF GoTo, Answer
<1>2. CASE \E c \in Calls : Start(c)
  <2> PICK c \in Calls : Start(c)
    BY <1>2
  <2>1. /\ UNCHANGED <<live, files>> /\ pc[c] = "idle"
        /\ \A b \in Calls \ {c} : pc'[b] = pc[b] /\ arg'[b] = arg[b]
        /\ pc'[c] \notin {"restore", "moveBack"}
    BY DEF Start, StartWrite, StartDelete, StartMove, store, TypeOK
  <2>2. \A b \in Calls : Sweeper(b, Src(b)) => Sweeper(b, Src(b))' /\ Src(b)' = Src(b)
    BY <2>1 DEF Sweeper, Src
  <2> QED BY <1>0, <1>1, <2>1, <2>2
<1>3. ASSUME NEW c \in Calls,
             \/ \E d \in Domains : ScanDomain(c, d)
             \/ PassPrecheck(c) \/ NotWritten(c) \/ Tidy(c) \/ CreateMeta(c) \/ MetaTaken(c)
             \/ Relabel(c)
      PROVE  /\ \A b \in Calls : pc'[b] \notin {"restore", "moveBack"}
             /\ \A d \in files' : Covered(d)'
  <2>1. UNCHANGED <<live, arg>> /\ files' \subseteq files
    BY <1>3 DEF ScanDomain, PassPrecheck, NotWritten, Tidy, CreateMeta, MetaTaken, Relabel,
         store, task
  <2>2. /\ \A b \in Calls \ {c} : pc'[b] = pc[b]
        /\ pc'[c] \notin {"restore", "moveBack"}
    BY <1>0, <1>3 DEF ScanDomain, PassPrecheck, NotWritten, Tidy, CreateMeta, MetaTaken, Relabel,
         TypeOK
  <2>3. (pc[c] = "relabel" /\ pc'[c] = "sweep") \/ pc[c] \notin {"event", "relabel", "sweep", "unlink"}
    BY <1>3 DEF ScanDomain, PassPrecheck, NotWritten, Tidy, CreateMeta, MetaTaken, Relabel,
         TypeOK
  <2>4. \A b \in Calls : Sweeper(b, Src(b)) => Sweeper(b, Src(b))' /\ Src(b)' = Src(b)
    BY <2>1, <2>2, <2>3 DEF Sweeper, Src
  <2> QED BY <1>0, <1>1, <2>1, <2>2, <2>4
<1>4. ASSUME NEW c \in Calls, CreateEvent(c)
      PROVE  /\ \A b \in Calls : pc'[b] \notin {"restore", "moveBack"}
             /\ \A d \in files' : Covered(d)'
  <2>1. UNCHANGED <<live, files, arg>> /\ pc[c] = "event" /\ arg[c] \in Requests
    BY <1>4 DEF CreateEvent, task, store, InFlight, SharedSteps, TypeOK
  <2>2. \/ arg[c].op = "write" /\ pc' = [pc EXCEPT ![c] = "done"]
        \/ \E step \in {"sweep", "relabel"} : pc' = [pc EXCEPT ![c] = step]
    BY <1>4, <2>1 DEF CreateEvent, AfterEvent, Requests, CallOps
  <2>3. \A b \in Calls : Sweeper(b, Src(b)) => Sweeper(b, Src(b))' /\ Src(b)' = Src(b)
    BY <2>1, <2>2 DEF Sweeper, Src, TypeOK
  <2>4. \A b \in Calls : pc'[b] \notin {"restore", "moveBack"}
    BY <1>0, <2>2 DEF TypeOK
  <2> QED BY <1>1, <2>1, <2>3, <2>4
<1>5. ASSUME NEW c \in Calls, Record(c)
      PROVE  /\ \A b \in Calls : pc'[b] \notin {"restore", "moveBack"}
             /\ \A d \in files' : Covered(d)'
  <2>1. /\ UNCHANGED arg /\ pc[c] = "record" /\ pc' = [pc EXCEPT ![c] = "meta"]
        /\ MlRecord(Src(c), Id(c)) /\ arg[c] \in Requests
    BY <1>5 DEF Record, task, InFlight, WriteSteps, TypeOK
  <2>2. /\ \A d \in Domains : live[d] \subseteq live'[d]
        /\ live'[Src(c)] # {} /\ files' = files \cup {Src(c)}
    BY <2>1 DEF MlRecord, TypeOK, Requests, Src, Id
  <2>3. \A b \in Calls, d \in Domains : Sweeper(b, d) => Sweeper(b, d)'
    BY <2>1 DEF Sweeper, Src, TypeOK
  <2>4. \A b \in Calls : pc'[b] \notin {"restore", "moveBack"}
    BY <1>0, <2>1 DEF TypeOK
  <2> QED BY <1>0, <2>2, <2>3, <2>4 DEF Covered, TypeOK
<1>6. ASSUME NEW c \in Calls, Archive(c) \/ Move(c)
      PROVE  /\ \A b \in Calls : pc'[b] \notin {"restore", "moveBack"}
             /\ \A d \in files' : Covered(d)'
  <2>1. /\ UNCHANGED arg /\ pc[c] \in {"archive", "move"} /\ arg[c] \in Requests
        /\ arg[c].op # "write"
    BY <1>6 DEF Archive, Move, task, InFlight, DeleteSteps, MoveSteps, TypeOK, Phases
  <2>2. Src(c) \in Domains /\ Dst(c) \in Domains /\ Id(c) \in Ids
    BY <2>1 DEF Requests, Src, Dst, Id
  <2>3. \A b \in Calls : pc'[b] \notin {"restore", "moveBack"}
    BY <1>0, <1>6 DEF Archive, Move, TypeOK
  <2>4. \A b \in Calls, d \in Domains : Sweeper(b, d) => Sweeper(b, d)'
    BY <1>6, <2>1 DEF Archive, Move, Sweeper, Src, TypeOK
  <2>5. CASE UNCHANGED store
    <3>1. UNCHANGED <<live, files>> /\ files \subseteq Domains
      BY <2>5 DEF store, TypeOK
    <3>2. \A d \in files' : Covered(d)'
      BY <1>0, <2>4, <3>1 DEF Covered
    <3> QED BY <2>3, <3>2
  <2>6. CASE MlArchive(Src(c), Id(c)) \/ MlMove(Src(c), Dst(c), Id(c))
    <3>1. pc'[c] = "event"
      BY <1>6, <2>2, <2>6 DEF Archive, Move, MlArchive, MlMove, TypeOK
    <3>2. \A d \in Domains : d = Src(c) => Covered(d)'
      BY <2>1, <3>1 DEF Covered, Sweeper, Src
    <3>3. \A d \in Domains \ {Src(c)} : live[d] \subseteq live'[d]
      BY <2>2, <2>6 DEF MlArchive, MlMove, TypeOK
    <3>4. \A d \in files' : d \in files \/ (d = Dst(c) /\ live'[d] # {})
      <4>1. CASE MlArchive(Src(c), Id(c))
        BY <4>1 DEF MlArchive
      <4>2. CASE MlMove(Src(c), Dst(c), Id(c))
        <5>1. Id(c) \in live'[Dst(c)] /\ files' = files \cup {Dst(c)}
          BY <2>2, <4>2 DEF MlMove, TypeOK
        <5> QED BY <5>1
      <4> QED BY <2>6, <4>1, <4>2
    <3>5. \A d \in files' : Covered(d)'
      <4>0. files' \subseteq Domains
        BY TypeStep DEF TypeOK
      <4> SUFFICES ASSUME NEW d \in files', d # Src(c) PROVE Covered(d)'
        BY <3>2, <4>0
      <4>1. CASE live'[d] # {}
        BY <4>1 DEF Covered
      <4>2. CASE live'[d] = {}
        <5>1. d \in files /\ d \in Domains
          BY <3>4, <4>2 DEF TypeOK
        <5>2. live[d] = {}
          BY <3>3, <4>2, <5>1
        <5> QED BY <1>0, <2>4, <5>1, <5>2 DEF Covered
      <4> QED BY <4>1, <4>2
    <3> QED BY <2>3, <3>5
  <2> QED BY <1>6, <2>5, <2>6 DEF Archive, Move
<1>7. ASSUME NEW c \in Calls, Sweep(c) \/ Unlink(c)
      PROVE  /\ \A b \in Calls : pc'[b] \notin {"restore", "moveBack"}
             /\ \A d \in files' : Covered(d)'
  <2>1. UNCHANGED arg /\ pc[c] \in {"sweep", "unlink"} /\ arg[c] \in Requests /\ Src(c) \in Domains
    BY <1>7 DEF Sweep, Unlink, task, InFlight, SharedSteps, TypeOK, Requests, Src
  <2>2. /\ \A b \in Calls : pc'[b] \notin {"restore", "moveBack"}
        /\ \A b \in Calls \ {c} : pc'[b] = pc[b]
    BY <1>0, <1>7 DEF Sweep, Unlink, TypeOK
  <2>3. \A b \in Calls \ {c}, d \in Domains : Sweeper(b, d) => Sweeper(b, d)'
    BY <2>1, <2>2 DEF Sweeper, Src
  <2>4. \A d \in Domains : Sweeper(c, d) => d = Src(c)
    BY DEF Sweeper
  <2>5. files' \subseteq files /\ \A d \in Domains \ {Src(c)} : live'[d] = live[d]
    BY <1>7, <2>1 DEF Sweep, Unlink, store, TypeOK
  <2>6. \A d \in files' : d # Src(c) => Covered(d)'
    BY <1>0, <2>3, <2>4, <2>5 DEF Covered, TypeOK
  <2>7. \A d \in files' : d = Src(c) => Covered(d)'
    <3> SUFFICES ASSUME NEW d \in files', d = Src(c) PROVE Covered(d)'
      OBVIOUS
    <3>1. CASE Unlink(c)
      BY <3>1 DEF Unlink
    <3>2. CASE Sweep(c) /\ live[Src(c)] = {}
      <4>1. pc'[c] = "unlink"
        BY <2>1, <2>5, <3>2 DEF Sweep, TypeOK
      <4>2. arg[c].op # "write"
        BY <2>1, <3>2 DEF Sweep, Phases
      <4> QED BY <2>1, <4>1, <4>2 DEF Covered, Sweeper, Src
    <3>3. CASE Sweep(c) /\ live[Src(c)] # {}
      BY <2>1, <3>3 DEF Sweep, store, Covered, Src
    <3> QED BY <1>7, <3>1, <3>2, <3>3
  <2> QED BY <2>2, <2>6, <2>7
<1>8. CASE UNCHANGED vars
  BY <1>0, <1>8 DEF vars, Covered, Sweeper, Src
<1>9. ~\E c \in Calls : Restore(c) \/ MoveBack(c)
  BY <1>0 DEF Restore, MoveBack
<1> QED BY <1>2, <1>3, <1>4, <1>5, <1>6, <1>7, <1>8, <1>9, SmoothBefore DEF Next, Step, Rest

\* Whichever of any number of overlapping deletes and moves takes the last record of a
\* domain, an empty file is left to one of them: none is forgotten while nothing
\* fails and no write rolls back.
THEOREM EmptyFilesAreSwept == Spec => []EmptyFileIsSwept
<1>1. Init => SweepInv
  BY DEF Init, SweepInv, Covered
<1>2. SweepInv => EmptyFileIsSwept
  BY DEF SweepInv, Smooth, EmptyFileIsSwept, Covered, Sweeper
<1> QED BY <1>1, <1>2, SweepStep, AlwaysAnswered, PTL DEF Spec

-----------------------------------------------------------------------------
(* Where a record comes to settle, and where it ceases to *)

LEMMA NotNewHome ==
  ASSUME NEW i \in Ids, NEW d \in Domains,
         i \in live'[d] => i \in live[d],
         \A c \in Calls : Unsettled(c, i, d) /\ i \in live'[d] => Unsettled(c, i, d)'
  PROVE  d \in Homes(i)' => d \in Homes(i)
BY DEF Homes

\* A record settles in a domain when its row is inserted, and otherwise only by being
\* moved or restored there (or when `ml` or the process fails in between).
LEMMA HomesGrow ==
  ASSUME TypeOK, Phases, [Next]_vars, ~Crash, ~\E c \in Calls : MlFails(c),
         NEW i \in Ids, NEW d \in Domains, d \in Homes(i)', d \notin Homes(i)
  PROVE  \/ \E c \in Calls : CreateMeta(c) /\ Id(c) = i /\ Src(c) = d
         \/ \E c \in Calls : Id(c) = i /\ (Move(c) \/ MoveBack(c) \/ Restore(c))
         \/ AdminRestore(i)
<1>1. CASE \E c \in Calls : Start(c)
  <2>1. live' = live
    BY <1>1 DEF Start, StartWrite, StartDelete, StartMove, store
  <2>2. \A c \in Calls : Unsettled(c, i, d) => Unsettled(c, i, d)'
    BY <1>1 DEF Start, StartWrite, StartDelete, StartMove, Unsettled, Id, Src, GoTo, Answer, TypeOK
  <2> QED BY <2>1, <2>2, NotNewHome
<1>2. ASSUME NEW c \in Calls, Step(c), ~(Id(c) = i /\ (Move(c) \/ MoveBack(c) \/ Restore(c)))
      PROVE  CreateMeta(c) /\ Id(c) = i /\ Src(c) = d
  <2>1. CASE \/ \E e \in Domains : ScanDomain(c, e)
             \/ PassPrecheck(c) \/ NotWritten(c) \/ Tidy(c)
             \/ MetaTaken(c) \/ CreateEvent(c) \/ Sweep(c) \/ Relabel(c)
    <3>1. live' = live /\ arg' = arg
      BY <2>1 DEF ScanDomain, PassPrecheck, NotWritten, Tidy, MetaTaken, CreateEvent, Sweep,
         Relabel, store, task
    <3>2. \A b \in Calls : Unsettled(b, i, d) => Unsettled(b, i, d)'
      BY <2>1, <3>1 DEF ScanDomain, PassPrecheck, NotWritten, Tidy, MetaTaken, CreateEvent, Sweep,
         Relabel, Unsettled, Id, Src, GoTo, Answer, TypeOK
    <3> QED BY <3>1, <3>2, NotNewHome
  <2>2. CASE Record(c)
    <3>1. arg' = arg /\ pc[c] = "record" /\ pc' = [pc EXCEPT ![c] = "meta"]
      BY <2>2 DEF Record, task, GoTo
    <3>3. \A b \in Calls : Unsettled(b, i, d) => Unsettled(b, i, d)'
      BY <3>1 DEF Unsettled, Id, Src, TypeOK
    <3>4. i \in live'[d] => i \in live[d] \/ (i = Id(c) /\ d = Src(c))
      BY <2>2 DEF Record, MlRecord, TypeOK
    <3>5. CASE i = Id(c) /\ d = Src(c)
      <4>1. Unsettled(c, i, d)'
        BY <3>1, <3>5 DEF Unsettled, Id, Src, TypeOK
      <4> QED BY <4>1 DEF Homes
    <3> QED BY <3>3, <3>4, <3>5, NotNewHome
  <2>3. CASE CreateMeta(c)
    <3>1. live' = live /\ arg' = arg /\ pc' = [pc EXCEPT ![c] = "event"]
      BY <2>3 DEF CreateMeta, store, task, GoTo
    <3>2. CASE ~(Id(c) = i /\ Src(c) = d)
      <4>1. \A b \in Calls : Unsettled(b, i, d) => Unsettled(b, i, d)'
        BY <3>1, <3>2 DEF Unsettled, Id, Src, TypeOK
      <4> QED BY <3>1, <4>1, NotNewHome
    <3> QED BY <2>3, <3>2
  <2>4. CASE Rollback(c) \/ Archive(c) \/ Unlink(c)
    <3>1. arg' = arg /\ arg[c] \in Requests
      BY <2>4 DEF Rollback, Archive, Unlink, task, TypeOK, InFlight, WriteSteps, DeleteSteps, SharedSteps
    <3>2. /\ Id(c) \in Ids /\ Src(c) \in Domains
          /\ live'[d] \subseteq live[d]
      BY <2>4, <3>1 DEF Rollback, Archive, Unlink, MlArchive, store, TypeOK, Requests, Src, Id
    <3>3. CASE Rollback(c)
      <4>1. Id(c) \notin live'[Src(c)] /\ pc' = [pc EXCEPT ![c] = "done"]
        BY <3>2, <3>3 DEF Rollback, MlArchive, Answer, store, TypeOK
      <4>2. \A b \in Calls : Unsettled(b, i, d) /\ i \in live'[d] => Unsettled(b, i, d)'
        BY <3>1, <4>1 DEF Unsettled, Id, Src, TypeOK
      <4> QED BY <3>2, <4>2, NotNewHome
    <3>4. CASE Archive(c) \/ Unlink(c)
      <4>1. \A b \in Calls : Unsettled(b, i, d) => Unsettled(b, i, d)'
        BY <3>1, <3>4 DEF Archive, Unlink, Unsettled, GoTo, Answer, Id, Src, TypeOK
      <4> QED BY <3>2, <4>1, NotNewHome
    <3> QED BY <2>4, <3>3, <3>4
  <2>5. CASE Move(c) \/ MoveBack(c) \/ Restore(c)
    <3>0. Id(c) # i
      BY <1>2, <2>5
    <3>1. i \in live'[d] => i \in live[d]
      <4>1. CASE Restore(c)
        <5>1. CASE UNCHANGED store
          BY <5>1 DEF store
        <5>2. CASE MlRestore(Id(c))
          <6> PICK e \in Domains : live' = [live EXCEPT ![e] = @ \cup {Id(c)}]
            BY <5>2 DEF MlRestore
          <6> QED BY <3>0 DEF TypeOK
        <5> QED BY <4>1, <5>1, <5>2 DEF Restore
      <4>2. CASE Move(c)
        BY <3>0, <4>2 DEF Move, MlMove, store, TypeOK
      <4>3. CASE MoveBack(c)
        BY <3>0, <4>3 DEF MoveBack, MlMove, store, TypeOK
      <4> QED BY <2>5, <4>1, <4>2, <4>3
    <3>2. \A b \in Calls : Unsettled(b, i, d) => Unsettled(b, i, d)'
      BY <2>5 DEF Move, MoveBack, Restore, GoTo, Answer, task, Unsettled, Id, Src, TypeOK
    <3> QED BY <3>1, <3>2, NotNewHome
  <2> QED BY <1>2, <2>1, <2>2, <2>3, <2>4, <2>5 DEF Step
<1>3. CASE \E c \in Calls : DbFails(c)
  <2> PICK c \in Calls : DbFails(c)
    BY <1>3
  <2>1. live' = live /\ arg' = arg
    BY DEF DbFails, store, task
  <2>2. pc[c] = "meta" => pc' = [pc EXCEPT ![c] = "rollback"]
    BY DEF DbFails, Phases, WriteSteps, Undo, GoTo
  <2>3. \A b \in Calls : Unsettled(b, i, d) => Unsettled(b, i, d)'
    BY <2>1, <2>2 DEF DbFails, GoTo, Unsettled, Id, Src, TypeOK
  <2> QED BY <2>1, <2>3, NotNewHome
<1>4. CASE \E e \in Domains, j \in Ids : AdminDelete(e, j)
  <2>1. live'[d] \subseteq live[d] /\ UNCHANGED <<arg, pc>>
    BY <1>4 DEF AdminDelete, MlArchive, task, TypeOK
  <2> QED BY <2>1, NotNewHome DEF Unsettled, Id, Src
<1>5. CASE \E j \in Ids : AdminRestore(j) /\ j # i
  <2>1. (i \in live'[d] => i \in live[d]) /\ UNCHANGED <<arg, pc>>
    BY <1>5 DEF AdminRestore, MlRestore, task, TypeOK
  <2> QED BY <2>1, NotNewHome DEF Unsettled, Id, Src
<1>6. CASE UNCHANGED vars
  BY <1>6, NotNewHome DEF vars, Unsettled, Id, Src
<1> QED BY <1>1, <1>2, <1>3, <1>4, <1>5, <1>6 DEF Next, Rest

\* A step takes records out of one domain only, or unsettles them there: the source of
\* the call that takes it, or the domain an admin deletes from.
LEMMA HomesLost ==
  ASSUME TypeOK, Phases, [Next]_vars, ~Crash, ~\E c \in Calls : MlFails(c),
         ~\E c \in Calls : MoveBack(c),
         NEW i \in Ids, NEW d \in Domains, NEW j \in Ids, NEW e \in Domains,
         d \in Homes(i), d \notin Homes(i)', e \in Homes(j), e \notin Homes(j)'
  PROVE  d = e
<1> DEFINE Loses(k, f) == f \in Homes(k) /\ f \notin Homes(k)'
<1>0. ASSUME NEW k \in Ids, NEW f \in Domains, live[f] \subseteq live'[f],
             \A c \in Calls : Unsettled(c, k, f)' => Unsettled(c, k, f)
      PROVE  ~Loses(k, f)
  BY <1>0 DEF Homes
<1>1. ASSUME \E c \in Calls : Start(c), NEW k \in Ids, NEW f \in Domains PROVE ~Loses(k, f)
  <2>1. live' = live
    BY <1>1 DEF Start, StartWrite, StartDelete, StartMove, store
  <2>2. \A c \in Calls : Unsettled(c, k, f)' => Unsettled(c, k, f)
    BY <1>1 DEF Start, StartWrite, StartDelete, StartMove, Unsettled, Id, Src, GoTo, Answer, TypeOK
  <2> QED BY <1>0, <2>1, <2>2
<1>2. ASSUME NEW c \in Calls, Step(c) \/ DbFails(c), NEW k \in Ids, NEW f \in Domains, Src(c) # f
      PROVE  ~Loses(k, f)
  <2>1. arg' = arg
    BY <1>2 DEF Step, DbFails, ScanDomain, PassPrecheck, Record, NotWritten, Tidy, CreateMeta,
       MetaTaken, Rollback, Archive, Restore, Move, Relabel, MoveBack, CreateEvent, Sweep, Unlink,
       task
  <2>2. \A b \in Calls \ {c} : pc'[b] = pc[b]
    BY <1>2 DEF Step, DbFails, ScanDomain, PassPrecheck, Record, NotWritten, Tidy, CreateMeta,
       MetaTaken, Rollback, Archive, Restore, Move, Relabel, MoveBack, CreateEvent, Sweep, Unlink,
       GoTo, Answer, TypeOK
  <2>3. \A b \in Calls : Unsettled(b, k, f)' => Unsettled(b, k, f)
    BY <1>2, <2>1, <2>2 DEF Unsettled, Src, Id
  <2>4. live[f] \subseteq live'[f]
    <3>1. CASE Restore(c)
      <4>1. CASE UNCHANGED store
        BY <4>1 DEF store
      <4>2. CASE MlRestore(Id(c))
        BY <4>2 DEF MlRestore, TypeOK
      <4> QED BY <3>1, <4>1, <4>2 DEF Restore
    <3>2. CASE Record(c) \/ Rollback(c) \/ Archive(c) \/ Unlink(c)
      BY <1>2, <3>2 DEF Record, MlRecord, Rollback, Archive, MlArchive, Unlink, store, TypeOK
    <3>3. CASE Move(c)
      BY <1>2, <3>3 DEF Move, MlMove, store, TypeOK
    <3>4. CASE ~(Restore(c) \/ Record(c) \/ Rollback(c) \/ Archive(c) \/ Unlink(c) \/ Move(c))
      <4>1. live' = live
        BY <1>2, <3>4 DEF Step, DbFails, ScanDomain, PassPrecheck, NotWritten, Tidy, CreateMeta,
           MetaTaken, Relabel, CreateEvent, Sweep, store
      <4> QED BY <4>1
    <3> QED BY <3>1, <3>2, <3>3, <3>4
  <2> QED BY <1>0, <2>3, <2>4
<1>3. ASSUME NEW g \in Domains, NEW l \in Ids, AdminDelete(g, l), NEW k \in Ids, NEW f \in Domains,
             f # g
      PROVE  ~Loses(k, f)
  <2>1. live'[f] = live[f] /\ UNCHANGED <<arg, pc>>
    BY <1>3 DEF AdminDelete, MlArchive, task, TypeOK
  <2> QED BY <1>0, <2>1 DEF Unsettled, Id, Src
<1>4. ASSUME \E l \in Ids : AdminRestore(l), NEW k \in Ids, NEW f \in Domains PROVE ~Loses(k, f)
  <2>1. live[f] \subseteq live'[f] /\ UNCHANGED <<arg, pc>>
    BY <1>4 DEF AdminRestore, MlRestore, task, TypeOK
  <2> QED BY <1>0, <2>1 DEF Unsettled, Id, Src
<1>5. ASSUME UNCHANGED vars, NEW k \in Ids, NEW f \in Domains PROVE ~Loses(k, f)
  BY <1>0, <1>5 DEF vars, Unsettled, Id, Src
<1>6. Loses(i, d) /\ Loses(j, e)
  OBVIOUS
<1> HIDE DEF Loses
<1>7. CASE \E c \in Calls : Step(c) \/ DbFails(c)
  BY <1>2, <1>6, <1>7
<1>8. CASE \E g \in Domains, l \in Ids : AdminDelete(g, l)
  BY <1>3, <1>6, <1>8
<1> QED BY <1>1, <1>4, <1>5, <1>6, <1>7, <1>8 DEF Next, Rest

-----------------------------------------------------------------------------
(* Only a move or a restore splits a record *)

LEMMA NothingFailedBefore ==
  ASSUME TypeOK, [Next]_vars, NothingFailed'
  PROVE  NothingFailed /\ ~Crash /\ ~\E c \in Calls : DbFails(c) \/ MlFails(c)
<1>0. /\ faults \in [FaultKinds -> Nat] /\ faults' \in [FaultKinds -> Nat]
      /\ {"db", "ml", "crash"} \subseteq FaultKinds
  BY TypeStep, BoundsAssumption DEF TypeOK, FaultKinds
<1>1. \A k \in FaultKinds : faults'[k] = 0
  BY DEF NothingFailed
<1>2. NothingFailed
  BY <1>0, <1>1, CountsKeep DEF NothingFailed
<1> QED BY <1>0, <1>1, <1>2, CountsKeep DEF NothingFailed

\* While nothing fails, a record that was moved has its move event, or will have it.
LEMMA MovedStays ==
  ASSUME TypeOK, Phases, [Next]_vars, NothingFailed', NEW i \in Ids, Moved(i)
  PROVE  Moved(i)'
<1>1. ASSUME NEW c \in Movers(i), pc[c] = "event", UNCHANGED pc \/ pc'[c] = pc[c]
      PROVE  Moved(i)'
  BY <1>1, CallsKeep DEF Moved, Movers, Asked, Id
<1>2. events \subseteq events'
  <2>1. CASE \E c \in Calls : CreateEvent(c)
    BY <2>1 DEF CreateEvent
  <2>2. CASE ~\E c \in Calls : CreateEvent(c)
    BY <2>2 DEF Next, Start, StartWrite, StartDelete, StartMove, Step, ScanDomain,
       PassPrecheck, Record, NotWritten, Tidy, CreateMeta, MetaTaken, Rollback, Archive, Restore,
       Move, Relabel, MoveBack, Sweep, Unlink, DbFails, MlFails, Crash, AdminDelete,
       AdminRestore, Rest, vars, db
  <2> QED BY <2>1, <2>2
<1>3. CASE \E e \in events : e.action = "move" /\ e.id = i
  BY <1>2, <1>3 DEF Moved
<1>4. ASSUME NEW c \in Movers(i), pc[c] = "event" PROVE Moved(i)'
  <2>1. CASE CreateEvent(c)
    <3>1. [by |-> c, action |-> "move", id |-> i, domain |-> Dst(c)] \in events'
      BY <1>4, <2>1 DEF CreateEvent, Movers, Asked
    <3> QED BY <3>1 DEF Moved
  <2>2. CASE ~CreateEvent(c)
    <3>0. ~Crash /\ ~\E b \in Calls : DbFails(b) \/ MlFails(b)
      BY NothingFailedBefore
    <3>1. c \in Calls
      BY DEF Movers
    <3>2. CASE \E b \in Calls : Start(b)
      <4>1. pc'[c] = pc[c]
        BY <1>4, <3>1, <3>2 DEF Start, StartWrite, StartDelete, StartMove, GoTo, Answer, TypeOK
      <4> QED BY <1>1, <1>4, <4>1
    <3>3. CASE \E b \in Calls : Step(b)
      <4>1. pc'[c] = pc[c]
        BY <1>4, <2>2, <3>1, <3>3 DEF Step, ScanDomain,
           PassPrecheck, Record, NotWritten, Tidy, CreateMeta, MetaTaken, Rollback, Archive, Restore,
           Move, Relabel, MoveBack, CreateEvent, Sweep, Unlink, GoTo, Answer, TypeOK
      <4> QED BY <1>1, <1>4, <4>1
    <3>4. CASE (\E d \in Domains, j \in Ids : AdminDelete(d, j)) \/ (\E j \in Ids : AdminRestore(j))
               \/ UNCHANGED vars
      <4>1. UNCHANGED pc
        BY <3>4 DEF AdminDelete, AdminRestore, vars
      <4> QED BY <1>1, <1>4, <4>1
    <3> QED BY <3>0, <3>2, <3>3, <3>4 DEF Next, Rest
  <2> QED BY <2>1, <2>2
<1> QED BY <1>3, <1>4 DEF Moved

StoredAt(d, i) == i \in live[d] \/ <<d, i>> \in archive

\* c wrote the copy of i in d and is about to insert its row.
Deciding(c, i, d) == pc[c] = "meta" /\ Id(c) = i /\ Src(c) = d

\* While nothing fails, a record without a row was moved, or its copies belong to
\* writes about to insert the row.
UnregisteredInv == NothingFailed =>
    /\ \A c \in Calls : pc[c] \notin {"restore", "moveBack", "rollback"}
    /\ \A c \in Calls : pc[c] = "collide" => meta[Id(c)] # NoRow
    /\ \A i \in Ids : meta[i] = NoRow /\ ~Moved(i) =>
          \A d \in Domains : StoredAt(d, i) => \E c \in Calls : Deciding(c, i, d)

\* A copy appears, live or archived, where a write recorded it or a move put it.
LEMMA CopiesAppear ==
  ASSUME TypeOK, [Next]_vars, NothingFailed',
         \A c \in Calls : pc[c] # "moveBack",
         NEW i \in Ids, NEW d \in Domains, StoredAt(d, i)', ~StoredAt(d, i)
  PROVE  \E c \in Calls : Id(c) = i /\ ((Record(c) /\ Src(c) = d) \/ (Move(c) /\ pc'[c] = "event"))
<1> USE DEF StoredAt
<1>0. ~Crash /\ ~\E c \in Calls : DbFails(c) \/ MlFails(c)
  BY NothingFailedBefore
<1>1. ~UNCHANGED <<live, archive>>
  OBVIOUS
<1>2. ASSUME NEW j \in Ids, MlRestore(j) PROVE FALSE
  BY <1>2 DEF MlRestore, TypeOK
<1>3. ASSUME NEW j \in Ids, NEW e \in Domains, MlArchive(e, j) PROVE FALSE
  BY <1>3 DEF MlArchive, TypeOK
<1>4. ~\E c \in Calls : Start(c)
  BY <1>1 DEF Start, StartWrite, StartDelete, StartMove, store
<1>5. ~UNCHANGED vars
  BY <1>1 DEF vars
<1>6. ~\E e \in Domains, j \in Ids : AdminDelete(e, j)
  BY <1>3 DEF AdminDelete
<1>7. ~\E j \in Ids : AdminRestore(j)
  BY <1>2 DEF AdminRestore
<1>8. ASSUME NEW c \in Calls, Step(c)
      PROVE  Id(c) = i /\ ((Record(c) /\ Src(c) = d) \/ (Move(c) /\ pc'[c] = "event"))
  <2>1. Record(c) \/ Move(c) \/ Rollback(c) \/ Archive(c) \/ Restore(c) \/ Unlink(c)
    BY <1>1, <1>8 DEF Step, ScanDomain, PassPrecheck, NotWritten, Tidy, CreateMeta, MetaTaken,
       Relabel, MoveBack, CreateEvent, Sweep, store
  <2>2. arg[c] \in Requests
    BY <2>1 DEF Record, Move, Rollback, Archive, Restore, Unlink, TypeOK, InFlight, WriteSteps,
       DeleteSteps, MoveSteps, SharedSteps
  <2>3. Id(c) \in Ids /\ Src(c) \in Domains /\ Dst(c) \in Domains
    BY <2>2 DEF Requests, Id, Src, Dst
  <2>4. CASE Record(c)
    BY <2>3, <2>4 DEF Record, MlRecord, TypeOK
  <2>5. CASE Move(c)
    <3>1. MlMove(Src(c), Dst(c), Id(c)) /\ pc' = [pc EXCEPT ![c] = "event"]
      BY <1>1, <2>5 DEF Move, GoTo, store
    <3>2. Id(c) = i
      BY <2>3, <3>1 DEF MlMove, TypeOK
    <3> QED BY <2>5, <3>1, <3>2 DEF TypeOK
  <2>6. CASE Rollback(c) \/ Archive(c) \/ Restore(c)
    BY <1>1, <1>2, <1>3, <2>3, <2>6 DEF Rollback, Archive, Restore, store
  <2>7. CASE Unlink(c)
    BY <2>3, <2>7 DEF Unlink, TypeOK
  <2> QED BY <2>1, <2>4, <2>5, <2>6, <2>7
<1> QED BY <1>0, <1>4, <1>5, <1>6, <1>7, <1>8 DEF Next, Rest

\* A write about to insert its row goes on to do so, or finds a row there.
LEMMA DecidingStays ==
  ASSUME TypeOK, [Next]_vars, NothingFailed', NEW i \in Ids, NEW d \in Domains,
         meta[i] = NoRow, meta'[i] = NoRow, NEW c \in Calls, Deciding(c, i, d)
  PROVE  Deciding(c, i, d)'
<1>0. ~Crash /\ ~\E b \in Calls : DbFails(b) \/ MlFails(b)
  BY NothingFailedBefore
<1>1. arg'[c] = arg[c]
  BY CallsKeep DEF Deciding
<1>2. arg[c] \in Requests /\ Src(c) # NoRow
  BY NullAssumption DEF Deciding, TypeOK, InFlight, WriteSteps, Requests, Src
<1>3. pc'[c] = pc[c]
  <2>1. CASE \E b \in Calls : Start(b)
    BY <2>1 DEF Deciding, Start, StartWrite, StartDelete, StartMove, GoTo, Answer, TypeOK
  <2>2. CASE \E b \in Calls : Step(b)
    <3>1. ~CreateMeta(c) /\ ~MetaTaken(c)
      BY <1>2 DEF Deciding, CreateMeta, MetaTaken, TypeOK
    <3> QED BY <2>2, <3>1 DEF Deciding, Step, ScanDomain, PassPrecheck, Record, NotWritten, Tidy,
         CreateMeta, MetaTaken, Rollback, Archive, Restore, Move, Relabel, MoveBack, CreateEvent,
         Sweep, Unlink, GoTo, Answer, TypeOK
  <2>3. CASE (\E e \in Domains, j \in Ids : AdminDelete(e, j)) \/ (\E j \in Ids : AdminRestore(j))
             \/ UNCHANGED vars
    BY <2>3 DEF AdminDelete, AdminRestore, vars
  <2> QED BY <1>0, <2>1, <2>2, <2>3 DEF Next, Rest
<1> QED BY <1>1, <1>3 DEF Deciding, Id, Src

LEMMA UnregisteredStep ==
  ASSUME TypeOK, Phases, UnregisteredInv, [Next]_vars
  PROVE  UnregisteredInv'
<1> SUFFICES ASSUME NothingFailed' PROVE UnregisteredInv'
  BY DEF UnregisteredInv
<1>0. NothingFailed /\ ~Crash /\ ~\E c \in Calls : DbFails(c) \/ MlFails(c)
  BY NothingFailedBefore
<1>1. /\ \A c \in Calls : pc'[c] \notin {"restore", "moveBack", "rollback"}
      /\ \A c \in Calls : pc'[c] = "collide" => pc[c] = "collide" \/ (MetaTaken(c) /\ UNCHANGED <<arg, meta>>)
  <2> USE <1>0 DEF UnregisteredInv, TypeOK, GoTo, Answer
  <2>1. CASE \E c \in Calls : Start(c)
    BY <2>1 DEF Start, StartWrite, StartDelete, StartMove
  <2>2. CASE \E c \in Calls : Step(c)
    <3> PICK c \in Calls : Step(c)
      BY <2>2
    <3>1. CASE \E d \in Domains : ScanDomain(c, d)
      BY <3>1 DEF ScanDomain
    <3>2. CASE PassPrecheck(c) \/ Record(c) \/ NotWritten(c) \/ Tidy(c)
      BY <3>2 DEF PassPrecheck, Record, NotWritten, Tidy
    <3>3. CASE CreateMeta(c) \/ MetaTaken(c) \/ Rollback(c)
      BY <3>3 DEF CreateMeta, MetaTaken, Rollback, task, db
    <3>4. CASE Archive(c) \/ Restore(c) \/ Move(c) \/ Relabel(c) \/ MoveBack(c)
      BY <3>4 DEF Archive, Restore, Move, Relabel, MoveBack
    <3>5. CASE CreateEvent(c)
      <4>1. arg[c] \in Requests
        BY <3>5 DEF CreateEvent, InFlight, SharedSteps
      <4>2. \E step \in {"done", "sweep", "relabel"} : pc' = [pc EXCEPT ![c] = step]
        BY <3>5, <4>1 DEF CreateEvent, AfterEvent, Requests, CallOps
      <4> QED BY <4>2
    <3>6. CASE Sweep(c) \/ Unlink(c)
      BY <3>6 DEF Sweep, Unlink
    <3> QED BY <3>1, <3>2, <3>3, <3>4, <3>5, <3>6 DEF Step
  <2>3. CASE (\E d \in Domains, j \in Ids : AdminDelete(d, j)) \/ (\E j \in Ids : AdminRestore(j))
             \/ UNCHANGED vars
    BY <2>3 DEF AdminDelete, AdminRestore, vars
  <2> QED BY <2>1, <2>2, <2>3 DEF Next, Rest
<1>2. ASSUME NEW c \in Calls, pc'[c] = "collide" PROVE meta'[Id(c)'] # NoRow
  <2>1. CASE pc[c] = "collide"
    <3>1. arg[c] \in Requests /\ arg'[c] = arg[c]
      BY <2>1, CallsKeep DEF TypeOK, InFlight, WriteSteps
    <3>2. Id(c)' = Id(c) /\ Id(c) \in Ids
      BY <3>1 DEF Id, Requests
    <3> QED BY <1>0, <2>1, <3>2, RowsStay DEF UnregisteredInv
  <2>2. CASE MetaTaken(c) /\ UNCHANGED <<arg, meta>>
    BY <2>2 DEF MetaTaken, Id
  <2> QED BY <1>1, <1>2, <2>1, <2>2
<1>3. ASSUME NEW i \in Ids, meta'[i] = NoRow, ~Moved(i)', NEW d \in Domains, StoredAt(d, i)'
      PROVE  \E c \in Calls : Deciding(c, i, d)'
  <2>1. meta[i] = NoRow /\ ~Moved(i)
    BY <1>3, RowsStay, MovedStays
  <2>2. CASE StoredAt(d, i)
    <3>1. PICK c \in Calls : Deciding(c, i, d)
      BY <1>0, <2>1, <2>2 DEF UnregisteredInv
    <3> QED BY <1>3, <2>1, <3>1, DecidingStays
  <2>3. CASE ~StoredAt(d, i)
    <3>1. PICK c \in Calls : Id(c) = i /\ ((Record(c) /\ Src(c) = d) \/ (Move(c) /\ pc'[c] = "event"))
      BY <1>0, <1>3, <2>3, CopiesAppear DEF UnregisteredInv
    <3>2. CASE Move(c) /\ pc'[c] = "event"
      <4>1. UNCHANGED arg /\ arg[c].op = "move" /\ arg[c] \in Requests
        BY <3>2 DEF Move, task, Phases, MoveSteps, TypeOK, InFlight
      <4>2. c \in Movers(i)'
        BY <3>1, <4>1, NoCallAssumption DEF Movers, Asked, Id
      <4> QED BY <1>3, <3>2, <4>2 DEF Moved
    <3>3. CASE Record(c) /\ Src(c) = d
      BY <3>1, <3>3 DEF Record, GoTo, task, Deciding, Id, Src, TypeOK
    <3> QED BY <3>1, <3>2, <3>3
  <2> QED BY <2>2, <2>3
<1> QED BY <1>1, <1>2, <1>3 DEF UnregisteredInv

\* While nothing fails, no interleaving of writes, deletes and admin deletes settles
\* one content in two domains: it takes a move of a copy, or a restore of that record.
THEOREM OnlyMovesSplitRecords == Spec => OnlyMovesSplit
<1>1. Init => UnregisteredInv
  <2> SUFFICES ASSUME Init, NEW i \in Ids, meta[i] = NoRow, NEW d \in Domains, StoredAt(d, i)
               PROVE  FALSE
    BY DEF UnregisteredInv, Init
  <2>1. i \in InitLive[d]
    BY DEF Init, StoredAt
  <2>2. (CHOOSE e \in Domains : i \in InitLive[e]) \in Domains
    BY <2>1
  <2> QED BY <2>1, <2>2, NullAssumption DEF Init
<1>2. ASSUME TypeOK, Phases, UnregisteredInv, [Next]_vars,
             NEW i \in Ids, NothingFailed', ~Split(i), Split(i)', ~Moved(i)', ~AdminRestore(i)
      PROVE  FALSE
  <2>0. NothingFailed /\ ~Crash /\ ~\E c \in Calls : DbFails(c) \/ MlFails(c)
    BY <1>2, NothingFailedBefore
  <2>1. PICK d \in Homes(i)', e \in Homes(i)' : d # e
    BY <1>2 DEF Split
  <2>2. d \in Domains /\ e \in Domains
    BY DEF Homes
  <2>3. d \notin Homes(i) \/ e \notin Homes(i)
    BY <1>2, <2>1 DEF Split
  <2>4. ASSUME NEW c \in Calls, Id(c) = i, Move(c) \/ MoveBack(c) \/ Restore(c),
               NEW f \in Homes(i)', f \notin Homes(i)
        PROVE  FALSE
    <3>1. Move(c)
      BY <1>2, <2>0, <2>4 DEF UnregisteredInv, MoveBack, Restore
    <3>2. /\ UNCHANGED arg /\ arg[c].op = "move" /\ arg[c] \in Requests
          /\ UNCHANGED store \/ pc'[c] = "event"
      BY <1>2, <3>1 DEF Move, GoTo, task, Phases, MoveSteps, TypeOK, InFlight
    <3>3. c \in Movers(i)'
      BY <2>4, <3>2, NoCallAssumption DEF Movers, Asked, Id
    <3>4. UNCHANGED <<store, arg>>
      BY <1>2, <3>2, <3>3 DEF Moved
    <3>5. \A b \in Calls : Unsettled(b, i, f) => Unsettled(b, i, f)'
      BY <1>2, <3>1, <3>4 DEF Move, GoTo, Answer, Unsettled, Id, Src, TypeOK
    <3>6. f \in Domains
      BY DEF Homes
    <3> QED BY <2>4, <3>4, <3>5, <3>6, NotNewHome DEF store
  <2>5. ASSUME NEW f \in Homes(i)', f \notin Homes(i), NEW g \in Homes(i)', f # g PROVE FALSE
    <3>1. f \in Domains /\ g \in Domains
      BY DEF Homes
    <3>2. PICK c \in Calls : CreateMeta(c) /\ Id(c) = i /\ Src(c) = f
      BY <1>2, <2>0, <2>4, <2>5, <3>1, HomesGrow
    <3>3. meta[i] = NoRow /\ live' = live
      BY <3>2 DEF CreateMeta, store
    <3>4. ~Moved(i)
      BY <1>2, MovedStays
    <3>5. g \notin Homes(i)
      BY <1>2, <2>0, <3>1, <3>3, <3>4 DEF UnregisteredInv, StoredAt, Deciding, Homes, Unsettled
    <3>6. PICK b \in Calls : CreateMeta(b) /\ Id(b) = i /\ Src(b) = g
      BY <1>2, <2>0, <2>4, <2>5, <3>1, <3>5, HomesGrow
    <3>7. b # c /\ pc[b] = "meta" /\ pc' = [pc EXCEPT ![b] = "event"]
          /\ pc[c] = "meta" /\ pc' = [pc EXCEPT ![c] = "event"]
      BY <2>5, <3>2, <3>6 DEF CreateMeta, GoTo
    <3> QED BY <1>2, <3>7 DEF TypeOK
  <2> QED BY <2>1, <2>3, <2>5
<1>3. TypeOK /\ Phases /\ UnregisteredInv /\ [Next]_vars
        => [\A i \in Ids : NothingFailed' /\ ~Split(i) /\ Split(i)' =>
               Moved(i)' \/ AdminRestore(i)]_vars
  BY <1>2
<1> QED BY <1>1, <1>3, UnregisteredStep, TypeCorrect, PhaseInvariant, PTL DEF Spec, OnlyMovesSplit

-----------------------------------------------------------------------------
(* The two stores together implement one KnowledgeStore *)

\* A step other than the insert of a row takes records out of one domain, or does nothing
\* a reader of the store sees.
LEMMA QuietOrWithdrawn ==
  ASSUME NoMoveNoRestore, HomeInv, [Next]_vars, ~\E c \in Calls : CreateMeta(c)
  PROVE  [Store!Next]_Home
<1>1. /\ ~Crash /\ ~\E c \in Calls : MlFails(c)
      /\ ~\E c \in Calls : Move(c) \/ MoveBack(c) \/ Restore(c) \/ Relabel(c)
      /\ ~\E i \in Ids : AdminRestore(i)
  BY DEF NoMoveNoRestore, HomeInv, NoEscape, Crash, MlFails, MayStrike, Move, MoveBack, Restore,
     Relabel, AdminRestore
<1>2. UNCHANGED meta
  BY <1>1 DEF Next, Start, StartWrite, StartDelete, StartMove, Step, ScanDomain,
     PassPrecheck, Record, NotWritten, Tidy, MetaTaken, Rollback, Archive, CreateEvent, Sweep,
     Unlink, DbFails, AdminDelete, Rest, vars, db
<1>3. \A i \in Ids : Homes(i)' \subseteq Homes(i)
  <2> SUFFICES ASSUME NEW i \in Ids, NEW d \in Homes(i)', d \notin Homes(i) PROVE FALSE
    OBVIOUS
  <2>1. d \in Domains
    BY DEF Homes
  <2> QED BY <1>1, <2>1, HomesGrow DEF HomeInv
<1>4. CASE Home' = Home
  BY <1>4
<1>5. ASSUME Home' # Home PROVE Store!Next
  <2>1. PICK i \in Ids : Home'[i] # Home[i]
    BY <1>5 DEF Home
  <2>2. ASSUME NEW j \in Ids, Home'[j] # Home[j]
        PROVE  /\ meta[j] \in Homes(j) /\ meta[j] \notin Homes(j)' /\ meta[j] \in Domains
               /\ Home[j] = meta[j] /\ Home'[j] = Retired
    <3>1. meta[j] \in Homes(j) /\ meta[j] \notin Homes(j)' /\ meta[j] # NoRow
      BY <1>2, <1>3, <2>2 DEF Home
    <3>2. Home[j] = meta[j] /\ Home'[j] = Retired
      BY <1>2, <3>1 DEF Home
    <3> QED BY <3>1, <3>2 DEF HomeInv, TypeOK
  <2> DEFINE d == meta[i]
             R == {j \in Ids : Home'[j] # Home[j]}
  <2>3. d \in Domains
    BY <2>1, <2>2
  <2>4. \A j \in R : Home[j] = d
    <3> SUFFICES ASSUME NEW j \in R PROVE Home[j] = d
      OBVIOUS
    <3>1. /\ meta[j] \in Homes(j) /\ meta[j] \notin Homes(j)' /\ meta[j] \in Domains
          /\ Home[j] = meta[j]
      BY <2>2
    <3>2. meta[i] \in Homes(i) /\ meta[i] \notin Homes(i)'
      BY <2>1, <2>2
    <3>3. meta[i] = meta[j]
      BY <1>1, <2>3, <3>1, <3>2, HomesLost DEF HomeInv
    <3> QED BY <3>1, <3>3
  <2>5. Home' = [j \in Ids |-> IF j \in R THEN Retired ELSE Home[j]]
    <3>1. \A j \in Ids : Home'[j] = IF j \in R THEN Retired ELSE Home[j]
      BY <2>2
    <3> QED BY <3>1 DEF Home
  <2>6. Store!Withdraw(d, R)
    BY <2>4, <2>5 DEF Store!Withdraw
  <2> QED BY <2>3, <2>6 DEF Store!Next
<1> QED BY <1>4, <1>5

\* Inserting the row publishes the record, or finds it taken away already.
LEMMA PublishedOrMiscarried ==
  ASSUME HomeInv, NEW c \in Calls, CreateMeta(c)
  PROVE  Store!Next
<1>1. /\ UNCHANGED <<live, arg>> /\ pc[c] = "meta" /\ pc' = [pc EXCEPT ![c] = "event"]
      /\ meta[Id(c)] = NoRow /\ meta' = [meta EXCEPT ![Id(c)] = Src(c)]
  BY DEF CreateMeta, store, task, GoTo
<1>2. Id(c) \in Ids /\ Src(c) \in Domains /\ Src(c) # NoRow
  BY <1>1, NullAssumption DEF HomeInv, TypeOK, InFlight, WriteSteps, Requests, Id, Src
<1>3. \A i \in Ids \ {Id(c)} : Home'[i] = Home[i]
  <2> SUFFICES ASSUME NEW i \in Ids \ {Id(c)} PROVE Home'[i] = Home[i]
    OBVIOUS
  <2>1. meta'[i] = meta[i]
    BY <1>1 DEF HomeInv, TypeOK
  <2>2. \A d \in Domains, b \in Calls : Unsettled(b, i, d) <=> Unsettled(b, i, d)'
    BY <1>1 DEF Unsettled, Id, Src, HomeInv, TypeOK
  <2>3. Homes(i)' = Homes(i)
    BY <1>1, <2>2 DEF Homes
  <2> QED BY <2>1, <2>3 DEF Home
<1>4. Home[Id(c)] = Unused
  BY <1>1, <1>2 DEF Home
<1>5. Home'[Id(c)] \in {Src(c), Retired}
  <2>1. meta'[Id(c)] = Src(c)
    BY <1>1, <1>2 DEF HomeInv, TypeOK
  <2>2. Home' = [i \in Ids |->
           IF meta'[i] = NoRow THEN Unused
           ELSE IF meta'[i] \in Homes(i)' THEN meta'[i] ELSE Retired]
    BY DEF Home
  <2> QED BY <1>2, <2>1, <2>2
<1>6. Home' = [Home EXCEPT ![Id(c)] = Home'[Id(c)]]
  BY <1>2, <1>3 DEF Home
<1>7. CASE Home'[Id(c)] = Src(c)
  BY <1>2, <1>4, <1>6, <1>7 DEF Store!Next, Store!Publish
<1>8. CASE Home'[Id(c)] = Retired
  BY <1>2, <1>4, <1>6, <1>8 DEF Store!Next, Store!Miscarry
<1> QED BY <1>5, <1>7, <1>8

\* Whatever writes and deletes overlap, and whichever inserts of writes fail, a reader
\* of the rows and the files sees each id published in one domain, at most once, and
\* never again after it was taken away.
THEOREM LifecycleImplementsStore ==
  ASSUME NoMoveNoRestore PROVE Spec => ImplementsKnowledgeStore
<1>1. Init => Store!Init
  <2> SUFFICES ASSUME Init PROVE \A i \in Ids : Home[i] \in Domains \cup {Unused}
    BY DEF Store!Init, Home
  <2> TAKE i \in Ids
  <2>1. CASE \E d \in Domains : i \in InitLive[d]
    <3>1. PICK d \in Domains : i \in InitLive[d] /\ meta[i] = d
      BY <2>1 DEF Init
    <3>2. d \in Homes(i)
      BY <3>1 DEF Init, Homes, Unsettled
    <3> QED BY <3>1, <3>2, NullAssumption DEF Home
  <2>2. CASE ~\E d \in Domains : i \in InitLive[d]
    BY <2>2 DEF Init, Home
  <2> QED BY <2>1, <2>2
<1>2. NoMoveNoRestore /\ HomeInv /\ [Next]_vars => [Store!Next]_Home
  BY QuietOrWithdrawn, PublishedOrMiscarried
<1> QED BY <1>1, <1>2, HomeInvariant, PTL DEF Spec, ImplementsKnowledgeStore, Store!Spec

-----------------------------------------------------------------------------
(* Failed inserts leave no untracked change                                  *)
(*                                                                           *)
(* An id nobody writes has one copy, live or archived.  Who archives it is   *)
(* about to insert the event or to restore it; who moves it is about to      *)
(* change its row or to move it back.  A move that finds nothing to take back *)
(* leaves an archived record away from its row, and its fault is the one the  *)
(* bound allows: a delete that failed as well would restore the record there. *)

Tracked(i) == MlAndProcessWork /\ admin = 0 /\ Writers(i) = {}

UndoSteps == {"restore", "moveBack"}
FaultsCounted ==
    /\ \A c \in Calls : pc[c] \in UndoSteps => faults["db"] >= 1
    /\ \A b, c \in Calls : b # c /\ pc[b] \in UndoSteps /\ pc[c] \in UndoSteps
           => faults["db"] >= 2

DeletesStay == \A c \in Calls : Asked(c, "delete") => Dst(c) = Src(c)

OneCopy(i) ==
    /\ \A d, e \in Domains : StoredAt(d, i) /\ StoredAt(e, i) => d = e
    /\ \A d \in Domains : i \in live[d] => <<d, i>> \notin archive

Attributed(i) == \A d \in Domains : <<d, i>> \in archive =>
    /\ Deleters(i) # {}
    /\ \/ \E e \in events : e.action = "delete" /\ e.id = i /\ e.domain = d
       \/ \E c \in Deleters(i) : pc[c] \in {"event", "restore"} /\ Src(c) = d

Relocating == {"event", "relabel", "moveBack"}
Placed(i, d) ==
    \/ \E m \in Movers(i) : pc[m] \in Relocating /\ Src(m) = meta[i] /\ Dst(m) = d
    \/ /\ \A m \in Movers(i) : pc[m] \notin Relocating
       /\ \/ meta[i] = d
          \/ /\ i \notin live[d] /\ faults["db"] >= 1
             /\ \A c \in Calls : pc[c] = "restore" => Id(c) # i

FewChanges(i) ==
    /\ \A b, c \in Movers(i) : b = c
    /\ Deleters(i) = {} \/ faults["db"] <= 1

AtRow(i) == FewChanges(i) => \A d \in Domains : StoredAt(d, i) => Placed(i, d)

TrackInv ==
    /\ FaultsCounted /\ DeletesStay
    /\ \A i \in Ids : Tracked(i) => OneCopy(i) /\ Attributed(i) /\ AtRow(i)

\* A step of a call is about that call only.
LEMMA StepIsLocal ==
  ASSUME TypeOK, NEW c \in Calls, Step(c) \/ DbFails(c)
  PROVE  UNCHANGED arg /\ \A b \in Calls \ {c} : pc'[b] = pc[b]
<1>1. UNCHANGED arg
  BY DEF Step, DbFails, ScanDomain, PassPrecheck, Record, NotWritten, Tidy, CreateMeta,
     MetaTaken, Rollback, Archive, Restore, Move, Relabel, MoveBack, CreateEvent, Sweep, Unlink,
     task
<1>2. \A b \in Calls \ {c} : pc'[b] = pc[b]
  BY DEF Step, DbFails, ScanDomain, PassPrecheck, Record, NotWritten, Tidy, CreateMeta,
     MetaTaken, Rollback, Archive, Restore, Move, Relabel, MoveBack, CreateEvent, Sweep, Unlink,
     GoTo, Answer, TypeOK
<1> QED BY <1>1, <1>2

\* Only a failed insert makes a call undo what it did.
LEMMA UndoneByFaults ==
  ASSUME TypeOK, Phases, [Next]_vars, NEW c \in Calls, pc'[c] \in UndoSteps, pc[c] \notin UndoSteps
  PROVE  DbFails(c)
<1> USE DEF UndoSteps, TypeOK, GoTo, Answer
<1>1. CASE \E b \in Calls : Start(b)
  BY <1>1 DEF Start, StartWrite, StartDelete, StartMove
<1>2. CASE \E b \in Calls : Step(b)
  <2> PICK b \in Calls : Step(b)
    BY <1>2
  <2>1. b = c
    BY StepIsLocal
  <2>2. CASE CreateEvent(c)
    <3>1. arg[c] \in Requests
      BY <2>2 DEF CreateEvent, InFlight, SharedSteps
    <3>2. \E step \in {"done", "sweep", "relabel"} : pc' = [pc EXCEPT ![c] = step]
      BY <2>2, <3>1 DEF CreateEvent, AfterEvent, Requests, CallOps
    <3> QED BY <3>2
  <2>3. CASE ~CreateEvent(c)
    BY <2>1, <2>3 DEF Step, ScanDomain, PassPrecheck, Record, NotWritten, Tidy, CreateMeta,
       MetaTaken, Rollback, Archive, Restore, Move, Relabel, MoveBack, Sweep, Unlink
  <2> QED BY <2>2, <2>3
<1>3. CASE \E b \in Calls : DbFails(b)
  BY <1>3, StepIsLocal
<1>4. CASE \E b \in Calls : MlFails(b)
  BY <1>4 DEF MlFails
<1>5. CASE Crash
  BY <1>5 DEF Crash
<1>6. CASE (\E d \in Domains, j \in Ids : AdminDelete(d, j)) \/ (\E j \in Ids : AdminRestore(j))
           \/ UNCHANGED vars
  BY <1>6 DEF AdminDelete, AdminRestore, vars
<1> QED BY <1>1, <1>2, <1>3, <1>4, <1>5, <1>6 DEF Next, Rest

LEMMA FaultsCountedStep ==
  ASSUME TypeOK, Phases, FaultsCounted, [Next]_vars
  PROVE  FaultsCounted'
<1>0. faults["db"] \in Nat /\ faults'["db"] \in Nat /\ faults'["db"] >= faults["db"]
  BY TypeStep, CountsKeep, BoundsAssumption DEF TypeOK, FaultKinds
<1>1. ASSUME NEW c \in Calls, pc'[c] \in UndoSteps PROVE faults'["db"] >= 1
  <2>1. CASE pc[c] \in UndoSteps
    BY <1>0, <2>1 DEF FaultsCounted
  <2>2. CASE DbFails(c)
    BY <1>0, <2>2, CountsKeep
  <2> QED BY <1>1, <2>1, <2>2, UndoneByFaults
<1>2. ASSUME NEW b \in Calls, NEW c \in Calls, b # c, pc'[b] \in UndoSteps, pc'[c] \in UndoSteps,
             pc[c] \notin UndoSteps
      PROVE  faults'["db"] >= 2
  <2>1. DbFails(c)
    BY <1>2, UndoneByFaults
  <2>2. pc[b] \in UndoSteps
    BY <1>2, <2>1, StepIsLocal
  <2>3. faults["db"] >= 1 /\ faults'["db"] = faults["db"] + 1
    BY <2>1, <2>2, CountsKeep DEF FaultsCounted
  <2> QED BY <1>0, <2>3
<1>3. ASSUME NEW b \in Calls, NEW c \in Calls, b # c, pc'[b] \in UndoSteps, pc'[c] \in UndoSteps
      PROVE  faults'["db"] >= 2
  <2>1. CASE pc[b] \in UndoSteps /\ pc[c] \in UndoSteps
    BY <1>0, <1>3, <2>1 DEF FaultsCounted
  <2> QED BY <1>2, <1>3, <2>1
<1> QED BY <1>1, <1>3 DEF FaultsCounted

LEMMA DeletesStayStep ==
  ASSUME TypeOK, Answered, DeletesStay, [Next]_vars
  PROVE  DeletesStay'
<1> SUFFICES ASSUME NEW c \in Calls, Asked(c, "delete")' PROVE Dst(c)' = Src(c)'
  BY DEF DeletesStay
<1>1. CASE pc[c] # "idle" \/ arg'[c] = arg[c]
  BY <1>1, CallsKeep DEF DeletesStay, Asked, Dst, Src
<1>2. CASE pc[c] = "idle" /\ arg'[c] # arg[c]
  <2>1. ~(\E b \in Calls : Step(b) \/ DbFails(b))
    BY <1>2, StepIsLocal
  <2>2. \E b \in Calls : Start(b)
    BY <1>2, <2>1 DEF Next, MlFails, Crash, AdminDelete, AdminRestore, Rest, vars, task
  <2> QED BY <1>2, <2>2 DEF Start, StartWrite, StartDelete, StartMove, Asked, Dst, Src, TypeOK
<1> QED BY <1>1, <1>2

\* What spoils the tracking of an id spoils it for good, and of the calls about a
\* tracked id none is a write.
LEMMA TrackedBefore ==
  ASSUME TypeOK, Phases, Answered, [Next]_vars, NEW i \in Ids, Tracked(i)'
  PROVE  /\ Tracked(i)
         /\ ~Crash /\ ~\E c \in Calls : MlFails(c)
         /\ ~\E d \in Domains, j \in Ids : AdminDelete(d, j)
         /\ ~\E j \in Ids : AdminRestore(j)
         /\ \A c \in Calls : Id(c) = i => pc[c] \notin WriteSteps
         /\ Movers(i) \subseteq Movers(i)' /\ Deleters(i) \subseteq Deleters(i)'
<1>0. /\ faults \in [FaultKinds -> Nat] /\ faults' \in [FaultKinds -> Nat]
      /\ {"db", "ml", "crash"} \subseteq FaultKinds /\ admin \in Nat /\ admin' \in Nat
  BY TypeStep, BoundsAssumption DEF TypeOK, FaultKinds
<1>1. faults'["ml"] = 0 /\ faults'["crash"] = 0 /\ admin' = 0
  BY DEF Tracked, MlAndProcessWork
<1>2. MlAndProcessWork /\ admin = 0
  BY <1>0, <1>1, CountsKeep DEF MlAndProcessWork
<1>3. /\ ~Crash /\ ~\E c \in Calls : MlFails(c)
      /\ ~\E d \in Domains, j \in Ids : AdminDelete(d, j)
      /\ ~\E j \in Ids : AdminRestore(j)
  BY <1>0, <1>1, CountsKeep
<1>4. ASSUME NEW c \in Calls, NEW o \in CallOps, Asked(c, o) PROVE Asked(c, o)' /\ Id(c)' = Id(c)
  BY <1>4, CallsKeep DEF Asked, Answered, Id
<1>5. /\ Writers(i) \subseteq Writers(i)'
      /\ Movers(i) \subseteq Movers(i)' /\ Deleters(i) \subseteq Deleters(i)'
  BY <1>4 DEF Writers, Movers, Deleters, CallOps
<1>6. ASSUME NEW c \in Calls, Id(c) = i, pc[c] \in WriteSteps PROVE FALSE
  <2>1. c \in Writers(i)
    BY <1>6, NoCallAssumption DEF Writers, Asked, Phases, TypeOK, InFlight
  <2> QED BY <1>5, <2>1 DEF Tracked
<1> QED BY <1>2, <1>3, <1>5, <1>6 DEF Tracked

\* A call is between the `ml` command that changed a record and the end of its rows.
Changing == {"event", "relabel", "moveBack", "restore"}

\* The step brings no copy of i, changes no row of it, and is not about a call that
\* is changing i.
Quiet(i) ==
    /\ \A d \in Domains : (i \in live'[d] => i \in live[d])
                          /\ (<<d, i>> \in archive' => <<d, i>> \in archive)
    /\ meta'[i] = meta[i]
    /\ \A c \in Calls : Id(c) = i /\ pc[c] \in Changing => pc'[c] = pc[c]
    /\ \A c \in Calls : Id(c)' = i /\ pc'[c] \in Changing => pc'[c] = pc[c]

LEMMA QuietTracks ==
  ASSUME TypeOK, Phases, Answered, [Next]_vars, NEW i \in Ids, Tracked(i)', Quiet(i),
         OneCopy(i), Attributed(i), AtRow(i)
  PROVE  OneCopy(i)' /\ Attributed(i)' /\ AtRow(i)'
<1>0. /\ faults["db"] \in Nat /\ faults'["db"] \in Nat /\ faults'["db"] >= faults["db"]
      /\ Movers(i) \subseteq Movers(i)' /\ Deleters(i) \subseteq Deleters(i)'
  BY TypeStep, CountsKeep, TrackedBefore, BoundsAssumption DEF TypeOK, FaultKinds
<1>1. \A d \in Domains : StoredAt(d, i)' => StoredAt(d, i)
  BY DEF Quiet, StoredAt
<1>2. OneCopy(i)'
  BY <1>1 DEF OneCopy, Quiet
<1>3. \A c \in Calls : pc[c] \in Changing => arg'[c] = arg[c]
  BY CallsKeep DEF Changing
<1>4. events \subseteq events'
  <2>1. CASE \E c \in Calls : CreateEvent(c)
    BY <2>1 DEF CreateEvent
  <2>2. CASE ~\E c \in Calls : CreateEvent(c)
    BY <2>2 DEF Next, Start, StartWrite, StartDelete, StartMove, Step, ScanDomain,
       PassPrecheck, Record, NotWritten, Tidy, CreateMeta, MetaTaken, Rollback, Archive, Restore,
       Move, Relabel, MoveBack, Sweep, Unlink, DbFails, MlFails, Crash, AdminDelete,
       AdminRestore, Rest, vars, db
  <2> QED BY <2>1, <2>2
<1>5. Attributed(i)'
  <2> SUFFICES ASSUME NEW d \in Domains, <<d, i>> \in archive'
               PROVE  /\ Deleters(i)' # {}
                      /\ \/ \E e \in events' : e.action = "delete" /\ e.id = i /\ e.domain = d
                         \/ \E c \in Deleters(i)' : pc'[c] \in {"event", "restore"} /\ Src(c)' = d
    BY DEF Attributed
  <2>1. <<d, i>> \in archive
    BY DEF Quiet
  <2>2. ASSUME NEW c \in Deleters(i), pc[c] \in {"event", "restore"}, Src(c) = d
        PROVE  c \in Deleters(i)' /\ pc'[c] = pc[c] /\ Src(c)' = d
    BY <1>0, <1>3, <2>2 DEF Quiet, Deleters, Changing, Src
  <2> QED BY <1>0, <1>4, <2>1, <2>2 DEF Attributed
<1>6. AtRow(i)'
  <2> SUFFICES ASSUME FewChanges(i)', NEW d \in Domains, StoredAt(d, i)' PROVE Placed(i, d)'
    BY DEF AtRow
  <2>1. FewChanges(i)
    BY <1>0 DEF FewChanges
  <2>2. Placed(i, d)
    BY <1>1, <2>1 DEF AtRow
  <2>3. CASE \E m \in Movers(i) : pc[m] \in Relocating /\ Src(m) = meta[i] /\ Dst(m) = d
    <3>1. PICK m \in Movers(i) : pc[m] \in Relocating /\ Src(m) = meta[i] /\ Dst(m) = d
      BY <2>3
    <3>2. m \in Movers(i)' /\ pc'[m] = pc[m] /\ arg'[m] = arg[m] /\ meta'[i] = meta[i]
      BY <1>0, <1>3, <3>1 DEF Quiet, Movers, Changing, Relocating
    <3> QED BY <3>1, <3>2 DEF Placed, Src, Dst
  <2>4. CASE ~\E m \in Movers(i) : pc[m] \in Relocating /\ Src(m) = meta[i] /\ Dst(m) = d
    <3>1. /\ \A m \in Movers(i) : pc[m] \notin Relocating
          /\ \/ meta[i] = d
             \/ /\ i \notin live[d] /\ faults["db"] >= 1
                /\ \A c \in Calls : pc[c] = "restore" => Id(c) # i
      BY <2>2, <2>4 DEF Placed
    <3>2. \A m \in Movers(i)' : pc'[m] \notin Relocating
      <4> SUFFICES ASSUME NEW m \in Movers(i)', pc'[m] \in Relocating PROVE FALSE
        OBVIOUS
      <4>1. m \in Calls /\ Id(m)' = i
        BY DEF Movers
      <4>2. pc'[m] = pc[m] /\ arg'[m] = arg[m]
        BY <1>3, <4>1 DEF Quiet, Changing, Relocating
      <4>3. m \in Movers(i)
        BY <4>2 DEF Movers, Asked, Id
      <4> QED BY <3>1, <4>2, <4>3
    <3>3. \A c \in Calls : (\A b \in Calls : pc[b] = "restore" => Id(b) # i)
                           /\ pc'[c] = "restore" => Id(c)' # i
      BY <1>3 DEF Quiet, Changing, Id
    <3>4. meta'[i] = meta[i] /\ (i \in live'[d] => i \in live[d])
      BY DEF Quiet
    <3> QED BY <1>0, <3>1, <3>2, <3>3, <3>4 DEF Placed
  <2> QED BY <2>3, <2>4
<1> QED BY <1>2, <1>5, <1>6

LEMMA StartIsQuiet ==
  ASSUME TypeOK, NEW c \in Calls, Start(c), NEW i \in Ids
  PROVE  Quiet(i)
<1>1. UNCHANGED <<live, archive, meta>>
  BY DEF Start, StartWrite, StartDelete, StartMove, store, db
<1>2. /\ pc[c] = "idle" /\ pc'[c] \notin Changing /\ \A b \in Calls \ {c} : pc'[b] = pc[b]
  BY DEF Start, StartWrite, StartDelete, StartMove, GoTo, Answer, TypeOK, Changing
<1> QED BY <1>1, <1>2 DEF Quiet, Changing

LEMMA ElsewhereIsQuiet ==
  ASSUME TypeOK, NEW c \in Calls, Step(c) \/ DbFails(c), NEW i \in Ids, Id(c) # i
  PROVE  Quiet(i)
<1>1. \A b \in Calls : Id(b) = i \/ Id(b)' = i => pc'[b] = pc[b]
  BY StepIsLocal DEF Id
<1>2. meta'[i] = meta[i]
  <2>1. CASE CreateMeta(c) \/ Relabel(c)
    BY <2>1 DEF CreateMeta, Relabel, TypeOK
  <2>2. CASE ~CreateMeta(c) /\ ~Relabel(c)
    BY <2>2 DEF Step, DbFails, ScanDomain, PassPrecheck, Record, NotWritten, Tidy,
       MetaTaken, Rollback, Archive, Restore, Move, MoveBack, CreateEvent, Sweep, Unlink, db
  <2> QED BY <2>1, <2>2
<1>3. \A d \in Domains : (i \in live'[d] => i \in live[d])
                         /\ (<<d, i>> \in archive' => <<d, i>> \in archive)
  <2>1. CASE UNCHANGED <<live, archive>>
    BY <2>1
  <2>2. CASE MlRestore(Id(c))
    BY <2>2 DEF MlRestore, TypeOK
  <2>3. CASE MlRecord(Src(c), Id(c)) \/ MlArchive(Src(c), Id(c))
    BY <2>3 DEF MlRecord, MlArchive, TypeOK
  <2>4. CASE MlMove(Src(c), Dst(c), Id(c)) \/ MlMove(Dst(c), Src(c), Id(c))
    BY <2>4 DEF MlMove, TypeOK
  <2>5. CASE Unlink(c)
    BY <2>5 DEF Unlink, TypeOK
  <2>6. CASE Record(c) \/ Rollback(c) \/ Archive(c) \/ Restore(c) \/ Move(c) \/ MoveBack(c)
    BY <2>1, <2>2, <2>3, <2>4, <2>6 DEF Record, Rollback, Archive, Restore, Move, MoveBack, store
  <2>7. CASE ~(Record(c) \/ Rollback(c) \/ Archive(c) \/ Restore(c) \/ Move(c) \/ MoveBack(c)
               \/ Unlink(c))
    BY <2>1, <2>7 DEF Step, DbFails, ScanDomain, PassPrecheck, NotWritten, Tidy, CreateMeta,
       MetaTaken, Relabel, CreateEvent, Sweep, store
  <2> QED BY <2>5, <2>6, <2>7
<1> QED BY <1>1, <1>2, <1>3 DEF Quiet

\* A call about i that finds no record to change, or looks at the emptied file.
LEMMA IdleIsQuiet ==
  ASSUME TypeOK, NEW c \in Calls, NEW i \in Ids, Id(c) = i,
         \/ Sweep(c) \/ Unlink(c)
         \/ Archive(c) /\ Id(c) \notin live[Src(c)]
         \/ Move(c) /\ Id(c) \notin live[Src(c)]
  PROVE  Quiet(i)
<1>1. UNCHANGED <<archive, meta, arg>>
  BY DEF Sweep, Unlink, Archive, Move, MlArchive, MlMove, store, db, task
<1>2. pc[c] \notin Changing /\ pc'[c] \notin Changing /\ \A b \in Calls \ {c} : pc'[b] = pc[b]
  BY DEF Sweep, Unlink, Archive, Move, MlArchive, MlMove, GoTo, Answer, TypeOK, Changing
<1>3. \A d \in Domains : i \in live'[d] => i \in live[d]
  BY DEF Sweep, Unlink, Archive, Move, MlArchive, MlMove, store, TypeOK
<1> QED BY <1>1, <1>2, <1>3 DEF Quiet

\* While a call about a tracked id goes on, the same calls are about that id.
LEMMA SameCalls ==
  ASSUME UNCHANGED arg, NEW i \in Ids
  PROVE  /\ Movers(i)' = Movers(i) /\ Deleters(i)' = Deleters(i)
         /\ \A c \in Calls : Src(c)' = Src(c) /\ Dst(c)' = Dst(c) /\ Id(c)' = Id(c)
BY DEF Movers, Deleters, Asked, Src, Dst, Id

\* A record stays placed while no call that moves it takes a step.
LEMMA PlacedStays ==
  ASSUME UNCHANGED <<arg, meta, faults>>, NEW i \in Ids, NEW d \in Domains, Placed(i, d),
         \A m \in Movers(i) : pc'[m] = pc[m],
         i \notin live[d] /\ (\A c \in Calls : pc[c] = "restore" => Id(c) # i)
           => i \notin live'[d] /\ \A c \in Calls : pc'[c] = "restore" => Id(c) # i
  PROVE  Placed(i, d)'
<1>0. /\ Movers(i)' = Movers(i)
      /\ \A c \in Calls : Src(c)' = Src(c) /\ Dst(c)' = Dst(c) /\ Id(c)' = Id(c)
  BY SameCalls
<1>1. CASE \E m \in Movers(i) : pc[m] \in Relocating /\ Src(m) = meta[i] /\ Dst(m) = d
  <2>1. PICK m \in Movers(i) : pc[m] \in Relocating /\ Src(m) = meta[i] /\ Dst(m) = d
    BY <1>1
  <2> QED BY <1>0, <2>1 DEF Placed, Movers
<1>2. CASE /\ \A m \in Movers(i) : pc[m] \notin Relocating
           /\ \/ meta[i] = d
              \/ /\ i \notin live[d] /\ faults["db"] >= 1
                 /\ \A c \in Calls : pc[c] = "restore" => Id(c) # i
  <2>1. \A m \in Movers(i)' : pc'[m] \notin Relocating
    BY <1>0, <1>2
  <2>2. \/ meta'[i] = d
        \/ /\ i \notin live'[d] /\ faults'["db"] >= 1
           /\ \A c \in Calls : pc'[c] = "restore" => Id(c)' # i
    BY <1>0, <1>2
  <2> QED BY <2>1, <2>2 DEF Placed
<1> QED BY <1>1, <1>2 DEF Placed

\* The record is archived: it was in one domain, live, and is in its archive.
LEMMA ArchiveTracks ==
  ASSUME TypeOK, Phases, NEW c \in Calls, NEW i \in Ids, Id(c) = i,
         Archive(c), Id(c) \in live[Src(c)],
         OneCopy(i), Attributed(i), AtRow(i)
  PROVE  OneCopy(i)' /\ Attributed(i)' /\ AtRow(i)'
<1>1. /\ pc[c] = "archive" /\ pc' = [pc EXCEPT ![c] = "event"]
      /\ live' = [live EXCEPT ![Src(c)] = @ \ {i}] /\ archive' = archive \cup {<<Src(c), i>>}
      /\ UNCHANGED <<arg, meta, events, faults>>
  BY DEF Archive, MlArchive, GoTo, db, task
<1>2. arg[c] \in Requests /\ arg[c].op = "delete" /\ Src(c) \in Domains
  BY <1>1 DEF TypeOK, InFlight, DeleteSteps, Phases, Requests, Src
<1>3. c \in Deleters(i) /\ c \notin Movers(i)
  BY <1>2, NoCallAssumption DEF Deleters, Movers, Asked
<1>4. \A d \in Domains : StoredAt(d, i)' => d = Src(c)
  BY <1>1, <1>2 DEF StoredAt, OneCopy, TypeOK
<1>5. OneCopy(i)'
  BY <1>1, <1>2, <1>4 DEF OneCopy, StoredAt, TypeOK
<1>6. Attributed(i)'
  <2> SUFFICES ASSUME NEW d \in Domains, <<d, i>> \in archive'
               PROVE  /\ Deleters(i)' # {}
                      /\ \E b \in Deleters(i)' : pc'[b] \in {"event", "restore"} /\ Src(b)' = d
    BY DEF Attributed
  <2>1. d = Src(c)
    BY <1>4 DEF StoredAt
  <2>2. c \in Deleters(i)' /\ pc'[c] = "event" /\ Src(c)' = d
    BY <1>1, <1>3, <2>1, SameCalls DEF TypeOK
  <2> QED BY <2>2
<1>7. AtRow(i)'
  <2> SUFFICES ASSUME FewChanges(i)', NEW d \in Domains, StoredAt(d, i)' PROVE Placed(i, d)'
    BY DEF AtRow
  <2>1. d = Src(c) /\ StoredAt(d, i) /\ i \in live[d]
    BY <1>4 DEF StoredAt
  <2>2. FewChanges(i)
    BY <1>1, SameCalls DEF FewChanges
  <2>3. Placed(i, d)
    BY <2>1, <2>2 DEF AtRow
  <2>4. \A m \in Movers(i) : pc'[m] = pc[m]
    BY <1>1, <1>3 DEF TypeOK, Movers
  <2> QED BY <1>1, <2>1, <2>3, <2>4, PlacedStays
<1> QED BY <1>5, <1>6, <1>7

\* The delete's insert failed: the one copy goes back to where it was archived from.
LEMMA RestoreTracks ==
  ASSUME TypeOK, Phases, NEW c \in Calls, NEW i \in Ids, Id(c) = i, Restore(c),
         OneCopy(i), Attributed(i), AtRow(i)
  PROVE  OneCopy(i)' /\ Attributed(i)' /\ AtRow(i)'
<1>1. /\ pc[c] = "restore" /\ pc' = [pc EXCEPT ![c] = "done"]
      /\ UNCHANGED <<arg, meta, events, faults>>
  BY DEF Restore, Answer, db, task
<1>2. arg[c] \in Requests /\ arg[c].op = "delete"
  BY <1>1 DEF TypeOK, InFlight, DeleteSteps, Phases
<1>3. c \notin Movers(i)
  BY <1>2 DEF Movers, Asked
<1>4. \A m \in Movers(i) : pc'[m] = pc[m]
  BY <1>1, <1>3 DEF TypeOK, Movers
<1>5. \A d \in Domains : <<d, i>> \notin archive'
  <2>1. CASE MlRestore(i)
    BY <2>1 DEF MlRestore, OneCopy, StoredAt, TypeOK
  <2>2. CASE \A d \in Domains : <<d, i>> \notin archive /\ UNCHANGED store
    BY <2>2 DEF store
  <2> QED BY <2>1, <2>2 DEF Restore
<1>6. \A d \in Domains : StoredAt(d, i)' <=> StoredAt(d, i)
  <2>1. CASE MlRestore(i)
    <3> PICK e \in Domains :
           /\ <<e, i>> \in archive
           /\ live' = [live EXCEPT ![e] = @ \cup {i}] /\ archive' = archive \ {<<e, i>>}
      BY <2>1 DEF MlRestore
    <3> QED BY DEF StoredAt, TypeOK
  <2>2. CASE UNCHANGED store
    BY <2>2 DEF store, StoredAt
  <2> QED BY <2>1, <2>2 DEF Restore
<1>7. OneCopy(i)' /\ Attributed(i)'
  BY <1>5, <1>6 DEF OneCopy, Attributed
<1>8. AtRow(i)'
  <2> SUFFICES ASSUME FewChanges(i)', NEW d \in Domains, StoredAt(d, i)' PROVE Placed(i, d)'
    BY DEF AtRow
  <2>1. FewChanges(i)
    BY <1>1, SameCalls DEF FewChanges
  <2>2. Placed(i, d)
    BY <1>6, <2>1 DEF AtRow
  <2>3. (\A b \in Calls : pc[b] = "restore" => Id(b) # i) => FALSE
    BY <1>1
  <2> QED BY <1>1, <1>4, <2>2, <2>3, PlacedStays
<1> QED BY <1>7, <1>8

\* What is known of the calls that move i, when c is one of them and changes no record
\* for a delete.
LEMMA OnlyMover ==
  ASSUME UNCHANGED arg, NEW i \in Ids, NEW c \in Movers(i), FewChanges(i)
  PROVE  Movers(i) = {c} /\ Movers(i)' = {c} /\ c \in Calls /\ c \notin Deleters(i)
<1>1. Movers(i) = {c}
  BY DEF FewChanges
<1>2. c \in Calls /\ c \notin Deleters(i)
  BY DEF Movers, Deleters, Asked
<1> QED BY <1>1, <1>2, SameCalls

\* A call in a step of the move handler is among those that move its id.
LEMMA IsMover ==
  ASSUME TypeOK, NEW c \in Calls, pc[c] \in InFlight, arg[c].op = "move"
  PROVE  /\ c \in Movers(Id(c)) /\ c \notin Deleters(Id(c))
         /\ Src(c) \in Domains /\ Dst(c) \in Domains
BY NoCallAssumption DEF TypeOK, Movers, Deleters, Asked, Requests, Src, Dst

\* The archived copies keep their explanation while no call that deletes takes a step.
LEMMA StaysAttributed ==
  ASSUME UNCHANGED <<arg, archive>>, events \subseteq events', NEW i \in Ids, Attributed(i),
         \A c \in Deleters(i) : pc'[c] = pc[c]
  PROVE  Attributed(i)'
<1> SUFFICES ASSUME NEW d \in Domains, <<d, i>> \in archive
             PROVE  /\ Deleters(i)' # {}
                    /\ \/ \E e \in events' : e.action = "delete" /\ e.id = i /\ e.domain = d
                       \/ \E c \in Deleters(i)' : pc'[c] \in {"event", "restore"} /\ Src(c)' = d
  BY DEF Attributed
<1>1. Deleters(i)' = Deleters(i) /\ \A c \in Calls : Src(c)' = Src(c)
  BY SameCalls
<1>2. \A c \in Deleters(i) : c \in Calls
  BY DEF Deleters
<1> QED BY <1>1, <1>2 DEF Attributed

\* The move takes the record from the domain of its row to its destination.
LEMMA MoveTracks ==
  ASSUME TypeOK, Phases, NEW c \in Calls, NEW i \in Ids, Id(c) = i,
         Move(c), Id(c) \in live[Src(c)],
         OneCopy(i), Attributed(i), AtRow(i)
  PROVE  OneCopy(i)' /\ Attributed(i)' /\ AtRow(i)'
<1>1. /\ pc[c] = "move" /\ pc' = [pc EXCEPT ![c] = "event"]
      /\ live' = [live EXCEPT ![Src(c)] = @ \ {i}, ![Dst(c)] = @ \cup {i}]
      /\ UNCHANGED <<arg, archive, meta, events, faults>>
  BY DEF Move, MlMove, GoTo, db, task
<1>2. /\ c \in Movers(i) /\ c \notin Deleters(i)
      /\ Src(c) \in Domains /\ Dst(c) \in Domains
  BY <1>1, IsMover DEF InFlight, MoveSteps, Phases
<1>3. \A d \in Domains : StoredAt(d, i)' => d = Dst(c)
  BY <1>1, <1>2 DEF StoredAt, OneCopy, TypeOK
<1>4. \A d \in Domains : <<d, i>> \notin archive'
  BY <1>1, <1>2 DEF OneCopy, StoredAt
<1>5. OneCopy(i)' /\ Attributed(i)'
  BY <1>3, <1>4 DEF OneCopy, Attributed
<1>6. AtRow(i)'
  <2> SUFFICES ASSUME FewChanges(i)', NEW d \in Domains, StoredAt(d, i)' PROVE Placed(i, d)'
    BY DEF AtRow
  <2>1. FewChanges(i)
    BY <1>1, SameCalls DEF FewChanges
  <2>2. Movers(i) = {c} /\ Movers(i)' = {c}
    BY <1>1, <1>2, <2>1, OnlyMover
  <2>3. Placed(i, Src(c)) /\ i \in live[Src(c)]
    BY <1>2, <2>1 DEF AtRow, StoredAt
  <2>4. meta[i] = Src(c)
    BY <1>1, <2>2, <2>3 DEF Placed, Relocating
  <2>5. pc'[c] \in Relocating /\ Src(c)' = meta'[i] /\ Dst(c)' = d
    BY <1>1, <1>3, <2>4, SameCalls DEF Relocating, TypeOK
  <2> QED BY <2>2, <2>5 DEF Placed
<1> QED BY <1>5, <1>6

\* The move's insert or update failed: the record goes back to the domain of its row, or
\* it was archived meanwhile and stays in the archive of the destination.
LEMMA MoveBackTracks ==
  ASSUME TypeOK, Phases, FaultsCounted, NEW c \in Calls, NEW i \in Ids, Id(c) = i, MoveBack(c),
         OneCopy(i), Attributed(i), AtRow(i)
  PROVE  OneCopy(i)' /\ Attributed(i)' /\ AtRow(i)'
<1>1. /\ pc[c] = "moveBack" /\ pc' = [pc EXCEPT ![c] = "done"]
      /\ UNCHANGED <<arg, meta, events, faults>>
  BY DEF MoveBack, Answer, db, task
<1>2. /\ c \in Movers(i) /\ c \notin Deleters(i)
      /\ Src(c) \in Domains /\ Dst(c) \in Domains
  BY <1>1, IsMover DEF InFlight, MoveSteps, Phases
<1>3. UNCHANGED archive
  BY DEF MoveBack, MlMove, store
<1>4. \A b \in Deleters(i) : pc'[b] = pc[b]
  BY <1>1, <1>2 DEF Deleters, TypeOK
<1>5. Attributed(i)'
  BY <1>1, <1>3, <1>4, StaysAttributed
<1>6. ASSUME FewChanges(i)'
      PROVE  /\ FewChanges(i) /\ Movers(i) = {c} /\ Movers(i)' = {c}
             /\ \A d \in Domains : StoredAt(d, i) => meta[i] = Src(c) /\ d = Dst(c)
  <2>1. FewChanges(i)
    BY <1>1, <1>6, SameCalls DEF FewChanges
  <2>2. Movers(i) = {c} /\ Movers(i)' = {c}
    BY <1>1, <1>2, <2>1, OnlyMover
  <2>3. ASSUME NEW d \in Domains, StoredAt(d, i) PROVE meta[i] = Src(c) /\ d = Dst(c)
    <3>1. Placed(i, d)
      BY <2>1, <2>3 DEF AtRow
    <3> QED BY <1>1, <2>2, <3>1 DEF Placed, Relocating
  <2> QED BY <2>1, <2>2, <2>3
<1>7. CASE MlMove(Dst(c), Src(c), Id(c))
  <2>1. i \in live[Dst(c)] /\ live' = [live EXCEPT ![Dst(c)] = @ \ {i}, ![Src(c)] = @ \cup {i}]
    BY <1>7 DEF MlMove
  <2>2. \A d \in Domains : StoredAt(d, i)' => d = Src(c)
    BY <1>2, <1>3, <2>1 DEF StoredAt, OneCopy, TypeOK
  <2>3. \A d \in Domains : <<d, i>> \notin archive'
    BY <1>2, <1>3, <2>1 DEF OneCopy, StoredAt
  <2>4. OneCopy(i)'
    BY <2>2, <2>3 DEF OneCopy
  <2>5. ASSUME FewChanges(i)', NEW d \in Domains, StoredAt(d, i)' PROVE Placed(i, d)'
    <3>1. meta[i] = Src(c)
      BY <1>2, <1>6, <2>1, <2>5 DEF StoredAt
    <3>2. meta'[i] = d /\ pc'[c] \notin Relocating
      BY <1>1, <2>2, <2>5, <3>1 DEF Relocating, TypeOK
    <3> QED BY <1>6, <2>5, <3>2 DEF Placed
  <2> QED BY <1>5, <2>4, <2>5 DEF AtRow
<1>8. CASE Id(c) \notin live[Dst(c)] /\ UNCHANGED store
  <2>1. \A d \in Domains : StoredAt(d, i)' <=> StoredAt(d, i)
    BY <1>8 DEF store, StoredAt
  <2>2. OneCopy(i)'
    BY <1>8, <2>1 DEF OneCopy, store
  <2>3. ASSUME FewChanges(i)', NEW d \in Domains, StoredAt(d, i)' PROVE Placed(i, d)'
    <3>1. d = Dst(c) /\ <<d, i>> \in archive /\ i \notin live'[d]
      BY <1>6, <1>8, <2>1, <2>3 DEF StoredAt, store
    <3>2. Deleters(i) # {}
      BY <3>1 DEF Attributed
    <3>3. faults["db"] <= 1 /\ faults["db"] >= 1 /\ faults["db"] \in Nat
      BY <1>1, <1>6, <2>3, <3>2, BoundsAssumption
         DEF FewChanges, FaultsCounted, UndoSteps, TypeOK, FaultKinds
    <3>4. \A b \in Calls : pc[b] # "restore"
      BY <1>1, <3>3 DEF FaultsCounted, UndoSteps
    <3>5. \A b \in Calls : pc'[b] # "restore"
      BY <1>1, <3>4 DEF TypeOK
    <3>6. pc'[c] \notin Relocating
      BY <1>1 DEF TypeOK, Relocating
    <3> QED BY <1>1, <1>6, <2>3, <3>1, <3>3, <3>5, <3>6 DEF Placed
  <2> QED BY <1>5, <2>2, <2>3 DEF AtRow
<1> QED BY <1>7, <1>8 DEF MoveBack

\* The row follows the record.
LEMMA RelabelTracks ==
  ASSUME TypeOK, Phases, NEW c \in Calls, NEW i \in Ids, Id(c) = i, Relabel(c),
         OneCopy(i), Attributed(i), AtRow(i)
  PROVE  OneCopy(i)' /\ Attributed(i)' /\ AtRow(i)'
<1>1. /\ pc[c] = "relabel" /\ pc' = [pc EXCEPT ![c] = "sweep"]
      /\ meta' = IF meta[i] = NoRow THEN meta ELSE [meta EXCEPT ![i] = Dst(c)]
      /\ UNCHANGED <<live, archive, arg, events, faults>>
  BY DEF Relabel, GoTo, store, task
<1>2. /\ c \in Movers(i) /\ c \notin Deleters(i)
      /\ Src(c) \in Domains /\ Dst(c) \in Domains
  BY <1>1, IsMover DEF InFlight, MoveSteps, Phases
<1>3. \A b \in Deleters(i) : pc'[b] = pc[b]
  BY <1>1, <1>2 DEF Deleters, TypeOK
<1>4. Attributed(i)'
  BY <1>1, <1>3, StaysAttributed
<1>5. \A d \in Domains : StoredAt(d, i)' <=> StoredAt(d, i)
  BY <1>1 DEF StoredAt
<1>6. OneCopy(i)'
  BY <1>1, <1>5 DEF OneCopy
<1>7. ASSUME FewChanges(i)', NEW d \in Domains, StoredAt(d, i)' PROVE Placed(i, d)'
  <2>1. FewChanges(i)
    BY <1>1, <1>7, SameCalls DEF FewChanges
  <2>2. Movers(i) = {c} /\ Movers(i)' = {c}
    BY <1>1, <1>2, <2>1, OnlyMover
  <2>3. Placed(i, d)
    BY <1>5, <1>7, <2>1 DEF AtRow
  <2>4. Src(c) = meta[i] /\ Dst(c) = d
    BY <1>1, <2>2, <2>3 DEF Placed, Relocating
  <2>5. meta'[i] = d /\ pc'[c] \notin Relocating
    BY <1>1, <1>2, <2>4, NullAssumption DEF TypeOK, Relocating
  <2> QED BY <2>2, <2>5 DEF Placed
<1> QED BY <1>4, <1>6, <1>7 DEF AtRow

\* A call on its way from the `ml` command to the end of a move keeps the record placed.
LEMMA MoveGoesOn ==
  ASSUME TypeOK, UNCHANGED <<live, archive, meta, arg>>,
         NEW i \in Ids, NEW c \in Movers(i), pc[c] \in Relocating, pc'[c] \in Relocating,
         FewChanges(i) \/ ~FewChanges(i)', AtRow(i)
  PROVE  AtRow(i)'
<1> SUFFICES ASSUME FewChanges(i)', NEW d \in Domains, StoredAt(d, i)' PROVE Placed(i, d)'
  BY DEF AtRow
<1>1. Movers(i) = {c} /\ Movers(i)' = {c} /\ c \in Calls
  BY OnlyMover
<1>2. Placed(i, d)
  BY DEF AtRow, StoredAt
<1>3. Src(c) = meta[i] /\ Dst(c) = d
  BY <1>1, <1>2 DEF Placed
<1>4. Src(c)' = meta'[i] /\ Dst(c)' = d
  BY <1>1, <1>3, SameCalls
<1> QED BY <1>1, <1>4 DEF Placed

LEMMA CreateEventTracks ==
  ASSUME TypeOK, Phases, DeletesStay, NEW c \in Calls, NEW i \in Ids, Id(c) = i, CreateEvent(c),
         Writers(i) = {}, OneCopy(i), Attributed(i), AtRow(i)
  PROVE  OneCopy(i)' /\ Attributed(i)' /\ AtRow(i)'
<1>1. /\ pc[c] = "event" /\ UNCHANGED <<live, archive, meta, arg, faults>>
      /\ events' = events \cup
           {[by |-> c, action |-> arg[c].op, id |-> i, domain |-> Dst(c)]}
  BY DEF CreateEvent, store, task
<1>2. arg[c] \in Requests /\ arg[c] # NoCall
  BY <1>1, NoCallAssumption DEF TypeOK, InFlight, SharedSteps
<1>3. arg[c].op \in {"delete", "move"}
  BY <1>2 DEF Writers, Asked, Requests, CallOps
<1>4. \A d \in Domains : StoredAt(d, i)' <=> StoredAt(d, i)
  BY <1>1 DEF StoredAt
<1>5. OneCopy(i)'
  BY <1>1, <1>4 DEF OneCopy
<1>6. FewChanges(i)' => FewChanges(i)
  BY <1>1, SameCalls DEF FewChanges
<1>7. CASE arg[c].op = "move"
  <2>1. pc' = [pc EXCEPT ![c] = "relabel"]
    BY <1>7 DEF CreateEvent, AfterEvent, GoTo
  <2>2. c \in Movers(i) /\ c \notin Deleters(i)
    BY <1>1, <1>7, IsMover DEF InFlight, SharedSteps
  <2>3. \A b \in Deleters(i) : pc'[b] = pc[b]
    BY <2>1, <2>2 DEF Deleters, TypeOK
  <2>4. Attributed(i)'
    BY <1>1, <2>3, StaysAttributed
  <2>5. pc[c] \in Relocating /\ pc'[c] \in Relocating
    BY <1>1, <2>1 DEF Relocating, TypeOK
  <2>6. AtRow(i)'
    BY <1>1, <1>6, <2>2, <2>5, MoveGoesOn
  <2> QED BY <1>5, <2>4, <2>6
<1>8. CASE arg[c].op = "delete"
  <2>1. pc' = [pc EXCEPT ![c] = "sweep"]
    BY <1>8 DEF CreateEvent, AfterEvent, GoTo
  <2>2. c \in Deleters(i) /\ c \notin Movers(i) /\ Dst(c) = Src(c)
    BY <1>2, <1>8 DEF Deleters, Movers, Asked, DeletesStay
  <2>3. \E e \in events' : e.action = "delete" /\ e.id = i /\ e.domain = Src(c)
    <3> DEFINE e == [by |-> c, action |-> arg[c].op, id |-> i, domain |-> Dst(c)]
    <3>1. e \in events' /\ e.action = "delete" /\ e.id = i /\ e.domain = Src(c)
      BY <1>1, <1>8, <2>2
    <3> QED BY <3>1
  <2>4. Attributed(i)'
    <3> SUFFICES ASSUME NEW d \in Domains, <<d, i>> \in archive
                 PROVE  /\ Deleters(i)' # {}
                        /\ \/ \E e \in events' : e.action = "delete" /\ e.id = i /\ e.domain = d
                           \/ \E b \in Deleters(i)' : pc'[b] \in {"event", "restore"} /\ Src(b)' = d
      BY <1>1 DEF Attributed
    <3>1. Deleters(i)' = Deleters(i) /\ \A b \in Calls : Src(b)' = Src(b)
      BY <1>1, SameCalls
    <3>2. \A b \in Deleters(i) : b \in Calls
      BY DEF Deleters
    <3>3. CASE \E e \in events : e.action = "delete" /\ e.id = i /\ e.domain = d
      BY <1>1, <2>2, <3>1, <3>3
    <3>4. CASE \E b \in Deleters(i) : pc[b] \in {"event", "restore"} /\ Src(b) = d
      <4>1. PICK b \in Deleters(i) : pc[b] \in {"event", "restore"} /\ Src(b) = d
        BY <3>4
      <4>2. CASE b = c
        BY <2>2, <2>3, <3>1, <4>1, <4>2
      <4>3. CASE b # c
        BY <2>1, <3>1, <3>2, <4>1, <4>3 DEF TypeOK
      <4> QED BY <4>2, <4>3
    <3> QED BY <3>3, <3>4 DEF Attributed
  <2>5. ASSUME FewChanges(i)', NEW d \in Domains, StoredAt(d, i)' PROVE Placed(i, d)'
    <3>1. Placed(i, d)
      BY <1>4, <1>6, <2>5 DEF AtRow
    <3>2. \A m \in Movers(i) : pc'[m] = pc[m]
      BY <2>1, <2>2 DEF Movers, TypeOK
    <3>3. \A b \in Calls : pc'[b] = "restore" => pc[b] = "restore"
      BY <2>1 DEF TypeOK
    <3> QED BY <1>1, <3>1, <3>2, <3>3, PlacedStays
  <2> QED BY <1>5, <2>4, <2>5 DEF AtRow
<1> QED BY <1>3, <1>7, <1>8

LEMMA DbFailsTracks ==
  ASSUME TypeOK, Phases, [Next]_vars, NEW c \in Calls, NEW i \in Ids, Id(c) = i, DbFails(c),
         Writers(i) = {}, OneCopy(i), Attributed(i), AtRow(i)
  PROVE  OneCopy(i)' /\ Attributed(i)' /\ AtRow(i)'
<1>1. /\ pc[c] \in {"meta", "event", "relabel"} /\ UNCHANGED <<live, archive, meta, events, arg>>
      /\ pc' = [pc EXCEPT ![c] = Undo(arg[c].op)]
  BY DEF DbFails, store, db, task, GoTo
<1>0. /\ faults["db"] \in Nat /\ faults'["db"] = faults["db"] + 1
  BY <1>1, CountsKeep, BoundsAssumption DEF TypeOK, FaultKinds
<1>2. arg[c] \in Requests /\ arg[c] # NoCall
  BY <1>1, NoCallAssumption DEF TypeOK, InFlight, SharedSteps, WriteSteps, MoveSteps
<1>3. arg[c].op \in {"delete", "move"}
  BY <1>2 DEF Writers, Asked, Requests, CallOps
<1>4. \A d \in Domains : StoredAt(d, i)' <=> StoredAt(d, i)
  BY <1>1 DEF StoredAt
<1>5. OneCopy(i)'
  BY <1>1, <1>4 DEF OneCopy
<1>6. FewChanges(i)' => FewChanges(i)
  BY <1>0, <1>1, SameCalls DEF FewChanges
<1>7. CASE arg[c].op = "move"
  <2>1. pc' = [pc EXCEPT ![c] = "moveBack"] /\ pc[c] \in {"event", "relabel"}
    BY <1>1, <1>7 DEF Undo, Phases, WriteSteps
  <2>2. c \in Movers(i) /\ c \notin Deleters(i)
    BY <2>1, <1>7, IsMover DEF InFlight, SharedSteps, MoveSteps
  <2>3. \A b \in Deleters(i) : pc'[b] = pc[b]
    BY <2>1, <2>2 DEF Deleters, TypeOK
  <2>4. Attributed(i)'
    BY <1>1, <2>3, StaysAttributed
  <2>5. pc[c] \in Relocating /\ pc'[c] \in Relocating
    BY <2>1 DEF Relocating, TypeOK
  <2>6. AtRow(i)'
    BY <1>1, <1>6, <2>2, <2>5, MoveGoesOn
  <2> QED BY <1>5, <2>4, <2>6
<1>8. CASE arg[c].op = "delete"
  <2>1. pc' = [pc EXCEPT ![c] = "restore"] /\ pc[c] = "event"
    BY <1>1, <1>8 DEF Undo, Phases, WriteSteps, MoveSteps
  <2>2. c \in Deleters(i) /\ c \notin Movers(i)
    BY <1>2, <1>8 DEF Deleters, Movers, Asked
  <2>3. Deleters(i)' = Deleters(i) /\ Movers(i)' = Movers(i)
        /\ \A b \in Calls : Src(b)' = Src(b) /\ Dst(b)' = Dst(b)
    BY <1>1, SameCalls
  <2>4. Attributed(i)'
    <3> SUFFICES ASSUME NEW d \in Domains, <<d, i>> \in archive
                 PROVE  /\ Deleters(i)' # {}
                        /\ \/ \E e \in events' : e.action = "delete" /\ e.id = i /\ e.domain = d
                           \/ \E b \in Deleters(i)' : pc'[b] \in {"event", "restore"} /\ Src(b)' = d
      BY <1>1 DEF Attributed
    <3>1. \A b \in Deleters(i) : b \in Calls /\
             (pc[b] \in {"event", "restore"} => pc'[b] \in {"event", "restore"})
      BY <2>1 DEF Deleters, TypeOK
    <3> QED BY <1>1, <2>3, <3>1 DEF Attributed
  <2>5. ASSUME FewChanges(i)', NEW d \in Domains, StoredAt(d, i)' PROVE Placed(i, d)'
    <3>1. Placed(i, d)
      BY <1>4, <1>6, <2>5 DEF AtRow
    <3>2. \A m \in Movers(i) : pc'[m] = pc[m] /\ m \in Calls
      BY <2>1, <2>2 DEF Movers, TypeOK
    <3>3. ~(faults["db"] >= 1)
      BY <1>0, <2>2, <2>3, <2>5 DEF FewChanges
    <3>4. CASE \E m \in Movers(i) : pc[m] \in Relocating /\ Src(m) = meta[i] /\ Dst(m) = d
      BY <1>1, <2>3, <3>2, <3>4 DEF Placed
    <3>5. CASE (\A m \in Movers(i) : pc[m] \notin Relocating) /\ meta[i] = d
      BY <1>1, <2>3, <3>2, <3>5 DEF Placed
    <3> QED BY <3>1, <3>3, <3>4, <3>5 DEF Placed
  <2> QED BY <1>5, <2>4, <2>5 DEF AtRow
<1> QED BY <1>3, <1>7, <1>8

LEMMA TrackStep ==
  ASSUME TypeOK, Phases, Answered, TrackInv, [Next]_vars
  PROVE  TrackInv'
<1>1. FaultsCounted' /\ DeletesStay'
  BY FaultsCountedStep, DeletesStayStep DEF TrackInv
<1>2. ASSUME NEW i \in Ids, Tracked(i)' PROVE OneCopy(i)' /\ Attributed(i)' /\ AtRow(i)'
  <2>1. /\ Tracked(i)
        /\ ~Crash /\ ~\E c \in Calls : MlFails(c)
        /\ ~\E d \in Domains, j \in Ids : AdminDelete(d, j)
        /\ ~\E j \in Ids : AdminRestore(j)
        /\ \A c \in Calls : Id(c) = i => pc[c] \notin WriteSteps
    BY <1>2, TrackedBefore
  <2>2. OneCopy(i) /\ Attributed(i) /\ AtRow(i) /\ FaultsCounted /\ DeletesStay
    BY <2>1 DEF TrackInv
  <2>3. Writers(i) = {}
    BY <2>1 DEF Tracked
  <2>4. CASE Quiet(i)
    BY <1>2, <2>2, <2>4, QuietTracks
  <2>5. CASE UNCHANGED vars
    BY <2>4, <2>5 DEF vars, Quiet, Id
  <2>6. ASSUME NEW c \in Calls, Step(c), Id(c) = i
        PROVE  OneCopy(i)' /\ Attributed(i)' /\ AtRow(i)'
    <3>1. CASE \/ \E d \in Domains : ScanDomain(c, d)
               \/ PassPrecheck(c) \/ Record(c) \/ NotWritten(c) \/ Tidy(c)
               \/ CreateMeta(c) \/ MetaTaken(c) \/ Rollback(c)
      BY <2>1, <2>6, <3>1 DEF ScanDomain, PassPrecheck, Record, NotWritten, Tidy, CreateMeta,
         MetaTaken, Rollback, WriteSteps
    <3>2. CASE Archive(c) /\ Id(c) \in live[Src(c)]
      BY <2>2, <2>6, <3>2, ArchiveTracks
    <3>3. CASE Move(c) /\ Id(c) \in live[Src(c)]
      BY <2>2, <2>6, <3>3, MoveTracks
    <3>4. CASE \/ Sweep(c) \/ Unlink(c)
               \/ Archive(c) /\ Id(c) \notin live[Src(c)]
               \/ Move(c) /\ Id(c) \notin live[Src(c)]
      BY <2>4, <2>6, <3>4, IdleIsQuiet
    <3>5. CASE Restore(c)
      BY <2>2, <2>6, <3>5, RestoreTracks
    <3>6. CASE MoveBack(c)
      BY <2>2, <2>6, <3>6, MoveBackTracks
    <3>7. CASE Relabel(c)
      BY <2>2, <2>6, <3>7, RelabelTracks
    <3>8. CASE CreateEvent(c)
      BY <2>2, <2>3, <2>6, <3>8, CreateEventTracks
    <3> QED BY <2>6, <3>1, <3>2, <3>3, <3>4, <3>5, <3>6, <3>7, <3>8 DEF Step
  <2>7. ASSUME NEW c \in Calls, Start(c) PROVE Quiet(i)
    BY <2>7, StartIsQuiet
  <2>8. ASSUME NEW c \in Calls, Step(c) \/ DbFails(c), Id(c) # i PROVE Quiet(i)
    BY <2>8, ElsewhereIsQuiet
  <2>9. ASSUME NEW c \in Calls, DbFails(c), Id(c) = i
        PROVE  OneCopy(i)' /\ Attributed(i)' /\ AtRow(i)'
    BY <2>2, <2>3, <2>9, DbFailsTracks
  <2> QED BY <2>1, <2>4, <2>5, <2>6, <2>7, <2>8, <2>9 DEF Next, Rest
<1> QED BY <1>1, <1>2 DEF TrackInv

\* When inserts of deletes and moves fail, the undo leaves no deleted record without its
\* event and no moved one away from its row, whatever deletes and moves of that record
\* overlap and however often the database fails (with the provisos of the property).
THEOREM FailedInsertsLeaveNoTrace == Spec => []ChangesAreTracked
<1>1. Init => TrackInv
  <2> SUFFICES ASSUME Init PROVE TrackInv
    OBVIOUS
  <2>1. FaultsCounted /\ DeletesStay
    BY DEF Init, FaultsCounted, UndoSteps, DeletesStay, Asked
  <2>2. ASSUME NEW i \in Ids PROVE OneCopy(i) /\ Attributed(i) /\ AtRow(i)
    <3>1. \A d \in Domains : StoredAt(d, i) => i \in InitLive[d] /\ <<d, i>> \notin archive
      BY DEF Init, StoredAt
    <3>2. OneCopy(i) /\ Attributed(i)
      BY <3>1, InitLiveAssumption DEF OneCopy, Attributed, StoredAt, Init
    <3>3. ASSUME NEW d \in Domains, StoredAt(d, i) PROVE Placed(i, d)
      <4> DEFINE h == CHOOSE e \in Domains : i \in InitLive[e]
      <4>1. h \in Domains /\ i \in InitLive[h] /\ i \in InitLive[d]
        BY <3>1, <3>3
      <4>2. h = d
        BY <4>1, InitLiveAssumption
      <4>3. meta[i] = h
        BY <4>1 DEF Init
      <4>4. \A m \in Movers(i) : pc[m] \notin Relocating
        BY DEF Init, Movers, Relocating
      <4> QED BY <4>2, <4>3, <4>4 DEF Placed
    <3> QED BY <3>2, <3>3 DEF AtRow
  <2> QED BY <2>1, <2>2 DEF TrackInv
<1>2. TypeOK /\ TrackInv => ChangesAreTracked
  <2> SUFFICES ASSUME TypeOK, TrackInv, NEW d \in Domains, NEW i \in Ids, Tracked(i)
               PROVE  /\ <<d, i>> \in archive =>
                         \/ \E e \in events : e.action = "delete" /\ e.id = i /\ e.domain = d
                         \/ \E c \in Calls : pc[c] \in {"event", "restore"} /\ Src(c) = d /\ Id(c) = i
                      /\ i \in live[d] /\ FewChanges(i) =>
                         \/ meta[i] = d
                         \/ \E c \in Movers(i) : pc[c] \in Relocating
    BY DEF ChangesAreTracked, Tracked, FewChanges, Relocating
  <2>1. OneCopy(i) /\ Attributed(i) /\ AtRow(i)
    BY DEF TrackInv
  <2>2. \A c \in Deleters(i) : c \in Calls /\ Id(c) = i
    BY DEF Deleters
  <2>3. i \in live[d] /\ FewChanges(i) => Placed(i, d)
    BY <2>1 DEF AtRow, StoredAt
  <2> QED BY <2>1, <2>2, <2>3 DEF Attributed, Placed
<1> QED BY <1>1, <1>2, TrackStep, AlwaysAnswered, PTL DEF Spec

=============================================================================
