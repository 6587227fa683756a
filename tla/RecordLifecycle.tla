--------------------------- MODULE RecordLifecycle ---------------------------
(***************************************************************************)
(* Where the records of one project are, and what the database says about  *)
(* it.  A record is written, moved, deleted and restored by `ml`, a command *)
(* line tool that keeps one JSONL file per domain (each call of it holds    *)
(* the file lock, so a call is one step here); the RecordMeta row and the   *)
(* RecordEvent rows are inserted afterwards, one await each.  A tool call   *)
(* is a task of the event loop: it may be overtaken at every await, which   *)
(* is where its actions below are cut.                                      *)
(*                                                                          *)
(* An id is `ml`'s content-derived record id: the hash of the type and the  *)
(* deduplication field, with no domain in it, so the same content written   *)
(* to two domains is the same id twice.                                     *)
(***************************************************************************)
EXTENDS Naturals, FiniteSets

CONSTANTS
    Calls,          \* the tool calls the server receives, each one a task
    Domains,        \* domain names, each a file expertise/<domain>.jsonl
    Ids,            \* record ids
    Ops,            \* the operations this instance exercises
    StrictDomains,  \* the values the strict_domains policy takes over time
    InitLive,       \* the records already on disk, [Domains -> SUBSET Ids]
    Faults,         \* which faults may strike: subset of {"db", "ml", "crash"}
    MaxFaults,      \* how many faults of each kind at most
    MaxAdmin,       \* how many admin-page requests at most
    NoRow,          \* the id has no RecordMeta row
    NoCall          \* the task has not received its arguments

CallOps == {"write", "delete", "move"}
AdminOps == {"adminDelete", "adminRestore"}

ASSUME OpsAssumption == Ops \subseteq CallOps \cup AdminOps
FaultKinds == {"db", "ml", "crash"}
ASSUME FaultsAssumption == Faults \subseteq FaultKinds
ASSUME BoundsAssumption == MaxFaults \in Nat /\ MaxAdmin \in Nat
ASSUME StrictAssumption == StrictDomains \subseteq BOOLEAN
ASSUME NullAssumption == NoRow \notin Domains

\* The preloaded records are ones the server wrote earlier: an id is in at
\* most one domain.
ASSUME InitLiveAssumption ==
    /\ InitLive \in [Domains -> SUBSET Ids]
    /\ \A d, e \in Domains : d # e => InitLive[d] \cap InitLive[e] = {}

Requests == [op : CallOps, id : Ids, src : Domains, dst : Domains]
ASSUME NoCallAssumption == NoCall \notin Requests

VARIABLES
    live,     \* live[d]: ids of the records in expertise/d.jsonl
    files,    \* the domains whose file exists (an empty one is still a domain)
    archive,  \* <<d, id>>: soft-deleted records, in archive/d.jsonl
    meta,     \* RecordMeta: the domain in the row of each id, unique per id
    events,   \* RecordEvent rows: [by, action, id, domain]
    pc,       \* the step each call is at
    arg,      \* the arguments of each call
    toScan,   \* the domain files a write's duplicate check has yet to read
    existed,  \* pre_existed: the domain file was there before the write
    reply,    \* what each call was answered
    faults,   \* how many faults of each kind struck so far
    admin     \* admin requests served so far

store == <<live, files, archive>>
db    == <<meta, events>>
task  == <<arg, toScan, existed>>
vars  == <<live, files, archive, meta, events, pc, arg, toScan, existed,
           reply, faults, admin>>

WriteSteps == {"scan", "record", "tidy", "meta", "collide", "rollback"}
DeleteSteps == {"archive", "restore"}
MoveSteps == {"move", "relabel", "moveBack"}
SharedSteps == {"event", "sweep", "unlink"}
InFlight == WriteSteps \cup DeleteSteps \cup MoveSteps \cup SharedSteps
Replies == {"none", "ok", "refused", "collision", "error", "lost"}
Events == [by : Calls, action : CallOps, id : Ids, domain : Domains]

TypeOK ==
    /\ live \in [Domains -> SUBSET Ids]
    /\ files \subseteq Domains
    /\ archive \subseteq Domains \X Ids
    /\ meta \in [Ids -> Domains \cup {NoRow}]
    /\ events \subseteq Events
    /\ pc \in [Calls -> InFlight \cup {"idle", "done"}]
    /\ arg \in [Calls -> Requests \cup {NoCall}]
    /\ \A c \in Calls : pc[c] \in InFlight => arg[c] \in Requests
    /\ toScan \in [Calls -> SUBSET Domains]
    /\ existed \in [Calls -> BOOLEAN]
    /\ reply \in [Calls -> Replies]
    /\ faults \in [FaultKinds -> 0..MaxFaults]
    /\ admin \in 0..MaxAdmin

Init ==
    /\ live = InitLive
    /\ files = {d \in Domains : InitLive[d] # {}}
    /\ archive = {}
    /\ meta = [i \in Ids |-> IF \E d \in Domains : i \in InitLive[d]
                             THEN CHOOSE d \in Domains : i \in InitLive[d]
                             ELSE NoRow]
    /\ events = {}
    /\ pc = [c \in Calls |-> "idle"]
    /\ arg = [c \in Calls |-> NoCall]
    /\ toScan = [c \in Calls |-> {}]
    /\ existed = [c \in Calls |-> FALSE]
    /\ reply = [c \in Calls |-> "none"]
    /\ faults = [k \in FaultKinds |-> 0]
    /\ admin = 0

-----------------------------------------------------------------------------
(* Moving a call along *)

GoTo(c, step) == pc' = [pc EXCEPT ![c] = step] /\ UNCHANGED reply
Answer(c, r) == pc' = [pc EXCEPT ![c] = "done"] /\ reply' = [reply EXCEPT ![c] = r]

MayStrike(kind) == kind \in Faults /\ faults[kind] < MaxFaults
NothingFailed == \A kind \in FaultKinds : faults[kind] = 0

Src(c) == arg[c].src
Dst(c) == arg[c].dst
Id(c) == arg[c].id

-----------------------------------------------------------------------------
(* The `ml` commands, each of them atomic.  Restoring names only the id, so  *)
(* `ml` picks among the archived records that carry it.                      *)

MlRecord(d, i) ==
    /\ i \notin live[d]
    /\ live' = [live EXCEPT ![d] = @ \cup {i}]
    /\ files' = files \cup {d}
    /\ UNCHANGED archive

MlArchive(d, i) ==
    /\ i \in live[d]
    /\ live' = [live EXCEPT ![d] = @ \ {i}]
    /\ archive' = archive \cup {<<d, i>>}
    /\ UNCHANGED files

MlRestore(i) ==
    \E d \in Domains :
        /\ <<d, i>> \in archive
        /\ live' = [live EXCEPT ![d] = @ \cup {i}]
        /\ files' = files \cup {d}
        /\ archive' = archive \ {<<d, i>>}

MlMove(from, to, i) ==
    /\ i \in live[from]
    /\ live' = [live EXCEPT ![from] = @ \ {i}, ![to] = @ \cup {i}]
    /\ files' = files \cup {to}
    /\ UNCHANGED archive

-----------------------------------------------------------------------------
(* write_*: _record_expertise *)

StartWrite(c) ==
    /\ "write" \in Ops /\ pc[c] = "idle"
    /\ \E i \in Ids, d \in Domains, strict \in StrictDomains :
        /\ arg' = [arg EXCEPT ![c] = [op |-> "write", id |-> i, src |-> d, dst |-> d]]
        /\ IF strict /\ d \notin files
           THEN Answer(c, "refused") /\ UNCHANGED toScan
           ELSE GoTo(c, "scan") /\ toScan' = [toScan EXCEPT ![c] = files]
    /\ UNCHANGED <<store, db, existed, faults, admin>>

\* get_project_records reads the files one after the other; one that vanished
\* since the directory was listed fails the call, one that holds the id (in
\* any domain) makes the write a duplicate.
ScanDomain(c, d) ==
    /\ pc[c] = "scan" /\ d \in toScan[c]
    /\ toScan' = [toScan EXCEPT ![c] = @ \ {d}]
    /\ \/ d \notin files /\ Answer(c, "error")
       \/ d \in files /\ Id(c) \in live[d] /\ Answer(c, "refused")
       \/ d \in files /\ Id(c) \notin live[d] /\ UNCHANGED <<pc, reply>>
    /\ UNCHANGED <<store, db, arg, existed, faults, admin>>

PassPrecheck(c) ==
    /\ pc[c] = "scan" /\ toScan[c] = {}
    /\ existed' = [existed EXCEPT ![c] = Src(c) \in files]
    /\ GoTo(c, "record")
    /\ UNCHANGED <<store, db, arg, toScan, faults, admin>>

Record(c) ==
    /\ pc[c] = "record"
    /\ MlRecord(Src(c), Id(c))
    /\ GoTo(c, "meta")
    /\ UNCHANGED <<db, task, faults, admin>>

\* `ml` found the record in that very file: it skipped the write or updated the
\* record in place (RecordNotWrittenError).
NotWritten(c) ==
    /\ pc[c] = "record" /\ Id(c) \in live[Src(c)]
    /\ pc' = [pc EXCEPT ![c] = "tidy"] /\ reply' = [reply EXCEPT ![c] = "refused"]
    /\ UNCHANGED <<store, db, task, faults, admin>>

\* Mutant of Tidy: removes a file it did not find before the write, empty or not.
TidyBlindly(c) ==
    /\ pc[c] = "tidy"
    /\ files' = IF ~existed[c] THEN files \ {Src(c)} ELSE files
    /\ live' = IF ~existed[c] THEN [live EXCEPT ![Src(c)] = {}] ELSE live
    /\ Answer(c, reply[c])
    /\ UNCHANGED <<archive, db, task, faults, admin>>

\* The domain file is removed again when this write brought it into being and
\* it is empty.
Tidy(c) ==
    /\ pc[c] = "tidy"
    /\ files' = IF ~existed[c] /\ live[Src(c)] = {} THEN files \ {Src(c)} ELSE files
    /\ Answer(c, reply[c])
    /\ UNCHANGED <<live, archive, db, task, faults, admin>>

\* Mutant of CreateMeta: no unique constraint, the row is overwritten.
CreateMetaUpsert(c) ==
    /\ pc[c] = "meta"
    /\ meta' = [meta EXCEPT ![Id(c)] = Src(c)]
    /\ GoTo(c, "event")
    /\ UNCHANGED <<store, events, task, faults, admin>>

CreateMeta(c) ==
    /\ pc[c] = "meta" /\ meta[Id(c)] = NoRow
    /\ meta' = [meta EXCEPT ![Id(c)] = Src(c)]
    /\ GoTo(c, "event")
    /\ UNCHANGED <<store, events, task, faults, admin>>

\* The unique constraint on (project, record_id): IntegrityError.
MetaTaken(c) ==
    /\ pc[c] = "meta" /\ meta[Id(c)] # NoRow
    /\ GoTo(c, "collide")
    /\ UNCHANGED <<store, db, task, faults, admin>>

\* Mutant of Rollback: the colliding copy is left where it is.
RollbackNothing(c) ==
    /\ pc[c] \in {"collide", "rollback"}
    /\ Answer(c, IF pc[c] = "collide" THEN "collision" ELSE "error")
    /\ UNCHANGED <<store, db, task, faults, admin>>

\* Both rollbacks archive whatever record carries the id in that file.
Rollback(c) ==
    /\ pc[c] \in {"collide", "rollback"}
    /\ \/ /\ MlArchive(Src(c), Id(c))
          /\ Answer(c, IF pc[c] = "collide" /\ meta[Id(c)] # NoRow
                       THEN "collision" ELSE "error")
       \/ /\ Id(c) \notin live[Src(c)]
          /\ Answer(c, "error") /\ UNCHANGED store
    /\ UNCHANGED <<db, task, faults, admin>>

-----------------------------------------------------------------------------
(* delete_record: _delete_record *)

\* _get_owned_record reads the file and refuses an id it does not hold.
StartDelete(c) ==
    /\ "delete" \in Ops /\ pc[c] = "idle"
    /\ \E i \in Ids, d \in Domains :
        /\ arg' = [arg EXCEPT ![c] = [op |-> "delete", id |-> i, src |-> d, dst |-> d]]
        /\ IF i \in live[d] THEN GoTo(c, "archive") ELSE Answer(c, "error")
    /\ UNCHANGED <<store, db, toScan, existed, faults, admin>>

\* Mutant of Archive: the RecordMeta row goes with the record.
ArchiveWithRow(c) ==
    /\ pc[c] = "archive"
    /\ \/ /\ MlArchive(Src(c), Id(c)) /\ GoTo(c, "event")
          /\ meta' = [meta EXCEPT ![Id(c)] = NoRow]
       \/ Id(c) \notin live[Src(c)] /\ Answer(c, "error") /\ UNCHANGED <<store, meta>>
    /\ UNCHANGED <<events, task, faults, admin>>

Archive(c) ==
    /\ pc[c] = "archive"
    /\ \/ MlArchive(Src(c), Id(c)) /\ GoTo(c, "event")
       \/ Id(c) \notin live[Src(c)] /\ Answer(c, "error") /\ UNCHANGED store
    /\ UNCHANGED <<db, task, faults, admin>>

Restore(c) ==
    /\ pc[c] = "restore"
    /\ \/ MlRestore(Id(c))
       \/ (\A d \in Domains : <<d, Id(c)>> \notin archive) /\ UNCHANGED store
    /\ Answer(c, "error")
    /\ UNCHANGED <<db, task, faults, admin>>

-----------------------------------------------------------------------------
(* move_record: _move_record *)

StartMove(c) ==
    /\ "move" \in Ops /\ pc[c] = "idle"
    /\ \E i \in Ids, d, e \in Domains :
        /\ arg' = [arg EXCEPT ![c] = [op |-> "move", id |-> i, src |-> d, dst |-> e]]
        /\ IF d # e /\ e \in files /\ i \in live[d]
           THEN GoTo(c, "move") ELSE Answer(c, "error")
    /\ UNCHANGED <<store, db, toScan, existed, faults, admin>>

Move(c) ==
    /\ pc[c] = "move"
    /\ \/ MlMove(Src(c), Dst(c), Id(c)) /\ GoTo(c, "event")
       \/ Id(c) \notin live[Src(c)] /\ Answer(c, "error") /\ UNCHANGED store
    /\ UNCHANGED <<db, task, faults, admin>>

\* Mutant of Relabel: the move ends without looking at the source file.
RelabelAndStop(c) ==
    /\ pc[c] = "relabel"
    /\ meta' = IF meta[Id(c)] = NoRow THEN meta ELSE [meta EXCEPT ![Id(c)] = Dst(c)]
    /\ Answer(c, "ok")
    /\ UNCHANGED <<store, events, task, faults, admin>>

\* RecordMeta...update(domain=target): no row, no effect.
Relabel(c) ==
    /\ pc[c] = "relabel"
    /\ meta' = IF meta[Id(c)] = NoRow THEN meta ELSE [meta EXCEPT ![Id(c)] = Dst(c)]
    /\ GoTo(c, "sweep")
    /\ UNCHANGED <<store, events, task, faults, admin>>

MoveBack(c) ==
    /\ pc[c] = "moveBack"
    /\ \/ MlMove(Dst(c), Src(c), Id(c))
       \/ Id(c) \notin live[Dst(c)] /\ UNCHANGED store
    /\ Answer(c, "error")
    /\ UNCHANGED <<db, task, faults, admin>>

-----------------------------------------------------------------------------
(* Steps the calls share *)

AfterEvent(op) == CASE op = "delete" -> "sweep" [] op = "move" -> "relabel"

CreateEvent(c) ==
    /\ pc[c] = "event"
    /\ events' = events \cup
         {[by |-> c, action |-> arg[c].op, id |-> Id(c), domain |-> Dst(c)]}
    /\ IF arg[c].op = "write" THEN Answer(c, "ok") ELSE GoTo(c, AfterEvent(arg[c].op))
    /\ UNCHANGED <<store, meta, task, faults, admin>>

\* Mutant of Undo: a delete carries on when its event could not be inserted.
UndoButDelete(op) == CASE op = "write" -> "rollback" [] op = "delete" -> "sweep"
                       [] op = "move" -> "moveBack"

\* An insert or update fails for a reason other than the unique constraint: the
\* `except Exception` branch undoes the `ml` step.
Undo(op) == CASE op = "write" -> "rollback" [] op = "delete" -> "restore"
              [] op = "move" -> "moveBack"

DbFails(c) ==
    /\ MayStrike("db")
    /\ pc[c] \in {"meta", "event", "relabel"}
    /\ GoTo(c, Undo(arg[c].op))
    /\ faults' = [faults EXCEPT !["db"] = @ + 1]
    /\ UNCHANGED <<store, db, task, admin>>

\* The source file is read after a delete or a move ...
Sweep(c) ==
    /\ pc[c] = "sweep"
    /\ IF Src(c) \in files /\ live[Src(c)] = {} THEN GoTo(c, "unlink") ELSE Answer(c, "ok")
    /\ UNCHANGED <<store, db, task, faults, admin>>

\* ... and removed when that read found no record, whatever it holds by now.
Unlink(c) ==
    /\ pc[c] = "unlink"
    /\ files' = files \ {Src(c)}
    /\ live' = [live EXCEPT ![Src(c)] = {}]
    /\ Answer(c, IF Src(c) \in files THEN "ok" ELSE "error")
    /\ UNCHANGED <<archive, db, task, faults, admin>>

-----------------------------------------------------------------------------
(* Faults of `ml` and of the process, and the admin pages *)

\* What the `ml` command of the current step would do.
MlEffect(c) ==
    \/ pc[c] = "record" /\ MlRecord(Src(c), Id(c))
    \/ pc[c] \in {"archive", "collide", "rollback"} /\ MlArchive(Src(c), Id(c))
    \/ pc[c] = "move" /\ MlMove(Src(c), Dst(c), Id(c))
    \/ pc[c] = "moveBack" /\ MlMove(Dst(c), Src(c), Id(c))
    \/ pc[c] = "restore" /\ MlRestore(Id(c))

\* `ml` exits with an error or is killed after 30s: the command may have taken
\* effect, and `ml record` may have left an empty domain file behind.
MlFails(c) ==
    /\ MayStrike("ml")
    /\ pc[c] \in {"record", "archive", "collide", "rollback", "move", "moveBack", "restore"}
    /\ \/ MlEffect(c)
       \/ UNCHANGED store
       \/ pc[c] = "record" /\ files' = files \cup {Src(c)} /\ UNCHANGED <<live, archive>>
    /\ reply' = [reply EXCEPT ![c] = "error"]
    /\ pc' = [pc EXCEPT ![c] = IF pc[c] = "record" THEN "tidy" ELSE "done"]
    /\ faults' = [faults EXCEPT !["ml"] = @ + 1]
    /\ UNCHANGED <<db, task, admin>>

\* The process dies: the tasks are gone, the files and the rows stay.
Crash ==
    /\ MayStrike("crash")
    /\ \E c \in Calls : pc[c] \in InFlight
    /\ pc' = [c \in Calls |-> IF pc[c] \in InFlight THEN "done" ELSE pc[c]]
    /\ reply' = [c \in Calls |-> IF pc[c] \in InFlight THEN "lost" ELSE reply[c]]
    /\ faults' = [faults EXCEPT !["crash"] = @ + 1]
    /\ UNCHANGED <<store, db, task, admin>>

\* The admin pages call `ml` and write no row; a bulk delete is one such call
\* per selected record, run concurrently.
AdminDelete(d, i) ==
    /\ "adminDelete" \in Ops /\ admin < MaxAdmin
    /\ MlArchive(d, i)
    /\ admin' = admin + 1
    /\ UNCHANGED <<db, pc, task, reply, faults>>

AdminRestore(i) ==
    /\ "adminRestore" \in Ops /\ admin < MaxAdmin
    /\ MlRestore(i)
    /\ admin' = admin + 1
    /\ UNCHANGED <<db, pc, task, reply, faults>>

-----------------------------------------------------------------------------
Start(c) == StartWrite(c) \/ StartDelete(c) \/ StartMove(c)

\* What a call in flight does next when nothing fails.
Step(c) ==
    \/ \E d \in Domains : ScanDomain(c, d)
    \/ PassPrecheck(c) \/ Record(c) \/ NotWritten(c) \/ Tidy(c)
    \/ CreateMeta(c) \/ MetaTaken(c) \/ Rollback(c)
    \/ Archive(c) \/ Restore(c) \/ Move(c) \/ Relabel(c) \/ MoveBack(c)
    \/ CreateEvent(c) \/ Sweep(c) \/ Unlink(c)

\* Between calls the server waits; a call stuck half way would be a deadlock.
Rest == (\A c \in Calls : pc[c] \in {"idle", "done"}) /\ UNCHANGED vars

Next ==
    \/ \E c \in Calls : Start(c) \/ Step(c) \/ DbFails(c) \/ MlFails(c)
    \/ Crash
    \/ \E d \in Domains, i \in Ids : AdminDelete(d, i)
    \/ \E i \in Ids : AdminRestore(i)
    \/ Rest

Spec == Init /\ [][Next]_vars

\* The event loop resumes a task whose await completed, and `ml` completes or is
\* killed after 30 seconds: a call in flight keeps going.  Nothing makes a
\* client call or an admin act.
FairSpec == Spec /\ \A c \in Calls : WF_vars(Step(c))
-----------------------------------------------------------------------------
(* Properties *)

\* c's own copy of i in domain d is on disk, or may be, without c having
\* registered it for good: it is about to be registered or rolled back.
Unsettled(c, i, d) ==
    /\ pc[c] \in {"meta", "collide", "rollback"}
    /\ Id(c) = i /\ Src(c) = d

Homes(i) == {d \in Domains : i \in live[d] /\ ~\E c \in Calls : Unsettled(c, i, d)}
OnDisk(i) == \E d \in Domains : i \in live[d] \/ <<d, i>> \in archive

\* RecordMeta is the arbiter of the race between writes of one content to two
\* domains: a copy no write is still deciding about is in the domain its row
\* names.
RegisteredHome == \A i \in Ids : \A d \in Homes(i) : meta[i] = d

Asked(c, o) == arg[c] # NoCall /\ arg[c].op = o

\* Two writes of the same content are never both told that they recorded it,
\* whatever insert, `ml` command or process failed in between.
OneAcknowledgedWriter == \A b, c \in Calls :
    /\ reply[b] = "ok" /\ Asked(b, "write")
    /\ reply[c] = "ok" /\ Asked(c, "write")
    /\ Id(b) = Id(c)
    => b = c

\* A rollback or a tidy-up of one write never takes away the record of another
\* write that was told "Recorded": only those who move or delete that record, or
\* records of its domain, do.
Disturbed(c) == admin > 0 \/ \E b \in Calls :
    /\ Asked(b, "delete") \/ Asked(b, "move")
    /\ Id(b) = Id(c) \/ Src(b) = Src(c)
AcknowledgedWriteSurvives == \A c \in Calls :
    reply[c] = "ok" /\ Asked(c, "write") /\ ~Disturbed(c) => Id(c) \in live[Src(c)]

Movers(i) == {c \in Calls : Asked(c, "move") /\ Id(c) = i}
Writers(i) == {c \in Calls : Asked(c, "write") /\ Id(c) = i}
Deleters(i) == {c \in Calls : Asked(c, "delete") /\ Id(c) = i}
MlAndProcessWork == faults["ml"] = 0 /\ faults["crash"] = 0

\* "instead of leaving a deleted-but-untracked record" or "an untracked location
\* change": when inserts fail, a record in the archive still has its delete event, and
\* a record that one call only has moved is where its row says, or the call is not
\* through yet.  Of an id that is being written there may be two copies, and
\* `ml restore` may bring back the other one; and when the inserts of a move and of a
\* delete fail both, the move finds nothing to take back and the delete restores the
\* record to where the move had put it.
ChangesAreTracked == MlAndProcessWork /\ admin = 0 =>
    \A d \in Domains, i \in {j \in Ids : Writers(j) = {}} :
        /\ <<d, i>> \in archive =>
            \/ \E e \in events : e.action = "delete" /\ e.id = i /\ e.domain = d
            \/ \E c \in Calls : pc[c] \in {"event", "restore"} /\ Src(c) = d /\ Id(c) = i
        /\ i \in live[d] /\ (\A b, c \in Movers(i) : b = c)
                /\ (Deleters(i) = {} \/ faults["db"] <= 1) =>
            \/ meta[i] = d
            \/ \E c \in Movers(i) : pc[c] \in {"event", "relabel", "moveBack"}

\* Whichever of several concurrent deletes and moves takes the last record of a
\* domain, one of them is left to remove the empty file.  The rollback of a write
\* is nobody's last delete, and an admin's delete leaves the file.
WriteRolledBack == \E c \in Calls :
    Asked(c, "write") /\ reply[c] \in {"collision", "error"}
EmptyFileIsSwept == NothingFailed /\ admin = 0 /\ ~WriteRolledBack =>
    \A d \in files : live[d] # {} \/ \E c \in Calls :
        pc[c] \in {"event", "relabel", "sweep", "unlink"} /\ Src(c) = d

\* The only step that loses a record (neither live nor archived any more) is the
\* removal of a domain file found empty earlier: no rollback, no tidy-up, no
\* fault and no crash does.
OnlyUnlinkLoses == [][
    \A i \in Ids : OnDisk(i) /\ ~OnDisk(i)' => \E c \in Calls : Unlink(c)]_vars

\* "mulchd can't allow that": while nothing fails, one id comes to settle in two
\* domains only when it is restored from the archive, or when a copy of it has been
\* moved, which may happen from under the write that is deciding about that copy.
Moved(i) ==
    \/ \E c \in Movers(i) : pc[c] = "event"
    \/ \E e \in events : e.action = "move" /\ e.id = i
Split(i) == \E d, e \in Homes(i) : d # e
OnlyMovesSplit == [][
    \A i \in Ids : NothingFailed' /\ ~Split(i) /\ Split(i)' =>
        Moved(i)' \/ AdminRestore(i)]_vars

\* Two copies of one id on disk are back to at most one in the end.
DuplicateResolves == \A i \in Ids :
    Cardinality({d \in Domains : i \in live[d]}) > 1
        ~> Cardinality({d \in Domains : i \in live[d]}) <= 1

\* What a reader may count on (module KnowledgeStore): the home of a record, as
\* its row and its file agree on it.
Unused == "unused"
Retired == "retired"
Home == [i \in Ids |->
    IF meta[i] = NoRow THEN Unused
    ELSE IF meta[i] \in Homes(i) THEN meta[i] ELSE Retired]
Store == INSTANCE KnowledgeStore WITH home <- Home
ImplementsKnowledgeStore == Store!Spec

-----------------------------------------------------------------------------
(* What comments of the code say, and the code does not do *)

\* tier2.py: a unique-constraint collision means that the content "was just
\* recorded in another domain by a concurrent write".
CollisionHasARival == \A c \in Calls : reply[c] = "collision" =>
    \E b \in Calls : Asked(b, "write") /\ Id(b) = Id(c) /\ Src(b) # Src(c)

=============================================================================
