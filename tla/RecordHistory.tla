---------------------------- MODULE RecordHistory ----------------------------
(***************************************************************************)
(* What happens to one record after it was written: edits, outcomes, and    *)
(* the history that is reconstructed from them.  An edit_record call reads  *)
(* the record, may wait for a person to approve it, has `ml` apply the new  *)
(* values, and then inserts a RecordEvent row and a RecordEdit row, one     *)
(* await each; nothing links the two rows but the session both carry.  The  *)
(* history of a record (get_record_history, the admin's record-activity     *)
(* page) pairs them up again, and the trust in its outcomes is judged from  *)
(* the RecordEdit rows.                                                     *)
(*                                                                          *)
(* The value an edit writes is the call itself, so the value of a field     *)
(* says who wrote it.  Every query filters on the record, so one record is  *)
(* enough; rows are inserted in the order of their `at`.                    *)
(***************************************************************************)
EXTENDS Naturals, Sequences, FiniteSets

CONSTANTS
    Calls,          \* the tool calls the server receives, each one a task
    Users,          \* the users that make them
    User,           \* who makes each call, [Calls -> Users]
    Editors,        \* the record's owner, and the admins
    Required,       \* the fields every record of this type has
    Optional,       \* the fields it has only once they are set (files, ...)
    ContentFields,  \* CONTENT_FIELD_KEYS: the required fields with the content
    Statuses,       \* outcome statuses
    Regimes,        \* what clients do and what may fail, see RegimesAssumption
    MaxFaults,      \* how many faults at most
    PageLimit,      \* the events the record-activity page shows (200)
    Original,       \* the value of a field as it was written
    Absent,         \* the value of an optional field that is not set
    AdminValue,     \* the value the admin's records page sets
    NoStatus        \* the call reports no status

Fields == Required \cup Optional

ASSUME UserAssumption == User \in [Calls -> Users] /\ Editors \subseteq Users
ASSUME FieldsAssumption == ContentFields \subseteq Required

\* The operations there are, the fields that edits set, which calls may be in
\* flight together (see MayStart) and which faults may strike.
ASSUME RegimesAssumption ==
    Regimes \subseteq [ops : SUBSET {"edit", "outcome", "adminEdit"},
                      fields : SUBSET Fields,
                      overlap : SUBSET {"ownCalls", "editors"},
                      faults : SUBSET {"db", "ml", "crash"}]
ASSUME BoundsAssumption == MaxFaults \in Nat /\ PageLimit \in Nat
ASSUME ValuesAssumption ==
    /\ {Original, AdminValue} \cap Calls = {}
    /\ Absent \notin Calls \cup {Original, AdminValue}
    /\ NoStatus \notin Statuses

VARIABLES
    value,     \* the record in the domain file, [Fields -> Values]
    outcomes,  \* its outcomes: [by, status, after, on], see AppendOutcome
    events,    \* RecordEvent rows with action "edit": [by, session]
    edits,     \* RecordEdit rows: [by, session, before]
    session,   \* _active_sessions: each user's session id, 0 when there is none
    issued,    \* how many session ids (uuid7) were issued
    pc,        \* the step each call is at
    fields,    \* the fields an edit sets
    status,    \* the status an outcome reports
    before,    \* before_snapshot: the fields to be set, as the call read them
    sid,       \* session_id: the session a call's rows carry
    reply,     \* what each call was answered
    faults,    \* faults injected so far
    regime     \* what this history goes through, chosen at the start

rows == <<events, edits>>
task == <<fields, status, before, sid>>
vars == <<value, outcomes, events, edits, session, issued, pc, fields, status,
          before, sid, reply, faults, regime>>

Values == Calls \cup {Original, Absent, AdminValue}
Snapshots == UNION {[S -> Values \ {Absent}] : S \in SUBSET Fields}
InFlight == {"gate", "event", "row", "undo", "append"}
Replies == {"none", "ok", "refused", "error", "lost"}

TypeOK ==
    /\ value \in [Fields -> Values]
    /\ \A f \in Required : value[f] # Absent
    /\ outcomes \subseteq [by : Calls, status : Statuses, after : Nat,
                           on : [ContentFields -> Values]]
    /\ events \in Seq([by : Calls, session : Nat \ {0}])
    /\ edits \in Seq([by : Calls, session : Nat \ {0}, before : Snapshots])
    /\ issued \in Nat
    /\ session \in [Users -> Nat]
    /\ pc \in [Calls -> InFlight \cup {"idle", "done"}]
    /\ fields \in [Calls -> SUBSET Fields]
    /\ status \in [Calls -> Statuses \cup {NoStatus}]
    /\ \A c \in Calls : pc[c] = "append" => status[c] # NoStatus
    /\ before \in [Calls -> Snapshots]
    /\ sid \in [Calls -> Nat]
    /\ \A c \in Calls : pc[c] = "row" => sid[c] # 0
    /\ reply \in [Calls -> Replies]
    /\ faults \in 0..MaxFaults
    /\ regime \in Regimes

Init ==
    /\ value = [f \in Fields |-> IF f \in Required THEN Original ELSE Absent]
    /\ outcomes = {}
    /\ events = <<>>
    /\ edits = <<>>
    /\ session = [u \in Users |-> 0]
    /\ issued = 0
    /\ pc = [c \in Calls |-> "idle"]
    /\ fields = [c \in Calls |-> {}]
    /\ status = [c \in Calls |-> NoStatus]
    /\ before = [c \in Calls |-> [f \in {} |-> Absent]]
    /\ sid = [c \in Calls |-> 0]
    /\ reply = [c \in Calls |-> "none"]
    /\ faults = 0
    /\ regime \in Regimes

-----------------------------------------------------------------------------
GoTo(c, step) == pc' = [pc EXCEPT ![c] = step] /\ UNCHANGED <<reply, regime>>
Answer(c, r) ==
    pc' = [pc EXCEPT ![c] = "done"] /\ reply' = [reply EXCEPT ![c] = r] /\ UNCHANGED regime

\* The clients an instance looks at: with "ownCalls" one user has several calls
\* in flight at once, with "editors" several users edit the record at once.
\* Outcomes overlap with everybody else's calls in any case.
Editing(c) == pc[c] \in {"gate", "event", "row", "undo"}
MayStart(c, op) == \A b \in Calls \ {c} :
    /\ pc[b] \in InFlight /\ User[b] = User[c] => "ownCalls" \in regime.overlap
    /\ Editing(b) /\ op = "edit" /\ User[b] # User[c] => "editors" \in regime.overlap

-----------------------------------------------------------------------------
(* edit_record: _edit_record *)

\* The record is read and what the edit is going to overwrite is noted; a field
\* the record does not have is not in the snapshot.
StartEdit(c) ==
    /\ "edit" \in regime.ops /\ pc[c] = "idle" /\ MayStart(c, "edit")
    /\ \E S \in (SUBSET regime.fields) \ {{}} :
        /\ fields' = [fields EXCEPT ![c] = S]
        /\ before' = [before EXCEPT ![c] =
                        [f \in {g \in S : value[g] # Absent} |-> value[f]]]
    /\ IF User[c] \in Editors THEN GoTo(c, "gate") ELSE Answer(c, "refused")
    /\ UNCHANGED <<value, outcomes, rows, session, issued, status, sid, faults>>

\* The references do not resolve, or the guardrail gate is not passed: a person
\* declines, or confirm=true is missing.
Reject(c) ==
    /\ pc[c] = "gate"
    /\ Answer(c, "refused")
    /\ UNCHANGED <<value, outcomes, rows, session, issued, task, faults>>

MlEdit(S, new) == value' = [f \in Fields |-> IF f \in S THEN new[f] ELSE value[f]]

Apply(c) ==
    /\ pc[c] = "gate"
    /\ MlEdit(fields[c], [f \in Fields |-> c])
    /\ GoTo(c, "event")
    /\ UNCHANGED <<outcomes, rows, session, issued, task, faults>>

\* Mutant of SessionFor: sessions are looked up per project, not per user.
SessionForProject(u) ==
    LET open == {session[v] : v \in Users} \ {0}
    IN  IF open # {} THEN CHOOSE s \in open : TRUE ELSE issued + 1

\* _get_or_create_session
SessionFor(u) == IF session[u] # 0 THEN session[u] ELSE issued + 1

CreateEvent(c) ==
    /\ pc[c] = "event"
    /\ LET s == SessionFor(User[c]) IN
        /\ session' = [session EXCEPT ![User[c]] = s]
        /\ issued' = IF s > issued THEN s ELSE issued
        /\ sid' = [sid EXCEPT ![c] = s]
        /\ events' = Append(events, [by |-> c, session |-> s])
    /\ GoTo(c, "row")
    /\ UNCHANGED <<value, outcomes, edits, fields, status, before, faults>>

\* Mutant of CreateEdit: the snapshot is taken from the record as it is by now.
CreateEditOfNow(c) ==
    /\ pc[c] = "row"
    /\ edits' = Append(edits, [by |-> c, session |-> sid[c],
                               before |-> [f \in DOMAIN before[c] |-> value[f]]])
    /\ Answer(c, "ok")
    /\ UNCHANGED <<value, outcomes, events, session, issued, task, faults>>

CreateEdit(c) ==
    /\ pc[c] = "row"
    /\ edits' = Append(edits, [by |-> c, session |-> sid[c], before |-> before[c]])
    /\ Answer(c, "ok")
    /\ UNCHANGED <<value, outcomes, events, session, issued, task, faults>>

\* Either insert fails; the first one is not taken back when the second fails.
DbFails(c) ==
    /\ "db" \in regime.faults /\ faults < MaxFaults
    /\ pc[c] \in {"event", "row"}
    /\ GoTo(c, "undo")
    /\ faults' = faults + 1
    /\ UNCHANGED <<value, outcomes, rows, session, issued, task>>

\* The snapshot is written back, over whatever the fields hold by now.
UndoEdit(c) ==
    /\ pc[c] = "undo"
    /\ MlEdit(DOMAIN before[c], before[c])
    /\ Answer(c, "error")
    /\ UNCHANGED <<outcomes, rows, session, issued, task, faults>>

-----------------------------------------------------------------------------
(* record_outcome: _record_outcome *)

\* Mutant of StartOutcome: a status may be reported again.
StartOutcomeUnchecked(c) ==
    /\ "outcome" \in regime.ops /\ pc[c] = "idle" /\ MayStart(c, "outcome")
    /\ \E s \in Statuses : status' = [status EXCEPT ![c] = s]
    /\ GoTo(c, "append")
    /\ UNCHANGED <<value, outcomes, rows, session, issued, fields, before, sid, faults>>

\* A user reports each status once.
StartOutcome(c) ==
    /\ "outcome" \in regime.ops /\ pc[c] = "idle" /\ MayStart(c, "outcome")
    /\ \E s \in Statuses :
        /\ status' = [status EXCEPT ![c] = s]
        /\ IF \E o \in outcomes : User[o.by] = User[c] /\ o.status = s
           THEN Answer(c, "refused") ELSE GoTo(c, "append")
    /\ UNCHANGED <<value, outcomes, rows, session, issued, fields, before, sid, faults>>

\* The outcome is stamped with the time: `after` counts the RecordEdit rows that
\* are older.  `on` is the content it was given for, which no code records.
MlOutcome(c) == outcomes' = outcomes \cup
    {[by |-> c, status |-> status[c], after |-> Len(edits),
      on |-> [f \in ContentFields |-> value[f]]]}

AppendOutcome(c) ==
    /\ pc[c] = "append"
    /\ MlOutcome(c)
    /\ Answer(c, "ok")
    /\ UNCHANGED <<value, rows, session, issued, task, faults>>

-----------------------------------------------------------------------------
(* Faults, sessions and the admin page *)

\* What the `ml` command of the current step would do.
MlEffect(c) ==
    \/ pc[c] = "gate" /\ MlEdit(fields[c], [f \in Fields |-> c]) /\ UNCHANGED outcomes
    \/ pc[c] = "undo" /\ MlEdit(DOMAIN before[c], before[c]) /\ UNCHANGED outcomes
    \/ pc[c] = "append" /\ MlOutcome(c) /\ UNCHANGED value

\* `ml` fails (the record was archived or moved away meanwhile, ...) or is killed
\* after 30s, with or without effect: none of the calls undoes anything then.
MlFails(c) ==
    /\ "ml" \in regime.faults /\ faults < MaxFaults
    /\ pc[c] \in {"gate", "undo", "append"}
    /\ MlEffect(c) \/ UNCHANGED <<value, outcomes>>
    /\ Answer(c, "error")
    /\ faults' = faults + 1
    /\ UNCHANGED <<rows, session, issued, task>>

\* The process dies, with the tasks and the sessions it held in memory.
Crash ==
    /\ "crash" \in regime.faults /\ faults < MaxFaults
    /\ \E c \in Calls : pc[c] \in InFlight
    /\ pc' = [c \in Calls |-> IF pc[c] \in InFlight THEN "done" ELSE pc[c]]
    /\ reply' = [c \in Calls |-> IF pc[c] \in InFlight THEN "lost" ELSE reply[c]]
    /\ session' = [u \in Users |-> 0]
    /\ faults' = faults + 1
    /\ UNCHANGED <<value, outcomes, rows, issued, task, regime>>

\* The session window of four hours closes.
Expire(u) ==
    /\ session[u] # 0
    /\ session' = [session EXCEPT ![u] = 0]
    /\ UNCHANGED <<value, outcomes, rows, issued, pc, task, reply, faults, regime>>

\* The admin's records page edits one field and writes no row.
AdminEdit(f) ==
    /\ "adminEdit" \in regime.ops
    /\ MlEdit({f}, [g \in Fields |-> AdminValue])
    /\ UNCHANGED <<outcomes, rows, session, issued, pc, task, reply, faults, regime>>

-----------------------------------------------------------------------------
Step(c) ==
    \/ StartEdit(c) \/ Reject(c) \/ Apply(c) \/ CreateEvent(c) \/ CreateEdit(c)
    \/ UndoEdit(c) \/ StartOutcome(c) \/ AppendOutcome(c)
    \/ DbFails(c) \/ MlFails(c)

Rest == (\A c \in Calls : pc[c] \in {"idle", "done"}) /\ UNCHANGED vars

Next ==
    \/ \E c \in Calls : Step(c)
    \/ \E u \in Users : Expire(u)
    \/ \E f \in Fields : AdminEdit(f)
    \/ Crash
    \/ Rest

Spec == Init /\ [][Next]_vars

-----------------------------------------------------------------------------
(* The history, as it is read *)

\* How many rows of row n's session there are up to row n: its place in the
\* queue of that session.
Rank(table, n) == Cardinality({m \in 1..n : table[m].session = table[n].session})

\* get_record_history: the RecordEdit row shown with edit event k, if there is
\* one; each event takes the oldest row left in the queue of its session.
PairedRows(k) == {j \in DOMAIN edits :
    /\ edits[j].session = events[k].session
    /\ Rank(edits, j) = Rank(events, k)}

\* The record-activity page does the same for the newest events only, with a
\* queue of all the RecordEdit rows there are.
Shown == {k \in DOMAIN events : k + PageLimit > Len(events)}
ShownRank(k) == Cardinality({m \in Shown : m <= k /\ events[m].session = events[k].session})

\* Mutant of PageRows: the queues are kept per user, not per session.
PageRowsOfUser(k) == {j \in DOMAIN edits :
    /\ User[edits[j].by] = User[events[k].by]
    /\ Cardinality({i \in 1..j : User[edits[i].by] = User[edits[j].by]}) =
         Cardinality({m \in Shown : m <= k /\ User[events[m].by] = User[events[k].by]})}

PageRows(k) == {j \in DOMAIN edits :
    edits[j].session = events[k].session /\ Rank(edits, j) = ShownRank(k)}

\* annotate_outcome_staleness: the newest RecordEdit row about a content field
\* is not outdone by a newer outcome of somebody else.
ContentEdits == {k \in DOMAIN edits : DOMAIN edits[k].before \cap ContentFields # {}}

\* Mutant of Clears: whoever reports the outcome, it clears the flag.
ClearsForAnyone(o, k) == o.after >= k

Clears(o, k) == o.after >= k /\ User[o.by] # User[edits[k].by]
Stale ==
    /\ outcomes # {}
    /\ \E k \in ContentEdits :
        /\ \A j \in ContentEdits : j <= k
        /\ \A o \in outcomes : ~Clears(o, k)

-----------------------------------------------------------------------------
(* Properties *)

\* The history never shows what one user overwrote as what another user did, the
\* hazard _get_record_history's docstring names, whatever overlaps or fails.
HistoryNeverCrossesActors == \A k \in DOMAIN events : \A j \in PairedRows(k) :
    User[edits[j].by] = User[events[k].by]

OneCallEach == "ownCalls" \notin regime.overlap
InsertsSucceed == "db" \notin regime.faults
FitsPage(k) == \A m \in DOMAIN events \ Shown : events[m].session # events[k].session

\* While each user makes one call at a time and no insert fails, the history shows
\* with every edit what that very edit overwrote, across expiring sessions and
\* crashes: the rows of a crashed call shift no later pairing.  Nor does the page show
\* another edit's snapshot, as long as the session of the event fits the page: the
\* queue that is popped holds the older rows as well.
PairsOwnSnapshot == OneCallEach /\ InsertsSucceed =>
    /\ \A k \in DOMAIN events :
        /\ \A j \in PairedRows(k) : edits[j].by = events[k].by
        /\ reply[events[k].by] = "ok" => PairedRows(k) # {}
    /\ \A k \in {m \in Shown : FitsPage(m)} : \A j \in PageRows(k) :
        edits[j].by = events[k].by

\* While a user makes one call at a time, their status counts once, also when the
\* answer to the first report was lost and it is reported again.
OneOutcomePerStatus == OneCallEach => \A o, p \in outcomes :
    User[o.by] = User[p.by] /\ o.status = p.status => o = p

\* While edits come one at a time and `ml` does its work, the snapshots can be
\* replayed: what an edit overwrote in a required field is what the last committed
\* edit before it put there, and once no edit is in flight the record is as the
\* last one left it, also when a failed edit was undone in between.
OneEditAtATime == regime.overlap = {} /\ regime.faults \subseteq {"db"} /\ "adminEdit" \notin regime.ops
LastEditor(f, n) ==
    LET touching == {j \in 1..n : f \in DOMAIN edits[j].before}
    IN  IF touching = {} THEN Original
        ELSE edits[CHOOSE j \in touching : \A i \in touching : i <= j].by
Replays(f) ==
    /\ \A k \in DOMAIN edits : f \in DOMAIN edits[k].before =>
        edits[k].before[f] = LastEditor(f, k - 1)
    /\ (\A c \in Calls : ~Editing(c)) => value[f] = LastEditor(f, Len(edits))
SnapshotsReplay == OneEditAtATime => \A f \in Required : Replays(f)

\* The confirmations of a record count only if somebody other than the author of
\* the newest edit of its content, which is part of that content, gave one for the
\* content there is now, while no two users edit it at once; anybody's outcome may
\* overlap an edit.  An outcome given for content that a failing edit then takes
\* back is counted all the same: no edit failed.
Authors == {value[f] : f \in ContentFields} \cap Calls
Trusted == (\A c \in Calls : ~Editing(c)) /\ outcomes # {} /\ Authors # {} /\ ~Stale
NoEditFailed == \A c \in Calls : fields[c] # {} => reply[c] # "error"
ConfirmedByAnother == OneEditAtATime /\ Trusted /\ NoEditFailed =>
    \E k \in ContentEdits, o \in outcomes :
        /\ \A j \in ContentEdits : j <= k
        /\ edits[k].by \in Authors /\ User[o.by] # User[edits[k].by]
        /\ \A f \in ContentFields : o.on[f] = value[f]

=============================================================================
