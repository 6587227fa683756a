----------------------------- MODULE Supersession -----------------------------
(* The walk over the `supersedes` links of a project that a read makes to tell *)
(* the reader what is current (src/src/mulchd/mcp/supersession.py).  A read    *)
(* scans the live records, then the archived ids; another call may delete or   *)
(* restore a record between the two scans.  From there on the code runs        *)
(* without an await: Tarjan's algorithm with an explicit work stack finds the  *)
(* cycles, a breadth-first walk finds the tips that supersede one record, and  *)
(* the record is annotated.                                                    *)
(*                                                                             *)
(* Records are numbered in the order in which the scan returns them.           *)
EXTENDS Naturals, Sequences, FiniteSets

CONSTANTS
    N,              \* the number of records the project ever had
    DomainOf,       \* the domain file a record lies in
    InitLive,       \* the sets of records that may be live when the read starts
    MaxChanges      \* bound on the deletes and restores during the read

Ids == 1..N

ASSUME SupersessionAssumption ==
    /\ N \in Nat /\ MaxChanges \in Nat
    /\ InitLive \subseteq SUBSET Ids
    /\ DomainOf \in [Ids -> STRING]

VARIABLES
    links,          \* links[r]: the ids in the list of links of record r
    live, archived, \* the records in expertise/ and in archive/
    changes,        \* how many deletes and restores there were
    restored,       \* the records restored between the two scans
    pc,             \* where the read stands
    snap,           \* project_records: what the scan of expertise/ returned
    archivedIds,    \* archived_ids: what the scan of archive/ returned
    index, lowlink, stack, work, cycles,        \* _find_cycles
    origin, frontier, seen, tips, depth,        \* _resolve_tips
    hints, labels   \* what the reader is told of the origin

store == <<links, live, archived, changes, restored>>
tarjan == <<index, lowlink, stack, work, cycles>>
walk == <<origin, frontier, seen, tips, depth>>
told == <<hints, labels>>
linksVars == <<store, pc, snap, archivedIds, tarjan, walk, told>>

Nobody == 0                             \* no record
Labels == {"live", "deleted", "missing"}

LinksTypeOK ==
    /\ links \in [Ids -> SUBSET Ids]
    /\ live \subseteq Ids /\ archived \subseteq Ids /\ restored \subseteq Ids
    /\ changes \in 0..MaxChanges
    /\ pc \in {"scanFirst", "scanSecond", "cycles", "walk", "annotate", "done", "related"}
    /\ snap \subseteq Ids /\ archivedIds \subseteq Ids
    /\ index \in [Ids -> 0..N] /\ lowlink \in [Ids -> 0..N]
    /\ stack \in Seq(Ids) /\ work \in Seq([node : Ids, rest : SUBSET Ids])
    /\ cycles \in [Ids -> SUBSET Ids]
    /\ origin \in Ids \cup {Nobody}
    /\ frontier \subseteq Ids /\ seen \subseteq Ids
    /\ tips \in [Ids -> 0..N] /\ depth \in 0..(N + 1)
    /\ hints \subseteq Ids
    /\ \A t \in DOMAIN labels : t \in Ids /\ labels[t] \in Labels

(* Any graph of links without a link of a record to itself, which the write    *)
(* and the edit refuse; a record that is in neither tree has no links.         *)
LinksInit ==
    /\ live \in InitLive
    /\ archived \in SUBSET (Ids \ live)
    /\ links \in [Ids -> SUBSET Ids]
    /\ \A r \in Ids : r \notin links[r] /\ (r \notin live \cup archived => links[r] = {})
    /\ changes = 0 /\ restored = {}
    /\ pc = "scanFirst" /\ snap = {} /\ archivedIds = {}
    /\ index = [r \in Ids |-> 0] /\ lowlink = [r \in Ids |-> 0]
    /\ stack = <<>> /\ work = <<>> /\ cycles = [r \in Ids |-> {}]
    /\ origin = Nobody /\ frontier = {} /\ seen = {} /\ depth = 0
    /\ tips = [r \in Ids |-> 0]
    /\ hints = {} /\ labels = <<>>

-----------------------------------------------------------------------------
(* The two scans, and what other calls do between them.  A change before the   *)
(* first scan is another initial state, and one after the second is not seen.  *)

\* Mutant of Trees: the archive is scanned first.
TreesSwapped == <<"archive", "expertise">>

Trees == <<"expertise", "archive">>
Stages == <<"scanFirst", "scanSecond", "cycles">>

Scan(k) ==
    /\ pc = Stages[k] /\ pc' = Stages[k + 1]
    /\ \/ Trees[k] = "expertise" /\ snap' = live /\ UNCHANGED archivedIds
       \/ Trees[k] = "archive" /\ archivedIds' = archived /\ UNCHANGED snap
    /\ UNCHANGED <<store, tarjan, walk, told>>

DeleteRecord(r) ==
    /\ pc = "scanSecond" /\ changes < MaxChanges /\ r \in live
    /\ live' = live \ {r} /\ archived' = archived \cup {r}
    /\ changes' = changes + 1
    /\ UNCHANGED <<links, restored, pc, snap, archivedIds, tarjan, walk, told>>

RestoreRecord(r) ==
    /\ pc = "scanSecond" /\ changes < MaxChanges /\ r \in archived
    /\ live' = live \cup {r} /\ archived' = archived \ {r}
    /\ restored' = restored \cup {r}
    /\ changes' = changes + 1
    /\ UNCHANGED <<links, pc, snap, archivedIds, tarjan, walk, told>>

-----------------------------------------------------------------------------
(* _find_cycles: depth-first over the links between live records.              *)

Graph(r) == links[r] \cap snap
Visited == {r \in Ids : index[r] # 0}
OnStack == {stack[k] : k \in DOMAIN stack}
Top == work[Len(work)]
Lower(a, b) == IF a < b THEN a ELSE b

Visit(r, frames) ==
    LET next == Cardinality(Visited) + 1
    IN  /\ index' = [index EXCEPT ![r] = next]
        /\ lowlink' = [lowlink EXCEPT ![r] = next]
        /\ stack' = Append(stack, r)
        /\ work' = Append(frames, [node |-> r, rest |-> Graph(r)])

InCycles == pc = "cycles" /\ UNCHANGED <<store, snap, archivedIds, walk, told>>

(* The next record in the order of the scan that no search has reached.        *)
StartSearch ==
    /\ InCycles /\ work = <<>>
    /\ \E r \in snap \ Visited :
        /\ \A s \in snap \ Visited : r <= s
        /\ Visit(r, <<>>)
    /\ UNCHANGED <<pc, cycles>>

(* The next link of the record on top of the work stack, in any order.         *)
FollowLink(w) ==
    /\ InCycles /\ work # <<>> /\ w \in Top.rest
    /\ LET frames == [work EXCEPT ![Len(work)].rest = @ \ {w}]
       IN  \/ /\ w \notin Visited
              /\ Visit(w, frames)
           \/ /\ w \in OnStack
              /\ lowlink' = [lowlink EXCEPT ![Top.node] = Lower(@, index[w])]
              /\ work' = frames
              /\ UNCHANGED <<index, stack>>
           \/ /\ w \in Visited \ OnStack
              /\ work' = frames
              /\ UNCHANGED <<index, lowlink, stack>>
    /\ UNCHANGED <<pc, cycles>>

(* What lies on the stack from v upwards is the component of v; a component of *)
(* more than one record is a cycle.                                            *)
PopComponent(v) ==
    LET at == CHOOSE k \in DOMAIN stack : stack[k] = v
        component == {stack[k] : k \in at..Len(stack)}
    IN  /\ stack' = SubSeq(stack, 1, at - 1)
        /\ cycles' = [r \in Ids |-> IF r \in component THEN component \ {r} ELSE cycles[r]]

\* Mutant of CloseRecord: what a record reached is not handed to its parent.
CloseRecordAlone ==
    /\ InCycles /\ work # <<>> /\ Top.rest = {}
    /\ LET v == Top.node
       IN  /\ work' = SubSeq(work, 1, Len(work) - 1)
           /\ IF lowlink[v] = index[v] THEN PopComponent(v) ELSE UNCHANGED <<stack, cycles>>
    /\ UNCHANGED <<index, lowlink, pc>>

CloseRecord ==
    /\ InCycles /\ work # <<>> /\ Top.rest = {}
    /\ LET v == Top.node
           frames == SubSeq(work, 1, Len(work) - 1)
       IN  /\ work' = frames
           /\ lowlink' = IF frames = <<>> THEN lowlink
                         ELSE [lowlink EXCEPT ![frames[Len(frames)].node] = Lower(@, lowlink[v])]
           /\ IF lowlink[v] = index[v] THEN PopComponent(v) ELSE UNCHANGED <<stack, cycles>>
    /\ UNCHANGED <<index, pc>>

-----------------------------------------------------------------------------
(* _resolve_tips: one level of the breadth-first walk per step.                *)

Superseders(r) == {s \in snap : r \in links[s]}
InCycle == {r \in Ids : cycles[r] # {}}

(* superseded_by keeps the superseder that was scanned last.                   *)
SupersededBy(r) == CHOOSE s \in Superseders(r) : \A t \in Superseders(r) : t <= s

\* Mutant of Onward: walks the map that keeps one superseder of each record.
OnwardLast(r) == {s \in Superseders(r) \ InCycle : s = SupersededBy(r)}

Onward(r) == Superseders(r) \ InCycle

(* A record that the read returns, deleted or not since it was read.           *)
Returned == snap \cup archivedIds

(* The read takes up one of these records.  A member of a cycle is told so and *)
(* nothing else; a record nobody supersedes is not walked from.                *)
TakeUp(r) ==
    /\ pc = "cycles" /\ work = <<>> /\ snap \subseteq Visited
    /\ r \in Returned \ InCycle
    /\ origin' = r
    /\ IF Superseders(r) = {}
       THEN pc' = "annotate" /\ UNCHANGED <<frontier, seen, depth>>
       ELSE pc' = "walk" /\ frontier' = {r} /\ seen' = {r} /\ depth' = 1
    /\ UNCHANGED <<store, snap, archivedIds, tarjan, tips, told>>

(* The records at which the walk ends, and those that it has not come to yet.  *)
Ends == {r \in frontier : Onward(r) = {} /\ r # origin}
Ahead == (UNION {Onward(r) : r \in frontier}) \ seen

WalkLevel ==
    /\ pc = "walk"
    /\ tips' = [r \in Ids |-> IF r \in Ends THEN depth - 1 ELSE tips[r]]
    /\ seen' = seen \cup Ahead
    /\ frontier' = Ahead
    /\ IF Ahead = {} THEN pc' = "annotate" /\ depth' = depth
                     ELSE pc' = pc /\ depth' = depth + 1
    /\ UNCHANGED <<store, snap, archivedIds, tarjan, origin, told>>

-----------------------------------------------------------------------------
(* mark_superseded and cross_domain_supersede_hints for the origin.            *)

Tips == {r \in Ids : tips[r] # 0}
Hops == IF Cardinality(Tips) = 1 THEN tips[CHOOSE t \in Tips : TRUE] ELSE 0
Elsewhere(r) == {t \in Ids : DomainOf[t] # DomainOf[r]}

\* Mutant of Hints: points at the nearest superseder.
HintsNearest(r) == IF Superseders(r) = {} THEN {} ELSE {SupersededBy(r)} \cap Elsewhere(r)

(* Several tips, or one further away than a single hop, replace the immediate  *)
(* superseder as what the reader is pointed to.                                *)
Hints(r) ==
    IF Superseders(r) = {} THEN {}
    ELSE IF Cardinality(Tips) > 1 \/ Hops > 1 THEN Tips \cap Elsewhere(r)
    ELSE {SupersededBy(r)} \cap Elsewhere(r)

Label(t) == IF t \in snap THEN "live"
            ELSE IF t \in archivedIds THEN "deleted" ELSE "missing"

Annotate ==
    /\ pc = "annotate" /\ pc' = "done"
    /\ hints' = Hints(origin)
    /\ labels' = [t \in links[origin] |-> Label(t)]
    /\ UNCHANGED <<store, snap, archivedIds, tarjan, walk>>

(* mark_related_to, for the `relates_to` links: two scans of its own and no    *)
(* walk.  The record is told who points at it, and what its own links are.     *)
Relate(r) ==
    /\ pc = "cycles" /\ work = <<>> /\ Visited = {} /\ r \in Returned
    /\ pc' = "related" /\ origin' = r
    /\ hints' = Superseders(r)
    /\ labels' = [t \in links[r] |-> Label(t)]
    /\ UNCHANGED <<store, snap, archivedIds, tarjan, frontier, seen, tips, depth>>

-----------------------------------------------------------------------------
LinksNext ==
    \/ Scan(1) \/ Scan(2)
    \/ \E r \in Ids : DeleteRecord(r) \/ RestoreRecord(r)
    \/ StartSearch \/ CloseRecord
    \/ \E w \in Ids : FollowLink(w)
    \/ \E r \in Ids : TakeUp(r) \/ Relate(r)
    \/ WalkLevel \/ Annotate

LinksSpec == LinksInit /\ [][LinksNext]_linksVars

-----------------------------------------------------------------------------
(* Reference definitions: walks of at most N links.  Within(next)[k] is the    *)
(* relation "in at most k links", where next[r] are the ends of the links of r. *)

Within(next) ==
    LET reach[k \in 0..N] ==
            IF k = 0 THEN [r \in Ids |-> {r}]
            ELSE [r \in Ids |-> reach[k - 1][r] \cup UNION {next[s] : s \in reach[k - 1][r]}]
    IN  reach

Reaches == Within([r \in Ids |-> Graph(r)])[N]
Above == Within([r \in Ids |-> Superseders(r)])[N]
Distance(r, t) ==
    LET within == Within([s \in Ids |-> Superseders(s)])
    IN  CHOOSE k \in 0..N : t \in within[k][r] /\ (k = 0 \/ t \notin within[k - 1][r])

Current(r) == {t \in Above[r] \ {r} : Superseders(t) = {}}
CycleAhead(r) == \E t \in Above[r] : \E s \in Above[r] \ {t} : s \in Above[t] /\ t \in Above[s]

(* Tarjan's algorithm over the live records finds exactly the cycles: when it  *)
(* has ended, a record's entry names the other records it can reach and be     *)
(* reached from, whatever the graph and the order of the links (_find_cycles). *)
CyclesAreFound == pc \in {"walk", "annotate", "done"} =>
    \A r \in snap : cycles[r] = {s \in snap \ {r} : s \in Reaches[r] /\ r \in Reaches[s]}

(* Where no cycle lies ahead, the walk from a superseded record returns every  *)
(* record that is current in its stead and no other, and the number of hops is *)
(* the shortest way to the only one (_resolve_tips).                           *)
ResolvesToCurrent == (pc \in {"annotate", "done"} /\ ~CycleAhead(origin)) =>
    /\ Tips = Current(origin)
    /\ \A t \in Tips : tips[t] = Distance(origin, t)

(* Where no cycle lies ahead, a reader is pointed to every current record that *)
(* lies in another domain and to nothing else, except that a record whose only *)
(* tip is one hop away is pointed to the superseder scanned last, be it that   *)
(* tip or a record which the tip supersedes too (mark_superseded,              *)
(* cross_domain_supersede_hints).                                              *)
HintsNameTheTips == (pc = "done" /\ ~CycleAhead(origin)) =>
    \/ hints = Current(origin) \cap Elsewhere(origin)
    \/ /\ Hops = 1 /\ Tips \subseteq Superseders(origin)
       /\ hints \subseteq {s \in Superseders(origin) : Tips \subseteq Above[s]}

(* A link to a record that exists all through the read, live or archived, is   *)
(* not labelled missing, also when it is deleted between the two scans; only   *)
(* one that is restored between them escapes both (mark_superseded,            *)
(* mark_related_to).                                                           *)
NeverMissing == pc \in {"done", "related"} =>
    \A t \in DOMAIN labels \ restored : labels[t] = "missing" => t \notin live \cup archived
=============================================================================
