-------------------------------- MODULE Reading --------------------------------
(* Reading what a project knows (src/src/mulchd/mcp/tier2.py: read_records,    *)
(* search_records, resources/read and list_domains), while records are         *)
(* written, edited, moved, archived and restored.                              *)
(*                                                                             *)
(* A reader takes the domains one by one, at different times, then filters,    *)
(* sorts and cuts off a page, and anchors a cursor in its last record.  The    *)
(* next page is read from the files anew.                                      *)
EXTENDS Integers, FiniteSets, SequencesExt

CONSTANTS
    Records, Domains,   \* numbers: their order is that of the ids, of the names
    Limits,             \* what is asked for as limit
    MaxClock,           \* bound on the times at which records are stamped
    MaxTouches          \* bound on the changes of records

ASSUME ReadingAssumption ==
    /\ Records \subseteq Nat \ {0} /\ Domains \subseteq Nat \ {0}
    /\ IsFiniteSet(Records) /\ IsFiniteSet(Domains)
    /\ Limits \subseteq Int /\ MaxClock \in Nat \ {0} /\ MaxTouches \in Nat

VARIABLES
    clock,
    stamp,      \* stamp[r]: the recorded_at of r, or 0 before there is one
    where,      \* where[r]: the domain r lies in, or 0
    fits,       \* fits[r]: r has what a filter asks for
    touches,
    noted,      \* the server_time of the last list_domains, or 0
    ask,        \* what the reader asks for
    phase,
    unread, got,  \* the domains still to read, and <<record, domain>> as read
    cursor,     \* the record that the cursor is anchored in, or 0
    shown,      \* what has been shown since the first page, in order, as read
    page,       \* the last of these pages
    steady      \* what no change has touched since the first page was asked for

files == <<stamp, where, fits>>
reader == <<ask, phase, unread, got, cursor, shown, page>>
readingVars == <<clock, files, touches, noted, reader, steady>>

Kinds == {"records", "resource", "search", "domains"}
Ended == {"end", "cut", "expired"}
NoAsk == [kind |-> "domains", domains |-> Domains, since |-> 0, filter |-> FALSE, limit |-> 1]

ReadingTypeOK ==
    /\ clock \in 1..MaxClock /\ stamp \in [Records -> 0..MaxClock]
    /\ where \in [Records -> Domains \cup {0}] /\ fits \in [Records -> BOOLEAN]
    /\ touches \in 0..MaxTouches /\ noted \in 0..MaxClock
    /\ ask \in [kind : Kinds, domains : SUBSET Domains, since : 0..MaxClock,
                filter : BOOLEAN, limit : Limits \cup {1}]
    /\ phase \in {"idle", "reading", "more"} \cup Ended
    /\ unread \subseteq Domains /\ got \subseteq Records \X Domains
    /\ cursor \in Records \cup {0} /\ steady \subseteq Records
    /\ shown \in Seq(Records \X Domains) /\ page \in Seq(Records \X Domains)

ReadingInit ==
    /\ clock = 1 /\ stamp \in [Records -> 0..1] /\ where \in [Records -> Domains \cup {0}]
    /\ \A r \in Records : stamp[r] = 0 => where[r] = 0
    /\ fits = [r \in Records |-> TRUE] /\ touches = 0 /\ noted = 0
    /\ ask = NoAsk /\ phase = "idle" /\ unread = {} /\ got = {} /\ cursor = 0
    /\ shown = <<>> /\ page = <<>> /\ steady = {}

-----------------------------------------------------------------------------
(* The records.                                                                *)

Tick ==
    /\ clock < MaxClock /\ clock' = clock + 1
    /\ UNCHANGED <<files, touches, noted, reader, steady>>

Touch(r) ==
    /\ touches < MaxTouches /\ touches' = touches + 1
    /\ steady' = steady \ {r}
    /\ UNCHANGED <<clock, noted, reader>>

(* _write_expertise sets recorded_at, and asks for confirmation after that.    *)
StampRecord(r) ==
    /\ stamp[r] = 0 /\ stamp' = [stamp EXCEPT ![r] = clock]
    /\ Touch(r) /\ UNCHANGED <<where, fits>>

(* The record is written at last, or an archived one is restored.              *)
Land(r, d) ==
    /\ stamp[r] # 0 /\ where[r] = 0 /\ where' = [where EXCEPT ![r] = d]
    /\ Touch(r) /\ UNCHANGED <<stamp, fits>>

Move(r, d) ==
    /\ where[r] \notin {0, d} /\ where' = [where EXCEPT ![r] = d]
    /\ Touch(r) /\ UNCHANGED <<stamp, fits>>

Archive(r) ==
    /\ where[r] # 0 /\ where' = [where EXCEPT ![r] = 0]
    /\ Touch(r) /\ UNCHANGED <<stamp, fits>>

(* An edit or an outcome, after which a filter matches it or no longer does.   *)
Edit(r) ==
    /\ where[r] # 0 /\ fits' = [fits EXCEPT ![r] = ~@]
    /\ Touch(r) /\ UNCHANGED <<stamp, where>>

-----------------------------------------------------------------------------
(* Asking.                                                                     *)

(* The type, classification, file and outcome filters, and since.              *)
Matches(r, request) == (request.filter => fits[r]) /\ stamp[r] >= request.since

Ask(kind, domains, since, filter, limit) ==
    /\ phase = "idle"
    /\ ask' = [kind |-> kind, domains |-> domains, since |-> since,
               filter |-> filter, limit |-> limit]
    /\ phase' = "reading" /\ unread' = domains
    /\ steady' = {r \in Records : where[r] \in domains /\ Matches(r, ask')}
    /\ UNCHANGED <<clock, files, touches, noted, got, cursor, shown, page>>

(* read_records without a cursor, with since as it was noted or without.       *)
ReadRecords(domains, filter, limit) ==
    \E since \in {0, noted} : Ask("records", domains, since, filter, limit)

(* resources/read of one domain: the page size is that of the policy.          *)
ReadResource(d, limit) == Ask("resource", {d}, 0, FALSE, limit)

(* search_records: the filter stands for the query and the owner.              *)
SearchRecords(domains, limit) == Ask("search", domains, 0, TRUE, limit)

ListDomains == Ask("domains", Domains, 0, FALSE, 1)

(* read_records with the cursor of the page before, and otherwise as before.   *)
NextPage ==
    /\ phase = "more" /\ phase' = "reading" /\ unread' = ask.domains /\ got' = {}
    /\ UNCHANGED <<clock, files, touches, noted, ask, cursor, shown, page, steady>>

(* The reader leaves it at this page, or has come to an end.                   *)
Leave ==
    /\ phase \in Ended \cup {"more"} /\ phase' = "idle"
    /\ ask' = NoAsk /\ got' = {} /\ cursor' = 0 /\ shown' = <<>> /\ page' = <<>> /\ steady' = {}
    /\ UNCHANGED <<clock, files, touches, noted, unread>>

(* read_domain_records, or `ml search` in one domain.                          *)
ReadDomain(d) ==
    /\ phase = "reading" /\ d \in unread /\ unread' = unread \ {d}
    /\ got' = got \cup {<<r, d>> : r \in {q \in Records : where[q] = d /\ Matches(q, ask)}}
    /\ UNCHANGED <<clock, files, touches, noted, ask, phase, cursor, shown, page, steady>>

-----------------------------------------------------------------------------
(* Cutting off a page.                                                         *)

(* The key (recorded_at, id); since turns the order round.                     *)
Older(r, q) == stamp[r] < stamp[q] \/ (stamp[r] = stamp[q] /\ r < q)
Before(r, q) == IF ask.since = 0 THEN Older(r, q) ELSE Older(q, r)

\* Mutant of Beyond: the records of the same time as the anchor are passed over.
BeyondTime(r) == cursor = 0 \/ (Before(cursor, r) /\ stamp[r] # stamp[cursor])

\* Mutant of Beyond: only the anchor itself is passed over.
BeyondAnchor(r) == r # cursor

Beyond(r) == cursor = 0 \/ Before(cursor, r)

(* The domain of below in a row, each i behind the elements of below[i].       *)
InOrder(below) ==
    [k \in 1..Cardinality(DOMAIN below) |->
        CHOOSE i \in DOMAIN below : Cardinality(below[i]) = k - 1]

(* A record moved between two reads may be there twice, side by side.          *)
Precedes(i, j) == Before(i[1], j[1]) \/ (i[1] = j[1] /\ i[2] < j[2])
Left == {i \in got : Beyond(i[1])}
Sorted == InOrder([i \in Left |-> {j \in Left : Precedes(j, i)}])

(* records[:limit], which drops the last ones for a negative limit.            *)
Upto(s, limit) ==
    IF limit >= Len(s) THEN s
    ELSE SubSeq(s, 1, IF limit >= 0 THEN limit ELSE Len(s) + limit)

Show(records) ==
    /\ page' = records /\ shown' = shown \o records
    /\ unread' = {} /\ got' = {}
    /\ UNCHANGED <<clock, files, touches, ask, steady>>

Anchored == cursor = 0 \/ \E i \in got : i[1] = cursor

(* The anchor is in none of the records: how to go on cannot be known.         *)
Expire ==
    /\ phase = "reading" /\ unread = {} /\ ask.kind = "records" /\ ~Anchored
    /\ phase' = "expired" /\ Show(<<>>) /\ UNCHANGED <<cursor, noted>>

Cut ==
    /\ phase = "reading" /\ unread = {} /\ ask.kind \in {"records", "resource"} /\ Anchored
    /\ LET first == Upto(Sorted, ask.limit)
       IN  /\ Show(first) /\ UNCHANGED noted
           /\ IF ask.limit >= Len(Sorted) THEN phase' = "end" /\ cursor' = 0
              ELSE IF ask.kind = "records" /\ first # <<>>
              THEN phase' = "more" /\ cursor' = Last(first)[1]
              ELSE phase' = "cut" /\ cursor' = 0

(* How many results of its domain come before i, ranked here by their ids.     *)
Turn(i) == Cardinality({j \in got : j[2] = i[2] /\ j[1] < i[1]})

\* Mutant of RoundRobin: one domain after the other.
RoundRobinByDomain ==
    InOrder([i \in got |->
        {j \in got : j[2] < i[2] \/ (j[2] = i[2] /\ Turn(j) < Turn(i))}])

(* The first result of every domain, then the second of each that has one...   *)
RoundRobin ==
    InOrder([i \in got |->
        {j \in got : Turn(j) < Turn(i) \/ (Turn(j) = Turn(i) /\ j[2] < i[2])}])

(* _round_robin_cap, with a loop that ends at once for a limit below 1.        *)
Cap ==
    /\ phase = "reading" /\ unread = {} /\ ask.kind = "search"
    /\ page' = IF ask.limit >= Len(RoundRobin) THEN RoundRobin
                ELSE SubSeq(RoundRobin, 1, ask.limit)
    /\ phase' = IF Len(page') < Len(RoundRobin) THEN "cut" ELSE "end"
    /\ unread' = {} /\ UNCHANGED <<clock, files, touches, noted, ask, got, cursor, shown, steady>>

(* The domains have been counted, and the time is taken.                       *)
Note ==
    /\ phase = "reading" /\ unread = {} /\ ask.kind = "domains"
    /\ noted' = clock /\ phase' = "end" /\ Show(<<>>) /\ UNCHANGED cursor
-----------------------------------------------------------------------------
ReadingNext ==
    \/ Tick \/ NextPage \/ Leave \/ Expire \/ Cut \/ Cap \/ Note \/ ListDomains
    \/ \E d \in Domains : ReadDomain(d)
    \/ \E r \in Records :
        \/ StampRecord(r) \/ Archive(r) \/ Edit(r)
        \/ \E d \in Domains : Land(r, d) \/ Move(r, d)
    \/ \E limit \in Limits :
        \/ \E d \in Domains : ReadResource(d, limit)
        \/ \E domains \in (SUBSET Domains) \ {{}} :
            \/ SearchRecords(domains, limit)
            \/ \E filter \in BOOLEAN : ReadRecords(domains, filter, limit)

ReadingSpec == ReadingInit /\ [][ReadingNext]_readingVars

-----------------------------------------------------------------------------
Times(r) == Cardinality({i \in DOMAIN shown : shown[i][1] = r})

(* When a walk over the pages comes to its end, every record that nobody       *)
(* touched since its first page has been shown, and exactly once, whatever     *)
(* landed, moved or went meanwhile and whichever shared its time; and it is cut *)
(* short, its cursor having expired, only if the record it was anchored in was *)
(* itself moved, archived or edited since (_read_expertise).                   *)
WalkIsComplete ==
    /\ phase = "end" /\ ask.kind = "records" => \A r \in steady : Times(r) = 1
    /\ phase = "expired" => cursor \notin steady

(* A walk never goes back: the pages of one walk continue the order of those   *)
(* before, also when a record stamped earlier lands late, and a record is      *)
(* shown twice only side by side in one page, having moved while it was read.  *)
WalkGoesForward ==
    ask.kind = "records" => \A i \in 2..Len(shown) :
        \/ Before(shown[i - 1][1], shown[i][1])
        \/ shown[i - 1][1] = shown[i][1] /\ shown[i][1] \notin steady

(* A search gives every domain its share: when it is cut, no domain that still *)
(* has results has more than one less than another, each domain's results are  *)
(* its best, and as many are kept as were asked for (_round_robin_cap).        *)
RoundRobinIsFair == phase \in Ended /\ ask.kind = "search" =>
    LET found(d) == {i \in got : i[2] = d}
        kept(d) == found(d) \cap Range(page)
    IN  /\ \A d, e \in Domains :
            kept(d) # found(d) => Cardinality(kept(e)) <= Cardinality(kept(d)) + 1
        /\ \A d \in Domains : \A i \in kept(d), j \in found(d) \ kept(d) : i[1] < j[1]
        /\ phase = "cut" /\ ask.limit >= 0 => Len(page) = ask.limit
=============================================================================
