------------------------------- MODULE Guardrail -------------------------------
(* The guardrail in front of the writes and edits that replace or downgrade a  *)
(* record (src/src/mulchd/mcp/tier2.py, supersession.py), and the policy that  *)
(* decides whether it only warns or has to be answered (policies.py).  A call  *)
(* reads what the warning is about, looks the policy up through a cache with a *)
(* time to live, may wait for a person's answer, and changes the record at the *)
(* end; other calls, an admin who changes the policy, moves and deletes come   *)
(* in between.                                                                 *)
(*                                                                             *)
(* One record is at stake: `cls` is its classification and `place` where it    *)
(* is.  A "replace" call writes a record that supersedes it, or adds the link  *)
(* to a record by an edit; an "edit" call gives it another classification; an  *)
(* "override" is an edit by an admin who does not own it.                      *)
EXTENDS Naturals, FiniteSets

CONSTANTS
    Calls,
    Asked,          \* Asked[c]: the requests that may come as call c
    Admin,          \* the admin's request that changes the policy
    Domains,        \* the domain files the record may lie in
    Envs,           \* the environments the process may have been started in
    MaxChanges,     \* bound on the requests to change the policy
    MaxUpsets       \* bound on the moves and deletes of the record

Modes == {"warn", "enforce"}
Rows == Modes \cup {"none"}                 \* ProjectPolicy: no row, or its value
Tiers == 0..2                               \* observational, tactical, foundational
Readers == Calls \cup {Admin}               \* who looks the policy up

Requests == [op : {"replace", "edit", "override"}, cls : Tiers, confirm : BOOLEAN, elicit : BOOLEAN]

ASSUME GuardrailAssumption ==
    /\ Asked \in [Calls -> SUBSET Requests]
    /\ Admin \notin Calls /\ "archived" \notin Domains
    /\ Envs \subseteq [lock : BOOLEAN, value : Rows]
    /\ \A e \in Envs : e.lock => e.value # "none"
    /\ MaxChanges \in Nat /\ MaxUpsets \in Nat

VARIABLES
    env,            \* the environment variable of the policy, `ro:` prefix and value
    row,            \* the ProjectPolicy row
    cached,         \* the entry of _override_cache within its time to live
    fetched,        \* fetched[x]: what x has read from the table and not yet kept
    raced,          \* a value read before a change was kept after it
    wanted, changes,\* the value the admin is setting, and how many were asked for
    cls, place, upsets,
    req, before, home, alert, scanned, used, approval, pc,   \* the locals of a call
    steady          \* steady[c]: nothing c depends on changed since it began

policy == <<env, row, cached, fetched, raced, wanted, changes>>
record == <<cls, place, upsets>>
locals == <<req, before, home, alert, scanned, used, approval>>
vars == <<policy, record, locals, pc, steady>>

CallSteps == {"idle", "alerts", "gate", "ask", "write", "written", "refused"}
AdminSteps == {"idle", "locked?", "set", "drop"}

TypeOK ==
    /\ env \in Envs /\ row \in Rows /\ cached \in Rows \cup {"empty"}
    /\ fetched \in [Readers -> Rows \cup {"nothing"}]
    /\ raced \in BOOLEAN /\ wanted \in Modes /\ changes \in 0..MaxChanges
    /\ cls \in Tiers /\ place \in Domains \cup {"archived"} /\ upsets \in 0..MaxUpsets
    /\ req \in [Calls -> Requests] /\ before \in [Calls -> Tiers]
    /\ home \in [Calls -> Domains \cup {"archived"}]
    /\ alert \in [Calls -> BOOLEAN] /\ scanned \in [Calls -> SUBSET Domains]
    /\ used \in [Calls -> Modes \cup {"unasked"}]
    /\ approval \in [Calls -> {"none", "accepted", "confirmed"}]
    /\ pc \in [Readers -> CallSteps \cup AdminSteps]
    /\ steady \in [Calls -> BOOLEAN]

NoRequest == [op |-> "replace", cls |-> 0, confirm |-> FALSE, elicit |-> FALSE]

Init ==
    /\ env \in Envs /\ row \in Rows /\ cached = "empty"
    /\ fetched = [x \in Readers |-> "nothing"]
    /\ raced = FALSE /\ wanted = "warn" /\ changes = 0
    /\ cls \in Tiers /\ place \in Domains /\ upsets = 0
    /\ req = [c \in Calls |-> NoRequest]
    /\ before = [c \in Calls |-> 0] /\ home = [c \in Calls |-> "archived"]
    /\ alert = [c \in Calls |-> FALSE]
    /\ scanned = [c \in Calls |-> {}] /\ used = [c \in Calls |-> "unasked"]
    /\ approval = [c \in Calls |-> "none"]
    /\ pc = [x \in Readers |-> "idle"]
    /\ steady = [c \in Calls |-> FALSE]

GoTo(x, step) == pc' = [pc EXCEPT ![x] = step]

-----------------------------------------------------------------------------
(* resolve_policy and _get_cached_override, for whoever is at step `at`.  A    *)
(* reader that finds nothing in the cache reads the row, and keeps what it     *)
(* read when the answer of the database arrives.                               *)

Default == IF env.value # "none" THEN env.value ELSE "warn"
Resolve(override) == IF env.lock THEN env.value
                     ELSE IF override # "none" THEN override ELSE Default
Effective == Resolve(row)

Fetch(x, at) ==
    /\ pc[x] = at /\ ~env.lock /\ cached = "empty" /\ fetched[x] = "nothing"
    /\ fetched' = [fetched EXCEPT ![x] = row]
    /\ UNCHANGED <<env, row, cached, raced, wanted, changes, record, locals, pc, steady>>

(* The cache afterwards, when reader x goes on with `override`.                *)
LookUp(x, at, override) ==
    /\ pc[x] = at
    /\ \/ env.lock /\ override = "none" /\ UNCHANGED <<cached, fetched, raced>>
       \/ /\ ~env.lock /\ fetched[x] = "nothing" /\ cached = override
          /\ UNCHANGED <<cached, fetched, raced>>
       \/ /\ ~env.lock /\ fetched[x] = override /\ override # "nothing"
          /\ fetched' = [fetched EXCEPT ![x] = "nothing"]
          /\ cached' = override
          /\ raced' = (override # row)

(* The time to live of the cached value is over.                               *)
Expire ==
    /\ cached # "empty"
    /\ cached' = "empty" /\ raced' = FALSE
    /\ UNCHANGED <<env, row, fetched, wanted, changes, record, locals, pc, steady>>

-----------------------------------------------------------------------------
(* set_project_policy: the lock is looked up through the cache, the row is     *)
(* written, and the cached value is dropped when the write has come back.      *)

AdminStart(mode) ==
    /\ pc[Admin] = "idle" /\ changes < MaxChanges
    /\ GoTo(Admin, "locked?") /\ wanted' = mode /\ changes' = changes + 1
    /\ UNCHANGED <<env, row, cached, fetched, raced, record, locals, steady>>

AdminCheck ==
    /\ \E override \in Rows : LookUp(Admin, "locked?", override)
    /\ GoTo(Admin, IF env.lock THEN "idle" ELSE "set")
    /\ UNCHANGED <<env, row, wanted, changes, record, locals, steady>>

AdminSet ==
    /\ pc[Admin] = "set" /\ GoTo(Admin, "drop")
    /\ row' = wanted
    /\ steady' = [c \in Calls |-> FALSE]
    /\ UNCHANGED <<env, cached, fetched, raced, wanted, changes, record, locals>>

\* Mutant of AdminDrop: the cached value is left to its time to live.
AdminDropNothing ==
    /\ pc[Admin] = "drop" /\ GoTo(Admin, "idle")
    /\ UNCHANGED <<policy, record, locals, steady>>

AdminDrop ==
    /\ pc[Admin] = "drop" /\ GoTo(Admin, "idle")
    /\ cached' = "empty" /\ raced' = FALSE
    /\ UNCHANGED <<env, row, fetched, wanted, changes, record, locals, steady>>

-----------------------------------------------------------------------------
(* _record_expertise and _edit_record up to the gate.                          *)

Calm == /\ pc[Admin] # "drop"
        /\ cached \in {"empty", row}
        /\ \A x \in Readers : fetched[x] \in {"nothing", row}

(* The references have to be live, and the record to edit has to be found in   *)
(* the domain that the client names; what is kept of it is what it was then.   *)
Begin(c, r) ==
    /\ pc[c] = "idle" /\ req' = [req EXCEPT ![c] = r]
    /\ steady' = [steady EXCEPT ![c] = Calm]
    /\ before' = [before EXCEPT ![c] = cls] /\ home' = [home EXCEPT ![c] = place]
    /\ IF place = "archived" THEN GoTo(c, "refused") /\ UNCHANGED alert
       ELSE IF r.op = "replace" THEN GoTo(c, "alerts") /\ UNCHANGED alert
       ELSE /\ GoTo(c, "gate")
            /\ alert' = [alert EXCEPT ![c] = (r.op = "override" \/ cls > r.cls)]
    /\ UNCHANGED <<policy, record, scanned, used, approval>>

(* A foundational record is guarded, and any against a lower classification.   *)
Alarms(old, new) == old = 2 \/ old > new

(* supersede_alerts reads the domain files one after the other.                *)
ScanDomain(c, d) ==
    /\ pc[c] = "alerts" /\ d \in Domains \ scanned[c]
    /\ scanned' = [scanned EXCEPT ![c] = @ \cup {d}]
    /\ alert' = [alert EXCEPT ![c] = @ \/ (place = d /\ Alarms(cls, req[c].cls))]
    /\ GoTo(c, IF Domains \subseteq scanned[c] \cup {d} THEN "gate" ELSE "alerts")
    /\ UNCHANGED <<policy, record, req, before, home, used, approval, steady>>

-----------------------------------------------------------------------------
(* _gate_guardrail_warnings                                                    *)

Unguarded(c) ==
    /\ pc[c] = "gate" /\ ~alert[c] /\ GoTo(c, "write")
    /\ UNCHANGED <<policy, record, locals, steady>>

\* Mutant of Enforced: confirm=true goes before the question to a person.
EnforcedConfirmFirst(c) ==
    IF req[c].confirm THEN "write" ELSE IF req[c].elicit THEN "ask" ELSE "refused"

(* A client that can ask a person does; confirm=true is for the others.        *)
Enforced(c) ==
    IF req[c].elicit THEN "ask" ELSE IF req[c].confirm THEN "write" ELSE "refused"

Gate(c) ==
    /\ alert[c]
    /\ \E override \in Rows : LET mode == Resolve(override) IN
        /\ LookUp(c, "gate", override)
        /\ used' = [used EXCEPT ![c] = mode]
        /\ GoTo(c, IF mode = "warn" THEN "write" ELSE Enforced(c))
        /\ approval' = [approval EXCEPT ![c] =
                IF mode = "enforce" /\ pc'[c] = "write" THEN "confirmed" ELSE @]
    /\ UNCHANGED <<env, row, wanted, changes, record, req, before, home, alert, scanned, steady>>

Accept(c) ==
    /\ pc[c] = "ask" /\ GoTo(c, "write")
    /\ approval' = [approval EXCEPT ![c] = "accepted"]
    /\ UNCHANGED <<policy, record, req, before, home, alert, scanned, used, steady>>

(* The person declines, or the question fails and the call with it.            *)
Decline(c) ==
    /\ pc[c] = "ask" /\ GoTo(c, "refused")
    /\ UNCHANGED <<policy, record, locals, steady>>

-----------------------------------------------------------------------------
(* The change itself, and what others do to the record.                        *)

(* `ml` refuses to edit a record that is not in the named domain any more.     *)
Write(c) ==
    /\ pc[c] = "write"
    /\ IF req[c].op = "replace" THEN GoTo(c, "written") /\ UNCHANGED <<cls, steady>>
       ELSE IF place # home[c] THEN GoTo(c, "refused") /\ UNCHANGED <<cls, steady>>
       ELSE /\ GoTo(c, "written")
            /\ cls' = req[c].cls
            /\ steady' = [x \in Calls |-> steady[x] /\ (x = c \/ pc[x] = "written" \/ cls = cls')]
    /\ UNCHANGED <<policy, place, upsets, locals>>

Move(d) ==
    /\ upsets < MaxUpsets /\ place \in Domains \ {d}
    /\ place' = d /\ upsets' = upsets + 1
    /\ steady' = [c \in Calls |-> FALSE]
    /\ UNCHANGED <<policy, cls, locals, pc>>

Delete ==
    /\ upsets < MaxUpsets /\ place \in Domains
    /\ place' = "archived" /\ upsets' = upsets + 1
    /\ steady' = [c \in Calls |-> FALSE]
    /\ UNCHANGED <<policy, cls, locals, pc>>

-----------------------------------------------------------------------------
CallStep(c) ==
    \/ \E r \in Asked[c] : Begin(c, r)
    \/ \E d \in Domains : ScanDomain(c, d)
    \/ Unguarded(c) \/ (alert[c] /\ Fetch(c, "gate")) \/ Gate(c)
    \/ Accept(c) \/ Decline(c) \/ Write(c)

Next ==
    \/ \E c \in Calls : CallStep(c)
    \/ \E mode \in Modes : AdminStart(mode)
    \/ Fetch(Admin, "locked?") \/ AdminCheck \/ AdminSet \/ AdminDrop
    \/ Expire \/ Delete
    \/ \E d \in Domains : Move(d)

Spec == Init /\ [][Next]_vars

-----------------------------------------------------------------------------
(* A cached override is the row's value, but for the moment in which a change  *)
(* has reached the table and not yet dropped the cached value, and for a value *)
(* read before a change and kept after it, which lasts for its time to live    *)
(* (_get_cached_override, invalidate_policy_override).                         *)
StaleOnlyByRace == cached \in Rows \ {row} => pc[Admin] = "drop" \/ raced

(* The warning that a call of request r calls for, given the record as it was. *)
Warrants(r, old) == r.op = "override" \/ (r.op = "edit" /\ old > r.cls)
                    \/ (r.op = "replace" /\ (old = 2 \/ old > r.cls))

(* Where the policy is to enforce, no call that was left undisturbed replaces  *)
(* or downgrades a record without the answer of a person, or the client's      *)
(* confirmation if it cannot ask one; and what it replaces is a live record.   *)
(* `steady` excludes the calls that something they had read was changed under: *)
(* the policy, or the record's classification and place.                       *)
NothingReplacedUnasked == \A c \in Calls : (pc[c] = "written" /\ steady[c]) =>
    /\ place # "archived"
    /\ (Effective = "enforce" /\ Warrants(req[c], before[c])) =>
            approval[c] = IF req[c].elicit THEN "accepted" ELSE "confirmed"

=============================================================================
