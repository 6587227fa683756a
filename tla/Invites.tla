------------------------------- MODULE Invites -------------------------------
(***************************************************************************)
(* An invite link to a project, and the requests that claim it: by opening  *)
(* the link while logged in, or by logging in with the link stashed in the  *)
(* session.  A claim validates the link first and takes a use in a          *)
(* transaction later, with the row of the link locked; the admin pages      *)
(* revoke the link and add and remove members meanwhile.                    *)
(***************************************************************************)
EXTENDS Naturals, FiniteSets

CONSTANTS
    Users,
    Requests,   \* the requests that carry the link's token, each one a task
    Allowed,    \* users whose email matches allowed_email_domains
    MaxUses,    \* max_uses
    Ops,        \* the operations this instance exercises
    NoUser

ASSUME UsersAssumption == Allowed \subseteq Users /\ NoUser \notin Users
ASSUME MaxUsesAssumption == MaxUses \in Nat
ASSUME OpsAssumption ==
    Ops \subseteq {"open", "login", "revoke", "expire", "addMember", "removeMember"}

VARIABLES
    useCount,  \* InviteLink.use_count
    revoked,   \* InviteLink.revoked
    expired,   \* its expires_at has passed
    members,   \* UserMembership rows of the project, unique per user
    removed,   \* users with a MEMBERSHIP_REMOVED event
    used,      \* InviteUse rows: [by, user]
    pc,        \* the step each request is at
    user,      \* whose it is
    reply      \* what it was answered

link == <<useCount, revoked, expired>>
vars == <<useCount, revoked, expired, members, removed, used, pc, user, reply>>

InFlight == {"openDomain", "loginDomain", "member", "claim"}

TypeOK ==
    /\ useCount \in Nat
    /\ revoked \in BOOLEAN /\ expired \in BOOLEAN
    /\ members \subseteq Users /\ removed \subseteq Users
    /\ used \subseteq [by : Requests, user : Users]
    /\ pc \in [Requests -> InFlight \cup {"idle", "done"}]
    /\ user \in [Requests -> Users \cup {NoUser}]
    /\ \A q \in Requests : pc[q] \in InFlight => user[q] \in Users
    /\ reply \in [Requests -> {"none", "ok", "invalid", "denied", "error"}]

Init ==
    /\ useCount = 0
    /\ revoked = FALSE /\ expired = FALSE
    /\ members = {} /\ removed = {}
    /\ used = {}
    /\ pc = [q \in Requests |-> "idle"]
    /\ user = [q \in Requests |-> NoUser]
    /\ reply = [q \in Requests |-> "none"]

GoTo(q, step) == pc' = [pc EXCEPT ![q] = step] /\ UNCHANGED reply
Answer(q, r) == pc' = [pc EXCEPT ![q] = "done"] /\ reply' = [reply EXCEPT ![q] = r]

-----------------------------------------------------------------------------
\* InviteLink.status
Active == ~revoked /\ ~expired /\ useCount < MaxUses

\* validate_invite, as invite_landing or _claim_pending_invite call it.
Validate(q, o) ==
    /\ o \in Ops \cap {"open", "login"} /\ pc[q] = "idle"
    /\ \E u \in Users : user' = [user EXCEPT ![q] = u]
    /\ IF Active
       THEN GoTo(q, IF o = "open" THEN "openDomain" ELSE "loginDomain")
       ELSE Answer(q, "invalid")
    /\ UNCHANGED <<link, members, removed, used>>

\* The email domain does not matter to a member who opens the link; it does to one
\* who logs in with it.
CheckDomain(q) ==
    /\ pc[q] \in {"openDomain", "loginDomain"}
    /\ IF user[q] \in Allowed \/ (pc[q] = "openDomain" /\ user[q] \in members)
       THEN GoTo(q, "member") ELSE Answer(q, "denied")
    /\ UNCHANGED <<link, members, removed, used, user>>

\* claim_invite: a member keeps the membership there is, and takes no use.
CheckMember(q) ==
    /\ pc[q] = "member"
    /\ IF user[q] \in members THEN Answer(q, "ok") ELSE GoTo(q, "claim")
    /\ UNCHANGED <<link, members, removed, used, user>>

\* Mutant of Claim: the limit is not checked again under the lock.
ClaimUnchecked(q) ==
    /\ pc[q] = "claim"
    /\ IF user[q] \in members
       THEN Answer(q, "error") /\ UNCHANGED <<useCount, members, used>>
       ELSE /\ useCount' = useCount + 1
            /\ members' = members \cup {user[q]}
            /\ used' = used \cup {[by |-> q, user |-> user[q]]}
            /\ Answer(q, "ok")
    /\ UNCHANGED <<revoked, expired, removed, user>>

\* Mutant of Claim: the use is saved before the transaction.
ClaimCountFirst(q) ==
    /\ pc[q] = "claim"
    /\ \/ useCount >= MaxUses /\ Answer(q, "invalid") /\ UNCHANGED <<useCount, members, used>>
       \/ /\ useCount < MaxUses
          /\ useCount' = useCount + 1
          /\ IF user[q] \in members
             THEN Answer(q, "error") /\ UNCHANGED <<members, used>>
             ELSE /\ members' = members \cup {user[q]}
                  /\ used' = used \cup {[by |-> q, user |-> user[q]]}
                  /\ Answer(q, "ok")
    /\ UNCHANGED <<revoked, expired, removed, user>>

\* The transaction: with the row locked, its limit (not whether it was revoked or
\* expired meanwhile) is checked again; the unique membership row of somebody who
\* joined meanwhile rolls everything back.
Claim(q) ==
    /\ pc[q] = "claim"
    /\ \/ useCount >= MaxUses /\ Answer(q, "invalid") /\ UNCHANGED <<useCount, members, used>>
       \/ /\ useCount < MaxUses /\ user[q] \in members
          /\ Answer(q, "error") /\ UNCHANGED <<useCount, members, used>>
       \/ /\ useCount < MaxUses /\ user[q] \notin members
          /\ useCount' = useCount + 1
          /\ members' = members \cup {user[q]}
          /\ used' = used \cup {[by |-> q, user |-> user[q]]}
          /\ Answer(q, "ok")
    /\ UNCHANGED <<revoked, expired, removed, user>>

-----------------------------------------------------------------------------
(* The clock and the admin pages *)

Expire ==
    /\ "expire" \in Ops /\ ~expired /\ expired' = TRUE
    /\ UNCHANGED <<useCount, revoked, members, removed, used, pc, user, reply>>

Revoke ==
    /\ "revoke" \in Ops /\ revoked' = TRUE
    /\ UNCHANGED <<useCount, expired, members, removed, used, pc, user, reply>>

AddMember(u) ==
    /\ "addMember" \in Ops /\ u \notin members
    /\ members' = members \cup {u}
    /\ UNCHANGED <<link, removed, used, pc, user, reply>>

RemoveMember(u) ==
    /\ "removeMember" \in Ops /\ u \in members
    /\ members' = members \ {u}
    /\ removed' = removed \cup {u}
    /\ UNCHANGED <<link, used, pc, user, reply>>

-----------------------------------------------------------------------------
Step(q) ==
    \/ Validate(q, "open") \/ Validate(q, "login")
    \/ CheckDomain(q) \/ CheckMember(q) \/ Claim(q)

Rest == (\A q \in Requests : pc[q] \in {"idle", "done"}) /\ UNCHANGED vars

Next ==
    \/ \E q \in Requests : Step(q)
    \/ \E u \in Users : AddMember(u) \/ RemoveMember(u)
    \/ Expire \/ Revoke
    \/ Rest

Spec == Init /\ [][Next]_vars

-----------------------------------------------------------------------------
(* Properties *)

\* "The link stops working once this many people have claimed it", however many
\* claims were validated while there was a use left.
WithinLimit == useCount <= MaxUses

\* The counter and the InviteUse rows agree, whatever a rolled back claim did.
CountMatchesUses == useCount = Cardinality(used)

=============================================================================
