# mulchd in TLA+

mulchd is a multi-user MCP server in front of `ml` (mulch), a command line tool
that keeps a project's knowledge records in one JSONL file per domain. This
directory specifies how mulchd behaves when calls overlap and steps fail,
checks it with TLC on small instances, and proves part of it with TLAPS. The
modules are translated from the source under `src/src/mulchd`; `PROJECT.json`
gives the lines behind every definition.

Run the tools inside this directory:

    tlc -workers 2 -config lifecycle_store.cfg MCRecordLifecycle
    tlapm RecordLifecycle_proofs.tla

## 1. Inventory

| Component | State it keeps | Operations | How it meets the others |
|---|---|---|---|
| Record lifecycle (`mcp/tier2.py`, `mulch.py`, `records.py`, `domains.py`) | domain files, archive files (on disk, through `ml`), `RecordMeta` and `RecordEvent` rows | write, delete, move; delete and restore from the admin pages | reads through the project cache, asks the policies, notifies subscribers |
| Record edits, outcomes, history (`mcp/tier2.py`, `mcp/formatting.py`, `admin/record_activity.py`) | the record's fields, its outcomes, `RecordEvent` and `RecordEdit` rows, `_active_sessions` in memory | edit, outcome, admin edit; get_record_history, activity page, staleness of outcomes | shares sessions and events with the lifecycle |
| Superadmin grants (`admin_grants.py`, `admin/users.py`, `cli.py`) | `AdminGrant` rows, `User.active`, `InstanceEvent` rows | grant, revoke, deactivate, activate, two bootstraps | guards every admin page |
| Invite links (`invite.py`, `connect.py`, `admin/invites.py`) | `InviteLink`, `InviteUse`, `UserMembership` rows, the token stashed in the browser session | open, log in with, revoke, expire; members added and removed | creates the memberships that authentication reads |
| Logins to the web pages (`connect.py`, `auth.py`, user pages) | `User` and `OAuthIdentity` rows, `first_login_at`, `FIRST_LOGIN` events | callback of a provider, login by token; accounts made, deactivated, unlinked | claims the stashed invite, bootstraps the first superadmin |
| OAuth authorization server (`mcp_auth.py`, consent in `connect.py`) | `OAuthClient`, `OAuthGrant`, `OAuthCode`, `OAuthToken` rows | consent, code exchange, refresh, revocation, app removal | issues the tokens `main.py` authenticates |
| Tokens and request authentication (`auth.py`, `api.py`, `main.py`) | `ProjectToken`, `User.token_hash`, memberships | mint, reset, deactivate, resolve a request to a tier and a role | decides role and project of every tool call |
| Supersession graph (`mcp/supersession.py`) | none of its own: links between records | walks for roots, tips, alerts | feeds the guardrail gate and reads |
| Project cache (`mcp/project_cache.py`) | parsed files by modification time | scan | the duplicate check, references, reads |
| Policies (`policies.py`, `admin/projects.py`) | `ProjectPolicy` rows, a TTL cache of them | resolve, set, invalidate | strict_domains, guardrail_enforcement, limits |
| Subscriptions (`mcp/subscriptions.py`, `_notify_domain`) | the registry of sessions and domains | subscribe, unsubscribe, unregister, notify | told of every change of a record |
| Reads and pagination (`_read_expertise`, `_round_robin_cap`) | cursors the client keeps | read, search, list | |
| Pages, schemas, configuration, migrations | | | |

What is hard here:

* **Two stores, no transaction over both.** Every change of a record is an `ml`
  command followed by one or two inserts. Each failure has an undo of its own,
  and the undo is another `ml` command on whatever the file holds by then.
* **Interleaving at awaits.** mulchd is one event loop; a tool call can be
  overtaken at each await, and what it read before (the files, the owner, the
  snapshot of the fields) may be stale when it acts. Waiting for a person at the
  guardrail gate makes that window arbitrarily long.
* **Order.** History pairs rows only by session and order of insertion.
* **Crashes and timeouts.** Sessions live in memory; an `ml` command killed after
  30 seconds may have taken effect; nothing is repaired at the next start.
* **Checks followed by writes** in the account pages: last admin, bootstrap,
  invite limit, single-use codes. Some are guarded by row locks, some by unique
  constraints, some by nothing.

What makes each component correct is stated as the properties of section 4;
`PROJECT.json` lists every hazard at its line with the properties that cover it,
and says of two of them why no property does.

## 2. Modules

| Module | Models | Proofs | Instance |
|---|---|---|---|
| `RecordLifecycle` | where the records of a project are and what the rows say | `RecordLifecycle_proofs` | `MCRecordLifecycle` |
| `KnowledgeStore` | the promise of write and delete to a reader, which `RecordLifecycle` implements | | |
| `RecordHistory` | edits, outcomes and the history of one record | `RecordHistory_proofs` | `MCRecordHistory` |
| `AdminGrants` | who administers the instance | `AdminGrants_proofs` | `MCAdminGrants` |
| `Invites` | one invite link and its claims | `Invites_proofs` | `MCLogins` |
| `Logins` | who a login to the web pages is, together with `Invites` | `Invites_proofs` | `MCLogins` |
| `OAuthServer` | consents, codes and tokens of one client and one user | `OAuthServer_proofs` | `MCOAuthServer` |
| `Supersession` | what a read finds out about the links between records | `Reads_proofs` | `MCReads` |
| `ProjectCache` | the scans that share a cache of parsed files | `Reads_proofs` | `MCReads` |
| `Guardrail` | the gate in front of replacing or downgrading a record, and its policy | `Guardrail_proofs` | `MCGuardrail` |
| `Sessions` | tokens, authenticated requests, subscriptions and notifications | `Sessions_proofs` | `MCSessions` |
| `Reading` | pages, cursors and searches over changing files | `Reads_proofs` | `MCReading` |

All modules have the same form. A tool call or request is a task with a program
counter `pc` (`stage` in `ProjectCache`, `phase` in `Reading`, whose proofs share a module
with those of `Supersession` for the lemmas they have in common); an action is what the code does from one await to the next, with
its guard, its early return and everything it writes. An `ml` command is one
action, because `ml` locks the file it works on; a database statement is one
action; a database transaction is one action when it only touches rows it locks
(`Invites`), and several where what it reads is not locked (`AdminGrants`). The
constant `Ops` chooses the operations an instance exercises and `Faults` the
faults that may strike (`db`: an insert or update fails; `ml`: a command fails or
is killed, with or without effect; `crash`: the process dies).

### RecordLifecycle

`live[d]` are the ids in `expertise/d.jsonl`, `files` the files that exist (an
empty file is still a domain), `archive` the soft-deleted records, `meta` and
`events` the rows. Ids are `ml`'s: a hash of the type and the deduplication
field, with no domain in it, so *the same content written to two domains is the
same id twice*, which is what the duplicate check and the unique constraint of
`RecordMeta` are for.

| Code | Actions |
|---|---|
| `_record_expertise` 584-683 (checks) | `StartWrite`, `ScanDomain` (one file per step, in any order), `PassPrecheck` |
| 686-716 (`ml record`, not written, tidy-up) | `Record`, `NotWritten`, `Tidy`, `MlFails` |
| 718-761 (rows and rollbacks) | `CreateMeta`, `MetaTaken`, `CreateEvent`, `DbFails`, `Rollback` |
| `_delete_record` | `StartDelete`, `Archive`, `CreateEvent`, `Restore`, `Sweep`, `Unlink` |
| `_move_record` | `StartMove`, `Move`, `CreateEvent`, `Relabel`, `MoveBack`, `Sweep`, `Unlink` |
| admin pages | `AdminDelete`, `AdminRestore` |
| `mulch.py` | `MlRecord`, `MlArchive`, `MlRestore`, `MlMove`, `MlEffect` |

Left out: the content of a record beyond its id, ownership and roles (a call is
one its caller may make), references, the guardrail gate (it only makes a step
later), notifications. `ml init` changes nothing that is modelled.

### KnowledgeStore

For each id the abstract state is *unused*, *published in a domain* or *retired*.
A step publishes an unused id, retires an unused one, or withdraws published ones
of one domain: usually one of them, and several where a file that was found empty is
unlinked with what was appended since. `RecordLifecycle` implements it, `Store == INSTANCE KnowledgeStore WITH
home <- Home`. The refinement mapping `Home` reads it off both stores:
published in `d` when the row says `d` and a copy in `d` is settled, that is, no
write is still deciding about it. Restores (which bring a record back on
purpose) and moves are outside the promise.

### RecordHistory

One record: `value` (a field holds the call that wrote it, so a value names its
writer), `outcomes`, the rows `events` and `edits` in the order of their
insertion, the in-memory `session` of each user. `PairedRows(k)` is the snapshot
`get_record_history` shows with event `k`, written as what the queues come to:
the row of the same session and the same rank in it. `PageRows` is the same for
the activity page, `Stale` is `annotate_outcome_staleness`. The history of an
outcome keeps `on`, the content it was given for, which the code does not record
and only a property reads.

`regime` is fixed from the start, one of `Regimes`, and states which calls may be
in flight together and what may fail. It is an assumption on the clients: what
overlapping edits do to the snapshots is a disagreement below, and the properties
name the regime they hold in.

### AdminGrants

Grants are `[user, id]`; the id tells a row from its successor after a revocation
and a new grant, which is what `revoke_superadmin` re-fetches by.
`SerialTxns = FALSE` is Postgres at READ COMMITTED, where a transaction waits only for
the row it locks; that is what `docs/deployment.md` and `deploy/docker-compose.yml`
deploy, and what the runs check. `TRUE` is SQLite, where transactions exclude each other.
`overtaken` is bookkeeping for a property: the revocations that counted a row which
another one deletes before they delete their own.
The bootstraps (OAuth login and command line) are the same steps: count, look,
insert. Crashes are left out: they lose an `InstanceEvent` and nothing repairs it.

### Invites

One link. `Validate` is `validate_invite` on both ways in; the domain check and
the membership check follow, then the transaction `Claim`, which locks the link,
checks the count again and inserts membership and use, or rolls back. A link with
`max_uses = null` has no limit and nothing to check; `MaxUses` is a number.
`removed` are the users an admin took out of the project again, whom the same link
may admit a second time: the `InviteUse` row of the first time stays. The
`InstanceEvent` after the transaction is not modelled.

### Logins

Extends `Invites` by the logins that carry its link: every step is a step of `Invites`
or leaves the variables of `Invites` alone, and `login[q].step` says where the request is
before it claims. An email never changes and is unique, so it names the account. All
persons go by the same username, so that the search for a free name is exercised; a name
is the number it ends in. A request is cut at every await.

| Code | Actions |
|---|---|
| `oauth_callback`, `connect_login` | `Callback`, `TokenLogin` |
| `_resolve_oauth_identity` | `FindIdentity`, `FindEmail`, `Identify` |
| `validate_invite` and the domains, for somebody unknown | `Unknown` |
| `create_user_from_oauth` | `TryName`, `CreateAccount`, `Identify`, `LogFirst` |
| `_maybe_log_first_login` | `First`, `LogFirst` |
| `_claim_pending_invite`, `invite_landing` | `ClaimPending`, `OpenLink`, `ContinueClaim` |
| admin pages, failures | `CreateUser`, `SwitchAccount`, `Unlink`, `ManageLink`, `Fail` |

`after` (the requests that were over when this one began), `barred` (the identity
belonged to an inactive account ever since), `stamped` and `unlinked` are bookkeeping for
the properties. Left out: the exchange with the provider, cookies and redirects, the
`OAUTH_LINKED` event, and the bootstrap of the first superadmin, which is in `AdminGrants`.

### OAuthServer

One client and one user, because every query filters on both. `grant` is the
`OAuthGrant` row, unique per client and user, `codes` and `tokens` the rows under
it; a row of `tokens` is a pair of access and refresh token. A code or a pair is
named by the request that created it, so a request that is done names at most one.
Requests are tasks, cut at every await; nothing here runs in a transaction, and what
guards the spending of a code or a token is a conditional UPDATE.

| Code | Actions |
|---|---|
| `oauth_consent_page`, `oauth_consent_submit`, `_issue_oauth_code` | `OpenPage`, `Consent`, `LookUpGrant`, `CreateGrant`, `Repoint`, `CreateCode` |
| `load_authorization_code`, `exchange_authorization_code` | `LoadCode`, `ReadCode`, `ClaimCode`, `Issue` |
| `load_refresh_token`, `exchange_refresh_token` | `LoadToken`, `ReadToken`, `ClaimToken`, `Issue` |
| `resolve_mcp_tier`, `load_access_token`, `is_known_oauth_token` | `LoadAccess`, `Known`, `ReadUser`, `ReadMember` |
| `connect_apps_revoke`, `revoke_token` | `FindGrant`, `DeleteGrant`, `RevokeToken` |
| admin pages, the clock, failures | `ChangeMembership`, `SwitchAccount`, `ExpireCode`, `ExpireAccess`, `Fail` |

The schema takes part: deleting the grant cascades to codes and pairs, and no code
or pair can be inserted without its grant, so an insert that comes too late answers
an error. `consents` (what the user ever agreed to) and a pair's `root` (the code it
descends from) are bookkeeping no column records; only properties read them. Left
out: registration of clients, what the SDK checks before it calls the provider
(PKCE, redirect URI, refresh expiry, which client a secret belongs to) and scopes.

### Supersession

Records are numbers, in the order in which the scan returns them. `LinksInit` takes any
graph of links without a link of a record to itself (`validate_references` refuses
those), because edits add links one at a time and nothing refuses a cycle. A read
scans the live records and then the archive, with an await in between: `Scan(1)`,
`Scan(2)`, and `DeleteRecord` and `RestoreRecord` between them. From there the code
runs without an await and the steps are those of the algorithm.

| Code | Definitions |
|---|---|
| `_find_cycles` (Tarjan with a work stack) | `StartSearch`, `FollowLink`, `CloseRecord`, `PopComponent` |
| `_resolve_tips` (breadth first) | `Onward`, `TakeUp`, `Ends`, `Ahead`, `WalkLevel`, `Tips`, `Hops` |
| `mark_superseded`, `cross_domain_supersede_hints` | `SupersededBy`, `Hints`, `Label`, `Annotate` |
| `mark_related_to` | `Relate`, which labels and does not walk |

The properties compare what is found with reference definitions that know nothing
of stacks and levels: walks of at most `N` links (`Within`, a recursive function; from
it `Reaches`, `Above` and `Distance`).

### ProjectCache

A file is a number, `rev`, that grows with each change of it; the mtime and the
content of a file are the number it had when they were read, so that "older" means
something. A scan (`List`, then `Hit` or `Miss`, `Parse`, `Store` for each file, then
`Return`) keeps the event loop from `List` or `Store` until it awaits the parse of the
next file: `loop` is the scan that has it. Two scans share `entry`. `StatFails`,
`ParseFails` and `ReturnFails` are the exceptions of a file that vanished, and of an
entry that another scan took away. `gone` and `raced` are bookkeeping for the
properties. The mtime is taken as fine enough to tell any two changes apart.

### Guardrail

One record, `cls` and `place`; calls that replace it, lower it, or override its owner;
an admin who sets `guardrail_enforcement`. `cached` and `row` are the entry of
`_override_cache` and the `ProjectPolicy` row, `env` the environment variable.
`Fetch` and `LookUp` are `_get_cached_override`, used by the gate and by the admin's
own lock check, with the await of the query between them. `Gate` decides what
`_gate_guardrail_warnings` decides, in its order: warn, ask a person, `confirm`.
`steady[c]` is bookkeeping: nothing `c` has read was changed under it. A lost
database or a policy value the parser refuses ends the process at the start
(`validate_env_policies`) or the call, and is left out.

### Sessions

A session has one user, one project token and one transport. On `/mcp` every request
is authenticated by two reads (`ReadToken`, `ReadMember`), between which and after
which rows change; on `/sse` that is done once (`Connect`) and every `Message` is
served with what it gave (`connected`). `subs` is the `SubscriptionRegistry`, keyed by
project and domain and by session id; its value is the connection (`line`) that the
session was registered over. A write fires a background task: `StartTask` copies the
subscribers, `Tell` sends to one of them and finds it dead if its connection is not
the current one, `EndTask` unregisters the dead. `since` and `due` are bookkeeping:
what was held since the request was authenticated, and who has to be told.
`may` restricts what happens to a session in an instance, so that a run does not pay
for every mix at once. Left out: token hashing, OAuth tokens (`OAuthServer`), and the
bus of `subscriptions/listen`, which is the SDK's; the gate in front of it is `Listen`.

### Reading

A record has a time stamp, a place, and `fits`, which stands for every filter. A read
takes the domains one by one (`ReadDomain`), then sorts and cuts (`Cut`), or ends
because its cursor is anchored in nothing (`Expire`); `NextPage` reads everything
anew. Between these steps records are stamped, land later (`StampRecord` and `Land`:
the code sets `recorded_at` before the guardrail gate and the write), move, go and are
edited. `Upto` is Python's `records[:limit]`, negative limits included. `RoundRobin` is
`_round_robin_cap`: a result is sorted by the number of results of its domain before it
(`Turn`), then by its domain; the ranking inside a domain is `ml`'s and here the order of
ids. Both sorts are `InOrder`, which puts each element behind those it is given as smaller.
`shown` and `steady` are bookkeeping. Left out: the text, and the walks of
`Supersession` that annotate a page.

## 3. Instances and bounds

Calls, ids, domains, users and requests are two to four values each; the MC modules
declare them. Calls and requests are interchangeable, and `lifecycle_faults`,
`grants`, `logins` and `oauth` reduce by that symmetry, as `guardrail` does by that of
the domains; `lifecycle_store` does not, because it checks liveness, and the calls of
`RecordHistory` belong to different users. Each bound and why it is enough:

* *Three calls* in `RecordLifecycle`: a race needs two, the third is whoever comes
  upon the result (a delete of the copy, a move, a retry). Two domains and two ids:
  the same content in two places, next to another record in the same file. In
  `lifecycle_store` three ids, and one of them there from the start: an unlink that takes
  two records at once needs a delete of a third and two writes.
* *MaxFaults* counts per kind in `RecordLifecycle`: with 1, an insert fails, the
  command that should undo it fails as well and the process dies afterwards. In
  `RecordHistory` it counts all faults, and is 2: a step and the undo of it.
  *MaxAdmin* is 1: a delete, or a restore of what a call deleted.
* `RecordHistory`: three calls are two overlapping edits and one that comes after,
  whose pairing they may shift. Two content fields, which different users may have
  edited last, and an optional field of another kind.
  `PageLimit` stands for the 200 events of the page: with 2, a third call pushes a
  row off the page.
* `AdminGrants`: four requests, three users: two bootstraps, two revocations of the
  last two admins. They run in transactions that wait only for a locked row.
* `Invites` and `Logins`: three requests for one use, so that the limit is met by a claim
  that was validated before; three users, one of them outside the allowed domain; two
  settings. In *Persons*, providers vouch for two identities, the email of one of which
  changes to that of the other, with an account there or none. In *Members*, three accounts
  log in by token or open the link while it and the members change. `MaxUpsets` is 1: one
  failure, or one change by an admin or the clock.
* `OAuthServer`: four requests are the shortest chain in which something is spent
  twice (consent, two exchanges, a refresh) or removed under way. Two projects and two
  roles: a consent that moves the grant and lowers or raises the ceiling. *MaxUpsets*
  is 1: one expiry, one change by an admin, or one failure.
* `Supersession`: four records hold every shape the walk tells apart: a chain of three
  links, a fork, a diamond, a cycle with a tail, two cycles. Two domains of two records:
  a tip next door and a tip elsewhere. One change between the scans is all that one
  record can take there to be missed by both.
* `ProjectCache`: two scans, two files, three revisions each (`MaxRev` is 2). The race is
  between two scans over one file; the other file is what one of them is still reading.
  Scans and files are interchangeable, and the run reduces by both symmetries.
* `Guardrail`: one call of any of the 36 requests, and one that changes the record under
  it; one request to change the policy (two values to set, three to start from), one move
  or delete. The proof covers more.
* `Sessions`: nine settings in one run (`MCSessions`). In one of them three sessions of a
  project meet over a domain: one writes, one comes and goes, one stays. In the other eight
  a session on `/mcp` and one of the other project on `/sse` are authenticated while tokens,
  members and users change, from every mix of a token or none, a member or none, and two
  roles. `MaxLines` is 2, one reconnection; `MaxUpsets` is 2, the changes of rows.
* `Reading`: three records are the shortest list in which a page boundary falls between
  two of one time and a third lands behind it; two domains, four limits, two changes. The
  clock has two times, so that ties are common.

## 4. Runs

| Run | Shows |
|---|---|
| `lifecycle_store` | Writes, deletes and an admin deletion, scheduled fairly. `RegisteredHome`: a settled copy is in the domain its row names. `ImplementsKnowledgeStore`: a reader sees an id unused, then published in one domain, then retired, and never again. `DuplicateResolves`: two copies of an id do not stay |
| `lifecycle_faults` | All operations, an admin request and a fault of every kind, both values of `strict_domains`. `OneAcknowledgedWriter`, `AcknowledgedWriteSurvives`: one write of a content is acknowledged, and no rollback of another takes it away. `ChangesAreTracked`: what the undo of a delete or of a lone move restores. `EmptyFileIsSwept`: what stays behind when nothing fails. `OnlyUnlinkLoses`: the only step that loses a record. `OnlyMovesSplit`: what puts a record in two domains while nothing fails |
| `history` | The edits of one record in three regimes: by two users at once, with outcomes, admin edits, `ml` failures, crashes and expiring sessions; one at a time with failing inserts and outcomes that overlap them; and with calls of one user that overlap as well. `HistoryNeverCrossesActors`, `PairsOwnSnapshot`: which snapshot is shown with which event. `OneOutcomePerStatus`: a status counts once. `SnapshotsReplay`: the snapshots replay to the record. `ConfirmedByAnother`: what lifting the stale flag means |
| `grants` | Requests of every kind, transactions as in Postgres. `RevocationLeavesOne`: of several revocations of one grant a single one deletes it, and a revocation leaves a superadmin behind unless another one overtook it. `AuditBalances`: the `InstanceEvent` trail accounts for every grant |
| `logins` | Logins that overlap, fail half way and carry the link. `WithinLimit`, `CountMatchesUses`: the limit of the link, and the counter against the rows. `LoginMeetsIdentity`: a login is in the account its identity is linked to. `DeactivatedStaysOut`: who is deactivated throughout gets in neither by another email nor by an invite. `FirstLoginIsLogged`: the first login of an account is logged, and twice only by logins that overlapped |
| `oauth` | `SpentOnce`, `OneLivePair`: a code or a refresh token buys one pair, and one of its descent is live. `EndedStaysEnded`: no refresh under way revives what the client revoked. `NothingOutlivesItsGrant`: removing an app takes away what was being issued. `ServedWithinConsent`: no request acts beyond a consent |
| `reads` | Two instances side by side, `ProjectCache` or `Supersession` (`part` in `MCReads` says which). Two scans that share cache entries: `FreshUnlessRaced`: a scan returns what was there when it began or something newer, unless another scan overtook it. `FailsOnlyOnRemoval`: it fails only if a file was removed under it. Every graph of links over four records, with a delete or a restore between the scans: `CyclesAreFound`: Tarjan's algorithm gives each record exactly the others it shares a cycle with. `ResolvesToCurrent`: the walk finds exactly the records that can be reached and are not superseded. `HintsNameTheTips`: where a hint points. `NeverMissing`: a link to a record that exists is not labelled missing, unless the record was restored between the scans |
| `guardrail` | Calls, an admin who changes the policy, moves and deletes. `StaleOnlyByRace`: a cached override differs from the row only by a read that straddled the change. `NothingReplacedUnasked`: under `enforce`, a call that nothing was changed under replaces or lowers a record only after an answer |
| `sessions` | `NeverMoreThanHeld`: a request is served with no more than its user held at some time since its authentication began. `OwnProjectOnly`: nobody is registered for, or told of, a domain of another project. `SteadySubscribersAreTold`: who stays subscribed over one connection is told of each change |
| `reading` | A reader pages through files that change. `WalkIsComplete`: every record that nothing touched is shown once, and a cursor is refused only after a change. `WalkGoesForward`: pages do not go back in time. `RoundRobinIsFair`: a search gives every domain its share |

Fairness is used by one run, `lifecycle_store`. `FairSpec` asks weak fairness of the
next step of each call in flight: the event loop resumes a task whose await
completed, every await of a call is a database statement or an `ml` command, and `ml`
is killed after 30 seconds. It asks nothing of clients (a call need never start), of
faults or of admins, and the guardrail gate, which waits for a person, is not in that
module.

Deadlock is checked in the runs of `RecordLifecycle`, `RecordHistory`, `AdminGrants`,
`Logins` and `OAuthServer`, where `Rest` (`LoginRest`) is a stutter allowed only while no call is
in flight, and in `reads`, where `Answered` is one for a read of links that is over; so a call
stuck half way would be reported. It is not checked in
`guardrail`, `sessions` and `reading`, which really end: a read that was
answered asks nothing more, and when the bounded changes and requests are used up nothing
is left to do.

Several properties are conditional, and the condition is where the code stops
keeping the promise: the disagreements below are what happens outside of it. Where a
property excuses the very step a hazard is about, it says that nothing else does the same,
and the note of the hazard says so.

### Disagreements

Two runs check a statement of a docstring or a comment and find it violated by what the
code does; `PROJECT.json` quotes the statements:

* `v_last_admins` (`GrantRemains`): the docstring of `revoke_superadmin` says that under its
  row lock "two concurrent revokes of the last two admins can't both read 'not last' and both
  proceed" (`admin_grants.py` 80-82). Each locks only the row it deletes, counts two and
  deletes: under READ COMMITTED both go. `RevocationLeavesOne` says what the lock does keep,
  and where transactions exclude each other nobody is overtaken and a superadmin remains.
* `v_collision_rival` (`CollisionHasARival`): the row of a deleted record is kept, so writing
  its content again "collides with a concurrent write" when there was no other write
  (`tier2.py` 743-749).

Other places where the models follow the code and the code falls short of what one
would expect, without a run of their own. Records and their history:

* a file read as empty is unlinked later, with what `ml` appended in between
  (`OnlyUnlinkLoses` says that no other step loses a record);
* a write that was rolled back leaves its `RecordMeta` row, so the content cannot be
  written anywhere else (a comment excludes "silent cross-store drift", `tier2.py` 758), and
  it leaves the empty file of a domain it created; a move that was moved back leaves its
  event;
* a copy that is moved while its write is still deciding settles in two domains, and
  `ml restore` may bring back the other one of two archived copies;
* the undo of a failed edit cannot remove an optional field that was absent before (a
  comment excludes "an edit on disk", `tier2.py` 1032), and it overwrites an edit
  acknowledged in the meantime; an outcome given for content
  a failing edit then takes back is counted as a confirmation;
* the author of the content is taken from the newest `RecordEdit` row, and the order of
  the rows may differ from that of the edits, so an author may confirm their own text;
  and only the newest counts: who wrote the title may confirm the record once another
  user has touched the rationale (so `ConfirmedByAnother` speaks of the last editor);
* the activity page takes its 200 newest events but pops the queues of a session from
  the oldest snapshot, so a session that does not fit the page is shown shifted;
* edits on the admin pages are not logged; two outcome calls at once append twice.

Accounts, links and apps:

* the count behind "last superadmin" includes deactivated users, so the accounts of all of
  them can be deactivated one after the other (`admin_grants.py` 21-23 says otherwise); two
  bootstraps at once make two
  superadmins; a revoked grant is deleted, where a document calls the revocation soft;
* an invite link that is revoked or expires between its validation and the claim is
  claimed all the same; a link may admit a user again whom an admin removed;
* logins that overlap log the first login of an account twice, which a docstring excludes
  (`connect.py` 183, `_maybe_log_first_login`); one that fails after stamping it never does;
* an account made for an invite stays when its identity cannot be inserted, so the person
  gets in only by the email; it stays as well, without a membership, when the link was used
  up in the meantime; and one is made for a person whose own account is deactivated and who
  comes with another email, before that login fails;
* the token of an app that was removed is unknown afterwards (its row is gone), so the
  request is served as an anonymous one and not answered 401 as a docstring says
  (`main.py` 73-76);
* a consent for the same project with a lower role is not written down, which a
  comment in `connect.py` states.

Reads, caches and sessions:

* a scan that another one overtook may return older content than was there when it
  began (`project_cache.py` 57-59), or fail because the other deleted the entry of a file
  that is gone; `FreshUnlessRaced` states the exception;
* an override that was read before a policy changed, and cached after the change dropped
  the entry, stays for the time to live of the cache;
* a hint in another domain is one hop and names the superseder that was scanned last, so
  it may point at a record that is itself superseded (`supersession.py` 49, 81, 163);
  a chain that runs into a cycle resolves to the last record in front of it, where the
  docstring says to none (130-132);
* a session that subscribes again over a new connection is unregistered by a notification
  task that found the old connection dead;
* a session on `/sse` is served with the role it had when it connected;
* a negative limit drops the last records of a page, and no cursor leads to them.

## 5. Proofs

| Theorem | Statement | Assumes |
|---|---|---|
| `RecordLifecycle_proofs!TypeCorrect` | `Spec => []TypeOK` | |
| `RecordLifecycle_proofs!RegisteredHomeHolds` | `Spec => []RegisteredHome` | `NoMoveNoRestore`: no moves, no admin restores, no `ml` failures, no crash, and inserts fail only without deletes |
| `RecordLifecycle_proofs!RecordsAreLostByUnlinkOnly` | `Spec => OnlyUnlinkLoses` | |
| `RecordLifecycle_proofs!OneWriteIsAcknowledged` | `Spec => []OneAcknowledgedWriter` | |
| `RecordLifecycle_proofs!AcknowledgedIsKept` | `Spec => []AcknowledgedWriteSurvives` | |
| `RecordLifecycle_proofs!EmptyFilesAreSwept` | `Spec => []EmptyFileIsSwept` | |
| `RecordLifecycle_proofs!OnlyMovesSplitRecords` | `Spec => OnlyMovesSplit` | |
| `RecordLifecycle_proofs!FailedInsertsLeaveNoTrace` | `Spec => []ChangesAreTracked` | |
| `RecordLifecycle_proofs!LifecycleImplementsStore` | `Spec => ImplementsKnowledgeStore` | `NoMoveNoRestore` |
| `RecordHistory_proofs!TypeCorrect` | `Spec => []TypeOK` | |
| `RecordHistory_proofs!HistoryNeverCrosses` | `Spec => []HistoryNeverCrossesActors` | |
| `RecordHistory_proofs!StatusesCountOnce` | `Spec => []OneOutcomePerStatus` | |
| `RecordHistory_proofs!EachEditWithItsRow` | `Spec => []PairsOwnSnapshot` | |
| `RecordHistory_proofs!HistoryReplays` | `Spec => []SnapshotsReplay` | |
| `RecordHistory_proofs!ConfirmationsAreOthers` | `Spec => []ConfirmedByAnother` | |
| `AdminGrants_proofs!TypeCorrect` | `Spec => []TypeOK` | |
| `AdminGrants_proofs!LastGoesOvertaken` | `Spec => RevocationLeavesOne` | |
| `AdminGrants_proofs!TrailBalances` | `Spec => []AuditBalances` | |
| `Invites_proofs!TypeCorrect` | `Spec => []TypeOK` | |
| `Invites_proofs!LimitHolds` | `Spec => []WithinLimit` | |
| `Invites_proofs!CountMatches` | `Spec => []CountMatchesUses` | |
| `Invites_proofs!LoginTypeCorrect` | `LoginSpec => []LoginTypeOK` | |
| `Invites_proofs!LoginsUseInvites` | `LoginSpec => Spec` | |
| `Invites_proofs!LoginsKeepTheLimit` | `LoginSpec => [](WithinLimit /\ CountMatchesUses)` | |
| `Invites_proofs!LoginsMeetIdentities` | `LoginSpec => []LoginMeetsIdentity` | |
| `Invites_proofs!DeactivatedStayOut` | `LoginSpec => []DeactivatedStaysOut` | |
| `Invites_proofs!FirstLoginsAreLogged` | `LoginSpec => []FirstLoginIsLogged` | |
| `OAuthServer_proofs!TypeCorrect` | `Spec => []TypeOK` | |
| `OAuthServer_proofs!RemovalIsComplete` | `Spec => []NothingOutlivesItsGrant` | |
| `OAuthServer_proofs!ConsentIsTheCeiling` | `Spec => []ServedWithinConsent` | |
| `OAuthServer_proofs!SecretsAreSpentOnce` | `Spec => []SpentOnce` | |
| `OAuthServer_proofs!DescentsDoNotFork` | `Spec => []OneLivePair` | |
| `OAuthServer_proofs!EndedDescentsStayEnded` | `Spec => EndedStaysEnded` | |
| `Reads_proofs!CacheTypeCorrect` | `CacheSpec => []CacheTypeOK` | |
| `Reads_proofs!EntriesAreNotOlder` | `CacheSpec => []EntryNotOlder` | |
| `Reads_proofs!ScansAreFresh` | `CacheSpec => []FreshUnlessRaced` | |
| `Reads_proofs!ScansFailOnlyOnRemoval` | `CacheSpec => []FailsOnlyOnRemoval` | |
| `Reads_proofs!LinksTypeCorrect` | `LinksSpec => []SearchInv`, which has `LinksTypeOK` for a part | |
| `Reads_proofs!CyclesFound` | `LinksSpec => []CyclesAreFound` | |
| `Reads_proofs!NothingMissing` | `LinksSpec => []NeverMissing` | |
| `Reads_proofs!TipsAreCurrent` | `LinksSpec => []ResolvesToCurrent` | |
| `Reads_proofs!HintsAreTips` | `LinksSpec => []HintsNameTheTips` | |
| `Reads_proofs!ReadingTypeCorrect` | `ReadingSpec => []ReadingTypeOK` | |
| `Reads_proofs!PagesAreComplete` | `ReadingSpec => []WalkIsComplete` | |
| `Reads_proofs!PagesGoForward` | `ReadingSpec => []WalkGoesForward` | |
| `Reads_proofs!SearchIsFair` | `ReadingSpec => []RoundRobinIsFair` | |
| `Guardrail_proofs!TypeCorrect` | `Spec => []TypeOK` | |
| `Guardrail_proofs!StaleOverrides` | `Spec => []StaleOnlyByRace` | |
| `Guardrail_proofs!GuardedWrites` | `Spec => []NothingReplacedUnasked` | |
| `Sessions_proofs!TypeCorrect` | `Spec => []TypeOK` | |
| `Sessions_proofs!ServedWithinHeld` | `Spec => []NeverMoreThanHeld` | |
| `Sessions_proofs!OwnProject` | `Spec => []OwnProjectOnly` | |
| `Sessions_proofs!SteadyAreTold` | `Spec => []SteadySubscribersAreTold` | |

The arguments:

* **RegisteredHome** is not inductive: a copy becomes settled when its write moves
  on, and whether the row names its domain then depends on who holds the row.
  `HomeInv` adds `Phases` (what a write at each step knows of the file and the row)
  and `NoEscape` (an unsettled copy is only in the file its write names). The
  assumption is where the property is true: a move may settle a copy its write is
  about to roll back (`OnlyMovesSplit` says that, while nothing fails, only a moved copy
  or a restore does), and a copy whose rollback was killed or crashed stays where it is.
  Nor can it allow failing inserts together with deletes: when the insert of a delete fails,
  `ml restore` may bring back another copy of the id, one that a colliding write had rolled
  back in another domain, and TLC finds that in fourteen steps.
* **LifecycleImplementsStore** is proved step by step under the same assumption, from
  `HomeInv`. Rows and the domains they name stay (`HomesGrow`); a step either takes
  nothing from a reader or is an archive or an unlink, which withdraws what lay in one
  domain (`HomesLost`, `QuietOrWithdrawn`); and the insert of a row publishes its id where
  the copy is, or miscarries when the copy was deleted first (`PublishedOrMiscarried`).
* **RecordsAreLostByUnlinkOnly** needs the types only: every other step that takes a
  copy from a file puts it into the archive or into another file.
* **OneWriteIsAcknowledged** rests on `OneRegistered`: who was acknowledged, or is about
  to be, inserted the row, the row stays (`RowsStay`), and the insert admits one.
* **AcknowledgedIsKept** rests on `CopiesHeld`: a write that nobody disturbs has its copy
  in its file from `ml record` on, and no two writes that passed the pre-check hold the
  same copy, so that a rollback takes away only what is its own.
* **EmptyFilesAreSwept** rests on `SweepInv`: a file without a record has a delete or a
  move behind it that has still to look at it. Who takes the last record away is such a
  call, and one that looks and finds a record leaves a file that is not empty.
* **OnlyMovesSplitRecords** rests on `UnregisteredInv`: while nothing fails, every copy of
  an id without a row belongs to a write that is about to insert it, or the id was moved.
  So the insert settles the copy of the winner, and the others are not settled.
* **FailedInsertsLeaveNoTrace** rests on `TrackInv`, for an id that no write is about:
  there is one copy of it, live or archived (`OneCopy`), a delete answers for it in the
  archive (`Attributed`), and it is where its row says or where the one move that is not
  through has put it (`AtRow`). `FaultsCounted` bounds how many undos may be under way.
* **HistoryNeverCrossesActors** follows from `SessionsApart`: a session id is issued
  to one user, and every row that carries it is a row of that user. The pairing
  only relates rows of one session, so neither overlap nor faults matter.
* **StatusesCountOnce** rests on `ReportedOnce`: while a user has one call in flight
  (`InTurn`), what the check of `record_outcome` found is still so when `ml` appends.
* **EachEditWithItsRow** rests on `Pairing`, which counts: a session that may go on has as
  many rows as events (`Balanced`), and one more event while a call is between its inserts,
  which then is the last of the session (`EventWaits`). So the row takes the rank of its
  event, and since ranks within a session differ (`RankDistinct`) the queues pair nothing
  else. A crash leaves an event without a row, and ends the session with it. The page
  follows from `PagePlace`: an event whose session fits the page has the same rank on it.
* **HistoryReplays** rests on `ReplayInv`: a required field holds the call of the edit that
  was applied and is not recorded yet, and otherwise what the newest row put there; and an
  edit noted just that before it wrote.
* **ConfirmationsAreOthers** adds `DescribedInv`: an outcome that does not describe a
  content field as it is, is older than a row about it, or an edit is under way, or one
  failed. An outcome that clears the newest content edit is none of that.
* **TrailBalances** is one induction with `TrailInv`, which makes the sets that are counted
  finite and gives a revocation its row: one grant per user, locked by one transaction, and
  `log` rows only of requests that are through.
* **LastGoesOvertaken** rests on `TrailInv` and `OtherRemains`: a revocation that has counted
  and was not overtaken has another row beside the one it locked, because what it counted
  goes only by another revocation, which marks it as overtaken. It holds for both kinds of
  transactions; where they exclude each other nobody is overtaken.
* **WithinLimit** and **CountMatchesUses** rest on the transaction: the counter, the
  use and the membership change in one step, under the limit, and a request leaves
  one use at most because it is finished when it has claimed (`UsedByFinished`).
* **LoginTypeCorrect** needs `Found`: an account is known from the step that finds or makes
  it. With the types, every step of `Logins` is a step of `Invites` or leaves it alone
  (**LoginsUseInvites**), which carries the theorems about the link over to the composition
  (**LoginsKeepTheLimit**).
* **LoginsMeetIdentities** and **DeactivatedStayOut** rest on `IdentityInv`: once its account
  is known a login is in the account of its identity (`Identified`), which the unique
  identity row keeps, and a barred login never gets past making an account (`HeldOut`).
* **FirstLoginsAreLogged** rests on `StampInv`: what was over when a request began stamps
  nothing anymore (`AfterIsOver`), and the accounts it stamped are welcomed, so the request
  finds them so (`NoneBefore`); and whoever stamped and has not failed logs (`StampsAreOwn`).
* **RemovalIsComplete** is one induction with the types (`OnFile`): a request that
  presents a live pair reads project and role of its grant, so the types need that
  the grant is there, and a new grant has a new id, so nothing comes to life under it.
* **ConsentIsTheCeiling** adds `Agreed`: the scope of the grant, and of every request
  on its way to write it or act under it, is one the user agreed to. A role found in
  the membership only lowers it.
* **SecretsAreSpentOnce** rests on `SpendInv`: a request that names a row is done
  (`Fresh`), codes and pairs have different names (`Apart`), what a request is about to
  issue for is spent, has bought nothing yet and is nobody else's (`Taken`), and what
  bought a pair is spent (`Bought`). The conditional UPDATE is what makes `Taken`
  inductive.
* **DescentsDoNotFork** adds `DescentInv` to it: while a request is to issue the next pair
  of a descent no pair of it is live and no other request is to (`IssuingAlone`), and a
  code that was not used has no descent (`CodeAlone`). **EndedDescentsStayEnded** follows:
  a descent is alive by a live pair or by a request about to issue, and both come only from
  something alive or from a code that was not used.
* **ScansAreFresh**, **ScansFailOnlyOnRemoval** and **EntriesAreNotOlder** are one
  induction, `CacheInv`. The mtime is taken before the content is read, so an entry holds
  content at least as new as the mtime it is kept under (`EntryNotOlder`, `HeldIsNew`), and
  revisions only grow (`RevisionsGrow`). A file the scan is through with is in the cache with
  something new enough, or was overwritten by another scan, or is gone (`ThroughIsNew`).
* **CyclesFound** is the correctness of Tarjan's algorithm in the iterative form the code
  gives it. The types need an order (`SearchOrder`): records are numbered as they are reached,
  both stacks hold them in that order, and each frame is of a record on the stack. `TarjanInv`
  adds what the numbers mean. What is settled only links to what is settled (`SettledClosed`),
  and a link from the stack that leads to nothing numbered is still to be followed
  (`LinksFollowed`). Whoever is on the stack is reached from each open record numbered before
  it, and reaches one (`OpenReaches`, `ReachesOpen`). A `lowlink` is the number of a record
  on the stack that is reached (`LowIsReached`), and no link followed so far from below an open
  record leads lower (`LowIsLowest`). So when a record is closed with its own number as
  `lowlink`, what lies above it on the stack is its component: everything of it reaches it,
  and what it reaches and is not among it is settled, from where nothing leads back.
* **NothingMissing** rests on `ScansSee`: between the scans, what is live and was not restored
  has been seen; after them, what is in either tree and was not restored.
* **TipsAreCurrent** rests on `WalkSees`: at level `k` the walk has seen what is at most `k`
  links above its origin, its frontier is what is exactly `k` above (`AtLevel`), and its tips
  are what nothing supersedes below that. The levels grow until nothing is added, which
  takes at most `N` of them (`WalksEnd`): each level before has a record more.
  **HintsAreTips** takes from it that the one hop of a hint is a record above the origin.
* **PagesAreComplete** and **PagesGoForward** are one induction, `WalkInv`. The cursor is the
  last record shown (`AnchorIsLast`), what is shown is in order (`ShownInOrder`), and what is
  steady has been shown or is behind the cursor (`ShownOrAhead`): it is where it was asked
  for, and is read there or will be (`SteadyIsRead`). `Ordered` gives the sort: in a strict
  and total order on a finite set, how many are before an element tells the elements apart,
  and therefore takes every number. What has a time keeps it (`StampedFirst`), so that no
  write changes the order of what is read or shown.
* **SearchIsFair**: a page is a beginning of `RoundRobin` (`PageBegins`). The first result of
  a domain that is left out has all that are kept of it before it and no others, so its turn is
  their number (`FirstLeftOut`); nothing that is kept has a later turn, and of each domain
  there is one result for each turn (`FewTurns`).
* **StaleOverrides** is inductive as it stands: only a reader that fetched before a change
  and keeps after it sets `raced`.
* **GuardedWrites** rests on `CarefulInv`: while a call is steady the policy is not being
  changed (`SteadyIsCalm`), and what it knows at each step (`Careful`) grows in the order of
  the code: the alert its request calls for is raised (`Warned`), then it is answered or
  confirmed (`Answered`), then it acts.
* **ServedWithinHeld** rests on `AccessInv`: as long as a request or an `/sse` connection is
  served, what was noted since it was authenticated covers what is held now, so that the
  token and the role it reads next are covered as well.
* **OwnProject** rests on `OwnInv`: what a session writes to, is registered for and is in
  the list of a task to be told of, belongs to the project of its token (`WritesOwn`,
  `RegisteredOwn`, `TasksOwn`).
* **SteadyAreTold** rests on `SteadyInv`: whom a task has to tell is in its list with the
  connection it is subscribed over, or was told already.

### What the attempts to prove corrected

Four properties held in the runs because of the runs' bounds, and a larger instance
refutes them as they were stated:

* `OnlyMovesSplit` with a third domain: a copy that was moved to a domain nobody writes to
  is settled by the insert of the write it came from, so that step need not be a move. The
  property excuses an id that was moved (`Moved`).
* `ChangesAreTracked` with two failing inserts: those of a move and of a delete of one
  record leave it where its row does not say (the move finds nothing to take back, the
  delete restores it where the move had put it). The property names this case, and the
  one of two moves.
* `KnowledgeStore` with three ids: one unlink may take several records that were appended
  to a file found empty, so `Withdraw` retires a set. `lifecycle_store` has three ids now.
* `ConfirmedByAnother` with two content fields: what lifts the stale flag is an outcome of
  somebody other than the *last* editor, who need not be the only author. `history` has two
  content fields now.

`OneOutcomePerStatus` and `PairsOwnSnapshot` state the condition their comments named (one
call of a user at a time, `OneCallEach`), and `history` has a regime without it.

Two definitions say the same as before in a form that can be reasoned about. `Reading` sorted
with `SetToSortSeq` and `FlattenSeq`, which the prover cannot expand; with `InOrder` and `Turn`
it has the same number of reachable states. `Supersession` followed links with an operator for
an argument; the reference definitions now take the graph as a function (`Within`). And the
two parsers do not agree on how `UNION A \ B` is bracketed, so `Ahead` brackets it.

### What is only model-checked

* `DuplicateResolves`, a liveness property: fairness is beyond the prover.
* What `RegisteredHome` and `ImplementsKnowledgeStore` say is proved under
  the assumptions in the table, which the instances meet; outside of them are the
  disagreements above.
* The two statements that are violated: a trace refutes them, and there is nothing to prove.

## 6. What is left

Models: `ProjectCache` composed with the duplicate check of `RecordLifecycle`, so that a
raced scan is what `ScanDomain` reads; `find_incoming_references`, which warns in front of a
delete from one scan.

### Not modelled

* Pages, usage statistics and quality reports (`admin/*` lists, `mcp/formatting.py` as far
  as it renders text): queries and presentation, no state of their own.
* Tool schemas, `tier1` and the scopes a tool list is filtered by: static data.
* Creation of organizations, projects and users, registration of OAuth clients: one insert
  under a unique constraint each.
* Configuration, migrations and the seed script: run once, before any request.
* The exchange with identity providers: a third party's protocol. What follows it, the
  bootstrap of the first admin and the claim of a stashed invite, is in `AdminGrants`,
  `Logins` and `Invites`.
* `ml` itself, which is modelled only as far as `mulch.py` relies on it (its file locks, its
  ids, what its commands move), and the ranking of its search.
* Two hazards have steps in a model and no property, because the code does not keep what one
  would state: the last-admin check that counts deactivated users, and the content that
  `ml` updates in place when a write slipped past the duplicate check.
