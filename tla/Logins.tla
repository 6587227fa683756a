------------------------------- MODULE Logins --------------------------------
(***************************************************************************)
(* Logins to the web pages, together with the invite link of Invites that   *)
(* a browser session may carry.  A provider vouches for an identity and an  *)
(* email; the login looks the identity up, links it to the account of the   *)
(* email, or, with an invite, makes an account.  None of this runs in a     *)
(* transaction.  What keeps two logins apart are the unique columns: the    *)
(* email and the name of an account, and the identity.                      *)
(***************************************************************************)
EXTENDS Invites

CONSTANTS
    Subs,       \* identities: a provider and the subject it names
    Profiles,   \* what providers may vouch for: pairs of an identity and an email
    MaxUpsets,  \* bound on changes by admins and the clock, and on failures
    Settings,   \* what an instance begins with, and what happens in it
    NoSub

Upsets == {"fail", "create", "switch", "unlink", "link"}
Names == Nat \ {0}

ASSUME LoginsAssumption ==
    /\ Profiles \subseteq Subs \X Users /\ NoSub \notin Subs /\ MaxUpsets \in Nat
    /\ Settings \subseteq [accounts : SUBSET Users, name : [Users -> Names],
                           may : SUBSET ({"callback", "token", "open"} \cup Upsets)]
    /\ \A x \in Settings : \A u, v \in x.accounts : x.name[u] = x.name[v] => u = v

(* An email never changes and is unique, so it names the account: `Users` are  *)
(* the emails, and `accounts` those that have a row.  All persons go by the    *)
(* same username; a name is the number it ends in.                             *)
VARIABLES
    may,        \* what happens in this instance
    accounts,   \* User rows
    active,     \* User.active
    welcomed,   \* those with a first_login_at
    name,       \* User.username, unique
    identity,   \* OAuthIdentity rows, unique per identity
    login,      \* the login each request is, and its locals
    stamped,    \* who set first_login_at: [by, user]
    logged,     \* FIRST_LOGIN rows: [by, user]
    unlinked,   \* identities that an admin has unlinked
    upsets

accountRows == <<accounts, active, welcomed, name>>
loginVars == <<may, accountRows, identity, login, stamped, logged, unlinked, upsets>>

Ends == {"refused", "failed"}
LoginSteps == {"idle", "open", "identity", "email", "link", "unknown", "name", "create",
               "identify", "first", "logFirst", "claim"} \cup Ends

NoLogin == [step |-> "idle", sub |-> NoSub, email |-> NoUser, pending |-> FALSE,
            account |-> NoUser, knew |-> FALSE, attempt |-> 1,
            after |-> {}, barred |-> FALSE]

LoginTypeOK ==
    /\ TypeOK
    /\ may \subseteq {"callback", "token", "open"} \cup Upsets
    /\ accounts \subseteq Users /\ welcomed \subseteq accounts
    /\ active \in [Users -> BOOLEAN] /\ name \in [Users -> Names]
    /\ identity \in [Subs -> accounts \cup {NoUser}]
    /\ login \in [Requests ->
        [step : LoginSteps, sub : Subs \cup {NoSub}, email : Users \cup {NoUser},
         pending : BOOLEAN, account : accounts \cup {NoUser}, knew : BOOLEAN,
         attempt : Names, after : SUBSET Requests, barred : BOOLEAN]]
    /\ stamped \subseteq [by : Requests, user : accounts]
    /\ logged \subseteq stamped
    /\ unlinked \subseteq Subs /\ upsets \in 0..MaxUpsets

\* Accounts that an admin made; nobody has logged in yet.
LoginInit ==
    /\ Init
    /\ \E x \in Settings : accounts = x.accounts /\ name = x.name /\ may = x.may
    /\ active = [u \in Users |-> TRUE] /\ welcomed = {}
    /\ identity = [s \in Subs |-> NoUser]
    /\ login = [q \in Requests |-> NoLogin]
    /\ stamped = {} /\ logged = {} /\ unlinked = {}
    /\ upsets = 0

Upset(kind) == kind \in may /\ upsets < MaxUpsets /\ upsets' = upsets + 1
Proceed(q, step) == login' = [login EXCEPT ![q].step = step]

\* The cookie is set: no claim was due, or it was answered; a claim that lost the
\* membership row to somebody else is an error instead.
LoggedIn(q) ==
    login[q].step = "claim" /\ (~login[q].pending \/ (pc[q] = "done" /\ reply[q] # "error"))
Finished(q) ==
    \/ login[q].step \in Ends
    \/ login[q].step = "claim" /\ ~login[q].pending
    \/ login[q].step \in {"open", "claim"} /\ pc[q] = "done"

-----------------------------------------------------------------------------
(* oauth_callback, connect_login *)

Started(step) ==
    [NoLogin EXCEPT !.step = step, !.after = {r \in Requests : Finished(r)}]

\* An identity whose account is deactivated.
Barred(s) == identity[s] # NoUser /\ ~active[identity[s]]

\* The provider vouches for <<s, e>>.
Callback(q, s, e) ==
    /\ "callback" \in may /\ login[q].step = "idle"
    /\ \E carries \in BOOLEAN :
        login' = [login EXCEPT ![q] = [Started("identity") EXCEPT
            !.sub = s, !.email = e, !.pending = carries, !.barred = Barred(s)]]
    /\ UNCHANGED <<may, accountRows, identity, stamped, logged, unlinked, upsets>>

\* authenticate_global_token
TokenLogin(q, u) ==
    /\ "token" \in may /\ login[q].step = "idle" /\ u \in accounts /\ active[u]
    /\ \E carries \in BOOLEAN :
        login' = [login EXCEPT ![q] = [Started("first") EXCEPT
            !.account = u, !.knew = u \in welcomed, !.pending = carries]]
    /\ UNCHANGED <<may, accountRows, identity, stamped, logged, unlinked, upsets>>

\* Mutant of FindIdentity: the account of the identity is not asked whether it is active.
FindIdentityBlindly(q) ==
    /\ login[q].step = "identity"
    /\ LET u == identity[login[q].sub]
       IN  IF u = NoUser
           THEN Proceed(q, "email")
           ELSE login' = [login EXCEPT ![q].step = "first", ![q].account = u,
                                       ![q].knew = u \in welcomed]
    /\ UNCHANGED <<may, accountRows, identity, stamped, logged, unlinked, upsets>>

\* _resolve_oauth_identity: by the identity,
FindIdentity(q) ==
    /\ login[q].step = "identity"
    /\ LET u == identity[login[q].sub]
       IN  \/ u = NoUser /\ Proceed(q, "email")
           \/ u # NoUser /\ ~active[u] /\ Proceed(q, "unknown")
           \/ /\ u # NoUser /\ active[u]
              /\ login' = [login EXCEPT ![q].step = "first", ![q].account = u,
                                        ![q].knew = u \in welcomed]
    /\ UNCHANGED <<may, accountRows, identity, stamped, logged, unlinked, upsets>>

\* or by the email,
FindEmail(q) ==
    /\ login[q].step = "email"
    /\ LET u == login[q].email
       IN  IF u \in accounts /\ active[u]
           THEN login' = [login EXCEPT ![q].step = "link", ![q].account = u,
                                       ![q].knew = u \in welcomed]
           ELSE Proceed(q, "unknown")
    /\ UNCHANGED <<may, accountRows, identity, stamped, logged, unlinked, upsets>>

\* Mutant of Identify: an identity that is already there is taken for one's own.
IdentifyLeniently(q) ==
    /\ login[q].step \in {"link", "identify"}
    /\ Proceed(q, IF login[q].step = "link" THEN "first" ELSE "logFirst")
    /\ identity' = [identity EXCEPT ![login[q].sub] =
                        IF @ = NoUser THEN login[q].account ELSE @]
    /\ UNCHANGED <<may, accountRows, stamped, logged, unlinked, upsets>>

\* which is then linked: OAuthIdentity.create, also for a new account.  An identity
\* that is there by now fails the request, and leaves the new account as it is.
Identify(q) ==
    /\ login[q].step \in {"link", "identify"}
    /\ IF identity[login[q].sub] = NoUser
       THEN /\ identity' = [identity EXCEPT ![login[q].sub] = login[q].account]
            /\ Proceed(q, IF login[q].step = "link" THEN "first" ELSE "logFirst")
       ELSE Proceed(q, "failed") /\ UNCHANGED identity
    /\ UNCHANGED <<may, accountRows, stamped, logged, unlinked, upsets>>

\* Somebody unknown, or deactivated: only an invite they may use makes an account.
Unknown(q) ==
    /\ login[q].step = "unknown"
    /\ Proceed(q, IF login[q].pending /\ Active /\ login[q].email \in Allowed
                  THEN "name" ELSE "refused")
    /\ UNCHANGED <<may, accountRows, identity, stamped, logged, unlinked, upsets>>

Taken(n) == \E u \in accounts : name[u] = n

\* create_user_from_oauth: the name, then name_2 and so on until one is free,
TryName(q) ==
    /\ login[q].step = "name"
    /\ IF Taken(login[q].attempt)
       THEN login' = [login EXCEPT ![q].attempt = @ + 1]
       ELSE Proceed(q, "create")
    /\ UNCHANGED <<may, accountRows, identity, stamped, logged, unlinked, upsets>>

\* then the row, unless the email or the name is in use by now.
CreateAccount(q) ==
    /\ login[q].step = "create"
    /\ LET u == login[q].email
       IN  IF u \in accounts \/ Taken(login[q].attempt)
           THEN Proceed(q, "failed") /\ UNCHANGED <<may, accountRows, stamped>>
           ELSE /\ accounts' = accounts \cup {u}
                /\ active' = [active EXCEPT ![u] = TRUE]
                /\ welcomed' = welcomed \cup {u}
                /\ name' = [name EXCEPT ![u] = login[q].attempt]
                /\ stamped' = stamped \cup {[by |-> q, user |-> u]}
                /\ login' = [login EXCEPT ![q].step = "identify", ![q].account = u,
                                          ![q].knew = TRUE]
    /\ UNCHANGED <<may, identity, logged, unlinked, upsets>>

\* Mutant of First: every login stamps and logs.
FirstAlways(q) ==
    /\ login[q].step = "first"
    /\ welcomed' = welcomed \cup {login[q].account}
    /\ stamped' = stamped \cup {[by |-> q, user |-> login[q].account]}
    /\ Proceed(q, "logFirst")
    /\ UNCHANGED <<may, accounts, active, name, identity, logged, unlinked, upsets>>

\* _maybe_log_first_login, by what was read of the account earlier.
First(q) ==
    /\ login[q].step = "first"
    /\ IF login[q].knew
       THEN Proceed(q, "claim") /\ UNCHANGED <<welcomed, stamped>>
       ELSE /\ welcomed' = welcomed \cup {login[q].account}
            /\ stamped' = stamped \cup {[by |-> q, user |-> login[q].account]}
            /\ Proceed(q, "logFirst")
    /\ UNCHANGED <<may, accounts, active, name, identity, logged, unlinked, upsets>>

LogFirst(q) ==
    /\ login[q].step = "logFirst"
    /\ logged' = logged \cup {[by |-> q, user |-> login[q].account]}
    /\ Proceed(q, "claim")
    /\ UNCHANGED <<may, accountRows, identity, stamped, unlinked, upsets>>

\* A statement of the database fails, and the request with it.
Fail(q) ==
    /\ Upset("fail")
    /\ login[q].step \notin Ends \cup {"idle", "open", "claim"}
    /\ Proceed(q, "failed")
    /\ UNCHANGED <<may, accountRows, identity, stamped, logged, unlinked>>

-----------------------------------------------------------------------------
(* The admin pages *)

CreateUser(u, n) ==
    /\ Upset("create") /\ u \notin accounts /\ ~Taken(n)
    /\ accounts' = accounts \cup {u}
    /\ active' = [active EXCEPT ![u] = TRUE] /\ name' = [name EXCEPT ![u] = n]
    /\ UNCHANGED <<may, welcomed, identity, login, stamped, logged, unlinked>>

\* Activating an account lifts the bar from the logins under way.
SwitchAccount(u) ==
    /\ Upset("switch") /\ u \in accounts
    /\ active' = [active EXCEPT ![u] = ~@]
    /\ login' = [q \in Requests |-> [login[q] EXCEPT !.barred =
                    @ /\ (identity[login[q].sub] # u \/ active[u])]]
    /\ UNCHANGED <<may, accounts, welcomed, name, identity, stamped, logged, unlinked>>

Unlink(s) ==
    /\ Upset("unlink") /\ identity[s] # NoUser
    /\ identity' = [identity EXCEPT ![s] = NoUser]
    /\ login' = [q \in Requests |-> [login[q] EXCEPT !.barred = @ /\ login[q].sub # s]]
    /\ unlinked' = unlinked \cup {s}
    /\ UNCHANGED <<may, accountRows, stamped, logged>>

Manage ==
    \/ \E u \in Users, n \in 1..Cardinality(Users) : CreateUser(u, n)
    \/ \E u \in Users : SwitchAccount(u)
    \/ \E s \in Subs : Unlink(s)

-----------------------------------------------------------------------------
(* The invite link *)

\* invite_landing, for somebody who is logged in.
OpenLink(q) ==
    /\ "open" \in may /\ login[q].step = "idle"
    /\ Validate(q, "open")
    /\ user'[q] \in accounts /\ active[user'[q]]
    /\ login' = [login EXCEPT ![q] = Started("open")]
    /\ UNCHANGED <<may, accountRows, identity, stamped, logged, unlinked, upsets>>

\* _claim_pending_invite, by the account that has logged in.
ClaimPending(q) ==
    /\ login[q].step = "claim" /\ login[q].pending
    /\ Validate(q, "login") /\ user'[q] = login[q].account
    /\ UNCHANGED loginVars

ContinueClaim(q) ==
    /\ CheckDomain(q) \/ CheckMember(q) \/ Claim(q)
    /\ UNCHANGED loginVars

ManageLink ==
    /\ \/ \E u \in accounts : AddMember(u) \/ RemoveMember(u)
       \/ Expire \/ Revoke
    /\ Upset("link")
    /\ UNCHANGED <<may, accountRows, identity, login, stamped, logged, unlinked>>

-----------------------------------------------------------------------------
LoginStep(q) ==
    \/ \E p \in Profiles : Callback(q, p[1], p[2])
    \/ \E u \in Users : TokenLogin(q, u)
    \/ FindIdentity(q) \/ FindEmail(q) \/ Identify(q)
    \/ Unknown(q) \/ TryName(q) \/ CreateAccount(q)
    \/ First(q) \/ LogFirst(q) \/ Fail(q)

LoginRest ==
    (\A q \in Requests : login[q].step = "idle" \/ Finished(q)) /\ UNCHANGED <<vars, loginVars>>

LoginNext ==
    \/ \E q \in Requests : LoginStep(q) /\ UNCHANGED vars
    \/ Manage /\ UNCHANGED vars
    \/ \E q \in Requests : OpenLink(q) \/ ClaimPending(q) \/ ContinueClaim(q)
    \/ ManageLink
    \/ LoginRest

LoginSpec == LoginInit /\ [][LoginNext]_<<vars, loginVars>>

-----------------------------------------------------------------------------
(* Properties *)

\* Whoever logs in through a provider is in the account that their identity is linked
\* to, however many logins of one person or of one email overlap, and whichever of
\* them fails half way; only an admin takes the link away (oauth_callback).
LoginMeetsIdentity == \A q \in Requests :
    LoggedIn(q) /\ login[q].sub \in Subs \ unlinked =>
        identity[login[q].sub] = login[q].account

\* Who is deactivated stays out: a login with an identity whose account is inactive
\* throughout ends in no account, be it by another email that has one, or by an
\* invite, for which an account was even made (_resolve_oauth_identity,
\* create_user_from_oauth).
DeactivatedStaysOut == \A q \in Requests : login[q].barred => ~LoggedIn(q)

\* The first login of every account that was logged in to is logged, unless the
\* request that stamped the account has failed or is still about to; and it is logged
\* twice only by logins that overlapped (_maybe_log_first_login,
\* create_user_from_oauth).
FirstLoginIsLogged ==
    /\ \A q \in Requests : LoggedIn(q) => \E e \in stamped :
        /\ e.user = login[q].account
        /\ e \in logged \/ login[e.by].step \in {"identify", "logFirst", "failed"}
    /\ \A e, f \in logged : e.user = f.user => e.by \notin login[f.by].after

=============================================================================
