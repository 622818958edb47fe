------------------------------ MODULE Accounts ------------------------------
(***************************************************************************)
(* Accounts, their provider identities and their sessions: sign-in and     *)
(* linking with Discord and with email links (lib/auth-discord.ts,         *)
(* lib/auth-email.ts, lib/auth-accounts.ts, lib/auth-session.ts), unlinking *)
(* (app/api/auth/identities) and the changes administrators make           *)
(* (lib/admin-accounts.ts).  A request is a sequence of database           *)
(* statements; between two of them other requests run.                     *)
(*                                                                         *)
(* Times are left out: a session or a link may end at any moment, and a    *)
(* provider once confirmed in a session stays confirmed.                   *)
(***************************************************************************)
EXTENDS Naturals, FiniteSets

CONSTANTS
    Account, Session, Link, Client,   \* Link: email links, by token
    Discord, Email,                   \* provider identities
    BootDiscord, BootEmail,           \* BOOTSTRAP_DISCORD_ID and BOOTSTRAP_ADMIN_EMAIL
    MaxRequests                       \* bound: requests, accepted applications, expiries, failures

Subject == Discord \union Email

ASSUME AccountsConstants ==
    /\ "none" \notin Account \union Session \union Link \union Subject
    /\ Discord \intersect Email = {}
    /\ BootDiscord \in Discord /\ BootEmail \in Email
    /\ MaxRequests \in Nat

VARIABLES
    account,   \* accounts
    owner,     \* account_identities: the account of every provider identity
    session,   \* auth_sessions
    link,      \* auth_magic_links
    marker,    \* auth_settings: bootstrap_admin_claimed
    req,       \* the requests under way
    requests,
    uses       \* history: how often each email link let a request through

vars == <<account, owner, session, link, marker, req, requests, uses>>

Provider == {"discord", "email"}
ProviderOf(x) == IF x \in Discord THEN "discord" ELSE "email"

Exists(a) == account[a].status \in {"active", "suspended"}
Active(a) == account[a].status = "active"
ActiveAdmin(a) == Active(a) /\ account[a].role = "admin"

Identities(a) == {x \in Subject : owner[x] = a}
Linked(a) == {ProviderOf(x) : x \in Identities(a)}

NoSession == [account |-> "none", version |-> 0, confirmed |-> {}]
Holder(s) == session[s].account

\* sessionFromRawToken.
Authenticates(s) ==
    /\ session[s] # NoSession
    /\ Active(Holder(s))
    /\ session[s].version = account[Holder(s)].version

\* A link that was never issued, one whose row is gone, or an open one: for a
\* login its session is "none".
NoLink == [state |-> "none", subject |-> "none", session |-> "none"]
Gone == [NoLink EXCEPT !.state = "gone"]

\* DELETE FROM auth_sessions, which takes the links begun in them along.
MutantDropSessions(S) ==
    /\ session' = [s \in Session |-> IF s \in S THEN NoSession ELSE session[s]]
    /\ UNCHANGED link

DropSessions(S) ==
    /\ session' = [s \in Session |-> IF s \in S THEN NoSession ELSE session[s]]
    /\ link' = [t \in Link |-> IF link[t].session \in S THEN Gone ELSE link[t]]

SessionsOf(a) == {s \in Session : session[s] # NoSession /\ Holder(s) = a}

-----------------------------------------------------------------------------
(* Requests.                                                               *)

Idle ==
    [pc |-> "idle", account |-> "none", subject |-> "none", provider |-> "none",
     link |-> "none", confirmed |-> {}, rotates |-> FALSE, version |-> 0,
     role |-> "member", status |-> "active"]

Request == requests < MaxRequests /\ requests' = requests + 1

Begin(c, r) == Request /\ req[c] = Idle /\ req' = [req EXCEPT ![c] = r]
Goto(c, pc) == req' = [req EXCEPT ![c].pc = pc]
Answer(c) == req' = [req EXCEPT ![c] = Idle]
Found(c, a, pc) == req' = [req EXCEPT ![c].account = a, ![c].pc = pc]

SignIn(pc, x, t) ==
    [Idle EXCEPT !.pc = pc, !.subject = x, !.provider = ProviderOf(x), !.link = t,
                 !.confirmed = {ProviderOf(x)}]

\* A request that changes the identities of the account of session s.
Linking(pc, x, t, s) ==
    [SignIn(pc, x, t) EXCEPT !.account = Holder(s), !.rotates = TRUE,
                             !.confirmed = session[s].confirmed \union {ProviderOf(x)}]

\* completeDiscordAuthorization, its transaction consumed.
DiscordCallback(c) ==
    /\ \E x \in Discord :
         \/ Begin(c, SignIn("resolve", x, "none"))
         \/ \E s \in Session : Authenticates(s) /\ Begin(c, Linking("resolve", x, "none", s))
    /\ UNCHANGED <<account, owner, session, link, marker, uses>>

\* issueMagicLink, for a login or in a session.
IssueLink(t) ==
    /\ Request
    /\ link[t] = NoLink
    /\ \E x \in Email, s \in Session \union {"none"} :
         /\ s # "none" => Authenticates(s)
         /\ link' = [link EXCEPT ![t] = [state |-> "open", subject |-> x, session |-> s]]
    /\ UNCHANGED <<account, owner, session, marker, req, uses>>

\* consumeMagicLink as far as its SELECT and the check of the session.
OpenLink(c, t) ==
    /\ link[t].state = "open"
    /\ LET x == link[t].subject
           s == link[t].session
       IN  IF s = "none" THEN Begin(c, SignIn("consume", x, t))
           ELSE Authenticates(s) /\ Begin(c, Linking("consume", x, t, s))
    /\ UNCHANGED <<account, owner, session, link, marker, uses>>

\* DELETE FROM auth_magic_links ... RETURNING.
MutantStillOpen(t) == link[t].state \in {"open", "gone"}
StillOpen(t) == link[t].state = "open"

Consume(c) ==
    /\ req[c].pc = "consume"
    /\ IF StillOpen(req[c].link)
         THEN /\ Goto(c, "resolve")
              /\ link' = [link EXCEPT ![req[c].link] = Gone]
              /\ uses' = [uses EXCEPT ![req[c].link] = @ + 1]
         ELSE Answer(c) /\ UNCHANGED <<link, uses>>
    /\ UNCHANGED <<account, owner, session, marker, requests>>

-----------------------------------------------------------------------------
(* resolveIdentity.                                                        *)

Resolve(c) ==
    /\ req[c].pc = "resolve"
    /\ LET a == owner[req[c].subject]
       IN  IF a # "none"
             THEN IF req[c].rotates /\ a # req[c].account THEN Answer(c)
                  ELSE Found(c, a, "claim")
             ELSE IF ~req[c].rotates THEN Goto(c, "create")
                  ELSE IF Active(req[c].account) THEN Goto(c, "attach")
                  ELSE Answer(c)
    /\ UNCHANGED <<account, owner, session, link, marker, requests, uses>>

\* A first sign-in, unless another one of the same identity was faster.
Create(c) ==
    /\ req[c].pc = "create"
    /\ IF owner[req[c].subject] = "none"
         THEN \E a \in Account :
                /\ account[a].status = "absent"
                /\ account' = [account EXCEPT ![a].status = "active"]
                /\ owner' = [owner EXCEPT ![req[c].subject] = a]
                /\ Found(c, a, "created")
         ELSE /\ Found(c, owner[req[c].subject], "read")
              /\ UNCHANGED <<account, owner>>
    /\ UNCHANGED <<session, link, marker, requests, uses>>

\* The unique indexes and the foreign key of account_identities.
MayAttach(a, x) == owner[x] = "none" /\ Exists(a) /\ ProviderOf(x) \notin Linked(a)

Attach(c) ==
    /\ req[c].pc = "attach"
    /\ IF MayAttach(req[c].account, req[c].subject)
         THEN owner' = [owner EXCEPT ![req[c].subject] = req[c].account] /\ Goto(c, "claim")
         ELSE Answer(c) /\ UNCHANGED owner
    /\ UNCHANGED <<account, session, link, marker, requests, uses>>

\* Linking and unlinking rotate the sessions, a sign-in adds one.  A new account
\* that is deleted before it is read again is created once more.
Onwards(c) ==
    IF req[c].rotates THEN "revoke"
    ELSE IF req[c].pc = "created" /\ ~Exists(req[c].account) THEN "create"
    ELSE "read"

\* maybeClaimBootstrapAdmin.
Bootstraps(a) == Active(a) /\ ~marker /\ owner[BootDiscord] = a /\ owner[BootEmail] = a

Claim(c) ==
    /\ req[c].pc \in {"claim", "created"}
    /\ LET a == req[c].account
       IN  IF Bootstraps(a)
             THEN /\ account' = [account EXCEPT ![a].role = "admin", ![a].version = @ + 1]
                  /\ Goto(c, "mark")
             ELSE Goto(c, Onwards(c)) /\ UNCHANGED account
    /\ UNCHANGED <<owner, session, link, marker, requests, uses>>

Mark(c) ==
    /\ req[c].pc = "mark"
    /\ marker' = TRUE
    /\ Goto(c, Onwards(c))
    /\ UNCHANGED <<account, owner, session, link, requests, uses>>

-----------------------------------------------------------------------------
(* unlinkIdentity.                                                         *)

\* The role is the one the session was found with.
BeginUnlink(c) ==
    /\ \E s \in Session, p \in Provider :
         /\ Authenticates(s) /\ account[Holder(s)].role = "member"
         /\ Begin(c, [Idle EXCEPT !.pc = "list", !.account = Holder(s), !.provider = p,
                                  !.confirmed = session[s].confirmed \ {p}, !.rotates = TRUE])
    /\ UNCHANGED <<account, owner, session, link, marker, uses>>

ListIdentities(c) ==
    /\ req[c].pc = "list"
    /\ IF Linked(req[c].account) = Provider THEN Goto(c, "detach") ELSE Answer(c)
    /\ UNCHANGED <<account, owner, session, link, marker, requests, uses>>

Detach(c) ==
    /\ req[c].pc = "detach"
    /\ owner' = [x \in Subject |->
                   IF owner[x] = req[c].account /\ ProviderOf(x) = req[c].provider
                     THEN "none" ELSE owner[x]]
    /\ Goto(c, "revoke")
    /\ UNCHANGED <<account, session, link, marker, requests, uses>>

-----------------------------------------------------------------------------
(* rotateSessionsForAccount and createSession.                             *)

Revoke(c) ==
    /\ req[c].pc = "revoke"
    /\ DropSessions(SessionsOf(req[c].account))
    /\ Goto(c, "read")
    /\ UNCHANGED <<account, owner, marker, requests, uses>>

ReadAccount(c) ==
    /\ req[c].pc = "read"
    /\ IF Active(req[c].account)
         THEN req' = [req EXCEPT ![c].pc = "insert",
                                 ![c].version = account[req[c].account].version]
         ELSE Answer(c)
    /\ UNCHANGED <<account, owner, session, link, marker, requests, uses>>

NewSession(c) ==
    [account |-> req[c].account, version |-> req[c].version, confirmed |-> req[c].confirmed]

\* The foreign key refuses a session of an account deleted since.
InsertSession(c) ==
    /\ req[c].pc = "insert"
    /\ IF Exists(req[c].account)
         THEN \E s \in Session :
                session[s] = NoSession /\ session' = [session EXCEPT ![s] = NewSession(c)]
         ELSE UNCHANGED session
    /\ Answer(c)
    /\ UNCHANGED <<account, owner, link, marker, requests, uses>>

-----------------------------------------------------------------------------
(* Administrators.                                                         *)

\* requireConfirmedAdminMutation.
MayAdminister(s) ==
    /\ Authenticates(s)
    /\ account[Holder(s)].role = "admin"
    /\ Linked(Holder(s)) = Provider
    /\ session[s].confirmed = Provider

Role == {"member", "moderator", "admin"}

BeginChange(c) ==
    /\ \E s \in Session : MayAdminister(s)
    /\ \E a \in Account, r \in Role, st \in {"active", "suspended"} :
         Begin(c, [Idle EXCEPT !.pc = "inspect", !.account = a, !.role = r, !.status = st])
    /\ UNCHANGED <<account, owner, session, link, marker, uses>>

StaffReady(a, role) == role = "member" \/ Linked(a) = Provider

Inspect(c) ==
    /\ req[c].pc = "inspect"
    /\ LET a == req[c].account
       IN  IF /\ Exists(a) /\ StaffReady(a, req[c].role)
              /\ <<account[a].role, account[a].status>> # <<req[c].role, req[c].status>>
             THEN Goto(c, "change") ELSE Answer(c)
    /\ UNCHANGED <<account, owner, session, link, marker, requests, uses>>

MutantAnotherAdmin(a) == \E b \in Account : account[b].role = "admin" /\ b # a
AnotherAdmin(a) == \E b \in Account : ActiveAdmin(b) /\ b # a

MutantChanged(a, role, status) ==
    [account EXCEPT ![a].role = role, ![a].status = status,
                    ![a].version = IF role = account[a].role THEN @ ELSE @ + 1]

Changed(a, role, status) ==
    [account EXCEPT ![a].role = role, ![a].status = status, ![a].version = @ + 1]

\* updateAdminAccount: one conditional UPDATE.
Change(c) ==
    /\ req[c].pc = "change"
    /\ LET a == req[c].account
           role == req[c].role
           status == req[c].status
       IN  IF /\ Exists(a) /\ StaffReady(a, role)
              /\ ActiveAdmin(a) /\ ~(role = "admin" /\ status = "active") => AnotherAdmin(a)
             THEN account' = Changed(a, role, status) ELSE UNCHANGED account
    /\ Answer(c)
    /\ UNCHANGED <<owner, session, link, marker, requests, uses>>

BeginDelete(c) ==
    /\ \E s \in Session : MayAdminister(s)
    /\ \E a \in Account : Exists(a) /\ Begin(c, [Idle EXCEPT !.pc = "delete", !.account = a])
    /\ UNCHANGED <<account, owner, session, link, marker, uses>>

MutantDisowned(a) == owner
\* ON DELETE CASCADE.
Disowned(a) == [x \in Subject |-> IF owner[x] = a THEN "none" ELSE owner[x]]

\* deleteAdminAccount.
Delete(c) ==
    /\ req[c].pc = "delete"
    /\ LET a == req[c].account
       IN  IF Exists(a) /\ (ActiveAdmin(a) => AnotherAdmin(a))
             THEN /\ account' = [account EXCEPT ![a].status = "deleted", ![a].role = "member"]
                  /\ owner' = Disowned(a)
                  /\ DropSessions(SessionsOf(a))
             ELSE UNCHANGED <<account, owner, session, link>>
    /\ Answer(c)
    /\ UNCHANGED <<marker, requests, uses>>

\* An accepted application makes its applicant a moderator, by trigger.
AcceptApplication(a) ==
    /\ Request
    /\ \E b \in Account : ActiveAdmin(b)
    /\ Active(a) /\ account[a].role = "member" /\ Linked(a) = Provider
    /\ account' = Changed(a, "moderator", "active")
    /\ UNCHANGED <<owner, session, link, marker, req, uses>>

-----------------------------------------------------------------------------
\* A logout, an expiry, or the removal of a session found invalid.
EndSession(s) ==
    /\ Request
    /\ session[s] # NoSession
    /\ DropSessions({s})
    /\ UNCHANGED <<account, owner, marker, req, uses>>

\* The row of a link expires, or is removed because its email was not sent.
EndLink(t) ==
    /\ Request
    /\ link[t].state = "open"
    /\ link' = [link EXCEPT ![t] = Gone]
    /\ UNCHANGED <<account, owner, session, marker, req, uses>>

\* A statement throws, or the request dies.
Crash(c) ==
    /\ Request
    /\ req[c] # Idle
    /\ Answer(c)
    /\ UNCHANGED <<account, owner, session, link, marker, uses>>

Fresh == [status |-> "absent", role |-> "member", version |-> 1]

\* Any website at rest: every account keeps the sign-in methods its role asks for,
\* and may have a session that is valid, all its providers confirmed.
Init ==
    /\ owner \in [Subject -> Account \union {"none"}]
    /\ \A a \in Account : \A x, y \in Identities(a) : ProviderOf(x) = ProviderOf(y) => x = y
    /\ account \in [Account -> {Fresh} \union
                      [status : {"active", "suspended"}, role : Role, version : {1}]]
    /\ \A a \in Account : /\ Exists(a) <=> Identities(a) # {}
                          /\ account[a].role # "member" => Linked(a) = Provider
    /\ session \in [Session -> {NoSession} \union
                      {[account |-> a, version |-> 1, confirmed |-> Linked(a)] : a \in Account}]
    /\ \A s \in Session : session[s] # NoSession => Active(Holder(s))
    /\ link = [t \in Link |-> NoLink]
    /\ marker \in BOOLEAN /\ ((\E a \in Account : account[a].role = "admin") => marker)
    /\ req = [c \in Client |-> Idle]
    /\ requests = 0
    /\ uses = [t \in Link |-> 0]

Serve(c) ==
    \/ DiscordCallback(c) \/ Consume(c) \/ Resolve(c) \/ Create(c) \/ Attach(c)
    \/ Claim(c) \/ Mark(c) \/ BeginUnlink(c) \/ ListIdentities(c) \/ Detach(c)
    \/ Revoke(c) \/ ReadAccount(c) \/ InsertSession(c)
    \/ BeginChange(c) \/ Inspect(c) \/ Change(c) \/ BeginDelete(c) \/ Delete(c) \/ Crash(c)
    \/ \E t \in Link : OpenLink(c, t)

Next ==
    \/ \E c \in Client : Serve(c)
    \/ \E t \in Link : IssueLink(t) \/ EndLink(t)
    \/ \E s \in Session : EndSession(s)
    \/ \E a \in Account : AcceptApplication(a)

Spec == Init /\ [][Next]_vars
-----------------------------------------------------------------------------
(* Properties.                                                             *)

AccountRow ==
    [status : {"absent", "active", "suspended", "deleted"}, role : Role, version : Nat]

SessionRow ==
    {NoSession} \union [account : Account, version : Nat, confirmed : SUBSET Provider]

LinkRow ==
    {NoLink, Gone} \union
        [state : {"open"}, subject : Email, session : Session \union {"none"}]

Statement ==
    {"idle", "consume", "resolve", "create", "attach", "created", "claim", "mark", "list",
     "detach", "revoke", "read", "insert", "inspect", "change", "delete"}

RequestState ==
    [pc : Statement, account : Account \union {"none"}, subject : Subject \union {"none"},
     provider : Provider \union {"none"}, link : Link \union {"none"},
     confirmed : SUBSET Provider, rotates : BOOLEAN, version : Nat,
     role : Role, status : {"active", "suspended"}]

\* Every variable holds values the code can write: the columns and their CHECKs.
TypeOK ==
    /\ account \in [Account -> AccountRow]
    /\ owner \in [Subject -> Account \union {"none"}]
    /\ session \in [Session -> SessionRow]
    /\ link \in [Link -> LinkRow]
    /\ marker \in BOOLEAN
    /\ req \in [Client -> RequestState]
    /\ requests \in 0 .. MaxRequests
    /\ uses \in [Link -> Nat]

\* Nothing is left of a deleted account but its row: every identity, every session
\* and every open link belongs to something that still exists, whatever request is
\* between two statements when the account or the session goes (the foreign keys
\* and deleteAdminAccount).
NothingIsOrphaned ==
    /\ \A x \in Subject : owner[x] # "none" => Exists(owner[x])
    /\ \A s \in Session : session[s] # NoSession => Exists(Holder(s))
    /\ \A t \in Link :
         link[t].session # "none" => session[link[t].session] # NoSession

\* An account has at most one identity of each provider, however many links of
\* it race (the unique indexes resolveIdentity relies on).
OneIdentityPerProvider ==
    \A x, y \in Subject :
        owner[x] # "none" /\ owner[x] = owner[y] /\ ProviderOf(x) = ProviderOf(y) => x = y

\* An email link lets one request through, even when it is opened in two tabs at
\* once (consumeMagicLink's DELETE ... RETURNING).
LinksAreUsedOnce == \A t \in Link : uses[t] <= 1

\* "The last active administrator cannot be demoted, suspended, or deleted"
\* (docs/AUTHENTICATION.md), not even by two administrators at each other.
SomeAdmin == \E a \in Account : ActiveAdmin(a)
AdminRemains == [][SomeAdmin => SomeAdmin']_vars

\* A session that a change of role or status has made invalid, or whose insert came
\* too late for one, never becomes valid again, also when the account gets its old
\* role and status back (role_version).
Revoked(s) == session[s] # NoSession /\ ~Authenticates(s)
RevokedStaysRevoked == [][\A s \in Session : Revoked(s) => ~Authenticates(s)']_vars

\* "Staff keep both Discord and email linked" (docs/AUTHENTICATION.md, and the
\* refusal of unlinkIdentity).  Does not hold: see README.md.
StaffKeepBoth == \A a \in Account : account[a].role # "member" => Linked(a) = Provider
=============================================================================
