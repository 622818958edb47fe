--------------------------- MODULE AccountsProofs ---------------------------
(***************************************************************************)
(* Proofs about Accounts.  Versions only grow, so a session that lost its  *)
(* account's version never meets it again; everything a request carries    *)
(* from one statement to the next is either still true or checked again by *)
(* the statement that writes.                                              *)
(***************************************************************************)
EXTENDS Accounts, TLAPS

USE AccountsConstants

\* What a request has found out when it reaches a statement.
RequestOK(c) ==
    /\ req[c].pc \notin {"idle", "consume", "resolve", "create"} => req[c].account \in Account
    /\ req[c].pc \in {"consume", "resolve", "create", "attach", "created"} => req[c].subject \in Subject
    /\ req[c].pc = "consume" => req[c].link \in Link
    /\ req[c].rotates => req[c].account \in Account
    /\ req[c].pc = "insert" => req[c].version <= account[req[c].account].version

\* No session is ahead of its account.
VersionsAreOld ==
    \A s \in Session : session[s] # NoSession => session[s].version <= account[Holder(s)].version

UsedLinksAreGone == \A t \in Link : uses[t] <= 1 /\ (uses[t] = 1 => link[t] = Gone)

IInv ==
    /\ TypeOK
    /\ NothingIsOrphaned
    /\ OneIdentityPerProvider
    /\ VersionsAreOld
    /\ UsedLinksAreGone
    /\ \A c \in Client : RequestOK(c)

-----------------------------------------------------------------------------
(* Types.                                                                  *)

LEMMA RowTypes ==
    /\ Idle \in RequestState /\ Idle.pc = "idle" /\ Idle.rotates = FALSE
    /\ Fresh \in AccountRow
    /\ NoLink \in LinkRow /\ Gone \in LinkRow /\ Gone # NoLink
    /\ NoLink.session = "none" /\ Gone.session = "none"
    /\ NoLink.state = "none" /\ Gone.state = "gone"
BY DEF Idle, RequestState, Statement, Fresh, AccountRow, NoLink, Gone, LinkRow, Role, Provider

\* One field at a time.
LEMMA FieldWrites ==
    ASSUME NEW r \in RequestState
    PROVE  /\ \A x \in Statement : [r EXCEPT !.pc = x] \in RequestState
           /\ \A x \in Account \union {"none"} : [r EXCEPT !.account = x] \in RequestState
           /\ \A x \in Subject \union {"none"} : [r EXCEPT !.subject = x] \in RequestState
           /\ \A x \in Provider : [r EXCEPT !.provider = x] \in RequestState
           /\ \A x \in Link \union {"none"} : [r EXCEPT !.link = x] \in RequestState
           /\ \A x \in SUBSET Provider : [r EXCEPT !.confirmed = x] \in RequestState
           /\ \A x \in BOOLEAN : [r EXCEPT !.rotates = x] \in RequestState
           /\ \A x \in Nat : [r EXCEPT !.version = x] \in RequestState
           /\ \A x \in Role : [r EXCEPT !.role = x] \in RequestState
           /\ \A x \in {"active", "suspended"} : [r EXCEPT !.status = x] \in RequestState
<1>1. \A x \in Statement : [r EXCEPT !.pc = x] \in RequestState
  BY DEF RequestState
<1>2. \A x \in Account \union {"none"} : [r EXCEPT !.account = x] \in RequestState
  BY DEF RequestState
<1>3. \A x \in Subject \union {"none"} : [r EXCEPT !.subject = x] \in RequestState
  BY DEF RequestState
<1>4. \A x \in Provider : [r EXCEPT !.provider = x] \in RequestState
  BY DEF RequestState
<1>5. \A x \in Link \union {"none"} : [r EXCEPT !.link = x] \in RequestState
  BY DEF RequestState
<1>6. \A x \in SUBSET Provider : [r EXCEPT !.confirmed = x] \in RequestState
  BY DEF RequestState
<1>7. \A x \in BOOLEAN : [r EXCEPT !.rotates = x] \in RequestState
  BY DEF RequestState
<1>8. \A x \in Nat : [r EXCEPT !.version = x] \in RequestState
  BY DEF RequestState
<1>9. \A x \in Role : [r EXCEPT !.role = x] \in RequestState
  BY DEF RequestState
<1>10. \A x \in {"active", "suspended"} : [r EXCEPT !.status = x] \in RequestState
  BY DEF RequestState
<1>. QED
  BY <1>1, <1>2, <1>3, <1>4, <1>5, <1>6, <1>7, <1>8, <1>9, <1>10

\* What Begin and its like leave in req, given the record.
LEMMA Writes ==
    ASSUME TypeOK, NEW c \in Client, NEW r \in RequestState, req' = [req EXCEPT ![c] = r]
    PROVE  /\ req' \in [Client -> RequestState]
           /\ req'[c] = r
           /\ \A d \in Client : d # c => req'[d] = req[d]
BY DEF TypeOK

LEMMA Answers ==
    ASSUME TypeOK, NEW c \in Client, Answer(c)
    PROVE  /\ req' \in [Client -> RequestState]
           /\ req'[c].pc = "idle" /\ req'[c].rotates = FALSE
           /\ \A d \in Client : d # c => req'[d] = req[d]
BY RowTypes, Writes DEF Answer

\* A request moves on, perhaps with its account found, perhaps with its version.
Moved(c, pc, a, v) == [[[req[c] EXCEPT !.account = a] EXCEPT !.pc = pc] EXCEPT !.version = v]

LEMMA MovedType ==
    ASSUME TypeOK, NEW c \in Client, NEW pc \in Statement, NEW a \in Account \union {"none"},
           NEW v \in Nat
    PROVE  /\ Moved(c, pc, a, v) \in RequestState
           /\ Moved(c, pc, a, v).pc = pc
           /\ Moved(c, pc, a, v).account = a
           /\ Moved(c, pc, a, v).version = v
           /\ Moved(c, pc, a, v).subject = req[c].subject
           /\ Moved(c, pc, a, v).link = req[c].link
           /\ Moved(c, pc, a, v).rotates = req[c].rotates
<1>. DEFINE f == [req[c] EXCEPT !.account = a]
            g == [f EXCEPT !.pc = pc]
            h == [g EXCEPT !.version = v]
<1>1. req[c] \in RequestState
  BY DEF TypeOK
<1>2. f \in RequestState
  BY <1>1, FieldWrites
<1>3. g \in RequestState
  BY <1>2, FieldWrites
<1>4. h \in RequestState
  BY <1>3, FieldWrites
<1>5. h = Moved(c, pc, a, v)
  BY DEF Moved
<1>6. /\ h.pc = pc /\ h.account = a /\ h.version = v /\ h.subject = req[c].subject
      /\ h.link = req[c].link /\ h.rotates = req[c].rotates
  BY <1>1 DEF RequestState
<1>. HIDE DEF f, g, h
<1>. QED
  BY <1>4, <1>5, <1>6

LEMMA Going ==
    ASSUME TypeOK, NEW c \in Client, NEW pc \in Statement, Goto(c, pc)
    PROVE  /\ req' \in [Client -> RequestState]
           /\ req'[c].pc = pc /\ req'[c].account = req[c].account
           /\ req'[c].version = req[c].version
           /\ req'[c].subject = req[c].subject /\ req'[c].link = req[c].link
           /\ req'[c].rotates = req[c].rotates
           /\ \A d \in Client : d # c => req'[d] = req[d]
<1>1. req[c] \in RequestState
  BY DEF TypeOK
<1>2. req[c].account \in Account \union {"none"} /\ req[c].version \in Nat
  BY <1>1 DEF RequestState
<1>3. Moved(c, pc, req[c].account, req[c].version) = [req[c] EXCEPT !.pc = pc]
  BY <1>1 DEF Moved, RequestState
<1>4. req' = [req EXCEPT ![c] = Moved(c, pc, req[c].account, req[c].version)]
  BY <1>3 DEF Goto
<1>. DEFINE r == Moved(c, pc, req[c].account, req[c].version)
<1>7. /\ r \in RequestState /\ r.pc = pc /\ r.account = req[c].account /\ r.version = req[c].version
      /\ r.subject = req[c].subject /\ r.link = req[c].link /\ r.rotates = req[c].rotates
  BY <1>2, MovedType
<1>8. req' = [req EXCEPT ![c] = r]
  BY <1>4
<1>. HIDE DEF r
<1>. QED
  BY <1>7, <1>8, Writes

LEMMA Finding ==
    ASSUME TypeOK, NEW c \in Client, NEW pc \in Statement, NEW a \in Account,
           Found(c, a, pc)
    PROVE  /\ req' \in [Client -> RequestState]
           /\ req'[c].pc = pc /\ req'[c].account = a
           /\ req'[c].version = req[c].version
           /\ req'[c].subject = req[c].subject /\ req'[c].link = req[c].link
           /\ req'[c].rotates = req[c].rotates
           /\ \A d \in Client : d # c => req'[d] = req[d]
<1>1. req[c] \in RequestState
  BY DEF TypeOK
<1>2. req[c].version \in Nat
  BY <1>1 DEF RequestState
<1>3. Moved(c, pc, a, req[c].version) = [req[c] EXCEPT !.account = a, !.pc = pc]
  BY <1>1 DEF Moved, RequestState
<1>4. req'[c] = [req[c] EXCEPT !.account = a, !.pc = pc]
  BY DEF TypeOK, Found
<1>5. req' = [req EXCEPT ![c] = req'[c]]
  BY DEF TypeOK, Found
<1>6. req' = [req EXCEPT ![c] = Moved(c, pc, a, req[c].version)]
  BY <1>3, <1>4, <1>5
<1>. DEFINE r == Moved(c, pc, a, req[c].version)
<1>7. /\ r \in RequestState /\ r.pc = pc /\ r.account = a /\ r.version = req[c].version
      /\ r.subject = req[c].subject /\ r.link = req[c].link /\ r.rotates = req[c].rotates
  BY <1>2, MovedType
<1>8. req' = [req EXCEPT ![c] = r]
  BY <1>6
<1>. HIDE DEF r
<1>. QED
  BY <1>7, <1>8, Writes

ReadsVersion(c, v) == req' = [req EXCEPT ![c].pc = "insert", ![c].version = v]

LEMMA Reading ==
    ASSUME TypeOK, NEW c \in Client, NEW v \in Nat, ReadsVersion(c, v)
    PROVE  /\ req' \in [Client -> RequestState]
           /\ req'[c].pc = "insert" /\ req'[c].account = req[c].account
           /\ req'[c].version = v /\ req'[c].rotates = req[c].rotates
           /\ \A d \in Client : d # c => req'[d] = req[d]
<1>1. req[c] \in RequestState
  BY DEF TypeOK
<1>2. req[c].account \in Account \union {"none"}
  BY <1>1 DEF RequestState
<1>3. Moved(c, "insert", req[c].account, v) = [req[c] EXCEPT !.pc = "insert", !.version = v]
  BY <1>1 DEF Moved, RequestState
<1>4. req' = [req EXCEPT ![c] = Moved(c, "insert", req[c].account, v)]
  BY <1>3 DEF TypeOK, ReadsVersion
<1>5. "insert" \in Statement
  BY DEF Statement
<1>. DEFINE r == Moved(c, "insert", req[c].account, v)
<1>7. /\ r \in RequestState /\ r.pc = "insert" /\ r.account = req[c].account /\ r.version = v
      /\ r.subject = req[c].subject /\ r.link = req[c].link /\ r.rotates = req[c].rotates
  BY <1>2, <1>5, MovedType
<1>8. req' = [req EXCEPT ![c] = r]
  BY <1>4
<1>. HIDE DEF r
<1>. QED
  BY <1>7, <1>8, Writes

\* Two fields of an account at most change with its version.
LEMMA AccountWrites ==
    ASSUME NEW f \in [Account -> AccountRow], NEW a
    PROVE  /\ \A x \in {"active", "suspended", "deleted"} : [f EXCEPT ![a].status = x] \in [Account -> AccountRow]
           /\ \A x \in Role : [f EXCEPT ![a].role = x] \in [Account -> AccountRow]
           /\ \A x \in Nat : [f EXCEPT ![a].version = x] \in [Account -> AccountRow]
<1>1. ASSUME NEW x \in {"active", "suspended", "deleted"}
      PROVE  [f EXCEPT ![a].status = x] \in [Account -> AccountRow]
  BY DEF AccountRow
<1>2. ASSUME NEW x \in Role PROVE [f EXCEPT ![a].role = x] \in [Account -> AccountRow]
  BY DEF AccountRow
<1>3. ASSUME NEW x \in Nat PROVE [f EXCEPT ![a].version = x] \in [Account -> AccountRow]
  BY DEF AccountRow
<1>. QED
  BY <1>1, <1>2, <1>3

LEMMA Dropping ==
    ASSUME TypeOK, NEW S \in SUBSET Session, DropSessions(S)
    PROVE  /\ session' \in [Session -> SessionRow] /\ link' \in [Link -> LinkRow]
           /\ \A s \in Session : session'[s] = IF s \in S THEN NoSession ELSE session[s]
           /\ \A t \in Link : link'[t] = IF link[t].session \in S THEN Gone ELSE link[t]
BY RowTypes DEF TypeOK, DropSessions, SessionRow

-----------------------------------------------------------------------------
(* What each kind of step preserves.                                       *)

NeverYounger == \A a \in Account : account'[a].version >= account[a].version

LEMMA RequestsKeep ==
    ASSUME TypeOK, TypeOK', NeverYounger, NEW c \in Client, RequestOK(c),
           req'[c] = req[c]
    PROVE  RequestOK(c)'
<1>1. req[c].pc = "insert" => req[c].account \in Account
  BY DEF RequestOK
<1>2. \A a \in Account : account[a].version \in Nat /\ account'[a].version \in Nat
  BY DEF TypeOK, AccountRow
<1>3. req[c].version \in Nat
  BY DEF TypeOK, RequestState
<1>. QED
  BY <1>1, <1>2, <1>3 DEF RequestOK, NeverYounger

\* The tables stay as they are.
LEMMA QuietStep ==
    ASSUME IInv, TypeOK', UNCHANGED <<account, owner, session, link, uses>>,
           \A c \in Client : RequestOK(c)'
    PROVE  IInv'
BY DEF IInv, NothingIsOrphaned, OneIdentityPerProvider, VersionsAreOld, UsedLinksAreGone, Exists,
       Holder

\* Accounts change and stay.
LEMMA AccountStep ==
    ASSUME IInv, TypeOK', UNCHANGED <<owner, session, link, uses>>, NeverYounger,
           \A a \in Account : Exists(a) => Exists(a)',
           \A c \in Client : RequestOK(c)'
    PROVE  IInv'
<1>. USE DEF IInv
<1>1. \A s \in Session : session[s] # NoSession =>
         /\ Holder(s) \in Account
         /\ session[s].version \in Nat /\ account[Holder(s)].version \in Nat
         /\ account'[Holder(s)].version \in Nat
  BY DEF TypeOK, SessionRow, AccountRow, Holder
<1>2. VersionsAreOld'
  BY <1>1 DEF VersionsAreOld, Holder, NeverYounger
<1>3. NothingIsOrphaned'
  BY <1>1 DEF NothingIsOrphaned, TypeOK, Holder
<1>. QED
  BY <1>2, <1>3 DEF OneIdentityPerProvider, UsedLinksAreGone

\* Identities go.
LEMMA UnlinkStep ==
    ASSUME IInv, TypeOK', UNCHANGED <<account, session, link, uses>>,
           \A x \in Subject : owner'[x] \in {owner[x], "none"},
           \A c \in Client : RequestOK(c)'
    PROVE  IInv'
BY DEF IInv, NothingIsOrphaned, OneIdentityPerProvider, VersionsAreOld, UsedLinksAreGone, Exists,
       Holder

\* A link is issued or is gone.
LEMMA LinkStep ==
    ASSUME IInv, TypeOK', UNCHANGED <<account, owner, session>>, NEW t \in Link,
           \A u \in Link : u # t => link'[u] = link[u] /\ uses'[u] = uses[u],
           link'[t].session # "none" => session[link'[t].session] # NoSession,
           uses'[t] <= 1 /\ (uses'[t] = 1 => link'[t] = Gone),
           \A c \in Client : RequestOK(c)'
    PROVE  IInv'
BY DEF IInv, NothingIsOrphaned, OneIdentityPerProvider, VersionsAreOld, UsedLinksAreGone, Exists,
       Holder

\* Sessions go, and their links with them.
LEMMA DropStep ==
    ASSUME IInv, TypeOK', UNCHANGED <<account, owner, uses>>,
           NEW S \in SUBSET Session, DropSessions(S),
           \A c \in Client : RequestOK(c)'
    PROVE  IInv'
<1>. USE DEF IInv
<1>1. \A s \in Session : session'[s] = IF s \in S THEN NoSession ELSE session[s]
  BY Dropping
<1>2. \A t \in Link : link'[t] = IF link[t].session \in S THEN Gone ELSE link[t]
  BY Dropping
<1>3. NothingIsOrphaned'
  <2>1. ASSUME NEW t \in Link, link'[t].session # "none"
        PROVE  session'[link'[t].session] # NoSession
    <3>1. link'[t] = link[t] /\ link[t].session \notin S
      BY <1>2, <2>1, RowTypes
    <3>2. link[t].session \in Session
      BY <2>1, <3>1, RowTypes DEF TypeOK, LinkRow
    <3>. QED
      BY <1>1, <2>1, <3>1, <3>2 DEF NothingIsOrphaned
  <2>. QED
    BY <1>1, <2>1 DEF NothingIsOrphaned, Exists, Holder
<1>4. VersionsAreOld'
  BY <1>1 DEF VersionsAreOld, Holder
<1>5. UsedLinksAreGone'
  BY <1>2 DEF UsedLinksAreGone
<1>. QED
  BY <1>3, <1>4, <1>5 DEF OneIdentityPerProvider

LEMMA OtherRequestsKeep ==
    ASSUME IInv, TypeOK', NeverYounger, NEW c \in Client,
           \A d \in Client : d # c => req'[d] = req[d], RequestOK(c)'
    PROVE  \A d \in Client : RequestOK(d)'
BY RequestsKeep DEF IInv

LEMMA SameIsNotYounger == ASSUME TypeOK, account' = account PROVE NeverYounger
BY DEF TypeOK, AccountRow, NeverYounger

-----------------------------------------------------------------------------
(* New requests.                                                           *)

LEMMA SignInType ==
    ASSUME NEW pc \in {"resolve", "consume"}, NEW x \in Subject, NEW t \in Link \union {"none"}
    PROVE  /\ SignIn(pc, x, t) \in RequestState
           /\ SignIn(pc, x, t).pc = pc /\ SignIn(pc, x, t).subject = x
           /\ SignIn(pc, x, t).link = t /\ ~SignIn(pc, x, t).rotates
<1>. DEFINE f1 == [Idle EXCEPT !.pc = pc]
            f2 == [f1 EXCEPT !.subject = x]
            f3 == [f2 EXCEPT !.provider = ProviderOf(x)]
            f4 == [f3 EXCEPT !.link = t]
            f5 == [f4 EXCEPT !.confirmed = {ProviderOf(x)}]
<1>1. ProviderOf(x) \in Provider /\ {ProviderOf(x)} \in SUBSET Provider /\ pc \in Statement
  BY DEF ProviderOf, Provider, Statement
<1>2. f1 \in RequestState
  BY <1>1, RowTypes, FieldWrites
<1>3. f2 \in RequestState
  BY <1>2, FieldWrites
<1>4. f3 \in RequestState
  BY <1>1, <1>3, FieldWrites
<1>5. f4 \in RequestState
  BY <1>4, FieldWrites
<1>6. f5 \in RequestState
  BY <1>1, <1>5, FieldWrites
<1>7. f5 = SignIn(pc, x, t)
  BY DEF SignIn
<1>8. f5.pc = pc /\ f5.subject = x /\ f5.link = t /\ ~f5.rotates
  BY DEF Idle
<1>. HIDE DEF f1, f2, f3, f4, f5
<1>. QED
  BY <1>6, <1>7, <1>8

LEMMA LinkingType ==
    ASSUME TypeOK, NEW pc \in {"resolve", "consume"}, NEW x \in Subject,
           NEW t \in Link \union {"none"}, NEW s \in Session, Authenticates(s)
    PROVE  /\ Linking(pc, x, t, s) \in RequestState
           /\ Linking(pc, x, t, s).pc = pc /\ Linking(pc, x, t, s).subject = x
           /\ Linking(pc, x, t, s).link = t /\ Linking(pc, x, t, s).account \in Account
<1>. DEFINE r == SignIn(pc, x, t)
            all == session[s].confirmed \union {ProviderOf(x)}
            f1 == [r EXCEPT !.account = Holder(s)]
            f2 == [f1 EXCEPT !.rotates = TRUE]
            f3 == [f2 EXCEPT !.confirmed = all]
<1>1. r \in RequestState /\ r.pc = pc /\ r.subject = x /\ r.link = t
  BY SignInType
<1>2. Holder(s) \in Account /\ all \in SUBSET Provider
  BY DEF Authenticates, TypeOK, SessionRow, Holder, ProviderOf, Provider
<1>. HIDE DEF r, all
<1>3. f1 \in RequestState
  BY <1>1, <1>2, FieldWrites
<1>4. f2 \in RequestState
  BY <1>3, FieldWrites
<1>5. f3 \in RequestState
  BY <1>2, <1>4, FieldWrites
<1>6. f3.pc = pc /\ f3.subject = x /\ f3.link = t /\ f3.account = Holder(s)
  BY <1>1 DEF RequestState
<1>7. f3 = Linking(pc, x, t, s)
  BY DEF Linking, r, all
<1>. HIDE DEF f1, f2, f3
<1>. QED
  BY <1>2, <1>5, <1>6, <1>7

LEMMA BeginStep ==
    ASSUME IInv, NEW c \in Client, NEW r \in RequestState, Begin(c, r),
           UNCHANGED <<account, owner, session, link, marker, uses>>,
           r.pc \notin {"idle", "consume", "resolve"} => r.account \in Account,
           r.pc \in {"consume", "resolve", "list", "inspect", "delete"},
           r.pc \in {"consume", "resolve"} => r.subject \in Subject,
           r.pc = "consume" => r.link \in Link,
           r.rotates => r.account \in Account
    PROVE  IInv'
<1>. USE DEF IInv
<1>1. /\ req' \in [Client -> RequestState] /\ req'[c] = r
      /\ \A d \in Client : d # c => req'[d] = req[d]
  BY Writes DEF Begin
<1>2. requests' \in 0 .. MaxRequests
  BY DEF Begin, Request, TypeOK
<1>3. TypeOK'
  BY <1>1, <1>2 DEF TypeOK
<1>4. RequestOK(c)'
  BY <1>1 DEF RequestOK
<1>5. \A d \in Client : RequestOK(d)'
  BY <1>1, <1>3, <1>4, OtherRequestsKeep, SameIsNotYounger
<1>. QED
  BY <1>3, <1>5, QuietStep

LEMMA BeginSteps ==
    ASSUME IInv, NEW c \in Client,
           \/ DiscordCallback(c) \/ BeginUnlink(c) \/ BeginChange(c) \/ BeginDelete(c)
           \/ \E t \in Link : OpenLink(c, t)
    PROVE  IInv'
<1>1. TypeOK
  BY DEF IInv
<1>2. CASE DiscordCallback(c)
  <2>1. PICK x \in Discord :
          \/ Begin(c, SignIn("resolve", x, "none"))
          \/ \E s \in Session : Authenticates(s) /\ Begin(c, Linking("resolve", x, "none", s))
    BY <1>2 DEF DiscordCallback
  <2>2. x \in Subject /\ "none" \in Link \union {"none"} /\ "resolve" \in {"resolve", "consume"}
    BY DEF Subject
  <2>3. CASE Begin(c, SignIn("resolve", x, "none"))
    <3>. DEFINE r == SignIn("resolve", x, "none")
    <3>1. r \in RequestState /\ r.pc = "resolve" /\ r.subject = x /\ ~r.rotates
      BY <2>2, SignInType
    <3>2. Begin(c, r)
      BY <2>3
    <3>. HIDE DEF r
    <3>. QED
      BY <1>2, <2>2, <3>1, <3>2, BeginStep DEF DiscordCallback
  <2>4. ASSUME NEW s \in Session, Authenticates(s), Begin(c, Linking("resolve", x, "none", s))
        PROVE  IInv'
    <3>. DEFINE r == Linking("resolve", x, "none", s)
    <3>1. r \in RequestState /\ r.pc = "resolve" /\ r.subject = x /\ r.account \in Account
      BY <1>1, <2>2, <2>4, LinkingType
    <3>2. Begin(c, r)
      BY <2>4
    <3>. HIDE DEF r
    <3>. QED
      BY <1>2, <2>2, <3>1, <3>2, BeginStep DEF DiscordCallback
  <2>. QED
    BY <2>1, <2>3, <2>4
<1>3. ASSUME NEW t \in Link, OpenLink(c, t) PROVE IInv'
  <2>. DEFINE x == link[t].subject
              s == link[t].session
  <2>1. x \in Subject /\ (s # "none" => s \in Session)
    BY <1>1, <1>3, RowTypes DEF OpenLink, TypeOK, LinkRow, Subject
  <2>2. t \in Link \union {"none"} /\ "consume" \in {"resolve", "consume"}
    OBVIOUS
  <2>3. CASE s = "none" /\ Begin(c, SignIn("consume", x, t))
    <3>. DEFINE r == SignIn("consume", x, t)
    <3>1. r \in RequestState /\ r.pc = "consume" /\ r.subject = x /\ r.link = t /\ ~r.rotates
      BY <2>1, <2>2, SignInType
    <3>2. Begin(c, r)
      BY <2>3
    <3>. HIDE DEF r
    <3>. QED
      BY <1>3, <2>1, <3>1, <3>2, BeginStep DEF OpenLink
  <2>4. CASE s # "none" /\ Authenticates(s) /\ Begin(c, Linking("consume", x, t, s))
    <3>. DEFINE r == Linking("consume", x, t, s)
    <3>1. r \in RequestState /\ r.pc = "consume" /\ r.subject = x /\ r.link = t
          /\ r.account \in Account
      BY <1>1, <2>1, <2>2, <2>4, LinkingType
    <3>2. Begin(c, r)
      BY <2>4
    <3>. HIDE DEF r
    <3>. QED
      BY <1>3, <2>1, <3>1, <3>2, BeginStep DEF OpenLink
  <2>. QED
    BY <1>3, <2>3, <2>4 DEF OpenLink
<1>4. CASE BeginUnlink(c)
  <2>1. PICK s \in Session, p \in Provider :
          /\ Authenticates(s)
          /\ Begin(c, [Idle EXCEPT !.pc = "list", !.account = Holder(s), !.provider = p,
                                   !.confirmed = session[s].confirmed \ {p}, !.rotates = TRUE])
    BY <1>4 DEF BeginUnlink
  <2>. DEFINE rest == session[s].confirmed \ {p}
              f1 == [Idle EXCEPT !.pc = "list"]
              f2 == [f1 EXCEPT !.account = Holder(s)]
              f3 == [f2 EXCEPT !.provider = p]
              f4 == [f3 EXCEPT !.confirmed = rest]
              f5 == [f4 EXCEPT !.rotates = TRUE]
  <2>2. Holder(s) \in Account /\ rest \in SUBSET Provider /\ "list" \in Statement
    BY <1>1, <2>1 DEF Authenticates, TypeOK, SessionRow, Holder, Statement
  <2>3. f1 \in RequestState
    BY <2>2, RowTypes, FieldWrites
  <2>4. f2 \in RequestState
    BY <2>2, <2>3, FieldWrites
  <2>5. f3 \in RequestState
    BY <2>4, FieldWrites
  <2>6. f4 \in RequestState
    BY <2>2, <2>5, FieldWrites
  <2>7. f5 \in RequestState
    BY <2>6, FieldWrites
  <2>8. f5.pc = "list" /\ f5.account = Holder(s)
    BY DEF Idle
  <2>9. Begin(c, f5)
    BY <2>1
  <2>. HIDE DEF f1, f2, f3, f4, f5
  <2>. QED
    BY <1>4, <2>2, <2>7, <2>8, <2>9, BeginStep DEF BeginUnlink
<1>5. CASE BeginChange(c)
  <2>1. PICK a \in Account, role \in Role, st \in {"active", "suspended"} :
          Begin(c, [Idle EXCEPT !.pc = "inspect", !.account = a, !.role = role, !.status = st])
    BY <1>5 DEF BeginChange
  <2>. DEFINE f1 == [Idle EXCEPT !.pc = "inspect"]
              f2 == [f1 EXCEPT !.account = a]
              f3 == [f2 EXCEPT !.role = role]
              f4 == [f3 EXCEPT !.status = st]
  <2>2. "inspect" \in Statement
    BY DEF Statement
  <2>3. f1 \in RequestState
    BY <2>2, RowTypes, FieldWrites
  <2>4. f2 \in RequestState
    BY <2>3, FieldWrites
  <2>5. f3 \in RequestState
    BY <2>4, FieldWrites
  <2>6. f4 \in RequestState
    BY <2>5, FieldWrites
  <2>7. f4.pc = "inspect" /\ f4.account = a
    BY DEF Idle
  <2>8. Begin(c, f4)
    BY <2>1
  <2>. HIDE DEF f1, f2, f3, f4
  <2>. QED
    BY <1>5, <2>6, <2>7, <2>8, BeginStep DEF BeginChange
<1>6. CASE BeginDelete(c)
  <2>1. PICK a \in Account : Begin(c, [Idle EXCEPT !.pc = "delete", !.account = a])
    BY <1>6 DEF BeginDelete
  <2>. DEFINE f1 == [Idle EXCEPT !.pc = "delete"]
              f2 == [f1 EXCEPT !.account = a]
  <2>2. "delete" \in Statement
    BY DEF Statement
  <2>3. f1 \in RequestState
    BY <2>2, RowTypes, FieldWrites
  <2>4. f2 \in RequestState
    BY <2>3, FieldWrites
  <2>5. f2.pc = "delete" /\ f2.account = a
    BY DEF Idle
  <2>6. Begin(c, f2)
    BY <2>1
  <2>. HIDE DEF f1, f2
  <2>. QED
    BY <1>6, <2>4, <2>5, <2>6, BeginStep DEF BeginDelete
<1>. QED
  BY <1>2, <1>3, <1>4, <1>5, <1>6

-----------------------------------------------------------------------------
(* The statements of a request.                                            *)

\* A request goes on to a statement that needs no more than it already has.
LEMMA GoingOn ==
    ASSUME IInv, NEW c \in Client, NEW pc \in Statement \ {"consume", "resolve", "insert"},
           Goto(c, pc),
           pc \notin {"idle", "create"} => req[c].account \in Account,
           pc \in {"create", "attach", "created"} => req[c].subject \in Subject
    PROVE  RequestOK(c)' /\ req' \in [Client -> RequestState]
           /\ \A d \in Client : d # c => req'[d] = req[d]
<1>1. TypeOK /\ RequestOK(c)
  BY DEF IInv
<1>2. /\ req' \in [Client -> RequestState]
      /\ req'[c].pc = pc /\ req'[c].account = req[c].account
      /\ req'[c].subject = req[c].subject
      /\ req'[c].rotates = req[c].rotates
      /\ \A d \in Client : d # c => req'[d] = req[d]
  BY <1>1, Going
<1>. QED
  BY <1>1, <1>2 DEF RequestOK

LEMMA Answered ==
    ASSUME IInv, NEW c \in Client, Answer(c)
    PROVE  RequestOK(c)' /\ req' \in [Client -> RequestState]
           /\ \A d \in Client : d # c => req'[d] = req[d]
BY Answers DEF IInv, RequestOK

LEMMA FoundOK ==
    ASSUME IInv, NEW c \in Client, NEW a \in Account, NEW pc \in {"created", "claim", "read"},
           Found(c, a, pc), pc = "created" => req[c].subject \in Subject
    PROVE  RequestOK(c)' /\ req' \in [Client -> RequestState]
           /\ \A d \in Client : d # c => req'[d] = req[d]
<1>1. TypeOK /\ pc \in Statement
  BY DEF IInv, Statement
<1>. QED
  BY <1>1, Finding DEF RequestOK

\* Statements that read, or write no more than the marker.
LEMMA QuietSteps ==
    ASSUME IInv, NEW c \in Client,
           \/ Resolve(c) \/ Mark(c) \/ ListIdentities(c) \/ ReadAccount(c) \/ Inspect(c) \/ Crash(c)
    PROVE  IInv'
<1>1. TypeOK /\ RequestOK(c) /\ req[c] \in RequestState
  BY DEF IInv, TypeOK
<1>2. UNCHANGED <<account, owner, session, link, uses>>
  BY DEF Resolve, Mark, ListIdentities, ReadAccount, Inspect, Crash
<1>3. marker' \in BOOLEAN /\ requests' \in 0 .. MaxRequests
  <2>1. marker' \in {marker, TRUE} /\ (requests' = requests \/ Request)
    BY DEF Resolve, Mark, ListIdentities, ReadAccount, Inspect, Crash
  <2>2. Request => requests' \in 0 .. MaxRequests
    BY <1>1 DEF TypeOK, Request
  <2>3. marker \in BOOLEAN /\ requests \in 0 .. MaxRequests
    BY <1>1 DEF TypeOK
  <2>. QED
    BY <2>1, <2>2, <2>3
<1>4. SUFFICES RequestOK(c)' /\ req' \in [Client -> RequestState]
               /\ \A d \in Client : d # c => req'[d] = req[d]
  <2>1. TypeOK'
    BY <1>1, <1>2, <1>3, <1>4 DEF TypeOK
  <2>2. \A d \in Client : RequestOK(d)'
    BY <1>1, <1>2, <1>4, <2>1, OtherRequestsKeep, SameIsNotYounger
  <2>. QED
    BY <1>2, <2>1, <2>2, QuietStep
<1>5. CASE Answer(c)
  BY <1>5, Answered
<1>6. CASE Resolve(c) /\ ~Answer(c)
  <2>. DEFINE a == owner[req[c].subject]
  <2>1. req[c].subject \in Subject /\ a \in Account \union {"none"}
    BY <1>1, <1>6 DEF Resolve, RequestOK, TypeOK
  <2>2. CASE a # "none" /\ Found(c, a, "claim")
    BY <2>1, <2>2, FoundOK
  <2>3. CASE Goto(c, "create")
    <3>1. "create" \in Statement \ {"consume", "resolve", "insert"}
      BY DEF Statement
    <3>. QED
      BY <2>1, <2>3, <3>1, GoingOn
  <2>4. CASE req[c].rotates /\ Goto(c, "attach")
    <3>1. "attach" \in Statement \ {"consume", "resolve", "insert"}
      BY DEF Statement
    <3>2. req[c].account \in Account
      BY <1>1, <2>4 DEF RequestOK
    <3>. QED
      BY <2>1, <2>4, <3>1, <3>2, GoingOn
  <2>. QED
    BY <1>6, <2>2, <2>3, <2>4 DEF Resolve
<1>7. CASE Mark(c) \/ (ListIdentities(c) /\ ~Answer(c)) \/ (Inspect(c) /\ ~Answer(c))
  <2>1. req[c].account \in Account
    BY <1>1, <1>7 DEF RequestOK, Mark, ListIdentities, Inspect
  <2>2. PICK pc \in {"revoke", "create", "read", "detach", "change"} :
          Goto(c, pc) /\ pc # "create"
    BY <1>7 DEF Mark, ListIdentities, Inspect, Onwards
  <2>3. pc \in Statement \ {"consume", "resolve", "insert"}
    BY <2>2 DEF Statement
  <2>. QED
    BY <2>1, <2>2, <2>3, GoingOn
<1>8. CASE ReadAccount(c) /\ ~Answer(c)
  <2>. DEFINE v == account[req[c].account].version
  <2>1. req[c].account \in Account /\ v \in Nat
    BY <1>1, <1>8 DEF RequestOK, ReadAccount, TypeOK, AccountRow
  <2>2. ReadsVersion(c, v)
    BY <1>8 DEF ReadAccount, ReadsVersion
  <2>3. /\ req' \in [Client -> RequestState]
        /\ req'[c].pc = "insert" /\ req'[c].account = req[c].account /\ req'[c].version = v
        /\ req'[c].rotates = req[c].rotates
        /\ \A d \in Client : d # c => req'[d] = req[d]
    BY <1>1, <2>1, <2>2, Reading
  <2>4. RequestOK(c)'
    BY <1>2, <2>1, <2>3 DEF RequestOK
  <2>. QED
    BY <2>3, <2>4
<1>. QED
  BY <1>5, <1>6, <1>7, <1>8 DEF Crash

LEMMA ConsumeStep ==
    ASSUME IInv, NEW c \in Client, Consume(c)
    PROVE  IInv'
<1>. DEFINE t == req[c].link
<1>1. TypeOK /\ RequestOK(c) /\ t \in Link /\ req[c].subject \in Subject
  BY DEF IInv, Consume, RequestOK
<1>2. RequestOK(c)' /\ req' \in [Client -> RequestState]
      /\ \A d \in Client : d # c => req'[d] = req[d]
  <2>1. CASE Answer(c)
    BY <2>1, Answered
  <2>2. CASE Goto(c, "resolve")
    <3>1. "resolve" \in Statement
      BY DEF Statement
    <3>2. /\ req' \in [Client -> RequestState]
          /\ req'[c].pc = "resolve" /\ req'[c].account = req[c].account
          /\ req'[c].subject = req[c].subject
          /\ req'[c].rotates = req[c].rotates
          /\ \A d \in Client : d # c => req'[d] = req[d]
      BY <1>1, <2>2, <3>1, Going
    <3>. QED
      BY <1>1, <3>2 DEF RequestOK
  <2>. QED
    BY <2>1, <2>2 DEF Consume
<1>3. CASE StillOpen(t)
  <2>1. link' = [link EXCEPT ![t] = Gone] /\ uses' = [uses EXCEPT ![t] = @ + 1]
    BY <1>3 DEF Consume
  <2>2. TypeOK'
    BY <1>1, <1>2, <2>1, RowTypes DEF TypeOK, Consume
  <2>3. link'[t] = Gone /\ uses'[t] = uses[t] + 1
        /\ \A u \in Link : u # t => link'[u] = link[u] /\ uses'[u] = uses[u]
    BY <1>1, <2>1 DEF TypeOK
  <2>4. uses[t] = 0
    <3>1. uses[t] \in Nat /\ link[t] # Gone
      BY <1>1, <1>3, RowTypes DEF TypeOK, StillOpen
    <3>2. uses[t] <= 1 /\ (uses[t] = 1 => link[t] = Gone)
      BY <1>1 DEF IInv, UsedLinksAreGone
    <3>. QED
      BY <3>1, <3>2
  <2>5. \A d \in Client : RequestOK(d)'
    BY <1>1, <1>2, <2>2, OtherRequestsKeep, SameIsNotYounger DEF Consume
  <2>6. UNCHANGED <<account, owner, session>>
    BY DEF Consume
  <2>. QED
    BY <1>1, <2>2, <2>3, <2>4, <2>5, <2>6, RowTypes, LinkStep
<1>4. CASE ~StillOpen(t)
  <2>1. TypeOK'
    BY <1>1, <1>2, <1>4 DEF TypeOK, Consume
  <2>2. \A d \in Client : RequestOK(d)'
    BY <1>1, <1>2, <2>1, OtherRequestsKeep, SameIsNotYounger DEF Consume
  <2>. QED
    BY <1>4, <2>1, <2>2, QuietStep DEF Consume
<1>. QED
  BY <1>3, <1>4

\* A new account, or an identity found to have one by now.
LEMMA CreateStep ==
    ASSUME IInv, NEW c \in Client, Create(c)
    PROVE  IInv'
<1>. DEFINE x == req[c].subject
<1>1. TypeOK /\ RequestOK(c) /\ x \in Subject
  BY DEF IInv, Create, RequestOK
<1>2. CASE owner[x] = "none"
  <2>1. PICK a \in Account :
          /\ account[a].status = "absent"
          /\ account' = [account EXCEPT ![a].status = "active"]
          /\ owner' = [owner EXCEPT ![x] = a]
          /\ Found(c, a, "created")
    BY <1>2 DEF Create
  <2>2. RequestOK(c)' /\ req' \in [Client -> RequestState]
        /\ \A d \in Client : d # c => req'[d] = req[d]
    BY <1>1, <2>1, FoundOK
  <2>3. account' \in [Account -> AccountRow]
    BY <1>1, <2>1, AccountWrites DEF TypeOK
  <2>4. TypeOK'
    BY <1>1, <2>1, <2>2, <2>3 DEF TypeOK, Create
  <2>5. /\ \A b \in Account : account'[b].version = account[b].version
        /\ \A b \in Account : b # a => account'[b] = account[b]
        /\ account'[a].status = "active"
    BY <1>1, <2>1 DEF TypeOK, AccountRow
  <2>6. NeverYounger
    BY <1>1, <2>5 DEF NeverYounger, TypeOK, AccountRow
  <2>7. \A d \in Client : RequestOK(d)'
    BY <2>2, <2>4, <2>6, OtherRequestsKeep
  <2>8. UNCHANGED <<session, link, uses>>
    BY DEF Create
  <2>9. owner'[x] = a /\ \A y \in Subject : y # x => owner'[y] = owner[y] /\ owner'[y] # a
    BY <1>1, <2>1 DEF TypeOK, IInv, NothingIsOrphaned, Exists
  <2>10. \A b \in Account : Exists(b) => Exists(b)'
    BY <2>1, <2>5 DEF Exists
  <2>11. \A s \in Session : session[s] # NoSession => Holder(s) \in Account
    BY <1>1 DEF TypeOK, SessionRow, Holder
  <2>12. NothingIsOrphaned'
    BY <1>1, <2>5, <2>8, <2>9, <2>10, <2>11 DEF IInv, NothingIsOrphaned, Exists, Holder, TypeOK
  <2>13. OneIdentityPerProvider'
    BY <2>9 DEF IInv, OneIdentityPerProvider
  <2>14. VersionsAreOld' /\ UsedLinksAreGone'
    BY <2>5, <2>8, <2>11 DEF IInv, VersionsAreOld, UsedLinksAreGone, Holder
  <2>. QED
    BY <2>4, <2>7, <2>12, <2>13, <2>14 DEF IInv
<1>3. CASE owner[x] # "none"
  <2>1. owner[x] \in Account /\ Found(c, owner[x], "read") /\ UNCHANGED <<account, owner>>
    BY <1>1, <1>3 DEF Create, TypeOK
  <2>2. RequestOK(c)' /\ req' \in [Client -> RequestState]
        /\ \A d \in Client : d # c => req'[d] = req[d]
    BY <2>1, FoundOK
  <2>3. TypeOK'
    BY <1>1, <2>1, <2>2 DEF TypeOK, Create
  <2>4. \A d \in Client : RequestOK(d)'
    BY <1>1, <2>1, <2>2, <2>3, OtherRequestsKeep, SameIsNotYounger
  <2>. QED
    BY <2>1, <2>3, <2>4, QuietStep DEF Create
<1>. QED
  BY <1>2, <1>3

LEMMA AttachStep ==
    ASSUME IInv, NEW c \in Client, Attach(c)
    PROVE  IInv'
<1>. DEFINE x == req[c].subject
            a == req[c].account
<1>1. TypeOK /\ RequestOK(c) /\ x \in Subject /\ a \in Account
  BY DEF IInv, Attach, RequestOK
<1>2. CASE MayAttach(a, x)
  <2>1. owner' = [owner EXCEPT ![x] = a] /\ Goto(c, "claim")
        /\ UNCHANGED <<account, session, link, marker, requests, uses>>
    BY <1>2 DEF Attach
  <2>2. "claim" \in Statement \ {"consume", "resolve", "insert"}
    BY DEF Statement
  <2>3. RequestOK(c)' /\ req' \in [Client -> RequestState]
        /\ \A d \in Client : d # c => req'[d] = req[d]
    BY <1>1, <2>1, <2>2, GoingOn
  <2>4. TypeOK'
    BY <1>1, <2>1, <2>3 DEF TypeOK
  <2>5. \A d \in Client : RequestOK(d)'
    BY <1>1, <2>1, <2>3, <2>4, OtherRequestsKeep, SameIsNotYounger
  <2>6. owner'[x] = a /\ \A y \in Subject : y # x => owner'[y] = owner[y]
    BY <1>1, <2>1 DEF TypeOK
  <2>7. \A y \in Subject : owner[y] = a => ProviderOf(y) # ProviderOf(x)
    BY <1>2 DEF MayAttach, Linked, Identities
  <2>8. OneIdentityPerProvider'
    BY <2>6, <2>7 DEF IInv, OneIdentityPerProvider
  <2>9. NothingIsOrphaned'
    BY <1>2, <2>1, <2>6 DEF IInv, NothingIsOrphaned, Exists, Holder, MayAttach
  <2>10. VersionsAreOld' /\ UsedLinksAreGone'
    BY <2>1 DEF IInv, VersionsAreOld, UsedLinksAreGone, Holder
  <2>. QED
    BY <2>4, <2>5, <2>8, <2>9, <2>10 DEF IInv
<1>3. CASE ~MayAttach(a, x)
  <2>1. Answer(c) /\ UNCHANGED <<account, owner, session, link, marker, requests, uses>>
    BY <1>3 DEF Attach
  <2>2. RequestOK(c)' /\ req' \in [Client -> RequestState]
        /\ \A d \in Client : d # c => req'[d] = req[d]
    BY <2>1, Answered
  <2>3. TypeOK'
    BY <1>1, <2>1, <2>2 DEF TypeOK
  <2>4. \A d \in Client : RequestOK(d)'
    BY <1>1, <2>1, <2>2, <2>3, OtherRequestsKeep, SameIsNotYounger
  <2>. QED
    BY <2>1, <2>3, <2>4, QuietStep
<1>. QED
  BY <1>2, <1>3

LEMMA DetachStep ==
    ASSUME IInv, NEW c \in Client, Detach(c)
    PROVE  IInv'
<1>1. TypeOK /\ RequestOK(c) /\ req[c].account \in Account /\ Goto(c, "revoke")
  BY DEF IInv, Detach, RequestOK
<1>2. "revoke" \in Statement \ {"consume", "resolve", "insert"}
  BY DEF Statement
<1>3. RequestOK(c)' /\ req' \in [Client -> RequestState]
      /\ \A d \in Client : d # c => req'[d] = req[d]
  BY <1>1, <1>2, GoingOn
<1>4. \A x \in Subject : owner'[x] \in {owner[x], "none"}
  BY DEF Detach
<1>5. TypeOK'
  BY <1>1, <1>3 DEF TypeOK, Detach
<1>6. \A d \in Client : RequestOK(d)'
  BY <1>1, <1>3, <1>5, OtherRequestsKeep, SameIsNotYounger DEF Detach
<1>. QED
  BY <1>4, <1>5, <1>6, UnlinkStep DEF Detach

\* A change of access raises the version of one account.
Raises(a) ==
    /\ account' \in [Account -> AccountRow]
    /\ account'[a].version = account[a].version + 1
    /\ account'[a].status \in {"active", "suspended"}
    /\ \A b \in Account : b # a => account'[b] = account[b]

LEMMA Changing ==
    ASSUME TypeOK, NEW a \in Account, NEW role \in Role, NEW status \in {"active", "suspended"},
           account' = Changed(a, role, status)
    PROVE  Raises(a) /\ account'[a].status = status /\ account'[a].role = role
<1>. DEFINE v == account[a].version + 1
            f == [account EXCEPT ![a].role = role]
            g == [f EXCEPT ![a].status = status]
            h == [g EXCEPT ![a].version = v]
<1>1. account \in [Account -> AccountRow] /\ account[a] \in AccountRow /\ v \in Nat
  BY DEF TypeOK, AccountRow
<1>2. f \in [Account -> AccountRow]
  BY <1>1, AccountWrites
<1>3. g \in [Account -> AccountRow]
  BY <1>2, AccountWrites
<1>4. h \in [Account -> AccountRow]
  BY <1>1, <1>3, AccountWrites
<1>5. account' = h
  BY <1>1 DEF Changed, AccountRow
<1>6. h[a].version = v /\ h[a].status = status /\ h[a].role = role
      /\ \A b \in Account : b # a => h[b] = account[b]
  BY <1>1 DEF AccountRow
<1>. HIDE DEF f, g, h
<1>. QED
  BY <1>4, <1>5, <1>6 DEF Raises

LEMMA Claiming ==
    ASSUME TypeOK, NEW a \in Account, Active(a),
           account' = [account EXCEPT ![a].role = "admin", ![a].version = @ + 1]
    PROVE  Raises(a) /\ account'[a].status = "active" /\ account'[a].role = "admin"
<1>. DEFINE v == account[a].version + 1
            f == [account EXCEPT ![a].role = "admin"]
            g == [f EXCEPT ![a].version = v]
<1>1. account \in [Account -> AccountRow] /\ account[a] \in AccountRow /\ v \in Nat
      /\ "admin" \in Role
  BY DEF TypeOK, AccountRow, Role
<1>2. f \in [Account -> AccountRow]
  BY <1>1, AccountWrites
<1>3. g \in [Account -> AccountRow]
  BY <1>1, <1>2, AccountWrites
<1>4. account' = g
  BY <1>1 DEF AccountRow
<1>5. g[a].version = v /\ g[a].status = "active" /\ g[a].role = "admin"
      /\ \A b \in Account : b # a => g[b] = account[b]
  BY <1>1 DEF AccountRow, Active
<1>. HIDE DEF f, g
<1>. QED
  BY <1>3, <1>4, <1>5 DEF Raises

LEMMA RaisesKeeps ==
    ASSUME TypeOK, NEW a \in Account, Raises(a)
    PROVE  NeverYounger /\ \A b \in Account : Exists(b) => Exists(b)'
BY DEF TypeOK, AccountRow, Raises, NeverYounger, Exists

LEMMA ClaimStep ==
    ASSUME IInv, NEW c \in Client, Claim(c)
    PROVE  IInv'
<1>. DEFINE a == req[c].account
<1>1. TypeOK /\ RequestOK(c) /\ a \in Account
  BY DEF IInv, Claim, RequestOK
<1>2. UNCHANGED <<owner, session, link, marker, requests, uses>>
  BY DEF Claim
<1>3. CASE Bootstraps(a)
  <2>1. Raises(a) /\ Goto(c, "mark")
    BY <1>1, <1>3, Claiming DEF Claim, Bootstraps
  <2>2. "mark" \in Statement \ {"consume", "resolve", "insert"}
    BY DEF Statement
  <2>3. RequestOK(c)' /\ req' \in [Client -> RequestState]
        /\ \A d \in Client : d # c => req'[d] = req[d]
    BY <1>1, <2>1, <2>2, GoingOn
  <2>4. TypeOK'
    BY <1>1, <1>2, <2>1, <2>3 DEF TypeOK, Raises
  <2>5. NeverYounger /\ \A b \in Account : Exists(b) => Exists(b)'
    BY <1>1, <2>1, RaisesKeeps
  <2>6. \A d \in Client : RequestOK(d)'
    BY <2>3, <2>4, <2>5, OtherRequestsKeep
  <2>. QED
    BY <1>2, <2>4, <2>5, <2>6, AccountStep
<1>4. CASE ~Bootstraps(a)
  <2>1. PICK pc \in {"revoke", "create", "read"} :
          Goto(c, pc) /\ (pc = "create" => req[c].pc = "created" /\ ~req[c].rotates)
    BY <1>4 DEF Claim, Onwards
  <2>2. pc \in Statement \ {"consume", "resolve", "insert"}
    BY <2>1 DEF Statement
  <2>3. RequestOK(c)' /\ req' \in [Client -> RequestState]
        /\ \A d \in Client : d # c => req'[d] = req[d]
    <3>1. pc = "create" => req[c].subject \in Subject
      BY <1>1, <2>1 DEF RequestOK
    <3>. QED
      BY <1>1, <2>1, <2>2, <3>1, GoingOn
  <2>4. TypeOK' /\ UNCHANGED account
    BY <1>1, <1>2, <1>4, <2>3 DEF TypeOK, Claim
  <2>5. \A d \in Client : RequestOK(d)'
    BY <1>1, <2>3, <2>4, OtherRequestsKeep, SameIsNotYounger
  <2>. QED
    BY <1>2, <2>4, <2>5, QuietStep
<1>. QED
  BY <1>3, <1>4

LEMMA ChangeStep ==
    ASSUME IInv, NEW c \in Client, Change(c)
    PROVE  IInv'
<1>. DEFINE a == req[c].account
<1>1. TypeOK /\ RequestOK(c) /\ a \in Account /\ req[c] \in RequestState
  BY DEF IInv, Change, RequestOK, TypeOK
<1>2. UNCHANGED <<owner, session, link, marker, requests, uses>> /\ Answer(c)
  BY DEF Change
<1>3. RequestOK(c)' /\ req' \in [Client -> RequestState]
      /\ \A d \in Client : d # c => req'[d] = req[d]
  BY <1>2, Answered
<1>4. CASE account' = Changed(a, req[c].role, req[c].status)
  <2>1. req[c].role \in Role /\ req[c].status \in {"active", "suspended"}
    BY <1>1 DEF RequestState
  <2>2. Raises(a)
    BY <1>1, <1>4, <2>1, Changing
  <2>3. TypeOK'
    BY <1>1, <1>2, <1>3, <2>2 DEF TypeOK, Raises
  <2>4. NeverYounger /\ \A b \in Account : Exists(b) => Exists(b)'
    BY <1>1, <2>2, RaisesKeeps
  <2>5. \A d \in Client : RequestOK(d)'
    BY <1>3, <2>3, <2>4, OtherRequestsKeep
  <2>. QED
    BY <1>2, <2>3, <2>4, <2>5, AccountStep
<1>5. CASE UNCHANGED account
  <2>1. TypeOK'
    BY <1>1, <1>2, <1>3, <1>5 DEF TypeOK
  <2>2. \A d \in Client : RequestOK(d)'
    BY <1>1, <1>3, <1>5, <2>1, OtherRequestsKeep, SameIsNotYounger
  <2>. QED
    BY <1>2, <1>5, <2>1, <2>2, QuietStep
<1>. QED
  BY <1>4, <1>5 DEF Change

LEMMA AcceptStep ==
    ASSUME IInv, NEW a \in Account, AcceptApplication(a)
    PROVE  IInv'
<1>1. TypeOK /\ "moderator" \in Role
  BY DEF IInv, Role
<1>2. account' = Changed(a, "moderator", "active")
      /\ UNCHANGED <<owner, session, link, marker, req, uses>>
  BY DEF AcceptApplication
<1>3. Raises(a)
  BY <1>1, <1>2, Changing
<1>4. requests' \in 0 .. MaxRequests
  BY <1>1 DEF AcceptApplication, Request, TypeOK
<1>5. TypeOK'
  BY <1>1, <1>2, <1>3, <1>4 DEF TypeOK, Raises
<1>6. NeverYounger /\ \A b \in Account : Exists(b) => Exists(b)'
  BY <1>1, <1>3, RaisesKeeps
<1>7. \A d \in Client : RequestOK(d)'
  BY <1>1, <1>2, <1>5, <1>6, RequestsKeep DEF IInv
<1>. QED
  BY <1>2, <1>5, <1>6, <1>7, AccountStep

LEMMA DeleteStep ==
    ASSUME IInv, NEW c \in Client, Delete(c)
    PROVE  IInv'
<1>. DEFINE a == req[c].account
            S == SessionsOf(a)
<1>1. TypeOK /\ RequestOK(c) /\ a \in Account
  BY DEF IInv, Delete, RequestOK
<1>2. UNCHANGED <<marker, requests, uses>> /\ Answer(c)
  BY DEF Delete
<1>3. RequestOK(c)' /\ req' \in [Client -> RequestState]
      /\ \A d \in Client : d # c => req'[d] = req[d]
  BY <1>2, Answered
<1>4. CASE UNCHANGED <<account, owner, session, link>>
  <2>1. TypeOK'
    BY <1>1, <1>2, <1>3, <1>4 DEF TypeOK
  <2>2. \A d \in Client : RequestOK(d)'
    BY <1>1, <1>3, <1>4, <2>1, OtherRequestsKeep, SameIsNotYounger
  <2>. QED
    BY <1>2, <1>4, <2>1, <2>2, QuietStep
<1>5. CASE /\ account' = [account EXCEPT ![a].status = "deleted", ![a].role = "member"]
           /\ owner' = Disowned(a)
           /\ DropSessions(S)
  <2>1. account' \in [Account -> AccountRow]
    <3>. DEFINE f == [account EXCEPT ![a].status = "deleted"]
                g == [f EXCEPT ![a].role = "member"]
    <3>1. f \in [Account -> AccountRow]
      BY <1>1, AccountWrites DEF TypeOK
    <3>2. g \in [Account -> AccountRow]
      BY <3>1, AccountWrites DEF Role
    <3>3. account' = g
      BY <1>1, <1>5
    <3>. QED
      BY <3>2, <3>3
  <2>2. /\ \A b \in Account : account'[b].version = account[b].version
        /\ \A b \in Account : b # a => account'[b] = account[b]
    BY <1>1, <1>5 DEF TypeOK, AccountRow
  <2>3. S \in SUBSET Session
    BY DEF SessionsOf
  <2>4. /\ session' \in [Session -> SessionRow] /\ link' \in [Link -> LinkRow]
        /\ \A s \in Session : session'[s] = IF s \in S THEN NoSession ELSE session[s]
        /\ \A t \in Link : link'[t] = IF link[t].session \in S THEN Gone ELSE link[t]
    BY <1>1, <1>5, <2>3, Dropping
  <2>5. \A x \in Subject : owner'[x] = IF owner[x] = a THEN "none" ELSE owner[x]
    BY <1>5 DEF Disowned
  <2>6. TypeOK'
    <3>1. owner' \in [Subject -> Account \union {"none"}]
      BY <1>1, <1>5 DEF Disowned, TypeOK
    <3>. QED
      BY <1>1, <1>2, <1>3, <2>1, <2>4, <3>1 DEF TypeOK
  <2>7. NeverYounger
    BY <1>1, <2>2 DEF NeverYounger, TypeOK, AccountRow
  <2>8. \A d \in Client : RequestOK(d)'
    BY <1>3, <2>6, <2>7, OtherRequestsKeep
  <2>9. NothingIsOrphaned'
    <3>1. ASSUME NEW x \in Subject, owner'[x] # "none" PROVE Exists(owner[x])'
      <4>1. owner[x] # a /\ owner'[x] = owner[x] /\ owner[x] \in Account
        BY <1>1, <2>5, <3>1 DEF TypeOK
      <4>. QED
        BY <2>2, <3>1, <4>1 DEF IInv, NothingIsOrphaned, Exists
    <3>2. ASSUME NEW s \in Session, session'[s] # NoSession PROVE Exists(Holder(s))'
      <4>1. session'[s] = session[s] /\ Holder(s) # a
        BY <2>4, <3>2 DEF SessionsOf
      <4>2. Holder(s) \in Account
        BY <1>1, <3>2, <4>1 DEF TypeOK, SessionRow, Holder
      <4>. QED
        BY <2>2, <3>2, <4>1, <4>2 DEF IInv, NothingIsOrphaned, Exists, Holder
    <3>3. ASSUME NEW t \in Link, link'[t].session # "none"
          PROVE  session'[link'[t].session] # NoSession
      <4>1. link'[t] = link[t] /\ link[t].session \notin S
        BY <2>4, <3>3, RowTypes
      <4>2. link[t].session \in Session
        BY <1>1, <3>3, <4>1, RowTypes DEF TypeOK, LinkRow
      <4>. QED
        BY <2>4, <3>3, <4>1, <4>2 DEF IInv, NothingIsOrphaned
    <3>. QED
      BY <3>1, <3>2, <3>3 DEF NothingIsOrphaned
  <2>10. OneIdentityPerProvider'
    BY <2>5 DEF IInv, OneIdentityPerProvider
  <2>11. VersionsAreOld'
    <3>1. ASSUME NEW s \in Session, session'[s] # NoSession
          PROVE  session'[s].version <= account'[Holder(s)'].version
      <4>1. session'[s] = session[s]
        BY <2>4, <3>1
      <4>2. Holder(s) \in Account
        BY <1>1, <3>1, <4>1 DEF TypeOK, SessionRow, Holder
      <4>. QED
        BY <2>2, <3>1, <4>1, <4>2 DEF IInv, VersionsAreOld, Holder
    <3>. QED
      BY <3>1 DEF VersionsAreOld
  <2>12. UsedLinksAreGone'
    BY <1>2, <2>4 DEF IInv, UsedLinksAreGone
  <2>. QED
    BY <2>6, <2>8, <2>9, <2>10, <2>11, <2>12 DEF IInv
<1>. QED
  BY <1>4, <1>5 DEF Delete

LEMMA RevokeStep ==
    ASSUME IInv, NEW c \in Client, Revoke(c)
    PROVE  IInv'
<1>. DEFINE S == SessionsOf(req[c].account)
<1>1. TypeOK /\ RequestOK(c) /\ req[c].account \in Account /\ S \in SUBSET Session
  BY DEF IInv, Revoke, RequestOK, SessionsOf
<1>2. "read" \in Statement \ {"consume", "resolve", "insert"}
  BY DEF Statement
<1>3. RequestOK(c)' /\ req' \in [Client -> RequestState]
      /\ \A d \in Client : d # c => req'[d] = req[d]
  BY <1>1, <1>2, GoingOn DEF Revoke
<1>4. session' \in [Session -> SessionRow] /\ link' \in [Link -> LinkRow]
  BY <1>1, Dropping DEF Revoke
<1>5. TypeOK'
  BY <1>1, <1>3, <1>4 DEF TypeOK, Revoke
<1>6. \A d \in Client : RequestOK(d)'
  BY <1>1, <1>3, <1>5, OtherRequestsKeep, SameIsNotYounger DEF Revoke
<1>. QED
  BY <1>1, <1>5, <1>6, DropStep DEF Revoke

LEMMA EndSessionStep ==
    ASSUME IInv, NEW s \in Session, EndSession(s)
    PROVE  IInv'
<1>1. TypeOK /\ {s} \in SUBSET Session
  BY DEF IInv
<1>2. session' \in [Session -> SessionRow] /\ link' \in [Link -> LinkRow]
  BY <1>1, Dropping DEF EndSession
<1>3. requests' \in 0 .. MaxRequests
  BY <1>1 DEF EndSession, Request, TypeOK
<1>4. TypeOK'
  BY <1>1, <1>2, <1>3 DEF TypeOK, EndSession
<1>5. \A d \in Client : RequestOK(d)'
  BY <1>1, <1>4, RequestsKeep, SameIsNotYounger DEF IInv, EndSession
<1>. QED
  BY <1>1, <1>4, <1>5, DropStep DEF EndSession

LEMMA InsertStep ==
    ASSUME IInv, NEW c \in Client, InsertSession(c)
    PROVE  IInv'
<1>. DEFINE a == req[c].account
<1>1. /\ TypeOK /\ RequestOK(c) /\ a \in Account /\ req[c] \in RequestState
      /\ req[c].version <= account[a].version
  BY DEF IInv, InsertSession, RequestOK, TypeOK
<1>2. UNCHANGED <<account, owner, link, marker, requests, uses>> /\ Answer(c)
  BY DEF InsertSession
<1>3. RequestOK(c)' /\ req' \in [Client -> RequestState]
      /\ \A d \in Client : d # c => req'[d] = req[d]
  BY <1>2, Answered
<1>4. CASE UNCHANGED session
  <2>1. TypeOK'
    BY <1>1, <1>2, <1>3, <1>4 DEF TypeOK
  <2>2. \A d \in Client : RequestOK(d)'
    BY <1>1, <1>2, <1>3, <2>1, OtherRequestsKeep, SameIsNotYounger
  <2>. QED
    BY <1>2, <1>4, <2>1, <2>2, QuietStep
<1>5. ASSUME NEW s \in Session, Exists(a), session[s] = NoSession,
             session' = [session EXCEPT ![s] = NewSession(c)]
      PROVE  IInv'
  <2>1. /\ NewSession(c) \in SessionRow
        /\ NewSession(c).account = a /\ NewSession(c).version = req[c].version
    BY <1>1 DEF NewSession, SessionRow, RequestState
  <2>2. /\ session' \in [Session -> SessionRow] /\ session'[s] = NewSession(c)
        /\ \A u \in Session : u # s => session'[u] = session[u]
    BY <1>1, <1>5, <2>1 DEF TypeOK
  <2>3. TypeOK'
    BY <1>1, <1>2, <1>3, <2>2 DEF TypeOK
  <2>4. \A d \in Client : RequestOK(d)'
    BY <1>1, <1>2, <1>3, <2>3, OtherRequestsKeep, SameIsNotYounger
  <2>5. NewSession(c) # NoSession
    BY <1>1, <2>1 DEF NoSession
  <2>6. NothingIsOrphaned'
    <3>1. \A u \in Session : session'[u] # NoSession => Exists(Holder(u))'
      BY <1>1, <1>2, <1>5, <2>1, <2>2 DEF IInv, NothingIsOrphaned, Exists, Holder
    <3>2. ASSUME NEW t \in Link, link'[t].session # "none"
          PROVE  session'[link'[t].session] # NoSession
      <4>1. link[t].session \in Session /\ session[link[t].session] # NoSession
        BY <1>1, <1>2, <3>2, RowTypes DEF TypeOK, LinkRow, IInv, NothingIsOrphaned
      <4>. QED
        BY <1>2, <1>5, <2>2, <4>1
    <3>. QED
      BY <1>2, <3>1, <3>2 DEF IInv, NothingIsOrphaned, Exists
  <2>7. VersionsAreOld'
    BY <1>1, <1>2, <2>1, <2>2 DEF IInv, VersionsAreOld, Holder
  <2>. QED
    BY <1>2, <2>3, <2>4, <2>6, <2>7 DEF IInv, OneIdentityPerProvider, UsedLinksAreGone
<1>. QED
  BY <1>4, <1>5 DEF InsertSession

LEMMA LinkSteps ==
    ASSUME IInv, NEW t \in Link, IssueLink(t) \/ EndLink(t)
    PROVE  IInv'
<1>1. TypeOK
  BY DEF IInv
<1>2. requests' \in 0 .. MaxRequests
  BY <1>1 DEF IssueLink, EndLink, Request, TypeOK
<1>3. UNCHANGED <<account, owner, session, marker, req, uses>>
  BY DEF IssueLink, EndLink
<1>4. uses[t] <= 1 /\ (uses[t] = 1 => link[t] = Gone)
  BY DEF IInv, UsedLinksAreGone
<1>5. \A d \in Client : link' \in [Link -> LinkRow] => RequestOK(d)'
  <2>1. link' \in [Link -> LinkRow] => TypeOK'
    BY <1>1, <1>2, <1>3 DEF TypeOK
  <2>. QED
    BY <1>1, <1>3, <2>1, RequestsKeep, SameIsNotYounger DEF IInv
<1>6. CASE IssueLink(t)
  <2>1. PICK x \in Email, s \in Session \union {"none"} :
          /\ s # "none" => Authenticates(s)
          /\ link' = [link EXCEPT ![t] = [state |-> "open", subject |-> x, session |-> s]]
    BY <1>6 DEF IssueLink
  <2>2. link[t] = NoLink
    BY <1>6 DEF IssueLink
  <2>3. [state |-> "open", subject |-> x, session |-> s] \in LinkRow
    BY DEF LinkRow
  <2>4. link' \in [Link -> LinkRow] /\ link'[t].session = s
        /\ \A u \in Link : u # t => link'[u] = link[u]
    BY <1>1, <2>1, <2>3 DEF TypeOK
  <2>5. uses[t] # 1
    BY <1>4, <2>2, RowTypes
  <2>6. s # "none" => session[s] # NoSession
    BY <2>1 DEF Authenticates
  <2>7. TypeOK'
    BY <1>1, <1>2, <1>3, <2>4 DEF TypeOK
  <2>. QED
    BY <1>3, <1>4, <1>5, <2>4, <2>5, <2>6, <2>7, LinkStep
<1>7. CASE EndLink(t)
  <2>1. link' = [link EXCEPT ![t] = Gone]
    BY <1>7 DEF EndLink
  <2>2. link' \in [Link -> LinkRow] /\ link'[t] = Gone
        /\ \A u \in Link : u # t => link'[u] = link[u]
    BY <1>1, <2>1, RowTypes DEF TypeOK
  <2>3. TypeOK'
    BY <1>1, <1>2, <1>3, <2>2 DEF TypeOK
  <2>. QED
    BY <1>3, <1>4, <1>5, <2>2, <2>3, RowTypes, LinkStep
<1>. QED
  BY <1>6, <1>7

-----------------------------------------------------------------------------
(* The invariant.                                                          *)

LEMMA InitIInv == Init => IInv
<1>. SUFFICES ASSUME Init PROVE IInv
  OBVIOUS
<1>1. account \in [Account -> AccountRow] /\ \A a \in Account : account[a].version = 1
  <2>1. Fresh \in AccountRow /\ Fresh.version = 1
    BY RowTypes DEF Fresh
  <2>2. \A r \in [status : {"active", "suspended"}, role : Role, version : {1}] :
           r \in AccountRow /\ r.version = 1
    BY DEF AccountRow
  <2>3. account \in [Account -> {Fresh} \union
                       [status : {"active", "suspended"}, role : Role, version : {1}]]
    BY DEF Init
  <2>. QED
    BY <2>1, <2>2, <2>3
<1>2. \A a : Linked(a) \in SUBSET Provider
  BY DEF Linked, Provider, ProviderOf
<1>3. \A s \in Session :
         /\ session[s] \in SessionRow
         /\ session[s] # NoSession => Holder(s) \in Account /\ session[s].version = 1
  <2>1. TAKE s \in Session
  <2>2. CASE session[s] = NoSession
    BY <2>2 DEF SessionRow
  <2>3. ASSUME NEW a \in Account,
               session[s] = [account |-> a, version |-> 1, confirmed |-> Linked(a)]
        PROVE  session[s] \in SessionRow /\ Holder(s) \in Account /\ session[s].version = 1
    BY <1>2, <2>3 DEF SessionRow, Holder
  <2>4. session[s] = NoSession \/ \E a \in Account :
           session[s] = [account |-> a, version |-> 1, confirmed |-> Linked(a)]
    BY DEF Init
  <2>. QED
    BY <2>2, <2>3, <2>4
<1>4. session \in [Session -> SessionRow]
  BY <1>3 DEF Init
<1>5. \A t \in Link : link[t] = NoLink /\ uses[t] = 0
  BY DEF Init
<1>6. TypeOK
  BY <1>1, <1>4, RowTypes DEF Init, TypeOK
<1>7. NothingIsOrphaned
  <2>1. \A x \in Subject : owner[x] # "none" => owner[x] \in Account /\ x \in Identities(owner[x])
    BY <1>6 DEF TypeOK, Identities
  <2>2. \A a \in Account : Identities(a) # {} => Exists(a)
    BY DEF Init
  <2>3. \A s \in Session : session[s] # NoSession => Exists(Holder(s))
    BY DEF Init, Active, Exists
  <2>. QED
    BY <1>5, <2>1, <2>2, <2>3, RowTypes DEF NothingIsOrphaned
<1>8. OneIdentityPerProvider
  <2>1. \A a \in Account : \A x, y \in Identities(a) : ProviderOf(x) = ProviderOf(y) => x = y
    BY DEF Init
  <2>. QED
    BY <1>6, <2>1 DEF OneIdentityPerProvider, Identities, TypeOK
<1>9. VersionsAreOld
  BY <1>1, <1>3 DEF VersionsAreOld
<1>10. UsedLinksAreGone
  BY <1>5 DEF UsedLinksAreGone
<1>11. \A c \in Client : RequestOK(c)
  BY RowTypes DEF Init, RequestOK
<1>. QED
  BY <1>6, <1>7, <1>8, <1>9, <1>10, <1>11 DEF IInv

LEMMA ServeStep ==
    ASSUME IInv, NEW c \in Client, Serve(c)
    PROVE  IInv'
<1>1. CASE DiscordCallback(c) \/ BeginUnlink(c) \/ BeginChange(c) \/ BeginDelete(c)
           \/ \E t \in Link : OpenLink(c, t)
  BY <1>1, BeginSteps
<1>2. CASE Resolve(c) \/ Mark(c) \/ ListIdentities(c) \/ ReadAccount(c) \/ Inspect(c) \/ Crash(c)
  BY <1>2, QuietSteps
<1>3. CASE Consume(c) \/ Create(c) \/ Attach(c) \/ Detach(c) \/ Claim(c)
  BY <1>3, ConsumeStep, CreateStep, AttachStep, DetachStep, ClaimStep
<1>4. CASE Change(c) \/ Delete(c) \/ Revoke(c) \/ InsertSession(c)
  BY <1>4, ChangeStep, DeleteStep, RevokeStep, InsertStep
<1>. QED
  BY <1>1, <1>2, <1>3, <1>4 DEF Serve

LEMMA NextIInv == IInv /\ [Next]_vars => IInv'
<1>. SUFFICES ASSUME IInv, [Next]_vars PROVE IInv'
  OBVIOUS
<1>1. ASSUME NEW c \in Client, Serve(c) PROVE IInv'
  BY <1>1, ServeStep
<1>2. ASSUME NEW t \in Link, IssueLink(t) \/ EndLink(t) PROVE IInv'
  BY <1>2, LinkSteps
<1>3. ASSUME NEW s \in Session, EndSession(s) PROVE IInv'
  BY <1>3, EndSessionStep
<1>4. ASSUME NEW a \in Account, AcceptApplication(a) PROVE IInv'
  BY <1>4, AcceptStep
<1>5. CASE UNCHANGED vars
  BY <1>5 DEF vars, IInv, TypeOK, NothingIsOrphaned, OneIdentityPerProvider, VersionsAreOld,
     UsedLinksAreGone, RequestOK, Exists, Holder
<1>. QED
  BY <1>1, <1>2, <1>3, <1>4, <1>5 DEF Next

LEMMA Invariance == Spec => []IInv
BY InitIInv, NextIInv, PTL DEF Spec

-----------------------------------------------------------------------------
(* Steps of accounts.                                                      *)

\* What a step can do to an account: nothing, a new version, its first sign-in, or
\* its deletion.
AccountMove(a) ==
    \/ account'[a] = account[a]
    \/ account'[a].version = account[a].version + 1
    \/ ~Exists(a)
    \/ account'[a].status = "deleted"

\* No step takes the last active administrator.
AdminStays == SomeAdmin => SomeAdmin'

LEMMA AccountMoves ==
    ASSUME IInv, Next
    PROVE  AdminStays /\ \A a \in Account : AccountMove(a)
<1>1. TypeOK
  BY DEF IInv
<1>2. CASE UNCHANGED account
  BY <1>2 DEF AdminStays, SomeAdmin, ActiveAdmin, Active, AccountMove
<1>3. ASSUME NEW c \in Client, Create(c), ~UNCHANGED account
      PROVE  AdminStays /\ \A a \in Account : AccountMove(a)
  <2>1. PICK a \in Account :
          account[a].status = "absent" /\ account' = [account EXCEPT ![a].status = "active"]
    BY <1>3 DEF Create
  <2>2. \A b \in Account : b # a => account'[b] = account[b]
    BY <1>1, <2>1 DEF TypeOK
  <2>. QED
    BY <2>1, <2>2 DEF AdminStays, SomeAdmin, ActiveAdmin, Active, AccountMove, Exists
<1>4. ASSUME NEW c \in Client, Claim(c), ~UNCHANGED account
      PROVE  AdminStays /\ \A a \in Account : AccountMove(a)
  <2>. DEFINE a == req[c].account
  <2>1. a \in Account /\ Bootstraps(a)
    BY <1>4 DEF IInv, RequestOK, Claim
  <2>2. Raises(a) /\ account'[a].status = "active" /\ account'[a].role = "admin"
    BY <1>1, <1>4, <2>1, Claiming DEF Claim, Bootstraps
  <2>. QED
    BY <2>1, <2>2 DEF Raises, AdminStays, SomeAdmin, ActiveAdmin, Active, AccountMove
<1>5. ASSUME NEW c \in Client, Change(c), ~UNCHANGED account
      PROVE  AdminStays /\ \A a \in Account : AccountMove(a)
  <2>. DEFINE a == req[c].account
              role == req[c].role
              status == req[c].status
  <2>1. a \in Account /\ role \in Role /\ status \in {"active", "suspended"}
    BY <1>1, <1>5 DEF IInv, RequestOK, Change, TypeOK, RequestState
  <2>2. /\ account' = Changed(a, role, status)
        /\ ActiveAdmin(a) /\ ~(role = "admin" /\ status = "active") => AnotherAdmin(a)
    BY <1>5 DEF Change
  <2>3. Raises(a) /\ account'[a].status = status /\ account'[a].role = role
    BY <1>1, <2>1, <2>2, Changing
  <2>4. AdminStays
    <3>1. SUFFICES ASSUME NEW b \in Account, ActiveAdmin(b) PROVE SomeAdmin'
      BY DEF AdminStays, SomeAdmin
    <3>2. CASE b # a
      BY <2>3, <3>1, <3>2 DEF Raises, SomeAdmin, ActiveAdmin, Active
    <3>3. CASE b = a /\ role = "admin" /\ status = "active"
      BY <2>1, <2>3, <3>3 DEF SomeAdmin, ActiveAdmin, Active
    <3>4. CASE b = a /\ AnotherAdmin(a)
      BY <2>3, <3>4 DEF Raises, AnotherAdmin, SomeAdmin, ActiveAdmin, Active
    <3>. QED
      BY <2>2, <3>1, <3>2, <3>3, <3>4
  <2>. QED
    BY <2>3, <2>4 DEF Raises, AccountMove
<1>6. ASSUME NEW c \in Client, Delete(c), ~UNCHANGED account
      PROVE  AdminStays /\ \A a \in Account : AccountMove(a)
  <2>. DEFINE a == req[c].account
  <2>1. a \in Account
    BY <1>6 DEF IInv, RequestOK, Delete
  <2>2. /\ account' = [account EXCEPT ![a].status = "deleted", ![a].role = "member"]
        /\ ActiveAdmin(a) => AnotherAdmin(a)
    BY <1>6 DEF Delete
  <2>3. account'[a].status = "deleted" /\ \A b \in Account : b # a => account'[b] = account[b]
    BY <1>1, <2>1, <2>2 DEF TypeOK, AccountRow
  <2>. QED
    BY <2>2, <2>3 DEF AdminStays, AnotherAdmin, SomeAdmin, ActiveAdmin, Active, AccountMove
<1>7. ASSUME NEW a \in Account, AcceptApplication(a)
      PROVE  AdminStays /\ \A b \in Account : AccountMove(b)
  <2>1. "moderator" \in Role /\ account[a].role = "member"
        /\ account' = Changed(a, "moderator", "active")
    BY <1>7 DEF AcceptApplication, Role
  <2>2. Raises(a)
    BY <1>1, <2>1, Changing
  <2>. QED
    BY <2>1, <2>2 DEF Raises, AdminStays, SomeAdmin, ActiveAdmin, Active, AccountMove
<1>8. \/ UNCHANGED account
      \/ \E c \in Client : Create(c) \/ Claim(c) \/ Change(c) \/ Delete(c)
      \/ \E a \in Account : AcceptApplication(a)
  <2>1. ASSUME NEW c \in Client, Serve(c)
        PROVE  UNCHANGED account \/ Create(c) \/ Claim(c) \/ Change(c) \/ Delete(c)
    BY <2>1 DEF Serve, DiscordCallback, Consume, Resolve, Attach, Mark, BeginUnlink,
       ListIdentities, Detach, Revoke, ReadAccount, InsertSession, BeginChange, Inspect,
       BeginDelete, Crash, OpenLink
  <2>. QED
    BY <2>1 DEF Next, IssueLink, EndLink, EndSession
<1>. QED
  BY <1>2, <1>3, <1>4, <1>5, <1>6, <1>7, <1>8

\* A session ends or stays, or its place is taken by a new one.
LEMMA SessionMoves ==
    ASSUME IInv, Next, NEW s \in Session
    PROVE  session'[s] \in {session[s], NoSession} \/ session[s] = NoSession
<1>1. TypeOK
  BY DEF IInv
<1>2. ASSUME NEW S \in SUBSET Session, DropSessions(S)
      PROVE  session'[s] \in {session[s], NoSession}
  BY <1>1, <1>2, Dropping
<1>3. CASE UNCHANGED session
  BY <1>3
<1>4. ASSUME NEW c \in Client, Revoke(c) \/ Delete(c) PROVE session'[s] \in {session[s], NoSession}
  BY <1>2, <1>4 DEF Revoke, Delete, SessionsOf
<1>5. ASSUME NEW u \in Session, EndSession(u) PROVE session'[s] \in {session[s], NoSession}
  <2>1. {u} \in SUBSET Session /\ DropSessions({u})
    BY <1>5 DEF EndSession
  <2>. QED
    BY <1>2, <2>1
<1>6. ASSUME NEW c \in Client, InsertSession(c)
      PROVE  session'[s] = session[s] \/ session[s] = NoSession
  BY <1>1, <1>6 DEF InsertSession, TypeOK
<1>7. \/ UNCHANGED session
      \/ \E c \in Client : Revoke(c) \/ Delete(c) \/ InsertSession(c)
      \/ \E u \in Session : EndSession(u)
  <2>1. ASSUME NEW c \in Client, Serve(c)
        PROVE  UNCHANGED session \/ Revoke(c) \/ Delete(c) \/ InsertSession(c)
    BY <2>1 DEF Serve, DiscordCallback, Consume, Resolve, Create, Attach, Claim, Mark,
       BeginUnlink, ListIdentities, Detach, ReadAccount, BeginChange, Inspect, Change,
       BeginDelete, Crash, OpenLink
  <2>. QED
    BY <2>1 DEF Next, IssueLink, EndLink, AcceptApplication
<1>. QED
  BY <1>3, <1>4, <1>5, <1>6, <1>7

LEMMA RevokedStays ==
    ASSUME IInv, [Next]_vars, NEW s \in Session, Revoked(s)
    PROVE  ~Authenticates(s)'
<1>1. CASE UNCHANGED vars
  BY <1>1 DEF vars, Revoked, Authenticates, Holder, Active
<1>2. CASE Next
  <2>1. session[s] # NoSession /\ session'[s] \in {session[s], NoSession}
    BY <1>2, SessionMoves DEF Revoked
  <2>2. CASE session'[s] = NoSession
    BY <2>2 DEF Authenticates
  <2>3. CASE session'[s] = session[s]
    <3>. DEFINE a == Holder(s)
    <3>1. /\ a \in Account /\ Holder(s)' = a /\ Exists(a)
          /\ session[s].version <= account[a].version
          /\ session[s].version \in Nat
          /\ account[a].version \in Nat /\ account'[a].version \in Nat
      <4>1. TypeOK /\ TypeOK'
        BY <1>2, NextIInv DEF IInv
      <4>. QED
        BY <2>1, <2>3, <4>1 DEF IInv, TypeOK, SessionRow, AccountRow, Holder, NothingIsOrphaned,
           VersionsAreOld
    <3>2. AccountMove(a)
      BY <1>2, <3>1, AccountMoves
    <3>3. CASE account'[a] = account[a]
      BY <2>1, <2>3, <3>1, <3>3 DEF Revoked, Authenticates, Active
    <3>4. CASE account'[a].version = account[a].version + 1
      BY <2>3, <3>1, <3>4 DEF Authenticates
    <3>5. CASE account'[a].status = "deleted"
      BY <3>1, <3>5 DEF Authenticates, Active
    <3>. QED
      BY <3>1, <3>2, <3>3, <3>4, <3>5 DEF AccountMove
  <2>. QED
    BY <2>1, <2>2, <2>3
<1>. QED
  BY <1>1, <1>2

-----------------------------------------------------------------------------
(* Results.                                                                *)

\* Tables and requests keep their shape, for any number of them.
THEOREM TypeCorrect == Spec => []TypeOK
<1>1. IInv => TypeOK
  BY DEF IInv
<1>. QED
  BY <1>1, Invariance, PTL

\* Whatever request is between two statements when an account or a session goes,
\* no identity, session or open link is left without what it belongs to.
THEOREM NothingGetsOrphaned == Spec => []NothingIsOrphaned
<1>1. IInv => NothingIsOrphaned
  BY DEF IInv
<1>. QED
  BY <1>1, Invariance, PTL

\* An account never gets two identities of one provider, however many requests
\* link at once.
THEOREM ProvidersAreUnique == Spec => []OneIdentityPerProvider
<1>1. IInv => OneIdentityPerProvider
  BY DEF IInv
<1>. QED
  BY <1>1, Invariance, PTL

\* An email link lets one request through at most.
THEOREM LinksWorkOnce == Spec => []LinksAreUsedOnce
<1>1. IInv => LinksAreUsedOnce
  BY DEF IInv, UsedLinksAreGone, LinksAreUsedOnce
<1>. QED
  BY <1>1, Invariance, PTL

\* No step takes the last active administrator, whatever administrators do at once.
THEOREM AnAdminRemains == Spec => AdminRemains
<1>1. IInv /\ [Next]_vars => [SomeAdmin => SomeAdmin']_vars
  BY AccountMoves DEF AdminStays
<1>. QED
  BY <1>1, Invariance, PTL DEF Spec, AdminRemains

\* A session once refused is refused for ever.
THEOREM RevocationIsFinal == Spec => RevokedStaysRevoked
<1>1. IInv /\ [Next]_vars => [\A s \in Session : Revoked(s) => ~Authenticates(s)']_vars
  BY RevokedStays
<1>. QED
  BY <1>1, Invariance, PTL DEF Spec, RevokedStaysRevoked
=============================================================================
