--------------------------- MODULE Sessions_proofs ---------------------------
(***************************************************************************)
(* What Access promises of sessions, passwords, links and rights, for any  *)
(* number of accounts, tokens, links and calls, when requests are served   *)
(* one after the other (OneByOne) and time passes between their steps.     *)
(* What crossing requests do to it is in find_sessions.cfg, find_gate.cfg. *)
(***************************************************************************)
EXTENDS Access_proofs, FiniteSetTheorems

OneByOne == MaxInFlight <= 1

(***************************************************************************)
(* The inductive invariant                                                 *)
(***************************************************************************)
\* Fewer than two requests at work.
Serial == \A p, q \in Requests : ~ At(p, "idle") /\ ~ At(q, "idle") => p = q

\* The row of an account agrees with the ledger of its wrong passwords, is as it
\* was made while the account does not exist, and on line only at work.
PersonOK(row, failed, role) ==
  /\ row.failures = failed
  /\ row.locked => failed >= MaxAttempts
  /\ row.status = "ABSENT" => row.password = 1 /\ row.failures = 0
  /\ row.online => row.status = "ACTIVE" /\ role = "DRIVER"

Persons == \A a \in Accounts : PersonOK(user[a], wrong[a], RoleOf[a])

LinkGood(l) ==
  /\ opened[l] <= 1
  /\ link[l].state # "used" => opened[l] = 0
  /\ link[l].state = "unused" => exists(link[l].account)

Rivals(k, l) ==
  /\ link[k].state = "unused" /\ link[l].state = "unused"
  /\ link[k].account = link[l].account /\ link[k].purpose = link[l].purpose

LinksGood ==
  /\ \A l \in Links : LinkGood(l)
  /\ \A k, l \in Links : Rivals(k, l) => k = l

\* A family is the number of a token that was issued.
Families ==
  \A t \in Tokens :
    /\ session[t].state # "none" =>
         session[t].family \in Tokens /\ session[session[t].family].state # "none"
    /\ session[t].expired => session[t].state # "none"

\* Two tokens of a family that can both be renewed: one is being renewed.
Twins(t, u) == live(t) /\ live(u) /\ session[t].family = session[u].family /\ t # u

renewing(t) == \E r \in Requests : At(r, "consume") /\ requests[r].token = t

LiveOnce == \A t, u \in Tokens : Twins(t, u) => renewing(t) \/ renewing(u)

\* A session its account may keep; the others are about to be closed.
Worthy(row, password) ==
  row.status = "ACTIVE" /\ (password = row.password \/ row.activated = row.password)

Closers == {"revokeAll", "removeRevoke"}

closing(a) == \E r \in Requests : requests[r].next \in Closers /\ requests[r].account = a

WorthySessions ==
  \A t \in Tokens : live(t) =>
    Worthy(user[session[t].account], session[t].password) \/ closing(session[t].account)

\* What a request read at an earlier step is still so.
HeldRow(q) ==
  q.next \in {"registerTx", "compare"} =>
    /\ q.seen.password = user[q.account].password
    /\ q.seen.failures = user[q.account].failures
    /\ q.seen.status = user[q.account].status

HeldPassword(q) ==
  q.next \in {"issue", "issueActivated"} =>
    q.seen.password = user[q.account].password /\ user[q.account].status = "ACTIVE"

HeldToken(q) ==
  q.next = "rotate" =>
    /\ session[q.token].state # "none"
    /\ Worthy(user[q.account], session[q.token].password)
    /\ \A u \in Tokens :
         live(u) /\ session[u].family = session[q.token].family => u = q.token

purposeOf(step) == IF step = "resetTx" THEN "RESET" ELSE "ACTIVATION"

Existing == {"compare", "markLogin", "offline", "changeTx", "resetTx", "activateTx"}

HeldLink(q) ==
  /\ q.next \in Existing => exists(q.account)
  /\ q.next \in LinkSteps =>
       /\ link[q.link].state = "unused" /\ link[q.link].account = q.account
       /\ link[q.link].purpose = purposeOf(q.next)

Held(q) == HeldRow(q) /\ HeldPassword(q) /\ HeldToken(q) /\ HeldLink(q)

SInv ==
  /\ Serial /\ Persons /\ LinksGood /\ Families /\ LiveOnce /\ WorthySessions
  /\ \A r \in Requests : Held(requests[r])

(***************************************************************************)
(* One request at a time                                                   *)
(***************************************************************************)
\* Every other request has ended.
Lone(r) == \A p \in Requests : p # r => At(p, "idle")

LEMMA NobodyElse ==
  ASSUME OneByOne, Serial, Cardinality(InFlight) < MaxInFlight
  PROVE  quiet
<1> SUFFICES ASSUME NEW p \in Requests, ~ At(p, "idle") PROVE FALSE
  BY DEF quiet, InFlight
<1>1. InFlight = {p}
  BY DEF InFlight, Serial
<1>2. Cardinality(InFlight) = 1
  BY <1>1, FS_Singleton
<1> QED
  BY <1>2, DirectoryAssumption DEF OneByOne

\* A request that arrives finds the others ended; one at work is alone.
LEMMA Arrives ==
  ASSUME OneByOne, Serial, NEW r \in Requests, NEW op, NEW row, Begin(r, op, row)
  PROVE  quiet /\ Lone(r) /\ Becomes(r, row)
<1>1. quiet
  BY NobodyElse DEF Begin
<1> QED
  BY <1>1 DEF quiet, InFlight, Lone, Begin, Becomes

LEMMA Works ==
  ASSUME Serial, NEW r \in Requests, ~ At(r, "idle")
  PROVE  Lone(r)
  BY DEF Serial, Lone

LEMMA IdleHolds == ASSUME NEW q, q.next = "idle" PROVE Held(q)
  BY DEF Held, HeldRow, HeldPassword, HeldToken, HeldLink, LinkSteps, Existing

LEMMA StepFrom ==
  ASSUME RequestsOK, NEW r \in Requests, NEW row, Becomes(r, row), Lone(r)
  PROVE  /\ requests'[r] = row /\ \A p \in Requests : p # r => requests'[p].next = "idle"
         /\ Serial'
  BY DEF RequestsOK, Becomes, Lone, Serial, At

LEMMA HeldAfter ==
  ASSUME RequestsOK, NEW r \in Requests, NEW row, Becomes(r, row), Lone(r), Held(row)'
  PROVE  Serial' /\ \A p \in Requests : Held(requests[p])'
<1>1. Serial' /\ requests'[r] = row
  BY StepFrom
<1>2. ASSUME NEW p \in Requests, p # r PROVE Held(requests[p])'
  <2>1. requests'[p].next = "idle"
    BY <1>2, StepFrom
  <2> QED
    BY <2>1 DEF Held, HeldRow, HeldPassword, HeldToken, HeldLink, LinkSteps, Existing
<1> QED
  BY <1>1, <1>2

(***************************************************************************)
(* When nobody renews a session or closes some                             *)
(***************************************************************************)
OneLive == \A t, u \in Tokens : ~ Twins(t, u)

AllWorthy ==
  \A t \in Tokens : live(t) => Worthy(user[session[t].account], session[t].password)

LEMMA Calm ==
  ASSUME LiveOnce, WorthySessions, NEW r \in Requests, Lone(r),
         requests[r].next \notin Closers \union {"consume"}
  PROVE  OneLive /\ AllWorthy
<1>1. \A p \in Requests : requests[p].next \notin Closers \union {"consume"}
  BY DEF Lone, At, Closers
<1> QED
  BY <1>1 DEF OneLive, AllWorthy, LiveOnce, WorthySessions, renewing, closing, At

LEMMA AtRest ==
  ASSUME SInv, quiet
  PROVE  OneLive /\ AllWorthy
<1>1. \A p \in Requests : requests[p].next = "idle"
  BY DEF quiet, InFlight, At
<1> QED
  BY <1>1 DEF SInv, OneLive, AllWorthy, LiveOnce, WorthySessions, renewing, closing, Closers, At

LEMMA CalmAfter ==
  ASSUME IInv, NEW r \in Requests, NEW row, Becomes(r, row), Lone(r), Held(row)',
         Persons', LinksGood', Families', OneLive', AllWorthy'
  PROVE  SInv'
<1>1. LiveOnce' /\ WorthySessions'
  BY DEF OneLive, AllWorthy, LiveOnce, WorthySessions
<1> QED
  BY <1>1, HeldAfter DEF IInv, SInv

(***************************************************************************)
(* Tables that stay                                                        *)
(***************************************************************************)
LEMMA PersonsKept ==
  ASSUME Persons, UNCHANGED <<user, wrong>>
  PROVE  Persons'
  BY DEF Persons, PersonOK

LEMMA LinksKept ==
  ASSUME LinksGood, UNCHANGED <<user, link, opened>>
  PROVE  LinksGood'
  BY DEF LinksGood, LinkGood, Rivals, exists

LEMMA SessionsKept ==
  ASSUME UNCHANGED session
  PROVE  /\ Families => Families'
         /\ OneLive => OneLive'
         /\ AllWorthy /\ UNCHANGED user => AllWorthy'
  BY DEF Families, OneLive, Twins, AllWorthy, Worthy, live

LEMMA HeldKept ==
  ASSUME NEW q, Held(q), UNCHANGED <<user, session, link>>
  PROVE  Held(q)'
  BY DEF Held, HeldRow, HeldPassword, HeldToken, HeldLink, LinkSteps, Existing, purposeOf, Worthy, exists,
         live

(***************************************************************************)
(* Sessions that are issued, and sessions that end                         *)
(***************************************************************************)
\* Sessions end, and are otherwise what they were.
Ends ==
  \A t \in Tokens :
    /\ session'[t].account = session[t].account /\ session'[t].family = session[t].family
    /\ session'[t].password = session[t].password
    /\ session'[t].state # session[t].state =>
         /\ session[t].state # "none"
         /\ \/ session'[t].state = "purged"
            \/ session'[t].state = "revoked" /\ session[t].state = "live"
    /\ session'[t].expired => session[t].state # "none"

LEMMA RevokeEnds ==
  ASSUME IInv, Families, NEW tokens, Revoke(tokens)
  PROVE  Ends /\ \A t \in Tokens : t \in tokens => ~ live(t)'
<1>1. \A t \in Tokens : session[t] \in SessionRows
  BY DEF IInv, PeopleOK
<1>2. \A t \in Tokens : session'[t] = IF t \in tokens /\ live(t)
                           THEN [session[t] EXCEPT !.state = "revoked"] ELSE session[t]
  BY DEF Revoke
<1>3. ASSUME NEW t \in Tokens, t \in tokens PROVE ~ live(t)'
  BY <1>1, <1>2, <1>3 DEF SessionRows, live
<1>4. Ends
  BY <1>1, <1>2 DEF Ends, Families, SessionRows, live
<1> QED
  BY <1>3, <1>4

LEMMA EndsKeep ==
  ASSUME Families, Ends
  PROVE  /\ Families'
         /\ \A t \in Tokens : live(t)' => live(t)
         /\ OneLive => OneLive'
         /\ AllWorthy /\ UNCHANGED user => AllWorthy'
<1>1. \A t \in Tokens : live(t)' => live(t)
  BY DEF Ends, live
<1>2. Families'
  BY DEF Ends, Families
<1> QED
  BY <1>1, <1>2 DEF Ends, OneLive, Twins, AllWorthy, Worthy

LEMMA EndsOnce ==
  ASSUME Families, Ends, LiveOnce, WorthySessions, UNCHANGED <<user, requests>>
  PROVE  LiveOnce' /\ WorthySessions'
<1>1. \A t \in Tokens : live(t)' => live(t)
  BY EndsKeep
<1> QED
  BY <1>1 DEF Ends, LiveOnce, WorthySessions, Twins, renewing, closing, Worthy, At

LEMMA Issued ==
  ASSUME IInv, Families, NEW a, NEW family, NEW password, IssueRow(a, family, password)
  PROVE  \E t \in Tokens :
           /\ session[t].state = "none"
           /\ session' = [session EXCEPT ![t] =
                [state |-> "live", expired |-> FALSE, account |-> a, password |-> password,
                 family |-> IF family = 0 THEN t ELSE family]]
           /\ \A u \in Tokens : u # t => session'[u] = session[u]
           /\ session'[t].family = IF family = 0 THEN t ELSE family
           /\ session'[t].state = "live" /\ session'[t].account = a
           /\ session'[t].password = password /\ ~ session'[t].expired
<1>1. PICK t \in Tokens :
        /\ session[t].state = "none"
        /\ session' = [session EXCEPT ![t] =
             [state |-> "live", expired |-> FALSE, account |-> a, password |-> password,
              family |-> IF family = 0 THEN t ELSE family]]
  BY DEF IssueRow
<1> QED
  BY <1>1 DEF IInv, PeopleOK

\* A session in a family of its own.
LEMMA NewFamily ==
  ASSUME IInv, Families, OneLive, AllWorthy, UNCHANGED user,
         NEW a \in Accounts, NEW password, Worthy(user[a], password),
         IssueRow(a, 0, password)
  PROVE  Families' /\ OneLive' /\ AllWorthy'
<1>1. PICK t \in Tokens :
        /\ session[t].state = "none"
        /\ \A u \in Tokens : u # t => session'[u] = session[u]
        /\ session'[t].family = t
        /\ session'[t].state = "live" /\ session'[t].account = a
        /\ session'[t].password = password /\ ~ session'[t].expired
  BY Issued
<1>2. Families'
  BY <1>1 DEF Families
<1>3. ASSUME NEW u \in Tokens, live(u) PROVE u # t /\ session[u].family # t
  BY <1>1, <1>3 DEF Families, live
<1>4. OneLive'
  BY <1>1, <1>3 DEF OneLive, Twins, live
<1>5. AllWorthy'
  BY <1>1 DEF AllWorthy, Worthy, live
<1> QED
  BY <1>2, <1>4, <1>5

(***************************************************************************)
(* Requests that arrive and only read                                      *)
(***************************************************************************)
Watched == {"registerTx", "compare", "issue", "issueActivated", "rotate"}
             \union LinkSteps \union Existing

LEMMA UnwatchedHolds == ASSUME NEW q, q.next \notin Watched PROVE Held(q)
  BY DEF Held, HeldRow, HeldPassword, HeldToken, HeldLink, LinkSteps, Existing, Watched

LEMMA ReadsAtRest ==
  ASSUME OneByOne, IInv, SInv, NEW r \in Requests, NEW op, NEW row, Begin(r, op, row),
         UNCHANGED tables, Held(row)
  PROVE  SInv'
<1>1. quiet /\ Lone(r) /\ Becomes(r, row)
  BY Arrives DEF SInv
<1>2. OneLive /\ AllWorthy
  BY <1>1, AtRest
<1>3. Held(row)' /\ Persons' /\ LinksGood' /\ Families' /\ OneLive' /\ AllWorthy'
  BY <1>2, HeldKept, PersonsKept, LinksKept, SessionsKept DEF SInv, tables
<1> QED
  BY <1>1, <1>3, CalmAfter

LEMMA SignsIn ==
  ASSUME OneByOne, IInv, SInv, NEW r \in Requests, NEW a \in Accounts,
         Register(r, a) \/ Login(r, a) \/ ChangePassword(r, a)
  PROVE  SInv'
<1>1. ASSUME NEW step \in {"registerTx", "compare"}, step = "compare" => exists(a)
      PROVE  Held(On(step, a))
  <2>1. On(step, a).next = step /\ On(step, a).account = a /\ On(step, a).seen = user[a]
    BY OnFields
  <2> QED
    BY <1>1, <2>1 DEF Held, HeldRow, HeldPassword, HeldToken, HeldLink, LinkSteps, Existing
<1>2. ChangePassword(r, a) => Held(On("changeTx", a))
  <2>1. On("changeTx", a).next = "changeTx" /\ On("changeTx", a).account = a
    BY OnFields
  <2> QED
    BY <2>1 DEF ChangePassword, signedIn, present, Held, HeldRow, HeldPassword, HeldToken,
                HeldLink, LinkSteps, Existing
<1> QED
  BY <1>1, <1>2, ReadsAtRest DEF Register, Login, ChangePassword, present

\* A token that is shown, and is good, is the only good one of its family.
LEMMA ShowsToken ==
  ASSUME OneByOne, IInv, SInv, NEW r \in Requests, NEW t \in Tokens, Refresh(r, t)
  PROVE  SInv'
<1> DEFINE a == session[t].account
           step == IF live(t) THEN "rotate" ELSE "revokeFamily"
           q == [On(step, a) EXCEPT !.token = t]
<1>1. q.next = step /\ q.account = a /\ q.token = t
  BY OnWith
<1>2. Begin(r, "refresh", q)
  BY DEF Refresh
<1>3. OneLive /\ AllWorthy
  BY <1>2, Arrives, AtRest DEF SInv
<1> HIDE DEF q
<1>4. Held(q)
  <2>1. CASE live(t)
    <3>1. Worthy(user[a], session[t].password)
      BY <2>1, <1>3 DEF AllWorthy
    <3>2. \A u \in Tokens : live(u) /\ session[u].family = session[t].family => u = t
      BY <2>1, <1>3 DEF OneLive, Twins
    <3> QED
      BY <1>1, <2>1, <3>1, <3>2
         DEF live, Held, HeldRow, HeldPassword, HeldToken, HeldLink, LinkSteps, Existing
  <2>2. CASE ~ live(t)
    BY <1>1, <2>2, UnwatchedHolds DEF Watched, LinkSteps, Existing
  <2> QED
    BY <2>1, <2>2
<1> QED
  BY <1>2, <1>4, ReadsAtRest DEF Refresh

LEMMA ShowsLink ==
  ASSUME OneByOne, IInv, SInv, NEW r \in Requests, NEW l \in Links,
         ResetPassword(r, l) \/ Activate(r, l)
  PROVE  SInv'
<1> DEFINE a == link[l].account
           q(step) == [On(step, a) EXCEPT !.link = l]
<1>1. \A step : q(step).next = step /\ q(step).account = a /\ q(step).link = l
  BY OnWith
<1> HIDE DEF q
<1>2. ASSUME NEW step \in LinkSteps, Usable(l, purposeOf(step)) PROVE Held(q(step))
  <2>1. exists(a)
    BY <1>2 DEF Usable, SInv, LinksGood, LinkGood
  <2> DEFINE row == q(step)
  <2>2. row.next = step /\ row.account = a /\ row.link = l
    BY <1>1
  <2> HIDE DEF row
  <2>3. HeldLink(row)
    BY <1>2, <2>1, <2>2 DEF Usable, HeldLink
  <2>4. HeldRow(row) /\ HeldPassword(row) /\ HeldToken(row)
    BY <2>2 DEF HeldRow, HeldPassword, HeldToken, LinkSteps
  <2> QED
    BY <2>3, <2>4 DEF Held, row
<1>3. CASE ResetPassword(r, l)
  <2>1. Held(q("resetTx"))
    BY <1>2, <1>3 DEF ResetPassword, LinkSteps, purposeOf
  <2>2. Begin(r, "reset", q("resetTx")) /\ UNCHANGED tables
    BY <1>3 DEF ResetPassword, q
  <2> QED
    BY <2>1, <2>2, ReadsAtRest
<1>4. CASE Activate(r, l)
  <2>1. Held(q("activateTx"))
    BY <1>2, <1>4 DEF Activate, LinkSteps, purposeOf
  <2>2. Begin(r, "activate", q("activateTx")) /\ UNCHANGED tables
    BY <1>4 DEF Activate, q
  <2> QED
    BY <2>1, <2>2, ReadsAtRest
<1> QED
  BY <1>3, <1>4

LEMMA KnocksOrAsks ==
  ASSUME OneByOne, IInv, SInv, NEW r \in Requests, NEW a \in Accounts,
         (\E route \in Doors : Knock(r, a, route)) \/ \E list \in Lists : SetPermissions(r, a, list)
  PROVE  SInv'
<1>1. ASSUME NEW route PROVE /\ Held([Idle EXCEPT !.next = "inside", !.route = route])
                             /\ Held([Idle EXCEPT !.next = "validate", !.account = a,
                                                  !.route = route])
  BY UnwatchedHolds DEF Watched, LinkSteps, Existing, Idle
<1>2. ASSUME NEW list PROVE Held([On("cacheGet", a) EXCEPT !.wanted = list])
  <2>1. [On("cacheGet", a) EXCEPT !.wanted = list].next = "cacheGet"
    BY OnWith
  <2> QED
    BY <2>1, UnwatchedHolds DEF Watched, LinkSteps, Existing
<1> QED
  BY <1>1, <1>2, ReadsAtRest DEF Knock, SetPermissions

(***************************************************************************)
(* A row of users that is written                                          *)
(***************************************************************************)
PutUser(a, row) ==
  user' = [user EXCEPT ![a] = row] /\ \A b \in Accounts : b # a => wrong'[b] = wrong[b]

LEMMA PutPerson ==
  ASSUME IInv, Persons, NEW a \in Accounts, NEW row, PutUser(a, row),
         PersonOK(row, wrong'[a], RoleOf[a])
  PROVE  /\ Persons' /\ user'[a] = row
         /\ \A b \in Accounts : b # a => user'[b] = user[b]
<1>1. user'[a] = row /\ \A b \in Accounts : b # a => user'[b] = user[b]
  BY DEF IInv, PeopleOK, PutUser
<1> QED
  BY <1>1 DEF Persons, PutUser

LEMMA LinksStay ==
  ASSUME IInv, LinksGood, NEW a \in Accounts, NEW row, PutUser(a, row),
         row.status # "ABSENT", UNCHANGED <<link, opened>>
  PROVE  LinksGood'
<1>1. \A b \in Accounts : exists(b) => exists(b)'
  BY DEF exists, PutUser, IInv, PeopleOK
<1>2. \A l \in Links : link[l].state = "unused" => link[l].account \in Accounts
  BY DEF IInv, PeopleOK
<1> QED
  BY <1>1, <1>2 DEF LinksGood, LinkGood, Rivals

LEMMA WorthyStay ==
  ASSUME IInv, AllWorthy, NEW a \in Accounts, NEW row, PutUser(a, row), UNCHANGED session,
         user[a].status # "ACTIVE" \/ \A p : Worthy(user[a], p) => Worthy(row, p)
  PROVE  AllWorthy'
<1> SUFFICES ASSUME NEW t \in Tokens, live(t)
             PROVE  Worthy(user'[session[t].account], session[t].password)
  BY DEF AllWorthy, Worthy, live
<1>1. Worthy(user[session[t].account], session[t].password) /\ session[t].account \in Accounts
  BY DEF AllWorthy, IInv, PeopleOK, live
<1>2. CASE session[t].account = a
  <2>1. user'[a] = row
    BY DEF PutUser, IInv, PeopleOK
  <2>2. user[a].status = "ACTIVE"
    BY <1>1, <1>2 DEF Worthy
  <2> QED
    BY <1>1, <1>2, <2>1, <2>2
<1>3. CASE session[t].account # a
  BY <1>1, <1>3 DEF PutUser, IInv, PeopleOK
<1> QED
  BY <1>2, <1>3

\* A row that changes nothing its sessions depend on, or that nobody uses.
LEMMA Writes ==
  ASSUME IInv, SInv, NEW r \in Requests, NEW next, Lone(r), Becomes(r, next),
         OneLive, AllWorthy, NEW a \in Accounts, NEW row, PutUser(a, row),
         PersonOK(row, wrong'[a], RoleOf[a]), row.status # "ABSENT",
         user[a].status # "ACTIVE" \/ \A p : Worthy(user[a], p) => Worthy(row, p),
         UNCHANGED <<session, link, opened>>, Held(next)'
  PROVE  SInv'
<1>1. Persons' /\ LinksGood' /\ AllWorthy'
  BY PutPerson, LinksStay, WorthyStay DEF SInv
<1>2. Families' /\ OneLive'
  BY SessionsKept DEF SInv
<1> QED
  BY <1>1, <1>2, CalmAfter

\* A row whose sessions are about to be closed.
LEMMA ClosingAfter ==
  ASSUME IInv, NEW r \in Requests, NEW next, Lone(r), Becomes(r, next), next.next \in Closers,
         NEW a \in Accounts, next.account = a, OneLive, AllWorthy, UNCHANGED session,
         \A b \in Accounts : b # a => user'[b] = user[b]
  PROVE  LiveOnce' /\ WorthySessions' /\ Serial' /\ \A p \in Requests : Held(requests[p])'
<1>1. Held(next)'
  BY DEF Held, HeldRow, HeldPassword, HeldToken, HeldLink, LinkSteps, Existing, Closers
<1>2. closing(a)'
  BY StepFrom DEF IInv, closing
<1>3. LiveOnce'
  BY DEF LiveOnce, OneLive, Twins, live
<1>4. WorthySessions'
  <2> SUFFICES ASSUME NEW t \in Tokens, live(t), ~ closing(session[t].account)'
               PROVE  Worthy(user'[session[t].account], session[t].password)
    BY DEF WorthySessions, Worthy, live, closing
  <2>1. session[t].account \in Accounts /\ session[t].account # a
    BY <1>2 DEF IInv, PeopleOK, live, closing
  <2> QED
    BY <2>1 DEF AllWorthy
<1> QED
  BY <1>1, <1>3, <1>4, HeldAfter DEF IInv

LEMMA WritesAndCloses ==
  ASSUME IInv, SInv, NEW r \in Requests, NEW next, Lone(r), Becomes(r, next),
         next.next \in Closers, OneLive, AllWorthy, NEW a \in Accounts, next.account = a,
         NEW row, PutUser(a, row),
         PersonOK(row, wrong'[a], RoleOf[a]), row.status # "ABSENT",
         UNCHANGED <<session, link, opened>>
  PROVE  SInv'
<1>1. Persons' /\ LinksGood' /\ \A b \in Accounts : b # a => user'[b] = user[b]
  BY PutPerson, LinksStay DEF SInv
<1>2. Families'
  BY SessionsKept DEF SInv
<1> QED
  BY <1>1, <1>2, ClosingAfter DEF SInv

(***************************************************************************)
(* Sign up, sign in                                                        *)
(***************************************************************************)
\* A request at work: it is alone, and what it holds is still so.
LEMMA AtWork ==
  ASSUME IInv, SInv, NEW r \in Requests,
         requests[r].next \notin {"idle", "consume"} \union Closers
  PROVE  Lone(r) /\ Held(requests[r]) /\ OneLive /\ AllWorthy
<1>1. Lone(r) /\ Held(requests[r])
  BY Works DEF SInv, At
<1>2. OneLive /\ AllWorthy
  BY <1>1, Calm DEF SInv
<1> QED
  BY <1>1, <1>2

\* A step that leaves the accounts, their sessions and their links alone.
LEMMA OnlyMoves ==
  ASSUME IInv, SInv, NEW r \in Requests, NEW row, Becomes(r, row),
         requests[r].next \notin {"idle", "consume"} \union Closers,
         UNCHANGED <<user, session, link, wrong, opened>>, Held(row)
  PROVE  SInv'
<1>1. Lone(r) /\ OneLive /\ AllWorthy
  BY AtWork
<1>2. Held(row)' /\ Persons' /\ LinksGood' /\ Families' /\ OneLive' /\ AllWorthy'
  BY <1>1, HeldKept, PersonsKept, LinksKept, SessionsKept DEF SInv
<1> QED
  BY <1>1, <1>2, CalmAfter

LEMMA RegisterTxStep ==
  ASSUME IInv, SInv, NEW r \in Requests, RegisterTx(r)
  PROVE  SInv'
<1> DEFINE a == requests[r].account
           new == NewUser("ACTIVE", 1)
<1>1. requests[r].next = "registerTx" /\ a \in Accounts
  BY InHand DEF IInv, RegisterTx, At
<1>2. Lone(r) /\ Held(requests[r]) /\ OneLive /\ AllWorthy
  BY <1>1, AtWork DEF Closers
<1>3. CASE exists(a)
  <2>1. Becomes(r, Idle) /\ UNCHANGED <<user, session, link, wrong, opened>>
    BY <1>3, EndsIdle DEF RegisterTx
  <2> QED
    BY <1>1, <2>1, OnlyMoves, IdleHolds DEF Idle, Closers
<1>4. CASE ~ exists(a)
  <2>1. PICK row : Becomes(r, row) /\ row.next = "issue" /\ row.account = a
                   /\ row.seen = requests[r].seen
    BY <1>4, GoesOn DEF RegisterTx, IInv
  <2>2. PutUser(a, new) /\ wrong' = wrong
    BY <1>4 DEF RegisterTx, PutUser
  <2>3. PersonOK(new, wrong'[a], RoleOf[a]) /\ user[a].password = 1
    BY <1>1, <1>4, <2>2 DEF SInv, Persons, PersonOK, exists, NewUser
  <2>4. user'[a] = new /\ new.password = 1 /\ new.status = "ACTIVE"
    BY <1>1, <2>2 DEF PutUser, IInv, PeopleOK, NewUser
  <2>5. Held(row)'
    <3>1. row.seen.password = 1
      BY <1>1, <1>2, <2>1, <2>3 DEF Held, HeldRow
    <3> HIDE DEF new
    <3> QED
      BY <2>1, <2>4, <3>1 DEF Held, HeldRow, HeldPassword, HeldToken, HeldLink, LinkSteps, Existing
  <2>6. user[a].status # "ACTIVE"
    BY <1>4 DEF exists
  <2> HIDE DEF new
  <2> QED
    BY <1>1, <1>2, <1>4, <2>1, <2>2, <2>3, <2>4, <2>5, <2>6, Writes DEF RegisterTx
<1> QED
  BY <1>3, <1>4

LEMMA LoginFailsStep ==
  ASSUME IInv, SInv, NEW r \in Requests, LoginFails(r)
  PROVE  SInv'
<1> DEFINE a == requests[r].account
           attempts == requests[r].seen.failures + 1
           full == attempts >= MaxAttempts
           row == [user[a] EXCEPT !.failures = attempts, !.locked = full]
<1>1. requests[r].next = "compare" /\ a \in Accounts /\ user[a] \in UserRows
  BY InHand DEF IInv, LoginFails, At, PeopleOK
<1>2. Lone(r) /\ Held(requests[r]) /\ OneLive /\ AllWorthy
  BY <1>1, AtWork DEF Closers
<1>3. Becomes(r, Idle) /\ UNCHANGED <<session, link, opened>>
  BY EndsIdle DEF LoginFails
<1>4. attempts = wrong[a] + 1
  BY <1>1, <1>2 DEF Held, HeldRow, SInv, Persons, PersonOK
<1>5. wrong'[a] = attempts
  BY <1>1, <1>4 DEF LoginFails, IInv, PeopleOK
<1>6. PutUser(a, row)
  BY <1>1 DEF LoginFails, PutUser, UserRows, IInv, PeopleOK
<1>7. user[a].status # "ABSENT"
  BY <1>1, <1>2 DEF Held, HeldLink, Existing, exists
<1> HIDE DEF attempts
<1>8. /\ row.status = user[a].status /\ row.password = user[a].password
      /\ row.activated = user[a].activated /\ row.online = user[a].online
      /\ row.failures = attempts /\ row.locked = full
  BY <1>1 DEF UserRows
<1> HIDE DEF row
<1>9. PersonOK(row, wrong'[a], RoleOf[a])
  BY <1>1, <1>5, <1>7, <1>8 DEF SInv, Persons, PersonOK
<1>10. \A p : Worthy(user[a], p) => Worthy(row, p)
  BY <1>8 DEF Worthy
<1>11. Held(Idle)'
  BY DEF Held, HeldRow, HeldPassword, HeldToken, HeldLink, LinkSteps, Existing, Idle
<1> QED
  BY <1>1, <1>2, <1>3, <1>6, <1>7, <1>8, <1>9, <1>10, <1>11, Writes

LEMMA LoginSucceedsStep ==
  ASSUME IInv, SInv, NEW r \in Requests, LoginSucceeds(r)
  PROVE  SInv'
<1>1. requests[r].next = "compare" /\ UNCHANGED <<user, session, link, wrong, opened>>
  BY DEF LoginSucceeds, At, tables
<1>2. Held(requests[r])
  BY <1>1, AtWork DEF Closers
<1>3. CASE requests[r].seen.status = "ACTIVE"
  <2>1. PICK row : Becomes(r, row) /\ row.next = "issue"
                   /\ row.account = requests[r].account /\ row.seen = requests[r].seen
    BY <1>3, GoesOn DEF LoginSucceeds, IInv
  <2>2. Held(row)
    BY <1>1, <1>2, <1>3, <2>1
       DEF Held, HeldRow, HeldPassword, HeldToken, HeldLink, LinkSteps, Existing
  <2> QED
    BY <1>1, <2>1, <2>2, OnlyMoves DEF Closers
<1>4. CASE requests[r].seen.status # "ACTIVE"
  <2>1. Becomes(r, Idle) /\ Idle.next = "idle"
    BY <1>4, EndsIdle DEF LoginSucceeds
  <2> QED
    BY <1>1, <2>1, IdleHolds, OnlyMoves DEF Closers
<1> QED
  BY <1>3, <1>4

LEMMA IssueStep ==
  ASSUME IInv, SInv, NEW r \in Requests, Issue(r) \/ IssueActivated(r)
  PROVE  SInv'
<1> DEFINE a == requests[r].account
           p == requests[r].seen.password
<1>1. requests[r].next \in {"issue", "issueActivated"} /\ a \in Accounts
  BY InHand DEF IInv, Issue, IssueActivated, At
<1>2. Lone(r) /\ Held(requests[r]) /\ OneLive /\ AllWorthy
  BY <1>1, AtWork DEF Closers
<1>3. UNCHANGED <<user, link, wrong, opened>> /\ IssueRow(a, 0, p)
  BY DEF Issue, IssueActivated
<1>4. Worthy(user[a], p)
  BY <1>1, <1>2 DEF Held, HeldPassword, Worthy
<1>5. Families' /\ OneLive' /\ AllWorthy'
  BY <1>1, <1>2, <1>3, <1>4, NewFamily DEF SInv
<1>6. Persons' /\ LinksGood'
  BY <1>3, PersonsKept, LinksKept DEF SInv
<1>7. PICK row : /\ Becomes(r, row)
                 /\ row.next = "idle" \/ row.next = "markLogin"
                 /\ row.next = "markLogin" => row.account = a
  <2>1. CASE Issue(r)
    <3>1. PICK row : Becomes(r, row) /\ row.next = "markLogin" /\ row.account = a
      BY <2>1, GoesOn DEF Issue, IInv
    <3> QED
      BY <3>1
  <2>2. CASE IssueActivated(r)
    BY <2>2, EndsIdle DEF IssueActivated
  <2> QED
    BY <2>1, <2>2
<1>8. user'[a].status # "ABSENT"
  BY <1>1, <1>2, <1>3 DEF Held, HeldPassword
<1>9. Held(row)'
  BY <1>7, <1>8 DEF exists, Held, HeldRow, HeldPassword, HeldToken, HeldLink, LinkSteps, Existing
<1> QED
  BY <1>2, <1>5, <1>6, <1>7, <1>9, CalmAfter


LEMMA MarkLoginStep ==
  ASSUME IInv, SInv, NEW r \in Requests, MarkLogin(r) \/ Offline(r)
  PROVE  SInv'
<1> DEFINE a == requests[r].account
<1>1. /\ requests[r].next \in {"markLogin", "offline"} /\ a \in Accounts
      /\ user[a] \in UserRows
  BY InHand DEF IInv, MarkLogin, Offline, At, PeopleOK
<1>2. Lone(r) /\ OneLive /\ AllWorthy /\ user[a].status # "ABSENT"
  BY <1>1, AtWork DEF Closers, Held, HeldLink, Existing, exists
<1>3. Becomes(r, Idle) /\ UNCHANGED <<session, link, opened>> /\ Held(Idle)'
  BY EndsIdle DEF MarkLogin, Offline, Held, HeldRow, HeldPassword, HeldToken, HeldLink, LinkSteps,
                  Existing, Idle
<1>4. CASE MarkLogin(r)
  <2> DEFINE row == [user[a] EXCEPT !.failures = 0, !.locked = FALSE]
  <2>1. PutUser(a, row) /\ wrong'[a] = 0
    BY <1>1, <1>4 DEF MarkLogin, PutUser, UserRows, IInv, PeopleOK
  <2>2. /\ row.status = user[a].status /\ row.password = user[a].password
        /\ row.activated = user[a].activated /\ row.online = user[a].online
        /\ row.failures = 0 /\ row.locked = FALSE
    BY <1>1 DEF UserRows
  <2> HIDE DEF row
  <2>3. PersonOK(row, wrong'[a], RoleOf[a])
    BY <1>1, <1>2, <2>1, <2>2 DEF SInv, Persons, PersonOK
  <2>4. \A p : Worthy(user[a], p) => Worthy(row, p)
    BY <2>2 DEF Worthy
  <2> QED
    BY <1>1, <1>2, <1>3, <2>1, <2>2, <2>3, <2>4, Writes
<1>5. CASE Offline(r)
  <2> DEFINE row == [user[a] EXCEPT !.online = FALSE]
  <2>1. PutUser(a, row) /\ wrong'[a] = wrong[a]
    BY <1>1, <1>5 DEF Offline, PutUser, UserRows, IInv, PeopleOK
  <2>2. /\ row.status = user[a].status /\ row.password = user[a].password
        /\ row.activated = user[a].activated /\ row.online = FALSE
        /\ row.failures = user[a].failures /\ row.locked = user[a].locked
    BY <1>1 DEF UserRows
  <2> HIDE DEF row
  <2>3. PersonOK(row, wrong'[a], RoleOf[a])
    BY <1>1, <1>2, <2>1, <2>2 DEF SInv, Persons, PersonOK
  <2>4. \A p : Worthy(user[a], p) => Worthy(row, p)
    BY <2>2 DEF Worthy
  <2> QED
    BY <1>1, <1>2, <1>3, <2>1, <2>2, <2>3, <2>4, Writes
<1> QED
  BY <1>4, <1>5

(***************************************************************************)
(* Refresh                                                                 *)
(***************************************************************************)
\* The new token joins the family of the one it renews, which is being renewed.
LEMMA RotateStep ==
  ASSUME IInv, SInv, NEW r \in Requests, Rotate(r)
  PROVE  SInv'
<1> DEFINE a == requests[r].account
<1>1. requests[r].next = "rotate" /\ a \in Accounts /\ requests[r].token \in Tokens
  BY InHand DEF IInv, Rotate, At, TokenSteps
<1>0. PICK old \in Tokens : old = requests[r].token
  BY <1>1
<1> DEFINE family == session[old].family
<1>2. Lone(r) /\ Held(requests[r]) /\ OneLive /\ AllWorthy
  BY <1>1, AtWork DEF Closers
<1>3. UNCHANGED <<user, link, wrong, opened>> /\ IssueRow(a, family, session[old].password)
  BY <1>0 DEF Rotate
<1>4. /\ session[old].state # "none" /\ Worthy(user[a], session[old].password)
      /\ \A u \in Tokens : live(u) /\ session[u].family = family => u = old
  BY <1>0, <1>1, <1>2 DEF Held, HeldToken
<1>5. family \in Tokens /\ family # 0 /\ session[family].state # "none"
  BY <1>1, <1>4 DEF SInv, Families, Tokens
<1>6. PICK t \in Tokens :
        /\ session[t].state = "none"
        /\ \A u \in Tokens : u # t => session'[u] = session[u]
        /\ session'[t].family = family
        /\ session'[t].state = "live" /\ session'[t].account = a
        /\ session'[t].password = session[old].password /\ ~ session'[t].expired
  BY <1>3, <1>5, Issued DEF SInv
<1>7. PICK row : Becomes(r, row) /\ row.next = "consume" /\ row.token = old
  BY <1>0, GoesOn DEF Rotate, IInv
<1>8. Held(row)'
  BY <1>7 DEF Held, HeldRow, HeldPassword, HeldToken, HeldLink, LinkSteps, Existing
<1>9. Families'
  BY <1>5, <1>6 DEF SInv, Families
<1>10. renewing(old)'
  BY <1>2, <1>7, StepFrom DEF IInv, renewing, At
<1>11. LiveOnce'
  <2>1. ASSUME NEW u \in Tokens, u # t, live(u), session[u].family = family
        PROVE  u = old
    BY <1>4, <2>1
  <2>2. ASSUME NEW u \in Tokens, NEW v \in Tokens, Twins(u, v)' PROVE u = old \/ v = old
    <3>1. CASE u # t /\ v # t
      BY <1>2, <1>6, <2>2, <3>1 DEF OneLive, Twins, live
    <3>2. CASE u = t
      BY <1>6, <2>1, <2>2, <3>2 DEF Twins, live
    <3>3. CASE v = t
      BY <1>6, <2>1, <2>2, <3>3 DEF Twins, live
    <3> QED
      BY <3>1, <3>2, <3>3
  <2> QED
    BY <1>10, <2>2 DEF LiveOnce
<1>12. WorthySessions'
  BY <1>2, <1>3, <1>4, <1>6 DEF WorthySessions, AllWorthy, Worthy, live
<1>13. Persons' /\ LinksGood'
  BY <1>3, PersonsKept, LinksKept DEF SInv
<1> QED
  BY <1>2, <1>7, <1>8, <1>9, <1>11, <1>12, <1>13, HeldAfter DEF IInv, SInv

\* The token that was renewed falls, and so does a family of which an old
\* token is shown, and every session of an account.
LEMMA RevokeStep ==
  ASSUME IInv, SInv, NEW r \in Requests,
         Consume(r) \/ RevokeFamily(r) \/ RevokeAll(r) \/ RemoveRevoke(r)
  PROVE  SInv'
<1> DEFINE a == requests[r].account
<1>1. /\ requests[r].next \in {"consume", "revokeFamily"} \union Closers
      /\ ~ At(r, "idle")
  BY DEF Consume, RevokeFamily, RevokeAll, RemoveRevoke, At, Closers
<1>2. Lone(r) /\ UNCHANGED <<user, link, wrong, opened>>
  BY <1>1, Works DEF SInv, Consume, RevokeFamily, RevokeAll, RemoveRevoke
<1>3. \A p \in Requests : p # r => requests[p].next = "idle"
  BY <1>2 DEF Lone, At
<1>4. PICK tokens : Revoke(tokens) /\ (Consume(r) => requests[r].token \in tokens)
                    /\ (RevokeAll(r) \/ RemoveRevoke(r) => tokens = sessionsOf(a))
  BY DEF Consume, RevokeFamily, RevokeAll, RemoveRevoke, At
<1>5. Ends /\ \A t \in Tokens : t \in tokens => ~ live(t)'
  BY <1>4, RevokeEnds DEF SInv
<1>6. Families' /\ \A t \in Tokens : live(t)' => live(t)
  BY <1>5, EndsKeep DEF SInv
<1>7. OneLive'
  <2> SUFFICES ASSUME NEW t \in Tokens, NEW u \in Tokens, Twins(t, u)' PROVE FALSE
    BY DEF OneLive
  <2>1. Twins(t, u)
    BY <1>5, <1>6 DEF Ends, Twins
  <2>2. renewing(t) \/ renewing(u)
    BY <2>1 DEF SInv, LiveOnce
  <2>3. At(r, "consume") /\ requests[r].token \in {t, u}
    BY <1>3, <2>2 DEF renewing, At
  <2>4. Consume(r)
    BY <2>3 DEF At, RevokeFamily, RevokeAll, RemoveRevoke
  <2> QED
    BY <1>4, <1>5, <2>3, <2>4 DEF Twins
<1>8. AllWorthy'
  <2> SUFFICES ASSUME NEW t \in Tokens, live(t)'
               PROVE  Worthy(user[session[t].account], session[t].password)
    BY <1>2, <1>5 DEF AllWorthy, Ends, Worthy
  <2>1. live(t)
    BY <1>6
  <2>2. SUFFICES ASSUME closing(session[t].account) PROVE FALSE
    BY <2>1 DEF SInv, WorthySessions
  <2>3. requests[r].next \in Closers /\ session[t].account = a
    BY <1>3, <2>2 DEF closing, Closers
  <2>4. RevokeAll(r) \/ RemoveRevoke(r)
    BY <2>3 DEF At, Closers, RevokeFamily, Consume
  <2> QED
    BY <1>4, <1>5, <2>1, <2>3, <2>4 DEF sessionsOf
<1>9. PICK row : Becomes(r, row) /\ row.next \in {"idle", "invalidate"}
  <2>1. CASE RemoveRevoke(r)
    BY <2>1, GoesOn DEF RemoveRevoke, IInv
  <2>2. CASE Consume(r) \/ RevokeFamily(r) \/ RevokeAll(r)
    BY <2>2, EndsIdle DEF Consume, RevokeFamily, RevokeAll
  <2> QED
    BY <2>1, <2>2
<1>10. Held(row)'
  BY <1>9 DEF Held, HeldRow, HeldPassword, HeldToken, HeldLink, LinkSteps, Existing
<1>11. Persons' /\ LinksGood'
  BY <1>2, PersonsKept, LinksKept DEF SInv
<1> QED
  BY <1>2, <1>6, <1>7, <1>8, <1>9, <1>10, <1>11, CalmAfter

(***************************************************************************)
(* Links                                                                   *)
(***************************************************************************)
\* An account that exists, and goes on existing.
StillThere == \A b \in Accounts : exists(b) => exists(b)'

LEMMA SendLinkGood ==
  ASSUME IInv, LinksGood, StillThere, NEW a \in Accounts, user'[a].status # "ABSENT",
         NEW purpose \in {"RESET", "ACTIVATION"}, SendLink(a, purpose), UNCHANGED opened
  PROVE  LinksGood'
<1> DEFINE new == [state |-> "unused", expired |-> FALSE, purpose |-> purpose, account |-> a]
<1>1. PICK l \in Links :
        /\ link[l].state = "none"
        /\ link' = [k \in Links |->
             IF k = l THEN new
             ELSE IF k \in unusedLinks(a, purpose) THEN [link[k] EXCEPT !.state = "used"]
             ELSE link[k]]
  BY DEF SendLink
<1>2. link'[l] = new /\ opened[l] = 0
  BY <1>1 DEF LinksGood, LinkGood
<1>3. \A k \in Links : link[k].state = "unused" => link[k].account \in Accounts
  BY DEF IInv, PeopleOK
<1>4. ASSUME NEW k \in Links, k # l
      PROVE  \/ link'[k].state = "used" /\ k \in unusedLinks(a, purpose)
             \/ link'[k] = link[k] /\ k \notin unusedLinks(a, purpose)
  BY <1>1, <1>4 DEF IInv, PeopleOK, LinkRows
<1>5. new.state = "unused" /\ new.account = a /\ new.purpose = purpose
  OBVIOUS
<1> HIDE DEF new
<1>6. ASSUME NEW k \in Links PROVE LinkGood(k)'
  <2>1. CASE k = l
    BY <1>2, <1>5, <2>1 DEF LinkGood, exists
  <2>2. CASE k # l
    BY <1>3, <1>4, <2>2 DEF LinksGood, LinkGood, StillThere
  <2> QED
    BY <2>1, <2>2
<1>7. ASSUME NEW j \in Links, NEW k \in Links, Rivals(j, k)' PROVE j = k
  <2>1. CASE j # l /\ k # l
    BY <1>4, <1>7, <2>1 DEF LinksGood, Rivals
  <2>2. ASSUME NEW i \in Links, i # l, link'[i].state = "unused", link'[i].account = a,
               link'[i].purpose = purpose
        PROVE  FALSE
    BY <1>4, <2>2 DEF unusedLinks
  <2> QED
    BY <1>2, <1>5, <1>7, <2>1, <2>2 DEF Rivals
<1> QED
  BY <1>6, <1>7 DEF LinksGood

\* Links that fall: all of them are used now.
LEMMA LinksFall ==
  ASSUME IInv, LinksGood, StillThere, NEW fallen \in SUBSET Links,
         link' = [k \in Links |-> IF k \in fallen THEN [link[k] EXCEPT !.state = "used"]
                                                  ELSE link[k]],
         \A k \in Links : opened'[k] # opened[k] =>
           k \in fallen /\ link[k].state = "unused" /\ opened'[k] = opened[k] + 1
  PROVE  LinksGood'
<1>1. ASSUME NEW k \in Links
      PROVE  \/ link'[k].state = "used"
             \/ link'[k] = link[k] /\ opened'[k] = opened[k]
  BY DEF IInv, PeopleOK, LinkRows
<1>2. \A k \in Links : link[k].state = "unused" => link[k].account \in Accounts
  BY DEF IInv, PeopleOK
<1>3. ASSUME NEW k \in Links PROVE LinkGood(k)'
  <2>1. LinkGood(k)
    BY DEF LinksGood
  <2>2. opened'[k] <= 1
    <3>1. CASE opened'[k] = opened[k]
      BY <2>1, <3>1 DEF LinkGood
    <3>2. CASE opened'[k] # opened[k]
      <4>1. opened[k] = 0
        BY <2>1, <3>2 DEF LinkGood
      <4> QED
        BY <3>2, <4>1
    <3> QED
      BY <3>1, <3>2
  <2> QED
    BY <1>1, <1>2, <2>1, <2>2 DEF LinkGood, StillThere
<1>4. \A j, k \in Links : Rivals(j, k)' => j = k
  BY <1>1 DEF LinksGood, Rivals
<1> QED
  BY <1>3, <1>4 DEF LinksGood

\* A link sent by a request that ends as it arrives.
LEMMA SendsLink ==
  ASSUME OneByOne, IInv, SInv, NEW r \in Requests, NEW a \in Accounts,
         ForgotPassword(r, a) \/ ResendActivation(r, a)
  PROVE  SInv'
<1>1. quiet /\ Lone(r) /\ Becomes(r, Idle)
  BY Arrives DEF SInv, ForgotPassword, ResendActivation
<1>2. UNCHANGED <<user, session, wrong, opened>> /\ exists(a)
  BY DEF ForgotPassword, ResendActivation, present, exists
<1>3. LinksGood'
  <2>1. StillThere /\ user'[a].status # "ABSENT"
    BY <1>2 DEF StillThere, exists
  <2>2. SendLink(a, "RESET") \/ SendLink(a, "ACTIVATION")
    BY DEF ForgotPassword, ResendActivation
  <2> QED
    BY <1>2, <2>1, <2>2, SendLinkGood DEF SInv
<1>4. OneLive /\ AllWorthy
  BY <1>1, AtRest
<1>5. Persons' /\ Families' /\ OneLive' /\ AllWorthy'
  BY <1>2, <1>4, PersonsKept, SessionsKept DEF SInv
<1>6. Held(Idle)'
  BY DEF Held, HeldRow, HeldPassword, HeldToken, HeldLink, LinkSteps, Existing, Idle
<1> QED
  BY <1>1, <1>3, <1>5, <1>6, CalmAfter

(***************************************************************************)
(* Passwords                                                               *)
(***************************************************************************)
LEMMA ChangeTxStep ==
  ASSUME IInv, SInv, NEW r \in Requests, ChangeTx(r)
  PROVE  SInv'
<1> DEFINE a == requests[r].account
           first == [user[a] EXCEPT !.password = @ + 1]
           row == [first EXCEPT !.temporary = FALSE]
<1>1. requests[r].next = "changeTx" /\ a \in Accounts /\ user[a] \in UserRows
  BY InHand DEF IInv, ChangeTx, At, PeopleOK
<1>2. Lone(r) /\ OneLive /\ AllWorthy /\ user[a].status # "ABSENT"
  BY <1>1, AtWork DEF Closers, Held, HeldLink, Existing, exists
<1>3. PICK next : Becomes(r, next) /\ next.next = "revokeAll" /\ next.account = a
  BY GoesOn DEF ChangeTx, IInv
<1>4. PutUser(a, row) /\ wrong'[a] = wrong[a] /\ UNCHANGED <<session, link, opened>>
  BY <1>1 DEF ChangeTx, PutUser, UserRows, IInv, PeopleOK
<1>5. first \in UserRows
  BY <1>1, NewPassword
<1>6. /\ row.status = user[a].status /\ row.online = user[a].online
      /\ row.failures = user[a].failures /\ row.locked = user[a].locked
  BY <1>1 DEF UserRows
<1> HIDE DEF row
<1>7. PersonOK(row, wrong'[a], RoleOf[a])
  BY <1>1, <1>2, <1>4, <1>6 DEF SInv, Persons, PersonOK
<1> QED
  BY <1>1, <1>2, <1>3, <1>4, <1>6, <1>7, WritesAndCloses DEF Closers

\* What ChoosePassword leaves of a row.
LEMMA Chosen ==
  ASSUME IInv, NEW a \in Accounts, NEW old \in UserRows, ChoosePassword(a, old)
  PROVE  \E row : /\ PutUser(a, row) /\ wrong'[a] = 0
                  /\ row.status = old.status /\ row.online = old.online
                  /\ row.password = old.password + 1 /\ row.activated = old.activated
                  /\ row.failures = 0 /\ ~ row.locked
<1> DEFINE row == [old EXCEPT !.password = @ + 1, !.temporary = FALSE, !.failures = 0,
                              !.locked = FALSE]
<1>1. PutUser(a, row) /\ wrong'[a] = 0
  BY DEF ChoosePassword, PutUser, IInv, PeopleOK
<1>2. /\ row.status = old.status /\ row.online = old.online
      /\ row.password = old.password + 1 /\ row.activated = old.activated
      /\ row.failures = 0 /\ ~ row.locked
  BY DEF UserRows
<1> HIDE DEF row
<1> QED
  BY <1>1, <1>2

LEMMA ResetTxStep ==
  ASSUME IInv, SInv, NEW r \in Requests, ResetTx(r)
  PROVE  SInv'
<1> DEFINE a == requests[r].account
           l == requests[r].link
<1>1. requests[r].next = "resetTx" /\ a \in Accounts /\ user[a] \in UserRows /\ l \in Links
  BY InHand DEF IInv, ResetTx, At, PeopleOK, LinkSteps
<1>2. Lone(r) /\ OneLive /\ AllWorthy /\ Held(requests[r])
  BY <1>1, AtWork DEF Closers
<1>3. /\ user[a].status # "ABSENT" /\ link[l].state = "unused"
      /\ l \in unusedLinks(a, "RESET")
  BY <1>1, <1>2 DEF Held, HeldLink, LinkSteps, Existing, exists, purposeOf, unusedLinks
<1>4. PICK next : Becomes(r, next) /\ next.next = "revokeAll" /\ next.account = a
  BY GoesOn DEF ResetTx, IInv
<1>5. PICK row : /\ PutUser(a, row) /\ wrong'[a] = 0
                 /\ row.status = user[a].status /\ row.online = user[a].online
                 /\ row.failures = 0 /\ ~ row.locked
  BY <1>1, Chosen DEF ResetTx
<1>6. PersonOK(row, wrong'[a], RoleOf[a])
  BY <1>1, <1>3, <1>5 DEF SInv, Persons, PersonOK
<1>7. /\ Persons' /\ user'[a] = row
      /\ \A b \in Accounts : b # a => user'[b] = user[b]
  BY <1>1, <1>5, <1>6, PutPerson DEF SInv
<1>8. StillThere
  BY <1>3, <1>5, <1>7 DEF StillThere, exists
<1>9. LinksGood'
  <2> DEFINE fallen == unusedLinks(a, "RESET")
  <2>1. fallen \in SUBSET Links
    BY DEF unusedLinks
  <2>2. \A k \in Links : opened'[k] # opened[k] => k = l /\ opened'[k] = opened[k] + 1
    BY <1>1 DEF ResetTx, IInv, PeopleOK
  <2> QED
    BY <1>3, <1>8, <2>1, <2>2, LinksFall DEF ResetTx, SInv
<1>10. UNCHANGED session /\ Families'
  BY SessionsKept DEF ResetTx, SInv
<1> QED
  BY <1>1, <1>2, <1>4, <1>7, <1>9, <1>10, ClosingAfter DEF SInv, Closers

LEMMA ActivateTxStep ==
  ASSUME IInv, SInv, NEW r \in Requests, ActivateTx(r)
  PROVE  SInv'
<1> DEFINE a == requests[r].account
           l == requests[r].link
           chosen == user[a].password + 1
           old == [user[a] EXCEPT !.status = "ACTIVE", !.activated = chosen]
<1>1. requests[r].next = "activateTx" /\ a \in Accounts /\ user[a] \in UserRows /\ l \in Links
  BY InHand DEF IInv, ActivateTx, At, PeopleOK, LinkSteps
<1>2. Lone(r) /\ OneLive /\ AllWorthy /\ Held(requests[r])
  BY <1>1, AtWork DEF Closers
<1>3. user[a].status # "ABSENT" /\ link[l].state = "unused"
  BY <1>1, <1>2 DEF Held, HeldLink, LinkSteps, Existing, exists
<1>4. old \in UserRows /\ chosen \in Nat
  <2>1. chosen \in Nat /\ "ACTIVE" \in AccountStates
    BY <1>1, NewPassword DEF AccountStates
  <2> HIDE DEF chosen
  <2> QED
    BY <1>1, <2>1, Zenon DEF UserRows
<1>5. /\ old.status = "ACTIVE" /\ old.online = user[a].online
      /\ old.password = user[a].password /\ old.activated = chosen
  BY <1>1 DEF UserRows
<1>6. ChoosePassword(a, old)
  BY DEF ActivateTx
<1> HIDE DEF old
<1>7. PICK row : /\ PutUser(a, row) /\ wrong'[a] = 0
                 /\ row.status = "ACTIVE" /\ row.online = user[a].online
                 /\ row.password = chosen /\ row.activated = chosen
                 /\ row.failures = 0 /\ ~ row.locked
  BY <1>1, <1>4, <1>5, <1>6, Chosen
<1> HIDE DEF chosen
<1>8. PersonOK(row, wrong'[a], RoleOf[a])
  BY <1>1, <1>3, <1>7 DEF SInv, Persons, PersonOK
<1>9. /\ Persons' /\ user'[a] = row
      /\ \A b \in Accounts : b # a => user'[b] = user[b]
  BY <1>1, <1>7, <1>8, PutPerson DEF SInv
<1>10. StillThere
  BY <1>3, <1>7, <1>9 DEF StillThere, exists
<1>11. LinksGood'
  <2>1. link' = [k \in Links |-> IF k \in {l} THEN [link[k] EXCEPT !.state = "used"] ELSE link[k]]
    BY <1>1 DEF ActivateTx, IInv, PeopleOK
  <2>2. \A k \in Links : opened'[k] # opened[k] => k = l /\ opened'[k] = opened[k] + 1
    BY <1>1 DEF ActivateTx, IInv, PeopleOK
  <2> QED
    BY <1>1, <1>3, <1>10, <2>1, <2>2, LinksFall DEF SInv
<1>12. UNCHANGED session /\ Families' /\ OneLive'
  BY <1>2, SessionsKept DEF ActivateTx, SInv
<1>13. AllWorthy'
  <2>1. \A p : Worthy(row, p)
    BY <1>7 DEF Worthy
  <2> QED
    BY <1>1, <1>2, <1>7, <1>12, <2>1, WorthyStay
<1>14. PICK next : /\ Becomes(r, next) /\ next.next = "issueActivated"
                   /\ next.account = a /\ next.seen.password = chosen
  <2> DEFINE next == [requests[r] EXCEPT !.next = "issueActivated", !.seen.password = chosen]
  <2>1. requests[r] \in RequestRows /\ requests[r].seen \in UserRows
    BY <1>1, InHand DEF IInv, RequestsOK, At
  <2>2. Becomes(r, next)
    BY <2>1 DEF ActivateTx, Becomes, chosen, IInv, RequestsOK
  <2>3. next.next = "issueActivated" /\ next.account = a /\ next.seen.password = chosen
    BY <2>1 DEF RequestRows, UserRows
  <2> HIDE DEF next
  <2> QED
    BY <2>2, <2>3
<1>15. Held(next)'
  <2>1. user'[a].password = chosen /\ user'[a].status = "ACTIVE"
    BY <1>7, <1>9
  <2> QED
    BY <1>14, <2>1 DEF Held, HeldRow, HeldPassword, HeldToken, HeldLink, LinkSteps, Existing
<1> QED
  BY <1>1, <1>2, <1>9, <1>11, <1>12, <1>13, <1>14, <1>15, CalmAfter

(***************************************************************************)
(* Signing out                                                             *)
(***************************************************************************)
LEMMA SignsOut ==
  ASSUME OneByOne, IInv, SInv, NEW r \in Requests, NEW a \in Accounts,
         \/ \E tokens \in SUBSET Tokens : Logout(r, a, tokens)
         \/ \E t \in Tokens : RevokeSession(r, a, t)
  PROVE  SInv'
<1>1. PICK op, row : Begin(r, op, row) /\ (row = Idle \/ row = On("offline", a))
  BY DEF Logout, RevokeSession
<1>2. quiet /\ Lone(r) /\ Becomes(r, row)
  BY <1>1, Arrives DEF SInv
<1>3. OneLive /\ AllWorthy
  BY <1>2, AtRest
<1>4. UNCHANGED <<user, link, wrong, opened>> /\ exists(a)
  BY DEF Logout, RevokeSession, signedIn, present
<1>5. PICK tokens : Revoke(tokens)
  BY DEF Logout, RevokeSession
<1>6. Ends
  BY <1>5, RevokeEnds DEF SInv
<1>7. Families' /\ OneLive' /\ AllWorthy' /\ Persons' /\ LinksGood'
  BY <1>3, <1>4, <1>6, EndsKeep, PersonsKept, LinksKept DEF SInv
<1>8. row.next = "idle" \/ (row.next = "offline" /\ row.account = a)
  BY <1>1, OnFields DEF Idle
<1>9. Held(row)'
  BY <1>4, <1>8 DEF Held, HeldRow, HeldPassword, HeldToken, HeldLink, LinkSteps, Existing, exists
<1> QED
  BY <1>2, <1>7, <1>9, CalmAfter

(***************************************************************************)
(* Time                                                                    *)
(***************************************************************************)
LEMMA SessionsExpire ==
  ASSUME IInv, SInv, PurgeTokens \/ \E t \in Tokens : SessionExpires(t)
  PROVE  SInv'
<1>1. UNCHANGED <<user, link, wrong, opened, requests>>
  BY DEF PurgeTokens, SessionExpires
<1>2. Ends
  <2>1. CASE PurgeTokens
    <3>1. PICK t \in Tokens : session[t].expired /\ session[t].state # "purged"
                              /\ session' = [session EXCEPT ![t].state = "purged"]
      BY <2>1 DEF PurgeTokens
    <3>2. session[t].state # "none" /\ session[t] \in SessionRows
      BY <3>1 DEF SInv, Families, IInv, PeopleOK
    <3> QED
      BY <3>1, <3>2 DEF Ends, SInv, Families, IInv, PeopleOK, SessionRows
  <2>2. ASSUME NEW t \in Tokens, SessionExpires(t) PROVE Ends
    <3>1. session[t] \in SessionRows
      BY DEF IInv, PeopleOK
    <3> QED
      BY <2>2, <3>1 DEF SessionExpires, Ends, SInv, Families, IInv, PeopleOK, SessionRows
  <2> QED
    BY <2>1, <2>2
<1>3. Families' /\ LiveOnce' /\ WorthySessions'
  BY <1>1, <1>2, EndsKeep, EndsOnce DEF SInv
<1>4. Persons' /\ LinksGood' /\ Serial'
  BY <1>1, PersonsKept, LinksKept DEF SInv, Serial, At
<1>5. ASSUME NEW r \in Requests PROVE Held(requests[r])'
  <2> DEFINE q == requests[r]
  <2>1. Held(q) /\ requests'[r] = q
    BY <1>1 DEF SInv
  <2>2. HeldRow(q)' /\ HeldPassword(q)' /\ HeldLink(q)'
    BY <1>1, <2>1 DEF Held, HeldRow, HeldPassword, HeldLink, exists
  <2>3. HeldToken(q)'
    <3>1. SUFFICES ASSUME q.next = "rotate" PROVE HeldToken(q)'
      BY <1>1 DEF HeldToken
    <3>2. q.token \in Tokens
      BY <3>1, InHand DEF IInv, At, TokenSteps
    <3>3. HeldToken(q)
      BY <2>1 DEF Held
    <3>4. \A u \in Tokens : live(u)' => live(u)
      BY <1>2, EndsKeep DEF SInv
    <3> QED
      BY <1>1, <1>2, <3>1, <3>2, <3>3, <3>4 DEF HeldToken, Ends, Worthy
  <2> QED
    BY <2>2, <2>3 DEF Held
<1> QED
  BY <1>3, <1>4, <1>5 DEF SInv

LEMMA LinksExpire ==
  ASSUME IInv, SInv, NEW l \in Links, LinkExpires(l)
  PROVE  SInv'
<1>1. UNCHANGED <<user, session, wrong, opened, requests>>
  BY DEF LinkExpires
<1>2. \A k \in Links : /\ link'[k].state = link[k].state
                       /\ link'[k].account = link[k].account
                       /\ link'[k].purpose = link[k].purpose
  BY DEF LinkExpires, IInv, PeopleOK, LinkRows
<1>3. LinksGood'
  BY <1>1, <1>2 DEF SInv, LinksGood, LinkGood, Rivals, exists
<1>4. /\ Persons' /\ Families' /\ Serial' /\ LiveOnce' /\ WorthySessions'
  BY <1>1, PersonsKept, SessionsKept
     DEF SInv, Serial, At, LiveOnce, WorthySessions, Twins, renewing, closing, Worthy, live
<1>5. ASSUME NEW r \in Requests PROVE Held(requests[r])'
  <2> DEFINE q == requests[r]
  <2>1. Held(q) /\ requests'[r] = q
    BY <1>1 DEF SInv
  <2>2. HeldRow(q)' /\ HeldPassword(q)' /\ HeldToken(q)'
    BY <1>1, <2>1 DEF Held, HeldRow, HeldPassword, HeldToken, Worthy, live
  <2>3. q.next \in LinkSteps => q.link \in Links
    BY InHand DEF IInv, At, LinkSteps
  <2>4. HeldLink(q)'
    BY <1>1, <1>2, <2>1, <2>3 DEF Held, HeldLink, exists, purposeOf
  <2> QED
    BY <2>2, <2>4 DEF Held
<1> QED
  BY <1>3, <1>4, <1>5 DEF SInv

LEMMA LocksEnd ==
  ASSUME IInv, SInv, NEW a \in Accounts, LockEnds(a)
  PROVE  SInv'
<1>1. UNCHANGED <<session, link, wrong, opened, requests>>
  BY DEF LockEnds
<1>2. \A b \in Accounts :
        /\ user'[b].status = user[b].status /\ user'[b].password = user[b].password
        /\ user'[b].activated = user[b].activated /\ user'[b].failures = user[b].failures
        /\ user'[b].online = user[b].online /\ (user'[b].locked => user[b].locked)
  BY DEF LockEnds, IInv, PeopleOK, UserRows
<1>3. Persons'
  BY <1>1, <1>2 DEF SInv, Persons, PersonOK
<1>4. LinksGood'
  BY <1>1, <1>2 DEF SInv, LinksGood, LinkGood, Rivals, exists, IInv, PeopleOK
<1>5. Families' /\ Serial' /\ LiveOnce'
  BY <1>1, SessionsKept DEF SInv, Serial, At, LiveOnce, Twins, renewing, live
<1>6. WorthySessions'
  BY <1>1, <1>2 DEF SInv, WorthySessions, closing, Worthy, live, IInv, PeopleOK
<1>7. ASSUME NEW r \in Requests PROVE Held(requests[r])'
  <2> DEFINE q == requests[r]
  <2>1. Held(q) /\ requests'[r] = q
    BY <1>1 DEF SInv
  <2>2. q.next \in {"idle", "inside"} \/ q.account \in Accounts
    BY InHand DEF IInv, At
  <2> QED
    BY <1>1, <1>2, <2>1, <2>2
       DEF Held, HeldRow, HeldPassword, HeldToken, HeldLink, LinkSteps, Existing, exists, purposeOf,
           Worthy, live
<1> QED
  BY <1>3, <1>4, <1>5, <1>6, <1>7 DEF SInv

(***************************************************************************)
(* Staff                                                                   *)
(***************************************************************************)
LEMMA OpensAccount ==
  ASSUME OneByOne, IInv, SInv, NEW r \in Requests, NEW op, NEW a \in Accounts, NEW mode,
         NEW next, next.next \notin Watched, OpenAccount(r, op, a, mode, next)
  PROVE  SInv'
<1>1. quiet /\ Lone(r) /\ Becomes(r, next)
  BY Arrives DEF SInv, OpenAccount
<1>2. OneLive /\ AllWorthy /\ Families'
  BY <1>1, AtRest, SessionsKept DEF SInv, OpenAccount
<1>3. UNCHANGED <<session, wrong, opened>> /\ user[a].status = "ABSENT"
  BY DEF OpenAccount, exists
<1>4. PICK row : /\ user' = [user EXCEPT ![a] = row]
                 /\ row.status # "ABSENT" /\ row.failures = 0 /\ ~ row.locked /\ ~ row.online
  BY DEF OpenAccount, NewUser
<1>5. PutUser(a, row) /\ PersonOK(row, wrong'[a], RoleOf[a])
  BY <1>3, <1>4 DEF PutUser, PersonOK, SInv, Persons
<1>6. Persons' /\ user'[a] = row /\ AllWorthy'
  BY <1>2, <1>3, <1>5, PutPerson, WorthyStay DEF SInv
<1>7. StillThere
  BY <1>4, <1>5, <1>6 DEF StillThere, exists, PutUser, IInv, PeopleOK
<1>8. LinksGood'
  <2>1. CASE UNCHANGED link
    BY <1>3, <1>4, <1>5, <2>1, LinksStay DEF SInv
  <2>2. CASE SendLink(a, "ACTIVATION")
    BY <1>3, <1>4, <1>6, <1>7, <2>2, SendLinkGood DEF SInv
  <2> QED
    BY <2>1, <2>2 DEF OpenAccount
<1>9. OneLive'
  BY <1>2, <1>3, SessionsKept
<1>10. Held(next)'
  BY DEF Held, HeldRow, HeldPassword, HeldToken, HeldLink, LinkSteps, Existing, Watched
<1> QED
  BY <1>1, <1>2, <1>6, <1>8, <1>9, <1>10, CalmAfter

LEMMA Creates ==
  ASSUME OneByOne, IInv, SInv, NEW r \in Requests, NEW a \in Accounts, NEW mode,
         CreateAdmin(r, a, mode) \/ CreateDriver(r, a, mode)
  PROVE  SInv'
<1>1. Idle.next \notin Watched
  BY DEF Idle, Watched, LinkSteps, Existing
<1>2. ASSUME NEW list PROVE [On("grantTx", a) EXCEPT !.wanted = list].next \notin Watched
  <2>1. [On("grantTx", a) EXCEPT !.wanted = list].next = "grantTx"
    BY OnWith
  <2> QED
    BY <2>1 DEF Watched, LinkSteps, Existing
<1> QED
  BY <1>1, <1>2, OpensAccount DEF CreateAdmin, CreateDriver

\* A row that staff write: the person stays the same.
SamePerson(row, a) ==
  /\ row.password = user[a].password /\ row.activated = user[a].activated
  /\ row.failures = user[a].failures /\ row.locked = user[a].locked
  /\ row.status # "ABSENT"
  /\ row.online => row.status = "ACTIVE" /\ RoleOf[a] = "DRIVER"

LEMMA SamePersonOK ==
  ASSUME IInv, SInv, NEW a \in Accounts, NEW row, SamePerson(row, a), UNCHANGED wrong
  PROVE  PersonOK(row, wrong'[a], RoleOf[a])
  BY DEF SInv, Persons, PersonOK, SamePerson

LEMMA StatusWritten ==
  ASSUME OneByOne, IInv, SInv, NEW r \in Requests, NEW op, NEW a \in Accounts, NEW row,
         SamePerson(row, a), WriteStatus(r, op, a, row)
  PROVE  SInv'
<1> DEFINE next == IF row.status = "ACTIVE" THEN Idle ELSE On("revokeAll", a)
<1>1. quiet /\ Lone(r) /\ Becomes(r, next)
  BY Arrives DEF SInv, WriteStatus
<1>2. OneLive /\ AllWorthy
  BY <1>1, AtRest
<1>3. PutUser(a, row) /\ UNCHANGED <<session, link, opened, wrong>>
  BY DEF WriteStatus, PutUser
<1>4. PersonOK(row, wrong'[a], RoleOf[a]) /\ row.status # "ABSENT"
  BY <1>3, SamePersonOK DEF SamePerson
<1>5. CASE row.status = "ACTIVE"
  <2>1. \A p : Worthy(user[a], p) => Worthy(row, p)
    BY <1>5 DEF Worthy, SamePerson
  <2>2. Becomes(r, Idle) /\ Held(Idle)'
    BY <1>1, <1>5
       DEF Held, HeldRow, HeldPassword, HeldToken, HeldLink, LinkSteps, Existing, Idle
  <2> QED
    BY <1>1, <1>2, <1>3, <1>4, <2>1, <2>2, Writes
<1>6. CASE row.status # "ACTIVE"
  <2>1. next.next = "revokeAll" /\ next.account = a
    BY <1>6, OnFields
  <2> QED
    BY <1>1, <1>2, <1>3, <1>4, <2>1, WritesAndCloses DEF Closers
<1> QED
  BY <1>5, <1>6

LEMMA StaffRows ==
  ASSUME IInv, SInv, NEW a \in Accounts
  PROVE  /\ \A status \in Statuses :
              /\ RoleOf[a] # "DRIVER" => SamePerson([user[a] EXCEPT !.status = status], a)
              /\ RoleOf[a] = "DRIVER" =>
                   SamePerson([user[a] EXCEPT !.status = status,
                                              !.online = @ /\ status = "ACTIVE"], a)
         /\ SamePerson(removedRow(a), a)
         /\ RoleOf[a] = "DRIVER" /\ user[a].status = "ACTIVE" =>
              SamePerson([user[a] EXCEPT !.online = TRUE], a)
<1>1. user[a] \in UserRows /\ (user[a].online => user[a].status = "ACTIVE" /\ RoleOf[a] = "DRIVER")
  BY DEF IInv, PeopleOK, SInv, Persons, PersonOK
<1>2. ASSUME NEW status \in Statuses PROVE status # "ABSENT"
  BY DirectoryAssumption
<1>3. ASSUME NEW status \in Statuses, RoleOf[a] # "DRIVER"
      PROVE  SamePerson([user[a] EXCEPT !.status = status], a)
  BY <1>1, <1>2, <1>3 DEF SamePerson, UserRows
<1>4. ASSUME NEW status \in Statuses, RoleOf[a] = "DRIVER"
      PROVE  SamePerson([user[a] EXCEPT !.status = status, !.online = @ /\ status = "ACTIVE"], a)
  <2> DEFINE atWork == user[a].online /\ status = "ACTIVE"
             row == [user[a] EXCEPT !.status = status, !.online = atWork]
  <2>1. /\ row.password = user[a].password /\ row.activated = user[a].activated
        /\ row.failures = user[a].failures /\ row.locked = user[a].locked
        /\ row.status = status /\ row.online = atWork
    <3> HIDE DEF atWork
    <3> QED
      BY <1>1, Zenon DEF UserRows
  <2>2. row.online => row.status = "ACTIVE"
    BY <2>1
  <2>3. row = [user[a] EXCEPT !.status = status, !.online = @ /\ status = "ACTIVE"]
    BY <1>1 DEF UserRows
  <2> HIDE DEF row
  <2>4. SamePerson(row, a)
    BY <1>2, <1>4, <2>1, <2>2 DEF SamePerson
  <2> QED
    BY <2>3, <2>4
<1>5. SamePerson(removedRow(a), a)
  BY <1>1 DEF SamePerson, UserRows, removedRow
<1>6. RoleOf[a] = "DRIVER" /\ user[a].status = "ACTIVE" =>
        SamePerson([user[a] EXCEPT !.online = TRUE], a)
  BY <1>1 DEF SamePerson, UserRows
<1> QED
  BY <1>3, <1>4, <1>5, <1>6

LEMMA StaffSets ==
  ASSUME OneByOne, IInv, SInv, NEW r \in Requests, NEW a \in Accounts,
         \/ \E status \in Statuses : \/ SetAdminStatus(r, a, status)
                                     \/ SetCustomerStatus(r, a, status)
                                     \/ SetDriverStatus(r, a, status)
         \/ RemoveDriver(r, a)
  PROVE  SInv'
<1>1. ASSUME NEW status \in Statuses, \/ SetAdminStatus(r, a, status)
                                      \/ SetCustomerStatus(r, a, status)
      PROVE  SInv'
  <2>1. SamePerson([user[a] EXCEPT !.status = status], a)
    BY <1>1, StaffRows DEF SetAdminStatus, SetCustomerStatus, manageable
  <2> QED
    BY <1>1, <2>1, StatusWritten DEF SetAdminStatus, SetCustomerStatus
<1>2. ASSUME NEW status \in Statuses, SetDriverStatus(r, a, status) PROVE SInv'
  <2>1. SamePerson([user[a] EXCEPT !.status = status, !.online = @ /\ status = "ACTIVE"], a)
    BY <1>2, StaffRows DEF SetDriverStatus
  <2> QED
    BY <1>2, <2>1, StatusWritten DEF SetDriverStatus
<1>3. ASSUME RemoveDriver(r, a) PROVE SInv'
  BY <1>3, StaffRows, StatusWritten DEF RemoveDriver
<1> QED
  BY <1>1, <1>2, <1>3

LEMMA StaffRemoves ==
  ASSUME OneByOne, IInv, SInv, NEW r \in Requests, NEW a \in Accounts, RemoveAdmin(r, a)
  PROVE  SInv'
<1>1. quiet /\ Lone(r) /\ Becomes(r, On("removeRevoke", a))
  BY Arrives DEF SInv, RemoveAdmin
<1>2. OneLive /\ AllWorthy
  BY <1>1, AtRest
<1>3. PutUser(a, removedRow(a)) /\ UNCHANGED <<session, link, opened, wrong>>
  BY DEF RemoveAdmin, PutUser
<1>4. SamePerson(removedRow(a), a)
  BY StaffRows
<1>5. PersonOK(removedRow(a), wrong'[a], RoleOf[a]) /\ removedRow(a).status # "ABSENT"
  BY <1>3, <1>4, SamePersonOK DEF SamePerson
<1>6. On("removeRevoke", a).next \in Closers /\ On("removeRevoke", a).account = a
  BY OnFields DEF Closers
<1> QED
  BY <1>1, <1>2, <1>3, <1>5, <1>6, WritesAndCloses

LEMMA GoesOnline ==
  ASSUME OneByOne, IInv, SInv, NEW r \in Requests, NEW a \in Accounts, GoOnline(r, a)
  PROVE  SInv'
<1> DEFINE row == [user[a] EXCEPT !.online = TRUE]
<1>1. quiet /\ Lone(r) /\ Becomes(r, Idle)
  BY Arrives DEF SInv, GoOnline
<1>2. OneLive /\ AllWorthy
  BY <1>1, AtRest
<1>3. PutUser(a, row) /\ UNCHANGED <<session, link, opened, wrong>>
  BY DEF GoOnline, PutUser
<1>4. SamePerson(row, a) /\ row.status = user[a].status
  <2>1. user[a] \in UserRows
    BY DEF IInv, PeopleOK
  <2> QED
    BY <2>1, StaffRows DEF GoOnline, signedIn, UserRows
<1> HIDE DEF row
<1>5. PersonOK(row, wrong'[a], RoleOf[a]) /\ row.status # "ABSENT"
  BY <1>3, <1>4, SamePersonOK DEF SamePerson
<1>6. \A p : Worthy(user[a], p) => Worthy(row, p)
  BY <1>4 DEF Worthy, SamePerson
<1>7. Held(Idle)'
  BY DEF Held, HeldRow, HeldPassword, HeldToken, HeldLink, LinkSteps, Existing, Idle
<1> QED
  BY <1>1, <1>2, <1>3, <1>5, <1>6, <1>7, Writes

(***************************************************************************)
(* The way in, and what a new list costs                                   *)
(***************************************************************************)
Doorway == {"validate", "cacheGet", "cacheFill", "cacheSet", "guards", "inside", "grantTx",
            "invalidate"}

LEMMA DoorwayMoves ==
  ASSUME IInv, SInv, NEW r \in Requests,
         \/ Validate(r) \/ CacheGet(r) \/ CacheFill(r) \/ CacheSet(r) \/ Guards(r) \/ Leave(r)
         \/ GrantTx(r) \/ Invalidate(r)
  PROVE  SInv'
<1>1. requests[r].next \in Doorway /\ requests[r] \in RequestRows
  BY DEF At, Doorway, IInv, RequestsOK, Validate, CacheGet, CacheFill, CacheSet, Guards, Leave,
         GrantTx, Invalidate
<1>2. UNCHANGED <<user, session, link, wrong, opened>>
  BY DEF tables, Validate, CacheGet, CacheFill, CacheSet, Guards, Leave, GrantTx, Invalidate
<1>3. PICK row : Becomes(r, row) /\ row.next \in Doorway \union {"idle"}
  <2>1. CASE Finish(r)
    BY <2>1, EndsIdle
  <2>2. ASSUME NEW step \in Doorway, GoTo(r, step)
        PROVE  \E row : Becomes(r, row) /\ row.next \in Doorway \union {"idle"}
    BY <2>2, GoesOn DEF IInv
  <2>3. CASE Validate(r)
    <3> DEFINE a == requests[r].account
               held == IF RoleOf[a] = "SUPER_ADMIN" THEN PERMISSIONS ELSE {}
               step == IF RoleOf[a] = "ADMIN" THEN "cacheGet" ELSE "guards"
               p == [requests[r] EXCEPT !.seen = user[a], !.permissions = held, !.next = step]
               q == [requests[r] EXCEPT !.next = "inside", !.account = NoAccount]
    <3>1. p.next \in Doorway /\ q.next \in Doorway
      BY <1>1 DEF RequestRows, Doorway
    <3>2. Becomes(r, p) \/ Becomes(r, q) \/ Finish(r)
      BY <1>1, <2>3 DEF Validate, Becomes, RequestRows, IInv, RequestsOK
    <3> HIDE DEF p, q
    <3> QED
      BY <2>1, <3>1, <3>2
  <2>4. CASE CacheGet(r) \/ CacheFill(r)
    <3> DEFINE a == requests[r].account
               p == [requests[r] EXCEPT !.permissions = cache[a].permissions,
                                        !.next = afterRead(r)]
               q == [requests[r] EXCEPT !.permissions = effective(RoleOf[a], override[a]),
                                        !.next = "cacheSet"]
    <3>1. p.next \in Doorway /\ q.next \in Doorway
      BY <1>1 DEF RequestRows, Doorway, afterRead
    <3>2. Becomes(r, p) \/ Becomes(r, q) \/ GoTo(r, "cacheFill")
      BY <1>1, <2>4 DEF CacheGet, CacheFill, Becomes, RequestRows, IInv, RequestsOK
    <3>3. "cacheFill" \in Doorway
      BY DEF Doorway
    <3> HIDE DEF p, q
    <3> QED
      BY <2>2, <3>1, <3>2, <3>3
  <2>5. CASE CacheSet(r) \/ Guards(r) \/ Leave(r) \/ GrantTx(r) \/ Invalidate(r)
    <3>1. afterRead(r) \in Doorway /\ {"inside", "invalidate"} \subseteq Doorway
      BY DEF afterRead, Doorway
    <3> QED
      BY <2>1, <2>2, <2>5, <3>1 DEF CacheSet, Guards, Leave, GrantTx, Invalidate
  <2> QED
    BY <2>3, <2>4, <2>5
<1>4. Held(row)
  BY <1>3, UnwatchedHolds DEF Doorway, Watched, LinkSteps, Existing
<1> QED
  BY <1>1, <1>2, <1>3, <1>4, OnlyMoves DEF Doorway, Closers

(***************************************************************************)
(* The invariant                                                           *)
(***************************************************************************)
LEMMA InitSInv == Init => SInv
<1> SUFFICES ASSUME Init PROVE SInv
  OBVIOUS
<1>1. \A r \in Requests : requests[r].next = "idle"
  BY DEF Init, Idle
<1>2. Serial /\ \A r \in Requests : Held(requests[r])
  BY <1>1, IdleHolds DEF Serial, At
<1>3. Persons
  BY DEF Init, Persons, PersonOK, NewUser
<1>4. LinksGood
  <2>1. \A l \in Links : link[l].state = "none" /\ opened[l] = 0
    BY DEF Init, NoLink
  <2>2. ASSUME NEW l \in Links PROVE LinkGood(l)
    <3>1. opened[l] <= 1
      <4>1. opened[l] = 0
        BY <2>1
      <4> QED
        BY <4>1
    <3> QED
      BY <2>1, <3>1 DEF LinkGood
  <2>3. \A k, l \in Links : ~ Rivals(k, l)
    BY <2>1 DEF Rivals
  <2> QED
    BY <2>2, <2>3 DEF LinksGood
<1>5. Families /\ LiveOnce /\ WorthySessions
  BY DEF Init, Families, LiveOnce, WorthySessions, Twins, live, NoSession
<1> QED
  BY <1>2, <1>3, <1>4, <1>5 DEF SInv

LEMMA PeopleStay ==
  ASSUME IInv, SInv, UNCHANGED <<user, session, link, wrong, opened, requests>>
  PROVE  SInv'
<1>1. Persons' /\ LinksGood' /\ Families'
  BY PersonsKept, LinksKept, SessionsKept DEF SInv
<1>2. Serial' /\ LiveOnce' /\ WorthySessions'
  BY DEF SInv, Serial, At, LiveOnce, WorthySessions, Twins, renewing, closing, Worthy, live
<1>3. \A r \in Requests : Held(requests[r])'
  BY HeldKept DEF SInv
<1> QED
  BY <1>1, <1>2, <1>3 DEF SInv

LEMMA NextSInv ==
  ASSUME OneByOne, IInv, SInv, [Next]_vars
  PROVE  SInv'
<1>1. CASE SessionsNext
  BY <1>1, SignsIn, SendsLink, SignsOut, MarkLoginStep, RegisterTxStep, LoginFailsStep,
     LoginSucceedsStep, IssueStep, ShowsToken, RevokeStep, RotateStep, ShowsLink, ResetTxStep,
     ChangeTxStep, ActivateTxStep, SessionsExpire, LinksExpire, LocksEnd DEF SessionsNext
<1>2. CASE TeamNext
  BY <1>2, Creates, KnocksOrAsks, StaffSets, StaffRemoves, SendsLink, GoesOnline, DoorwayMoves,
     RevokeStep DEF TeamNext
<1>3. CASE GateNext
  <2>1. CASE \E r \in Requests :
               \/ \E a \in Accounts, route \in Doors : Knock(r, a, route)
               \/ Validate(r) \/ CacheGet(r) \/ CacheFill(r) \/ CacheSet(r) \/ Guards(r)
               \/ Leave(r)
    BY <2>1, KnocksOrAsks, DoorwayMoves
  <2>2. CASE (\E a \in Accounts : CacheExpires(a)) \/ RedisFails \/ RedisReturns
    BY <2>2, PeopleStay DEF CacheExpires, RedisFails, RedisReturns
  <2> QED
    BY <1>3, <2>1, <2>2 DEF GateNext
<1>4. CASE UNCHANGED vars
  BY <1>4, PeopleStay DEF vars
<1> QED
  BY <1>1, <1>2, <1>3, <1>4 DEF Next

LEMMA AlwaysSInv == ASSUME OneByOne PROVE Spec => []SInv
  BY InitSInv, AlwaysIInv, NextIInv, NextSInv, PTL DEF Spec

\* Of a family of refresh tokens, at most one can be renewed: rotating a token
\* revokes it, and showing a revoked one closes the family.
THEOREM OneTokenRenews == OneByOne => (Spec => []OneLivePerFamily)
<1> SUFFICES ASSUME OneByOne PROVE Spec => []OneLivePerFamily
  OBVIOUS
<1>1. IInv /\ SInv => OneLivePerFamily
  BY AtRest DEF OneLivePerFamily, OneLive, Twins
<1> QED
  BY <1>1, AlwaysIInv, AlwaysSInv, PTL

\* No session outlives the password that opened it, an activation excepted, nor
\* the suspension or the removal of its account, and a driver who is closed is
\* off line: whichever route it was closed by.
THEOREM SessionsFollow == OneByOne => (Spec => []SessionsFollowTheAccount)
<1> SUFFICES ASSUME OneByOne PROVE Spec => []SessionsFollowTheAccount
  OBVIOUS
<1>1. ASSUME IInv, SInv PROVE SessionsOfThisPassword
  <2> SUFFICES ASSUME quiet PROVE SessionsOfThisPassword
    BY DEF SessionsOfThisPassword
  <2> QED
    BY <1>1, AtRest DEF SessionsOfThisPassword, AllWorthy, Worthy
<1>2. ASSUME IInv, SInv PROVE ClosedHasNoSession
  <2> SUFFICES ASSUME quiet, NEW a \in Accounts, user[a].status # "ACTIVE"
               PROVE  sessionsOf(a) = {} /\ ~ user[a].online
    BY DEF ClosedHasNoSession
  <2>1. \A t \in Tokens : live(t) => session[t].account # a
    BY <1>2, AtRest DEF AllWorthy, Worthy
  <2>2. ~ user[a].online
    BY <1>2 DEF SInv, Persons, PersonOK
  <2> QED
    BY <2>1, <2>2 DEF sessionsOf
<1> QED
  BY <1>1, <1>2, AlwaysIInv, AlwaysSInv, PTL DEF SessionsFollowTheAccount

\* The count of failures of an account is that of the wrong passwords since it
\* last proved itself, and nobody is locked out before MaxAttempts of them.
THEOREM FailuresAreCounted == OneByOne => (Spec => []FailuresCounted)
<1> SUFFICES ASSUME OneByOne PROVE Spec => []FailuresCounted
  OBVIOUS
<1>1. SInv => FailuresCounted
  BY DEF SInv, Persons, PersonOK, FailuresCounted
<1> QED
  BY <1>1, AlwaysSInv, PTL

\* A link chooses one password, and sending a link of a kind spends the former.
THEOREM LinksOpenOnce == OneByOne => (Spec => []LinkOpensOnce)
<1> SUFFICES ASSUME OneByOne PROVE Spec => []LinkOpensOnce
  OBVIOUS
<1>1. ASSUME SInv PROVE LinkOpensOnce
  <2>1. ASSUME NEW a \in Accounts, NEW purpose \in {"RESET", "ACTIVATION"}
        PROVE  Cardinality(unusedLinks(a, purpose)) <= 1
    <3>1. CASE unusedLinks(a, purpose) = {}
      BY <3>1, FS_EmptySet
    <3>2. ASSUME NEW l \in unusedLinks(a, purpose)
          PROVE  Cardinality(unusedLinks(a, purpose)) <= 1
      <4>1. unusedLinks(a, purpose) = {l}
        BY <1>1, <3>2 DEF SInv, LinksGood, Rivals, unusedLinks
      <4> QED
        BY <4>1, FS_Singleton
    <3> QED
      BY <3>1, <3>2
  <2>2. \A l \in Links : opened[l] <= 1
    BY <1>1 DEF SInv, LinksGood, LinkGood
  <2> QED
    BY <2>1, <2>2 DEF LinkOpensOnce
<1> QED
  BY <1>1, AlwaysSInv, PTL

(***************************************************************************)
(* Permissions that are withdrawn                                          *)
(***************************************************************************)
\* What an ADMIN holds in the table.
Present(a) == effective("ADMIN", override[a])

Admin(a) == a \in Accounts /\ RoleOf[a] = "ADMIN"

invalidating(a) == \E r \in Requests : At(r, "invalidate") /\ requests[r].account = a

Current(q) == q.next \in Judged /\ Admin(q.account) => q.permissions = Present(q.account)

\* Redis answers: an entry of the cache that is not what the table says is about
\* to be dropped, and what a request is judged on is what the table says.
CInv ==
  /\ redis
  /\ \A a \in Accounts :
       Admin(a) /\ cache[a].held => cache[a].permissions = Present(a) \/ invalidating(a)
  /\ \A r \in Requests : Current(requests[r])

\* A request moves, and no permission is written.
LEMMA MovesCurrent ==
  ASSUME IInv, CInv, UNCHANGED <<override, cache, redis>>, NEW r \in Requests, NEW row,
         requests[r].next # "invalidate", Becomes(r, row), Current(row)
  PROVE  CInv'
<1>1. /\ requests'[r] = row
      /\ \A p \in Requests : p # r => requests'[p] = requests[p]
  BY DEF Becomes, IInv, RequestsOK
<1>2. \A p \in Requests : Current(requests[p])'
  BY <1>1 DEF CInv, Current, Present
<1>3. \A a \in Accounts : invalidating(a) => invalidating(a)'
  BY <1>1 DEF invalidating, At
<1> QED
  BY <1>2, <1>3 DEF CInv, Present

LEMMA AsideCurrent == ASSUME IInv, CInv, Aside PROVE CInv'
<1>1. CASE UNCHANGED requests
  BY <1>1 DEF Aside, CInv, Present, Current, invalidating, At
<1>2. ASSUME NEW r \in Requests, requests[r].next # "invalidate", NEW row, Becomes(r, row),
             AsideRow(row)
      PROVE  CInv'
  <2>1. Current(row)
    BY <1>2, DirectoryAssumption DEF AsideRow, Current, Admin
  <2> QED
    BY <1>2, <2>1, MovesCurrent DEF Aside
<1> QED
  BY <1>1, <1>2 DEF Aside

\* With one request at work, the permissions change under no other.
LEMMA NoneJudged ==
  ASSUME IInv, NEW r \in Requests, NEW row, Becomes(r, row), Lone(r)
  PROVE  /\ requests'[r] = row
         /\ \A p \in Requests : p # r => Current(requests[p])'
         /\ \A a : invalidating(a) => requests[r].account = a
<1>1. /\ requests'[r] = row
      /\ \A p \in Requests : p # r => requests'[p] = requests[p]
  BY DEF Becomes, IInv, RequestsOK
<1> QED
  BY <1>1 DEF Lone, At, Current, Judged, invalidating

LEMMA ReadsPermissions ==
  ASSUME IInv, Serial, CInv, NEW r \in Requests, CacheGet(r) \/ CacheFill(r)
  PROVE  CInv'
<1> DEFINE a == requests[r].account
           p == [requests[r] EXCEPT !.permissions = cache[a].permissions, !.next = afterRead(r)]
           q == [requests[r] EXCEPT !.permissions = effective(RoleOf[a], override[a]),
                                    !.next = "cacheSet"]
<1>1. requests[r] \in RequestRows /\ requests[r].next \in {"cacheGet", "cacheFill"}
  BY DEF IInv, RequestsOK, CacheGet, CacheFill, At
<1>2. /\ p.account = a /\ p.permissions = cache[a].permissions
      /\ q.account = a /\ q.permissions = effective(RoleOf[a], override[a])
  BY <1>1 DEF RequestRows
<1>3. \/ Becomes(r, p) /\ hit(a)
      \/ Becomes(r, q)
      \/ GoTo(r, "cacheFill")
  BY <1>1 DEF CacheGet, CacheFill, Becomes
<1>4. UNCHANGED <<override, cache, redis>>
  BY DEF CacheGet, CacheFill, tables
<1> HIDE DEF p, q
<1>5. CASE GoTo(r, "cacheFill")
  BY <1>1, <1>4, <1>5, GoesAside, AsideCurrent DEF IInv, Judged
<1>6. Current(q)
  BY <1>2 DEF Current, Admin, Present
<1>7. CASE hit(a)
  <2>1. ~ invalidating(a)
    BY <1>1 DEF Serial, At, invalidating
  <2>2. Admin(a) => cache[a].permissions = Present(a)
    BY <1>7, <2>1 DEF CInv, hit, Admin
  <2> QED
    BY <1>2, <1>1, <1>3, <1>4, <1>5, <1>6, <2>2, MovesCurrent DEF Current
<1> QED
  BY <1>1, <1>3, <1>4, <1>5, <1>6, <1>7, MovesCurrent

LEMMA JudgesPermissions ==
  ASSUME IInv, CInv, NEW r \in Requests, Validate(r) \/ Guards(r)
  PROVE  CInv'
<1>1. requests[r] \in RequestRows /\ requests[r].next \in {"validate", "guards"}
  BY DEF IInv, RequestsOK, Validate, Guards, At
<1>2. UNCHANGED <<override, cache, redis>>
  BY DEF Validate, Guards, tables
<1>3. ASSUME Finish(r) PROVE CInv'
  BY <1>1, <1>2, <1>3, EndsAside, AsideCurrent
<1>4. CASE Validate(r)
  <2> DEFINE a == requests[r].account
             step == IF RoleOf[a] = "ADMIN" THEN "cacheGet" ELSE "guards"
             p == [requests[r] EXCEPT
                     !.seen = user[a],
                     !.permissions = IF RoleOf[a] = "SUPER_ADMIN" THEN PERMISSIONS ELSE {},
                     !.next = step]
             q == [requests[r] EXCEPT !.next = "inside", !.account = NoAccount]
  <2>1. p.account = a /\ p.next = step /\ q.account = NoAccount
    BY <1>1 DEF RequestRows
  <2>2. Becomes(r, p) \/ Becomes(r, q) \/ Finish(r)
    BY <1>1, <1>4 DEF Validate, Becomes
  <2>3. Current(p) /\ Current(q)
    <3> HIDE DEF p, q
    <3> QED
      BY <2>1, DirectoryAssumption DEF Current, Admin, Judged
  <2> HIDE DEF p, q
  <2> QED
    BY <1>1, <1>2, <1>3, <2>2, <2>3, MovesCurrent
<1>5. CASE Guards(r) /\ GoTo(r, "inside")
  <2>1. PICK row : /\ Becomes(r, row) /\ row.account = requests[r].account
                   /\ row.permissions = requests[r].permissions
    BY <1>5, GoesOn DEF IInv
  <2>2. Current(row)
    BY <1>5, <2>1 DEF CInv, Current, Guards, At, Judged
  <2> QED
    BY <1>1, <1>2, <2>1, <2>2, MovesCurrent
<1> QED
  BY <1>3, <1>4, <1>5 DEF Guards

LEMMA WritesTheCache ==
  ASSUME IInv, Serial, CInv, NEW r \in Requests, CacheSet(r)
  PROVE  CInv'
<1> DEFINE a == requests[r].account
<1>1. requests[r].next = "cacheSet" /\ Lone(r) /\ a \in Accounts
  BY Works, InHand DEF CacheSet, At, IInv
<1>2. PICK row : /\ Becomes(r, row) /\ row.account = a
                 /\ row.permissions = requests[r].permissions
  BY GoesOn DEF CacheSet, IInv
<1>3. /\ requests'[r] = row
      /\ \A p \in Requests : p # r => Current(requests[p])'
  BY <1>1, <1>2, NoneJudged
<1>4. redis' /\ UNCHANGED override
  BY DEF CacheSet, CInv
<1>5. Admin(a) => requests[r].permissions = Present(a)
  BY <1>1 DEF CInv, Current, Judged
<1>6. Current(requests[r])'
  BY <1>2, <1>3, <1>4, <1>5 DEF Current, Present, Admin
<1>7. ASSUME NEW b \in Accounts, Admin(b), cache'[b].held
      PROVE  cache'[b].permissions = effective("ADMIN", override'[b])
  <2>1. cache' = [cache EXCEPT ![a] = [held |-> TRUE, permissions |-> requests[r].permissions]]
    BY DEF CacheSet, CInv
  <2>2. CASE b = a
    BY <1>1, <1>4, <1>5, <1>7, <2>1, <2>2 DEF Present, IInv, PermissionsOK
  <2>3. CASE b # a
    <3>1. ~ invalidating(b)
      BY <1>1 DEF invalidating, Lone, At
    <3> QED
      BY <1>4, <1>7, <2>1, <2>3, <3>1 DEF CInv, Present, IInv, PermissionsOK
  <2> QED
    BY <2>2, <2>3
<1> QED
  BY <1>3, <1>4, <1>6, <1>7 DEF CInv, Present, Admin

LEMMA GivesPermissions ==
  ASSUME IInv, Serial, CInv, NEW r \in Requests, GrantTx(r)
  PROVE  CInv'
<1> DEFINE a == requests[r].account
           list == requests[r].wanted
<1>1. requests[r].next = "grantTx" /\ Lone(r) /\ a \in Accounts
  BY Works, InHand DEF GrantTx, At, IInv
<1>2. CASE ~ delegable(list)
  BY <1>1, <1>2, EndsAside, AsideCurrent DEF GrantTx
<1>3. CASE delegable(list)
  <2>1. PICK row : Becomes(r, row) /\ row.account = a /\ row.next = "invalidate"
    BY <1>3, GoesOn DEF GrantTx, IInv
  <2>2. /\ requests'[r] = row
        /\ \A p \in Requests : p # r => Current(requests[p])'
    BY <1>1, <2>1, NoneJudged
  <2>3. Current(requests[r])'
    BY <2>1, <2>2 DEF Current, Judged
  <2>4. redis' /\ UNCHANGED cache /\ override' = [override EXCEPT ![a] = overridesFor(list)]
    BY <1>3 DEF GrantTx, CInv
  <2>5. requests'[r].next = "invalidate" /\ requests'[r].account = a
    BY <2>1, <2>2
  <2>6. ASSUME NEW b \in Accounts, Admin(b), cache[b].held, b # a
        PROVE  cache'[b].permissions = effective("ADMIN", override'[b])
    <3>1. ~ invalidating(b)
      BY <1>1 DEF invalidating, Lone, At
    <3> QED
      BY <2>4, <2>6, <3>1 DEF CInv, Present, IInv, PermissionsOK
  <2> HIDE DEF a
  <2>7. invalidating(a)'
    BY <2>5 DEF invalidating, At, a
  <2> QED
    BY <2>2, <2>3, <2>4, <2>5, <2>6 DEF CInv, Present, Admin, invalidating, At
<1> QED
  BY <1>2, <1>3

LEMMA DropsPermissions ==
  ASSUME IInv, Serial, CInv, NEW r \in Requests, Invalidate(r)
  PROVE  CInv'
<1> DEFINE a == requests[r].account
<1>1. requests[r].next = "invalidate" /\ Lone(r) /\ a \in Accounts
  BY Works, InHand DEF Invalidate, At, IInv
<1>2. Becomes(r, Idle) /\ Idle.next = "idle"
  BY EndsIdle DEF Invalidate
<1>3. /\ requests'[r] = Idle
      /\ \A p \in Requests : p # r => Current(requests[p])'
      /\ \A b : invalidating(b) => a = b
  BY <1>1, <1>2, NoneJudged
<1>4. redis' /\ UNCHANGED override /\ cache' = [cache EXCEPT ![a] = Miss]
  BY DEF Invalidate, CInv
<1>5. Current(requests[r])'
  BY <1>2, <1>3 DEF Current, Judged
<1>6. ASSUME NEW b \in Accounts, Admin(b), cache'[b].held
      PROVE  cache'[b].permissions = effective("ADMIN", override'[b])
  <2>1. b # a /\ cache'[b] = cache[b]
    BY <1>1, <1>4, <1>6 DEF Miss, IInv, PermissionsOK
  <2> QED
    BY <1>3, <1>4, <1>6, <2>1 DEF CInv, Present
<1> QED
  BY <1>3, <1>4, <1>5, <1>6 DEF CInv, Present, Admin

LEMMA NextCInv ==
  ASSUME "outage" \notin Ops, IInv, Serial, CInv, [Next]_vars
  PROVE  CInv'
<1>1. ASSUME NEW a \in Accounts, CacheExpires(a) PROVE CInv'
  <2>1. /\ UNCHANGED <<override, redis, requests>>
        /\ \A b \in Accounts : cache'[b] = cache[b] \/ ~ cache'[b].held
    BY <1>1 DEF CacheExpires, Miss, IInv, PermissionsOK
  <2> QED
    BY <2>1 DEF CInv, Present, Current, invalidating, At
<1>2. CASE UNCHANGED vars
  BY <1>2, AsideCurrent DEF vars, Aside
<1>3. ~ RedisFails /\ ~ RedisReturns
  BY DEF RedisFails, RedisReturns, CInv
<1>4. CASE SessionsNext
  BY <1>4, SessionsAside, AsideCurrent
<1>5. CASE TeamNext
  BY <1>5, TeamAside, AsideCurrent, GivesPermissions, DropsPermissions
<1>6. CASE GateNext
  BY <1>1, <1>3, <1>6, GateAside, AsideCurrent, ReadsPermissions, JudgesPermissions,
     WritesTheCache
<1> QED
  BY <1>2, <1>4, <1>5, <1>6 DEF Next

\* While Redis answers, an ADMIN whose permission is withdrawn does not enter
\* with it: the cache is written from the table before the guards run, and
\* setUserPermissions drops the entry it made false before it answers.
THEOREM WithdrawnAtOnce ==
  OneByOne /\ "outage" \notin Ops => (Spec => []EntersWithPresentRights)
<1> SUFFICES ASSUME OneByOne, "outage" \notin Ops PROVE Spec => []EntersWithPresentRights
  OBVIOUS
<1>1. Init => CInv
  BY DEF Init, Idle, Miss, CInv, Current, Judged
<1>2. SInv => Serial
  BY DEF SInv
<1>3. IInv /\ CInv /\ EInv => EntersWithPresentRights
  <2> SUFFICES ASSUME IInv, CInv, EInv, NEW r \in Requests, inside(r),
                      RoleOf[requests[r].account] = "ADMIN"
               PROVE  permissionsGuard(requests[r].route, "ADMIN",
                        effective("ADMIN", override[requests[r].account]))
    BY DEF EntersWithPresentRights
  <2>1. Admin(requests[r].account) /\ requests[r].next \in Judged
    BY DEF Admin, inside, IInv, RequestsOK, RequestRows, At, Judged
  <2>2. requests[r].permissions = Present(requests[r].account)
    BY <2>1 DEF CInv, Current
  <2>3. permissionsGuard(requests[r].route, "ADMIN", requests[r].permissions)
    BY DEF EInv, Entered, passes, inside, At
  <2> QED
    BY <2>2, <2>3 DEF Present
<1> QED
  BY <1>1, <1>2, <1>3, AlwaysIInv, AlwaysSInv, AlwaysEInv, NextCInv, PTL DEF Spec
==============================================================================
