------------------------------- MODULE Sessions -------------------------------
(***************************************************************************)
(* src/auth/auth.service.ts and src/auth/token.service.ts: what a person   *)
(* does to his own account.  Hashing, signing and mails are external; the  *)
(* code and the link of a reset, sent together and spent together, are one *)
(* row; the profile and the devices for notifications are left out.        *)
(***************************************************************************)
EXTENDS Directory

(***************************************************************************)
(* Sign up, sign in                                                        *)
(***************************************************************************)
Register(r, a) ==
  /\ RoleOf[a] = "CUSTOMER" /\ ~ exists(a) /\ room
  /\ Begin(r, "register", On("registerTx", a))
  /\ UNCHANGED tables

\* The unique e-mail refuses a second row.
RegisterTx(r) ==
  LET a == requests[r].account IN
  /\ At(r, "registerTx")
  /\ IF exists(a)
       THEN Finish(r) /\ UNCHANGED user
       ELSE GoTo(r, "issue") /\ user' = [user EXCEPT ![a] = NewUser("ACTIVE", 1)]
  /\ UNCHANGED <<session, link, override, cache, redis, wrong, opened>>

Login(r, a) ==
  /\ present(a) /\ ~ user[a].locked /\ room
  /\ Begin(r, "login", On("compare", a))
  /\ UNCHANGED tables

\* registerFailedAttempt: counted from the row read when the request arrived.
LoginFails(r) ==
  LET a == requests[r].account
      attempts == requests[r].seen.failures + 1
  IN
  /\ At(r, "compare")
  /\ user' = [user EXCEPT ![a].failures = attempts, ![a].locked = attempts >= MaxAttempts]
  /\ wrong' = [wrong EXCEPT ![a] = @ + 1]
  /\ Finish(r)
  /\ UNCHANGED <<session, link, override, cache, redis, opened>>

LoginSucceeds(r) ==
  /\ At(r, "compare")
  /\ requests[r].seen.password # 0
  /\ IF requests[r].seen.status = "ACTIVE" THEN GoTo(r, "issue") ELSE Finish(r)
  /\ UNCHANGED tables

Issue(r) ==
  /\ At(r, "issue")
  /\ IssueRow(requests[r].account, 0, requests[r].seen.password)
  /\ GoTo(r, "markLogin")
  /\ UNCHANGED <<user, link, override, cache, redis, wrong, opened>>

\* Mutant: the login is noted, the failures are not forgotten.
MarkLoginOnly(r) ==
  /\ At(r, "markLogin")
  /\ wrong' = [wrong EXCEPT ![requests[r].account] = 0]
  /\ Finish(r)
  /\ UNCHANGED <<user, session, link, override, cache, redis, opened>>

MarkLogin(r) ==
  LET a == requests[r].account IN
  /\ At(r, "markLogin")
  /\ user' = [user EXCEPT ![a].failures = 0, ![a].locked = FALSE]
  /\ wrong' = [wrong EXCEPT ![a] = 0]
  /\ Finish(r)
  /\ UNCHANGED <<session, link, override, cache, redis, opened>>

(***************************************************************************)
(* Refresh: whoever shows a token that was sent.  Its account is read with *)
(* it; whether that account may still come in is asked only once the new   *)
(* pair is written, and changes nothing written.                           *)
(***************************************************************************)
Refresh(r, t) ==
  LET a == session[t].account IN
  /\ session[t].state \in {"live", "revoked"} /\ ~ session[t].expired
  /\ room
  /\ Begin(r, "refresh",
       [On(IF live(t) THEN "rotate" ELSE "revokeFamily", a) EXCEPT !.token = t])
  /\ UNCHANGED tables

RevokeFamily(r) ==
  /\ At(r, "revokeFamily")
  /\ Revoke({t \in Tokens : session[t].family = session[requests[r].token].family})
  /\ Finish(r)
  /\ UNCHANGED <<user, link, override, cache, redis, wrong, opened>>

Rotate(r) ==
  LET t == requests[r].token IN
  /\ At(r, "rotate")
  /\ IssueRow(requests[r].account, session[t].family, session[t].password)
  /\ GoTo(r, "consume")
  /\ UNCHANGED <<user, link, override, cache, redis, wrong, opened>>

\* Mutant: the token that was renewed stays good.
ConsumeLater(r) ==
  /\ At(r, "consume")
  /\ Finish(r)
  /\ UNCHANGED tables

Consume(r) ==
  /\ At(r, "consume")
  /\ Revoke({requests[r].token})
  /\ Finish(r)
  /\ UNCHANGED <<user, link, override, cache, redis, wrong, opened>>

(***************************************************************************)
(* Signing out, by a token or everywhere, and a session closed at a        *)
(* distance.  A driver who signs out is no longer at work.                 *)
(***************************************************************************)
Logout(r, a, tokens) ==
  /\ signedIn(a)
  /\ tokens = sessionsOf(a) \/ \E t \in sessionsOf(a) : tokens = {t}
  /\ Begin(r, "logout", IF RoleOf[a] = "DRIVER" THEN On("offline", a) ELSE Idle)
  /\ Revoke(tokens)
  /\ UNCHANGED <<user, link, override, cache, redis, wrong, opened>>

Offline(r) ==
  /\ At(r, "offline")
  /\ user' = [user EXCEPT ![requests[r].account].online = FALSE]
  /\ Finish(r)
  /\ UNCHANGED <<session, link, override, cache, redis, wrong, opened>>

RevokeSession(r, a, t) ==
  /\ signedIn(a) /\ ~ user[a].temporary /\ t \in sessionsOf(a)
  /\ Begin(r, "revokeSession", Idle)
  /\ Revoke({t})
  /\ UNCHANGED <<user, link, override, cache, redis, wrong, opened>>

PurgeTokens ==
  /\ \E t \in Tokens :
       /\ session[t].expired /\ session[t].state # "purged"
       /\ session' = [session EXCEPT ![t].state = "purged"]
  /\ UNCHANGED <<user, link, override, cache, redis, wrong, opened, calls, requests>>

(***************************************************************************)
(* Passwords                                                               *)
(***************************************************************************)
ForgotPassword(r, a) ==
  /\ present(a)
  /\ Begin(r, "forgot", Idle)
  /\ SendLink(a, "RESET")
  /\ UNCHANGED <<user, session, override, cache, redis, wrong, opened>>

Usable(l, purpose) ==
  link[l].state = "unused" /\ link[l].purpose = purpose /\ ~ link[l].expired

ResetPassword(r, l) ==
  /\ Usable(l, "RESET")
  /\ Begin(r, "reset", [On("resetTx", link[l].account) EXCEPT !.link = l])
  /\ UNCHANGED tables

\* Mutant: the link is not marked as used.
ResetKeepingLink(r) ==
  LET a == requests[r].account IN
  /\ At(r, "resetTx")
  /\ ChoosePassword(a, user[a])
  /\ opened' = [opened EXCEPT ![requests[r].link] = @ + 1]
  /\ GoTo(r, "revokeAll")
  /\ UNCHANGED <<session, link, override, cache, redis>>

ResetTx(r) ==
  LET a == requests[r].account IN
  /\ At(r, "resetTx")
  /\ ChoosePassword(a, user[a])
  /\ link' = [l \in Links |-> IF l \in unusedLinks(a, "RESET")
                                THEN [link[l] EXCEPT !.state = "used"] ELSE link[l]]
  /\ opened' = [opened EXCEPT ![requests[r].link] = @ + 1]
  /\ GoTo(r, "revokeAll")
  /\ UNCHANGED <<session, override, cache, redis>>

ChangePassword(r, a) ==
  /\ signedIn(a) /\ user[a].password # 0
  /\ Begin(r, "change", On("changeTx", a))
  /\ UNCHANGED tables

\* The count of wrong attempts and a lock stay: only the password is new.
ChangeTx(r) ==
  /\ At(r, "changeTx")
  /\ user' = [user EXCEPT ![requests[r].account].password = @ + 1,
                          ![requests[r].account].temporary = FALSE]
  /\ GoTo(r, "revokeAll")
  /\ UNCHANGED <<session, link, override, cache, redis, wrong, opened>>

RevokeAll(r) ==
  /\ At(r, "revokeAll")
  /\ Revoke(sessionsOf(requests[r].account))
  /\ Finish(r)
  /\ UNCHANGED <<user, link, override, cache, redis, wrong, opened>>

(***************************************************************************)
(* Activation: whatever became of the account since the link was sent.     *)
(***************************************************************************)
Activate(r, l) ==
  /\ Usable(l, "ACTIVATION") /\ room
  /\ Begin(r, "activate", [On("activateTx", link[l].account) EXCEPT !.link = l])
  /\ UNCHANGED tables

ActivateTx(r) ==
  LET a == requests[r].account
      l == requests[r].link
  IN
  /\ At(r, "activateTx")
  /\ ChoosePassword(a, [user[a] EXCEPT !.status = "ACTIVE", !.activated = user[a].password + 1])
  /\ link' = [link EXCEPT ![l].state = "used"]
  /\ opened' = [opened EXCEPT ![l] = @ + 1]
  /\ requests' = [requests EXCEPT ![r].next = "issueActivated",
                                  ![r].seen.password = user[a].password + 1]
  /\ UNCHANGED <<session, override, cache, redis, calls>>

IssueActivated(r) ==
  /\ At(r, "issueActivated")
  /\ IssueRow(requests[r].account, 0, requests[r].seen.password)
  /\ Finish(r)
  /\ UNCHANGED <<user, link, override, cache, redis, wrong, opened>>

(***************************************************************************)
(* Time                                                                    *)
(***************************************************************************)
SessionExpires(t) ==
  /\ "time" \in Ops
  /\ session[t].state \in {"live", "revoked"} /\ ~ session[t].expired
  /\ session' = [session EXCEPT ![t].expired = TRUE]
  /\ UNCHANGED <<user, link, override, cache, redis, wrong, opened, calls, requests>>

LinkExpires(l) ==
  /\ "time" \in Ops
  /\ link[l].state = "unused" /\ ~ link[l].expired
  /\ link' = [link EXCEPT ![l].expired = TRUE]
  /\ UNCHANGED <<user, session, override, cache, redis, wrong, opened, calls, requests>>

LockEnds(a) ==
  /\ user[a].locked
  /\ user' = [user EXCEPT ![a].locked = FALSE]
  /\ UNCHANGED <<session, link, override, cache, redis, wrong, opened, calls, requests>>

SessionsNext ==
  \/ \E r \in Requests :
       \/ \E a \in Accounts : \/ Register(r, a) \/ Login(r, a) \/ ForgotPassword(r, a)
                              \/ ChangePassword(r, a)
                              \/ \E tokens \in SUBSET Tokens : Logout(r, a, tokens)
                              \/ \E t \in Tokens : RevokeSession(r, a, t)
       \/ Offline(r) \/ RegisterTx(r) \/ LoginFails(r) \/ LoginSucceeds(r) \/ Issue(r) \/ MarkLogin(r)
       \/ \E t \in Tokens : Refresh(r, t)
       \/ RevokeFamily(r) \/ Rotate(r) \/ Consume(r)
       \/ \E l \in Links : ResetPassword(r, l) \/ Activate(r, l)
       \/ ResetTx(r) \/ ChangeTx(r) \/ RevokeAll(r) \/ ActivateTx(r) \/ IssueActivated(r)
  \/ PurgeTokens
  \/ \E t \in Tokens : SessionExpires(t)
  \/ \E l \in Links : LinkExpires(l)
  \/ \E a \in Accounts : LockEnds(a)
==============================================================================
