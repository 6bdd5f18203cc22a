----------------------------- MODULE TicashSignIn -----------------------------
(***************************************************************************)
(* The access of one TiCash customer: sign-in and its lock-out, sessions   *)
(* and their renewal, reset links and changes of the password, and the     *)
(* lock staff put on an account (apps/api/src/app.ts, /api/auth and        *)
(* restrictions), with the database.                                       *)
(*                                                                         *)
(* Requests run at once; each step is a database call or a transaction.    *)
(* Passwords are numbered; a time is a whole number of lock-out times.     *)
(***************************************************************************)
EXTENDS Integers, Sequences

CONSTANTS
  Callers,      \* requests of all processes
  Tokens,       \* bound: refresh tokens, one to a session
  Links,        \* bound: reset links
  MaxFailures,  \* failed sign-ins that lock an identity out, 5 in the code
  LockTtl,      \* how long they do, 15 minutes
  ResetTtl,     \* how long a link is good
  SessionTtl,   \* how long a session is good
  LastLapse,    \* bound: how far time goes
  MaxPasswords  \* bound: passwords the customer has had

ASSUME AccessAssumption ==
  /\ Tokens \cap {"none", "login"} = {}
  /\ {MaxFailures, LockTtl, ResetTtl, SessionTtl, LastLapse} \subseteq Nat
  /\ MaxPasswords \in Nat \ {0}

VARIABLES
  lapse,     \* the clock
  user,      \* the User row: password and accountLocked
  security,  \* the LoginSecurityState row: failures and lock-out
  session,   \* when each session ends, 0 if there is none
  parent,    \* what each session was begun by: a sign-in or a session
  link,      \* the PasswordResetToken rows
  changes,   \* the links that changed the password, in order
  visit      \* what each request is doing

accessVars == <<lapse, user, security, session, parent, link, changes, visit>>

NoLink == [expires |-> 0, consumed |-> FALSE]
Deleted == [expires |-> 0, consumed |-> TRUE]
NoFailures == [count |-> 0, until |-> 0]
NoVisit == [at |-> "idle", token |-> "none", link |-> "none", seen |-> 0, locked |-> FALSE, reset |-> FALSE]

Numbers == 1..MaxPasswords
Account == [password : Numbers, locked : BOOLEAN]

AccessTypeOK ==
  /\ lapse \in 0..LastLapse
  /\ user \in Account
  /\ security \in [count : Nat, until : Nat]
  /\ session \in [Tokens -> Nat] /\ parent \in [Tokens -> Tokens \cup {"none", "login"}]
  /\ link \in [Links -> [expires : Nat, consumed : BOOLEAN]]
  /\ changes \in Seq(Links)
  /\ DOMAIN visit = Callers

AccessInit ==
  /\ lapse = 0
  /\ user = [password |-> 1, locked |-> FALSE]
  /\ security = NoFailures
  /\ session = [t \in Tokens |-> 0]
  /\ parent = [t \in Tokens |-> "none"]
  /\ link = [l \in Links |-> NoLink]
  /\ changes = <<>>
  /\ visit = [r \in Callers |-> NoVisit]

Begin(r, next) == visit[r] = NoVisit /\ visit' = [visit EXCEPT ![r] = next]
GoTo(r, at) == visit' = [visit EXCEPT ![r].at = at]
Finish(r) == visit' = [visit EXCEPT ![r] = NoVisit]

Good(l, time) == ~link[l].consumed /\ link[l].expires > time
NoSessions == [t \in Tokens |-> 0]

\* issueTokens: a new session and its refresh token.
IssueTokens(by) == \E t \in Tokens :
  /\ parent[t] = "none"
  /\ parent' = [parent EXCEPT ![t] = by]
  /\ session' = [session EXCEPT ![t] = lapse + SessionTtl]

TimeLapses ==
  /\ lapse < LastLapse /\ lapse' = lapse + 1
  /\ UNCHANGED <<user, security, session, parent, link, changes, visit>>

---------------------------------------------------------------------------
(* Sign-in.  The account read first is what the password and the lock are  *)
(* judged by; the failures are read, counted and judged one after another. *)

Login(r) ==
  /\ Begin(r, [NoVisit EXCEPT !.at = "allowed", !.seen = user.password, !.locked = user.locked])
  /\ UNCHANGED <<lapse, user, security, session, parent, link, changes>>

AssertAllowed(r) ==
  /\ visit[r].at = "allowed"
  /\ IF security.until > lapse THEN Finish(r) ELSE GoTo(r, "compare")
  /\ UNCHANGED <<lapse, user, security, session, parent, link, changes>>

Compare(r) ==
  /\ visit[r].at = "compare"
  /\ \/ GoTo(r, "fail")
     \/ visit[r].locked /\ Finish(r)
     \/ ~visit[r].locked /\ GoTo(r, "clear")
  /\ UNCHANGED <<lapse, user, security, session, parent, link, changes>>

ReadFailures(r) ==
  /\ visit[r].at = "fail"
  /\ visit' = [visit EXCEPT ![r].at = "count", ![r].reset = security.until \in 1..lapse]
  /\ UNCHANGED <<lapse, user, security, session, parent, link, changes>>

CountFailure(r) ==
  /\ visit[r].at = "count"
  /\ security' = IF visit[r].reset THEN [count |-> 1, until |-> 0] ELSE [security EXCEPT !.count = @ + 1]
  /\ IF security'.count >= MaxFailures THEN GoTo(r, "lock") ELSE Finish(r)
  /\ UNCHANGED <<lapse, user, session, parent, link, changes>>

\* A row that was cleared meanwhile is not locked: the request fails.
LockOut(r) ==
  /\ visit[r].at = "lock"
  /\ security' = IF security.count = 0 THEN security ELSE [security EXCEPT !.until = lapse + LockTtl]
  /\ Finish(r)
  /\ UNCHANGED <<lapse, user, session, parent, link, changes>>

ClearFailures(r) ==
  /\ visit[r].at = "clear"
  /\ security' = NoFailures
  /\ GoTo(r, "issue")
  /\ UNCHANGED <<lapse, user, session, parent, link, changes>>

Issue(r) ==
  /\ visit[r].at = "issue"
  /\ IssueTokens("login")
  /\ Finish(r)
  /\ UNCHANGED <<lapse, user, security, link, changes>>

---------------------------------------------------------------------------
(* Renewal: the session is read, deleted, and judged as it was read; of    *)
(* requests that read it together one deletes it, the others fail.         *)

Refresh(r, t) ==
  /\ session[t] # 0
  /\ Begin(r, [NoVisit EXCEPT !.at = "delete", !.token = t, !.seen = session[t]])
  /\ UNCHANGED <<lapse, user, security, session, parent, link, changes>>

\* Mutant of DeleteSession: deleting what is gone is no error (deleteMany).
DeleteSessions(r) ==
  /\ visit[r].at = "delete"
  /\ session' = [session EXCEPT ![visit[r].token] = 0]
  /\ IF visit[r].seen <= lapse THEN Finish(r) ELSE GoTo(r, "renew")
  /\ UNCHANGED <<lapse, user, security, parent, link, changes>>

DeleteSession(r) ==
  /\ visit[r].at = "delete"
  /\ session' = [session EXCEPT ![visit[r].token] = 0]
  /\ IF session[visit[r].token] = 0 \/ visit[r].seen <= lapse THEN Finish(r) ELSE GoTo(r, "renew")
  /\ UNCHANGED <<lapse, user, security, parent, link, changes>>

Renew(r) ==
  /\ visit[r].at = "renew"
  /\ \/ user.locked /\ Finish(r)
     \/ ~user.locked /\ GoTo(r, "renewed")
  /\ UNCHANGED <<lapse, user, security, session, parent, link, changes>>

IssueRenewed(r) ==
  /\ visit[r].at = "renewed"
  /\ IssueTokens(visit[r].token)
  /\ Finish(r)
  /\ UNCHANGED <<lapse, user, security, link, changes>>

Logout(t) ==
  /\ session[t] # 0
  /\ session' = [session EXCEPT ![t] = 0]
  /\ UNCHANGED <<lapse, user, security, parent, link, changes, visit>>

---------------------------------------------------------------------------
(* Passwords. *)

\* The links that are good are deleted and one is made, in a transaction.
ForgotPassword(r, l) ==
  /\ link[l] = NoLink
  /\ Begin(r, [NoVisit EXCEPT !.at = "mail", !.link = l])
  /\ link' = [m \in Links |->
       CASE m = l -> [expires |-> lapse + ResetTtl, consumed |-> FALSE]
         [] m # l /\ Good(m, lapse) -> Deleted
         [] OTHER -> link[m]]
  /\ UNCHANGED <<lapse, user, security, session, parent, changes>>

\* A link whose mail fails is deleted, used or not.
SendLink(r) ==
  /\ visit[r].at = "mail"
  /\ \/ UNCHANGED link
     \/ link' = [link EXCEPT ![visit[r].link] = Deleted]
  /\ Finish(r)
  /\ UNCHANGED <<lapse, user, security, session, parent, changes>>

ResetPassword(r, l) ==
  /\ Good(l, lapse)
  /\ Begin(r, [NoVisit EXCEPT !.at = "claim", !.link = l])
  /\ UNCHANGED <<lapse, user, security, session, parent, link, changes>>

\* The claim, the password, the other links and the sessions: one
\* transaction, which ends with the claim if the link is no longer good.
ClaimLink(r) ==
  /\ visit[r].at = "claim"
  /\ \/ ~Good(visit[r].link, lapse) /\ UNCHANGED <<user, session, link, changes>>
     \/ /\ Good(visit[r].link, lapse)
        /\ user.password < MaxPasswords
        /\ user' = [user EXCEPT !.password = @ + 1]
        /\ link' = [m \in Links |-> IF Good(m, lapse) THEN [link[m] EXCEPT !.consumed = TRUE] ELSE link[m]]
        /\ session' = NoSessions
        /\ changes' = Append(changes, visit[r].link)
  /\ Finish(r)
  /\ UNCHANGED <<lapse, security, parent>>

ChangePassword(r) ==
  /\ Begin(r, [NoVisit EXCEPT !.at = "change"])
  /\ UNCHANGED <<lapse, user, security, session, parent, link, changes>>

SavePassword(r) ==
  /\ visit[r].at = "change" /\ user.password < MaxPasswords
  /\ user' = [user EXCEPT !.password = @ + 1]
  /\ session' = NoSessions
  /\ Finish(r)
  /\ UNCHANGED <<lapse, security, parent, link, changes>>

\* Staff lock the account, which ends its sessions, or unlock it.
RestrictAccount ==
  /\ user' = [user EXCEPT !.locked = ~@]
  /\ session' = IF user'.locked THEN NoSessions ELSE session
  /\ UNCHANGED <<lapse, security, parent, link, changes, visit>>

AccessNext ==
  \/ TimeLapses \/ RestrictAccount
  \/ \E t \in Tokens : Logout(t)
  \/ \E r \in Callers :
       \/ Login(r) \/ AssertAllowed(r) \/ Compare(r) \/ ReadFailures(r) \/ CountFailure(r) \/ LockOut(r)
       \/ ClearFailures(r) \/ Issue(r)
       \/ DeleteSession(r) \/ Renew(r) \/ IssueRenewed(r) \/ (\E t \in Tokens : Refresh(r, t))
       \/ SendLink(r) \/ ClaimLink(r) \/ ChangePassword(r) \/ SavePassword(r)
       \/ \E l \in Links : ForgotPassword(r, l) \/ ResetPassword(r, l)

AccessSpec == AccessInit /\ [][AccessNext]_accessVars

---------------------------------------------------------------------------
(* Properties. *)

\* A refresh token has one successor, whoever sends it at once (refresh).
OneSuccessorEach == \A s, t \in Tokens : parent[s] = parent[t] /\ parent[s] \in Tokens => s = t

\* A reset link changes the password once, whoever sends it at once
\* (reset-password).
OneChangeEach == \A i, j \in DOMAIN changes : changes[i] = changes[j] => i = j

(* A refresh token has one successor, and a reset link changes the         *)
(* password once, whoever sends them at once (refresh, reset-password).    *)
AccessIsTakenOnce == AccessTypeOK /\ OneSuccessorEach /\ OneChangeEach
=============================================================================
