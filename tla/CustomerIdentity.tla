-------------------------- MODULE CustomerIdentity --------------------------
(***************************************************************************)
(* The identity of one registered FlupFlap customer (flupflap/auth.ts,     *)
(* flupflap/repository.ts, flupflap/verification.ts): sign-in, rotating    *)
(* sessions, password resets, the verified phone number, the closing of    *)
(* the account by the staff and its deletion at the customer's request     *)
(* (flupflap/self-service-deletion.ts).                                    *)
(*                                                                         *)
(* A transaction that locks the customer's row, or ends with a conditional *)
(* update of one row, is one step; between two transactions of a request   *)
(* anything may happen.  A password, a phone number and a row are numbers; *)
(* a password is a new number each time.  A session also remembers, for    *)
(* the properties, which sign-in it comes from and with which password.    *)
(***************************************************************************)
EXTENDS Naturals, Sequences, FiniteSets, FiniteSetsExt

CONSTANTS
  Requests,          \* requests that may run at the same time
  Phones,            \* phone numbers, positive
  SessionTtl, ResetTtl, CodeTtl, LockTtl, Hour,
  MaxFailures,       \* wrong passwords before a lock (5 in the code)
  AttemptsPerCode,   \* guesses of one code (5)
  CodesPerHour,      \* (3)
  GuessesPerHour,    \* guesses after which no code is sent (10)
  MaxLogins, MaxResets, MaxCodes,  \* bounds on rows ever made
  Horizon,           \* bound on the clock
  MaxStops           \* bound on lost calls and crashes

ASSUME IdentityAssumption ==
  /\ Phones \subseteq Nat \ {0} /\ Phones # {}
  /\ {SessionTtl, ResetTtl, CodeTtl, LockTtl, Hour, MaxFailures, AttemptsPerCode,
      CodesPerHour, GuessesPerHour, MaxLogins, MaxResets, MaxCodes, Horizon, MaxStops}
       \subseteq Nat
  /\ GuessesPerHour > 0

VARIABLES
  clock,
  person,      \* the customer's row
  sessions, resets,  \* the sessions and the links of the customer
  challenges,  \* the codes, in the order in which they were made
  made,        \* how many sign-ins and links were ever begun
  visit,       \* what each request is doing
  stops

identityVars == <<clock, person, sessions, resets, challenges, made, visit, stops>>
secrets == <<sessions, resets, challenges>>

NoSession == [login |-> 0, version |-> 0, under |-> 0, expires |-> 0]
NoVisit == [at |-> "idle", session |-> NoSession, code |-> 0]

IdentityInit ==
  /\ clock = 0
  /\ person = [status |-> "ACTIVE", version |-> 0, password |-> 1, failures |-> 0,
               lockedUntil |-> 0, phone |-> CHOOSE phone \in Phones : TRUE, verified |-> 0]
  /\ sessions = {} /\ resets = {} /\ challenges = <<>>
  /\ made = [logins |-> 0, resets |-> 0]
  /\ visit = [h \in Requests |-> NoVisit]
  /\ stops = 0

At(h, place) == visit[h].at = place
MoveTo(h, place) == visit' = [visit EXCEPT ![h].at = place]
Leave(h) == visit' = [visit EXCEPT ![h] = NoVisit]
With(h, place, session) == visit' = [visit EXCEPT ![h] = [NoVisit EXCEPT !.at = place, !.session = session]]

IsActive == person.status = "ACTIVE"
Locked == person.lockedUntil > clock

Tick ==
  /\ clock < Horizon /\ clock' = clock + 1
  /\ UNCHANGED <<person, secrets, made, visit, stops>>

(* Rows of a customer that is deleted or deleting are not inserted (the    *)
(* trigger flupflap_reject_deleted_owner of the migrations).               *)
Insertable == person.status \notin {"DELETION_PENDING", "DELETED"}

---------------------------------------------------------------------------
(* POST /login. *)

(* The password is compared with the row that was read; a wrong one, or a  *)
(* lock, counts as a failure.                                              *)
Login(h) ==
  /\ At(h, "idle") /\ person.status # "DELETED" /\ made.logins < MaxLogins
  /\ made' = [made EXCEPT !.logins = @ + 1]
  /\ \E right \in BOOLEAN :
       With(h, IF right /\ IsActive /\ ~Locked THEN "entering" ELSE "failing",
            [NoSession EXCEPT !.login = made.logins + 1, !.version = person.version,
                              !.under = person.password])
  /\ UNCHANGED <<clock, person, secrets, stops>>

RecordLoginFailure(h) ==
  LET failures == person.failures + 1
  IN /\ At(h, "failing")
     /\ person' = [person EXCEPT !.failures = failures,
                     !.lockedUntil = IF failures >= MaxFailures THEN clock + LockTtl ELSE @]
     /\ Leave(h)
     /\ UNCHANGED <<clock, secrets, made, stops>>

(* completeLogin: the row must still be the one the password was right for. *)
Unchanged(session) ==
  /\ person.password = session.under /\ person.version = session.version
  /\ IsActive /\ ~Locked

CompleteLogin(h) ==
  /\ At(h, "entering")
  /\ IF Unchanged(visit[h].session)
     THEN /\ person' = [person EXCEPT !.failures = 0, !.lockedUntil = 0]
          /\ MoveTo(h, "issuing")
     ELSE Leave(h) /\ UNCHANGED person
  /\ UNCHANGED <<clock, secrets, made, stops>>

(* issue: the session carries the version of the row that was read. *)
IssueSession(h) ==
  /\ At(h, "issuing")
  /\ sessions' = IF Insertable
                 THEN sessions \cup {[visit[h].session EXCEPT !.expires = clock + SessionTtl]}
                 ELSE sessions
  /\ Leave(h)
  /\ UNCHANGED <<clock, person, resets, challenges, made, stops>>

---------------------------------------------------------------------------
(* POST /refresh and POST /logout. *)

(* consumeSession: only one of two deletions of a row counts one. *)
ConsumeSession(h) ==
  /\ At(h, "idle")
  /\ \E session \in sessions :
       sessions' = sessions \ {session} /\ With(h, "checking", session)
  /\ UNCHANGED <<clock, person, resets, challenges, made, stops>>

Current(session) ==
  session.expires > clock /\ IsActive /\ session.version = person.version

CheckRefresh(h) ==
  /\ At(h, "checking")
  /\ IF Current(visit[h].session) THEN MoveTo(h, "issuing") ELSE Leave(h)
  /\ UNCHANGED <<clock, person, secrets, made, stops>>

(* authenticate: a request of a session goes on with what was read of it.  *)
Authenticate(h) ==
  /\ At(h, "idle")
  /\ \E session \in sessions, place \in {"leaving", "deleting", "updating", "sending", "guessing"} :
       Current(session) /\ With(h, place, session)
  /\ UNCHANGED <<clock, person, secrets, made, stops>>

Logout(h) ==
  /\ At(h, "leaving")
  /\ sessions' = sessions \ {visit[h].session}
  /\ Leave(h)
  /\ UNCHANGED <<clock, person, resets, challenges, made, stops>>

---------------------------------------------------------------------------
(* POST /forgot-password and POST /reset-password. *)

ForgotPassword(h) ==
  /\ At(h, "idle") /\ IsActive /\ made.resets < MaxResets
  /\ made' = [made EXCEPT !.resets = @ + 1]
  /\ visit' = [visit EXCEPT ![h] = [NoVisit EXCEPT !.at = "clearing", !.code = made.resets + 1]]
  /\ UNCHANGED <<clock, person, secrets, stops>>

(* resetToken: nothing is locked before the row is inserted, so two        *)
(* requests may both find nothing to delete.                               *)
ClearResets(h) ==
  /\ At(h, "clearing")
  /\ resets' = {}
  /\ MoveTo(h, "linking")
  /\ UNCHANGED <<clock, person, sessions, challenges, made, stops>>

CreateReset(h) ==
  /\ At(h, "linking")
  /\ resets' = IF Insertable
               THEN resets \cup {[id |-> visit[h].code, expires |-> clock + ResetTtl]} ELSE resets
  /\ Leave(h)
  /\ UNCHANGED <<clock, person, sessions, challenges, made, stops>>

(* Mutant of PasswordReset: authVersion stays. *)
PasswordResetOnly == [person EXCEPT !.password = @ + 1, !.failures = 0, !.lockedUntil = 0]

PasswordReset ==
  [person EXCEPT !.password = @ + 1, !.version = @ + 1, !.failures = 0, !.lockedUntil = 0]

ResetPassword ==
  /\ IsActive
  /\ \E reset \in resets : reset.expires > clock /\ resets' = resets \ {reset}
  /\ person' = PasswordReset
  /\ sessions' = {}
  /\ UNCHANGED <<clock, challenges, made, visit, stops>>

---------------------------------------------------------------------------
(* The end of the account. *)

Closed(status) ==
  /\ person' = [person EXCEPT !.status = status, !.version = @ + 1]
  /\ sessions' = {} /\ resets' = {}

Deactivate ==
  /\ IsActive /\ Closed("CLOSED")
  /\ UNCHANGED <<clock, challenges, made, visit, stops>>

(* The password is compared with the row that was read, and the            *)
(* transaction wants the same row.                                         *)
BeginDeletion(h) ==
  /\ At(h, "deleting")
  /\ IF IsActive /\ person.version = visit[h].session.version
     THEN Closed("DELETION_PENDING") ELSE UNCHANGED <<person, sessions, resets>>
  /\ Leave(h)
  /\ UNCHANGED <<clock, challenges, made, stops>>

(* eraseFlupFlapAccountData, when nothing of the customer is unsettled. *)
Erase ==
  /\ person.status = "DELETION_PENDING"
  /\ person' = [person EXCEPT !.status = "DELETED", !.version = @ + 1, !.password = 0,
                  !.failures = 0, !.lockedUntil = 0, !.phone = 0, !.verified = 0]
  /\ sessions' = {} /\ resets' = {} /\ challenges' = <<>>
  /\ UNCHANGED <<clock, made, visit, stops>>

---------------------------------------------------------------------------
(* PATCH /me, and the verification of the phone number. *)

(* Mutant of Consumed: the older codes stay good. *)
ConsumedNever(open) == open

Consumed(open) == [c \in DOMAIN open |-> [open[c] EXCEPT !.consumed = TRUE]]

UpdateProfile(h) ==
  /\ At(h, "updating")
  /\ \E phone \in Phones :
       IF IsActive /\ person.version = visit[h].session.version /\ phone # person.phone
       THEN /\ person' = [person EXCEPT !.phone = phone, !.verified = 0]
            /\ challenges' = Consumed(challenges)
       ELSE UNCHANGED <<person, challenges>>
  /\ Leave(h)
  /\ UNCHANGED <<clock, sessions, resets, made, stops>>

Recent == {c \in DOMAIN challenges : challenges[c].created + Hour >= clock}
Attempts(c) == challenges[c].attempts
Guesses(codes) == MapThenSumSet(Attempts, codes)

Sendable == IsActive /\ Cardinality(Recent) < CodesPerHour /\ Guesses(Recent) < GuessesPerHour

(* A new code ends the older ones. *)
SendCode(h) ==
  /\ At(h, "sending") /\ Len(challenges) < MaxCodes
  /\ IF Sendable
     THEN /\ challenges' = Append(Consumed(challenges),
               [phone |-> person.phone, sent |-> FALSE, consumed |-> FALSE, attempts |-> 0,
                created |-> clock, expires |-> clock + CodeTtl])
          /\ visit' = [visit EXCEPT ![h] = [NoVisit EXCEPT !.at = "delivering", !.code = Len(challenges) + 1]]
     ELSE Leave(h) /\ UNCHANGED challenges
  /\ UNCHANGED <<clock, person, sessions, resets, made, stops>>

Set(code, sent, consumed) ==
  challenges' = [c \in DOMAIN challenges |->
    IF c # code THEN challenges[c]
    ELSE [challenges[c] EXCEPT !.sent = @ \/ sent, !.consumed = @ \/ consumed]]

DeliverCode(h) ==
  /\ At(h, "delivering")
  /\ Set(visit[h].code, TRUE, FALSE) \/ Set(visit[h].code, FALSE, TRUE)
  /\ Leave(h)
  /\ UNCHANGED <<clock, person, sessions, resets, made, stops>>

Guessable(c) ==
  /\ IsActive /\ c.sent /\ ~c.consumed /\ c.expires > clock
  /\ c.attempts < AttemptsPerCode /\ c.phone = person.phone

ConfirmCode(h) ==
  /\ At(h, "guessing")
  /\ \/ \E c \in DOMAIN challenges, right \in BOOLEAN :
          /\ Guessable(challenges[c])
          /\ challenges' = [challenges EXCEPT ![c].attempts = @ + 1, ![c].consumed = right]
          /\ person' = IF right THEN [person EXCEPT !.verified = challenges[c].phone] ELSE person
     \/ UNCHANGED <<person, challenges>>
  /\ Leave(h)
  /\ UNCHANGED <<clock, sessions, resets, made, stops>>

---------------------------------------------------------------------------
(* A lost call, or the end of the process, ends the request where it is. *)
Abandon(h) ==
  /\ ~At(h, "idle") /\ stops < MaxStops /\ stops' = stops + 1
  /\ Leave(h)
  /\ UNCHANGED <<clock, person, secrets, made>>

Request(h) == Login(h) \/ ConsumeSession(h) \/ Authenticate(h) \/ ForgotPassword(h)

Continue(h) ==
  \/ RecordLoginFailure(h) \/ CompleteLogin(h) \/ IssueSession(h) \/ CheckRefresh(h) \/ Logout(h)
  \/ ClearResets(h) \/ CreateReset(h) \/ BeginDeletion(h)
  \/ UpdateProfile(h) \/ SendCode(h) \/ DeliverCode(h) \/ ConfirmCode(h)

IdentityNext ==
  \/ Tick \/ ResetPassword \/ Deactivate \/ Erase
  \/ \E h \in Requests : Request(h) \/ Continue(h) \/ Abandon(h)

IdentitySpec == IdentityInit /\ [][IdentityNext]_identityVars

---------------------------------------------------------------------------
(* Properties. *)

Session == [login : Nat, version : Nat, under : Nat, expires : Nat]
Challenge == [phone : Phones, sent : BOOLEAN, consumed : BOOLEAN, attempts : Nat,
              created : Nat, expires : Nat]

(* Every variable keeps its type. *)
IdentityTypeOK ==
  /\ clock \in 0..Horizon /\ stops \in 0..MaxStops
  /\ person \in [status : {"ACTIVE", "CLOSED", "DELETION_PENDING", "DELETED"}, version : Nat,
                 password : Nat, failures : Nat, lockedUntil : Nat,
                 phone : Phones \cup {0}, verified : Phones \cup {0}]
  /\ sessions \subseteq Session
  /\ resets \subseteq [id : Nat, expires : Nat]
  /\ challenges \in Seq(Challenge) /\ Len(challenges) <= MaxCodes
  /\ made \in [logins : 0..MaxLogins, resets : 0..MaxResets]
  /\ \A h \in Requests : visit[h].session \in Session

(* A session that is let in was begun with the password of today, although  *)
(* a reset may come between any two steps of the sign-in or of the refresh  *)
(* that made the session (SECURITY_HARDENING_REVIEW.md: password-reset      *)
(* revocation): authVersion travels from the read row into the session.     *)
SessionsEndWithPassword ==
  \A session \in sessions : Current(session) => session.under = person.password

(* A refresh token is good for one successor: a sign-in has one session at  *)
(* a time, whoever refreshes it at once (one-time refresh rotation).        *)
OneSuccessor ==
  \A login \in 1..MaxLogins :
    Cardinality({s \in sessions : s.login = login})
      + Cardinality({h \in Requests : visit[h].session.login = login
                       /\ visit[h].at \in {"entering", "issuing", "checking"}}) <= 1

(* Nothing that lets anybody in outlives a request for deletion, although a *)
(* sign-in, a refresh or a reset was under way when it was made, and        *)
(* nothing at all outlives the deletion.                                    *)
DeletedIsErased ==
  /\ person.status \in {"DELETION_PENDING", "DELETED"} => sessions = {} /\ resets = {}
  /\ person.status = "DELETED" => challenges = <<>> /\ person.phone = 0

(* A verified number is the number of today: a code for the number that was *)
(* replaced while it travelled verifies nothing.                            *)
VerifiedIsCurrent == person.verified \in {0, person.phone}

(* Within an hour there are at most so many guesses: those that still let a *)
(* code be sent, and those of that code; an older code ends with the newer. *)
GuessesAreBounded ==
  \A c \in DOMAIN challenges :
    Guesses({d \in DOMAIN challenges :
               /\ challenges[d].created <= challenges[c].created
               /\ challenges[d].created + Hour >= challenges[c].created})
      <= GuessesPerHour - 1 + AttemptsPerCode

(* A session ends with the password it began with, has one successor, and   *)
(* does not outlive the account; a verified number is the number of today,  *)
(* and the guesses of its code are bounded (auth.ts, verification.ts).      *)
SignInIsSound ==
  /\ IdentityTypeOK /\ SessionsEndWithPassword /\ OneSuccessor /\ DeletedIsErased
  /\ VerifiedIsCurrent /\ GuessesAreBounded
=============================================================================
