------------------------ MODULE IdentityVerification ------------------------
(***************************************************************************)
(* The identity check of one TiCash customer (kyc/service.ts,              *)
(* kyc/repository.ts and the routes of app.ts that set the KYC status):    *)
(* sessions made at Didit, decisions that arrive by webhook or are fetched *)
(* by a refresh, the customer's own submission, and the staff.             *)
(*                                                                         *)
(* A handler takes a step per await.  The transactions that write the      *)
(* profile and the user together lock the profile's row, so each is one    *)
(* step, and the two statuses are one.  Time is counted in seconds, as     *)
(* Didit dates its events; the API dates a refresh within the second, so a *)
(* stamp counts half seconds.                                              *)
(***************************************************************************)
EXTENDS Naturals, Sequences, FiniteSets, Functions

CONSTANTS
  Handlers,    \* requests that may run at the same time
  Operations,  \* what they may be: a subset of AllOperations
  Decisions,   \* what Didit may say of a session that was handed out
  Reviews,     \* what the staff may say: a subset of StaffStatus
  MaxSessions, \* bound on the sessions made at Didit
  MaxSaves,    \* bound on how often a session is asked for and saved
  MaxEvents,   \* bound on the events it sends
  Horizon,     \* bound on the seconds
  Crashes,     \* whether a process may stop
  MaxFaults    \* bound on lost calls and crashes

AllOperations == {"session", "refresh", "submit", "review"}

DiditStatus ==
  {"not started", "in progress", "awaiting user", "resubmitted", "in review",
   "approved", "declined", "expired", "abandoned", "kyc expired", "other"}

(* An approval is Didit's alone while Didit is enabled. *)
StaffStatus == {"DECLINED", "IN_REVIEW", "EXPIRED"}

ASSUME ConstantsAssumption ==
  /\ Operations \subseteq AllOperations
  /\ Decisions \subseteq DiditStatus
  /\ Reviews \subseteq StaffStatus
  /\ {MaxSessions, MaxSaves, MaxEvents, MaxFaults} \subseteq Nat /\ Horizon \in Nat \ {0}
  /\ Crashes \in BOOLEAN

KycStatus == {"NOT_STARTED", "PENDING", "IN_REVIEW", "APPROVED", "DECLINED", "EXPIRED"}

(* Mutant of mapDiditStatus: a session under review passes. *)
mapDiditStatusLoosely(status) == IF status = "in review" THEN "APPROVED" ELSE "PENDING"

(* A status that is not listed is an error. *)
mapDiditStatus(status) ==
  CASE status \in {"not started", "in progress", "awaiting user", "resubmitted"} -> "PENDING"
    [] status = "in review" -> "IN_REVIEW"
    [] status = "approved" -> "APPROVED"
    [] status = "declined" -> "DECLINED"
    [] status \in {"expired", "abandoned", "kyc expired"} -> "EXPIRED"
    [] OTHER -> "error"

VARIABLES
  clock,    \* seconds
  didit,    \* Didit's word on each of its sessions
  handed,   \* how often each session was saved and handed out
  sent,     \* the events Didit has sent, in order
  rows,     \* the status of the row of each event: "none" before it is received
  profile,  \* the customer's profile and status
  work,     \* what each handler is doing
  faults

vars == <<clock, didit, handed, sent, rows, profile, work, faults>>
diditVars == <<clock, didit, sent>>

Sessions == 1..MaxSessions
Events == 1..MaxEvents

Idle == [at |-> "idle", session |-> 0, status |-> "none", stamp |-> 0, event |-> 0]

Init ==
  /\ clock = 1
  /\ didit = [s \in Sessions |-> "none"]
  /\ handed = [s \in Sessions |-> 0]
  /\ sent = <<>> /\ rows = [e \in Events |-> "none"]
  /\ profile = [status |-> "NOT_STARTED", session |-> 0, stamp |-> 0]
  /\ work = [h \in Handlers |-> Idle]
  /\ faults = 0

At(h, place) == work[h].at = place
Goto(h, place) == work' = [work EXCEPT ![h].at = place]
Leave(h) == work' = [work EXCEPT ![h] = Idle]

(* A handler that has nothing to write any more; a webhook completes its row. *)
Done(h) == IF work[h].event # 0 THEN Goto(h, "completing") ELSE Leave(h)

(* An error leaves the handler: a webhook's row becomes FAILED. *)
Raise(h) ==
  /\ Leave(h)
  /\ rows' = IF work[h].event # 0 THEN [rows EXCEPT ![work[h].event] = "FAILED"] ELSE rows

---------------------------------------------------------------------------
(* Didit. *)

Final(status) == status \in {"approved", "declined", "expired", "abandoned", "kyc expired"}

(* A session moves on when the customer has its token; a decision may be   *)
(* revised.  Each move is sent as an event, dated in seconds.              *)
DiditDecides ==
  /\ Len(sent) < MaxEvents
  /\ \E s \in Sessions, status \in Decisions :
       /\ handed[s] > 0 /\ status # didit[s]
       /\ didit' = [didit EXCEPT ![s] = status]
       /\ sent' = Append(sent, [session |-> s, status |-> status, stamp |-> 2 * clock])
  /\ UNCHANGED <<clock, handed, rows, profile, work, faults>>

Tick ==
  /\ clock < Horizon
  /\ clock' = clock + 1
  /\ UNCHANGED <<didit, handed, sent, rows, profile, work, faults>>

---------------------------------------------------------------------------
(* createSession. *)

Asked ==
  FoldFunction(+, 0, handed) + Cardinality({h \in Handlers : work[h].at \in {"creating", "saving"}})

BeginSession(h) ==
  /\ "session" \in Operations /\ At(h, "idle") /\ Asked < MaxSaves
  /\ profile.status # "APPROVED"
  /\ Goto(h, "creating")
  /\ UNCHANGED <<diditVars, handed, rows, profile, faults>>

(* Didit makes a session, answers with the one that is under way, or refuses. *)
CreateSession(h) ==
  /\ At(h, "creating")
  /\ \/ Leave(h) /\ UNCHANGED didit
     \/ \E s \in Sessions :
          /\ \/ didit[s] = "none" /\ (\A t \in 1..(s - 1) : didit[t] # "none")
                /\ didit' = [didit EXCEPT ![s] = "not started"]
             \/ didit[s] # "none" /\ ~Final(didit[s]) /\ UNCHANGED didit
          /\ work' = [work EXCEPT ![h].at = "saving", ![h].session = s,
                                  ![h].status = mapDiditStatus(didit'[s])]
  /\ UNCHANGED <<clock, sent, handed, rows, profile, faults>>

SaveSession(h) ==
  /\ At(h, "saving")
  /\ IF work[h].status = "error"
     THEN UNCHANGED <<profile, handed>>
     ELSE /\ profile' = [status |-> work[h].status, session |-> work[h].session, stamp |-> 0]
          /\ handed' = [handed EXCEPT ![work[h].session] = @ + 1]
  /\ Leave(h)
  /\ UNCHANGED <<diditVars, rows, faults>>

---------------------------------------------------------------------------
(* getStatus with a refresh, and processWebhook. *)

BeginRefresh(h) ==
  /\ "refresh" \in Operations /\ At(h, "idle")
  /\ profile.session # 0 /\ profile.status # "APPROVED"
  /\ work' = [work EXCEPT ![h].at = "asking", ![h].session = profile.session]
  /\ UNCHANGED <<diditVars, handed, rows, profile, faults>>

(* Didit answers with what it says of the session now. *)
GetDecision(h) ==
  /\ At(h, "asking")
  /\ work' = [work EXCEPT ![h].at = "dating",
                          ![h].status = mapDiditStatus(didit[work[h].session])]
  /\ UNCHANGED <<diditVars, handed, rows, profile, faults>>

(* The answer is dated by the clock of the API, when it has arrived. *)
DateDecision(h) ==
  /\ At(h, "dating")
  /\ work' = [work EXCEPT ![h].at = "finding", ![h].stamp = 2 * clock + 1]
  /\ UNCHANGED <<diditVars, handed, rows, profile, faults>>

(* Mutant of Handleable: an event that failed is a duplicate. *)
HandleableOnce(e) == e <= Len(sent) /\ rows[e] = "none"

(* reserveWebhook: an event that is being handled, or was, is a duplicate. *)
Handleable(e) == e <= Len(sent) /\ rows[e] \in {"none", "FAILED"}

ReserveWebhook(h, e) ==
  /\ At(h, "idle") /\ Handleable(e)
  /\ rows' = [rows EXCEPT ![e] = "PROCESSING"]
  /\ work' = [work EXCEPT ![h] = [at |-> "finding", event |-> e, session |-> sent[e].session,
                                  stamp |-> sent[e].stamp, status |-> mapDiditStatus(sent[e].status)]]
  /\ UNCHANGED <<diditVars, handed, profile, faults>>

(* Mutant of Newer: the order of the events is not looked at. *)
NewerAlways(stamp) == TRUE

Newer(stamp) == profile.stamp = 0 \/ profile.stamp < stamp

(* applyProviderStatus, before its transaction: an unknown status was an   *)
(* error, a session that no profile has is ignored, and so is an old stamp. *)
FindProfile(h) ==
  /\ At(h, "finding")
  /\ IF work[h].status = "error" THEN Raise(h)
     ELSE /\ IF profile.session = work[h].session /\ Newer(work[h].stamp)
             THEN Goto(h, "applying") ELSE Done(h)
          /\ UNCHANGED rows
  /\ UNCHANGED <<diditVars, handed, profile, faults>>

(* The transaction finds the profile by its own id, whatever its session. *)
ApplyProviderStatus(h) ==
  /\ At(h, "applying")
  /\ profile' = IF Newer(work[h].stamp)
                THEN [profile EXCEPT !.status = work[h].status, !.stamp = work[h].stamp]
                ELSE profile
  /\ Done(h)
  /\ UNCHANGED <<diditVars, handed, rows, faults>>

CompleteWebhook(h) ==
  /\ At(h, "completing")
  /\ rows' = [rows EXCEPT ![work[h].event] = "PROCESSED"]
  /\ Leave(h)
  /\ UNCHANGED <<diditVars, handed, profile, faults>>

---------------------------------------------------------------------------
(* POST /kyc/submit and PATCH /admin/users/:id/kyc: one transaction each. *)

SetStatus(status) ==
  /\ profile' = [profile EXCEPT !.status = status]
  /\ UNCHANGED <<diditVars, handed, rows, work, faults>>

Submit == "submit" \in Operations /\ SetStatus("PENDING")

ReviewKyc ==
  /\ "review" \in Operations
  /\ \E status \in Reviews : SetStatus(status)

---------------------------------------------------------------------------
(* Faults: an error of a step, or the end of the process. *)

Fault == faults < MaxFaults /\ faults' = faults + 1

CallFails(h) ==
  /\ Fault /\ ~At(h, "idle")
  /\ Raise(h)
  /\ UNCHANGED <<diditVars, handed, profile>>

Crash(h) ==
  /\ Crashes /\ Fault /\ ~At(h, "idle")
  /\ Leave(h)
  /\ UNCHANGED <<diditVars, handed, rows, profile>>

---------------------------------------------------------------------------
Continue(h) ==
  \/ CreateSession(h) \/ SaveSession(h) \/ GetDecision(h) \/ DateDecision(h)
  \/ FindProfile(h) \/ ApplyProviderStatus(h) \/ CompleteWebhook(h)

Next ==
  \/ DiditDecides \/ Tick \/ Submit \/ ReviewKyc
  \/ \E h \in Handlers :
       \/ Continue(h) \/ BeginSession(h) \/ BeginRefresh(h)
       \/ (\E e \in Events : ReserveWebhook(h, e))
       \/ CallFails(h) \/ Crash(h)

Spec == Init /\ [][Next]_vars

(* A running handler goes on, and Didit sends an event again until it is   *)
(* answered with success.                                                  *)
Fairness ==
  /\ \A h \in Handlers : WF_vars(Continue(h))
  /\ \A e \in Events : SF_vars(\E h \in Handlers : ReserveWebhook(h, e))

FairSpec == Spec /\ Fairness

---------------------------------------------------------------------------
(* Properties. *)

(* Every variable keeps its type. *)
TypeOK ==
  /\ clock \in 1..Horizon
  /\ didit \in [Sessions -> DiditStatus \cup {"none"}]
  /\ handed \in [Sessions -> 0..MaxSaves]
  /\ sent \in Seq([session : Sessions, status : DiditStatus, stamp : Nat])
  /\ rows \in [Events -> {"none", "PROCESSING", "PROCESSED", "FAILED"}]
  /\ profile \in [status : KycStatus, session : Sessions \cup {0}, stamp : Nat]
  /\ faults \in 0..MaxFaults

SaidOf(s) == {sent[e].status : e \in {d \in DOMAIN sent : sent[d].session = s}}

(* Nobody is approved but by a decision of Didit on a session that was     *)
(* handed to this customer (DIDIT_KYC.md: the backend must store APPROVED  *)
(* before money moves; requireApprovedKyc).                                *)
ApprovedByDidit ==
  profile.status = "APPROVED" => \E s \in Sessions : handed[s] > 0 /\ "approved" \in SaidOf(s)

(* What is on the profile is dated no earlier than any event that was      *)
(* answered with success: none is lost by a repetition, a failure or an    *)
(* overlap of its handling, unless its session was saved twice             *)
(* (saveSession forgets the stamp).  The date is all that is compared: a   *)
(* second event of one second is answered and dropped, and a refresh is    *)
(* dated when its answer arrives (LastDecisionStands).                     *)
NoAnsweredEventIsNewer ==
  \A e \in DOMAIN sent :
    rows[e] = "PROCESSED" /\ sent[e].session = profile.session /\ handed[profile.session] = 1 =>
      profile.stamp >= sent[e].stamp

(* Every event with a known status is handled in the end, though handling  *)
(* it fails, unless the process stopped in the middle: such a row stays    *)
(* PROCESSING, and each repetition of the event is taken for a duplicate.  *)
EventsAreHandled ==
  \A e \in Events :
    (e <= Len(sent) /\ mapDiditStatus(sent[e].status) # "error") ~>
      \/ rows[e] = "PROCESSED"
      \/ rows[e] = "PROCESSING" /\ \A h \in Handlers : work[h].event # e

(* Nobody is approved but by Didit, and no event that was answered with    *)
(* success is newer than what the profile has (applyProviderStatus).       *)
StatusFollowsDidit == TypeOK /\ ApprovedByDidit /\ NoAnsweredEventIsNewer

(* "Webhooks are the primary source of truth" (DIDIT_KYC.md:41), and       *)
(* decisions "older than the latest applied status" are ignored (test      *)
(* didit-repository.test.ts:63): when all is quiet, and neither customer   *)
(* nor staff has a say, Didit's last decision is on the profile.  False: a *)
(* refresh that was answered before a decision is dated after it, and is   *)
(* written over it.                                                        *)
LastDecisionStands ==
  (\A h \in Handlers : At(h, "idle")) /\ (\A e \in Events : ~Handleable(e)) =>
    \A s \in {profile.session} \ {0} :
      SaidOf(s) # {} => profile.status = mapDiditStatus(didit[s])
=============================================================================
