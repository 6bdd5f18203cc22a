------------------ MODULE IdentityVerificationProofs ------------------
(***************************************************************************)
(* Proofs about the identity check of a customer, for every set of         *)
(* requests, of sessions and of events: nobody is approved but by Didit,   *)
(* and no event that was answered is newer than what the profile has.      *)
(*                                                                         *)
(* None of this is inductive.  IInv adds what a request carries over each  *)
(* of its awaits (WorkFits, ApprovalInv), that Didit tells only of what    *)
(* was handed out (SaysInv), and that an event is applied before its row   *)
(* is completed (AppliedInv).  A session that is saved forgets the order   *)
(* of its events: what was sent of it was sent after an earlier save, so   *)
(* it is then saved twice, which Applied allows for.                       *)
(***************************************************************************)
EXTENDS IdentityVerification, FiniteSums

---------------------------------------------------------------------------
(* Types, and what a handler carries at each of its awaits. *)

Place ==
  {"idle", "creating", "saving", "asking", "dating", "finding", "applying", "completing"}
Event == [session : Sessions, status : DiditStatus, stamp : Nat]

WorkRecord ==
  [at : Place, session : Sessions \cup {0}, status : KycStatus \cup {"none", "error"},
   stamp : Nat, event : Events \cup {0}]

Asking == {h \in Handlers : work[h].at \in {"creating", "saving"}}

WorkFits(h) ==
  /\ work[h] \in WorkRecord
  /\ At(h, "saving") =>
       work[h].session \in Sessions /\ work[h].status \in (KycStatus \cup {"error"}) \ {"APPROVED"}
  /\ work[h].at \in {"asking", "dating", "finding", "applying"} => work[h].session \in Sessions
  /\ work[h].at \in {"dating", "finding"} => work[h].status \in KycStatus \cup {"error"}
  /\ At(h, "applying") => work[h].status \in KycStatus
  /\ work[h].event # 0 =>
       /\ work[h].at \in {"finding", "applying", "completing"}
       /\ work[h].event \in DOMAIN sent
       /\ work[h].session = sent[work[h].event].session
       /\ work[h].stamp = sent[work[h].event].stamp
  /\ At(h, "completing") => work[h].event # 0

StateTyped ==
  /\ clock \in 1..Horizon /\ faults \in 0..MaxFaults
  /\ didit \in [Sessions -> DiditStatus \cup {"none"}]
  /\ handed \in [Sessions -> Nat]
  /\ sent \in Seq(Event) /\ Len(sent) <= MaxEvents
  /\ rows \in [Events -> {"none", "PROCESSING", "PROCESSED", "FAILED"}]
  /\ profile \in [status : KycStatus, session : Sessions \cup {0}, stamp : Nat]

WorkTyped == DOMAIN work = Handlers /\ \A h \in Handlers : WorkFits(h)

\* A session is asked for, and saved, so often.
SavesBounded ==
  IsFiniteSet(Asking) /\ SumOver(handed, Sessions) + Cardinality(Asking) <= MaxSaves

TypeInv == StateTyped /\ WorkTyped /\ SavesBounded

LEMMA NumbersFacts ==
  /\ MaxSessions \in Nat /\ MaxSaves \in Nat /\ MaxEvents \in Nat /\ MaxFaults \in Nat
  /\ Horizon \in Nat \ {0} /\ Decisions \subseteq DiditStatus /\ Reviews \subseteq StaffStatus
BY ConstantsAssumption DEF ConstantsAssumption

LEMMA SentFacts ==
  ASSUME StateTyped
  PROVE  /\ Len(sent) \in Nat /\ DOMAIN sent = 1..Len(sent) /\ DOMAIN sent \subseteq Events
         /\ \A e \in DOMAIN sent : sent[e] \in Event
<1>1. sent \in Seq(Event) /\ Len(sent) <= MaxEvents
  BY DEF StateTyped
<1> QED BY <1>1, NumbersFacts DEF Events

LEMMA StatusFacts ==
  /\ \A s \in DiditStatus \cup {"none"} : mapDiditStatus(s) \in KycStatus \cup {"error"}
  /\ \A s : mapDiditStatus(s) = "APPROVED" => s = "approved"
  /\ StaffStatus \subseteq KycStatus \ {"APPROVED"} /\ "PENDING" \in KycStatus
BY DEF mapDiditStatus, KycStatus, DiditStatus, StaffStatus

LEMMA IdleFacts == Idle \in WorkRecord /\ Idle.at = "idle" /\ Idle.event = 0
BY DEF Idle, WorkRecord, Place

\* A handler goes on with l, or stays, and the others do not move.
LEMMA GoesOn ==
  ASSUME WorkTyped, NEW h \in Handlers, NEW l, work' = [work EXCEPT ![h] = l]
  PROVE  /\ DOMAIN work' = Handlers /\ work'[h] = l
         /\ \A g \in Handlers \ {h} : work'[g] = work[g]
BY DEF WorkTyped

LEMMA PlaceFacts ==
  ASSUME NEW w \in WorkRecord, NEW at \in Place
  PROVE  LET l == [w EXCEPT !.at = at]
         IN  /\ l \in WorkRecord /\ l.at = at /\ l.session = w.session /\ l.status = w.status
             /\ l.stamp = w.stamp /\ l.event = w.event
BY DEF WorkRecord

LEMMA GotoFacts ==
  ASSUME WorkTyped, NEW h \in Handlers, NEW at \in Place, Goto(h, at)
  PROVE  /\ DOMAIN work' = Handlers /\ work'[h] \in WorkRecord /\ work'[h].at = at
         /\ work'[h].session = work[h].session /\ work'[h].status = work[h].status
         /\ work'[h].stamp = work[h].stamp /\ work'[h].event = work[h].event
         /\ \A g \in Handlers \ {h} : work'[g] = work[g]
<1> DEFINE l == [work[h] EXCEPT !.at = at]
<1>1. work[h] \in WorkRecord
  BY DEF WorkTyped, WorkFits
<1>2. /\ l \in WorkRecord /\ l.at = at /\ l.session = work[h].session /\ l.status = work[h].status
      /\ l.stamp = work[h].stamp /\ l.event = work[h].event
  BY <1>1, PlaceFacts
<1>3. work' = [work EXCEPT ![h] = l]
  BY DEF Goto
<1> HIDE DEF l
<1> QED BY <1>2, <1>3, GoesOn

LEMMA LeaveFacts ==
  ASSUME WorkTyped, NEW h \in Handlers, Leave(h)
  PROVE  /\ DOMAIN work' = Handlers /\ work'[h] = Idle
         /\ \A g \in Handlers \ {h} : work'[g] = work[g]
BY GoesOn DEF Leave

---------------------------------------------------------------------------
(* What each step of a handler does to it. *)

Own(h) ==
  \/ BeginSession(h) \/ CreateSession(h) \/ SaveSession(h)
  \/ BeginRefresh(h) \/ GetDecision(h) \/ DateDecision(h)
  \/ \E e \in Events : ReserveWebhook(h, e)
  \/ FindProfile(h) \/ ApplyProviderStatus(h) \/ CompleteWebhook(h) \/ CallFails(h) \/ Crash(h)

\* Where a step takes a handler, by the place it was at.
Advance(h) ==
  LET l == work'[h]
      w == work[h]
      same == l.session = w.session /\ l.stamp = w.stamp /\ l.event = w.event
  IN
  \/ l = Idle
  \/ /\ w.at = "idle" /\ w.event = 0 /\ l.at = "creating" /\ l.event = 0 /\ Asked < MaxSaves
  \/ /\ w.at = "creating" /\ l.at = "saving" /\ l.event = 0 /\ l.session \in Sessions
     /\ l.status \in (KycStatus \cup {"error"}) \ {"APPROVED"}
  \/ w.at = "idle" /\ l.at = "asking" /\ l.event = 0 /\ l.session \in Sessions
  \/ /\ w.at = "asking" /\ l.at = "dating" /\ l.event = 0 /\ l.session = w.session
     /\ l.session \in Sessions
     /\ l.status = mapDiditStatus(didit[w.session]) /\ l.status \in KycStatus \cup {"error"}
  \/ /\ w.at = "dating" /\ l.at = "finding" /\ l.event = 0 /\ l.session = w.session
     /\ l.session \in Sessions
     /\ l.status = w.status /\ l.status \in KycStatus \cup {"error"}
  \/ /\ w.at = "idle" /\ l.at = "finding" /\ l.event \in DOMAIN sent /\ l.event # 0
     /\ Handleable(l.event) /\ rows' = [rows EXCEPT ![l.event] = "PROCESSING"]
     /\ l.session = sent[l.event].session /\ l.stamp = sent[l.event].stamp
     /\ l.status = mapDiditStatus(sent[l.event].status) /\ l.status \in KycStatus \cup {"error"}
  \/ /\ w.at = "finding" /\ l.at = "applying" /\ same /\ l.status = w.status /\ w.status # "error"
  \/ /\ w.at = "finding" /\ l.at = "completing" /\ same /\ w.event # 0
     /\ ~(profile.session = w.session /\ Newer(w.stamp)) /\ UNCHANGED profile
  \/ /\ w.at = "applying" /\ l.at = "completing" /\ same /\ w.event # 0 /\ ApplyProviderStatus(h)

LEMMA OwnAdvances ==
  ASSUME StateTyped, WorkTyped, NEW h \in Handlers, Own(h)
  PROVE  /\ DOMAIN work' = Handlers /\ work'[h] \in WorkRecord /\ Advance(h)
         /\ \A g \in Handlers \ {h} : work'[g] = work[g]
<1> DEFINE Goal == /\ DOMAIN work' = Handlers /\ work'[h] \in WorkRecord /\ Advance(h)
                   /\ \A g \in Handlers \ {h} : work'[g] = work[g]
<1>0. /\ work[h] \in WorkRecord /\ WorkFits(h)
      /\ Place = {"idle", "creating", "saving", "asking", "dating", "finding", "applying",
                  "completing"}
  BY DEF WorkTyped, WorkFits, Place
<1>1. CASE Leave(h)
  BY <1>1, LeaveFacts, IdleFacts DEF Advance
<1>2. CASE BeginSession(h)
  <2>1. Goto(h, "creating") /\ work[h].at = "idle" /\ Asked < MaxSaves
    BY <1>2 DEF BeginSession, At
  <2>2. work[h].event = 0
    BY <1>0, <2>1 DEF WorkFits
  <2> QED BY <1>0, <2>1, <2>2, GotoFacts DEF Advance
<1>3. CASE CreateSession(h) /\ ~Leave(h)
  <2>1. PICK s \in Sessions :
          /\ (didit[s] = "none" /\ didit' = [didit EXCEPT ![s] = "not started"]) \/ (~Final(didit[s]) /\ didit' = didit)
          /\ work' = [work EXCEPT ![h].at = "saving", ![h].session = s, ![h].status = mapDiditStatus(didit'[s])]
    BY <1>3 DEF CreateSession
  <2> DEFINE status == mapDiditStatus(didit'[s])
             l == [work[h] EXCEPT !.at = "saving", !.session = s, !.status = status]
  <2>2. didit \in [Sessions -> DiditStatus \cup {"none"}]
    BY DEF StateTyped
  <2>3. didit'[s] \in DiditStatus \cup {"none"} /\ didit'[s] # "approved"
    BY <2>1, <2>2 DEF Final, DiditStatus
  <2>4. status \in (KycStatus \cup {"error"}) \ {"APPROVED"}
    BY <2>3, StatusFacts
  <2>5. work[h].at = "creating" /\ work[h].event = 0
    BY <1>0, <1>3 DEF CreateSession, At, WorkFits
  <2>6. work' = [work EXCEPT ![h] = l]
    BY <2>1
  <2> HIDE DEF status
  <2>a. l = [work[h] EXCEPT !.at = "saving", !.session = s, !.status = status]
    OBVIOUS
  <2> HIDE DEF l
  <2>7. l \in WorkRecord /\ l.at = "saving" /\ l.session = s /\ l.status = status /\ l.event = 0
    BY <1>0, <2>4, <2>5, <2>a DEF WorkRecord
  <2> QED BY <2>4, <2>5, <2>6, <2>7, GoesOn DEF Advance
<1>4. CASE BeginRefresh(h)
  <2> DEFINE s == profile.session
             l == [work[h] EXCEPT !.at = "asking", !.session = s]
  <2>1. s \in Sessions /\ work[h].at = "idle" /\ work' = [work EXCEPT ![h] = l]
    BY <1>4 DEF BeginRefresh, StateTyped, At
  <2>2. work[h].event = 0
    BY <1>0, <2>1 DEF WorkFits
  <2> HIDE DEF s
  <2>a. l = [work[h] EXCEPT !.at = "asking", !.session = s]
    OBVIOUS
  <2> HIDE DEF l
  <2>3. l \in WorkRecord /\ l.at = "asking" /\ l.session = s /\ l.event = 0
    BY <1>0, <2>1, <2>2, <2>a DEF WorkRecord
  <2> QED BY <2>1, <2>3, GoesOn DEF Advance
<1>5. CASE GetDecision(h)
  <2> DEFINE status == mapDiditStatus(didit[work[h].session])
             l == [work[h] EXCEPT !.at = "dating", !.status = status]
  <2>1. work[h].at = "asking" /\ work' = [work EXCEPT ![h] = l]
    BY <1>5 DEF GetDecision, At
  <2>2. work[h].session \in Sessions /\ work[h].event = 0
    BY <1>0, <2>1 DEF WorkFits
  <2>3. status \in KycStatus \cup {"error"}
    BY <2>2, StatusFacts DEF StateTyped
  <2> HIDE DEF status
  <2>a. l = [work[h] EXCEPT !.at = "dating", !.status = status]
    OBVIOUS
  <2> HIDE DEF l
  <2>5. /\ l \in WorkRecord /\ l.at = "dating" /\ l.session = work[h].session
        /\ l.status = status /\ l.event = 0
    BY <1>0, <2>2, <2>3, <2>a DEF WorkRecord
  <2> QED BY <2>1, <2>2, <2>3, <2>5, GoesOn DEF Advance, status
<1>a. CASE DateDecision(h)
  <2> DEFINE n == 2 * clock + 1
             l == [work[h] EXCEPT !.at = "finding", !.stamp = n]
  <2>1. work[h].at = "dating" /\ work' = [work EXCEPT ![h] = l]
    BY <1>a DEF DateDecision, At
  <2>2. /\ work[h].session \in Sessions /\ work[h].event = 0
        /\ work[h].status \in KycStatus \cup {"error"}
    BY <1>0, <2>1 DEF WorkFits
  <2>4. n \in Nat
    BY NumbersFacts DEF StateTyped
  <2> HIDE DEF n
  <2>a. l = [work[h] EXCEPT !.at = "finding", !.stamp = n]
    OBVIOUS
  <2> HIDE DEF l
  <2>5. /\ l \in WorkRecord /\ l.at = "finding" /\ l.session = work[h].session
        /\ l.status = work[h].status /\ l.event = 0
    BY <1>0, <2>2, <2>4, <2>a DEF WorkRecord
  <2> QED BY <2>1, <2>2, <2>5, GoesOn DEF Advance
<1>6. ASSUME NEW e \in Events, ReserveWebhook(h, e) PROVE Goal
  <2> DEFINE l == [at |-> "finding", event |-> e, session |-> sent[e].session,
                   stamp |-> sent[e].stamp, status |-> mapDiditStatus(sent[e].status)]
  <2>1. /\ work[h].at = "idle" /\ Handleable(e) /\ work' = [work EXCEPT ![h] = l]
        /\ rows' = [rows EXCEPT ![e] = "PROCESSING"]
    BY <1>6 DEF ReserveWebhook, At
  <2>2. e \in DOMAIN sent /\ e # 0
    BY <2>1, SentFacts, NumbersFacts DEF Handleable, Events
  <2>3. sent[e] \in Event
    BY <2>2, SentFacts
  <2>4. mapDiditStatus(sent[e].status) \in KycStatus \cup {"error"}
    BY <2>3, StatusFacts DEF Event
  <2>5. /\ l \in WorkRecord /\ l.at = "finding" /\ l.event = e /\ l.session = sent[e].session
        /\ l.stamp = sent[e].stamp /\ l.status = mapDiditStatus(sent[e].status)
    BY <1>0, <2>3, <2>4 DEF WorkRecord, Event
  <2> HIDE DEF l
  <2> QED BY <2>1, <2>2, <2>4, <2>5, GoesOn DEF Advance
<1>7. CASE FindProfile(h) /\ ~Leave(h)
  <2>1. work[h].at = "finding" /\ work[h].status # "error" /\ UNCHANGED profile
    BY <1>7 DEF FindProfile, Raise, At
  <2>2. \/ Goto(h, "applying")
        \/ ~(profile.session = work[h].session /\ Newer(work[h].stamp)) /\ work[h].event # 0 /\ Goto(h, "completing")
    BY <1>7, <2>1 DEF FindProfile, Done
  <2> QED BY <1>0, <2>1, <2>2, GotoFacts DEF Advance
<1>8. CASE ApplyProviderStatus(h) /\ ~Leave(h)
  <2>1. work[h].at = "applying" /\ work[h].event # 0 /\ Goto(h, "completing")
    BY <1>8 DEF ApplyProviderStatus, Done, At
  <2> QED BY <1>0, <1>8, <2>1, GotoFacts DEF Advance
<1>9. CASE SaveSession(h) \/ CompleteWebhook(h) \/ CallFails(h) \/ Crash(h)
  BY <1>1, <1>9 DEF SaveSession, CompleteWebhook, CallFails, Crash, Raise
<1> QED BY <1>1, <1>2, <1>3, <1>4, <1>5, <1>a, <1>6, <1>7, <1>8, <1>9 DEF Own

---------------------------------------------------------------------------
(* The bound on the sessions.                                              *)

LEMMA SessionsFinite == IsFiniteSet(Sessions)
BY NumbersFacts, FS_Interval DEF Sessions

\* FoldFunction is a sum.
LEMMA AskedIsSum ==
  ASSUME StateTyped
  PROVE  Asked = SumOver(handed, Sessions) + Cardinality(Asking)
<1>1. DOMAIN handed = Sessions
  BY DEF StateTyped
<1>2. FoldFunction(+, 0, handed) = SumOver(handed, Sessions)
  BY <1>1 DEF FoldFunction, FoldFunctionOnSet, SumOver, MapThenSumSet, MapThenFoldSet
<1> QED BY <1>2 DEF Asked, Asking

LEMMA HandedFacts ==
  ASSUME StateTyped
  PROVE  /\ SumOver(handed, Sessions) \in Nat
         /\ \A s \in Sessions : handed[s] \in Nat /\ handed[s] <= SumOver(handed, Sessions)
<1>1. \A s \in Sessions : handed[s] \in Nat
  BY DEF StateTyped
<1>2. SumOver(handed, Sessions) \in Nat
  BY <1>1, SessionsFinite, SumGrows
<1>3. ASSUME NEW s \in Sessions PROVE handed[s] <= SumOver(handed, Sessions)
  <2>1. SumOver(handed, {}) = 0 /\ SumOver(handed, {s}) <= SumOver(handed, Sessions)
    BY <1>1, SessionsFinite, SumGrows, SumEmpty
  <2>2. Weights(handed, Sessions)
    BY <1>1 DEF Weights
  <2>3. SumOver(handed, {} \cup {s}) = SumOver(handed, {}) + handed[s]
    BY <2>2, SessionsFinite, SumAddElement
  <2>4. {} \cup {s} = {s} /\ handed[s] \in Nat
    BY <1>1
  <2> QED BY <2>1, <2>3, <2>4
<1> QED BY <1>1, <1>2, <1>3

\* saveSession hands a session out once more.
LEMMA HandedGrows ==
  ASSUME StateTyped, NEW s \in Sessions, handed' = [handed EXCEPT ![s] = @ + 1]
  PROVE  /\ handed' \in [Sessions -> Nat]
         /\ SumOver(handed', Sessions) = SumOver(handed, Sessions) + 1
<1> DEFINE Others == Sessions \ {s}
<1>1. handed \in [Sessions -> Nat]
  BY DEF StateTyped
<1>2. /\ handed' \in [Sessions -> Nat] /\ handed'[s] = handed[s] + 1
      /\ \A t \in Others : handed'[t] = handed[t]
  BY <1>1
<1>3. IsFiniteSet(Others) /\ Others \cup {s} = Sessions /\ s \notin Others /\ Others \in SUBSET Sessions
  BY SessionsFinite, FS_Subset
<1>4. SumOver(handed', Others) = SumOver(handed, Others)
  BY <1>2, <1>3, SameWeights
<1>5. Weights(handed, Sessions) /\ Weights(handed', Sessions)
  BY <1>1, <1>2 DEF Weights
<1> HIDE DEF Others
<1>6. SumOver(handed, Others) \in Int /\ SumOver(handed, Sessions) = SumOver(handed, Others) + handed[s]
  BY <1>3, <1>5, SessionsFinite, SumAddElement
<1>7. SumOver(handed', Sessions) = SumOver(handed', Others) + handed'[s]
  <2>1. PICK w : w = handed'
    OBVIOUS
  <2>2. Weights(w, Sessions)
    BY <1>5, <2>1
  <2>3. SumOver(w, Sessions) = SumOver(w, Others) + w[s]
    BY <1>3, <2>2, SessionsFinite, SumAddElement
  <2> QED BY <2>1, <2>3
<1>8. handed[s] \in Nat
  BY <1>1
<1> QED BY <1>2, <1>4, <1>6, <1>7, <1>8

\* Who asks for a session, after a handler has moved.
LEMMA AskingMoves ==
  ASSUME NEW h \in Handlers, \A g \in Handlers \ {h} : work'[g] = work[g]
  PROVE  /\ work'[h].at \in {"creating", "saving"} => Asking' = Asking \cup {h}
         /\ work'[h].at \notin {"creating", "saving"} => Asking' = Asking \ {h}
BY DEF Asking

LEMMA AskingFacts ==
  ASSUME SavesBounded
  PROVE  /\ IsFiniteSet(Asking) /\ Cardinality(Asking) \in Nat
         /\ \A h : /\ IsFiniteSet(Asking \cup {h}) /\ IsFiniteSet(Asking \ {h})
                   /\ Cardinality(Asking \cup {h}) \in Nat /\ Cardinality(Asking \ {h}) \in Nat
                   /\ Cardinality(Asking \cup {h}) <= Cardinality(Asking) + 1
                   /\ Cardinality(Asking \ {h}) <= Cardinality(Asking)
                   /\ h \in Asking => Asking \cup {h} = Asking /\ Cardinality(Asking \ {h}) = Cardinality(Asking) - 1
<1>1. IsFiniteSet(Asking)
  BY DEF SavesBounded
<1>2. ASSUME NEW h
      PROVE /\ IsFiniteSet(Asking \cup {h}) /\ IsFiniteSet(Asking \ {h})
            /\ Cardinality(Asking \cup {h}) \in Nat /\ Cardinality(Asking \ {h}) \in Nat
            /\ Cardinality(Asking \cup {h}) <= Cardinality(Asking) + 1
            /\ Cardinality(Asking \ {h}) <= Cardinality(Asking)
            /\ h \in Asking => Asking \cup {h} = Asking /\ Cardinality(Asking \ {h}) = Cardinality(Asking) - 1
  <2>1. /\ IsFiniteSet(Asking \cup {h}) /\ Cardinality(Asking \cup {h}) \in Nat
        /\ Cardinality(Asking \cup {h}) <= Cardinality(Asking) + 1
    BY <1>1, AddSize
  <2>2. IsFiniteSet(Asking \ {h}) /\ Cardinality(Asking \ {h}) \in Nat
        /\ Cardinality(Asking \ {h}) <= Cardinality(Asking)
    <3>1. Asking \ {h} \in SUBSET Asking
      OBVIOUS
    <3> QED BY <1>1, <3>1, SubsetSize, FS_CardinalityType
  <2>3. h \in Asking => Cardinality(Asking \ {h}) = Cardinality(Asking) - 1
    BY <1>1, FS_RemoveElement
  <2>4. h \in Asking => Asking \cup {h} = Asking
    OBVIOUS
  <2> QED BY <2>1, <2>2, <2>3, <2>4
<1>3. Cardinality(Asking) \in Nat
  BY <1>1, FS_CardinalityType
<1> QED BY <1>1, <1>2, <1>3

\* A handler that does not save keeps the bound.
LEMMA BoundHolds ==
  ASSUME TypeInv, NEW h \in Handlers, Advance(h), handed' = handed,
         \A g \in Handlers \ {h} : work'[g] = work[g]
  PROVE  SavesBounded'
<1>1. StateTyped /\ SavesBounded
  BY DEF TypeInv
<1>2. SumOver(handed, Sessions) \in Nat
  BY <1>1, HandedFacts
<1>3. SumOver(handed', Sessions) = SumOver(handed, Sessions)
  OBVIOUS
<1>4. MaxSaves \in Nat /\ SumOver(handed, Sessions) + Cardinality(Asking) <= MaxSaves
  BY <1>1, NumbersFacts DEF SavesBounded
<1>5. \/ work'[h].at \notin {"creating", "saving"}
      \/ work'[h].at = "creating" /\ Asked < MaxSaves
      \/ work'[h].at = "saving" /\ work[h].at = "creating"
  BY IdleFacts DEF Advance
<1>6. CASE work'[h].at \notin {"creating", "saving"}
  <2>1. Asking' = Asking \ {h}
    BY <1>6, AskingMoves
  <2>2. IsFiniteSet(Asking') /\ Cardinality(Asking') \in Nat /\ Cardinality(Asking') <= Cardinality(Asking)
        /\ Cardinality(Asking) \in Nat
    BY <1>1, <2>1, AskingFacts
  <2> QED BY <1>2, <1>3, <1>4, <2>2 DEF SavesBounded
<1>7. CASE work'[h].at = "creating" /\ Asked < MaxSaves
  <2>1. Asking' = Asking \cup {h}
    BY <1>7, AskingMoves
  <2>2. IsFiniteSet(Asking') /\ Cardinality(Asking') \in Nat /\ Cardinality(Asking') <= Cardinality(Asking) + 1
        /\ Cardinality(Asking) \in Nat
    BY <1>1, <2>1, AskingFacts
  <2>3. SumOver(handed, Sessions) + Cardinality(Asking) < MaxSaves
    BY <1>1, <1>7, AskedIsSum
  <2> QED BY <1>2, <1>3, <1>4, <2>2, <2>3 DEF SavesBounded
<1>8. CASE work'[h].at = "saving" /\ work[h].at = "creating"
  <2>1. Asking' = Asking \cup {h} /\ h \in Asking
    BY <1>8, AskingMoves DEF Asking
  <2>2. Asking' = Asking
    BY <2>1
  <2> QED BY <1>1, <1>3, <2>2 DEF SavesBounded
<1> QED BY <1>5, <1>6, <1>7, <1>8

---------------------------------------------------------------------------
(* A step of a handler keeps the types.                                    *)

\* What a step of a handler does to the profile and to what was handed out.
LEMMA SaveFacts ==
  ASSUME TypeInv, NEW h \in Handlers, SaveSession(h), work[h].status # "error"
  PROVE  /\ work[h].session \in Sessions /\ work[h].status \in KycStatus \ {"APPROVED"}
         /\ profile' = [status |-> work[h].status, session |-> work[h].session, stamp |-> 0]
         /\ handed' = [handed EXCEPT ![work[h].session] = @ + 1] /\ Leave(h)
BY DEF SaveSession, TypeInv, WorkTyped, WorkFits, At

LEMMA OwnKeepsTypes ==
  ASSUME TypeInv, NEW h \in Handlers, Own(h)
  PROVE  TypeInv'
<1>0. StateTyped /\ WorkTyped /\ SavesBounded /\ WorkFits(h)
  BY DEF TypeInv, WorkTyped
<1>1. /\ DOMAIN work' = Handlers /\ work'[h] \in WorkRecord /\ Advance(h)
      /\ \A g \in Handlers \ {h} : work'[g] = work[g]
  BY <1>0, OwnAdvances
<1>2. UNCHANGED <<clock, sent>> /\ (faults' = faults \/ (faults' = faults + 1 /\ faults < MaxFaults))
  BY DEF Own, BeginSession, CreateSession, SaveSession, BeginRefresh, GetDecision, DateDecision,
         ReserveWebhook,
         FindProfile, ApplyProviderStatus, CompleteWebhook, CallFails, Crash, Fault, diditVars
<1>3. faults' \in 0..MaxFaults
  BY <1>0, <1>2, NumbersFacts DEF StateTyped
<1>4. didit' \in [Sessions -> DiditStatus \cup {"none"}]
  <2>1. \/ didit' = didit
        \/ \E s \in Sessions : didit' = [didit EXCEPT ![s] = "not started"]
    BY DEF Own, BeginSession, CreateSession, SaveSession, BeginRefresh, GetDecision, DateDecision,
           ReserveWebhook,
           FindProfile, ApplyProviderStatus, CompleteWebhook, CallFails, Crash, diditVars
  <2>2. "not started" \in DiditStatus
    BY DEF DiditStatus
  <2> QED BY <1>0, <2>1, <2>2 DEF StateTyped
<1>5. rows' \in [Events -> {"none", "PROCESSING", "PROCESSED", "FAILED"}]
  <2>1. \/ rows' = rows
        \/ \E e \in Events, r \in {"PROCESSING", "PROCESSED", "FAILED"} : rows' = [rows EXCEPT ![e] = r]
    <3>1. work[h].event # 0 => work[h].event \in Events
      BY <1>0, SentFacts DEF WorkFits
    <3>2. CASE Raise(h)
      BY <3>1, <3>2 DEF Raise
    <3>3. CASE CompleteWebhook(h)
      BY <3>1, <3>3, <1>0 DEF CompleteWebhook, WorkFits
    <3>4. CASE ~Raise(h) /\ ~CompleteWebhook(h)
      BY <3>4 DEF Own, BeginSession, CreateSession, SaveSession, BeginRefresh, GetDecision, DateDecision,
                  ReserveWebhook,
                  FindProfile, ApplyProviderStatus, CallFails, Crash
    <3> QED BY <3>2, <3>3, <3>4
  <2> QED BY <1>0, <2>1 DEF StateTyped
<1>6. CASE SaveSession(h) /\ work[h].status # "error"
  <2>1. /\ work[h].session \in Sessions /\ work[h].status \in KycStatus \ {"APPROVED"}
        /\ profile' = [status |-> work[h].status, session |-> work[h].session, stamp |-> 0]
        /\ handed' = [handed EXCEPT ![work[h].session] = @ + 1] /\ Leave(h)
    BY <1>6, SaveFacts
  <2>2. handed' \in [Sessions -> Nat] /\ SumOver(handed', Sessions) = SumOver(handed, Sessions) + 1
    BY <1>0, <2>1, HandedGrows
  <2>3. profile' \in [status : KycStatus, session : Sessions \cup {0}, stamp : Nat]
    BY <2>1
  <2>4. StateTyped'
    BY <1>0, <1>2, <1>3, <1>4, <1>5, <2>2, <2>3 DEF StateTyped
  <2>5. work'[h] = Idle
    BY <1>0, <2>1, LeaveFacts
  <2>6. h \in Asking /\ Asking' = Asking \ {h}
    BY <1>6, <1>1, <2>5, IdleFacts, AskingMoves DEF Asking, SaveSession, At
  <2>7. /\ IsFiniteSet(Asking') /\ Cardinality(Asking') = Cardinality(Asking) - 1
        /\ Cardinality(Asking) \in Nat
    BY <1>0, <2>6, AskingFacts
  <2>8. SumOver(handed, Sessions) \in Nat /\ MaxSaves \in Nat
    BY <1>0, HandedFacts, NumbersFacts
  <2>9. SavesBounded'
    BY <1>0, <2>2, <2>7, <2>8 DEF SavesBounded
  <2>10. WorkTyped'
    <3>1. WorkFits(h)'
      BY <2>5, <1>1, IdleFacts DEF WorkFits, At
    <3>2. ASSUME NEW g \in Handlers \ {h} PROVE WorkFits(g)'
      BY <1>0, <1>1, <1>2 DEF WorkTyped, WorkFits, At
    <3> QED BY <1>1, <3>1, <3>2 DEF WorkTyped
  <2> QED BY <2>4, <2>9, <2>10 DEF TypeInv
<1>7. CASE ~(SaveSession(h) /\ work[h].status # "error")
  <2>1. handed' = handed
    BY <1>7 DEF Own, BeginSession, CreateSession, SaveSession, BeginRefresh, GetDecision, DateDecision,
                ReserveWebhook,
           FindProfile, ApplyProviderStatus, CompleteWebhook, CallFails, Crash
  <2>2. profile' \in [status : KycStatus, session : Sessions \cup {0}, stamp : Nat]
    <3>1. CASE ApplyProviderStatus(h)
      <4>1. work[h].status \in KycStatus /\ work[h].stamp \in Nat
        BY <1>0, <3>1 DEF ApplyProviderStatus, WorkFits, WorkRecord
      <4>2. profile' = profile \/ profile' = [profile EXCEPT !.status = work[h].status, !.stamp = work[h].stamp]
        BY <3>1 DEF ApplyProviderStatus
      <4>3. profile \in [status : KycStatus, session : Sessions \cup {0}, stamp : Nat]
        BY <1>0 DEF StateTyped
      <4> QED BY <4>1, <4>2, <4>3
    <3>2. CASE ~ApplyProviderStatus(h)
      <4>1. profile' = profile
        BY <1>7, <3>2 DEF Own, BeginSession, CreateSession, SaveSession, BeginRefresh, GetDecision, DateDecision,
                          ReserveWebhook,
             FindProfile, CompleteWebhook, CallFails, Crash
      <4> QED BY <1>0, <4>1 DEF StateTyped
    <3> QED BY <3>1, <3>2
  <2>3. StateTyped'
    BY <1>0, <1>2, <1>3, <1>4, <1>5, <2>1, <2>2 DEF StateTyped
  <2>4. SavesBounded'
    BY <1>1, <2>1, BoundHolds
  <2>5. WorkTyped'
    <3>0. \A e \in DOMAIN sent : sent[e].stamp \in Nat /\ sent[e].session \in Sessions
      BY <1>0, SentFacts DEF Event
    <3>1. WorkFits(h)'
      <4>1. CASE work'[h] = Idle
        BY <4>1, <1>1, IdleFacts DEF WorkFits, At
      <4>2. CASE work'[h].at = "saving"
        BY <4>2, <1>1, IdleFacts DEF Advance, WorkFits, At
      <4>3. CASE work'[h].at \in {"dating", "finding"}
        BY <4>3, <1>0, <1>1, <1>2, <3>0, IdleFacts DEF Advance, WorkFits, At
      <4>4. CASE work'[h].at \in {"creating", "asking"}
        BY <4>4, <1>0, <1>1, <1>2, IdleFacts DEF Advance, WorkFits, At
      <4>5. CASE work'[h].at \in {"applying", "completing"}
        BY <4>5, <1>0, <1>1, <1>2, IdleFacts DEF Advance, WorkFits, At
      <4> QED BY <1>1, <4>1, <4>2, <4>3, <4>4, <4>5 DEF Advance
    <3>2. ASSUME NEW g \in Handlers \ {h} PROVE WorkFits(g)'
      BY <1>0, <1>1, <1>2 DEF WorkTyped, WorkFits, At
    <3> QED BY <1>1, <3>1, <3>2 DEF WorkTyped
  <2> QED BY <2>3, <2>4, <2>5 DEF TypeInv
<1> QED BY <1>6, <1>7

---------------------------------------------------------------------------
(* Didit, the customer, the staff, the clock.                              *)

\* Didit sends one event more, at the end.
LEMMA DecidesFacts ==
  ASSUME StateTyped, DiditDecides
  PROVE  \E s \in Sessions, status \in DiditStatus :
           /\ handed[s] > 0 /\ didit' = [didit EXCEPT ![s] = status]
           /\ sent' \in Seq(Event) /\ Len(sent') = Len(sent) + 1 /\ Len(sent') <= MaxEvents
           /\ DOMAIN sent' = DOMAIN sent \cup {Len(sent) + 1} /\ Len(sent) + 1 \notin DOMAIN sent
           /\ \A e \in DOMAIN sent : sent'[e] = sent[e]
           /\ sent'[Len(sent) + 1].session = s /\ sent'[Len(sent) + 1].status = status
<1>1. PICK s \in Sessions, status \in Decisions :
        /\ handed[s] > 0 /\ didit' = [didit EXCEPT ![s] = status]
        /\ sent' = Append(sent, [session |-> s, status |-> status, stamp |-> 2 * clock])
  BY DEF DiditDecides
<1> DEFINE new == [session |-> s, status |-> status, stamp |-> 2 * clock]
<1>2. new \in Event /\ new.session = s /\ new.status = status
  BY NumbersFacts DEF Event, StateTyped
<1>3. sent \in Seq(Event) /\ sent' = Append(sent, new) /\ Len(sent) < MaxEvents /\ MaxEvents \in Nat
  BY <1>1, NumbersFacts DEF StateTyped, DiditDecides
<1> HIDE DEF new
<1>4. /\ sent' \in Seq(Event) /\ Len(sent') = Len(sent) + 1 /\ Len(sent') <= MaxEvents
      /\ \A e \in DOMAIN sent : sent'[e] = sent[e]
      /\ sent'[Len(sent) + 1] = new
  BY <1>2, <1>3
<1>5. DOMAIN sent = 1..Len(sent) /\ DOMAIN sent' = 1..Len(sent') /\ Len(sent) \in Nat
  BY <1>3, <1>4
<1>6. DOMAIN sent' = DOMAIN sent \cup {Len(sent) + 1} /\ Len(sent) + 1 \notin DOMAIN sent
  BY <1>4, <1>5
<1> QED BY <1>1, <1>2, <1>4, <1>6, NumbersFacts

\* What the handlers carry does not depend on more events.
LEMMA OthersKeepWork ==
  ASSUME TypeInv, work' = work,
         \A e \in DOMAIN sent : e \in DOMAIN sent' /\ sent'[e] = sent[e]
  PROVE  WorkTyped'
<1>1. ASSUME NEW h \in Handlers PROVE WorkFits(h)'
  <2>1. WorkFits(h)
    BY DEF TypeInv, WorkTyped
  <2> QED BY <2>1 DEF WorkFits, At
<1>2. DOMAIN work' = Handlers
  BY DEF TypeInv, WorkTyped
<1> QED BY <1>1, <1>2 DEF WorkTyped

LEMMA EnvironmentKeepsTypes ==
  ASSUME TypeInv, DiditDecides \/ Tick \/ Submit \/ ReviewKyc \/ UNCHANGED vars
  PROVE  TypeInv'
<1>0. StateTyped /\ SavesBounded /\ WorkTyped
  BY DEF TypeInv
<1>1. work' = work /\ handed' = handed /\ rows' = rows /\ faults' = faults
  BY DEF DiditDecides, Tick, Submit, ReviewKyc, SetStatus, vars
<1>2. Asking' = Asking /\ SavesBounded'
  BY <1>0, <1>1 DEF SavesBounded, Asking
<1>3. CASE DiditDecides
  <2>1. PICK s \in Sessions, status \in DiditStatus :
          /\ handed[s] > 0 /\ didit' = [didit EXCEPT ![s] = status]
          /\ sent' \in Seq(Event) /\ Len(sent') = Len(sent) + 1 /\ Len(sent') <= MaxEvents
          /\ DOMAIN sent' = DOMAIN sent \cup {Len(sent) + 1} /\ Len(sent) + 1 \notin DOMAIN sent
          /\ \A e \in DOMAIN sent : sent'[e] = sent[e]
          /\ sent'[Len(sent) + 1].session = s /\ sent'[Len(sent) + 1].status = status
    BY <1>0, <1>3, DecidesFacts
  <2>2. WorkTyped'
    BY <1>1, <2>1, OthersKeepWork
  <2>3. didit' \in [Sessions -> DiditStatus \cup {"none"}]
    BY <1>0, <2>1 DEF StateTyped
  <2>4. StateTyped'
    BY <1>0, <1>1, <1>3, <2>1, <2>3 DEF StateTyped, DiditDecides
  <2> QED BY <1>2, <2>2, <2>4 DEF TypeInv
<1>4. CASE ~DiditDecides
  <2>1. sent' = sent /\ didit' = didit
    BY <1>4 DEF Tick, Submit, ReviewKyc, SetStatus, vars, diditVars
  <2>2. WorkTyped'
    BY <1>1, <2>1, OthersKeepWork
  <2>3. clock' \in 1..Horizon
    BY <1>0, <1>4, NumbersFacts DEF StateTyped, Tick, Submit, ReviewKyc, SetStatus, vars, diditVars
  <2>4. \/ profile' = profile
        \/ \E status \in KycStatus : profile' = [profile EXCEPT !.status = status]
    BY <1>4, StatusFacts, NumbersFacts DEF Tick, Submit, ReviewKyc, SetStatus, vars
  <2>5. profile' \in [status : KycStatus, session : Sessions \cup {0}, stamp : Nat]
    BY <1>0, <2>4 DEF StateTyped
  <2>6. StateTyped'
    BY <1>0, <1>1, <2>1, <2>3, <2>5 DEF StateTyped
  <2> QED BY <1>2, <2>2, <2>6 DEF TypeInv
<1> QED BY <1>3, <1>4

LEMMA NextIsSomeones ==
  ASSUME [Next]_vars
  PROVE  (DiditDecides \/ Tick \/ Submit \/ ReviewKyc \/ UNCHANGED vars) \/ \E h \in Handlers : Own(h)
BY DEF Next, Own, Continue

LEMMA TypeNext == ASSUME TypeInv, [Next]_vars PROVE TypeInv'
BY NextIsSomeones, EnvironmentKeepsTypes, OwnKeepsTypes

LEMMA TypeInit == ASSUME Init PROVE TypeInv
<1>1. StateTyped
  BY NumbersFacts DEF Init, StateTyped, KycStatus, Event
<1>2. WorkTyped
  BY IdleFacts DEF Init, WorkTyped, WorkFits, At
<1>3. Asking = {}
  BY IdleFacts DEF Init, Asking
<1>4. SumOver(handed, Sessions) = 0
  <2>1. \A s \in Sessions : handed[s] = 0
    BY DEF Init
  <2> QED BY <2>1, SessionsFinite, ZeroSum
<1>5. IsFiniteSet(Asking) /\ Cardinality(Asking) = 0
  BY <1>3, FS_EmptySet
<1> QED BY <1>1, <1>2, <1>4, <1>5, NumbersFacts DEF TypeInv, SavesBounded

---------------------------------------------------------------------------
(* The customer's status.                                                  *)

\* Didit approved a session that this customer had.
Heard(s) == handed[s] > 0 /\ "approved" \in SaidOf(s)

\* An event is on the profile, or something newer is, or its session was
\* saved again, or the profile has another.
Applied(e) ==
  sent[e].session = profile.session /\ handed[profile.session] = 1 => profile.stamp >= sent[e].stamp

Approved(status) == status = "APPROVED" => \E s \in Sessions : Heard(s)

SaysInv ==
  /\ \A s \in Sessions : didit[s] = "approved" => Heard(s)
  /\ \A e \in DOMAIN sent : handed[sent[e].session] > 0
  /\ \A e \in Events \ DOMAIN sent : rows[e] = "none"

ApprovalInv ==
  /\ Approved(profile.status)
  /\ \A h \in Handlers : work[h].at \in {"dating", "finding", "applying"} => Approved(work[h].status)

AppliedInv ==
  /\ \A e \in DOMAIN sent : rows[e] = "PROCESSED" => Applied(e)
  /\ \A h \in Handlers : At(h, "completing") => Applied(work[h].event)

IInv == TypeInv /\ SaysInv /\ ApprovalInv /\ AppliedInv

LEMMA HeardFacts ==
  ASSUME NEW s
  PROVE  Heard(s) <=> handed[s] > 0 /\ \E e \in DOMAIN sent : sent[e].session = s /\ sent[e].status = "approved"
BY DEF Heard, SaidOf

\* What was heard stays heard, while events and sessions are only added.
LEMMA HeardStays ==
  ASSUME TypeInv,
         \A s \in Sessions : handed'[s] >= handed[s] /\ handed'[s] \in Nat,
         \A e \in DOMAIN sent : e \in DOMAIN sent' /\ sent'[e] = sent[e]
  PROVE  /\ \A s \in Sessions : Heard(s) => Heard(s)'
         /\ \A status : Approved(status) => (\E s \in Sessions : Heard(s)') \/ status # "APPROVED"
<1>1. ASSUME NEW s \in Sessions, Heard(s) PROVE Heard(s)'
  <2>1. handed[s] \in Nat
    BY DEF TypeInv, StateTyped
  <2>2. handed'[s] > 0
    BY <1>1, <2>1 DEF Heard
  <2> QED BY <1>1, <2>2 DEF Heard, SaidOf
<1> QED BY <1>1 DEF Approved

---------------------------------------------------------------------------
LEMMA InitHolds == ASSUME Init PROVE IInv
<1>1. TypeInv
  BY TypeInit
<1>2. DOMAIN sent = {}
  BY DEF Init
<1>3. SaysInv
  BY <1>2 DEF SaysInv, Init
<1>4. ApprovalInv
  BY IdleFacts DEF ApprovalInv, Init, Approved
<1>5. AppliedInv
  BY <1>2, IdleFacts DEF AppliedInv, Init, At
<1> QED BY <1>1, <1>3, <1>4, <1>5 DEF IInv

LEMMA EnvironmentHolds ==
  ASSUME IInv, DiditDecides \/ Tick \/ Submit \/ ReviewKyc \/ UNCHANGED vars
  PROVE  IInv'
<1>0. TypeInv /\ StateTyped /\ WorkTyped /\ TypeInv'
  BY EnvironmentKeepsTypes DEF IInv, TypeInv
<1>1. work' = work /\ handed' = handed /\ rows' = rows
  BY DEF DiditDecides, Tick, Submit, ReviewKyc, SetStatus, vars
<1>2. \A s \in Sessions : handed'[s] >= handed[s] /\ handed'[s] \in Nat
  BY <1>0, <1>1 DEF StateTyped
<1>3. CASE DiditDecides
  <2>1. PICK s \in Sessions, status \in DiditStatus :
          /\ handed[s] > 0 /\ didit' = [didit EXCEPT ![s] = status]
          /\ sent' \in Seq(Event) /\ Len(sent') = Len(sent) + 1 /\ Len(sent') <= MaxEvents
          /\ DOMAIN sent' = DOMAIN sent \cup {Len(sent) + 1} /\ Len(sent) + 1 \notin DOMAIN sent
          /\ \A e \in DOMAIN sent : sent'[e] = sent[e]
          /\ sent'[Len(sent) + 1].session = s /\ sent'[Len(sent) + 1].status = status
    BY <1>0, <1>3, DecidesFacts
  <2>2. profile' = profile
    BY <1>3 DEF DiditDecides
  <2>3. /\ \A t \in Sessions : Heard(t) => Heard(t)'
        /\ \A st : Approved(st) => (\E t \in Sessions : Heard(t)') \/ st # "APPROVED"
    BY <1>0, <1>2, <2>1, HeardStays
  <2>4. didit \in [Sessions -> DiditStatus \cup {"none"}]
    BY <1>0 DEF StateTyped
  <2>5. ASSUME NEW t \in Sessions, didit'[t] = "approved" PROVE Heard(t)'
    <3>1. CASE t = s
      <4>1. status = "approved"
        BY <2>1, <2>4, <2>5, <3>1
      <4>2. "approved" \in SaidOf(t)'
        BY <2>1, <3>1, <4>1 DEF SaidOf
      <4> QED BY <1>1, <2>1, <3>1, <4>2 DEF Heard
    <3>2. CASE t # s
      <4>1. didit[t] = "approved"
        BY <2>1, <2>4, <2>5, <3>2
      <4> QED BY <2>3, <4>1 DEF IInv, SaysInv
    <3> QED BY <3>1, <3>2
  <2>6. Len(sent) + 1 \in Events /\ rows[Len(sent) + 1] = "none"
    <3>1. DOMAIN sent \subseteq Events /\ Len(sent) \in Nat
      BY <1>0, SentFacts
    <3>2. Len(sent) + 1 \in Events
      BY <2>1, <3>1, NumbersFacts DEF Events
    <3> QED BY <2>1, <3>2 DEF IInv, SaysInv
  <2>7. SaysInv'
    BY <1>1, <2>1, <2>5 DEF IInv, SaysInv
  <2>8. ApprovalInv'
    BY <1>1, <2>2, <2>3 DEF IInv, ApprovalInv, Approved
  <2>9. AppliedInv'
    <3>1. ASSUME NEW e \in DOMAIN sent PROVE Applied(e) => Applied(e)'
      BY <1>1, <2>1, <2>2 DEF Applied
    <3>2. \A h \in Handlers : At(h, "completing") => work[h].event \in DOMAIN sent
      BY <1>0 DEF WorkTyped, WorkFits
    <3> QED BY <1>1, <2>1, <2>6, <3>1, <3>2 DEF IInv, AppliedInv, At
  <2> QED BY <1>0, <2>7, <2>8, <2>9 DEF IInv
<1>4. CASE ~DiditDecides
  <2>1. sent' = sent /\ didit' = didit
    BY <1>4 DEF Tick, Submit, ReviewKyc, SetStatus, vars, diditVars
  <2>2. \A s : Heard(s) <=> Heard(s)'
    BY <1>1, <2>1 DEF Heard, SaidOf
  <2>3. \/ profile' = profile
        \/ \E status \in KycStatus \ {"APPROVED"} : profile' = [profile EXCEPT !.status = status]
    BY <1>4, StatusFacts, NumbersFacts DEF Tick, Submit, ReviewKyc, SetStatus, vars
  <2>4. /\ profile'.session = profile.session /\ profile'.stamp = profile.stamp
        /\ profile'.status = profile.status \/ profile'.status # "APPROVED"
    BY <1>0, <2>3 DEF StateTyped
  <2>5. SaysInv'
    BY <1>1, <2>1, <2>2 DEF IInv, SaysInv
  <2>6. ApprovalInv'
    BY <1>1, <2>2, <2>4 DEF IInv, ApprovalInv, Approved
  <2>7. AppliedInv'
    BY <1>1, <2>1, <2>4 DEF IInv, AppliedInv, Applied, At
  <2> QED BY <1>0, <2>5, <2>6, <2>7 DEF IInv
<1> QED BY <1>3, <1>4

\* What a step of a handler does to the profile.
LEMMA OwnProfile ==
  ASSUME TypeInv, NEW h \in Handlers, Own(h)
  PROVE  \/ UNCHANGED <<profile, handed>>
         \/ SaveSession(h) /\ work[h].status # "error"
         \/ /\ ApplyProviderStatus(h) /\ At(h, "applying") /\ Newer(work[h].stamp) /\ handed' = handed
            /\ profile' = [profile EXCEPT !.status = work[h].status, !.stamp = work[h].stamp]
<1>1. CASE SaveSession(h)
  BY <1>1 DEF SaveSession
<1>2. CASE ApplyProviderStatus(h)
  BY <1>2 DEF ApplyProviderStatus
<1>3. CASE ~SaveSession(h) /\ ~ApplyProviderStatus(h)
  BY <1>3 DEF Own, BeginSession, CreateSession, BeginRefresh, GetDecision, DateDecision,
              ReserveWebhook,
              FindProfile, CompleteWebhook, CallFails, Crash
<1> QED BY <1>1, <1>2, <1>3

\* Didit keeps its word, and a row becomes PROCESSED at the end of its handling.
LEMMA OwnRows ==
  ASSUME TypeInv, NEW h \in Handlers, Own(h)
  PROVE  /\ sent' = sent
         /\ \A s \in Sessions : didit'[s] = "approved" => didit[s] = "approved"
         /\ \A e \in Events \ DOMAIN sent : rows'[e] = rows[e]
         /\ \A e \in Events : rows'[e] = "PROCESSED" =>
              rows[e] = "PROCESSED" \/ (At(h, "completing") /\ work[h].event = e /\ UNCHANGED <<profile, handed>>)
<1>0. /\ didit \in [Sessions -> DiditStatus \cup {"none"}]
      /\ rows \in [Events -> {"none", "PROCESSING", "PROCESSED", "FAILED"}]
      /\ WorkFits(h) /\ StateTyped
  BY DEF TypeInv, StateTyped, WorkTyped
<1>1. sent' = sent
  BY DEF Own, BeginSession, CreateSession, SaveSession, BeginRefresh, GetDecision, DateDecision,
         ReserveWebhook,
         FindProfile, ApplyProviderStatus, CompleteWebhook, CallFails, Crash, diditVars
<1>2. didit' = didit \/ \E s \in Sessions : didit' = [didit EXCEPT ![s] = "not started"]
  BY DEF Own, BeginSession, CreateSession, SaveSession, BeginRefresh, GetDecision, DateDecision,
         ReserveWebhook,
         FindProfile, ApplyProviderStatus, CompleteWebhook, CallFails, Crash, diditVars
<1>3. \A s \in Sessions : didit'[s] = "approved" => didit[s] = "approved"
  BY <1>0, <1>2
<1>4. \/ rows' = rows
      \/ \E e \in DOMAIN sent, r \in {"PROCESSING", "FAILED"} : rows' = [rows EXCEPT ![e] = r]
      \/ CompleteWebhook(h)
  <2>1. CASE Raise(h)
    BY <1>0, <2>1 DEF Raise, WorkFits
  <2>2. ASSUME NEW e \in Events, ReserveWebhook(h, e)
        PROVE  \E d \in DOMAIN sent : rows' = [rows EXCEPT ![d] = "PROCESSING"]
    <3>1. e \in DOMAIN sent
      BY <1>0, <2>2, SentFacts, NumbersFacts DEF ReserveWebhook, Handleable, Events
    <3> QED BY <2>2, <3>1 DEF ReserveWebhook
  <2>3. CASE ~Raise(h) /\ (\A e \in Events : ~ReserveWebhook(h, e)) /\ ~CompleteWebhook(h)
    BY <2>3 DEF Own, BeginSession, CreateSession, SaveSession, BeginRefresh, GetDecision, DateDecision,
                FindProfile, ApplyProviderStatus, CallFails, Crash
  <2> QED BY <2>1, <2>2, <2>3
<1>5. CASE CompleteWebhook(h)
  <2>1. /\ work[h].event \in DOMAIN sent /\ At(h, "completing") /\ UNCHANGED <<profile, handed>>
        /\ rows' = [rows EXCEPT ![work[h].event] = "PROCESSED"]
    BY <1>0, <1>5 DEF CompleteWebhook, WorkFits
  <2> QED BY <1>0, <1>1, <1>3, <2>1
<1>6. CASE ~CompleteWebhook(h)
  BY <1>0, <1>1, <1>3, <1>4, <1>6
<1> QED BY <1>5, <1>6

LEMMA OwnHolds ==
  ASSUME IInv, NEW h \in Handlers, Own(h)
  PROVE  IInv'
<1>0. TypeInv /\ StateTyped /\ WorkTyped /\ WorkFits(h) /\ TypeInv'
  BY OwnKeepsTypes DEF IInv, TypeInv, WorkTyped
<1>1. /\ DOMAIN work' = Handlers /\ work'[h] \in WorkRecord /\ Advance(h)
      /\ \A g \in Handlers \ {h} : work'[g] = work[g]
  BY <1>0, OwnAdvances
<1>2. /\ sent' = sent
      /\ \A s \in Sessions : didit'[s] = "approved" => didit[s] = "approved"
      /\ \A e \in Events \ DOMAIN sent : rows'[e] = rows[e]
      /\ \A e \in Events : rows'[e] = "PROCESSED" =>
           rows[e] = "PROCESSED" \/ (At(h, "completing") /\ work[h].event = e /\ UNCHANGED <<profile, handed>>)
  BY <1>0, OwnRows
<1>3. \/ UNCHANGED <<profile, handed>>
      \/ SaveSession(h) /\ work[h].status # "error"
      \/ /\ ApplyProviderStatus(h) /\ At(h, "applying") /\ Newer(work[h].stamp) /\ handed' = handed
         /\ profile' = [profile EXCEPT !.status = work[h].status, !.stamp = work[h].stamp]
  BY <1>0, OwnProfile
<1>4. /\ profile \in [status : KycStatus, session : Sessions \cup {0}, stamp : Nat]
      /\ handed \in [Sessions -> Nat]
  BY <1>0 DEF StateTyped
<1>5. DOMAIN sent \subseteq Events /\ \A e \in DOMAIN sent : sent[e] \in Event
  BY <1>0, SentFacts
<1>6. \A s \in Sessions : handed'[s] >= handed[s] /\ handed'[s] \in Nat
  <2>1. CASE SaveSession(h) /\ work[h].status # "error"
    <3>1. work[h].session \in Sessions /\ handed' = [handed EXCEPT ![work[h].session] = @ + 1]
      BY <1>0, <2>1, SaveFacts
    <3> QED BY <1>4, <3>1
  <2> QED BY <1>3, <1>4, <2>1
<1>7. /\ \A s \in Sessions : Heard(s) => Heard(s)'
      /\ \A st : Approved(st) => (\E s \in Sessions : Heard(s)') \/ st # "APPROVED"
  BY <1>0, <1>2, <1>6, HeardStays
<1>8. SaysInv'
  <2>1. \A e \in DOMAIN sent : handed[sent[e].session] > 0 => handed'[sent[e].session] > 0
    BY <1>4, <1>5, <1>6 DEF Event
  <2> QED BY <1>2, <1>7, <2>1 DEF IInv, SaysInv
<1>9. ApprovalInv'
  <2>1. Approved(profile.status)'
    <3>1. profile'.status = profile.status \/ profile'.status # "APPROVED" \/ (At(h, "applying") /\ profile'.status = work[h].status)
      <4>1. CASE SaveSession(h) /\ work[h].status # "error"
        BY <1>0, <4>1, SaveFacts
      <4> QED BY <1>3, <1>4, <4>1
    <3> QED BY <1>7, <3>1 DEF IInv, ApprovalInv, Approved, At
  <2>2. ASSUME work'[h].at \in {"dating", "finding", "applying"}
             PROVE  Approved(work[h].status)'
    <3>1. CASE work[h].at = "asking"
      <4>1. work'[h].status = mapDiditStatus(didit[work[h].session]) /\ work[h].session \in Sessions
        BY <1>0, <1>1, <2>2, <3>1, IdleFacts DEF Advance, WorkFits
      <4>2. work'[h].status = "APPROVED" => didit[work[h].session] = "approved"
        BY <4>1, StatusFacts
      <4>3. work'[h].status = "APPROVED" => Heard(work[h].session)
        BY <4>1, <4>2 DEF IInv, SaysInv
      <4> QED BY <1>7, <4>1, <4>3 DEF Approved
    <3>2. CASE work[h].at = "idle"
      <4>1. PICK e \in DOMAIN sent : work'[h].status = mapDiditStatus(sent[e].status)
        BY <1>1, <2>2, <3>2, IdleFacts DEF Advance
      <4>2. sent[e].session \in Sessions /\ handed[sent[e].session] > 0
        BY <1>5 DEF Event, IInv, SaysInv
      <4>3. sent[e].status = "approved" => Heard(sent[e].session)
        BY <4>2 DEF Heard, SaidOf
      <4>4. work'[h].status = "APPROVED" => sent[e].status = "approved"
        BY <4>1, StatusFacts
      <4> QED BY <1>7, <4>2, <4>3, <4>4 DEF Approved
    <3>3. CASE work[h].at \in {"dating", "finding"}
      <4>1. work'[h].status = work[h].status
        BY <1>1, <2>2, <3>3, IdleFacts DEF Advance
      <4> QED BY <1>7, <3>3, <4>1 DEF IInv, ApprovalInv, Approved
    <3> QED BY <1>1, <2>2, <3>1, <3>2, <3>3, IdleFacts DEF Advance
  <2> QED BY <1>1, <1>7, <2>1, <2>2 DEF IInv, ApprovalInv, Approved
<1>10. AppliedInv'
  <2>1. ASSUME NEW e \in DOMAIN sent, Applied(e) PROVE Applied(e)'
    <3>0. /\ sent[e].session \in Sessions /\ sent[e].stamp \in Nat /\ sent'[e] = sent[e]
          /\ handed[sent[e].session] > 0
      BY <1>2, <1>5 DEF Event, IInv, SaysInv
    <3>1. CASE UNCHANGED <<profile, handed>>
      BY <2>1, <3>0, <3>1 DEF Applied
    <3>2. CASE SaveSession(h) /\ work[h].status # "error"
      <4> DEFINE s == work[h].session
      <4>1. s \in Sessions /\ profile'.session = s /\ handed' = [handed EXCEPT ![s] = @ + 1]
        BY <1>0, <3>2, SaveFacts
      <4>2. handed'[s] = handed[s] + 1 /\ handed[s] \in Nat
        BY <1>4, <4>1
      <4> HIDE DEF s
      <4> QED BY <3>0, <4>1, <4>2 DEF Applied
    <3>3. CASE /\ ApplyProviderStatus(h) /\ At(h, "applying") /\ Newer(work[h].stamp) /\ handed' = handed
               /\ profile' = [profile EXCEPT !.status = work[h].status, !.stamp = work[h].stamp]
      <4>1. /\ profile'.session = profile.session /\ profile'.stamp = work[h].stamp
            /\ work[h].stamp \in Nat /\ profile.stamp \in Nat
        BY <1>0, <1>4, <3>3 DEF WorkFits, WorkRecord
      <4>2. profile'.stamp >= profile.stamp
        BY <3>3, <4>1 DEF Newer
      <4> QED BY <2>1, <3>0, <3>3, <4>1, <4>2 DEF Applied
    <3> QED BY <1>3, <3>1, <3>2, <3>3
  <2>2. ASSUME At(h, "completing")' PROVE Applied(work[h].event)'
    <3>0. PICK e : e = work'[h].event
      OBVIOUS
    <3>1. /\ work[h].at \in {"finding", "applying"}
          /\ e = work[h].event /\ work[h].event # 0
      BY <3>0, <1>1, <2>2, IdleFacts DEF Advance, At
    <3>2. /\ e \in DOMAIN sent /\ sent[e].session = work[h].session /\ sent[e].stamp = work[h].stamp
          /\ work[h].stamp \in Nat
      BY <1>0, <3>1 DEF WorkFits, WorkRecord
    <3>3. CASE work[h].at = "finding"
      <4>1. ~(profile.session = work[h].session /\ Newer(work[h].stamp)) /\ profile' = profile
        BY <1>1, <2>2, <3>3, IdleFacts DEF Advance, At
      <4>2. profile.session # work[h].session \/ profile.stamp >= work[h].stamp
        BY <1>4, <3>2, <4>1 DEF Newer
      <4>3. profile'.session # sent'[e].session \/ profile'.stamp >= sent'[e].stamp
        BY <1>2, <3>2, <4>1, <4>2
      <4> QED BY <3>0, <4>3 DEF Applied
    <3>4. CASE work[h].at = "applying"
      <4>1. ApplyProviderStatus(h)
        BY <1>1, <2>2, <3>4, IdleFacts DEF Advance, At
      <4>2. profile' = IF Newer(work[h].stamp)
                       THEN [profile EXCEPT !.status = work[h].status, !.stamp = work[h].stamp]
                       ELSE profile
        BY <4>1 DEF ApplyProviderStatus
      <4>3. profile'.stamp >= work[h].stamp
        BY <1>4, <3>2, <4>2 DEF Newer
      <4>4. profile'.stamp >= sent'[e].stamp
        BY <1>2, <3>2, <4>3
      <4> QED BY <3>0, <4>4 DEF Applied
    <3> QED BY <3>1, <3>3, <3>4
  <2>3. \A g \in Handlers \ {h} : At(g, "completing") => work[g].event \in DOMAIN sent
    BY <1>0 DEF WorkTyped, WorkFits
  <2>4. \A g \in Handlers : At(g, "completing")' => Applied(work[g].event)'
    BY <1>1, <2>1, <2>2, <2>3 DEF IInv, AppliedInv, At
  <2>5. ASSUME NEW e \in DOMAIN sent, rows'[e] = "PROCESSED" PROVE Applied(e)'
    <3>1. Applied(e)
      BY <1>2, <1>5, <2>5 DEF IInv, AppliedInv
    <3> QED BY <2>1, <3>1
  <2> QED BY <1>2, <2>4, <2>5 DEF AppliedInv
<1> QED BY <1>0, <1>8, <1>9, <1>10 DEF IInv

LEMMA NextHolds == ASSUME IInv, [Next]_vars PROVE IInv'
BY NextIsSomeones, EnvironmentHolds, OwnHolds

LEMMA Invariant == Spec => []IInv
<1>1. Init => IInv
  BY InitHolds
<1>2. IInv /\ [Next]_vars => IInv'
  BY NextHolds
<1> QED BY <1>1, <1>2, PTL DEF Spec

LEMMA StatusHolds == ASSUME IInv PROVE StatusFollowsDidit
<1>0. StateTyped /\ TypeInv
  BY DEF IInv, TypeInv
<1>1. handed \in [Sessions -> 0..MaxSaves]
  <2>1. handed \in [Sessions -> Nat]
    BY <1>0 DEF StateTyped
  <2>2. ASSUME NEW s \in Sessions PROVE handed[s] \in 0..MaxSaves
    <3>1. handed[s] \in Nat /\ handed[s] <= SumOver(handed, Sessions) /\ SumOver(handed, Sessions) \in Nat
      BY <1>0, HandedFacts
    <3>2. Cardinality(Asking) \in Nat /\ SumOver(handed, Sessions) + Cardinality(Asking) <= MaxSaves
      BY <1>0, AskingFacts DEF TypeInv, SavesBounded
    <3> QED BY <3>1, <3>2, NumbersFacts
  <2> QED BY <2>1, <2>2
<1>2. TypeOK
  BY <1>0, <1>1 DEF TypeOK, StateTyped, Event
<1>3. ApprovedByDidit
  BY DEF IInv, ApprovalInv, Approved, Heard, ApprovedByDidit
<1>4. NoAnsweredEventIsNewer
  BY DEF IInv, AppliedInv, Applied, NoAnsweredEventIsNewer
<1> QED BY <1>2, <1>3, <1>4 DEF StatusFollowsDidit

(* Nobody is approved but by a decision of Didit on a session of theirs,   *)
(* and what the profile has is dated no earlier than any event that was    *)
(* answered with success (of a session saved once), whatever the number of *)
(* requests, sessions and events (applyProviderStatus, processWebhook).    *)
THEOREM StatusIsDidits == Spec => []StatusFollowsDidit
<1>1. IInv => StatusFollowsDidit
  BY StatusHolds
<1> QED BY <1>1, Invariant, PTL
=============================================================================
