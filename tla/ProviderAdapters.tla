-------------------------- MODULE ProviderAdapters --------------------------
(***************************************************************************)
(* One recharge through the adapter of its airtime provider: Reloadly,     *)
(* DT One or Ding behind the router (apps/api/src/topup/                   *)
(* provider-router.ts and the three *-provider.ts).                        *)
(*                                                                         *)
(* The service asks for a recharge once, by a claim that outlives the      *)
(* process.  The Ding adapter also stands repeated and concurrent requests *)
(* in one process: it looks the reference up before it sends, remembers    *)
(* what it has attempted, and lets a second caller wait for the first.     *)
(* What a provider does is external: it may act on a request whose answer  *)
(* is lost, lists a transfer only some time after it was made, and does    *)
(* not act on a request it answers with a status of the 400s.              *)
(***************************************************************************)
EXTENDS ProviderIdentity, Sequences

CONSTANTS
  Callers,    \* calls of the service into the adapter
  Providers,  \* the adapters looked at, among "RELOADLY", "DTONE" and "DING"
  RawIds      \* the operator's identifier at its provider

ASSUME WellNamed ==
  Providers \subseteq Names /\ RawIds \subseteq LocalIds /\ "none" \notin Callers

VARIABLES
  provider,   \* the provider of the quote
  operatorId, \* the operator of the quote
  offered,    \* the catalogue still has the quoted product on its terms
  transfers,  \* what the provider made for the reference, in order
  listed,     \* how many of them its listings show
  token,      \* the access token the process keeps
  attempted,  \* Ding: the references this process has sent
  leader,     \* Ding: the caller whose submission others wait for
  asked,      \* whether the service has asked for it, in this process or before
  told,       \* what the service was told of it
  calls       \* what each caller is doing

pvars == <<provider, operatorId, offered, transfers, listed, token, attempted, leader, asked, told, calls>>
market == <<provider, operatorId, offered, transfers, listed>>

---------------------------------------------------------------------------
(* The provider, external.  It answers with words of its own.              *)

Words(state) ==
  CASE provider = "RELOADLY" -> [going |-> {"PROCESSING", "NEW"}, done |-> {"SUCCESSFUL"},
                                 failed |-> {"FAILED", "REFUNDED"}][state]
    [] provider = "DTONE" -> [going |-> {"CREATED", "SUBMITTED", "HELD"}, done |-> {"COMPLETED"},
                              failed |-> {"DECLINED", "REVERSED"}][state]
    [] provider = "DING" -> [going |-> {"Submitted", "Cancelling", "Queued"}, done |-> {"Complete"},
                             failed |-> {"Failed", "Cancelled"}][state]

PIdle == [at |-> "idle", answer |-> "none"]

PTypeOK ==
  /\ provider \in Providers /\ operatorId \in Int /\ offered \in BOOLEAN
  /\ transfers \in Seq({"going", "done", "failed"}) /\ listed \in 0..Len(transfers)
  /\ token \in {"none", "good", "revoked"} /\ attempted \in BOOLEAN
  /\ leader \in Callers \cup {"none"}
  /\ asked \in {"no", "here", "before"}
  /\ told \in {"nothing", "rejected", "unknown", "reference"}
  /\ DOMAIN calls = Callers

PInit ==
  /\ provider \in Providers
  /\ \E rawId \in RawIds : operatorId = encodeOperatorId(provider, rawId)
  /\ offered = TRUE
  /\ transfers = <<>> /\ listed = 0
  /\ token = IF provider = "DTONE" THEN "good" ELSE "none"
  /\ attempted = FALSE /\ leader = "none"
  /\ asked = "no" /\ told = "nothing"
  /\ calls = [c \in Callers |-> PIdle]

Settle ==
  /\ \E i \in DOMAIN transfers, s \in {"done", "failed"} :
       transfers[i] = "going" /\ transfers' = [transfers EXCEPT ![i] = s]
  /\ UNCHANGED <<provider, operatorId, offered, listed, token, attempted, leader, asked, told, calls>>

List ==
  /\ listed < Len(transfers) /\ listed' = listed + 1
  /\ UNCHANGED <<provider, operatorId, offered, transfers, token, attempted, leader, asked, told, calls>>

ChangeProduct ==
  /\ offered' = ~offered
  /\ UNCHANGED <<provider, operatorId, transfers, listed, token, attempted, leader, asked, told, calls>>

\* The token runs out, or is revoked before it does.
LoseToken ==
  /\ provider # "DTONE" /\ token = "good" /\ token' \in {"none", "revoked"}
  /\ UNCHANGED <<market, attempted, leader, asked, told, calls>>

---------------------------------------------------------------------------
(* What the service makes of a word (mapProviderStatus), each adapter      *)
(* having read it first: Reloadly's as it is, the others' if known.        *)

mapStatus(word) ==
  CASE word \in {"SUCCESSFUL", "DELIVERED", "COMPLETED"} -> "DELIVERED"
    [] word \in {"FAILED", "REJECTED", "DECLINED", "CANCELLED"} -> "FAILED"
    [] word \in {"REFUNDED", "REVERSED"} -> "REFUNDED"
    [] word \in {"PROCESSING", "IN_PROGRESS", "CONFIRMED", "SUBMITTED"} -> "PROCESSING"
    [] OTHER -> "PENDING"

mapTopUp(word) == mapStatus(word)

transaction(word) ==
  IF word \in {"CREATED", "CONFIRMED", "SUBMITTED", "COMPLETED", "REJECTED", "DECLINED", "CANCELLED", "REVERSED"}
  THEN mapStatus(word) ELSE "unknown"

transfer(word) ==
  CASE word \in {"Complete", "Completed"} -> mapStatus("COMPLETED")
    [] word \in {"Submitted", "Processing", "Cancelling"} -> mapStatus("PROCESSING")
    [] word \in {"Failed", "Cancelled"} -> mapStatus("FAILED")
    [] OTHER -> "unknown"

Read(word) ==
  CASE provider = "RELOADLY" -> mapTopUp(word)
    [] provider = "DTONE" -> transaction(word)
    [] provider = "DING" -> transfer(word)

\* The statuses a state of a transfer may be read as.
Readings(state) == {Read(w) : w \in Words(state)}

---------------------------------------------------------------------------
(* One request.  A token is asked for when there is none; "failed": it was *)
(* refused, or could not be asked for.                                     *)

accessToken == IF token = "none" THEN {"good", "failed"} ELSE {token}
bearer == IF token = "none" THEN {"good", "failed"} ELSE {token}
Bearer == IF provider = "DING" THEN bearer ELSE accessToken

Outcomes(t) ==
  CASE t = "failed" -> {"noToken"}
    [] t = "revoked" -> {"401"}
    [] t = "good" -> {"ok", "400", "429", "5xx", "lost"}

\* The error of a request: "rejected" with status 400, which the service
\* takes for proof that nothing was sent, or "unknown" with 502.
reloadlyError(http) == IF http \in {"noToken", "5xx", "lost"} THEN "unknown" ELSE "rejected"

dtOneError(http) == IF http = "400" THEN "rejected" ELSE "unknown"
dingError(http) == "unknown"

Error(http) ==
  CASE provider = "RELOADLY" -> reloadlyError(http)
    [] provider = "DTONE" -> dtOneError(http)
    [] provider = "DING" -> dingError(http)

\* The token kept after a request.  Ding forgets one that was refused;
\* Reloadly keeps it until it runs out.
Kept(t, http) ==
  token' = IF t = "failed" \/ (provider = "DING" /\ http = "401") THEN "none" ELSE t

---------------------------------------------------------------------------
(* Calls. *)

PGoto(c, at) == calls' = [calls EXCEPT ![c].at = at]

\* A submission ends, for those that waited for it as well.
Submitted(c, answer) ==
  /\ calls' = [d \in Callers |->
       IF d = c \/ calls[d].at = "joined" THEN [at |-> "answered", answer |-> answer] ELSE calls[d]]
  /\ leader' = "none"
  /\ told' = CASE answer \in {"rejected", "unknown"} /\ told = "nothing" -> answer
               [] answer \in {"rejected", "unknown"} -> told
               [] OTHER -> "reference"

\* Whom the router asks; it refuses a quote of another provider.
owning == decodeOperatorId(operatorId).provider

submitTopUp(c) ==
  /\ calls[c] = PIdle
  /\ asked = "no" \/ (provider = "DING" /\ asked = "here" /\ told # "rejected")
  /\ owning = provider
  /\ asked' = "here"
  /\ \/ leader # "none" /\ PGoto(c, "joined") /\ UNCHANGED leader
     \/ /\ leader = "none" /\ leader' = c
        /\ PGoto(c, IF provider = "DING" THEN "lookUp" ELSE "choose")
  /\ UNCHANGED <<market, token, attempted, told>>

\* A listing is read to its last page.
pages == {transfers[i] : i \in 1..listed}

\* The transfers listed for the reference: none, one, or an error when
\* there are more than one.
Found ==
  CASE listed = 0 -> {"absent"}
    [] listed = 1 -> UNION {Readings(state) : state \in pages}
    [] OTHER -> {"unknown"}

\* What is answered when nothing tells whether it was sent.
uncertain == "PROCESSING"

\* Mutant of lookUp: what was attempted is not remembered.
lookUpAlone(c) ==
  /\ calls[c].at = "lookUp"
  /\ \E t \in Bearer : \E http \in Outcomes(t) :
       /\ Kept(t, http)
       /\ \/ http # "ok" /\ Submitted(c, Error(http))
          \/ http = "ok" /\ \E found \in Found \ {"absent"} : Submitted(c, found)
          \/ http = "ok" /\ "absent" \in Found /\ PGoto(c, "choose") /\ UNCHANGED <<leader, told>>
  /\ UNCHANGED <<market, attempted, asked>>

lookUp(c) ==
  /\ calls[c].at = "lookUp"
  /\ \E t \in Bearer : \E http \in Outcomes(t) :
       /\ Kept(t, http)
       /\ \/ http # "ok" /\ Submitted(c, Error(http))
          \/ http = "ok" /\ \E found \in Found \ {"absent"} : Submitted(c, found)
          \/ http = "ok" /\ "absent" \in Found /\ attempted /\ Submitted(c, uncertain)
          \/ http = "ok" /\ "absent" \in Found /\ ~attempted /\ PGoto(c, "choose") /\ UNCHANGED <<leader, told>>
  /\ UNCHANGED <<market, attempted, asked>>

\* The catalogue is read again: the product must be the quoted one.
SameProduct == offered

Choose(c) ==
  /\ calls[c].at = "choose"
  /\ \E t \in Bearer : \E http \in Outcomes(t) :
       /\ Kept(t, http)
       /\ \/ http # "ok" /\ Submitted(c, Error(http)) /\ UNCHANGED attempted
          \/ http = "ok" /\ ~SameProduct /\ Submitted(c, "rejected") /\ UNCHANGED attempted
          \/ /\ http = "ok" /\ SameProduct /\ PGoto(c, "send")
             /\ attempted' = (attempted \/ provider = "DING")
             /\ UNCHANGED <<leader, told>>
  /\ UNCHANGED <<market, asked>>

\* Reloadly answers with an identifier only, DT One with the transaction;
\* "unknown": the answer is not what was asked for.
Accepted == IF provider = "RELOADLY" THEN {"PROCESSING", "unknown"} ELSE Readings("going") \cup {"unknown"}

\* Ding may refuse in an answer that is "ok", and looks the transfer up
\* again after any failure.
Send(c) ==
  /\ calls[c].at = "send"
  /\ \E t \in Bearer : \E http \in Outcomes(t), made \in BOOLEAN :
       /\ Kept(t, http)
       /\ http = "ok" => made \/ provider = "DING"
       /\ http \in {"noToken", "400", "401", "429"} => ~made
       /\ transfers' = IF made THEN Append(transfers, "going") ELSE transfers
       /\ \/ provider = "DING" /\ PGoto(c, "recheck") /\ UNCHANGED <<leader, told>>
          \/ http = "ok" /\ made /\ \E answer \in Accepted :
               (provider = "DING" => answer # "unknown") /\ Submitted(c, answer)
          \/ provider # "DING" /\ http # "ok" /\ Submitted(c, Error(http))
  /\ UNCHANGED <<provider, operatorId, offered, listed, attempted, asked>>

Recheck(c) ==
  /\ calls[c].at = "recheck"
  /\ \E t \in Bearer : \E http \in Outcomes(t) :
       /\ Kept(t, http)
       /\ \/ http = "ok" /\ \E found \in Found \ {"absent", "unknown"} : Submitted(c, found)
          \/ (http # "ok" \/ Found \cap {"absent", "unknown"} # {}) /\ Submitted(c, uncertain)
  /\ UNCHANGED <<market, attempted, asked>>

\* The status of a reference: Ding's is the distributor's, looked up in the
\* listings, and an error while they do not show it.
getTopUpStatus(c) ==
  /\ calls[c] = PIdle /\ told = "reference"
  /\ \E t \in Bearer : \E http \in Outcomes(t) :
       /\ Kept(t, http)
       /\ \E answer \in IF http # "ok" THEN {Error(http)}
                        ELSE IF provider # "DING" THEN Readings(transfers[1])
                        ELSE {IF f = "absent" THEN "unknown" ELSE f : f \in Found} :
            calls' = [calls EXCEPT ![c] = [at |-> "answered", answer |-> answer]]
  /\ UNCHANGED <<market, attempted, leader, asked, told>>

findTopUpByCustomIdentifier(c) ==
  /\ calls[c] = PIdle /\ told = "unknown"
  /\ \E t \in Bearer : \E http \in Outcomes(t) :
       /\ Kept(t, http)
       /\ \E answer \in IF http # "ok" THEN {Error(http)} ELSE Found :
            /\ calls' = [calls EXCEPT ![c] = [at |-> "answered", answer |-> answer]]
            /\ told' = IF answer \in {"absent", "unknown", "rejected"} THEN told ELSE "reference"
  /\ UNCHANGED <<market, attempted, leader, asked>>

Return(c) ==
  /\ calls[c].at = "answered"
  /\ calls' = [calls EXCEPT ![c] = PIdle]
  /\ UNCHANGED <<market, token, attempted, leader, asked, told>>

\* The process stops: what it remembered is gone.  The service does not ask
\* for the recharge again.
Crash ==
  /\ asked = "here" /\ asked' = "before"
  /\ calls' = [c \in Callers |-> PIdle]
  /\ token' = IF provider = "DTONE" THEN "good" ELSE "none"
  /\ attempted' = FALSE /\ leader' = "none"
  /\ told' = IF told = "nothing" THEN "unknown" ELSE told
  /\ UNCHANGED market

PNext ==
  \/ Settle \/ List \/ ChangeProduct \/ LoseToken \/ Crash
  \/ \E c \in Callers :
       \/ submitTopUp(c) \/ lookUp(c) \/ Choose(c) \/ Send(c) \/ Recheck(c)
       \/ getTopUpStatus(c) \/ findTopUpByCustomIdentifier(c) \/ Return(c)

PSpec == PInit /\ [][PNext]_pvars

---------------------------------------------------------------------------
(* Properties. *)

\* A recharge is sent once, however often and by whomever it is asked for,
\* and whatever is lost on the way (MOBILE_TOPUP_SANDBOX.md:393-406).
OneTransfer == Len(transfers) <= 1

\* A recharge reported delivered was delivered, and one reported failed or
\* refunded was not (transaction, transfer, mapTopUp).
AnswersAreTrue == \A c \in Callers :
  /\ calls[c].answer = "DELIVERED" => \E i \in DOMAIN transfers : transfers[i] = "done"
  /\ calls[c].answer \in {"FAILED", "REFUNDED"} => \A i \in DOMAIN transfers : transfers[i] = "failed"

\* Every provider's operators have identifiers the column can hold, and
\* the one quoted is never another provider's (encodeOperatorId).
OperatorsHaveOneOwner ==
  /\ operatorId \in 1..LargestStored
  /\ decodeOperatorId(operatorId).provider = provider
  /\ encodeOperatorId(provider, decodeOperatorId(operatorId).rawId) = operatorId

\* A submission that ends with the status 400, which the service answers
\* with a refund, has sent nothing, and nothing is sent later.
NothingRejectedIsSent == told = "rejected" => transfers = <<>>

(* A recharge is sent once, to the provider that owns its operator,        *)
(* whatever is lost, repeated or forgotten on the way; what an adapter     *)
(* reports is so; and a submission that ends as refused has sent nothing   *)
(* (submitTopUp and the lookups of the three adapters).                    *)
AdaptersAreSound ==
  PTypeOK /\ OneTransfer /\ OperatorsHaveOneOwner /\ AnswersAreTrue /\ NothingRejectedIsSent
=============================================================================
