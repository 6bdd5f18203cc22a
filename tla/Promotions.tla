----------------------------- MODULE Promotions -----------------------------
(***************************************************************************)
(* One promotion campaign: who it is attributed to, the discounts quotes   *)
(* reserve, and the rewards its promoter earns                             *)
(* (apps/api/src/flupflap/marketing.ts, marketing-recharge.ts and          *)
(* marketing-policy.ts).                                                   *)
(*                                                                         *)
(* createQuote reserves under the row locks of the customer and of the     *)
(* campaign, with all its reads and writes: one step.  The transaction     *)
(* that moves a recharge holds the row of the recharge, reads the          *)
(* redemption and only then takes the campaign: two steps, as are a staff  *)
(* decision, which holds the reward while it reads the recharge, and a     *)
(* reservation, which takes the time long before it consumes its quote.    *)
(***************************************************************************)
EXTENDS Integers, FiniteSets

CONSTANTS
  Customers,       \* FlupFlapCustomer rows
  Visits,          \* CampaignVisit rows of the campaign's link
  Quotes,          \* quotes
  CampaignFee,     \* the fee of a quote before any benefit, in cents
  CampaignRules    \* bound: the rules the campaign may have

ASSUME CampaignAssumption ==
  /\ CampaignFee \in Nat /\ "none" \notin Quotes
  /\ \A rules \in CampaignRules :
       /\ rules.maxRedemptions \in Nat /\ rules.maxPerCustomer \in Nat
       /\ rules.benefit.type = "PERCENT_FEE" => rules.benefit.basisPoints \in Nat
       /\ rules.benefit.type \notin {"NONE", "WAIVED_FEE", "PERCENT_FEE"} => rules.benefit.cents \in Nat

VARIABLES
  campaign,     \* PromotionCampaign: status and rules
  rulesSnapshot, \* PromotionRedemption.rulesSnapshot of each quote, once it has one
  attribution,  \* ReferralAttribution.visitId of each customer
  quote,        \* MobileTopUpQuote: state, customer and fee
  late,         \* quotes past expiresAt
  reserving,    \* reservations that have read the time
  redemption,   \* PromotionRedemption.status of each quote
  recharge,     \* state of the MobileTopUpTransaction of each quote
  moving,       \* the uncommitted transition of a recharge
  reward,       \* PromoterReward.status of each quote's recharge
  deciding      \* the staff decision that holds a reward

promotionVars == <<campaign, rulesSnapshot, attribution, quote, late, reserving, redemption,
                   recharge, moving, reward, deciding>>

---------------------------------------------------------------------------
(* Prices and rewards (marketing-policy.ts). *)

\* A benefit takes cents or basis points off the fee and never more than it.
promotionPrice(fee, rule) ==
  LET discount ==
        CASE rule.type = "NONE" -> 0
          [] rule.type = "WAIVED_FEE" -> fee
          [] rule.type = "PERCENT_FEE" -> (fee * rule.basisPoints) \div 10000
          [] rule.type = "REDUCED_FEE" -> IF fee > rule.cents THEN fee - rule.cents ELSE 0
          [] OTHER -> rule.cents
  IN  fee - (IF discount < fee THEN discount ELSE fee)

promoterRewardCents(fee, rule, count) ==
  CASE rule.type = "NONE" -> 0
    [] rule.type = "PERCENT_FEE" -> (fee * rule.basisPoints) \div 10000
    [] rule.type = "MILESTONE" -> IF count % rule.every = 0 THEN rule.cents ELSE 0
    [] OTHER -> rule.cents

rewardTransition ==
  [PENDING |-> {"APPROVED", "REVERSED"}, APPROVED |-> {"PAYABLE", "REVERSED"},
   PAYABLE |-> {"PAID", "REVERSED"}, PAID |-> {"REVERSED"}, REVERSED |-> {}]

---------------------------------------------------------------------------
Undecided == [quote |-> "none", to |-> "none", fit |-> FALSE]
NotMoving == [to |-> "none", seen |-> "none"]

PromotionInit ==
  /\ \E rules \in CampaignRules : campaign = [status |-> "ACTIVE", rules |-> rules]
  /\ rulesSnapshot = [q \in Quotes |-> campaign.rules]
  /\ attribution = [c \in Customers |-> "none"]
  /\ quote = [q \in Quotes |-> [state |-> "NONE", customer |-> "none", fee |-> CampaignFee]]
  /\ late = {}
  /\ reserving = {}
  /\ redemption = [q \in Quotes |-> "NONE"]
  /\ recharge = [q \in Quotes |-> "NONE"]
  /\ moving = [q \in Quotes |-> NotMoving]
  /\ reward = [q \in Quotes |-> "NONE"]
  /\ deciding = Undecided

\* saveCampaign: staff edits the status and the rules; a revoked campaign
\* stays revoked.
SaveCampaign(status, rules) ==
  /\ campaign.status # "REVOKED"
  /\ campaign' = [status |-> status, rules |-> rules]
  /\ UNCHANGED <<rulesSnapshot, attribution, quote, late, reserving, redemption, recharge, moving, reward, deciding>>

\* claim, under the lock of the customer: attributed once, by a visit nobody
\* else used.
Claim(c, v) ==
  /\ attribution[c] = "none"
  /\ \A d \in Customers : attribution[d] # v
  /\ campaign.status = "ACTIVE"
  /\ attribution' = [attribution EXCEPT ![c] = v]
  /\ UNCHANGED <<campaign, rulesSnapshot, quote, late, reserving, redemption, recharge, moving, reward, deciding>>

---------------------------------------------------------------------------
(* reserveQuotePromotion, in the transaction that creates the quote. *)

\* A reservation whose quote ran out unused gives its place back.
RanOut(q) == redemption[q] = "RESERVED" /\ q \in late /\ quote[q].state # "CONSUMED"
Counted(q) == redemption[q] \in {"RESERVED", "FULFILLED"} /\ ~RanOut(q)
Of(c) == {q \in Quotes : quote[q].customer = c}

promotionEligible(c) ==
  /\ Cardinality({q \in Quotes : Counted(q)}) < campaign.rules.maxRedemptions
  /\ Cardinality({q \in Of(c) : Counted(q)}) < campaign.rules.maxPerCustomer
  /\ campaign.rules.firstRechargeOnly => \A q \in Of(c) : recharge[q] # "DELIVERED"

\* Only one outstanding first-recharge reservation per customer.
Outstanding(c) ==
  \E q \in Of(c) : redemption[q] = "RESERVED" /\ (q \notin late \/ quote[q].state = "CONSUMED")

CreateQuote(q, c) ==
  LET considered == attribution[c] # "none" /\ campaign.status = "ACTIVE"
      granted == /\ considered /\ promotionEligible(c)
                 /\ ~(campaign.rules.firstRechargeOnly /\ Outstanding(c))
  IN
  /\ quote[q].state = "NONE"
  /\ quote' = [quote EXCEPT ![q] =
       [state |-> "OPEN", customer |-> c,
        fee |-> IF granted THEN promotionPrice(CampaignFee, campaign.rules.benefit) ELSE CampaignFee]]
  /\ redemption' = [x \in Quotes |->
       IF x = q THEN IF granted THEN "RESERVED" ELSE "NONE"
       ELSE IF considered /\ RanOut(x) THEN "EXPIRED" ELSE redemption[x]]
  /\ rulesSnapshot' = IF granted THEN [rulesSnapshot EXCEPT ![q] = campaign.rules] ELSE rulesSnapshot
  /\ UNCHANGED <<campaign, attribution, late, reserving, recharge, moving, reward, deciding>>

\* reservePayment: the time is read, and compared with expiresAt much later.
ReadTime(q) ==
  /\ quote[q].state = "OPEN" /\ q \notin late /\ q \notin reserving
  /\ reserving' = reserving \cup {q}
  /\ UNCHANGED <<campaign, rulesSnapshot, attribution, quote, late, redemption, recharge, moving, reward, deciding>>

Reserve(q) ==
  /\ q \in reserving
  /\ reserving' = reserving \ {q}
  /\ quote' = [quote EXCEPT ![q].state = "CONSUMED"]
  /\ recharge' = [recharge EXCEPT ![q] = "PENDING"]
  /\ UNCHANGED <<campaign, rulesSnapshot, attribution, late, redemption, moving, reward, deciding>>

QuoteRunsOut(q) ==
  /\ q \notin late /\ quote[q].state # "NONE"
  /\ late' = late \cup {q}
  /\ UNCHANGED <<campaign, rulesSnapshot, attribution, quote, reserving, redemption, recharge, moving, reward, deciding>>

---------------------------------------------------------------------------
(* reconcilePromotion, in the transaction that moves the recharge. *)

\* What settlement may write next; a failure or refund leaves its mark.
RechargeNext ==
  [NONE |-> {}, PENDING |-> {"PENDING", "DELIVERED", "UNSAFE"},
   DELIVERED |-> {"DELIVERED", "UNSAFE"}, UNSAFE |-> {"UNSAFE"}]

\* The row is written, and the redemption read before the campaign is locked.
MoveRecharge(q, to) ==
  /\ moving[q] = NotMoving /\ to \in RechargeNext[recharge[q]]
  /\ moving' = [moving EXCEPT ![q] = [to |-> to, seen |-> redemption[q]]]
  /\ UNCHANGED <<campaign, rulesSnapshot, attribution, quote, late, reserving, redemption, recharge, reward, deciding>>

Commit(q) ==
  /\ moving[q] # NotMoving
  /\ recharge' = [recharge EXCEPT ![q] = moving[q].to]
  /\ moving' = [moving EXCEPT ![q] = NotMoving]

\* A reward a staff decision holds is waited for.
Reverse(q) ==
  /\ moving[q].to = "UNSAFE" /\ moving[q].seen # "NONE" /\ deciding.quote # q
  /\ Commit(q)
  /\ redemption' = [redemption EXCEPT ![q] = "REVERSED"]
  /\ reward' = IF reward[q] = "NONE" THEN reward ELSE [reward EXCEPT ![q] = "REVERSED"]
  /\ UNCHANGED <<campaign, rulesSnapshot, attribution, quote, late, reserving, deciding>>

Fulfillable(q) ==
  /\ moving[q].to = "DELIVERED"
  /\ moving[q].seen \notin {"NONE", "REVERSED", "EXPIRED"}
  /\ redemption[q] \notin {"FULFILLED", "REVERSED"} /\ reward[q] = "NONE"
  /\ campaign.status # "REVOKED"

Fulfilled == {q \in Quotes : redemption[q] = "FULFILLED"}

\* Mutant of Rewarded: a reward for a customer is given each time.
RewardedEachTime(q) ==
  promoterRewardCents(quote[q].fee, rulesSnapshot[q].reward, Cardinality(Fulfilled) + 1) # 0

\* The rules are those the quote was made under, and not as edited since.
Rewarded(q) ==
  LET rule == rulesSnapshot[q].reward IN
  /\ ~(rule.type = "FIXED_CUSTOMER" /\ (Fulfilled \cap Of(quote[q].customer)) \ {q} # {})
  /\ promoterRewardCents(quote[q].fee, rule, Cardinality(Fulfilled) + 1) # 0

Fulfill(q) ==
  /\ Fulfillable(q)
  /\ Commit(q)
  /\ redemption' = [redemption EXCEPT ![q] = "FULFILLED"]
  /\ reward' = IF Rewarded(q) THEN [reward EXCEPT ![q] = "PENDING"] ELSE reward
  /\ UNCHANGED <<campaign, rulesSnapshot, attribution, quote, late, reserving, deciding>>

CommitOnly(q) ==
  /\ ~(moving[q].to = "UNSAFE" /\ moving[q].seen # "NONE") /\ ~Fulfillable(q)
  /\ Commit(q)
  /\ UNCHANGED <<campaign, rulesSnapshot, attribution, quote, late, reserving, redemption, reward, deciding>>

\* A process that stops takes its transaction back.
Rollback(q) ==
  /\ moving[q] # NotMoving
  /\ moving' = [moving EXCEPT ![q] = NotMoving]
  /\ UNCHANGED <<campaign, rulesSnapshot, attribution, quote, late, reserving, redemption, recharge, reward, deciding>>

---------------------------------------------------------------------------
(* changeReward: the reward is locked and the recharge read as committed,  *)
(* then the decision is written.  Rewards of tests are never paid.         *)

ReadReward(q, to) ==
  /\ deciding = Undecided /\ reward[q] # "NONE"
  /\ to \in rewardTransition[reward[q]] \ {"PAID"}
  /\ deciding' = [quote |-> q, to |-> to, fit |-> to = "REVERSED" \/ recharge[q] = "DELIVERED"]
  /\ UNCHANGED <<campaign, rulesSnapshot, attribution, quote, late, reserving, redemption, recharge, moving, reward>>

ChangeReward ==
  /\ deciding # Undecided
  /\ reward' = IF deciding.fit THEN [reward EXCEPT ![deciding.quote] = deciding.to] ELSE reward
  /\ deciding' = Undecided
  /\ UNCHANGED <<campaign, rulesSnapshot, attribution, quote, late, reserving, redemption, recharge, moving>>

PromotionNext ==
  \/ \E status \in {"ACTIVE", "PAUSED", "REVOKED"}, rules \in CampaignRules : SaveCampaign(status, rules)
  \/ \E c \in Customers, v \in Visits : Claim(c, v)
  \/ \E q \in Quotes, c \in Customers : CreateQuote(q, c)
  \/ \E q \in Quotes : \/ ReadTime(q) \/ Reserve(q) \/ QuoteRunsOut(q)
                       \/ Reverse(q) \/ Fulfill(q) \/ CommitOnly(q) \/ Rollback(q)
  \/ \E q \in Quotes, to \in {"PENDING", "DELIVERED", "UNSAFE"} : MoveRecharge(q, to)
  \/ \E q \in Quotes, to \in {"APPROVED", "PAYABLE", "REVERSED"} : ReadReward(q, to)
  \/ ChangeReward

PromotionSpec == PromotionInit /\ [][PromotionNext]_promotionVars

---------------------------------------------------------------------------
(* Properties. *)

(* Every variable keeps its type.                                          *)
PromotionTypeOK ==
  /\ campaign.status \in {"ACTIVE", "PAUSED", "REVOKED"} /\ campaign.rules \in CampaignRules
  /\ rulesSnapshot \in [Quotes -> CampaignRules]
  /\ attribution \in [Customers -> Visits \cup {"none"}]
  /\ quote \in [Quotes -> [state : {"NONE", "OPEN", "CONSUMED"},
                           customer : Customers \cup {"none"}, fee : 0..CampaignFee]]
  /\ late \subseteq Quotes /\ reserving \subseteq Quotes
  /\ redemption \in [Quotes -> {"NONE", "RESERVED", "FULFILLED", "REVERSED", "EXPIRED"}]
  /\ recharge \in [Quotes -> DOMAIN RechargeNext]
  /\ reward \in [Quotes -> DOMAIN rewardTransition \cup {"NONE"}]

(* The campaign never has more redemptions than the rules allowed when one *)
(* of them was reserved, in all or for one customer (maxRedemptions,       *)
(* maxPerCustomer), whatever expires, delivers and reverses at the same    *)
(* time: an edit that lowers a limit takes no place back, and after it no  *)
(* place is given beyond it.                                               *)
CapacityHolds ==
  LET used == {q \in Quotes : redemption[q] \in {"RESERVED", "FULFILLED"}} IN
  /\ used # {} => \E q \in used : Cardinality(used) <= rulesSnapshot[q].maxRedemptions
  /\ \A c \in Customers :
       used \cap Of(c) # {} =>
         \E q \in used \cap Of(c) : Cardinality(used \cap Of(c)) <= rulesSnapshot[q].maxPerCustomer

(* A reward that was not taken back is for a recharge that is delivered    *)
(* and paid: a refund reverses it even while staff is approving it.        *)
RewardIsEarned ==
  \A q \in Quotes : reward[q] \notin {"NONE", "REVERSED"} =>
    recharge[q] = "DELIVERED" /\ redemption[q] = "FULFILLED"

(* A promoter is never rewarded for the same customer twice by rewards     *)
(* that are one per customer, however the campaign is edited between.      *)
OneRewardPerCustomer ==
  \A p, q \in Quotes :
    /\ p # q /\ quote[p].customer = quote[q].customer
    /\ rulesSnapshot[p].reward.type = "FIXED_CUSTOMER" /\ rulesSnapshot[q].reward.type = "FIXED_CUSTOMER"
    => reward[p] \in {"NONE", "REVERSED"} \/ reward[q] \in {"NONE", "REVERSED"}

(* A customer holds at most one first-recharge benefit, reserved or        *)
(* redeemed, however the campaign is edited.  It need not be for the       *)
(* customer's first delivered recharge: a quote made without a promotion   *)
(* may be delivered before it.                                             *)
FirstRechargeOnce ==
  \A p, q \in Quotes :
    /\ p # q /\ quote[p].customer = quote[q].customer
    /\ rulesSnapshot[p].firstRechargeOnly /\ rulesSnapshot[q].firstRechargeOnly
    => {redemption[p], redemption[q]} \cap {"NONE", "EXPIRED", "REVERSED"} # {}

(* A place in the campaign that was given back as expired is never bought: *)
(* "Expired, unconsumed quote reservations release capacity.  In-flight    *)
(* payments do not." (marketing-recharge.ts).  The code breaks it: a       *)
(* reservation that read the time before its quote ran out consumes the    *)
(* quote, at the discount, after another quote gave its place away.       *)
InFlightKeepsItsPlace == \A q \in Quotes : redemption[q] = "EXPIRED" => recharge[q] = "NONE"

(* A campaign's redemptions keep to its limits, and its rewards are for    *)
(* delivered recharges, one for a customer where it is one for a customer  *)
(* (reserveQuotePromotion, reconcilePromotion), while staff edits it.      *)
PromotionsAreSound ==
  /\ PromotionTypeOK
  /\ CapacityHolds /\ FirstRechargeOnce
  /\ RewardIsEarned /\ OneRewardPerCustomer
=============================================================================
