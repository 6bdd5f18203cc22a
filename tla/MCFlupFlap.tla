----------------------------- MODULE MCFlupFlap -----------------------------
(* FlupFlap besides the payment of a recharge, the initial states choosing *)
(* what a behaviour is about: a store's sale with crashes and lost         *)
(* answers, two sales of a store at once, the discounts and rewards of a   *)
(* campaign, the message to the recipient, the sign-in of a customer, the  *)
(* verification of the customer's phone number, or the ledger of deleted   *)
(* accounts, once with two runs of its storage at a time.  These modules   *)
(* share no state, and the variables of the others stand still.            *)
EXTENDS StoreSales, Promotions, ReceiverNotification, CustomerIdentity, DeletionLedger, TLC

CONSTANTS h1, h2, t1, t2, c1, c2, v1, v2, q1, q2, s1, s2, m1, w1, w2

VARIABLE scenario

Capped ==
  [maxRedemptions |-> 1, maxPerCustomer |-> 1, firstRechargeOnly |-> FALSE,
   benefit |-> [type |-> "WAIVED_FEE"], reward |-> [type |-> "PERCENT_FEE", basisPoints |-> 500]]
PerNewCustomer ==
  [maxRedemptions |-> 2, maxPerCustomer |-> 2, firstRechargeOnly |-> FALSE,
   benefit |-> [type |-> "REDUCED_FEE", cents |-> 100],
   reward |-> [type |-> "FIXED_CUSTOMER", cents |-> 50]]
FirstOnly == [PerNewCustomer EXCEPT !.firstRechargeOnly = TRUE]
Campaigns == {Capped, PerNewCustomer, FirstOnly}

ScenarioInit ==
  /\ Init /\ PromotionInit /\ OutboxInit /\ IdentityInit /\ LedgerInit
  /\ scenario \in {"sale", "tills", "promotion", "message", "signIn", "codes", "ledger", "disk"}
  /\ scenario # "promotion" => campaign.rules = Capped

\* One sale, with the quote it is for; or two, with no fault and no balance returned.
OneSale == Cardinality({t \in Sales : row'[t] # NoRow \/ t \in expired'}) <= 1
NoFault == faults' = 0 /\ \A x \in Returns : <<"return", x>> \notin DOMAIN entries'

\* The campaign's rules are read where a quote is created: later edits show nothing.
EditIsSeen == campaign'.rules # campaign.rules => \E q \in Quotes : quote[q].state = "NONE"

\* What the codes are about needs one session, and no link.
OneSignIn == made'.logins <= 1 /\ made'.resets = 0 /\ clock' <= 1

ScenarioNext ==
  /\ scenario' = scenario
  /\ \/ /\ scenario = "sale" /\ Next /\ OneSale
        /\ UNCHANGED <<promotionVars, smsVars, identityVars, ledgerVars>>
     \/ /\ scenario = "tills" /\ Next /\ NoFault
        /\ UNCHANGED <<promotionVars, smsVars, identityVars, ledgerVars>>
     \/ /\ scenario = "promotion" /\ PromotionNext /\ EditIsSeen
        /\ UNCHANGED <<vars, smsVars, identityVars, ledgerVars>>
     \/ /\ scenario = "message" /\ OutboxNext
        /\ UNCHANGED <<vars, promotionVars, identityVars, ledgerVars>>
     \/ /\ scenario = "signIn" /\ IdentityNext /\ challenges' = <<>>
        /\ UNCHANGED <<vars, promotionVars, smsVars, ledgerVars>>
     \/ /\ scenario = "codes" /\ IdentityNext /\ OneSignIn
        /\ UNCHANGED <<vars, promotionVars, smsVars, ledgerVars>>
     \/ /\ scenario = "ledger" /\ LedgerNext /\ writer'[w2].at = "idle"
        /\ UNCHANGED <<vars, promotionVars, smsVars, identityVars>>
     \/ /\ scenario = "disk" /\ LedgerNext /\ db'.status[c2] = "ACTIVE"
        /\ UNCHANGED <<vars, promotionVars, smsVars, identityVars>>

ScenarioSpec ==
  /\ ScenarioInit
  /\ [][ScenarioNext]_<<vars, promotionVars, smsVars, identityVars, ledgerVars, scenario>>

Interchangeable == Permutations(Handlers) \cup Permutations({t1, t2}) \cup Permutations(Quotes)
=============================================================================
