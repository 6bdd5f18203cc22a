---------------------------- MODULE MCRemittance ----------------------------
(* Model checking of Remittance: interchangeable handlers. *)
EXTENDS Remittance, TLC

CONSTANTS h1, h2

Interchangeable == Permutations(Handlers)

(* What the bank settled is booked, and what is booked is held for the      *)
(* transfer (processWebhook, syncTransferFromFunding).                      *)
FundingProgresses == BankIsHeard /\ SettledIsHeld
=============================================================================
