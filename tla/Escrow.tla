------------------------------- MODULE Escrow -------------------------------
(***************************************************************************)
(* What a remittance promises about one customer's money, without any of   *)
(* the machinery: the bank pays it in, it is held for the transfer, a      *)
(* decision clears it, it is paid out; or it is given back.  An entry of   *)
(* the ledger is made once.  Remittance implements this.                   *)
(***************************************************************************)
EXTENDS Naturals

VARIABLES entries, cleared, payouts

vars == <<entries, cleared, payouts>>

Init == entries = {} /\ cleared = FALSE /\ payouts = 0

Enter(entry) == entries' = entries \cup {entry} /\ UNCHANGED <<cleared, payouts>>

Settle == Enter("settled")

(* Only what came in is held or goes back to the bank, and only what was *)
(* held is released.                                                     *)
Return == "settled" \in entries /\ Enter("reversed")
Hold == "settled" \in entries /\ Enter("reserved")
Release == "reserved" \in entries /\ Enter("released")

Clear ==
  /\ "settled" \in entries
  /\ cleared' = TRUE
  /\ UNCHANGED entries

(* A payout follows the settlement and a decision; the decision of a       *)
(* reviewer is recorded in the step that pays.                             *)
PayOut ==
  /\ "settled" \in entries
  /\ cleared'
  /\ payouts' = payouts + 1
  /\ UNCHANGED entries

Next ==
  \/ Settle \/ Return \/ Hold \/ Release
  \/ Clear /\ UNCHANGED payouts
  \/ PayOut

Spec == Init /\ [][Next]_vars
=============================================================================
