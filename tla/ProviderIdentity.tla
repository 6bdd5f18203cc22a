-------------------------- MODULE ProviderIdentity --------------------------
(***************************************************************************)
(* The public identifiers of operators (apps/api/src/topup/                *)
(* provider-identity.ts): one 32-bit column for three providers, each with *)
(* a slot of its own.  The router knows from the identifier whom to ask.   *)
(***************************************************************************)
EXTENDS Integers

SLOT_SIZE == 700000000
LargestStored == 2147483647

Names == {"RELOADLY", "DTONE", "DING"}

slot == [RELOADLY |-> 0, DTONE |-> 1, DING |-> 2]

Invalid == -1

\* What a provider may call an operator.
LocalIds == 1..(SLOT_SIZE - 1)

\* The public identifier of a provider's own, or Invalid.
encodeOperatorId(name, rawId) ==
  IF rawId \in LocalIds /\ slot[name] * SLOT_SIZE + rawId <= LargestStored
  THEN slot[name] * SLOT_SIZE + rawId ELSE Invalid

\* Whom an identifier belongs to, and what it is there; "none" if invalid.
decodeOperatorId(id) ==
  LET owners == {n \in Names : id \div SLOT_SIZE = slot[n] /\ encodeOperatorId(n, id % SLOT_SIZE) = id}
  IN  IF owners = {} THEN [provider |-> "none", rawId |-> 0]
      ELSE [provider |-> CHOOSE n \in owners : TRUE, rawId |-> id % SLOT_SIZE]
=============================================================================
