----------------------- MODULE MCIdentityVerification -----------------------
(* Model checking of IdentityVerification: two handlers. *)
EXTENDS IdentityVerification, TLC

CONSTANTS h1, h2

(* Bound: a session is saved a second time only where no call fails. *)
SavedAgainWithoutFaults == faults > 0 => Asked <= 1

Interchangeable == Permutations(Handlers)
=============================================================================
