----------------------- MODULE MCRechargeReservation -----------------------
(* Two small instances of RechargeReservation and one of ProviderAdapters, *)
(* the initial states choosing the one a behaviour is of: a failing one,   *)
(* in which requests stop, cards are declined and money runs out first, a  *)
(* crowded one, in which more quotes race for the attempts of an hour and  *)
(* of a day, nobody is restricted and all that is paid for is delivered,   *)
(* and one of a recharge in the adapter of its provider.                   *)
EXTENDS RechargeReservation, ProviderAdapters, TLC

CONSTANTS r1, r2, c1, c2, p1, p2, q1, q2, q3, k1, k2

VARIABLE scenario

\* Everybody has been seen on the same device.
OneDevice == [c \in Customers |-> Customers]

Failing == INSTANCE RechargeReservation WITH
  Quotes <- {q1, q2}, Totals <- {2}, PerHour <- 2, Horizon <- 1
Crowded == INSTANCE RechargeReservation WITH
  Phones <- {p1}, Totals <- {1}, MaxDeclines <- 0, MaxFaults <- 0

ScenarioInit ==
  /\ scenario \in {"failing", "crowded", "provider"}
  /\ Init /\ PInit
  /\ scenario # "provider" => provider = "DTONE"

ScenarioNext ==
  /\ scenario' = scenario
  /\ \/ scenario = "failing" /\ Failing!Next /\ UNCHANGED pvars
     \/ scenario = "crowded" /\ Crowded!Next /\ UNCHANGED pvars
     \/ scenario = "provider" /\ PNext /\ UNCHANGED vars

\* A failing behaviour has a restriction or a fault, not both.
FailingHasOneTrouble == scenario = "failing" => faults + Cardinality(restricted) <= 1

\* The quotes are named in the order they are made, as far as q3 is concerned.
LastIsMadeLast == quote[q3] # NoQuote => \A q \in Quotes : quote[q] # NoQuote

CrowdedGoesWell ==
  scenario = "crowded" =>
    /\ restricted = {}
    /\ \A o \in Rows : row[o].payment = "CAPTURED" => row[o].status \in {"PENDING", "DELIVERED"}

ScenarioSpec == ScenarioInit /\ [][ScenarioNext]_<<vars, pvars, scenario>>

\* A quote or a number that is not used in a behaviour of an instance is like
\* any other that is not used.
Interchangeable ==
  Permutations(Requests) \cup Permutations(Customers) \cup Permutations(Phones) \cup
  Permutations({q1, q2}) \cup Permutations(Keys)
=============================================================================
