-------------------------- MODULE MCTransferEntry --------------------------
(* What comes before the debit of a transfer, the initial states choosing  *)
(* what a behaviour is about: the entry of transfers, once with rates that *)
(* change and once over more time; the bank account they are paid from,    *)
(* once with lost calls and crashes and once with two events handled at a  *)
(* time; or the customer's access, once for its sessions and once for its  *)
(* password.  The modules share no state, and the variables of the others  *)
(* stand still.                                                            *)
EXTENDS TransferEntry, BankAccounts, TicashSignIn, TLC

CONSTANTS h1, h2, k1, k2, q1, q2, r1, r2, c1, s1

VARIABLE scenario

Entry == INSTANCE TransferEntry WITH Horizon <- Day, Currencies <- {"CAD"}
Later == INSTANCE TransferEntry WITH Rates <- {5}, MaxFaults <- 0

\* Events come one at a time while calls are lost (the other delivery stands
\* still); or two at a time while none is.
Bank == INSTANCE BankAccounts WITH Deliveries <- {h1}
Events == INSTANCE BankAccounts WITH Withdraws <- FALSE, Crashes <- FALSE, MaxLosses <- 0

\* Sessions without reset links, and a password without sessions.
Sessions == INSTANCE TicashSignIn WITH Links <- {}, MaxPasswords <- 1, MaxFailures <- 1

ScenarioInit ==
  /\ Init /\ BankInit /\ AccessInit
  /\ scenario \in {"entry", "later", "bank", "events", "sessions", "passwords"}

ScenarioNext ==
  /\ scenario' = scenario
  /\ \/ scenario = "entry" /\ Entry!Next /\ UNCHANGED <<bankVars, accessVars>>
     \/ scenario = "later" /\ Later!Next /\ UNCHANGED <<bankVars, accessVars>>
     \/ scenario = "bank" /\ Bank!BankNext /\ UNCHANGED <<vars, accessVars>>
     \/ scenario = "events" /\ Events!BankNext /\ UNCHANGED <<vars, accessVars>>
     \/ scenario = "sessions" /\ Sessions!AccessNext /\ UNCHANGED <<vars, bankVars>>
     \/ scenario = "passwords" /\ UNCHANGED <<session, vars, bankVars>> /\ AccessNext

ScenarioSpec == ScenarioInit /\ [][ScenarioNext]_<<vars, bankVars, accessVars, scenario>>

\* Among faults no transfer comes back from its failure.
RevivedWithoutFaults == faults > 0 => \A t \in transfers : t.status # "revived"

Interchangeable ==
  Permutations(Handlers) \cup Permutations(Keys) \cup Permutations(Quotes)
    \cup Permutations(Recipients)
=============================================================================
