------------------------------ MODULE MCDetection ------------------------------
(***************************************************************************)
(* Order books, connections and the scanner for TLC: the parts of the      *)
(* detection of opportunities that wait for each other or for a timer.     *)
(* They share no state (the scanner has books of its own, with the best    *)
(* prices only), so every behaviour is one of one part, with the others at *)
(* rest.                                                                   *)
(***************************************************************************)
EXTENDS MCOrderBooks, MCConnection, MCScanner

VARIABLE part

detectionVars == <<part, bookVars, connectionVars, vars>>

\* What the deduplicator has last been asked for, where it does not matter.
FirstFingerprint == CHOOSE f \in Fingerprint : TRUE

DetectionInit ==
  /\ part \in {"books", "connection", "scanner"}
  /\ BooksInit /\ ConnectionInit
  /\ Init /\ (part # "scanner" => enabled = <<e1>> /\ fp[Me] = FirstFingerprint)

\* Each of the three messages is published once, in any order.
EachMessageOnce == \A i, j \in DOMAIN feed'[k1] : feed'[k1][i] = feed'[k1][j] => i = j

\* The second symbol is only worth buying on the first exchange.
SecondSymbolOneWay == book'[e1][2].ask \in {0, 2}

DetectionNext ==
  \/ /\ part = "books" /\ BooksNext /\ EachMessageOnce
     /\ UNCHANGED <<part, connectionVars, vars>>
  \/ part = "connection" /\ ConnectionNext /\ UNCHANGED <<part, bookVars, vars>>
  \/ /\ part = "scanner" /\ Next /\ SecondSymbolOneWay
     /\ UNCHANGED <<part, bookVars, connectionVars>>

\* The fairness of all three. Parts at rest have no step to take.
DetectionSpec ==
  /\ DetectionInit /\ [][DetectionNext]_detectionVars
  /\ \A c \in Conn : WF_bookVars(ReaderTask(c))
  /\ \A t \in Task : WF_connectionVars(ConnectionStep(t))
  /\ WF_vars(Step)
=============================================================================
