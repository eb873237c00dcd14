------------------------------- MODULE MCScanner -------------------------------
(* An instance of Scanner for TLC. *)
EXTENDS Scanner, TLC

CONSTANTS e1, e2

\* In half dollars. The bids of e2 may exceed the asks of e1 and the other way round.
MCTops == e1 :> {[bid |-> 1, ask |-> 2], [bid |-> 5, ask |-> 6]}
       @@ e2 :> {[bid |-> 3, ask |-> 4]}

MCConfigs == {<<e1, e2>>, <<e1>>}
=============================================================================
