----------------------------- MODULE MCReconciler -----------------------------
(* Small instances of Reconciler for TLC. *)
EXTENDS Reconciler, TLC

CONSTANTS k1, m1, o1, o2

OneKey == [o \in Order |-> k1]
OneMapShard == [k \in Key |-> m1]

\* A buy and a sell that flatten the position, each in one or two parts.
BuySell == (o1 :> 2) @@ (o2 :> -2)
=============================================================================
