----------------------------- MODULE MCInventory -----------------------------
(* Small instances of Inventory for TLC. *)
EXTENDS Inventory, TLC

\* With two tasks, one unit on each exchange does.
LessHeldByTwo == Cardinality(askers') > 1 => \A e \in Exchange : Abs(held'[e]) <= 1
=============================================================================
