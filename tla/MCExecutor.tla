------------------------------ MODULE MCExecutor ------------------------------
(* Small instances of Executor for TLC. *)
EXTENDS Executor, TLC

CONSTANTS x, y, z

\* Opportunities in both directions, and from and to an exchange without an API.
MCPlan == {[buy |-> b, sell |-> s, needed |-> 2] :
             <<b, s>> \in {<<x, y>>, <<y, x>>, <<x, z>>, <<z, x>>}}
=============================================================================
