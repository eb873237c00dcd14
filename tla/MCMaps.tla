-------------------------------- MODULE MCMaps --------------------------------
(***************************************************************************)
(* The deduplicator and the reconciler for TLC: the two parts whose tasks  *)
(* meet at the locks of a DashMap. They share no state, so every behaviour *)
(* is one of one part, with the other at rest.                             *)
(***************************************************************************)
EXTENDS MCDeduplicator, MCReconciler

CONSTANTS o3

VARIABLE part

\* A buy and a sell that flatten the position, or one buy in one part or two.
Trades == (o1 :> 1) @@ (o2 :> -1) @@ (o3 :> 2)
FlatOrParts == placed' \subseteq {o1, o2} \/ placed' = {o3}

\* The second caller of the deduplicator only checks, and only the first fingerprint.
SecondChecksOnly == pc'[c2] # "clear" /\ fp'[c2] = f1

MapsInit == /\ part \in {"deduplicator", "reconciler"}
            /\ Init /\ fp[c2] = f1
            /\ (part # "deduplicator" => fp[c1] = f1)
            /\ ReconcilerInit

MapsNext ==
  \/ /\ part = "deduplicator" /\ Next /\ SecondChecksOnly
     /\ UNCHANGED <<part, reconcilerVars>>
  \/ /\ part = "reconciler" /\ ReconcilerNext /\ FlatOrParts
     /\ UNCHANGED <<part, vars>>

\* The fairness of both parts. A deduplicator at rest has no step to take.
MapsSpec ==
  /\ MapsInit /\ [][MapsNext]_<<part, vars, reconcilerVars>>
  /\ \A c \in Caller : WF_vars(Step(c))
  /\ WF_reconcilerVars(part = "reconciler" /\ Loop)
  /\ WF_reconcilerVars(part = "reconciler" /\ (FetchOk \/ FetchError))
  /\ \A k \in Key : SF_reconcilerVars(part = "reconciler" /\ FetchOk /\ entry = k)
  /\ \A c \in Reporter : SF_reconcilerVars(part = "reconciler" /\ Deliver(c))
  /\ WF_reconcilerVars(part = "reconciler" /\ \E c \in Reporter, e \in Event : BeginCall(c, e))
=============================================================================
