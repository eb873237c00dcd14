---------------------------- MODULE MCDeduplicator ----------------------------
(* Small instances of Deduplicator for TLC. *)
EXTENDS Deduplicator, TLC

CONSTANTS c1, c2, f1, f2, s1, s2

\* Two fingerprints on different shards, and on the same one.
ApartOn == (f1 :> s1) @@ (f2 :> s2)
SameOn == [f \in {f1, f2} |-> s1]
=============================================================================
