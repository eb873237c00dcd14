----------------------------- MODULE NewestWins -----------------------------
(***************************************************************************)
(* What the shared order book store promises its readers, without books,   *)
(* connections or locks: versions of a key are offered in any order, any   *)
(* number of times, and a read returns the newest version offered so far.  *)
(* OrderBooks implements it (OrderBooks!Refines).                          *)
(***************************************************************************)
EXTENDS Naturals

CONSTANTS Key,      \* what a version is of: an (exchange, symbol) pair
          Version,  \* the versions, numbers above 0
          Reader    \* who reads

VARIABLES offered,  \* offered[k]: the versions of k offered so far
          seen      \* seen[r][k]: the version r's last read of k returned

vars == <<offered, seen>>

Init == /\ offered = [k \in Key |-> {}]
        /\ seen = [r \in Reader |-> [k \in Key |-> 0]]

Offer(k, v) == /\ offered' = [offered EXCEPT ![k] = @ \cup {v}]
               /\ UNCHANGED seen

\* 0 stands for "no version yet".
IsNewest(v, k) == /\ v \in offered[k] \cup {0}
                  /\ \A w \in offered[k] : w <= v

Read(r, k) == \E v \in offered[k] \cup {0} :
                 /\ IsNewest(v, k)
                 /\ seen' = [seen EXCEPT ![r][k] = v]
                 /\ UNCHANGED offered

Next == \/ \E k \in Key, v \in Version : Offer(k, v)
        \/ \E r \in Reader, k \in Key : Read(r, k)

Spec == Init /\ [][Next]_vars
=============================================================================
