-------------------------- MODULE RiskManager_proofs --------------------------
(***************************************************************************)
(* Theorems about RiskManager, for any number of traders, keys and limits  *)
(* and for profits of any size: type correctness, and by how much the      *)
(* limits are overshot.                                                    *)
(***************************************************************************)
EXTENDS RiskManager, SumTheorems

USE DEF pnl, asked, locals

\* Each conjunct of TypeOK that can_trade, trading and the operator disturb.
LEMMA InitTypeOK == Init => TypeOK
<1> SUFFICES ASSUME Init PROVE TypeOK
  OBVIOUS
<1> USE RiskManagerAssumption DEF Init
<1>1. /\ peak \in Nat \ {0} /\ drawdown \in Nat \X (Nat \ {0})
      /\ realized \in Int /\ daily \in Int
  OBVIOUS
<1>2. positions \in [Key -> Nat \cup {NoPosition}]
  OBVIOUS
<1>3. /\ pc \in [Trader -> Places]
      /\ key \in [Trader -> Key] /\ size \in [Trader -> Nat]
      /\ todo \in [Trader -> SUBSET Key] /\ sum \in [Trader -> Nat]
  BY DEF Places
<1>4. limits \in Limits /\ breaker \in BOOLEAN /\ highest \in Nat
      /\ callers \subseteq Trader
  OBVIOUS
<1> QED
  BY <1>1, <1>2, <1>3, <1>4 DEF TypeOK

\* Every step keeps the types.
LEMMA NextTypeOK == TypeOK /\ [Next]_vars => TypeOK'
<1> SUFFICES ASSUME TypeOK, [Next]_vars PROVE TypeOK'
  OBVIOUS
<1> USE RiskManagerAssumption DEF TypeOK, Places, Goto
<1>1. ASSUME NEW t \in Trader, NEW k \in Key, NEW s \in Size, CanTrade(t, k, s)
      PROVE  TypeOK'
  <2>1. s \in Nat
    OBVIOUS
  <2> QED
    BY <1>1, <2>1 DEF CanTrade
<1>2. ASSUME NEW t \in Trader, CheckSize(t)
      PROVE  TypeOK'
  BY <1>2 DEF CheckSize
<1>3. ASSUME NEW t \in Trader, NEW k \in Key, ReadEntry(t, k)
      PROVE  TypeOK'
  <2> DEFINE entry == CASE k \notin Open -> 0
                        [] k \in Open /\ pc[t] = "exposure" -> positions[k]
                        [] k \in Open /\ pc[t] = "count" -> 1
  <2>1. entry \in Nat
    BY <1>3 DEF ReadEntry, Open, NoPosition
  <2>2. sum' = [sum EXCEPT ![t] = @ + entry]
    BY <1>3 DEF ReadEntry
  <2> HIDE DEF entry
  <2>3. sum[t] + entry \in Nat
    BY <2>1
  <2>4. sum' \in [Trader -> Nat]
    BY <2>2, <2>3
  <2>5. todo' \in [Trader -> SUBSET Key]
    BY <1>3 DEF ReadEntry
  <2> QED
    BY <1>3, <2>4, <2>5 DEF ReadEntry
<1>4. ASSUME NEW t \in Trader, CheckExposure(t)
      PROVE  TypeOK'
  BY <1>4 DEF CheckExposure
<1>5. ASSUME NEW t \in Trader,
             \/ CheckOpenPositions(t) \/ CheckDailyLoss(t)
             \/ CheckDrawdown(t) \/ Trip(t)
      PROVE  TypeOK'
  BY <1>5 DEF CheckOpenPositions, CheckDailyLoss, CheckDrawdown, Trip
<1>6. ASSUME NEW t \in Trader, UpdatePosition(t)
      PROVE  TypeOK'
  <2>1. (IF positions[key[t]] = NoPosition THEN size[t]
         ELSE positions[key[t]] + size[t]) \in Nat \cup {NoPosition}
    BY DEF NoPosition
  <2> QED
    BY <1>6, <2>1 DEF UpdatePosition
<1>7. ASSUME NEW t \in Trader, NEW k \in Key, RemovePosition(t, k)
      PROVE  TypeOK'
  BY <1>7 DEF RemovePosition
<1>8. ASSUME NEW t \in Trader, NEW p \in Profit, RecordTrade(t, p)
      PROVE  TypeOK'
  <2>1. realized + p \in Int /\ daily + p \in Int
    OBVIOUS
  <2>2. peak' \in Nat \ {0} /\ drawdown' \in Nat \X (Nat \ {0})
    BY <1>8, <2>1 DEF RecordTrade, UpdateDrawdown
  <2>3. highest' \in Nat
    BY <1>8, <2>1 DEF RecordTrade
  <2> QED
    BY <1>8, <2>1, <2>2, <2>3 DEF RecordTrade
<1>9. CASE \/ UpdateLimits \/ TriggerCircuitBreaker
           \/ ResetCircuitBreaker \/ ResetDailyPnl
  <2>1. CASE UpdateLimits
    BY <2>1 DEF UpdateLimits
  <2>2. CASE TriggerCircuitBreaker \/ ResetCircuitBreaker
    BY <2>2 DEF TriggerCircuitBreaker, ResetCircuitBreaker
  <2>3. CASE ResetDailyPnl
    BY <2>3 DEF ResetDailyPnl
  <2> QED
    BY <1>9, <2>1, <2>2, <2>3
<1>10. CASE UNCHANGED vars
  BY <1>10 DEF vars
<1> QED
  BY <1>1, <1>2, <1>3, <1>4, <1>5, <1>6, <1>7, <1>8, <1>9, <1>10 DEF Next, Step

\* Type correctness of the risk manager and of the calls in progress.
THEOREM TypeCorrect == Spec => []TypeOK
<1>1. Init => TypeOK
  BY InitTypeOK
<1>2. TypeOK /\ [Next]_vars => TypeOK'
  BY NextTypeOK
<1> QED
  BY <1>1, <1>2, PTL DEF Spec

-----------------------------------------------------------------------------
(* Ledgers: the argument behind OvershootBounded *)

\* Multiplication by a natural number keeps the order.
LEMMA Products ==
  ASSUME NEW a \in Nat, NEW x \in Int, NEW y \in Int, x <= y
  PROVE  a * x <= a * y
OBVIOUS

\* n tasks put weights on the keys of S, at most P each time, each after it has
\* visited the keys one by one: seen[t] is what t has found on the keys visited[t],
\* or, once t has visited them all and passed its check, what it may have found.
\* `in' are the tasks between their first visit and the weight they put. Some of them
\* are early: a task that began after them has put its weight, and nothing is known
\* of what they have seen. Of the others t, before[t] are the tasks that t found in
\* and that are in still: only they have not put a weight that t may have missed.
IsLedger(early, before, S, M, P, n, in, w, visited, seen) ==
  /\ early \in SUBSET in
  /\ before \in [in -> SUBSET in]
  /\ \A t \in in \ early :
        /\ t \notin before[t]
        /\ early \subseteq before[t]
        /\ SumFunctionOnSet(w, visited[t])
             <= seen[t] + (n - 1 - Cardinality(before[t])) * P
  /\ \A t, u \in in \ early : \/ t = u
                              \/ before[t] \cup {t} \subseteq before[u]
                              \/ before[u] \cup {u} \subseteq before[t]
  /\ SumFunctionOnSet(w, S) <= M + (n - 1 - Cardinality(early)) * P

Ledger(S, M, P, n, in, w, visited, seen) ==
  \E early, before : IsLedger(early, before, S, M, P, n, in, w, visited, seen)

\* Fewer tasks that wait, or more tasks in all: more weight may have been put.
LEMMA Slack ==
  ASSUME NEW P \in Nat, NEW n \in Nat, NEW n1 \in Nat, n <= n1,
         NEW T, IsFiniteSet(T), NEW T1 \in SUBSET T
  PROVE  /\ (n - 1 - Cardinality(T)) * P \in Int
         /\ (n1 - 1 - Cardinality(T1)) * P \in Int
         /\ (n - 1 - Cardinality(T)) * P <= (n1 - 1 - Cardinality(T1)) * P
<1> DEFINE a == n - 1 - Cardinality(T)
           b == n1 - 1 - Cardinality(T1)
<1>1. /\ Cardinality(T) \in Nat /\ Cardinality(T1) \in Nat
      /\ Cardinality(T1) <= Cardinality(T)
  BY FS_Subset, FS_CardinalityType
<1>2. a \in Int /\ b \in Int /\ a <= b
  BY <1>1
<1> HIDE DEF a, b
<1>3. P * a <= P * b
  BY <1>2, Products
<1>4. a * P = P * a /\ b * P = P * b /\ a * P \in Int /\ b * P \in Int
  BY <1>2
<1> QED
  BY <1>3, <1>4 DEF a, b

\* One task less that waits: P more.
LEMMA SlackOfOne ==
  ASSUME NEW P \in Nat, NEW n \in Nat, NEW T, IsFiniteSet(T), NEW t \in T
  PROVE  /\ (n - 1 - Cardinality(T)) * P \in Int
         /\ (n - 1 - Cardinality(T \ {t})) * P = (n - 1 - Cardinality(T)) * P + P
<1>1. Cardinality(T) \in Nat /\ Cardinality(T \ {t}) = Cardinality(T) - 1
  BY FS_RemoveElement, FS_CardinalityType
<1> DEFINE a == n - 1 - Cardinality(T)
<1>2. a \in Int /\ n - 1 - Cardinality(T \ {t}) = a + 1
  BY <1>1
<1> HIDE DEF a
<1>3. (a + 1) * P = a * P + P /\ a * P \in Int
  BY <1>2
<1> QED
  BY <1>2, <1>3 DEF a

\* Nothing is put yet and no task is in.
LEMMA LedgerFirst ==
  ASSUME NEW S, IsFiniteSet(S), NEW M \in Nat, NEW P \in Nat, NEW n \in Nat, n >= 1,
         NEW w, \A k \in S : w[k] = 0, NEW visited, NEW seen
  PROVE  Ledger(S, M, P, n, {}, w, visited, seen)
<1> DEFINE zero == [x \in S |-> 0]
<1>1. SumFunctionOnSet(w, S) = 0
  <2>1. \A x \in S : zero[x] \in Int /\ zero[x] = w[x] - w[x]
    OBVIOUS
  <2> HIDE DEF zero
  <2>2. SumFunctionOnSet(zero, S) = SumFunctionOnSet(w, S) - SumFunctionOnSet(w, S)
    BY <2>1, SumDifference
  <2>3. SumFunctionOnSet(zero, S) = SumFunctionOnSet(w, S)
    BY <2>1, SumSame
  <2> QED
    BY <2>2, <2>3, SumType
<1>2. (n - 1 - Cardinality({})) * P \in Nat
  <2>1. n - 1 - Cardinality({}) \in Nat
    BY FS_EmptySet
  <2> QED
    BY <2>1
<1>3. IsLedger({}, [t \in {} |-> {}], S, M, P, n, {}, w, visited, seen)
  BY <1>1, <1>2 DEF IsLedger
<1> QED
  BY <1>3 DEF Ledger

\* Weights shrink, tasks leave, tasks find that they may have seen more, more tasks.
LEMMA LedgerRelaxed ==
  ASSUME NEW S, IsFiniteSet(S), NEW M \in Int, NEW P \in Nat,
         NEW n \in Nat, NEW n1 \in Nat, n <= n1,
         NEW in, IsFiniteSet(in), NEW in1 \in SUBSET in,
         NEW w, NEW w1, \A k \in S : w[k] \in Int /\ w1[k] \in Int /\ w1[k] <= w[k],
         NEW visited, NEW visited1, NEW seen, NEW seen1,
         \A t \in in1 : /\ visited[t] \in SUBSET S /\ visited1[t] = visited[t]
                        /\ seen[t] \in Int /\ seen1[t] \in Int /\ seen[t] <= seen1[t],
         Ledger(S, M, P, n, in, w, visited, seen)
  PROVE  Ledger(S, M, P, n1, in1, w1, visited1, seen1)
<1>1. PICK early, before : IsLedger(early, before, S, M, P, n, in, w, visited, seen)
  BY DEF Ledger
<1> DEFINE early1 == early \cap in1
           before1 == [t \in in1 |-> before[t] \cap in1]
<1>2. \A T \in SUBSET S : /\ SumFunctionOnSet(w, T) \in Int
                          /\ SumFunctionOnSet(w1, T) \in Int
                          /\ SumFunctionOnSet(w1, T) <= SumFunctionOnSet(w, T)
  <2> SUFFICES ASSUME NEW T \in SUBSET S
               PROVE  /\ SumFunctionOnSet(w, T) \in Int
                      /\ SumFunctionOnSet(w1, T) \in Int
                      /\ SumFunctionOnSet(w1, T) <= SumFunctionOnSet(w, T)
    OBVIOUS
  <2>1. IsFiniteSet(T)
    BY FS_Subset
  <2>2. \A k \in T : w[k] \in Int /\ w1[k] \in Int /\ w1[k] <= w[k]
    OBVIOUS
  <2> QED
    BY <2>1, <2>2, SumType, SumMonotone
<1>3. early1 \in SUBSET in1 /\ before1 \in [in1 -> SUBSET in1]
  OBVIOUS
<1>4. ASSUME NEW t \in in1 \ early1
      PROVE  /\ t \notin before1[t]
             /\ early1 \subseteq before1[t]
             /\ SumFunctionOnSet(w1, visited1[t])
                  <= seen1[t] + (n1 - 1 - Cardinality(before1[t])) * P
  <2>1. t \in in \ early /\ before1[t] = before[t] \cap in1
    BY <1>4
  <2>2. /\ t \notin before[t] /\ early \subseteq before[t]
        /\ SumFunctionOnSet(w, visited[t])
             <= seen[t] + (n - 1 - Cardinality(before[t])) * P
        /\ before[t] \in SUBSET in
    BY <1>1, <2>1 DEF IsLedger
  <2>3. IsFiniteSet(before[t])
    BY <2>2, FS_Subset
  <2>4. /\ (n - 1 - Cardinality(before[t])) * P \in Int
        /\ (n1 - 1 - Cardinality(before1[t])) * P \in Int
        /\ (n - 1 - Cardinality(before[t])) * P <= (n1 - 1 - Cardinality(before1[t])) * P
    BY <2>1, <2>3, Slack
  <2>5. SumFunctionOnSet(w1, visited1[t]) <= SumFunctionOnSet(w, visited[t])
    BY <1>2
  <2>6. SumFunctionOnSet(w1, visited1[t]) \in Int /\ SumFunctionOnSet(w, visited[t]) \in Int
    BY <1>2
  <2> HIDE DEF before1, early1
  <2>7. SumFunctionOnSet(w1, visited1[t])
          <= seen1[t] + (n1 - 1 - Cardinality(before1[t])) * P
    BY <2>2, <2>4, <2>5, <2>6
  <2> QED
    BY <2>1, <2>2, <2>7 DEF early1
<1>5. ASSUME NEW t \in in1 \ early1, NEW u \in in1 \ early1, t # u
      PROVE  \/ before1[t] \cup {t} \subseteq before1[u]
             \/ before1[u] \cup {u} \subseteq before1[t]
  <2>1. \/ before[t] \cup {t} \subseteq before[u]
        \/ before[u] \cup {u} \subseteq before[t]
    BY <1>1, <1>5 DEF IsLedger
  <2> QED
    BY <2>1
<1>6. SumFunctionOnSet(w1, S) <= M + (n1 - 1 - Cardinality(early1)) * P
  <2>1. IsFiniteSet(early)
    BY <1>1, FS_Subset DEF IsLedger
  <2>2. /\ (n - 1 - Cardinality(early)) * P \in Int
        /\ (n1 - 1 - Cardinality(early1)) * P \in Int
        /\ (n - 1 - Cardinality(early)) * P <= (n1 - 1 - Cardinality(early1)) * P
    BY <2>1, Slack
  <2>3. SumFunctionOnSet(w, S) <= M + (n - 1 - Cardinality(early)) * P
    BY <1>1 DEF IsLedger
  <2>4. /\ SumFunctionOnSet(w1, S) <= SumFunctionOnSet(w, S)
        /\ SumFunctionOnSet(w1, S) \in Int /\ SumFunctionOnSet(w, S) \in Int
    BY <1>2
  <2> HIDE DEF early1
  <2> QED
    BY <2>2, <2>3, <2>4
<1> HIDE DEF early1, before1
<1>7. IsLedger(early1, before1, S, M, P, n1, in1, w1, visited1, seen1)
  BY <1>3, <1>4, <1>5, <1>6 DEF IsLedger
<1> QED
  BY <1>7 DEF Ledger

\* A task comes in; it has visited nothing.
Enters(a, S, n, in, w, visited, visited1, seen, seen1) ==
  /\ a \notin in /\ Cardinality(in \cup {a}) <= n
  /\ \A k \in S : w[k] \in Int
  /\ \A t \in in : visited1[t] = visited[t] /\ seen1[t] = seen[t]
  /\ visited1[a] = {} /\ seen1[a] \in Nat

\* It has all the tasks inside before it.
LEMMA LedgerEntered ==
  ASSUME NEW S, IsFiniteSet(S), NEW M \in Int, NEW P \in Nat, NEW n \in Nat,
         NEW in, IsFiniteSet(in), NEW a, NEW w,
         NEW visited, NEW visited1, NEW seen, NEW seen1,
         Enters(a, S, n, in, w, visited, visited1, seen, seen1),
         Ledger(S, M, P, n, in, w, visited, seen)
  PROVE  Ledger(S, M, P, n, in \cup {a}, w, visited1, seen1)
<1> USE DEF Enters
<1>1. PICK early, before : IsLedger(early, before, S, M, P, n, in, w, visited, seen)
  BY DEF Ledger
<1> DEFINE in1 == in \cup {a}
           before1 == [t \in in1 |-> IF t = a THEN in ELSE before[t]]
<1>2. early \in SUBSET in /\ before \in [in -> SUBSET in]
  BY <1>1 DEF IsLedger
<1>3. early \in SUBSET in1 /\ before1 \in [in1 -> SUBSET in1]
  BY <1>2
<1>4. before1[a] = in /\ \A t \in in : before1[t] = before[t]
  OBVIOUS
<1> HIDE DEF before1
<1>5. ASSUME NEW t \in in1 \ early
      PROVE  /\ t \notin before1[t]
             /\ early \subseteq before1[t]
             /\ SumFunctionOnSet(w, visited1[t])
                  <= seen1[t] + (n - 1 - Cardinality(before1[t])) * P
  <2>1. CASE t = a
    <3>1. SumFunctionOnSet(w, visited1[t]) = 0
      BY <2>1, SumEmpty
    <3>2. Cardinality(in) \in Nat /\ Cardinality(in \cup {a}) = Cardinality(in) + 1
      BY FS_AddElement, FS_CardinalityType
    <3> DEFINE free == n - 1 - Cardinality(in)
    <3>3. free \in Nat
      BY <3>2
    <3> HIDE DEF free
    <3>4. free * P \in Nat
      BY <3>3
    <3>5. 0 <= seen1[t] + free * P
      BY <2>1, <3>4
    <3> QED
      BY <1>2, <1>4, <2>1, <3>1, <3>5 DEF free
  <2>2. CASE t # a
    BY <1>1, <1>4, <1>5, <2>2 DEF IsLedger
  <2> QED
    BY <2>1, <2>2
<1>6. ASSUME NEW t \in in1 \ early, NEW u \in in1 \ early, t # u
      PROVE  \/ before1[t] \cup {t} \subseteq before1[u]
             \/ before1[u] \cup {u} \subseteq before1[t]
  <2>1. CASE t = a \/ u = a
    BY <1>2, <1>4, <1>6, <2>1
  <2>2. CASE t # a /\ u # a
    BY <1>1, <1>4, <1>6, <2>2 DEF IsLedger
  <2> QED
    BY <2>1, <2>2
<1>7. SumFunctionOnSet(w, S) <= M + (n - 1 - Cardinality(early)) * P
  BY <1>1 DEF IsLedger
<1>8. IsLedger(early, before1, S, M, P, n, in1, w, visited1, seen1)
  BY <1>3, <1>5, <1>6, <1>7 DEF IsLedger
<1> QED
  BY <1>8 DEF Ledger

\* A task visits a key.
Visits(a, k, S, in, w, visited, visited1, seen, seen1) ==
  /\ a \in in
  /\ \A x \in S : w[x] \in Int
  /\ \A t \in in \ {a} : visited1[t] = visited[t] /\ seen1[t] = seen[t]
  /\ visited[a] \in SUBSET S /\ seen[a] \in Int
  /\ k \in S \ visited[a]
  /\ visited1[a] = visited[a] \cup {k} /\ seen1[a] = seen[a] + w[k]

\* What it finds there is added to both sides.
LEMMA LedgerVisited ==
  ASSUME NEW S, IsFiniteSet(S), NEW M \in Int, NEW P \in Nat, NEW n \in Nat,
         NEW in, IsFiniteSet(in), NEW a, NEW k, NEW w,
         NEW visited, NEW visited1, NEW seen, NEW seen1,
         Visits(a, k, S, in, w, visited, visited1, seen, seen1),
         Ledger(S, M, P, n, in, w, visited, seen)
  PROVE  Ledger(S, M, P, n, in, w, visited1, seen1)
<1> USE DEF Visits
<1>1. PICK early, before : IsLedger(early, before, S, M, P, n, in, w, visited, seen)
  BY DEF Ledger
<1>2. ASSUME NEW t \in in \ early
      PROVE  SumFunctionOnSet(w, visited1[t])
               <= seen1[t] + (n - 1 - Cardinality(before[t])) * P
  <2> DEFINE missed == (n - 1 - Cardinality(before[t])) * P
  <2>1. /\ before[t] \in SUBSET in
        /\ SumFunctionOnSet(w, visited[t]) <= seen[t] + missed
    BY <1>1, <1>2 DEF IsLedger
  <2>2. missed \in Int
    BY <2>1, FS_Subset, Slack
  <2> HIDE DEF missed
  <2>3. CASE t = a
    <3>1. IsFiniteSet(visited[a]) /\ \A x \in visited[a] \cup {k} : w[x] \in Int
      BY FS_Subset
    <3>2. SumFunctionOnSet(w, visited1[a]) = SumFunctionOnSet(w, visited[a]) + w[k]
      BY <3>1, SumAdd
    <3>3. SumFunctionOnSet(w, visited[a]) \in Int /\ w[k] \in Int
      BY <3>1, SumType
    <3>4. SumFunctionOnSet(w, visited1[a]) <= seen1[a] + missed
      BY <2>1, <2>2, <2>3, <3>2, <3>3
    <3> QED
      BY <2>3, <3>4 DEF missed
  <2>4. CASE t # a
    BY <2>1, <2>4 DEF missed
  <2> QED
    BY <2>3, <2>4
<1>3. IsLedger(early, before, S, M, P, n, in, w, visited1, seen1)
  BY <1>1, <1>2 DEF IsLedger
<1> QED
  BY <1>3 DEF Ledger

\* A task puts its weight on k after it has passed its check.
PutsWeight(a, k, S, M, P, in, w, w1, visited, visited1, seen, seen1) ==
  /\ a \in in /\ k \in S
  /\ \A x \in S : w[x] \in Int
  /\ \A x \in S \ {k} : w1[x] = w[x]
  /\ w1[k] \in Int /\ w[k] <= w1[k] /\ w1[k] - w[k] <= P
  /\ \A t \in in : visited[t] \in SUBSET S /\ seen[t] \in Int
  /\ \A t \in in \ {a} : visited1[t] = visited[t] /\ seen1[t] = seen[t]
  /\ visited[a] = S /\ seen[a] + (w1[k] - w[k]) <= M

\* A task puts its weight: it leaves the ledger, and every other task that has begun
\* to read has one task less before it, or becomes early.
LEMMA LedgerAdded ==
  ASSUME NEW S, IsFiniteSet(S), NEW M \in Int, NEW P \in Nat, NEW n \in Nat,
         NEW in, IsFiniteSet(in), NEW a, NEW k, NEW w, NEW w1,
         NEW visited, NEW visited1, NEW seen, NEW seen1,
         PutsWeight(a, k, S, M, P, in, w, w1, visited, visited1, seen, seen1),
         Ledger(S, M, P, n, in, w, visited, seen)
  PROVE  Ledger(S, M, P, n, in \ {a}, w1, visited1, seen1)
<1>0. /\ a \in in /\ k \in S
      /\ \A x \in S : w[x] \in Int
      /\ \A x \in S \ {k} : w1[x] = w[x]
      /\ w1[k] \in Int /\ w[k] <= w1[k] /\ w1[k] - w[k] <= P
      /\ \A t \in in : visited[t] \in SUBSET S /\ seen[t] \in Int
      /\ \A t \in in \ {a} : visited1[t] = visited[t] /\ seen1[t] = seen[t]
      /\ visited[a] = S /\ seen[a] + (w1[k] - w[k]) <= M
  BY DEF PutsWeight
<1> USE <1>0
<1>1. PICK early, before : IsLedger(early, before, S, M, P, n, in, w, visited, seen)
  BY DEF Ledger
<1> DEFINE in1 == in \ {a}
           early1 == IF a \in early THEN early \ {a} ELSE before[a]
           before1 == [t \in in1 |-> before[t] \ {a}]
           d == w1[k] - w[k]
<1>d. d \in Nat /\ d <= P /\ seen[a] + d <= M /\ w1[k] = w[k] + d
  OBVIOUS
<1> HIDE DEF d
<1>2. /\ early \in SUBSET in /\ before \in [in -> SUBSET in]
      /\ a \notin early => a \notin before[a]
  BY <1>1 DEF IsLedger
<1>3. early1 \in SUBSET in1 /\ before1 \in [in1 -> SUBSET in1]
  BY <1>2
<1>4. ASSUME NEW T \in SUBSET S
      PROVE  /\ SumFunctionOnSet(w, T) \in Int /\ SumFunctionOnSet(w1, T) \in Int
             /\ SumFunctionOnSet(w1, T) <= SumFunctionOnSet(w, T) + d
  <2>1. IsFiniteSet(T) /\ \A x \in T : w[x] \in Int /\ w1[x] \in Int
    BY FS_Subset
  <2>2. SumFunctionOnSet(w, T) \in Int /\ SumFunctionOnSet(w1, T) \in Int
    BY <2>1, SumType
  <2>3. CASE k \in T
    <3>1. SumFunctionOnSet(w1, T) = SumFunctionOnSet(w, T) + (w1[k] - w[k])
      <4>1. \A x \in T \ {k} : w1[x] = w[x]
        OBVIOUS
      <4> QED
        BY <2>1, <2>3, <4>1, SumChange
    <3>2. w[k] \in Int /\ w1[k] - w[k] = d
      BY <1>d
    <3> QED
      BY <1>d, <2>2, <3>1, <3>2
  <2>4. CASE k \notin T
    <3>1. SumFunctionOnSet(w1, T) = SumFunctionOnSet(w, T)
      <4>1. \A x \in T : w1[x] = w[x]
        BY <2>4
      <4> QED
        BY <2>1, <4>1, SumSame
    <3> QED
      BY <1>d, <2>2, <3>1
  <2> QED
    BY <2>3, <2>4
<1>5. ASSUME NEW t \in in1 \ early1
      PROVE  t \in in \ early /\ a \in before[t]
  <2>1. CASE a \in early
    BY <1>1, <2>1 DEF IsLedger
  <2>2. CASE a \notin early
    <3>1. early \subseteq before[a]
      BY <1>1, <2>2 DEF IsLedger
    <3>2. t \notin before[a] /\ t \notin early
      BY <2>2, <3>1
    <3> QED
      BY <1>1, <2>2, <3>2 DEF IsLedger
  <2> QED
    BY <2>1, <2>2
<1>6. ASSUME NEW t \in in1 \ early1
      PROVE  /\ t \notin before1[t]
             /\ early1 \subseteq before1[t]
             /\ SumFunctionOnSet(w1, visited1[t])
                  <= seen1[t] + (n - 1 - Cardinality(before1[t])) * P
  <2>1. t \in in \ early /\ a \in before[t] /\ before1[t] = before[t] \ {a}
    BY <1>5
  <2> DEFINE missed == (n - 1 - Cardinality(before[t])) * P
             missed1 == (n - 1 - Cardinality(before1[t])) * P
  <2>2. /\ t \notin before[t] /\ early \subseteq before[t] /\ before[t] \in SUBSET in
        /\ SumFunctionOnSet(w, visited[t]) <= seen[t] + missed
    BY <1>1, <2>1 DEF IsLedger
  <2>3. early1 \subseteq before1[t]
    <3>1. CASE a \in early
      BY <2>1, <2>2, <3>1
    <3>2. CASE a \notin early
      <4>1. before[a] \cup {a} \subseteq before[t]
        BY <1>1, <2>1, <3>2 DEF IsLedger
      <4> QED
        BY <1>2, <2>1, <3>2, <4>1
    <3> QED
      BY <3>1, <3>2
  <2>4. missed \in Int /\ missed1 = missed + P
    BY <2>1, <2>2, FS_Subset, SlackOfOne
  <2> HIDE DEF missed, missed1
  <2>5. /\ SumFunctionOnSet(w1, visited[t]) <= SumFunctionOnSet(w, visited[t]) + d
        /\ SumFunctionOnSet(w1, visited[t]) \in Int /\ SumFunctionOnSet(w, visited[t]) \in Int
    BY <1>4
  <2>6. SumFunctionOnSet(w1, visited1[t]) <= seen1[t] + missed1
    <3>1. visited1[t] = visited[t] /\ seen1[t] = seen[t] /\ seen[t] \in Int
      OBVIOUS
    <3> QED
      BY <1>d, <2>2, <2>4, <2>5, <3>1
  <2> QED
    BY <2>1, <2>2, <2>3, <2>6 DEF missed1
<1>7. ASSUME NEW t \in in1 \ early1, NEW u \in in1 \ early1, t # u
      PROVE  \/ before1[t] \cup {t} \subseteq before1[u]
             \/ before1[u] \cup {u} \subseteq before1[t]
  <2>1. t \in in \ early /\ u \in in \ early
    BY <1>5
  <2>2. \/ before[t] \cup {t} \subseteq before[u]
        \/ before[u] \cup {u} \subseteq before[t]
    BY <1>1, <1>7, <2>1 DEF IsLedger
  <2> QED
    BY <2>2
<1>8. SumFunctionOnSet(w1, S) <= M + (n - 1 - Cardinality(early1)) * P
  <2>1. /\ SumFunctionOnSet(w1, S) <= SumFunctionOnSet(w, S) + d
        /\ SumFunctionOnSet(w1, S) \in Int /\ SumFunctionOnSet(w, S) \in Int
    BY <1>4
  <2>2. CASE a \in early
    <3> DEFINE missed == (n - 1 - Cardinality(early)) * P
               missed1 == (n - 1 - Cardinality(early1)) * P
    <3>1. SumFunctionOnSet(w, S) <= M + missed
      BY <1>1 DEF IsLedger
    <3>2. missed \in Int /\ missed1 = missed + P
      BY <1>2, <2>2, FS_Subset, SlackOfOne
    <3> HIDE DEF missed, missed1
    <3>3. SumFunctionOnSet(w1, S) <= M + missed1
      BY <1>d, <2>1, <3>1, <3>2
    <3> QED
      BY <3>3 DEF missed1
  <2>3. CASE a \notin early
    <3> DEFINE missed == (n - 1 - Cardinality(before[a])) * P
    <3>1. SumFunctionOnSet(w, S) <= seen[a] + missed
      BY <1>1, <2>3 DEF IsLedger
    <3>2. missed \in Int
      BY <1>2, FS_Subset, Slack
    <3>3. early1 = before[a]
      BY <2>3
    <3> HIDE DEF missed, early1
    <3>4. SumFunctionOnSet(w1, S) <= M + missed
      <4>1. seen[a] \in Int
        OBVIOUS
      <4> QED
        BY <1>d, <2>1, <3>1, <3>2, <4>1
    <3> QED
      BY <3>3, <3>4 DEF missed
  <2> QED
    BY <2>2, <2>3
<1> HIDE DEF early1, before1
<1>9. IsLedger(early1, before1, S, M, P, n, in1, w1, visited1, seen1)
  BY <1>3, <1>6, <1>7, <1>8 DEF IsLedger
<1> QED
  BY <1>9 DEF Ledger

\* What a ledger bounds.
LEMMA LedgerBound ==
  ASSUME NEW S, IsFiniteSet(S), NEW M \in Int, NEW P \in Nat, NEW n \in Nat,
         NEW in, IsFiniteSet(in), NEW w, NEW visited, NEW seen,
         \A k \in S : w[k] \in Int,
         Ledger(S, M, P, n, in, w, visited, seen)
  PROVE  SumFunctionOnSet(w, S) <= M + (n - 1) * P
<1>1. PICK early, before : IsLedger(early, before, S, M, P, n, in, w, visited, seen)
  BY DEF Ledger
<1>2. SumFunctionOnSet(w, S) \in Int
  BY SumType
<1> DEFINE missed == (n - 1 - Cardinality(early)) * P
           most == (n - 1 - Cardinality({})) * P
<1>3. missed \in Int /\ most \in Int /\ missed <= most
  <2>1. IsFiniteSet(early) /\ {} \in SUBSET early
    BY <1>1, FS_Subset DEF IsLedger
  <2> QED
    BY <2>1, Slack
<1>4. SumFunctionOnSet(w, S) <= M + missed
  BY <1>1 DEF IsLedger
<1>5. most = (n - 1) * P
  BY FS_EmptySet
<1> HIDE DEF missed, most
<1> QED
  BY <1>2, <1>3, <1>4, <1>5

-----------------------------------------------------------------------------
(* The limits are overshot by one trade of each task but one *)

\* One of finitely many limits is the loosest.
LEMMA LoosestBound ==
  ASSUME NEW field, \A l \in Limits : l[field] \in Nat
  PROVE  Loosest(field) \in Nat /\ \A l \in Limits : l[field] <= Loosest(field)
<1> DEFINE S == {l[field] : l \in Limits}
<1>1. IsFiniteSet(S)
  <2> DEFINE f == [l \in Limits |-> l[field]]
  <2>1. f \in Surjection(Limits, S)
    BY DEF Surjection
  <2> HIDE DEF f, S
  <2> QED
    BY <2>1, RiskManagerAssumption, FS_Surjection
<1>2. S \subseteq Nat /\ S \subseteq Int /\ S # {}
  BY RiskManagerAssumption
<1>3. Max(S) \in S /\ \A x \in S : x <= Max(S)
  <2> HIDE DEF S
  <2> QED
    BY <1>1, <1>2, MaxOfSet
<1> QED
  BY <1>2, <1>3 DEF Loosest

\* The loosest limits.
MaxExposure == Loosest("max_total_exposure")
MaxSize == Loosest("max_position_size")
MaxOpen == Loosest("max_open_positions")

\* The limits in force are no looser than the loosest.
LEMMA LimitsBound ==
  ASSUME limits \in Limits
  PROVE  /\ MaxExposure \in Nat /\ MaxSize \in Nat /\ MaxOpen \in Nat
         /\ limits.max_total_exposure \in Nat /\ limits.max_total_exposure <= MaxExposure
         /\ limits.max_position_size \in Nat /\ limits.max_position_size <= MaxSize
         /\ limits.max_open_positions \in Nat /\ limits.max_open_positions <= MaxOpen
<1>1. \A l \in Limits : /\ l["max_total_exposure"] \in Nat
                        /\ l["max_position_size"] \in Nat
                        /\ l["max_open_positions"] \in Nat
  BY RiskManagerAssumption DEF RiskLimits
<1> QED
  BY <1>1, LoosestBound DEF MaxExposure, MaxSize, MaxOpen

\* Whether a position is open, as a number.
OpenOne == [k \in Key |-> IF k \in Open THEN 1 ELSE 0]

\* The tasks between their first reading of the positions and the update of theirs, for
\* the exposure and for the number of positions.
Exposing == {t \in Trader :
               pc[t] \in {"exposure", "count", "daily", "drawdown", "approved"}}
Counting == {t \in Trader : pc[t] \in {"count", "daily", "drawdown", "approved"}}

\* The keys each has read, and what it has found or, once its check has passed, may
\* have found there.
ReadExposure == [t \in Trader |-> IF pc[t] = "exposure" THEN Key \ todo[t] ELSE Key]
SeenExposure == [t \in Trader |-> IF pc[t] = "exposure" THEN sum[t] ELSE MaxExposure - size[t]]
ReadCount == [t \in Trader |-> IF pc[t] = "count" THEN Key \ todo[t] ELSE Key]
SeenCount == [t \in Trader |-> IF pc[t] = "count" THEN sum[t] ELSE MaxOpen - 1]

ExposureLedger ==
  Ledger(Key, MaxExposure, MaxSize, Cardinality(callers), Exposing, Value,
         ReadExposure, SeenExposure)
CountLedger ==
  Ledger(Key, MaxOpen, 1, Cardinality(callers), Counting, OpenOne,
         ReadCount, SeenCount)

\* The tasks inside can_trade have called it, none of those past the first check asks
\* for more than the largest size allowed, and there is a ledger of the exposure and
\* one of the open positions.
OvershootInv ==
  /\ IsFiniteSet(callers)
  /\ \A t \in Trader : pc[t] \notin {"idle", "closed"} => t \in callers
  /\ \A t \in Exposing : size[t] <= MaxSize
  /\ callers = {} => Open = {}
  /\ callers # {} => ExposureLedger /\ CountLedger

\* The types of what the ledgers are about.
LedgerTyped ==
  /\ \A k \in Key : Value[k] \in Nat /\ OpenOne[k] \in Nat
  /\ \A t \in Trader : /\ ReadExposure[t] \in SUBSET Key /\ SeenExposure[t] \in Int
                       /\ ReadCount[t] \in SUBSET Key /\ SeenCount[t] \in Int

\* The loosest limits are natural numbers.
LEMMA BoundTypes == MaxExposure \in Nat /\ MaxSize \in Nat /\ MaxOpen \in Nat
<1>1. \A l \in Limits : /\ l["max_total_exposure"] \in Nat
                        /\ l["max_position_size"] \in Nat
                        /\ l["max_open_positions"] \in Nat
  BY RiskManagerAssumption DEF RiskLimits
<1> QED
  BY <1>1, LoosestBound DEF MaxExposure, MaxSize, MaxOpen

\* Where the state has its types, so have the ledgers.
LEMMA LedgerTypes == TypeOK => LedgerTyped
<1> SUFFICES ASSUME TypeOK PROVE LedgerTyped
  OBVIOUS
<1>1. \A k \in Key : Value[k] \in Nat /\ OpenOne[k] \in Nat
  BY DEF TypeOK, Value, OpenOne, Open, NoPosition
<1>2. ASSUME NEW t \in Trader
      PROVE  /\ ReadExposure[t] \in SUBSET Key /\ SeenExposure[t] \in Int
             /\ ReadCount[t] \in SUBSET Key /\ SeenCount[t] \in Int
  <2>1. sum[t] \in Nat /\ size[t] \in Nat
    BY DEF TypeOK
  <2> QED
    BY <2>1, BoundTypes DEF ReadExposure, SeenExposure, ReadCount, SeenCount
<1> QED
  BY <1>1, <1>2 DEF LedgerTyped

\* The tasks with a part in a ledger have called can_trade and are finitely many.
LEMMA InTypes ==
  ASSUME OvershootInv
  PROVE  /\ IsFiniteSet(Key) /\ IsFiniteSet(Exposing) /\ IsFiniteSet(Counting)
         /\ Exposing \subseteq callers /\ Counting \subseteq Exposing
         /\ Cardinality(callers) \in Nat
<1>1. Exposing \subseteq callers /\ Counting \subseteq Exposing
  BY DEF OvershootInv, Exposing, Counting
<1> QED
  BY <1>1, RiskManagerAssumption, FS_Subset, FS_CardinalityType DEF OvershootInv

\* The part of the invariant that is not about ledgers.
LEMMA NextCallers ==
  ASSUME TypeOK, OvershootInv, [Next]_vars
  PROVE  /\ callers \subseteq callers' /\ IsFiniteSet(callers')
         /\ Cardinality(callers') \in Nat /\ Cardinality(callers) <= Cardinality(callers')
         /\ (\A t \in Trader : pc[t] \notin {"idle", "closed"} => t \in callers)'
         /\ (\A t \in Exposing : size[t] <= MaxSize)'
         /\ (callers = {} => Open = {})'
<1> USE DEF TypeOK, Goto, OvershootInv, pnl, asked, locals
<1> DEFINE Goal == /\ callers \subseteq callers' /\ IsFiniteSet(callers')
                   /\ (\A t \in Trader : pc[t] \notin {"idle", "closed"} => t \in callers)'
                   /\ (\A t \in Exposing : size[t] <= MaxSize)'
                   /\ (callers = {} => Open = {})'
<1>a. MaxSize' = MaxSize
  BY DEF MaxSize, Loosest
<1>1. ASSUME NEW t \in Trader, NEW k \in Key, NEW s \in Size, CanTrade(t, k, s)
      PROVE  Goal
  <2>1. IsFiniteSet(callers')
    BY <1>1, FS_AddElement DEF CanTrade
  <2>2. callers' # {} /\ callers \subseteq callers'
    BY <1>1 DEF CanTrade
  <2>3. \A u \in Trader : pc'[u] \notin {"idle", "closed"} => u \in callers'
    BY <1>1 DEF CanTrade
  <2>4. \A u \in Exposing' : u \in Exposing /\ size'[u] = size[u]
    BY <1>1 DEF CanTrade, Exposing
  <2> QED
    BY <1>a, <2>1, <2>2, <2>3, <2>4
<1>2. ASSUME NEW t \in Trader, CheckSize(t)
      PROVE  Goal
  <2>1. size[t] \in Nat /\ limits.max_position_size \in Nat
        /\ limits.max_position_size <= MaxSize /\ MaxSize \in Nat
    BY LimitsBound
  <2>2. ASSUME NEW u \in Exposing' PROVE size'[u] <= MaxSize
    <3>1. CASE u = t
      BY <1>2, <2>1, <2>2, <3>1 DEF CheckSize, Exposing
    <3>2. CASE u # t
      BY <1>2, <2>2, <3>2 DEF CheckSize, Exposing
    <3> QED
      BY <3>1, <3>2
  <2> QED
    BY <1>a, <1>2, <2>2 DEF CheckSize, Open
<1>3. ASSUME NEW t \in Trader, \E k \in Key : ReadEntry(t, k)
      PROVE  Goal
  BY <1>a, <1>3 DEF ReadEntry, Exposing, Open
<1>4. ASSUME NEW t \in Trader,
             \/ CheckExposure(t) \/ CheckOpenPositions(t) \/ CheckDailyLoss(t)
             \/ CheckDrawdown(t) \/ Trip(t)
      PROVE  Goal
  <2>1. /\ callers' = callers /\ positions' = positions /\ size' = size
        /\ pc[t] \notin {"idle", "closed"}
        /\ \A u \in Trader \ {t} : pc'[u] = pc[u]
        /\ t \in Exposing' => t \in Exposing
    BY <1>4 DEF CheckExposure, CheckOpenPositions, CheckDailyLoss, CheckDrawdown, Trip, Exposing
  <2>2. \A u \in Exposing' : u \in Exposing
    BY <2>1 DEF Exposing
  <2> QED
    BY <1>a, <2>1, <2>2 DEF Open
<1>5. ASSUME NEW t \in Trader, UpdatePosition(t)
      PROVE  Goal
  <2>1. t \in callers
    BY <1>5 DEF UpdatePosition
  <2> QED
    BY <1>a, <1>5, <2>1 DEF UpdatePosition, Exposing
<1>6. ASSUME NEW t \in Trader,
             \/ \E k \in Key : RemovePosition(t, k)
             \/ \E p \in Profit : RecordTrade(t, p)
      PROVE  Goal
  <2>1. /\ callers' = callers /\ size' = size
        /\ \A u \in Trader : pc'[u] = pc[u] \/ pc'[u] \in {"idle", "closed"}
    BY <1>6 DEF RemovePosition, RecordTrade
  <2>2. \A u \in Exposing' : u \in Exposing
    BY <2>1 DEF Exposing
  <2>3. Open' \subseteq Open
    BY <1>6 DEF RemovePosition, RecordTrade, Open, NoPosition
  <2>4. (callers = {} => Open = {})'
    BY <2>1, <2>3
  <2>5. (\A u \in Trader : pc[u] \notin {"idle", "closed"} => u \in callers)'
    BY <2>1
  <2>6. (\A u \in Exposing : size[u] <= MaxSize)'
    BY <1>a, <2>1, <2>2
  <2> QED
    BY <2>1, <2>4, <2>5, <2>6
<1>7. ASSUME \/ UpdateLimits \/ TriggerCircuitBreaker \/ ResetCircuitBreaker
             \/ ResetDailyPnl \/ UNCHANGED vars
      PROVE  Goal
  <2>1. UNCHANGED <<callers, pc, size, positions>>
    BY <1>7 DEF UpdateLimits, TriggerCircuitBreaker, ResetCircuitBreaker, ResetDailyPnl, vars
  <2> QED
    BY <1>a, <2>1 DEF Exposing, Open
<1>8. Goal
  BY <1>1, <1>2, <1>3, <1>4, <1>5, <1>6, <1>7 DEF Next, Step
<1>9. Cardinality(callers') \in Nat /\ Cardinality(callers) <= Cardinality(callers')
  BY <1>8, FS_Subset, FS_CardinalityType
<1> QED
  BY <1>8, <1>9

\* Steps that open no position and let no task begin to read keep the
\* ledger of the exposure.
LEMMA ExposureKept ==
  ASSUME TypeOK, OvershootInv, [Next]_vars, callers # {},
         \A k \in Key : positions'[k] \in {positions[k], NoPosition},
         Exposing' \subseteq Exposing,
         \A t \in Exposing' : /\ ReadExposure'[t] = ReadExposure[t]
                              /\ SeenExposure[t] <= SeenExposure'[t]
  PROVE  ExposureLedger'
<1>1. LedgerTyped /\ LedgerTyped'
  <2>1. TypeOK'
    BY NextTypeOK
  <2> QED
    BY <2>1, LedgerTypes, PTL
<1>2. UNCHANGED <<MaxExposure, MaxSize, MaxOpen>>
  BY DEF MaxExposure, MaxSize, MaxOpen, Loosest
<1>3. \A k \in Key : /\ Value[k] \in Int /\ Value'[k] \in Int /\ Value'[k] <= Value[k]
  BY <1>1 DEF LedgerTyped, Value, Open, TypeOK, NoPosition
<1>4. \A t \in Exposing' :
         /\ ReadExposure[t] \in SUBSET Key /\ ReadExposure'[t] = ReadExposure[t]
         /\ SeenExposure[t] \in Int /\ SeenExposure'[t] \in Int
         /\ SeenExposure[t] <= SeenExposure'[t]
  BY <1>1 DEF LedgerTyped, Exposing
<1>5. ExposureLedger
  BY DEF OvershootInv
<1>6. /\ Cardinality(callers) \in Nat /\ Cardinality(callers') \in Nat
      /\ Cardinality(callers) <= Cardinality(callers')
  BY InTypes, NextCallers
<1>7. MaxExposure \in Int /\ MaxSize \in Nat
  BY BoundTypes
<1>8. Ledger(Key, MaxExposure, MaxSize, Cardinality(callers'), Exposing', Value',
             ReadExposure', SeenExposure')
  BY <1>3, <1>4, <1>5, <1>6, <1>7, InTypes, LedgerRelaxed DEF ExposureLedger
<1> QED
  BY <1>2, <1>8 DEF ExposureLedger

\* The same of the ledger of the open positions.
LEMMA CountKept ==
  ASSUME TypeOK, OvershootInv, [Next]_vars, callers # {},
         \A k \in Key : positions'[k] = NoPosition \/ positions[k] # NoPosition,
         Counting' \subseteq Counting,
         \A t \in Counting' : /\ ReadCount'[t] = ReadCount[t]
                              /\ SeenCount[t] <= SeenCount'[t]
  PROVE  CountLedger'
<1>1. LedgerTyped /\ LedgerTyped'
  <2>1. TypeOK'
    BY NextTypeOK
  <2> QED
    BY <2>1, LedgerTypes, PTL
<1>2. MaxOpen' = MaxOpen
  BY DEF MaxOpen, Loosest
<1>3. \A k \in Key : OpenOne[k] \in Int /\ OpenOne'[k] \in Int /\ OpenOne'[k] <= OpenOne[k]
  BY DEF OpenOne, Open
<1>4. \A t \in Counting' :
         /\ ReadCount[t] \in SUBSET Key /\ ReadCount'[t] = ReadCount[t]
         /\ SeenCount[t] \in Int /\ SeenCount'[t] \in Int
         /\ SeenCount[t] <= SeenCount'[t]
  BY <1>1 DEF LedgerTyped, Counting
<1>5. CountLedger
  BY DEF OvershootInv
<1>6. /\ Cardinality(callers) \in Nat /\ Cardinality(callers') \in Nat
      /\ Cardinality(callers) <= Cardinality(callers')
  BY InTypes, NextCallers
<1>7. MaxOpen \in Int /\ 1 \in Nat
  BY BoundTypes
<1>8. Ledger(Key, MaxOpen, 1, Cardinality(callers'), Counting', OpenOne',
             ReadCount', SeenCount')
  BY <1>3, <1>4, <1>5, <1>6, <1>7, InTypes, LedgerRelaxed DEF CountLedger
<1> QED
  BY <1>2, <1>8 DEF CountLedger

\* A task begins to read for the exposure.
LEMMA ExposureEntered ==
  ASSUME TypeOK, OvershootInv, callers # {}, NEW a \in Trader, CheckSize(a), pc'[a] = "exposure"
  PROVE  ExposureLedger'
<1> USE DEF TypeOK, CheckSize, Goto
<1>1. /\ a \in callers /\ a \notin Exposing /\ Exposing' = Exposing \cup {a}
      /\ Value' = Value /\ callers' = callers
  BY DEF OvershootInv, Exposing, Value, Open, asked
<1>2. /\ \A t \in Exposing : /\ ReadExposure'[t] = ReadExposure[t]
                             /\ SeenExposure'[t] = SeenExposure[t]
      /\ ReadExposure'[a] = {} /\ SeenExposure'[a] = 0
  <2>1. \A t \in Exposing : t \in Trader /\ t # a
    BY <1>1 DEF Exposing
  <2>2. MaxExposure' = MaxExposure
    BY DEF MaxExposure, Loosest
  <2>3. todo'[a] = Key /\ sum'[a] = 0 /\ pc'[a] = "exposure"
    OBVIOUS
  <2> QED
    BY <2>1, <2>2, <2>3 DEF ReadExposure, SeenExposure, asked
<1>3. Cardinality(Exposing \cup {a}) <= Cardinality(callers)
  <2>1. Exposing \cup {a} \subseteq callers
    BY <1>1, InTypes
  <2> QED
    BY <2>1, FS_Subset DEF OvershootInv
<1>4. \A k \in Key : Value[k] \in Int
  BY LedgerTypes DEF LedgerTyped
<1>5. Ledger(Key, MaxExposure, MaxSize, Cardinality(callers), Exposing \cup {a}, Value,
             ReadExposure', SeenExposure')
  <2>1. /\ IsFiniteSet(Key) /\ MaxExposure \in Int /\ MaxSize \in Nat
        /\ Cardinality(callers) \in Nat /\ IsFiniteSet(Exposing)
    BY BoundTypes, InTypes
  <2>2. Ledger(Key, MaxExposure, MaxSize, Cardinality(callers), Exposing, Value, ReadExposure, SeenExposure)
    BY DEF OvershootInv, ExposureLedger
  <2>3. Enters(a, Key, Cardinality(callers), Exposing, Value, ReadExposure, ReadExposure', SeenExposure, SeenExposure')
    BY ONLY <1>1, <1>2, <1>3, <1>4 DEF Enters
  <2> QED
    BY ONLY <2>1, <2>2, <2>3, LedgerEntered
<1> QED
  BY <1>1, <1>5 DEF ExposureLedger, MaxExposure, MaxSize, Loosest

\* A task begins to count the open positions.
LEMMA CountEntered ==
  ASSUME TypeOK, OvershootInv, callers # {}, NEW a \in Trader, CheckExposure(a), pc'[a] = "count"
  PROVE  CountLedger'
<1> USE DEF TypeOK, CheckExposure, Goto
<1>1. /\ a \in callers /\ a \notin Counting /\ Counting' = Counting \cup {a}
      /\ OpenOne' = OpenOne /\ callers' = callers
  BY DEF OvershootInv, Counting, OpenOne, Open, asked
<1>2. /\ \A t \in Counting : /\ ReadCount'[t] = ReadCount[t]
                             /\ SeenCount'[t] = SeenCount[t]
      /\ ReadCount'[a] = {} /\ SeenCount'[a] = 0
  <2>1. \A t \in Counting : t \in Trader /\ t # a
    BY <1>1 DEF Counting
  <2>2. MaxOpen' = MaxOpen
    BY DEF MaxOpen, Loosest
  <2>3. todo'[a] = Key /\ sum'[a] = 0 /\ pc'[a] = "count"
    OBVIOUS
  <2> QED
    BY <2>1, <2>2, <2>3 DEF ReadCount, SeenCount, asked
<1>3. Cardinality(Counting \cup {a}) <= Cardinality(callers)
  <2>1. Counting \cup {a} \subseteq callers
    BY <1>1, InTypes
  <2> QED
    BY <2>1, FS_Subset DEF OvershootInv
<1>4. \A k \in Key : OpenOne[k] \in Int
  BY DEF OpenOne
<1>5. Ledger(Key, MaxOpen, 1, Cardinality(callers), Counting \cup {a}, OpenOne,
             ReadCount', SeenCount')
  <2>1. /\ IsFiniteSet(Key) /\ MaxOpen \in Int /\ 1 \in Nat
        /\ Cardinality(callers) \in Nat /\ IsFiniteSet(Counting)
    BY BoundTypes, InTypes
  <2>2. Ledger(Key, MaxOpen, 1, Cardinality(callers), Counting, OpenOne, ReadCount, SeenCount)
    BY DEF OvershootInv, CountLedger
  <2>3. Enters(a, Key, Cardinality(callers), Counting, OpenOne, ReadCount, ReadCount', SeenCount, SeenCount')
    BY ONLY <1>1, <1>2, <1>3, <1>4 DEF Enters
  <2> QED
    BY ONLY <2>1, <2>2, <2>3, LedgerEntered
<1> QED
  BY <1>1, <1>5 DEF CountLedger, MaxOpen, Loosest

\* A task reads an entry, for the exposure or for the number of positions.
LEMMA ExposureRead ==
  ASSUME TypeOK, OvershootInv, callers # {}, NEW a \in Trader, NEW k \in Key,
         ReadEntry(a, k), pc[a] = "exposure"
  PROVE  ExposureLedger'
<1> USE DEF TypeOK, ReadEntry
<1>1. /\ a \in Exposing /\ Exposing' = Exposing /\ Value' = Value /\ callers' = callers
      /\ k \in Key \ ReadExposure[a]
  BY DEF Exposing, Value, Open, asked, ReadExposure
<1>2. /\ \A t \in Exposing \ {a} : /\ ReadExposure'[t] = ReadExposure[t]
                                   /\ SeenExposure'[t] = SeenExposure[t]
      /\ ReadExposure'[a] = ReadExposure[a] \cup {k}
  BY <1>1 DEF ReadExposure, SeenExposure, Exposing, asked, MaxExposure, Loosest
<1>3. SeenExposure'[a] = SeenExposure[a] + Value[k]
  BY DEF SeenExposure, Value
<1>4. /\ \A x \in Key : Value[x] \in Int
      /\ ReadExposure[a] \in SUBSET Key /\ SeenExposure[a] \in Int
  BY LedgerTypes DEF LedgerTyped
<1>5. Ledger(Key, MaxExposure, MaxSize, Cardinality(callers), Exposing, Value,
             ReadExposure', SeenExposure')
  <2>1. /\ IsFiniteSet(Key) /\ MaxExposure \in Int /\ MaxSize \in Nat
        /\ Cardinality(callers) \in Nat /\ IsFiniteSet(Exposing)
    BY BoundTypes, InTypes
  <2>2. Ledger(Key, MaxExposure, MaxSize, Cardinality(callers), Exposing, Value, ReadExposure, SeenExposure)
    BY DEF OvershootInv, ExposureLedger
  <2>3. Visits(a, k, Key, Exposing, Value, ReadExposure, ReadExposure', SeenExposure, SeenExposure')
    BY ONLY <1>1, <1>2, <1>3, <1>4 DEF Visits
  <2> QED
    BY ONLY <2>1, <2>2, <2>3, LedgerVisited
<1> QED
  BY <1>1, <1>5 DEF ExposureLedger, MaxExposure, MaxSize, Loosest

\* A task reads an entry to count it.
LEMMA CountRead ==
  ASSUME TypeOK, OvershootInv, callers # {}, NEW a \in Trader, NEW k \in Key,
         ReadEntry(a, k), pc[a] = "count"
  PROVE  CountLedger'
<1> USE DEF TypeOK, ReadEntry
<1>1. /\ a \in Counting /\ Counting' = Counting /\ OpenOne' = OpenOne /\ callers' = callers
      /\ k \in Key \ ReadCount[a]
  BY DEF Counting, OpenOne, Open, asked, ReadCount
<1>2. /\ \A t \in Counting \ {a} : /\ ReadCount'[t] = ReadCount[t]
                                   /\ SeenCount'[t] = SeenCount[t]
      /\ ReadCount'[a] = ReadCount[a] \cup {k}
  BY <1>1 DEF ReadCount, SeenCount, Counting, asked, MaxOpen, Loosest
<1>3. SeenCount'[a] = SeenCount[a] + OpenOne[k]
  BY DEF SeenCount, OpenOne
<1>4. /\ \A x \in Key : OpenOne[x] \in Int
      /\ ReadCount[a] \in SUBSET Key /\ SeenCount[a] \in Int
  BY LedgerTypes DEF LedgerTyped
<1>5. Ledger(Key, MaxOpen, 1, Cardinality(callers), Counting, OpenOne,
             ReadCount', SeenCount')
  <2>1. /\ IsFiniteSet(Key) /\ MaxOpen \in Int /\ 1 \in Nat
        /\ Cardinality(callers) \in Nat /\ IsFiniteSet(Counting)
    BY BoundTypes, InTypes
  <2>2. Ledger(Key, MaxOpen, 1, Cardinality(callers), Counting, OpenOne, ReadCount, SeenCount)
    BY DEF OvershootInv, CountLedger
  <2>3. Visits(a, k, Key, Counting, OpenOne, ReadCount, ReadCount', SeenCount, SeenCount')
    BY ONLY <1>1, <1>2, <1>3, <1>4 DEF Visits
  <2> QED
    BY ONLY <2>1, <2>2, <2>3, LedgerVisited
<1> QED
  BY <1>1, <1>5 DEF CountLedger, MaxOpen, Loosest

\* The approved trade is recorded in the positions.
LEMMA LedgersAdded ==
  ASSUME TypeOK, OvershootInv, callers # {}, NEW a \in Trader, UpdatePosition(a)
  PROVE  ExposureLedger' /\ CountLedger'
<1> USE DEF TypeOK, UpdatePosition, Goto
<1> DEFINE k == key[a]
           d == IF k \in Open THEN 0 ELSE 1
<1>1. /\ a \in Counting /\ Counting' = Counting \ {a} /\ callers' = callers
      /\ a \in Exposing /\ Exposing' = Exposing \ {a} /\ k \in Key
  BY DEF Counting, Exposing, asked, locals
<1>2. \A t \in Trader \ {a} : /\ ReadExposure'[t] = ReadExposure[t]
                              /\ SeenExposure'[t] = SeenExposure[t]
                              /\ ReadCount'[t] = ReadCount[t]
                              /\ SeenCount'[t] = SeenCount[t]
  BY DEF ReadExposure, SeenExposure, ReadCount, SeenCount, asked, locals, MaxExposure,
         MaxOpen, Loosest
<1>3. /\ ReadExposure[a] = Key /\ SeenExposure[a] = MaxExposure - size[a]
      /\ ReadCount[a] = Key /\ SeenCount[a] = MaxOpen - 1
  BY DEF ReadExposure, SeenExposure, ReadCount, SeenCount
<1>4. /\ \A x \in Key : Value[x] \in Int /\ OpenOne[x] \in Int
      /\ \A t \in Trader : /\ ReadExposure[t] \in SUBSET Key /\ SeenExposure[t] \in Int
                           /\ ReadCount[t] \in SUBSET Key /\ SeenCount[t] \in Int
  BY LedgerTypes DEF LedgerTyped
<1>5. size[a] \in Nat /\ size[a] <= MaxSize
  BY <1>1 DEF OvershootInv
<1>6. \A x \in Key \ {k} : Value'[x] = Value[x] /\ OpenOne'[x] = OpenOne[x]
  BY DEF Value, OpenOne, Open
<1>7. Value'[k] = Value[k] + size[a] /\ OpenOne'[k] = OpenOne[k] + d
  BY DEF Value, OpenOne, Open, NoPosition
<1>8. d \in Nat /\ d <= 1
  OBVIOUS
<1>9. /\ ExposureLedger /\ CountLedger
      /\ SeenExposure[a] + size[a] <= MaxExposure /\ SeenCount[a] + d <= MaxOpen
  BY <1>3, <1>5, <1>8, BoundTypes DEF OvershootInv
<1> HIDE DEF k, d, TypeOK, UpdatePosition
<1>10. /\ IsFiniteSet(Key) /\ MaxExposure \in Int /\ MaxSize \in Nat
       /\ MaxOpen \in Int /\ 1 \in Nat
       /\ Cardinality(callers) \in Nat /\ IsFiniteSet(Exposing) /\ IsFiniteSet(Counting)
  BY BoundTypes, InTypes
<1>11. Ledger(Key, MaxExposure, MaxSize, Cardinality(callers), Exposing \ {a}, Value',
              ReadExposure', SeenExposure')
  <2>1. Exposing \subseteq Trader
    BY DEF Exposing
  <2>2. Ledger(Key, MaxExposure, MaxSize, Cardinality(callers), Exposing, Value,
               ReadExposure, SeenExposure)
    BY <1>9 DEF ExposureLedger
  <2>3. /\ \A x \in Key : Value[x] \in Int
        /\ \A x \in Key \ {k} : Value'[x] = Value[x]
    BY <1>4, <1>6
  <2>4. \A t \in Exposing : ReadExposure[t] \in SUBSET Key /\ SeenExposure[t] \in Int
    BY <1>4, <2>1
  <2>5. \A t \in Exposing \ {a} : ReadExposure'[t] = ReadExposure[t] /\ SeenExposure'[t] = SeenExposure[t]
    BY <1>2, <2>1
  <2>6. /\ Value'[k] \in Int /\ Value[k] <= Value'[k] /\ Value'[k] - Value[k] <= MaxSize
        /\ ReadExposure[a] = Key /\ SeenExposure[a] + (Value'[k] - Value[k]) <= MaxExposure
    <3>1. Value[k] \in Int /\ Value'[k] - Value[k] = size[a]
      BY <1>1, <1>4, <1>5, <1>7, <1>8
    <3> QED
      BY <1>3, <1>5, <1>7, <1>8, <1>9, <1>10, <3>1
  <2>7. PutsWeight(a, k, Key, MaxExposure, MaxSize, Exposing, Value, Value',
                   ReadExposure, ReadExposure', SeenExposure, SeenExposure')
    BY ONLY <1>1, <2>3, <2>4, <2>5, <2>6 DEF PutsWeight
  <2> QED
    BY ONLY <1>10, <2>2, <2>7, LedgerAdded
<1>12. Ledger(Key, MaxOpen, 1, Cardinality(callers), Counting \ {a}, OpenOne',
              ReadCount', SeenCount')
  <2>1. Counting \subseteq Trader
    BY DEF Counting
  <2>2. Ledger(Key, MaxOpen, 1, Cardinality(callers), Counting, OpenOne, ReadCount, SeenCount)
    BY <1>9 DEF CountLedger
  <2>3. /\ \A x \in Key : OpenOne[x] \in Int
        /\ \A x \in Key \ {k} : OpenOne'[x] = OpenOne[x]
    BY <1>4, <1>6
  <2>4. \A t \in Counting : ReadCount[t] \in SUBSET Key /\ SeenCount[t] \in Int
    BY <1>4, <2>1
  <2>5. \A t \in Counting \ {a} : ReadCount'[t] = ReadCount[t] /\ SeenCount'[t] = SeenCount[t]
    BY <1>2, <2>1
  <2>6. /\ OpenOne'[k] \in Int /\ OpenOne[k] <= OpenOne'[k] /\ OpenOne'[k] - OpenOne[k] <= 1
        /\ ReadCount[a] = Key /\ SeenCount[a] + (OpenOne'[k] - OpenOne[k]) <= MaxOpen
    <3>1. OpenOne[k] \in Int /\ OpenOne'[k] - OpenOne[k] = d
      BY <1>1, <1>4, <1>5, <1>7, <1>8
    <3> QED
      BY <1>3, <1>5, <1>7, <1>8, <1>9, <1>10, <3>1
  <2>7. PutsWeight(a, k, Key, MaxOpen, 1, Counting, OpenOne, OpenOne',
                   ReadCount, ReadCount', SeenCount, SeenCount')
    BY ONLY <1>1, <2>3, <2>4, <2>5, <2>6 DEF PutsWeight
  <2> QED
    BY ONLY <1>10, <2>2, <2>7, LedgerAdded
<1> QED
  BY <1>1, <1>11, <1>12 DEF ExposureLedger, CountLedger, MaxExposure, MaxSize, MaxOpen, Loosest

\* The first call of can_trade opens both ledgers.
LEMMA LedgersFirst ==
  ASSUME TypeOK, OvershootInv, callers = {}, [Next]_vars, callers' # {}
  PROVE  ExposureLedger' /\ CountLedger'
<1> USE DEF TypeOK, pnl, asked, locals
<1>1. \A t \in Trader : pc[t] \in {"idle", "closed"}
  BY DEF OvershootInv
<1>2. PICK a \in Trader, b \in Key, s \in Size : CanTrade(a, b, s)
  BY <1>1 DEF Next, Step, CheckSize, ReadEntry, CheckExposure, CheckOpenPositions,
     CheckDailyLoss, CheckDrawdown, Trip, UpdatePosition, RemovePosition, RecordTrade,
     UpdateLimits, TriggerCircuitBreaker, ResetCircuitBreaker, ResetDailyPnl, vars
<1>3. callers' = {a} /\ positions' = positions
  BY <1>2 DEF CanTrade
<1>4. Exposing' = {} /\ Counting' = {}
  BY <1>1, <1>2 DEF CanTrade, Goto, Exposing, Counting
<1>5. \A k \in Key : Value'[k] = 0 /\ OpenOne'[k] = 0
  BY <1>3 DEF OvershootInv, Value, OpenOne, Open
<1>6. Cardinality(callers') = 1
  BY <1>3, FS_Singleton
<1>7. MaxExposure' = MaxExposure /\ MaxSize' = MaxSize /\ MaxOpen' = MaxOpen
  BY DEF MaxExposure, MaxSize, MaxOpen, Loosest
<1>8. /\ Ledger(Key, MaxExposure, MaxSize, 1, {}, Value', ReadExposure', SeenExposure')
      /\ Ledger(Key, MaxOpen, 1, 1, {}, OpenOne', ReadCount', SeenCount')
  <2>1. IsFiniteSet(Key)
    BY RiskManagerAssumption
  <2> QED
    BY <1>5, <2>1, BoundTypes, LedgerFirst
<1> QED
  BY <1>4, <1>6, <1>7, <1>8 DEF ExposureLedger, CountLedger

\* Later steps keep them.
LEMMA NextLedgers ==
  ASSUME TypeOK, OvershootInv, [Next]_vars, callers # {}
  PROVE  ExposureLedger' /\ CountLedger'
<1> USE DEF TypeOK, Goto, pnl, asked, locals
<1>a. MaxExposure' = MaxExposure /\ MaxSize' = MaxSize /\ MaxOpen' = MaxOpen
  BY DEF MaxExposure, MaxSize, MaxOpen, Loosest
<1>b. MaxExposure \in Nat /\ MaxSize \in Nat /\ MaxOpen \in Nat
  BY BoundTypes
<1>c. \A t \in Trader : SeenExposure[t] \in Int /\ SeenCount[t] \in Int
  BY LedgerTypes DEF LedgerTyped
<1>d. ASSUME NEW u \in Trader, pc'[u] = pc[u], todo'[u] = todo[u], sum'[u] = sum[u],
             size'[u] = size[u]
      PROVE  /\ ReadExposure'[u] = ReadExposure[u] /\ SeenExposure[u] <= SeenExposure'[u]
             /\ ReadCount'[u] = ReadCount[u] /\ SeenCount[u] <= SeenCount'[u]
  <2>1. /\ ReadExposure'[u] = ReadExposure[u] /\ SeenExposure[u] = SeenExposure'[u]
        /\ ReadCount'[u] = ReadCount[u] /\ SeenCount[u] = SeenCount'[u]
    BY <1>a, <1>d DEF ReadExposure, SeenExposure, ReadCount, SeenCount
  <2> QED
    BY <1>c, <2>1
\* A task goes on without reading: its sums, if it still reads, are as they were.
<1>1. ASSUME positions' = positions, todo' = todo, sum' = sum,
             \A t \in Exposing' : /\ size'[t] = size[t] /\ t \in Exposing
                                  /\ pc[t] = "exposure" <=> pc'[t] = "exposure"
      PROVE  ExposureLedger'
  <2>1. \A t \in Exposing' : /\ ReadExposure'[t] = ReadExposure[t]
                             /\ SeenExposure[t] <= SeenExposure'[t]
    BY <1>1, <1>a, <1>c DEF ReadExposure, SeenExposure, Exposing
  <2> QED
    BY <1>1, <2>1, ExposureKept
<1>2. ASSUME positions' = positions, todo' = todo, sum' = sum,
             \A t \in Counting' : /\ t \in Counting
                                  /\ pc[t] = "count" <=> pc'[t] = "count"
      PROVE  CountLedger'
  <2>1. \A t \in Counting' : /\ ReadCount'[t] = ReadCount[t]
                             /\ SeenCount[t] <= SeenCount'[t]
    BY <1>2, <1>a, <1>c DEF ReadCount, SeenCount, Counting
  <2> QED
    BY <1>2, <2>1, CountKept
<1>3. ASSUME NEW t \in Trader, NEW k \in Key, NEW s \in Size, CanTrade(t, k, s)
      PROVE  ExposureLedger' /\ CountLedger'
  BY <1>1, <1>2, <1>3 DEF CanTrade, Exposing, Counting
<1>4. ASSUME NEW t \in Trader, CheckSize(t)
      PROVE  ExposureLedger' /\ CountLedger'
  <2>1. CASE pc'[t] = "exposure"
    <3>1. CountLedger'
      <4>1. \A u \in Counting' : u \in Counting /\ u # t
        BY <1>4, <2>1 DEF CheckSize, Counting
      <4>2. \A u \in Counting' : /\ ReadCount'[u] = ReadCount[u]
                                 /\ SeenCount[u] <= SeenCount'[u]
        <5>1. \A u \in Counting' : /\ u \in Trader /\ pc'[u] = pc[u] /\ todo'[u] = todo[u]
                                   /\ sum'[u] = sum[u] /\ size'[u] = size[u]
          BY <1>4, <4>1 DEF CheckSize, Counting
        <5> QED
          BY <1>d, <5>1
      <4> QED
        BY <1>4, <4>1, <4>2, CountKept DEF CheckSize
    <3> QED
      BY <1>4, <2>1, <3>1, ExposureEntered
  <2>2. CASE pc'[t] # "exposure"
    BY <1>1, <1>2, <1>4, <2>2 DEF CheckSize, Exposing, Counting
  <2> QED
    BY <2>1, <2>2
<1>5. ASSUME NEW t \in Trader, NEW k \in Key, ReadEntry(t, k)
      PROVE  ExposureLedger' /\ CountLedger'
  <2>1. CASE pc[t] = "exposure"
    <3>1. \A u \in Counting' : u \in Counting /\ u # t
      BY <1>5, <2>1 DEF ReadEntry, Counting
    <3>2. \A u \in Counting' : /\ ReadCount'[u] = ReadCount[u]
                               /\ SeenCount[u] <= SeenCount'[u]
      <4>1. \A u \in Counting' : /\ u \in Trader /\ pc'[u] = pc[u] /\ todo'[u] = todo[u]
                                 /\ sum'[u] = sum[u] /\ size'[u] = size[u]
        BY <1>5, <3>1 DEF ReadEntry, Counting
      <4> QED
        BY <1>d, <4>1
    <3>3. CountLedger'
      BY <1>5, <3>1, <3>2, CountKept DEF ReadEntry
    <3> QED
      BY <1>5, <2>1, <3>3, ExposureRead
  <2>2. CASE pc[t] = "count"
    <3>1. \A u \in Exposing' : u \in Exposing /\ u \in Trader
      BY <1>5 DEF ReadEntry, Exposing
    <3>2. \A u \in Exposing' : /\ ReadExposure'[u] = ReadExposure[u]
                               /\ SeenExposure[u] <= SeenExposure'[u]
      <4>1. ASSUME NEW u \in Exposing', u # t
            PROVE  /\ ReadExposure'[u] = ReadExposure[u]
                   /\ SeenExposure[u] <= SeenExposure'[u]
        <5>1. /\ u \in Trader /\ pc'[u] = pc[u] /\ todo'[u] = todo[u]
              /\ sum'[u] = sum[u] /\ size'[u] = size[u]
          BY <1>5, <3>1, <4>1 DEF ReadEntry
        <5> QED
          BY <1>d, <5>1
      <4>2. /\ ReadExposure'[t] = ReadExposure[t]
            /\ SeenExposure[t] = SeenExposure'[t]
        BY <1>5, <1>a, <2>2 DEF ReadEntry, ReadExposure, SeenExposure
      <4> QED
        BY <1>c, <4>1, <4>2
    <3>3. ExposureLedger'
      BY <1>5, <3>1, <3>2, ExposureKept DEF ReadEntry
    <3> QED
      BY <1>5, <2>2, <3>3, CountRead
  <2> QED
    BY <1>5, <2>1, <2>2 DEF ReadEntry
<1>6. ASSUME NEW t \in Trader, CheckExposure(t)
      PROVE  ExposureLedger' /\ CountLedger'
  <2>1. CASE pc'[t] = "count"
    <3>1. \A u \in Exposing' : u \in Exposing
      BY <1>6, <2>1 DEF CheckExposure, Exposing
    <3>2. SeenExposure[t] <= SeenExposure'[t] /\ ReadExposure'[t] = ReadExposure[t]
      <4>1. sum[t] + size[t] <= MaxExposure /\ sum[t] \in Nat /\ size[t] \in Nat
        BY <1>6, <1>b, <2>1, LimitsBound DEF CheckExposure, NewExposure
      <4> QED
        BY <1>6, <1>a, <1>b, <2>1, <4>1 DEF CheckExposure, SeenExposure, ReadExposure
    <3>3. \A u \in Exposing' : /\ ReadExposure'[u] = ReadExposure[u]
                               /\ SeenExposure[u] <= SeenExposure'[u]
      <4> SUFFICES ASSUME NEW u \in Exposing', u # t
                   PROVE  /\ ReadExposure'[u] = ReadExposure[u]
                          /\ SeenExposure[u] <= SeenExposure'[u]
        BY <3>2
      <4> QED
        <5>1. /\ u \in Trader /\ pc'[u] = pc[u] /\ todo'[u] = todo[u]
              /\ sum'[u] = sum[u] /\ size'[u] = size[u]
          BY <1>6, <3>1 DEF CheckExposure, Exposing
        <5> QED
          BY <1>d, <5>1
    <3>4. ExposureLedger'
      BY <1>6, <3>1, <3>3, ExposureKept DEF CheckExposure
    <3> QED
      BY <1>6, <2>1, <3>4, CountEntered
  <2>2. CASE pc'[t] # "count"
    BY <1>1, <1>2, <1>6, <2>2 DEF CheckExposure, Exposing, Counting
  <2> QED
    BY <2>1, <2>2
<1>7. ASSUME NEW t \in Trader, CheckOpenPositions(t)
      PROVE  ExposureLedger' /\ CountLedger'
  <2>1. ExposureLedger'
    BY <1>1, <1>7 DEF CheckOpenPositions, Exposing
  <2>2. CASE pc'[t] = "daily"
    <3>1. \A u \in Counting' : u \in Counting
      BY <1>7, <2>2 DEF CheckOpenPositions, Counting
    <3>2. SeenCount[t] <= SeenCount'[t] /\ ReadCount'[t] = ReadCount[t]
      <4>1. sum[t] <= MaxOpen - 1 /\ sum[t] \in Nat
        BY <1>7, <1>b, <2>2, LimitsBound DEF CheckOpenPositions, OpenPositionsReached
      <4> QED
        BY <1>7, <1>a, <1>b, <2>2, <4>1 DEF CheckOpenPositions, SeenCount, ReadCount
    <3>3. \A u \in Counting' : /\ ReadCount'[u] = ReadCount[u]
                               /\ SeenCount[u] <= SeenCount'[u]
      <4> SUFFICES ASSUME NEW u \in Counting', u # t
                   PROVE  /\ ReadCount'[u] = ReadCount[u]
                          /\ SeenCount[u] <= SeenCount'[u]
        BY <3>2
      <4> QED
        <5>1. /\ u \in Trader /\ pc'[u] = pc[u] /\ todo'[u] = todo[u]
              /\ sum'[u] = sum[u] /\ size'[u] = size[u]
          BY <1>7, <3>1 DEF CheckOpenPositions, Counting
        <5> QED
          BY <1>d, <5>1
    <3> QED
      BY <1>7, <2>1, <3>1, <3>3, CountKept DEF CheckOpenPositions
  <2>3. CASE pc'[t] # "daily"
    BY <1>2, <1>7, <2>1, <2>3 DEF CheckOpenPositions, Counting
  <2> QED
    BY <2>2, <2>3
<1>8. ASSUME NEW t \in Trader, CheckDailyLoss(t) \/ CheckDrawdown(t) \/ Trip(t)
      PROVE  ExposureLedger' /\ CountLedger'
  BY <1>1, <1>2, <1>8 DEF CheckDailyLoss, CheckDrawdown, Trip, Exposing, Counting
<1>9. ASSUME NEW t \in Trader, UpdatePosition(t)
      PROVE  ExposureLedger' /\ CountLedger'
  BY <1>9, LedgersAdded
<1>10. ASSUME NEW t \in Trader, NEW k \in Key, RemovePosition(t, k)
       PROVE  ExposureLedger' /\ CountLedger'
  <2>1. /\ \A x \in Key : positions'[x] \in {positions[x], NoPosition}
        /\ \A u \in Exposing' : u \in Exposing /\ pc'[u] = pc[u]
        /\ \A u \in Counting' : u \in Counting /\ pc'[u] = pc[u]
    BY <1>10 DEF RemovePosition, Exposing, Counting
  <2>2. \A u \in Exposing' : /\ ReadExposure'[u] = ReadExposure[u]
                             /\ SeenExposure[u] <= SeenExposure'[u]
    BY <1>10, <1>a, <1>c, <2>1 DEF RemovePosition, ReadExposure, SeenExposure, Exposing
  <2>3. \A u \in Counting' : /\ ReadCount'[u] = ReadCount[u]
                             /\ SeenCount[u] <= SeenCount'[u]
    BY <1>10, <1>a, <1>c, <2>1 DEF RemovePosition, ReadCount, SeenCount, Counting
  <2> QED
    BY <2>1, <2>2, <2>3, ExposureKept, CountKept
<1>11. ASSUME NEW t \in Trader, NEW p \in Profit, RecordTrade(t, p)
       PROVE  ExposureLedger' /\ CountLedger'
  BY <1>1, <1>2, <1>11 DEF RecordTrade, Exposing, Counting
<1>12. ASSUME \/ UpdateLimits \/ TriggerCircuitBreaker \/ ResetCircuitBreaker
              \/ ResetDailyPnl \/ UNCHANGED vars
       PROVE  ExposureLedger' /\ CountLedger'
  <2>1. UNCHANGED <<positions, todo, sum, size, pc>>
    BY <1>12 DEF UpdateLimits, TriggerCircuitBreaker, ResetCircuitBreaker, ResetDailyPnl, vars
  <2> QED
    BY <1>1, <1>2, <2>1 DEF Exposing, Counting
<1> QED
  BY <1>3, <1>4, <1>5, <1>6, <1>7, <1>8, <1>9, <1>10, <1>11, <1>12 DEF Next, Step

\* The number of open positions is the sum of ones.
LEMMA OpenCount == TypeOK => Cardinality(Open) = SumFunctionOnSet(OpenOne, Key)
<1>1. IsFiniteSet(Key) /\ Open \in SUBSET Key
  BY RiskManagerAssumption DEF Open
<1>2. \A k \in Key : OpenOne[k] = IF k \in Open THEN 1 ELSE 0
  BY DEF OpenOne
<1> QED
  BY <1>1, <1>2, SumOnes

\* However many tasks call can_trade at once, and however their readings of the map of
\* positions interleave with what the others open and close: the exposure and the
\* number of open positions pass the loosest limits by at most one trade of each task
\* but one.
THEOREM Overshoot == Spec => []OvershootBounded
<1>1. Init => OvershootInv
  <2> SUFFICES ASSUME Init PROVE OvershootInv
    OBVIOUS
  <2> QED
    BY FS_EmptySet DEF Init, OvershootInv, Open, Exposing
<1>2. TypeOK /\ OvershootInv /\ [Next]_vars => OvershootInv'
  <2> SUFFICES ASSUME TypeOK, OvershootInv, [Next]_vars PROVE OvershootInv'
    OBVIOUS
  <2>1. (callers # {} => ExposureLedger /\ CountLedger)'
    BY LedgersFirst, NextLedgers
  <2> QED
    BY <2>1, NextCallers DEF OvershootInv
<1>3. TypeOK /\ OvershootInv => OvershootBounded
  <2> SUFFICES ASSUME TypeOK, OvershootInv, callers # {}
               PROVE  /\ Exposure <= MaxExposure + Others * MaxSize
                      /\ Cardinality(Open) <= MaxOpen + Others
    BY DEF OvershootBounded, MaxExposure, MaxSize, MaxOpen
  <2>1. ExposureLedger /\ CountLedger
    BY DEF OvershootInv
  <2>2. /\ \A k \in Key : Value[k] \in Int /\ OpenOne[k] \in Int
        /\ MaxExposure \in Int /\ MaxSize \in Nat /\ MaxOpen \in Int /\ 1 \in Nat
    BY LedgerTypes, BoundTypes DEF LedgerTyped
  <2>3. Exposure <= MaxExposure + Others * MaxSize
    BY <2>1, <2>2, InTypes, LedgerBound DEF ExposureLedger, Exposure, Others
  <2>4. SumFunctionOnSet(OpenOne, Key) <= MaxOpen + (Cardinality(callers) - 1) * 1
    BY <2>1, <2>2, InTypes, LedgerBound DEF CountLedger
  <2>5. Cardinality(callers) \in Nat
    BY InTypes
  <2> QED
    BY <2>3, <2>4, <2>5, OpenCount DEF Others
<1>4. Init => TypeOK
  BY InitTypeOK
<1>5. TypeOK /\ [Next]_vars => TypeOK'
  BY NextTypeOK
<1> QED
  BY <1>1, <1>2, <1>3, <1>4, <1>5, PTL DEF Spec
=============================================================================
