-------------------------- MODULE RateLimiter_proofs --------------------------
(***************************************************************************)
(* Proofs about RateLimiter: for any number of tasks, any capacity, rate   *)
(* and sequence of requests.                                               *)
(*                                                                         *)
(* WindowBounded is not inductive: whether a grant comes from what the     *)
(* bucket held when the window opened is told by last_refill. Up to the    *)
(* first refill with a later time, only calls from before the window can   *)
(* acquire, each at most what the bucket holds; from that refill on, what  *)
(* is granted and what is left grow together, at the refill rate.          *)
(***************************************************************************)
EXTENDS RateLimiter, FiniteSetTheorems, TLAPS

\* Calls of before read the clock before the window opened, all others after.
Readings ==
  \A t \in Client : progress[t] # "idle" /\ t \notin before => reading[t] >= window.start

\* The calls of before are in progress.
Before ==
  /\ IsFiniteSet(before) /\ Cardinality(before) <= window.calls
  /\ \A t \in before : progress[t] # "idle"

\* A call that has refilled has credited the time up to its reading.
Taking == \A t \in Client : progress[t] = "take" => reading[t] <= last_refill

\* The bound, split at the first refill with a time in the window.
Bound ==
  /\ last_refill < window.start => acquired <= Brim * (window.calls - Cardinality(before))
  /\ last_refill >= window.start =>
       acquired + tokens <= Brim * (1 + window.calls - Cardinality(before))
                             + RefillRate * (last_refill - window.start)

Order == Readings /\ Taking /\ Before

IInv == LimiterTypeOK /\ Order /\ Bound

-----------------------------------------------------------------------------
\* Type correctness.

\* A full bucket is a natural number.
LEMMA BrimType == Brim \in Nat
BY RateLimiterAssumption DEF Brim

\* Natural numbers are closed under multiplication.
LEMMA ProductNat == \A a, b \in Nat : a * b \in Nat
OBVIOUS

\* The first state has its types.
LEMMA TypeInit == LimiterInit => LimiterTypeOK
<1> SUFFICES ASSUME LimiterInit PROVE LimiterTypeOK
  OBVIOUS
<1>1. Brim \in 0..Brim /\ 0 \in 0..instant
  BY BrimType DEF LimiterInit
<1> QED
  BY <1>1 DEF LimiterInit, LimiterTypeOK, NoPromise

\* Every step keeps the types.
LEMMA TypeStep == LimiterTypeOK /\ [LimiterNext]_limiterVars => LimiterTypeOK'
<1> SUFFICES ASSUME LimiterTypeOK, [LimiterNext]_limiterVars PROVE LimiterTypeOK'
  OBVIOUS
<1> USE BrimType
<1>1. CASE Advance
  BY <1>1, RateLimiterAssumption DEF Advance, LimiterTypeOK, bucket, calls, tally, Brim
<1>2. CASE OpenWindow
  <2>1. before' \subseteq Client
    BY <1>2 DEF OpenWindow
  <2>2. Cardinality(before') \in Nat
    BY <2>1, FS_Subset, FS_CardinalityType, RateLimiterAssumption
  <2>3. window' \in [start : 0..instant, tokens : 0..Brim, last_refill : 0..instant, calls : Nat]
    BY <1>2, <2>2 DEF OpenWindow, LimiterTypeOK
  <2>4. acquired' = 0 /\ full' = FALSE
    BY <1>2 DEF OpenWindow
  <2>5. UNCHANGED <<instant, tokens, last_refill, progress, request, reading, promised, Brim>>
    BY <1>2 DEF OpenWindow, bucket, calls, Brim
  <2> QED
    BY <2>1, <2>3, <2>4, <2>5 DEF LimiterTypeOK
<1>3. ASSUME NEW t \in Client, NEW r \in Request \cup {Available}, Call(t, r) PROVE LimiterTypeOK'
  BY <1>3 DEF Call, LimiterTypeOK, bucket, tally, Brim
<1>4. ASSUME NEW t \in Client, Refill(t) PROVE LimiterTypeOK'
  <2>1. /\ UNCHANGED <<instant, request, reading, window, acquired, before, promised, Brim>>
        /\ progress' \in [Client -> {"idle", "refill", "take"}]
    BY <1>4 DEF Refill, LimiterTypeOK, Brim
  <2>2. tokens' \in 0..Brim /\ last_refill' \in 0..instant /\ full' \in BOOLEAN
    <3>1. CASE HasElapsed(t)
      <4>1. reading[t] - last_refill \in Nat /\ reading[t] > last_refill
        BY <3>1 DEF HasElapsed, LimiterTypeOK
      <4>2. (reading[t] - last_refill) * RefillRate \in Nat
        BY <4>1, ProductNat, RateLimiterAssumption
      <4>3. Refilled(reading[t] - last_refill) \in 0..Brim
        BY <4>2 DEF Refilled, LimiterTypeOK
      <4> QED
        BY <1>4, <3>1, <4>1, <4>3 DEF Refill, LimiterTypeOK
    <3>2. CASE ~HasElapsed(t)
      BY <1>4, <3>2 DEF Refill, LimiterTypeOK, bucket
    <3> QED
      BY <3>1, <3>2
  <2> QED
    BY <2>1, <2>2 DEF LimiterTypeOK
<1>5. ASSUME NEW t \in Client, Answer(t) 
      PROVE  /\ UNCHANGED <<instant, last_refill, window, full, Brim>>
             /\ progress' \in [Client -> {"idle", "refill", "take"}]
             /\ reading' \in [Client -> 0..instant]
             /\ request' \in [Client -> Request \cup {Available}]
             /\ before' \subseteq Client
  BY <1>5 DEF Answer, LimiterTypeOK, Brim
<1>6. ASSUME NEW t \in Client, Acquire(t) PROVE LimiterTypeOK'
  <2>1. request[t] * UnitsPerToken \in Nat
    <3>1. request[t] \in Nat
      BY <1>6, RateLimiterAssumption DEF Acquire, LimiterTypeOK
    <3> QED
      BY <3>1, ProductNat, RateLimiterAssumption
  <2>2. tokens' \in 0..Brim /\ acquired' \in Nat
    BY <1>6, <2>1 DEF Acquire, LimiterTypeOK
  <2>3. promised' \in [Client -> Nat]
    BY <1>6 DEF Acquire, NoPromise
  <2>4. Answer(t)
    BY <1>6 DEF Acquire
  <2> QED
    BY <1>5, <2>2, <2>3, <2>4 DEF LimiterTypeOK
<1>7. ASSUME NEW t \in Client, Deny(t) PROVE LimiterTypeOK'
  BY <1>5, <1>7 DEF Deny, LimiterTypeOK
<1>8. ASSUME NEW t \in Client, AvailableTokens(t) PROVE LimiterTypeOK'
  <2>1. WholeTokens \in Nat
    BY RateLimiterAssumption DEF WholeTokens, LimiterTypeOK
  <2> QED
    BY <1>5, <1>8, <2>1 DEF AvailableTokens, LimiterTypeOK
<1>9. CASE UNCHANGED limiterVars
  BY <1>9 DEF limiterVars, bucket, calls, tally, LimiterTypeOK, Brim
<1> QED
  BY <1>1, <1>2, <1>3, <1>4, <1>6, <1>7, <1>8, <1>9 DEF LimiterNext

\* TypeOK, the type invariant of RateLimiter, holds in every reachable state.
THEOREM TypeCorrect == LimiterSpec => []LimiterTypeOK
BY TypeInit, TypeStep, PTL DEF LimiterSpec

-----------------------------------------------------------------------------
\* Which calls are in progress, and which time they have read.

\* The readings of the clock are in order at first.
LEMMA OrderInit == LimiterInit => Order
BY FS_EmptySet DEF LimiterInit, Order, Readings, Taking, Before

\* What a return does to before.
LEMMA ReturnBefore ==
  ASSUME LimiterTypeOK, Before, NEW t \in Client, Answer(t)
  PROVE  /\ Before'
         /\ Cardinality(before) \in Nat /\ Cardinality(before') \in Nat
         /\ Cardinality(before') <= Cardinality(before)
         /\ t \in before => Cardinality(before') = Cardinality(before) - 1
<1>1. IsFiniteSet(before) /\ before' = before \ {t} /\ window' = window
  BY DEF Before, Answer
<1>2. /\ IsFiniteSet(before')
      /\ Cardinality(before) \in Nat /\ Cardinality(before') \in Nat
      /\ Cardinality(before') = IF t \in before THEN Cardinality(before) - 1
                                                ELSE Cardinality(before)
  BY <1>1, FS_RemoveElement, FS_CardinalityType
<1>3. \A u \in before' : progress'[u] # "idle"
  BY <1>1 DEF Before, Answer, LimiterTypeOK
<1>4. window.calls \in Nat /\ Cardinality(before) <= window.calls
  BY DEF LimiterTypeOK, Before
<1> QED
  BY <1>1, <1>2, <1>3, <1>4 DEF Before

\* Every step keeps the readings of the clock in order.
LEMMA OrderStep == LimiterTypeOK /\ LimiterTypeOK' /\ Order /\ [LimiterNext]_limiterVars => Order'
<1> SUFFICES ASSUME LimiterTypeOK, LimiterTypeOK', Order, [LimiterNext]_limiterVars PROVE Order'
  OBVIOUS
<1>1. CASE Advance
  BY <1>1 DEF Advance, Order, Readings, Taking, Before, bucket, calls, tally
<1>2. CASE OpenWindow
  <2>1. before' \subseteq Client /\ IsFiniteSet(before')
    BY <1>2, FS_Subset, RateLimiterAssumption DEF OpenWindow
  <2>2. Cardinality(before') \in Nat
    BY <2>1, FS_CardinalityType
  <2>3. window'.calls = Cardinality(before')
    BY <1>2 DEF OpenWindow
  <2>4. Readings' /\ Taking'
    BY <1>2 DEF OpenWindow, Order, Readings, Taking, bucket, calls
  <2>5. \A t \in before' : progress'[t] # "idle"
    BY <1>2 DEF OpenWindow, calls
  <2> QED
    BY <2>1, <2>2, <2>3, <2>4, <2>5 DEF Order, Before
<1>3. ASSUME NEW t \in Client, NEW r \in Request \cup {Available}, Call(t, r) PROVE Order'
  <2>1. window.start <= instant
    BY DEF LimiterTypeOK
  <2>2. Readings' /\ Taking'
    BY <1>3, <2>1 DEF Call, LimiterTypeOK, Order, Readings, Taking, bucket, tally
  <2>3. Before'
    BY <1>3 DEF Call, LimiterTypeOK, Order, Before, tally
  <2> QED
    BY <2>2, <2>3 DEF Order
<1>4. ASSUME NEW t \in Client, Refill(t) PROVE Order'
  <2>1. Before'
    BY <1>4 DEF Refill, LimiterTypeOK, Order, Before
  <2>2. Readings'
    BY <1>4 DEF Refill, LimiterTypeOK, Order, Readings
  <2>3. last_refill' \in Int /\ last_refill \in Int /\ last_refill' >= last_refill
           /\ reading[t] <= last_refill'
    BY <1>4 DEF Refill, HasElapsed, LimiterTypeOK, bucket
  <2>4. Taking'
    BY <1>4, <2>3 DEF Refill, LimiterTypeOK, Order, Taking
  <2> QED
    BY <2>1, <2>2, <2>4 DEF Order
<1>5. ASSUME NEW t \in Client, Answer(t) PROVE Order'
  <2>1. Readings' /\ Taking'
    BY <1>5 DEF Answer, LimiterTypeOK, Order, Readings, Taking
  <2>2. Before'
    BY <1>5, ReturnBefore DEF Order
  <2> QED
    BY <2>1, <2>2 DEF Order
<1>6. CASE UNCHANGED limiterVars
  BY <1>6 DEF limiterVars, bucket, calls, tally, Order, Readings, Taking, Before
<1> QED
  BY <1>1, <1>2, <1>3, <1>4, <1>5, <1>6 DEF LimiterNext, Acquire, Deny, AvailableTokens

-----------------------------------------------------------------------------
\* The bound of a window.

\* Multiplication by a natural number keeps the order.
LEMMA ProductMonotone == \A a \in Nat, b, c \in Int : b <= c => a * b <= a * c
OBVIOUS

\* Multiplication distributes over addition.
LEMMA ProductSum == \A a, b, c \in Int : a * (b + c) = a * b + a * c
OBVIOUS

\* No permit has been granted.
LEMMA BoundInit == LimiterInit => Bound
<1> SUFFICES ASSUME LimiterInit PROVE Bound
  OBVIOUS
<1>1. Cardinality(before) = 0
  BY FS_EmptySet DEF LimiterInit
<1> QED
  BY <1>1, BrimType, RateLimiterAssumption DEF LimiterInit, Bound

\* A grant takes a token, and time fills no more than it is worth.
LEMMA BoundStep ==
  LimiterTypeOK /\ LimiterTypeOK' /\ Order /\ Bound /\ [LimiterNext]_limiterVars => Bound'
<1> SUFFICES ASSUME LimiterTypeOK, LimiterTypeOK', Order, Bound, [LimiterNext]_limiterVars PROVE Bound'
  OBVIOUS
<1> DEFINE done == window.calls - Cardinality(before)
<1>0. done \in Nat /\ Cardinality(before) \in Nat
  BY FS_CardinalityType DEF Order, Before, LimiterTypeOK
<1>a. /\ acquired \in Nat /\ tokens \in Nat /\ tokens <= Brim /\ Brim \in Nat
      /\ RefillRate \in Nat /\ last_refill \in Nat /\ window.start \in Nat
  BY BrimType, RateLimiterAssumption DEF LimiterTypeOK
<1>b. 1 + window.calls - Cardinality(before) = 1 + done
  BY <1>0 DEF LimiterTypeOK
<1>1. CASE Advance
  BY <1>1 DEF Advance, Bound, bucket, tally, Brim
<1>2. CASE OpenWindow
  <2>1. before' \subseteq Client
    BY <1>2 DEF OpenWindow
  <2>2. Cardinality(before') \in Nat
    BY <2>1, FS_Subset, FS_CardinalityType, RateLimiterAssumption
  <2>3. /\ window'.calls = Cardinality(before') /\ window'.start = instant
        /\ acquired' = 0 /\ tokens' = tokens /\ last_refill' = last_refill
    BY <1>2 DEF OpenWindow, bucket
  <2>4. instant \in Nat /\ last_refill <= instant
    BY DEF LimiterTypeOK
  <2>5. Brim' = Brim
    BY DEF Brim
  <2>6. window'.calls - Cardinality(before') = 0 /\ 1 + window'.calls - Cardinality(before') = 1
    BY <2>2, <2>3
  <2>7. Brim * 0 = 0 /\ Brim * 1 = Brim
    BY BrimType
  <2>8. last_refill >= instant => RefillRate * (last_refill - instant) = 0
    BY <1>a, <2>4
  <2> QED
    BY <1>a, <2>3, <2>4, <2>5, <2>6, <2>7, <2>8 DEF Bound
<1>3. ASSUME NEW t \in Client, NEW r \in Request \cup {Available}, Call(t, r) PROVE Bound'
  BY <1>3 DEF Call, Bound, bucket, tally, Brim
<1>4. ASSUME NEW t \in Client, Refill(t) PROVE Bound'
  <2>1. CASE ~HasElapsed(t)
    BY <1>4, <2>1 DEF Refill, Bound, bucket, Brim
  <2>2. CASE HasElapsed(t)
    <3>1. /\ UNCHANGED <<window, before, acquired, Brim>>
          /\ last_refill' = reading[t] /\ reading[t] \in Nat /\ last_refill < reading[t]
      BY <1>4, <2>2 DEF Refill, HasElapsed, LimiterTypeOK, Brim
    <3>2. tokens' \in Nat /\ tokens' <= Brim /\ (reading[t] - last_refill) * RefillRate \in Nat
      BY <1>a, <3>1, ProductNat DEF LimiterTypeOK
    <3>3. tokens' <= tokens + (reading[t] - last_refill) * RefillRate
      BY <1>4, <2>2, <1>a, <3>1, <3>2 DEF Refill, Refilled
    <3>4. CASE reading[t] < window.start
      BY <1>a, <3>1, <3>4 DEF Bound
    <3>5. CASE reading[t] >= window.start /\ last_refill < window.start
      <4>1. acquired <= Brim * done
        BY <3>5 DEF Bound
      <4>2. Brim * (1 + done) = Brim + Brim * done /\ Brim * done \in Nat
        BY <1>0, <1>a, ProductSum, ProductNat
      <4>3. RefillRate * (reading[t] - window.start) \in Nat
        BY <1>a, <3>1, <3>5, ProductNat
      <4>4. acquired + tokens' <= Brim * (1 + done) + RefillRate * (reading[t] - window.start)
        BY <1>a, <3>2, <4>1, <4>2, <4>3
      <4> QED
        BY <1>b, <3>1, <3>5, <4>4 DEF Bound
    <3>6. CASE last_refill >= window.start
      <4>1. acquired + tokens <= Brim * (1 + done) + RefillRate * (last_refill - window.start)
        BY <1>b, <3>6 DEF Bound
      <4>2. RefillRate * (reading[t] - window.start)
              = RefillRate * (last_refill - window.start) + (reading[t] - last_refill) * RefillRate
        BY <1>a, <3>1
      <4>3. /\ Brim * (1 + done) \in Int
            /\ RefillRate * (last_refill - window.start) \in Int
        BY <1>0, <1>a
      <4>4. acquired + tokens' <= Brim * (1 + done) + RefillRate * (reading[t] - window.start)
        BY <1>a, <3>2, <3>3, <4>1, <4>2, <4>3
      <4> QED
        BY <1>a, <1>b, <3>1, <3>6, <4>4 DEF Bound
    <3> QED
      BY <1>a, <3>1, <3>4, <3>5, <3>6
  <2> QED
    BY <2>1, <2>2
<1>5. ASSUME NEW t \in Client, Answer(t)
      PROVE  /\ UNCHANGED <<last_refill, window, Brim>>
             /\ 1 + window.calls - Cardinality(before') = 1 + done'
             /\ done \in Nat /\ done' \in Nat /\ done <= done'
             /\ t \in before => done' = done + 1
             /\ Brim * done <= Brim * done' /\ Brim * (1 + done) <= Brim * (1 + done')
             /\ {Brim * done, Brim * done', Brim * (1 + done), Brim * (1 + done')} \subseteq Nat
  <2>1. UNCHANGED <<last_refill, window, Brim>>
    BY <1>5 DEF Answer, Brim
  <2>2. /\ Before'
        /\ Cardinality(before) \in Nat /\ Cardinality(before') \in Nat
        /\ Cardinality(before') <= Cardinality(before)
        /\ t \in before => Cardinality(before') = Cardinality(before) - 1
    BY <1>5, ReturnBefore DEF Order
  <2>3. /\ done \in Nat /\ done' \in Nat /\ done <= done' /\ (t \in before => done' = done + 1)
        /\ 1 + window.calls - Cardinality(before') = 1 + done'
    BY <2>1, <2>2, <1>0 DEF LimiterTypeOK, Before
  <2>4. \A d, e \in Nat : d <= e => /\ Brim * d <= Brim * e
                                   /\ Brim * (1 + d) <= Brim * (1 + e)
                                   /\ {Brim * d, Brim * e, Brim * (1 + d), Brim * (1 + e)} \subseteq Nat
    BY <1>a, ProductMonotone, ProductNat
  <2>5. /\ Brim * done <= Brim * done' /\ Brim * (1 + done) <= Brim * (1 + done')
        /\ {Brim * done, Brim * done', Brim * (1 + done), Brim * (1 + done')} \subseteq Nat
    BY <2>3, <2>4
  <2> QED
    BY <2>1, <2>3, <2>5
<1>6. ASSUME NEW t \in Client, Answer(t), acquired' + tokens' = acquired + tokens,
             last_refill >= window.start
      PROVE  Bound'
  <2>1. RefillRate * (last_refill - window.start) \in Nat
    BY <1>a, <1>6, ProductNat
  <2>2. acquired + tokens <= Brim * (1 + done) + RefillRate * (last_refill - window.start)
    BY <1>b, <1>6 DEF Bound
  <2>3. acquired' + tokens' <= Brim * (1 + done') + RefillRate * (last_refill - window.start)
    BY <1>5, <1>a, <1>6, <2>1, <2>2
  <2> QED
    BY <1>5, <1>a, <1>6, <2>3 DEF Bound
<1>7. ASSUME NEW t \in Client, Answer(t), acquired' = acquired, tokens' = tokens PROVE Bound'
  <2>1. CASE last_refill >= window.start
    BY <1>a, <1>6, <1>7, <2>1
  <2>2. CASE last_refill < window.start
    <3>1. acquired <= Brim * done
      BY <2>2 DEF Bound
    <3>2. acquired' <= Brim * done'
      BY <1>5, <1>a, <1>7, <3>1
    <3> QED
      BY <1>5, <1>a, <1>7, <2>2, <3>2 DEF Bound
  <2> QED
    BY <1>a, <2>1, <2>2
<1>8. ASSUME NEW t \in Client, Acquire(t) PROVE Bound'
  <2>1. Answer(t) /\ request[t] \in Nat
    BY <1>8, RateLimiterAssumption DEF Acquire, LimiterTypeOK
  <2>2. request[t] * UnitsPerToken \in Nat
    BY <2>1, ProductNat, RateLimiterAssumption
  <2>3. acquired' + tokens' = acquired + tokens /\ acquired' <= acquired + tokens /\ acquired' \in Nat
    BY <1>8, <2>2, <1>a DEF Acquire
  <2>4. CASE last_refill >= window.start
    BY <1>6, <2>1, <2>3, <2>4
  <2>5. CASE last_refill < window.start
    <3>1. t \in before
      <4>1. progress[t] = "take" /\ reading[t] <= last_refill
        BY <2>1 DEF Answer, Order, Taking
      <4>2. reading[t] \in Nat
        BY DEF LimiterTypeOK
      <4> QED
        BY <1>a, <2>5, <4>1, <4>2 DEF Order, Readings
    <3>2. acquired <= Brim * done
      BY <2>5 DEF Bound
    <3>3. Brim * done' = Brim * done + Brim
      <4>1. done' = done + 1 /\ done \in Nat
        BY <1>5, <2>1, <3>1
      <4> HIDE DEF done
      <4> QED
        BY <4>1, <1>a, ProductSum
    <3>4. acquired' <= Brim * done'
      BY <1>a, <1>5, <2>1, <2>3, <3>2, <3>3
    <3> QED
      BY <1>5, <1>a, <2>1, <2>5, <3>4 DEF Bound
  <2> QED
    BY <1>a, <2>4, <2>5
<1>9. ASSUME NEW t \in Client, Deny(t) \/ AvailableTokens(t) PROVE Bound'
  BY <1>9, <1>7 DEF Deny, AvailableTokens
<1>10. CASE UNCHANGED limiterVars
  BY <1>10 DEF limiterVars, bucket, tally, Bound, Brim
<1> QED
  BY <1>1, <1>2, <1>3, <1>4, <1>8, <1>9, <1>10 DEF LimiterNext

\* The invariant bounds the permits of every window.
LEMMA BoundSuffices == IInv => WindowBounded
<1> SUFFICES ASSUME IInv PROVE WindowBounded
  OBVIOUS
<1>1. /\ acquired \in Nat /\ tokens \in Nat /\ Brim \in Nat /\ RefillRate \in Nat
      /\ last_refill \in Nat /\ window.start \in Nat /\ window.calls \in Nat
      /\ instant \in Nat /\ last_refill <= instant /\ window.start <= instant
      /\ Cardinality(before) \in Nat /\ Cardinality(before) <= window.calls
  BY BrimType, RateLimiterAssumption, FS_CardinalityType DEF IInv, LimiterTypeOK, Order, Before
<1>2. /\ Brim * (window.calls - Cardinality(before)) <= Brim * (1 + window.calls)
      /\ Brim * (1 + window.calls - Cardinality(before)) <= Brim * (1 + window.calls)
      /\ RefillRate * (last_refill - window.start) <= RefillRate * (instant - window.start)
  BY <1>1, ProductMonotone
<1>3. /\ Brim * (window.calls - Cardinality(before)) \in Int
      /\ Brim * (1 + window.calls - Cardinality(before)) \in Int
      /\ Brim * (1 + window.calls) \in Int
      /\ RefillRate * (last_refill - window.start) \in Int
      /\ RefillRate * (instant - window.start) \in Nat
  BY <1>1, ProductNat
<1>4. CASE last_refill < window.start
  <2>1. acquired <= Brim * (window.calls - Cardinality(before))
    BY <1>4 DEF IInv, Bound
  <2> QED
    BY <1>1, <1>2, <1>3, <2>1 DEF WindowBounded
<1>5. CASE last_refill >= window.start
  <2>1. acquired + tokens <= Brim * (1 + window.calls - Cardinality(before))
                              + RefillRate * (last_refill - window.start)
    BY <1>5 DEF IInv, Bound
  <2> QED
    BY <1>1, <1>2, <1>3, <2>1 DEF WindowBounded
<1> QED
  BY <1>1, <1>4, <1>5

\* WindowBounded: from any instant on, try_acquire grants no more than the capacity,
\* once more for every call in progress at that instant, and what is refilled since.
THEOREM WindowsBounded == LimiterSpec => []WindowBounded
<1>1. LimiterInit => IInv
  BY TypeInit, OrderInit, BoundInit DEF IInv
<1>2. IInv /\ [LimiterNext]_limiterVars => IInv'
  BY TypeStep, OrderStep, BoundStep DEF IInv
<1> QED
  BY <1>1, <1>2, BoundSuffices, PTL DEF LimiterSpec

-----------------------------------------------------------------------------
\* What is credited, and what available_tokens promises.

\* Every step credits time once.
LEMMA CreditedStep ==
  LimiterTypeOK /\ LimiterTypeOK' /\ TimeCreditedOnce /\ [LimiterNext]_limiterVars => TimeCreditedOnce'
<1> SUFFICES ASSUME LimiterTypeOK, LimiterTypeOK', TimeCreditedOnce, [LimiterNext]_limiterVars PROVE TimeCreditedOnce'
  OBVIOUS
<1>a. /\ tokens \in Nat /\ acquired \in Nat /\ RefillRate \in Nat
      /\ last_refill \in Nat /\ window.last_refill \in Nat /\ window.tokens \in Nat
  BY BrimType, RateLimiterAssumption DEF LimiterTypeOK
<1>1. CASE Advance
  BY <1>1 DEF Advance, TimeCreditedOnce, bucket, tally
<1>2. CASE OpenWindow
  BY <1>a, <1>2 DEF OpenWindow, TimeCreditedOnce, bucket
<1>3. ASSUME NEW t \in Client, NEW r \in Request \cup {Available}, Call(t, r)
      PROVE  TimeCreditedOnce'
  BY <1>3 DEF Call, TimeCreditedOnce, bucket, tally
<1>4. ASSUME NEW t \in Client, Refill(t) PROVE TimeCreditedOnce'
  <2>1. CASE HasElapsed(t) /\ ~full'
    <3>1. /\ UNCHANGED <<window, acquired>> /\ ~full
          /\ last_refill' = reading[t] /\ reading[t] \in Nat /\ last_refill < reading[t]
      BY <1>4, <2>1 DEF Refill, HasElapsed, LimiterTypeOK
    <3>2. tokens' = tokens + (reading[t] - last_refill) * RefillRate
      BY <1>4, <2>1, <1>a, <3>1 DEF Refill, Refilled
    <3>3. RefillRate * (reading[t] - window.last_refill)
            = RefillRate * (last_refill - window.last_refill) + (reading[t] - last_refill) * RefillRate
      BY <1>a, <3>1
    <3>4. acquired + tokens
            = window.tokens + RefillRate * (last_refill - window.last_refill)
      BY <3>1 DEF TimeCreditedOnce
    <3>5. /\ RefillRate * (last_refill - window.last_refill) \in Int
          /\ (reading[t] - last_refill) * RefillRate \in Int
      BY <1>a, <3>1
    <3>6. acquired + tokens'
            = window.tokens + RefillRate * (reading[t] - window.last_refill)
      BY ONLY <1>a, <3>2, <3>3, <3>4, <3>5
    <3> QED
      BY <3>1, <3>6 DEF TimeCreditedOnce
  <2>2. CASE ~HasElapsed(t)
    BY <1>4, <2>2 DEF Refill, TimeCreditedOnce, bucket
  <2>3. CASE full'
    BY <2>3 DEF TimeCreditedOnce
  <2> QED
    BY <2>1, <2>2, <2>3
<1>5. ASSUME NEW t \in Client, Acquire(t) PROVE TimeCreditedOnce'
  <2>1. request[t] * UnitsPerToken \in Nat
    <3>1. request[t] \in Nat
      BY <1>5, RateLimiterAssumption DEF Acquire, LimiterTypeOK
    <3> QED
      BY <3>1, ProductNat, RateLimiterAssumption
  <2>2. acquired' + tokens' = acquired + tokens
    BY <1>a, <1>5, <2>1 DEF Acquire
  <2> QED
    BY <1>5, <2>2 DEF Acquire, Answer, TimeCreditedOnce
<1>6. ASSUME NEW t \in Client, Deny(t) \/ AvailableTokens(t) PROVE TimeCreditedOnce'
  BY <1>6 DEF Deny, AvailableTokens, Answer, TimeCreditedOnce
<1>7. CASE UNCHANGED limiterVars
  BY <1>7 DEF limiterVars, bucket, tally, TimeCreditedOnce
<1> QED
  BY <1>1, <1>2, <1>3, <1>4, <1>5, <1>6, <1>7 DEF LimiterNext

\* TimeCreditedOnce: until the bucket is full, refill credits every unit of time once.
THEOREM CreditedOnce == LimiterSpec => []TimeCreditedOnce
<1>1. LimiterInit => TimeCreditedOnce
  BY BrimType, RateLimiterAssumption DEF LimiterInit, TimeCreditedOnce
<1> QED
  BY <1>1, TypeInit, TypeStep, CreditedStep, PTL DEF LimiterSpec

\* Division rounds down.
LEMMA FloorBound == \A a \in Nat, b \in Nat \ {0} : (a \div b) * b <= a
OBVIOUS

\* Every step keeps available_tokens' answers true.
LEMMA PromisedStep ==
  LimiterTypeOK /\ LimiterTypeOK' /\ AvailableIsPromised /\ [LimiterNext]_limiterVars => AvailableIsPromised'
<1> SUFFICES ASSUME LimiterTypeOK, LimiterTypeOK', AvailableIsPromised, [LimiterNext]_limiterVars,
                    NEW u \in Client
             PROVE  promised'[u] * UnitsPerToken <= tokens'
  BY DEF AvailableIsPromised
<1>a. /\ tokens \in Nat /\ tokens' \in Nat /\ UnitsPerToken \in Nat \ {0}
      /\ promised[u] \in Nat /\ promised[u] * UnitsPerToken \in Nat /\ promised[u] * UnitsPerToken <= tokens
  BY BrimType, ProductNat, RateLimiterAssumption DEF LimiterTypeOK, AvailableIsPromised
<1>1. ASSUME NEW t \in Client, Refill(t) PROVE promised'[u] * UnitsPerToken <= tokens'
  <2>1. tokens <= tokens'
    <3>1. CASE HasElapsed(t)
      <4>1. reading[t] - last_refill \in Nat /\ reading[t] > last_refill
        BY <3>1 DEF HasElapsed, LimiterTypeOK
      <4>2. (reading[t] - last_refill) * RefillRate \in Nat /\ tokens <= Brim
        BY <4>1, ProductNat, RateLimiterAssumption DEF LimiterTypeOK
      <4> QED
        BY <1>1, <1>a, BrimType, <3>1, <4>1, <4>2 DEF Refill, Refilled
    <3>2. CASE ~HasElapsed(t)
      BY <1>1, <1>a, <3>2 DEF Refill, bucket
    <3> QED
      BY <3>1, <3>2
  <2> QED
    BY <1>1, <1>a, <2>1 DEF Refill
<1>2. ASSUME NEW t \in Client, Acquire(t) PROVE promised'[u] * UnitsPerToken <= tokens'
  BY <1>2, <1>a DEF Acquire, NoPromise
<1>3. ASSUME NEW t \in Client, AvailableTokens(t) PROVE promised'[u] * UnitsPerToken <= tokens'
  <2>1. promised'[u] \in {promised[u], WholeTokens} /\ tokens' = tokens
    BY <1>3 DEF AvailableTokens, LimiterTypeOK
  <2>2. WholeTokens * UnitsPerToken <= tokens
    BY <1>a, FloorBound DEF WholeTokens
  <2> QED
    BY <1>a, <2>1, <2>2
<1>4. ASSUME UNCHANGED <<tokens, promised>> PROVE promised'[u] * UnitsPerToken <= tokens'
  BY <1>4, <1>a
<1> QED
  BY <1>1, <1>2, <1>3, <1>4
     DEF LimiterNext, Advance, OpenWindow, Call, Deny, limiterVars, bucket

\* AvailableIsPromised: what available_tokens returned is there until somebody acquires.
THEOREM PromisesKept == LimiterSpec => []AvailableIsPromised
<1>1. LimiterInit => AvailableIsPromised
  BY BrimType, RateLimiterAssumption DEF LimiterInit, AvailableIsPromised, NoPromise
<1> QED
  BY <1>1, TypeInit, TypeStep, PromisedStep, PTL DEF LimiterSpec
=============================================================================
