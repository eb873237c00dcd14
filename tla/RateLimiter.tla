----------------------------- MODULE RateLimiter -----------------------------
(***************************************************************************)
(* TokenBucketRateLimiter (crates/core/src/deduplication.rs) shared by     *)
(* several tasks. A call reads the clock, refills the bucket under the     *)
(* locks of last_refill and tokens, and then takes the lock of tokens once *)
(* more to acquire, or to read what is available: other calls, and time,   *)
(* pass between these steps.                                               *)
(***************************************************************************)
EXTENDS Integers, FiniteSets

CONSTANTS Client,       \* tasks that call the limiter
          Request,      \* the arguments of try_acquire
          Available,    \* stands for a call of available_tokens
          Capacity,     \* tokens the bucket holds at most
          UnitsPerToken, \* tokens is a float, counted here in parts of a token
          RefillRate,   \* units per unit of time
          MaxInstant    \* bound on the clock

ASSUME RateLimiterAssumption ==
  /\ IsFiniteSet(Client)
  /\ Request \subseteq Nat /\ Available \notin Nat
  /\ Capacity \in Nat /\ RefillRate \in Nat /\ MaxInstant \in Nat
  /\ UnitsPerToken \in Nat \ {0}

VARIABLES instant,      \* Instant::now()
          tokens,       \* units in the bucket
          last_refill,
          progress,     \* progress[t]: where t is in try_acquire or available_tokens
          request,      \* request[t]: the tokens t asks for, or Available
          reading,      \* reading[t]: the time t read before refilling
          window,       \* history: when a window opened, the bucket and the number of
                        \*   calls in progress at that instant
          acquired,     \* history: units granted since
          before,       \* history: tasks that have not returned since from such a call
          full,         \* history: whether a refill has reached the capacity since
          promised      \* history: promised[t], what available_tokens last returned to t,
                        \*   until somebody acquires tokens

bucket == <<tokens, last_refill>>
calls == <<progress, request, reading>>
tally == <<window, acquired, before, full>>
limiterVars == <<instant, bucket, calls, tally, promised>>

\* The capacity in units.
Brim == Capacity * UnitsPerToken

NoPromise == [t \in Client |-> 0]

LimiterInit ==
  /\ instant = 0
  /\ tokens = Brim /\ last_refill = 0
  /\ progress = [t \in Client |-> "idle"]
  /\ request = [t \in Client |-> Available]
  /\ reading = [t \in Client |-> 0]
  /\ window = [start |-> 0, tokens |-> Brim, last_refill |-> 0, calls |-> 0]
  /\ acquired = 0 /\ before = {} /\ full = FALSE
  /\ promised = NoPromise

Advance == /\ instant < MaxInstant
           /\ instant' = instant + 1
           /\ UNCHANGED <<bucket, calls, tally, promised>>

\* Any instant may be the beginning of the window the bounds are stated for.
OpenWindow ==
  /\ before' = {t \in Client : progress[t] # "idle"}
  /\ window' = [start |-> instant, tokens |-> tokens, last_refill |-> last_refill,
                calls |-> Cardinality(before')]
  /\ acquired' = 0 /\ full' = FALSE
  /\ UNCHANGED <<instant, bucket, calls, promised>>

-----------------------------------------------------------------------------
\* try_acquire and available_tokens begin with refill, and refill with the clock.
Call(t, r) ==
  /\ progress[t] = "idle"
  /\ progress' = [progress EXCEPT ![t] = "refill"]
  /\ request' = [request EXCEPT ![t] = r]
  /\ reading' = [reading EXCEPT ![t] = instant]
  /\ UNCHANGED <<instant, bucket, tally, promised>>

\* Faulty variant: no bound.
RefilledForEver(n) == tokens + n * RefillRate

Refilled(n) ==
  IF tokens + n * RefillRate > Brim THEN Brim ELSE tokens + n * RefillRate

\* Faulty variant: also a time before the last refill is noted.
AnyTime(t) == TRUE

\* duration_since is 0 for a time before last_refill.
HasElapsed(t) == reading[t] - last_refill > 0

\* The lock of last_refill is held until it is written.
Refill(t) ==
  /\ progress[t] = "refill"
  /\ progress' = [progress EXCEPT ![t] = "take"]
  /\ IF HasElapsed(t)
     THEN /\ tokens' = Refilled(IF reading[t] > last_refill THEN reading[t] - last_refill ELSE 0)
          /\ last_refill' = reading[t]
          /\ full' = (full \/ tokens' = Brim)
     ELSE UNCHANGED <<bucket, full>>
  /\ UNCHANGED <<instant, request, reading, window, acquired, before, promised>>

Answer(t) == /\ progress[t] = "take"
             /\ progress' = [progress EXCEPT ![t] = "idle"]
             /\ reading' = [reading EXCEPT ![t] = 0]
             /\ request' = [request EXCEPT ![t] = Available]
             /\ before' = before \ {t}
             /\ UNCHANGED <<instant, last_refill, window, full>>

\* try_acquire returns true.
Acquire(t) ==
  /\ Answer(t)
  /\ request[t] # Available
  /\ tokens >= request[t] * UnitsPerToken
  /\ tokens' = tokens - request[t] * UnitsPerToken
  /\ acquired' = acquired + request[t] * UnitsPerToken
  /\ promised' = NoPromise

\* try_acquire returns false.
Deny(t) ==
  /\ Answer(t)
  /\ request[t] # Available
  /\ tokens < request[t] * UnitsPerToken
  /\ UNCHANGED <<tokens, acquired, promised>>

WholeTokens == tokens \div UnitsPerToken

AvailableTokens(t) ==
  /\ Answer(t)
  /\ request[t] = Available
  /\ promised' = [promised EXCEPT ![t] = WholeTokens]
  /\ UNCHANGED <<tokens, acquired>>

-----------------------------------------------------------------------------
LimiterNext ==
  \/ Advance \/ OpenWindow
  \/ \E t \in Client : \/ \E r \in Request \cup {Available} : Call(t, r)
                     \/ Refill(t) \/ Acquire(t) \/ Deny(t) \/ AvailableTokens(t)

LimiterSpec == LimiterInit /\ [][LimiterNext]_limiterVars

-----------------------------------------------------------------------------
(* Properties *)

\* Every variable has its type: the bucket is never overfull and never in debt, and
\* no refill is from the future.
LimiterTypeOK ==
  /\ instant \in Nat
  /\ tokens \in 0..Brim /\ last_refill \in 0..instant
  /\ progress \in [Client -> {"idle", "refill", "take"}]
  /\ request \in [Client -> Request \cup {Available}]
  /\ reading \in [Client -> 0..instant]
  /\ window \in [start : 0..instant, tokens : 0..Brim, last_refill : 0..instant,
                 calls : Nat]
  /\ acquired \in Nat
  /\ before \subseteq Client
  /\ full \in BOOLEAN
  /\ promised \in [Client -> Nat]

\* What is granted from any instant on: the bucket's capacity once, and once more for
\* every call in progress at that instant (which may acquire what was refilled earlier,
\* before the time up to then is credited), and the refill rate from that instant.
\* "Never exceed rate limits" (SAFETY_AND_OPTIMIZATIONS.md:308) is this with no call in
\* progress.
WindowBounded ==
  acquired <= Brim * (1 + window.calls) + RefillRate * (instant - window.start)

\* As long as the bucket has not been full, every unit of time is credited exactly
\* once, whoever refills with whichever reading of the clock.
TimeCreditedOnce ==
  full \/ acquired + tokens = window.tokens + RefillRate * (last_refill - window.last_refill)

\* What available_tokens told a caller can be acquired until somebody acquires.
AvailableIsPromised == \A t \in Client : promised[t] * UnitsPerToken <= tokens
=============================================================================
