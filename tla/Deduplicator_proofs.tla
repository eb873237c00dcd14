-------------------------- MODULE Deduplicator_proofs --------------------------
(***************************************************************************)
(* Proofs about Deduplicator, for every set of callers, fingerprints and   *)
(* shards, every cooldown and every cache size.                            *)
(***************************************************************************)
EXTENDS Deduplicator, TLAPS

-----------------------------------------------------------------------------
(* The inductive invariant *)

\* A mark is the last grant, nobody's instant and no grant is in the future, and a
\* grant whose mark was cleaned up is two cooldowns old.
MarksAreGrants == \A f \in Fingerprint : seen[f] \in {Never, granted[f]}
InstantsPast == \A c \in Caller : now[c] <= clock
GrantsPast ==
  \A f \in Fingerprint :
    /\ granted[f] <= clock
    /\ seen[f] = Never /\ granted[f] # Never => clock - granted[f] > 2 * Cooldown

\* A caller whose call nobody overlaps with: only it is calling, what holds of the
\* clock holds of its instant, and an entry it found missing stays so.
Alone(c) == c \in Calling /\ c \notin overlapped
AloneIsExact ==
  \A c \in Caller : Alone(c) =>
    /\ Calling = {c}
    /\ pc[c] # "clear" =>
         \A f \in Fingerprint : seen[f] = Never /\ granted[f] # Never =>
                                  now[c] - granted[f] > 2 * Cooldown
    /\ pc[c] = "insert" => seen[fp[c]] = Never

IInv == TypeOK /\ MarksAreGrants /\ InstantsPast /\ GrantsPast /\ AloneIsExact

\* The cache starts empty.
LEMMA InitIInv == Init => IInv
BY DeduplicatorAssumption
   DEF Init, IInv, TypeOK, MarksAreGrants, InstantsPast, GrantsPast, AloneIsExact, Alone,
       Calling, Time, Never, Places

\* The types and what is known of marks, instants and grants are preserved by every
\* step, whoever takes it.
LEMMA NextTimes ==
  IInv /\ [Next]_vars => TypeOK' /\ MarksAreGrants' /\ InstantsPast' /\ GrantsPast'
<1> DEFINE Times == TypeOK /\ MarksAreGrants /\ InstantsPast /\ GrantsPast
<1> SUFFICES ASSUME IInv, [Next]_vars PROVE Times'
  OBVIOUS
<1> USE DeduplicatorAssumption
    DEF IInv, TypeOK, MarksAreGrants, InstantsPast, GrantsPast, Time, Never
<1>1. CASE Tick
  <2>1. /\ clock' = clock + 1 /\ clock' \in 0..MaxTime /\ clock \in Int
        /\ UNCHANGED <<seen, now, granted>>
    BY <1>1 DEF Tick
  <2>2. ASSUME NEW f \in Fingerprint
        PROVE  /\ granted[f] <= clock'
               /\ seen[f] = Never /\ granted[f] # Never => clock' - granted[f] > 2 * Cooldown
    <3>1. granted[f] \in Int /\ clock \in Int /\ Cooldown \in Nat
      OBVIOUS
    <3>2. /\ granted[f] <= clock
          /\ seen[f] = Never /\ granted[f] # Never => clock - granted[f] > 2 * Cooldown
      BY DEF GrantsPast
    <3>3. clock' = clock + 1
      BY <2>1
    <3> QED BY ONLY <3>1, <3>2, <3>3
  <2>3. GrantsPast'
    BY <2>1, <2>2
  <2>4. InstantsPast'
    BY <2>1
  <2> QED BY <1>1, <2>1, <2>3, <2>4 DEF Tick
<1>2. ASSUME NEW c \in Caller, NEW f \in Fingerprint, Check(c, f) PROVE Times'
  BY <1>2 DEF Check, Begin, Calling, Places
<1>3. ASSUME NEW c \in Caller, CheckSize(c) PROVE Times'
  BY <1>3 DEF CheckSize, Places
<1>4. ASSUME NEW c \in Caller, NEW s \in Shard, CleanupShard(c, s) PROVE Times'
  <2>1. /\ UNCHANGED <<clock, granted>>
        /\ \A f \in Fingerprint : \/ seen'[f] = seen[f]
                                  \/ seen'[f] = Never /\ seen[f] # Never /\ ~Retained(c, f)
    BY <1>4 DEF CleanupShard
  <2>2. ASSUME NEW f \in Fingerprint, seen'[f] = Never, seen[f] # Never, ~Retained(c, f)
        PROVE  clock - granted[f] > 2 * Cooldown
    BY <2>2 DEF Retained, Elapsed
  <2>3. GrantsPast'
    BY <2>1, <2>2
  <2>4. (TypeOK /\ MarksAreGrants /\ InstantsPast)'
    BY <1>4 DEF CleanupShard
  <2> QED BY <2>3, <2>4
<1>5. ASSUME NEW c \in Caller, CleanupDone(c) \/ ClearDone(c) PROVE Times'
  BY <1>5 DEF CleanupDone, ClearDone, Places
<1>6. ASSUME NEW c \in Caller, Get(c) PROVE Times'
  BY <1>6 DEF Get, Places
<1>7. ASSUME NEW c \in Caller, Insert(c) PROVE Times'
  BY <1>7 DEF Insert, Mark, Places
<1>8. ASSUME NEW c \in Caller, Clear(c) PROVE Times'
  BY <1>8 DEF Clear, Begin, Calling, Places
<1>9. ASSUME NEW c \in Caller, NEW s \in Shard, ClearShard(c, s) PROVE Times'
  BY <1>9 DEF ClearShard
<1>10. CASE UNCHANGED vars
  BY <1>10 DEF vars
<1> QED BY <1>1, <1>2, <1>3, <1>4, <1>5, <1>6, <1>7, <1>8, <1>9, <1>10 DEF Next, Step

\* What a caller relies on as long as nobody overlaps with it.
Exact(c) ==
  /\ Calling = {c}
  /\ pc[c] # "clear" =>
       \A f \in Fingerprint : seen[f] = Never /\ granted[f] # Never =>
                                now[c] - granted[f] > 2 * Cooldown
  /\ pc[c] = "insert" => seen[fp[c]] = Never

\* A call that begins while nobody is calling can rely on it.
LEMMA BeginAlone ==
  ASSUME IInv, NEW c \in Caller, NEW d \in Caller,
         Clear(d) \/ \E f \in Fingerprint : Check(d, f),
         Alone(c)'
  PROVE  Exact(c)'
<1> USE DeduplicatorAssumption DEF IInv, TypeOK
<1>1. /\ Begin(d) /\ pc[d] = "idle" /\ UNCHANGED <<clock, seen, granted>>
      /\ \A e \in Caller \ {d} : pc'[e] = pc[e]
      /\ pc'[d] \in {"size", "clear"}
  BY DEF Check, Clear
<1>2. d = c /\ Calling = {}
  <2>1. c \in Calling \/ c = d
    BY <1>1 DEF Alone, Calling
  <2>2. c \notin overlapped'
    BY DEF Alone
  <2> QED BY <1>1, <2>1, <2>2 DEF Begin
<1>3. Calling' = {c}
  BY <1>1, <1>2 DEF Calling
<1>4. CASE Clear(d)
  BY <1>2, <1>3, <1>4 DEF Clear, Exact
<1>5. ASSUME NEW f \in Fingerprint, Check(d, f) PROVE Exact(c)'
  <2>1. now'[c] = clock /\ pc'[c] = "size"
    BY <1>2, <1>5 DEF Check
  <2>2. ASSUME NEW g \in Fingerprint, seen'[g] = Never, granted'[g] # Never
        PROVE  now'[c] - granted'[g] > 2 * Cooldown
    <3>1. clock - granted[g] > 2 * Cooldown
      BY <1>1, <2>2 DEF GrantsPast
    <3> QED BY <1>1, <2>1, <3>1
  <2> QED BY <1>3, <2>1, <2>2 DEF Exact
<1> QED BY <1>4, <1>5

\* Every step of the only call under way keeps it.
LEMMA StepAlone ==
  ASSUME IInv, NEW c \in Caller, NEW d \in Caller, Step(d), Alone(c)'
  PROVE  Exact(c)'
<1> USE DeduplicatorAssumption DEF IInv, TypeOK
<1>1. /\ pc[d] # "idle" /\ UNCHANGED <<overlapped, now, fp>>
      /\ \A e \in Caller \ {d} : pc'[e] = pc[e]
  BY DEF Step, CheckSize, CleanupShard, CleanupDone, Get, Insert, ClearShard, ClearDone
<1>2. Alone(c) /\ Exact(c) /\ d = c /\ pc'[c] # "idle" /\ Calling' = {c}
  <2>1. c \in Calling /\ pc'[c] # "idle" /\ c \notin overlapped
    BY <1>1 DEF Alone, Calling
  <2>2. Exact(c)
    BY <2>1 DEF Alone, AloneIsExact, Exact
  <2>3. d = c
    BY <1>1, <2>2 DEF Exact, Calling
  <2>4. Calling' = {c}
    BY <1>1, <2>1, <2>2, <2>3 DEF Exact, Calling
  <2> QED BY <2>1, <2>2, <2>3, <2>4 DEF Alone
<1>3. CASE CheckSize(c)
  BY <1>2, <1>3 DEF CheckSize, Exact
<1>4. ASSUME NEW s \in Shard, CleanupShard(c, s) PROVE Exact(c)'
  <2>1. /\ pc[c] = "cleanup" /\ pc' = pc /\ UNCHANGED <<now, granted>>
        /\ \A f \in Fingerprint : \/ seen'[f] = seen[f]
                                  \/ seen'[f] = Never /\ seen[f] # Never /\ ~Retained(c, f)
    BY <1>4 DEF CleanupShard
  <2>2. ASSUME NEW f \in Fingerprint, seen'[f] = Never, granted'[f] # Never
        PROVE  now'[c] - granted'[f] > 2 * Cooldown
    <3>1. CASE seen[f] = Never
      BY <1>2, <2>1, <2>2, <3>1 DEF Exact
    <3>2. CASE seen[f] # Never /\ ~Retained(c, f)
      BY <2>1, <3>2 DEF Retained, Elapsed, MarksAreGrants, Time, Never
    <3> QED BY <2>1, <2>2, <3>1, <3>2
  <2> QED BY <1>2, <2>1, <2>2 DEF Exact
<1>5. CASE CleanupDone(c)
  BY <1>2, <1>5 DEF CleanupDone, Exact
<1>6. CASE Get(c)
  BY <1>2, <1>6 DEF Get, Exact
<1>7. CASE Insert(c) \/ ClearDone(c)
  BY <1>2, <1>7 DEF Insert, Mark, ClearDone
<1>8. ASSUME NEW s \in Shard, ClearShard(c, s) PROVE Exact(c)'
  BY <1>2, <1>8 DEF ClearShard, Exact
<1> QED BY <1>2, <1>3, <1>4, <1>5, <1>6, <1>7, <1>8 DEF Step

\* The invariant is preserved by every step.
LEMMA NextIInv == IInv /\ [Next]_vars => IInv'
<1> SUFFICES ASSUME IInv, [Next]_vars PROVE IInv'
  OBVIOUS
<1>1. ASSUME NEW c \in Caller, Alone(c)' PROVE Exact(c)'
  <2>1. CASE Tick \/ UNCHANGED vars
    BY <1>1, <2>1 DEF Tick, vars, IInv, AloneIsExact, Alone, Calling, Exact
  <2> QED BY <1>1, <2>1, BeginAlone, StepAlone DEF Next
<1>2. AloneIsExact'
  BY <1>1 DEF AloneIsExact, Exact
<1> QED BY <1>2, NextTimes DEF IInv

\* The invariant holds of every behaviour.
LEMMA SpecIInv == Spec => []IInv
BY InitIInv, NextIInv, PTL DEF Spec

-----------------------------------------------------------------------------
(* Theorems *)

\* Every variable keeps its type.
THEOREM TypeCorrect == Spec => []TypeOK
BY SpecIInv, PTL DEF IInv

\* No race makes a mark disappear before two cooldowns are over, or leaves one that
\* nobody was granted.
THEOREM MarksOutlive == Spec => MarksOutliveCooldown
<1> DEFINE Kept(f) == /\ seen'[f] \in {Never, granted'[f]}
                      /\ seen[f] # Never /\ seen'[f] = Never /\ granted'[f] # Never =>
                            clock - seen[f] > 2 * Cooldown
<1>1. IInv /\ IInv' /\ [Next]_vars => [\A f \in Fingerprint : Kept(f)]_vars
  <2> SUFFICES ASSUME IInv, IInv', [Next]_vars, NEW f \in Fingerprint,
                      seen[f] # Never, seen'[f] = Never, granted'[f] # Never
               PROVE  clock - seen[f] > 2 * Cooldown
    BY DEF IInv, MarksAreGrants
  <2> USE DEF IInv, TypeOK
  <2>1. ~\E c \in Caller : Insert(c)
    <3> SUFFICES ASSUME NEW c \in Caller, Insert(c) PROVE FALSE
      OBVIOUS
    <3>1. seen'[f] \in {seen[f], now[c]}
      BY DEF Insert, Mark
    <3> QED BY <3>1, DeduplicatorAssumption DEF Time, Never
  <2>2. ~\E c \in Caller, s \in Shard : ClearShard(c, s)
    BY DEF ClearShard, Never, Time
  <2>3. PICK c \in Caller, s \in Shard : CleanupShard(c, s)
    BY <2>1, <2>2 DEF Next, Step, vars, Tick, Check, CheckSize, CleanupDone, Get, Clear, ClearDone
  <2>4. ~Retained(c, f)
    BY <2>3 DEF CleanupShard
  <2>5. now[c] \in Int /\ clock \in Int /\ seen[f] \in Int /\ Cooldown \in Nat /\ now[c] <= clock
    BY DeduplicatorAssumption DEF Time, Never, InstantsPast
  <2> QED BY <2>4, <2>5 DEF Retained, Elapsed
<1> QED BY <1>1, SpecIInv, PTL DEF Spec, MarksOutliveCooldown

\* However many callers race: a check is refused only within a cooldown of a grant,
\* and a check that runs alone is granted only outside. Cached marks, the cleanup of
\* old entries and a clear that proceeds shard by shard are invisible.
THEOREM ImplementsGate == Spec => RefinesGate
<1>1. Init => Gate!Init
  <2> SUFFICES ASSUME Init PROVE Gate!Init
    OBVIOUS
  <2>1. Calling = {}
    BY DEF Init, Calling
  <2>2. fp \in [Caller -> Fingerprint] /\ now \in [Caller -> Time]
    BY DeduplicatorAssumption DEF Init, Time
  <2> QED BY <2>1, <2>2 DEF Init, Gate!Init, Never, Gate!Never
<1>2. IInv /\ [Next]_vars => [Gate!Next]_(Gate!vars)
  <2> SUFFICES ASSUME IInv, [Next]_vars PROVE [Gate!Next]_(Gate!vars)
    OBVIOUS
  <2> USE DEF IInv, TypeOK
  <2>1. CASE Tick \/ UNCHANGED vars
    BY <2>1 DEF Tick, vars, Gate!vars, Calling, Gate!calls
  <2>2. ASSUME NEW c \in Caller, Clear(c) \/ \E f \in Fingerprint : Check(c, f)
        PROVE  Gate!Next
    <3>1. /\ c \notin Calling /\ Calling' = Calling \cup {c}
      BY <2>2 DEF Check, Clear, Calling
    <3>2. \E f \in Fingerprint, t \in Time : /\ fp' = [fp EXCEPT ![c] = f]
                                            /\ now' = [now EXCEPT ![c] = t]
      <4>1. CASE Clear(c)
        <5>1. /\ fp' = [fp EXCEPT ![c] = fp[c]] /\ now' = [now EXCEPT ![c] = now[c]]
              /\ fp[c] \in Fingerprint /\ now[c] \in Time
          BY <4>1 DEF Clear
        <5> QED BY <5>1
      <4>2. CASE \E f \in Fingerprint : Check(c, f)
        BY <4>2 DEF Check
      <4> QED BY <2>2, <4>1, <4>2
    <3>3. Gate!Begin(c)
      BY <2>2, <3>1, <3>2 DEF Check, Clear, Begin, Gate!Begin
    <3> QED BY <3>3 DEF Gate!Next
  <2>3. ASSUME NEW c \in Caller,
               CheckSize(c) \/ CleanupDone(c) \/ \E s \in Shard : CleanupShard(c, s)
        PROVE  UNCHANGED Gate!vars
    <3>1. Calling' = Calling
      BY <2>3 DEF CheckSize, CleanupDone, CleanupShard, Calling
    <3> QED BY <2>3, <3>1 DEF CheckSize, CleanupDone, CleanupShard, Gate!vars, Gate!calls
  <2>4. ASSUME NEW c \in Caller, Get(c), ~InCooldown(c)
        PROVE  UNCHANGED Gate!vars
    <3>1. Calling' = Calling
      BY <2>4 DEF Get, Calling
    <3> QED BY <2>4, <3>1 DEF Get, Gate!vars, Gate!calls
  <2>5. ASSUME NEW c \in Caller, Get(c), InCooldown(c)
        PROVE  Gate!Next
    <3>1. /\ verdict' = [verdict EXCEPT ![c] = "duplicate"] /\ UNCHANGED <<granted, overlapped>>
          /\ c \in Calling /\ Calling' = Calling \ {c} /\ UNCHANGED <<fp, now>>
      BY <2>5 DEF Get, Calling
    <3>2. /\ fp[c] \in Fingerprint /\ now[c] \in Time
          /\ seen[fp[c]] # Never /\ seen[fp[c]] = granted[fp[c]]
      BY <2>5 DEF InCooldown, MarksAreGrants
    <3>3. now[c] \in Int /\ seen[fp[c]] \in Int /\ Cooldown \in Nat
      BY <3>2, DeduplicatorAssumption DEF Time, Never
    <3>4. now[c] - granted[fp[c]] <= Cooldown
      BY <2>5, <3>2, <3>3 DEF InCooldown, Elapsed
    <3>5. ~Gate!CooledDown(fp[c], now[c])
      BY <3>2, <3>3, <3>4 DEF Gate!CooledDown, Never, Gate!Never
    <3>6. Gate!Refuse(c)
      BY <3>1, <3>5 DEF Gate!Refuse, Gate!End
    <3> QED BY <3>2, <3>6 DEF Gate!Next
  <2>6. ASSUME NEW c \in Caller, Insert(c)
        PROVE  Gate!Next
    <3>1. /\ pc[c] = "insert" /\ fp[c] \in Fingerprint /\ now[c] \in Time
          /\ c \in Calling /\ Calling' = Calling \ {c}
      BY <2>6 DEF Insert, Mark, ReadGuards, Calling
    <3>2. now[c] \in Int /\ granted[fp[c]] \in Int /\ Cooldown \in Nat
      BY <3>1, DeduplicatorAssumption DEF Time, Never
    <3>3. c \notin overlapped => Gate!CooledDown(fp[c], now[c])
      BY <3>1, <3>2 DEF Alone, AloneIsExact, Gate!CooledDown, Never, Gate!Never
    <3>4. Gate!Grant(c)
      BY <2>6, <3>1, <3>3 DEF Insert, Mark, Gate!Grant, Gate!End
    <3> QED BY <3>1, <3>4 DEF Gate!Next
  <2>7. ASSUME NEW c \in Caller, NEW s \in Shard, ClearShard(c, s)
        PROVE  Gate!Next
    <3> DEFINE F == {f \in Fingerprint : ShardOf[f] = s}
    <3>1. /\ granted' = [f \in Fingerprint |-> IF f \in F THEN Never ELSE granted[f]]
          /\ Calling' = Calling
      BY <2>7 DEF ClearShard, Calling
    <3>2. Gate!Forget
      BY <2>7, <3>1 DEF ClearShard, Gate!calls, Gate!Forget, Never, Gate!Never
    <3> QED BY <3>2 DEF Gate!Next
  <2>8. ASSUME NEW c \in Caller, ClearDone(c)
        PROVE  Gate!Next
    <3>1. c \in Calling /\ Calling' = Calling \ {c}
      BY <2>8 DEF ClearDone, Calling
    <3>2. Gate!Cleared(c)
      BY <2>8, <3>1 DEF ClearDone, Gate!Cleared, Gate!End
    <3> QED BY <3>2 DEF Gate!Next
  <2> QED BY <2>1, <2>2, <2>3, <2>4, <2>5, <2>6, <2>7, <2>8 DEF Next, Step
<1> QED BY <1>1, <1>2, SpecIInv, PTL DEF Spec, RefinesGate, Gate!Spec
=============================================================================
