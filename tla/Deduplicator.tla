----------------------------- MODULE Deduplicator -----------------------------
(***************************************************************************)
(* OpportunityDeduplicator (crates/core/src/deduplication.rs): a cache of  *)
(* fingerprints in a DashMap, checked and marked by any number of tasks.   *)
(*                                                                         *)
(* The DashMap is external: fingerprints are spread over shards, get holds *)
(* a read lock on its shard for as long as the guard it returns lives, and *)
(* insert and retain need the shard's write lock, which waits for every    *)
(* read guard, the caller's own included.                                  *)
(***************************************************************************)
EXTENDS Integers, FiniteSets

CONSTANTS Caller,        \* tasks that call check_and_mark and clear
          Fingerprint,
          Shard, ShardOf, \* ShardOf[f]: the DashMap shard f hashes to
          Cooldown,      \* cooldown_duration
          CleanupSize,   \* 1000 in the code: a larger cache is cleaned up first
          MaxTime        \* bound: readings of the monotonic clock

ASSUME DeduplicatorAssumption ==
  /\ ShardOf \in [Fingerprint -> Shard]
  /\ Cooldown \in Nat
  /\ CleanupSize \in Nat
  /\ MaxTime \in Nat

VARIABLES clock,    \* Instant::now()
          seen,     \* seen_opportunities: the instant f was marked, or Never
          pc,       \* pc[c]: where c is in check_and_mark or clear
          fp,       \* fp[c]: the fingerprint c checks
          now,      \* now[c]: the instant c read when it was called
          todo,     \* todo[c]: the shards c's retain has still to visit
          verdict,  \* verdict[c]: what c's last check returned
          granted,    \* history: when f last got true since it was cleared, or Never
          overlapped  \* history: callers whose last call overlapped with another's

vars == <<clock, seen, pc, fp, now, todo, verdict, granted, overlapped>>

Time == 0..MaxTime
Never == -1

Init == /\ clock = 0
        /\ seen = [f \in Fingerprint |-> Never]
        /\ pc = [c \in Caller |-> "idle"]
        /\ fp \in [Caller -> Fingerprint]
        /\ now = [c \in Caller |-> 0]
        /\ todo = [c \in Caller |-> {}]
        /\ verdict = [c \in Caller |-> "none"]
        /\ granted = [f \in Fingerprint |-> Never]
        /\ overlapped = {}

Calling == {c \in Caller : pc[c] # "idle"}

\* c begins a call.
Begin(c) == overlapped' = IF Calling = {} THEN overlapped \ {c}
                                          ELSE overlapped \cup Calling \cup {c}

Cached == {f \in Fingerprint : seen[f] # Never}

\* Instant::duration_since, which is 0 for a later instant.
Elapsed(c, f) == IF now[c] >= seen[f] THEN now[c] - seen[f] ELSE 0

\* Who holds a read guard on a shard: the guard get returned lives through the
\* arm that inserts over an expired entry.
ReadGuards(s) == {c \in Caller : pc[c] = "insert_expired" /\ ShardOf[fp[c]] = s}

Tick == /\ clock < MaxTime
        /\ clock' = clock + 1
        /\ UNCHANGED <<seen, pc, fp, now, todo, verdict, granted, overlapped>>

-----------------------------------------------------------------------------
(* check_and_mark *)

\* The call: now is read before anything else.
Check(c, f) ==
  /\ pc[c] = "idle"
  /\ fp' = [fp EXCEPT ![c] = f]
  /\ now' = [now EXCEPT ![c] = clock]
  /\ verdict' = [verdict EXCEPT ![c] = "none"]
  /\ pc' = [pc EXCEPT ![c] = "size"]
  /\ Begin(c)
  /\ UNCHANGED <<clock, seen, todo, granted>>

\* len() > 1000 sends the caller through cleanup_expired.
CheckSize(c) ==
  /\ pc[c] = "size"
  /\ IF Cardinality(Cached) > CleanupSize
     THEN /\ pc' = [pc EXCEPT ![c] = "cleanup"]
          /\ todo' = [todo EXCEPT ![c] = Shard]
     ELSE /\ pc' = [pc EXCEPT ![c] = "get"]
          /\ UNCHANGED todo
  /\ UNCHANGED <<clock, seen, fp, now, verdict, granted, overlapped>>

\* Faulty variant: entries just out of their cooldown are dropped.
RetainedOneCooldown(c, f) == Elapsed(c, f) < Cooldown

\* What cleanup_expired retains.
Retained(c, f) == Elapsed(c, f) <= 2 * Cooldown

\* retain takes the shards' write locks one after the other.
CleanupShard(c, s) ==
  /\ pc[c] = "cleanup"
  /\ s \in todo[c]
  /\ ReadGuards(s) = {}
  /\ seen' = [f \in Fingerprint |->
                IF ShardOf[f] = s /\ seen[f] # Never /\ ~Retained(c, f)
                THEN Never ELSE seen[f]]
  /\ todo' = [todo EXCEPT ![c] = @ \ {s}]
  /\ UNCHANGED <<clock, pc, fp, now, verdict, granted, overlapped>>

\* Faulty variant: the caller does not go on once the shards are visited.
CleanupNeverDone(c) == FALSE /\ UNCHANGED vars

CleanupDone(c) ==
  /\ pc[c] = "cleanup"
  /\ todo[c] = {}
  /\ pc' = [pc EXCEPT ![c] = "get"]
  /\ UNCHANGED <<clock, seen, fp, now, todo, verdict, granted, overlapped>>

\* Faulty variant: twice the cooldown.
InDoubleCooldown(c) == seen[fp[c]] # Never /\ Elapsed(c, fp[c]) <= 2 * Cooldown

InCooldown(c) == seen[fp[c]] # Never /\ Elapsed(c, fp[c]) <= Cooldown

\* get finds no entry, an entry still in cooldown, or an expired one whose guard
\* it keeps. No writer ever keeps its lock, so get never waits.
Get(c) ==
  /\ pc[c] = "get"
  /\ IF InCooldown(c)
     THEN /\ pc' = [pc EXCEPT ![c] = "idle"]
          /\ verdict' = [verdict EXCEPT ![c] = "duplicate"]
     ELSE /\ pc' = [pc EXCEPT ![c] = IF seen[fp[c]] = Never THEN "insert" ELSE "insert_expired"]
          /\ UNCHANGED verdict
  /\ UNCHANGED <<clock, seen, fp, now, todo, granted, overlapped>>

\* Faulty variant: the instant at which the cooldown ends.
MarkExpiry(c) == now[c] + Cooldown

\* What insert stores: the instant of the call.
Mark(c) == now[c]

\* insert marks the fingerprint and the check returns true.
Insert(c) ==
  /\ pc[c] \in {"insert", "insert_expired"}
  /\ ReadGuards(ShardOf[fp[c]]) = {}
  /\ seen' = [seen EXCEPT ![fp[c]] = Mark(c)]
  /\ granted' = [granted EXCEPT ![fp[c]] = now[c]]
  /\ verdict' = [verdict EXCEPT ![c] = "new"]
  /\ pc' = [pc EXCEPT ![c] = "idle"]
  /\ UNCHANGED <<clock, fp, now, todo, overlapped>>

-----------------------------------------------------------------------------
(* clear *)

Clear(c) ==
  /\ pc[c] = "idle"
  /\ pc' = [pc EXCEPT ![c] = "clear"]
  /\ todo' = [todo EXCEPT ![c] = Shard]
  /\ Begin(c)
  /\ UNCHANGED <<clock, seen, fp, now, verdict, granted>>

ClearShard(c, s) ==
  /\ pc[c] = "clear"
  /\ s \in todo[c]
  /\ ReadGuards(s) = {}
  /\ seen' = [f \in Fingerprint |-> IF ShardOf[f] = s THEN Never ELSE seen[f]]
  /\ granted' = [f \in Fingerprint |-> IF ShardOf[f] = s THEN Never ELSE granted[f]]
  /\ todo' = [todo EXCEPT ![c] = @ \ {s}]
  /\ UNCHANGED <<clock, pc, fp, now, verdict, overlapped>>

ClearDone(c) ==
  /\ pc[c] = "clear"
  /\ todo[c] = {}
  /\ pc' = [pc EXCEPT ![c] = "idle"]
  /\ UNCHANGED <<clock, seen, fp, now, todo, verdict, granted, overlapped>>

-----------------------------------------------------------------------------
\* What a task does once it has called check_and_mark or clear.
Step(c) == \/ CheckSize(c)
           \/ \E s \in Shard : CleanupShard(c, s) \/ ClearShard(c, s)
           \/ CleanupDone(c) \/ ClearDone(c)
           \/ Get(c)
           \/ Insert(c)

Next == \/ Tick
        \/ \E c \in Caller : \/ \E f \in Fingerprint : Check(c, f)
                             \/ Clear(c)
                             \/ Step(c)

Spec == Init /\ [][Next]_vars

\* A running task is not suspended for ever: neither function awaits anything.
FairSpec == Spec /\ \A c \in Caller : WF_vars(Step(c))

-----------------------------------------------------------------------------
(* Properties *)

Places == {"idle", "size", "cleanup", "get", "insert", "insert_expired", "clear"}

\* Every variable has its type.
TypeOK ==
  /\ clock \in Time
  /\ seen \in [Fingerprint -> Time \cup {Never}]
  /\ pc \in [Caller -> Places]
  /\ fp \in [Caller -> Fingerprint]
  /\ now \in [Caller -> Time]
  /\ todo \in [Caller -> SUBSET Shard]
  /\ verdict \in [Caller -> {"none", "new", "duplicate"}]
  /\ granted \in [Fingerprint -> Time \cup {Never}]
  /\ overlapped \subseteq Caller

\* The promise: no race, no cleanup of old entries and no clear that is only half
\* done refuses a fingerprint that has cooled down or was never granted; and a call
\* that no other call overlaps with never grants one within its cooldown, whatever
\* races left in the cache before it.
Gate == INSTANCE CooldownGate WITH calling <- Calling
RefinesGate == Gate!Spec

\* However many callers race: the cache never holds a mark nobody was granted, and
\* a mark disappears without a clear only once two cooldowns are over, so a cleanup
\* racing with a check never re-opens a cooldown that still runs.
MarksOutliveCooldown ==
  [][\A f \in Fingerprint :
        /\ seen'[f] \in {Never, granted'[f]}
        /\ seen[f] # Never /\ seen'[f] = Never /\ granted'[f] # Never =>
              clock - seen[f] > 2 * Cooldown]_vars

\* A task that calls check_and_mark or clear gets out of it, unless some task finds
\* the entry of its fingerprint expired.
UnexpiredCallsReturn ==
  \A c \in Caller :
    pc[c] # "idle" ~> pc[c] = "idle" \/ \E d \in Caller : pc[d] = "insert_expired"

\* deduplication.rs:174: "After cooldown, should pass again". Every check returns.
ChecksReturn == \A c \in Caller : pc[c] = "size" ~> pc[c] = "idle"
=============================================================================
