----------------------------- MODULE CooldownGate -----------------------------
(***************************************************************************)
(* What deduplication promises, without a cache, shards or locks. A check  *)
(* of a fingerprint at time t is refused only when the fingerprint was     *)
(* granted no more than a cooldown before t, and granted only when it was  *)
(* not, unless another call overlaps with the check: a check that runs     *)
(* alone is exact. A grant is all that is remembered.                      *)
(***************************************************************************)
EXTENDS Integers

CONSTANTS Caller, Fingerprint, Cooldown, Time

VARIABLES granted,    \* granted[f]: when f was last granted, or Never
          verdict,    \* verdict[c]: what c's last check returned
          calling,    \* the callers with a call under way
          fp, now,    \* what c checks, and the time of its call
          overlapped  \* those whose last call overlapped with another one's

calls == <<calling, fp, now, overlapped>>
vars == <<granted, verdict, calls>>

Never == -1

Init == /\ granted = [f \in Fingerprint |-> Never]
        /\ verdict = [c \in Caller |-> "none"]
        /\ calling = {}
        /\ fp \in [Caller -> Fingerprint] /\ now \in [Caller -> Time]
        /\ overlapped = {}

CooledDown(f, t) == granted[f] = Never \/ t - granted[f] > Cooldown

\* A call of check_and_mark or of clear. A check under way has no verdict.
Begin(c) ==
  /\ c \notin calling
  /\ calling' = calling \cup {c}
  /\ overlapped' = IF calling = {} THEN overlapped \ {c}
                                  ELSE overlapped \cup calling \cup {c}
  /\ \E f \in Fingerprint, t \in Time : /\ fp' = [fp EXCEPT ![c] = f]
                                       /\ now' = [now EXCEPT ![c] = t]
  /\ verdict' \in {verdict, [verdict EXCEPT ![c] = "none"]}
  /\ UNCHANGED granted

End(c) == /\ c \in calling /\ calling' = calling \ {c}
          /\ UNCHANGED <<fp, now, overlapped>>

Grant(c) == /\ CooledDown(fp[c], now[c]) \/ c \in overlapped
            /\ End(c)
            /\ granted' = [granted EXCEPT ![fp[c]] = now[c]]
            /\ verdict' = [verdict EXCEPT ![c] = "new"]

Refuse(c) == /\ ~CooledDown(fp[c], now[c])
             /\ End(c)
             /\ verdict' = [verdict EXCEPT ![c] = "duplicate"]
             /\ UNCHANGED granted

\* clear() forgets any part of what was granted, and returns.
Forget == /\ \E F \in SUBSET Fingerprint :
               granted' = [f \in Fingerprint |-> IF f \in F THEN Never ELSE granted[f]]
          /\ UNCHANGED <<verdict, calls>>

Cleared(c) == End(c) /\ UNCHANGED <<granted, verdict>>

Next == \/ \E c \in Caller : Begin(c) \/ Grant(c) \/ Refuse(c) \/ Cleared(c)
        \/ Forget

Spec == Init /\ [][Next]_vars
=============================================================================
