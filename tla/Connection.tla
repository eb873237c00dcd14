------------------------------ MODULE Connection ------------------------------
(***************************************************************************)
(* WebSocketManager (crates/exchanges/src/websocket.rs): tasks that call   *)
(* connect_with_retry of one manager and so share its counter of attempts, *)
(* and the heartbeat task that every connection starts.                    *)
(*                                                                         *)
(* connect_once returns only when the connection could not be opened or is *)
(* lost, and then always with an error: the Ok arm of connect_with_retry,  *)
(* which resets the counter and sets is_connected, is never taken, and the *)
(* flag is never true. A message that is handled, or whose handler fails,  *)
(* leaves the connection as it is and is no step. The venue is external.   *)
(***************************************************************************)
EXTENDS Integers, FiniteSets

CONSTANTS Task,
          MaxReconnectAttempts, BaseBackoff, MaxBackoff,
          MaxOrphans            \* bound: heartbeats of connections that were lost

ASSUME ConnectionAssumption ==
  /\ IsFiniteSet(Task)
  /\ MaxReconnectAttempts \in Nat \ {0}
  /\ BaseBackoff \in Nat \ {0} /\ MaxBackoff \in Nat /\ 2 * BaseBackoff <= MaxBackoff
  /\ MaxOrphans \in Nat

VARIABLES attempts,  \* reconnect_attempts
          phase,     \* phase[t]: where t is in connect_with_retry
          heartbeat, \* heartbeat[t]: the heartbeat of t's connection runs
          orphans,   \* heartbeats that run although nobody reads the connection
          failures,  \* history: failures since a connection opened or the counter was reset
          waited     \* history: waited[t]: t's last backoff since the counter was last reset

connectionVars == <<attempts, phase, heartbeat, orphans, failures, waited>>

ConnectionInit ==
  /\ attempts = 0
  /\ phase = [t \in Task |-> "idle"]
  /\ heartbeat = [t \in Task |-> FALSE]
  /\ orphans = 0
  /\ failures = 0
  /\ waited = [t \in Task |-> 0]

Goto(t, place) == phase' = [phase EXCEPT ![t] = place]

-----------------------------------------------------------------------------
(* connect_with_retry *)

\* The call, again after it has given up.
Call(t) == /\ phase[t] \in {"idle", "gave_up"}
           /\ Goto(t, "check")
           /\ UNCHANGED <<attempts, heartbeat, orphans, failures, waited>>

\* Faulty variant: no cap.
UncappedBackoff(attempt) == BaseBackoff * 2^attempt

Backoff(attempt) ==
  LET backoff == BaseBackoff * 2^attempt
  IN  IF backoff <= MaxBackoff THEN backoff ELSE MaxBackoff

\* Faulty variant: one attempt too many.
AttemptsExceeded == attempts > MaxReconnectAttempts

AttemptsReached == attempts >= MaxReconnectAttempts

\* The head of the loop reads the counter once.
Check(t) ==
  /\ phase[t] = "check"
  /\ CASE AttemptsReached -> Goto(t, "gave_up") /\ UNCHANGED waited
       [] ~AttemptsReached /\ attempts = 0 -> Goto(t, "connecting") /\ UNCHANGED waited
       [] ~AttemptsReached /\ attempts > 0 ->
            Goto(t, "backoff") /\ waited' = [waited EXCEPT ![t] = Backoff(attempts)]
  /\ UNCHANGED <<attempts, heartbeat, orphans, failures>>

Wake(t) == /\ phase[t] = "backoff"
           /\ Goto(t, "connecting")
           /\ UNCHANGED <<attempts, heartbeat, orphans, failures, waited>>

\* Faulty variant: a lost connection is not counted.
CountNothing(t) == /\ phase[t] = "failed"
                   /\ Goto(t, "check")
                   /\ UNCHANGED <<attempts, heartbeat, orphans, failures, waited>>

\* The Err arm of connect_with_retry.
Count(t) == /\ phase[t] = "failed"
            /\ attempts' = attempts + 1
            /\ Goto(t, "check")
            /\ UNCHANGED <<heartbeat, orphans, failures, waited>>

\* reset_reconnect_counter, called by anyone at any time.
Reset == /\ attempts' = 0
         /\ failures' = 0
         /\ waited' = [t \in Task |-> 0]
         /\ UNCHANGED <<phase, heartbeat, orphans>>

-----------------------------------------------------------------------------
(* connect_once *)

ConnectFails(t) == /\ phase[t] = "connecting"
                   /\ Goto(t, "failed")
                   /\ failures' = failures + 1
                   /\ UNCHANGED <<attempts, heartbeat, orphans, waited>>

\* The stream is split, the heartbeat spawned, and the reading loop entered.
Open(t) == /\ phase[t] = "connecting"
           /\ Goto(t, "reading")
           /\ heartbeat' = [heartbeat EXCEPT ![t] = TRUE]
           /\ failures' = 0
           /\ UNCHANGED <<attempts, orphans, waited>>

\* A close frame, an error, the end of the stream, or a pong that cannot be sent. The
\* heartbeat keeps its half of the connection.
Lose(t) == /\ phase[t] = "reading"
           /\ orphans < MaxOrphans
           /\ orphans' = IF heartbeat[t] THEN orphans + 1 ELSE orphans
           /\ heartbeat' = [heartbeat EXCEPT ![t] = FALSE]
           /\ Goto(t, "failed")
           /\ failures' = failures + 1
           /\ UNCHANGED <<attempts, waited>>

\* A ping that cannot be sent ends the heartbeat; the reader is not told.
PingFails(t) == /\ heartbeat[t]
                /\ heartbeat' = [heartbeat EXCEPT ![t] = FALSE]
                /\ UNCHANGED <<attempts, phase, orphans, failures, waited>>

OrphanPingFails == /\ orphans > 0
                   /\ orphans' = orphans - 1
                   /\ UNCHANGED <<attempts, phase, heartbeat, failures, waited>>

-----------------------------------------------------------------------------
\* What t does by itself or is answered by the network.
ConnectionStep(t) == Check(t) \/ Wake(t) \/ ConnectFails(t) \/ Open(t) \/ Count(t)

ConnectionNext ==
  \/ \E t \in Task : Call(t) \/ ConnectionStep(t) \/ Lose(t) \/ PingFails(t)
  \/ Reset \/ OrphanPingFails

ConnectionSpec == ConnectionInit /\ [][ConnectionNext]_connectionVars

\* A task's timers fire and its connection attempts end. Nobody has to call, to reset
\* or to lose a connection.
ConnectionFairSpec == ConnectionSpec /\ \A t \in Task : WF_connectionVars(ConnectionStep(t))

-----------------------------------------------------------------------------
(* Properties *)

\* Every variable has its type.
ConnectionTypeOK ==
  /\ attempts \in Nat
  /\ phase \in [Task -> {"idle", "check", "backoff", "connecting", "reading", "failed", "gave_up"}]
  /\ heartbeat \in [Task -> BOOLEAN]
  /\ \A t \in Task : heartbeat[t] => phase[t] = "reading"
  /\ orphans \in 0..MaxOrphans /\ failures \in Nat
  /\ waited \in [Task -> 0..MaxBackoff]

\* Every task reads the counter, acts on it, and adds to it later. However many pass the
\* check at the same count, there is one attempt too many for each task but one, and no
\* more.
AttemptsBounded == attempts <= MaxReconnectAttempts + Cardinality(Task) - 1

\* Between two resets the waits of a task never become shorter, whatever other tasks
\* count meanwhile: they grow until they reach the cap, which they never exceed.
BackoffGrows ==
  [][\A t \in Task :
       phase[t] = "check" /\ phase'[t] = "backoff" =>
         /\ waited'[t] <= MaxBackoff
         /\ waited'[t] > waited[t] \/ waited'[t] = MaxBackoff]_connectionVars

\* Nobody reconnects for ever: unless the counter is reset again and again, or the
\* caller calls again and again, each task stays connected or has given up.
Settles == \/ []<><<Reset>>_connectionVars
           \/ []<><<\E t \in Task : Call(t)>>_connectionVars
           \/ <>[](\A t \in Task : phase[t] \in {"idle", "reading", "gave_up"})


\* Claimed, and false: after a reset of the counter, a task waits base_backoff_ms first.
FirstWaitIsBase ==
  [][\A t \in Task : phase[t] = "check" /\ phase'[t] = "backoff" /\ waited[t] = 0 =>
       waited'[t] = BaseBackoff]_connectionVars
=============================================================================
