------------------------ MODULE AsioTCPConnectorProofs ------------------------
(* Proofs about AsioTCPConnector for every set of limits and every bound.   *)
EXTENDS AsioTCPConnector, TLAPS

USE DEF MayStart, GivesUp, LimitReached, ScheduleRetry

LEMMA RestValues ==
  /\ "none" \in Rests /\ "not started" \in Rests /\ "no retry" \in Rests
  /\ "stopped" \in Rests /\ "limit" \in Rests /\ "factory failed" \in Rests
  BY DEF Rests

LEMMA ZeroInRange ==
  0 \in 0 .. RetryBound /\ 0 \in 0 .. MaxOpen /\ 0 + 0 <= MaxOpen
  BY AsioTCPConnectorAssumption

(* The part of TypeOK about numbers.                                        *)
Numbers ==
  /\ max_retry_count \in MaxRetryCounts \union {0}
  /\ retry_count \in 0 .. RetryBound
  /\ connections \in 0 .. MaxOpen /\ unclosed \in 0 .. MaxOpen
  /\ connections + unclosed <= MaxOpen

LEMMA TypeInit == Init => TypeOK
<1> SUFFICES ASSUME Init PROVE TypeOK
  OBVIOUS
<1>1. Numbers
  BY ZeroInRange DEF Init, Numbers
<1> QED
  BY <1>1, RestValues DEF Init, TypeOK, Numbers

LEMMA TypeStep == TypeOK /\ [Next]_vars => TypeOK'
<1> SUFFICES ASSUME TypeOK, [Next]_vars PROVE TypeOK'
  OBVIOUS
<1> USE AsioTCPConnectorAssumption DEF TypeOK, config_vars, socket_vars
<1>1. CASE Start
  <2>1. Numbers'
    BY <1>1 DEF Start, start, start_connect, Numbers
  <2> QED
    BY <1>1, <2>1, RestValues DEF Start, start, start_connect, Numbers
<1>2. CASE Stop
  BY <1>2 DEF Stop
<1>3. CASE EnableRetry
  BY <1>3 DEF EnableRetry
<1>4. CASE DisableRetry
  BY <1>4 DEF DisableRetry
<1>5. CASE ReconnectOnDisconnect
  BY <1>5 DEF ReconnectOnDisconnect
<1>6. ASSUME NEW count \in MaxRetryCounts, SetMaxRetryCount(count) PROVE TypeOK'
  <2>1. Numbers'
    <3>1. /\ max_retry_count' = count /\ retry_count' = 0
          /\ connections' = connections /\ unclosed' = unclosed
      BY <1>6 DEF SetMaxRetryCount
    <3> QED
      BY <3>1, ZeroInRange DEF Numbers
  <2>2. rest' \in Rests /\ past_limit' \in BOOLEAN
    BY <1>6, RestValues DEF SetMaxRetryCount
  <2>3. UNCHANGED <<retry, stopped, connect_in_progress, timer, socket_vars,
                    reconnect>>
    BY <1>6 DEF SetMaxRetryCount
  <2> QED
    BY <2>1, <2>2, <2>3 DEF Numbers
<1>7. CASE TimerHandler
  BY <1>7 DEF TimerHandler, start_connect
<1>8. CASE Connected
  <2>1. Numbers'
    BY <1>8 DEF Connected, Numbers
  <2> QED
    BY <1>8, <2>1, RestValues DEF Connected, Numbers
<1>9. CASE ConnectedFactoryThrows
  <2>1. Numbers'
    BY <1>9, ZeroInRange DEF ConnectedFactoryThrows, Numbers
  <2> QED
    BY <1>9, <2>1, RestValues DEF ConnectedFactoryThrows, Numbers
<1>10. CASE ConnectedAfterStop
  <2>1. Numbers'
    BY <1>10 DEF ConnectedAfterStop, Numbers
  <2> QED
    BY <1>10, <2>1, RestValues DEF ConnectedAfterStop, Numbers
<1>11. CASE FailedGivingUp
  <2>1. Numbers'
    BY <1>11 DEF FailedGivingUp, Numbers
  <2> QED
    BY <1>11, <2>1, RestValues DEF FailedGivingUp, Numbers
<1>12. OneMoreRetry \in 0 .. RetryBound
  BY DEF OneMoreRetry
<1>13. CASE FailedAtLimit
  <2>1. Numbers'
    BY <1>12, <1>13 DEF FailedAtLimit, Numbers
  <2> QED
    BY <1>13, <2>1, RestValues DEF FailedAtLimit, Numbers
<1>14. CASE FailedRetrying
  <2>1. Numbers'
    BY <1>12, <1>14 DEF FailedRetrying, Numbers
  <2> QED
    BY <1>14, <2>1, RestValues DEF FailedRetrying, Numbers
<1>15. ASSUME ConnectionDropped \/ ConnectionFailed PROVE TypeOK'
  <2>1. disconnected
    BY <1>15 DEF ConnectionDropped, ConnectionFailed
  <2>2. connections' = connections - 1 /\ connections > 0
    BY <2>1 DEF disconnected
  <2>3. unclosed' = unclosed \/ unclosed' = unclosed + 1
    BY <1>15 DEF ConnectionDropped, ConnectionFailed
  <2>4. /\ unclosed' \in 0 .. MaxOpen /\ connections' \in 0 .. MaxOpen
        /\ connections' + unclosed' <= MaxOpen
    BY <2>2, <2>3
  <2>5. max_retry_count' = max_retry_count /\ retry_count' = retry_count
    BY <2>1 DEF disconnected
  <2>6. Numbers'
    BY <2>4, <2>5 DEF Numbers
  <2> QED
    BY <2>1, <2>6, RestValues DEF disconnected, start, start_connect,
                                    Numbers
<1>17. CASE LastHandler
  <2>1. Numbers'
    <3>1. unclosed' = unclosed - 1 /\ unclosed > 0 /\ connections' = connections
      BY <1>17 DEF LastHandler
    <3>2. max_retry_count' = max_retry_count /\ retry_count' = retry_count
      BY <1>17 DEF LastHandler
    <3> QED
      BY <3>1, <3>2 DEF Numbers
  <2> QED
    BY <1>17, <2>1, RestValues DEF LastHandler, Numbers
<1>16. CASE UNCHANGED vars
  BY <1>16 DEF vars
<1> QED
  BY <1>1, <1>2, <1>3, <1>4, <1>5, <1>6, <1>7, <1>8, <1>9, <1>10, <1>11,
     <1>13, <1>14, <1>15, <1>16, <1>17
  DEF Next, UserCall, Completion, ConnectionEnds

(* A completion or a timer handler finds its own operation outstanding,     *)
(* hence not the other one, and start() finds neither.                      *)
LEMMA OneOperationStep == TypeOK /\ OneOperation /\ [Next]_vars => OneOperation'
<1> SUFFICES ASSUME TypeOK, OneOperation, [Next]_vars PROVE OneOperation'
  OBVIOUS
<1> USE DEF OneOperation, Outstanding, config_vars, socket_vars
<1>1. CASE Start
  BY <1>1 DEF Start, start, start_connect
<1>2. CASE Stop
  BY <1>2 DEF Stop
<1>3. ASSUME NEW count \in MaxRetryCounts, SetMaxRetryCount(count)
      PROVE  OneOperation'
  BY <1>3 DEF SetMaxRetryCount
<1>4. CASE EnableRetry \/ DisableRetry \/ ReconnectOnDisconnect
  BY <1>4 DEF EnableRetry, DisableRetry, ReconnectOnDisconnect
<1>5. CASE TimerHandler
  BY <1>5 DEF TimerHandler, start_connect
<1>6. CASE Connected \/ ConnectedFactoryThrows \/ ConnectedAfterStop
  BY <1>6 DEF Connected, ConnectedFactoryThrows, ConnectedAfterStop
<1>7. CASE FailedGivingUp \/ FailedAtLimit \/ FailedRetrying
  BY <1>7 DEF FailedGivingUp, FailedAtLimit, FailedRetrying
<1>8. CASE ConnectionDropped \/ ConnectionFailed
  BY <1>8 DEF ConnectionDropped, ConnectionFailed, disconnected, start,
             start_connect
<1>9. CASE LastHandler \/ UNCHANGED vars
  BY <1>9 DEF LastHandler, vars
<1> QED
  BY <1>1, <1>2, <1>3, <1>4, <1>5, <1>6, <1>7, <1>8, <1>9
  DEF Next, UserCall, Completion, ConnectionEnds

(* Every state of every behaviour has its type.                             *)
THEOREM TypeCorrect == Spec => []TypeOK
<1>1. TypeOK /\ [Next]_vars => TypeOK'
  BY TypeStep
<1> QED
  BY <1>1, TypeInit, PTL DEF Spec

Safe == TypeOK /\ OneOperation

LEMMA AlwaysSafe == Spec => []Safe
<1>1. Init => Safe
  BY TypeInit DEF Init, Safe, OneOperation, Outstanding
<1>2. Safe /\ [Next]_vars => Safe'
  BY TypeStep, OneOperationStep DEF Safe
<1> QED
  BY <1>1, <1>2, PTL DEF Spec

(* The socket and the timer serve one attempt at a time.                    *)
THEOREM OneOperationAtATime == Spec => []OneOperation
<1>1. Safe => OneOperation
  BY DEF Safe
<1> QED
  BY <1>1, AlwaysSafe, PTL

-------------------------------------------------------------------------------
(* The limit.  While an attempt is outstanding the count is strictly below  *)
(* the limit, so one more failure reaches it exactly and is caught by the   *)
(* code's "==": the count cannot step over the limit before it was reported.*)

BelowLimit ==
  (max_retry_count # 0 /\ ~past_limit) =>
    \/ retry_count < max_retry_count
    \/ retry_count = max_retry_count /\ rest = "limit" /\ ~Outstanding

LEMMA BelowLimitStep == Safe /\ BelowLimit /\ [Next]_vars => BelowLimit'
<1> SUFFICES ASSUME Safe, BelowLimit, [Next]_vars PROVE BelowLimit'
  OBVIOUS
<1> USE AsioTCPConnectorAssumption DEF Safe, TypeOK, OneOperation, Outstanding,
        BelowLimit, config_vars, socket_vars
<1>1. CASE Start
  BY <1>1 DEF Start, start, start_connect
<1>2. CASE Stop
  BY <1>2 DEF Stop
<1>3. CASE EnableRetry \/ DisableRetry \/ ReconnectOnDisconnect
  BY <1>3 DEF EnableRetry, DisableRetry, ReconnectOnDisconnect
<1>4. ASSUME NEW count \in MaxRetryCounts, SetMaxRetryCount(count)
      PROVE  BelowLimit'
  <2>1. max_retry_count' = count /\ retry_count' = 0
    BY <1>4 DEF SetMaxRetryCount
  <2>2. count \in Nat
    OBVIOUS
  <2> QED
    BY <2>1, <2>2 DEF BelowLimit
<1>5. CASE TimerHandler
  BY <1>5 DEF TimerHandler, start_connect
<1>6. ASSUME Connected \/ ConnectedFactoryThrows PROVE BelowLimit'
  <2>1. retry_count' = 0 /\ max_retry_count' = max_retry_count
    BY <1>6 DEF Connected, ConnectedFactoryThrows
  <2>2. max_retry_count \in Nat
    OBVIOUS
  <2> QED
    BY <2>1, <2>2 DEF BelowLimit
<1>7. CASE ConnectedAfterStop \/ FailedGivingUp
  BY <1>7 DEF ConnectedAfterStop, FailedGivingUp
<1>8. CASE FailedAtLimit
  BY <1>8 DEF FailedAtLimit
<1>9. CASE FailedRetrying
  <2>1. max_retry_count \in 0 .. RetryBound - 1
    OBVIOUS
  <2>2. (max_retry_count # 0 /\ ~past_limit) => retry_count < max_retry_count
    BY <1>9 DEF FailedRetrying
  <2>3. (max_retry_count # 0 /\ ~past_limit) => OneMoreRetry = retry_count + 1
    BY <2>1, <2>2 DEF OneMoreRetry
  <2> QED
    BY <1>9, <2>2, <2>3 DEF FailedRetrying
<1>10. CASE ConnectionDropped \/ ConnectionFailed
  BY <1>10 DEF ConnectionDropped, ConnectionFailed, disconnected, start,
             start_connect
<1>11. CASE LastHandler \/ UNCHANGED vars
  BY <1>11 DEF LastHandler, vars
<1> QED
  BY <1>1, <1>2, <1>3, <1>4, <1>5, <1>6, <1>7, <1>8, <1>9, <1>10, <1>11
  DEF Next, UserCall, Completion, ConnectionEnds

(* A limit is kept until the connector is started again past it.            *)
THEOREM LimitKept == Spec => []LimitRespected
<1>1. Init => BelowLimit
  BY DEF Init, BelowLimit
<1>2. Safe /\ BelowLimit /\ [Next]_vars => BelowLimit'
  BY BelowLimitStep
<1>3. Safe /\ BelowLimit => LimitRespected
  BY AsioTCPConnectorAssumption
  DEF Safe, TypeOK, BelowLimit, LimitRespected
<1> QED
  BY <1>1, <1>2, <1>3, AlwaysSafe, PTL DEF Spec
===============================================================================
