--------------------------- MODULE AsioTCPConnector ---------------------------
(****************************************************************************)
(* AsioTCPConnector with the TcpClientConnectionManager that restarts it    *)
(* when a connection of its ends.  Everything runs on the communication     *)
(* thread: the public methods, the completion of async_connect, the retry   *)
(* timer and the ends of connections interleave as whole handlers.          *)
(*                                                                          *)
(* Time is left out: whether start() is within wait_for() of the last       *)
(* attempt is a choice (before the first attempt it is not: that one is the *)
(* clock's epoch), and an armed timer may expire at any moment.  The        *)
(* timer's handler is start_connect bound without the error code, so it     *)
(* also runs, and connects, when the wait was cancelled.                    *)
(****************************************************************************)
EXTENDS Naturals

CONSTANTS
  MaxRetryCounts,   \* the limits set_max_retry_count is given; 0 is no limit
  RetryBound,       \* m_retry_count is not followed above this bound
  MaxOpen           \* bound: connections open at once

ASSUME AsioTCPConnectorAssumption ==
  /\ MaxRetryCounts \subseteq 0 .. RetryBound - 1
  /\ RetryBound \in Nat \ {0}
  /\ MaxOpen \in Nat

VARIABLES
  retry,                \* m_retry
  stopped,              \* m_stopped
  connect_in_progress,  \* m_connect_in_progress
  max_retry_count,      \* m_max_retry_count
  retry_count,          \* m_retry_count
  timer,                \* m_retry_timer: "off", "armed" or "cancelled", the
                        \* last two with the handler still to run
  connecting,           \* an async_connect is outstanding
  socket_open,          \* m_socket is open
  attempted,            \* m_last_start_ts has been set
  reconnect,            \* the manager's m_connector is set
  connections,          \* the size of the manager's m_connections
  unclosed              \* connections forgotten by the manager, with a socket
                        \* that is open and an operation outstanding on it

(* History: why the connector came to rest without a connection since it    *)
(* was last started, and whether it was started again after reporting that  *)
(* its limit was reached.                                                   *)
VARIABLES rest, past_limit

config_vars == <<retry, max_retry_count, reconnect>>
socket_vars == <<connecting, socket_open, attempted>>
vars == <<retry, stopped, connect_in_progress, max_retry_count, retry_count,
          timer, connecting, socket_open, attempted, reconnect, connections,
          unclosed, rest, past_limit>>

Rests == {"none", "not started", "no retry", "stopped", "limit",
          "factory failed"}

Init ==
  /\ retry = FALSE /\ stopped = FALSE /\ connect_in_progress = FALSE
  /\ max_retry_count = 0 /\ retry_count = 0
  /\ timer = "off" /\ connecting = FALSE
  /\ socket_open = FALSE /\ attempted = FALSE
  /\ reconnect = FALSE /\ connections = 0 /\ unclosed = 0
  /\ rest = "not started" /\ past_limit = FALSE

-------------------------------------------------------------------------------
(* Mutant: start() does not look at m_connect_in_progress.                  *)
MayStartAlways == TRUE

MayStart == ~connect_in_progress

(* async_connect opens the socket, unless it is open from an attempt that   *)
(* failed; when it cannot be opened, the attempt completes with that error. *)
start_connect ==
  /\ connecting' = TRUE
  /\ attempted' = TRUE
  /\ socket_open' = TRUE \/ UNCHANGED socket_open

(* start(): waits out the rest of the policy's delay, or connects at once.  *)
(* Its ASSERT throws, with nothing changed, while connect_in_progress.      *)
start ==
  /\ MayStart
  /\ connect_in_progress' = TRUE
  /\ \/ retry /\ attempted /\ timer' = "armed" /\ UNCHANGED socket_vars
     \/ start_connect /\ UNCHANGED timer
  /\ rest' = "none"
  /\ past_limit' = (past_limit \/ rest = "limit")

Start ==
  /\ start
  /\ UNCHANGED <<config_vars, stopped, retry_count, connections, unclosed>>

(* stop() cancels the outstanding operation: a connect completes, as its    *)
(* actions below may at any moment, with an error or as the success that    *)
(* came first; a wait is cancelled unless it has expired already.  While    *)
(* the socket is not open (after a connection took it, or a failure to open *)
(* it) m_socket.cancel() throws before the timer is reached.                *)
Stop ==
  /\ stopped' = TRUE
  /\ IF connect_in_progress /\ socket_open /\ timer = "armed"
     THEN timer' \in {"armed", "cancelled"}
     ELSE UNCHANGED timer
  /\ UNCHANGED <<config_vars, connect_in_progress, retry_count, socket_vars,
                 connections, rest, past_limit, unclosed>>

EnableRetry ==
  /\ retry' = TRUE
  /\ UNCHANGED <<stopped, connect_in_progress, max_retry_count, retry_count,
                 timer, socket_vars, reconnect, connections, rest,
                 past_limit, unclosed>>

DisableRetry ==
  /\ retry' = FALSE
  /\ UNCHANGED <<stopped, connect_in_progress, max_retry_count, retry_count,
                 timer, socket_vars, reconnect, connections, rest,
                 past_limit, unclosed>>

(* The count starts again: a start after this is not one past the limit.    *)
SetMaxRetryCount(count) ==
  /\ max_retry_count' = count
  /\ retry_count' = 0
  /\ past_limit' = FALSE
  /\ rest' = IF rest = "limit" THEN "not started" ELSE rest
  /\ UNCHANGED <<retry, stopped, connect_in_progress, timer, socket_vars,
                 reconnect, connections, unclosed>>

ReconnectOnDisconnect ==
  /\ reconnect' = TRUE
  /\ UNCHANGED <<retry, stopped, connect_in_progress, max_retry_count,
                 retry_count, timer, socket_vars, connections, rest,
                 past_limit, unclosed>>

(* The retry timer expires or is cancelled: start_connect.                  *)
TimerHandler ==
  /\ timer # "off"
  /\ timer' = "off"
  /\ start_connect
  /\ UNCHANGED <<config_vars, stopped, connect_in_progress, retry_count,
                 connections, rest, past_limit, unclosed>>

-------------------------------------------------------------------------------
(* handle_connect.                                                          *)

(* The factory takes the socket: m_socket is moved from, hence not open.    *)
Connected ==
  /\ connecting /\ ~stopped
  /\ socket_open /\ socket_open' = FALSE
  /\ connections + unclosed < MaxOpen
  /\ connecting' = FALSE
  /\ retry_count' = 0
  /\ connect_in_progress' = FALSE
  /\ connections' = connections + 1
  /\ past_limit' = FALSE
  /\ UNCHANGED <<config_vars, stopped, timer, attempted, rest, unclosed>>

(* The peer may be gone again when the factory asks for its address, which  *)
(* throws out of handle_connect before the socket is moved.                 *)
ConnectedFactoryThrows ==
  /\ connecting /\ ~stopped
  /\ socket_open
  /\ connecting' = FALSE
  /\ retry_count' = 0
  /\ rest' = "factory failed"
  /\ past_limit' = FALSE
  /\ UNCHANGED <<config_vars, stopped, connect_in_progress, timer, socket_open,
                 attempted, connections, unclosed>>

(* Established after stop(): the socket is closed, nothing else changes.    *)
ConnectedAfterStop ==
  /\ connecting /\ stopped
  /\ socket_open /\ socket_open' = FALSE
  /\ connecting' = FALSE
  /\ rest' = "stopped"
  /\ UNCHANGED <<config_vars, stopped, connect_in_progress, retry_count,
                 timer, attempted, connections, past_limit, unclosed>>

(* handle_error: the reasons to give up, in the order of the code.          *)

(* Mutant: m_stopped is not looked at.                                      *)
GivesUpWithoutRetry == ~retry

GivesUp == ~retry \/ stopped

FailedGivingUp ==
  /\ connecting /\ GivesUp
  /\ connecting' = FALSE
  /\ connect_in_progress' = FALSE
  /\ rest' = IF ~retry THEN "no retry" ELSE "stopped"
  /\ UNCHANGED <<config_vars, stopped, retry_count, timer, socket_open,
                 attempted, connections, past_limit, unclosed>>

(* Mutant: the count runs the other way.                                    *)
OneLessRetry == retry_count - 1

OneMoreRetry == IF retry_count < RetryBound THEN retry_count + 1
                                            ELSE RetryBound

(* Mutant: the limit is compared with the count before it is advanced.      *)
LimitReachedLate == max_retry_count # 0 /\ retry_count = max_retry_count

LimitReached == max_retry_count # 0 /\ OneMoreRetry = max_retry_count

(* Mutant: the wait is computed and logged, and never started.              *)
ForgetRetry == timer' = "off"

ScheduleRetry == timer' = "armed"

FailedAtLimit ==
  /\ connecting /\ ~GivesUp
  /\ LimitReached
  /\ retry_count' = OneMoreRetry
  /\ connecting' = FALSE
  /\ connect_in_progress' = FALSE
  /\ rest' = "limit"
  /\ UNCHANGED <<config_vars, stopped, timer, socket_open, attempted,
                 connections, past_limit, unclosed>>

FailedRetrying ==
  /\ connecting /\ ~GivesUp
  /\ ~LimitReached
  /\ retry_count' = OneMoreRetry
  /\ connecting' = FALSE
  /\ ScheduleRetry
  /\ UNCHANGED <<config_vars, stopped, connect_in_progress, socket_open,
                 attempted, connections, rest, past_limit, unclosed>>

-------------------------------------------------------------------------------
(* TcpClientConnectionManager::disconnected(): forget the connection and    *)
(* start the connector again; a start() that throws leaves it as it is.     *)
disconnected ==
  /\ connections > 0
  /\ connections' = connections - 1
  /\ IF reconnect /\ MayStart
     THEN start
     ELSE UNCHANGED <<connect_in_progress, timer, socket_vars, rest,
                      past_limit>>
  /\ UNCHANGED <<config_vars, stopped, retry_count>>

(* do_drop_connection: the socket is closed before the manager is told.     *)
ConnectionDropped == disconnected /\ UNCHANGED unclosed

(* A read or a write failed: the manager is told before the socket is       *)
(* closed.  When start() throws, the handler is cut short there: the socket *)
(* stays open as long as the other operation of the connection keeps the    *)
(* object alive; with none outstanding, the destructor closes it.           *)
ConnectionFailed ==
  /\ disconnected
  /\ \/ reconnect /\ ~MayStart /\ unclosed' = unclosed + 1
     \/ UNCHANGED unclosed

(* The other operation completes: its handler closes the socket, or the     *)
(* destructor does.                                                         *)
LastHandler ==
  /\ unclosed > 0
  /\ unclosed' = unclosed - 1
  /\ UNCHANGED <<config_vars, stopped, connect_in_progress, retry_count, timer,
                 socket_vars, connections, rest, past_limit>>

-------------------------------------------------------------------------------
UserCall ==
  \/ Start \/ Stop \/ EnableRetry \/ DisableRetry \/ ReconnectOnDisconnect
  \/ \E count \in MaxRetryCounts : SetMaxRetryCount(count)

Completion ==
  \/ Connected \/ ConnectedFactoryThrows \/ ConnectedAfterStop
  \/ FailedGivingUp \/ FailedAtLimit \/ FailedRetrying

ConnectionEnds == ConnectionDropped \/ ConnectionFailed \/ LastHandler

Next == UserCall \/ TimerHandler \/ Completion \/ ConnectionEnds

Spec == Init /\ [][Next]_vars

(* The event loop runs the handlers of expired or cancelled timers and of   *)
(* completed connects; that the peer ever accepts is not assumed.           *)
FairSpec == Spec /\ WF_vars(TimerHandler) /\ WF_vars(Completion)

-------------------------------------------------------------------------------
(* Properties.                                                              *)

TypeOK ==
  /\ retry \in BOOLEAN /\ stopped \in BOOLEAN
  /\ connect_in_progress \in BOOLEAN /\ reconnect \in BOOLEAN
  /\ max_retry_count \in MaxRetryCounts \union {0}
  /\ retry_count \in 0 .. RetryBound
  /\ timer \in {"off", "armed", "cancelled"} /\ connecting \in BOOLEAN
  /\ socket_open \in BOOLEAN /\ attempted \in BOOLEAN
  /\ connections \in 0 .. MaxOpen /\ unclosed \in 0 .. MaxOpen
  /\ connections + unclosed <= MaxOpen
  /\ rest \in Rests /\ past_limit \in BOOLEAN

Outstanding == timer # "off" \/ connecting

(* The one socket and the one timer are never used for two attempts: at     *)
(* most one of them has an operation outstanding, and only under            *)
(* m_connect_in_progress, whatever order stop(), start(), reconnects and    *)
(* completions come in.                                                     *)
OneOperation ==
  /\ ~(timer # "off" /\ connecting)
  /\ Outstanding => connect_in_progress

(* Until it is started again after reporting that the limit was reached, a  *)
(* connector with a limit makes no more failed attempts in a row than that, *)
(* and having made them it rests.                                           *)
LimitRespected ==
  (max_retry_count # 0 /\ ~past_limit) =>
    /\ retry_count <= max_retry_count
    /\ retry_count = max_retry_count => rest = "limit" /\ ~Outstanding

(* An attempt ends: in a connection, in one of the reasons to give up, or   *)
(* in a wait, and a wait ends in the next attempt.  A factory that fails is *)
(* among the reasons: that the connector refuses every start after it is    *)
(* the business of RefusesOnlyWhileConnecting.                              *)
AttemptEnds ==
  /\ connecting ~> (~connecting /\ (connections > 0 \/ rest # "none"
                                                   \/ timer # "off"))
  /\ (timer # "off") ~> connecting

(* After stop() the outstanding operation finishes, the attempt that the    *)
(* cancelled timer starts included.                                         *)
StopSettles == stopped ~> ~Outstanding

(* "Stop initiated. Not retrying.": a wait for the next retry that stop()   *)
(* cancels does not become an attempt.                                      *)
NoRetryAfterStop ==
  [][timer = "cancelled" => ~(connecting' /\ ~connecting)]_vars

(* "A connect already in progress.": start() refuses with this only while   *)
(* an attempt, or the wait for one, is outstanding.                         *)
RefusesOnlyWhileConnecting == connect_in_progress => Outstanding

(* "A connect already in progress. Ignoring.": what is ignored is the       *)
(* request to start, not the rest of the teardown that made it; no socket   *)
(* outlives the connection the manager has forgotten.                       *)
SocketsClosed == unclosed = 0
===============================================================================
