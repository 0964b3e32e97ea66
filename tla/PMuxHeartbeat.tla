----------------------------- MODULE PMuxHeartbeat -----------------------------
(****************************************************************************)
(* PMuxImpl::periodic_update on both ends of a connection: heartbeats, and  *)
(* the timeout that ends a connection from which nothing has come.          *)
(*                                                                          *)
(* Time is discrete (the code's milliseconds) and only differences count,   *)
(* so every time stamp is kept as its age; Tick lets one unit pass at both  *)
(* ends.  Tick waits for what is due: the updater calls every receiver at   *)
(* least once a Period, bytes arrive in order within Delay, the second end  *)
(* is created within Skew of the first.  Those three are what the code's    *)
(* surroundings have to provide; the code provides Interval and Timeout     *)
(* (1 and 10 seconds in CtConnectionFactory).                               *)
(****************************************************************************)
EXTENDS Integers

CONSTANTS Interval, Timeout, Period, Delay, Skew

(* The timeout leaves room for the longest interval, or for the first       *)
(* heartbeat of the end that is created last.                               *)
ASSUME HeartbeatAssumption ==
  /\ Interval \in Nat /\ Interval >= 2
  /\ Period \in Nat \ {0} /\ Delay \in Nat /\ Skew \in Nat /\ Timeout \in Nat
  /\ 2 * (Timeout + 1 - Period - Delay) >= 3 * Interval
  /\ Timeout >= Skew + Period + Delay

Ends == {1, 2}
Other(e) == 3 - e

(* Silence is not followed beyond this.                                     *)
MaxSilence == Skew + Delay + Timeout + 2 * Period + 1

VARIABLES
  status,      \* of each end: "new"; "first_run" (m_first_run is set) or
               \* "running"; "timed_out" or "closed"
  since_in,    \* the age of m_last_incoming_data_ts
  since_out,   \* the age of m_last_outgoing_data_ts
  interval,    \* m_computed_heartbeat_interval
  since_run,   \* time since the updater called the end or, before that,
               \* since it was created; of a new end, since the other was
  in_flight,   \* ages of the bytes the end has sent and the other not read
  link         \* bytes get through

(* History: for how long the other end has had nothing to expect from this, *)
(* counted while it has not ended.                                          *)
VARIABLE silent_for

stamps == <<since_in, since_out, interval>>
vars == <<status, since_in, since_out, interval, since_run,
          in_flight, link, silent_for>>

Init ==
  /\ status = [e \in Ends |-> "new"]
  /\ since_in = [e \in Ends |-> 0] /\ since_out = [e \in Ends |-> 0]
  /\ interval = [e \in Ends |-> Interval]
  /\ since_run = [e \in Ends |-> 0]
  /\ in_flight = [e \in Ends |-> {}]
  /\ link = TRUE
  /\ silent_for = [e \in Ends |-> 0]

-------------------------------------------------------------------------------
Open(e) == status[e] \in {"first_run", "running"}
Ended(e) == status[e] \in {"timed_out", "closed"}

(* What is queued now is written, unless the link is gone.                  *)
send(e) == in_flight' = IF link THEN [in_flight EXCEPT ![e] = @ \union {0}]
                                ELSE in_flight

(* compute_next_heartbeat_interval(): half the interval to one and a half,  *)
(* cut to whole milliseconds.                                               *)
Intervals == {d \in 0 .. 2 * Interval : 2 * d + 1 >= Interval /\ 2 * d <= 3 * Interval}

(* Mutant: the timeout is measured from the last outgoing data.             *)
OutgoingTooOld(e) == since_out[e] > Timeout

(* Mutant: a connection exactly as old as the timeout is dropped.           *)
AlmostTimedOut(e) == since_in[e] >= Timeout

TimeoutReached(e) == since_in[e] > Timeout

HeartbeatDue(e) == since_out[e] >= interval[e]

Create(e) ==
  /\ status[e] = "new"
  /\ status' = [status EXCEPT ![e] = "first_run"]
  /\ since_run' = [since_run EXCEPT ![e] = 0]
  /\ UNCHANGED <<stamps, in_flight, link, silent_for>>

(* The first call of periodic_update.                                       *)
FirstUpdate(e) ==
  /\ status[e] = "first_run"
  /\ status' = [status EXCEPT ![e] = "running"]
  /\ since_in' = [since_in EXCEPT ![e] = 0]
  /\ since_out' = [since_out EXCEPT ![e] = 0]
  /\ \E d \in Intervals : interval' = [interval EXCEPT ![e] = d]
  /\ send(e)
  /\ since_run' = [since_run EXCEPT ![e] = 0]
  /\ UNCHANGED <<link, silent_for>>

(* Later calls: drop a connection that has been silent for too long ...     *)
TimeOut(e) ==
  /\ status[e] = "running"
  /\ TimeoutReached(e)
  /\ status' = [status EXCEPT ![e] = "timed_out"]
  /\ UNCHANGED <<stamps, since_run, in_flight, link, silent_for>>

(* ... or send a heartbeat when nothing was sent for the interval.          *)
Heartbeat(e) ==
  /\ status[e] = "running"
  /\ ~TimeoutReached(e) /\ HeartbeatDue(e)
  /\ since_out' = [since_out EXCEPT ![e] = 0]
  /\ \E d \in Intervals : interval' = [interval EXCEPT ![e] = d]
  /\ send(e)
  /\ since_run' = [since_run EXCEPT ![e] = 0]
  /\ UNCHANGED <<status, since_in, link, silent_for>>

IdleUpdate(e) ==
  /\ status[e] = "running"
  /\ ~TimeoutReached(e) /\ ~HeartbeatDue(e)
  /\ since_run' = [since_run EXCEPT ![e] = 0]
  /\ UNCHANGED <<status, stamps, in_flight, link, silent_for>>

send_message(e) ==
  /\ Open(e)
  /\ send(e)
  /\ since_out' = [since_out EXCEPT ![e] = 0]
  /\ UNCHANGED <<status, since_in, interval, since_run, link, silent_for>>

(* A read returns everything up to some byte.                               *)
got_data(e) ==
  /\ Open(e)
  /\ \E oldest \in in_flight[Other(e)] :
       in_flight' = [in_flight EXCEPT ![Other(e)] = {a \in @ : a < oldest}]
  /\ since_in' = [since_in EXCEPT ![e] = 0]
  /\ UNCHANGED <<status, since_out, interval, since_run, link, silent_for>>

(* The application drops the connection, or the process dies.               *)
Leave(e) ==
  /\ Open(e)
  /\ status' = [status EXCEPT ![e] = "closed"]
  /\ UNCHANGED <<stamps, since_run, in_flight, link, silent_for>>

(* The end of the other end is noticed by a read or a write.                *)
got_error(e) ==
  /\ Open(e) /\ Ended(Other(e)) /\ link
  /\ status' = [status EXCEPT ![e] = "closed"]
  /\ UNCHANGED <<stamps, since_run, in_flight, link, silent_for>>

(* The network fails under the connection, without a word to either end.    *)
Cut ==
  /\ link /\ \E e \in Ends : Open(e)
  /\ link' = FALSE
  /\ in_flight' = [e \in Ends |-> {}]
  /\ UNCHANGED <<status, stamps, since_run, silent_for>>

-------------------------------------------------------------------------------
InTime ==
  \A e \in Ends :
    /\ Open(e) => since_run[e] < Period /\ \A a \in in_flight[Other(e)] : a < Delay
    /\ status[e] = "new" => since_run[e] < Skew \/ status[Other(e)] = "new"

Silent(e) == ~link \/ Ended(e)

UpTo(limit, age) == IF age < limit THEN age + 1 ELSE limit

Tick ==
  /\ InTime
  /\ since_in' = [e \in Ends |-> IF Open(e) THEN since_in[e] + 1 ELSE since_in[e]]
  /\ since_out' = [e \in Ends |-> IF Open(e) THEN since_out[e] + 1
                                             ELSE since_out[e]]
  /\ since_run' = [e \in Ends |->
       IF Open(e) \/ (status[e] = "new" /\ status[Other(e)] # "new")
       THEN since_run[e] + 1 ELSE since_run[e]]
  /\ in_flight' = [e \in Ends |-> {UpTo(Delay, a) : a \in in_flight[e]}]
  /\ silent_for' = [e \in Ends |-> IF Silent(e) /\ ~Ended(Other(e))
                                   THEN UpTo(MaxSilence, silent_for[e])
                                   ELSE silent_for[e]]
  /\ UNCHANGED <<status, interval, link>>

periodic_update(e) == FirstUpdate(e) \/ TimeOut(e) \/ Heartbeat(e) \/ IdleUpdate(e)

Step(e) == \/ Create(e) \/ periodic_update(e) \/ send_message(e) \/ got_data(e)
           \/ Leave(e) \/ got_error(e)

Next == Tick \/ Cut \/ \E e \in Ends : Step(e)

Spec == Init /\ [][Next]_vars

-------------------------------------------------------------------------------
(* Properties.                                                              *)

(* The ages stay bounded, also those of a connection that carries nothing.  *)
TypeOK ==
  /\ status \in [Ends -> {"new", "first_run", "running", "timed_out", "closed"}]
  /\ link \in BOOLEAN
  /\ since_in \in [Ends -> 0 .. Timeout + Period]
  /\ since_out \in [Ends -> Nat]
  /\ interval \in [Ends -> Intervals \union {Interval}]
  /\ since_run \in [Ends -> 0 .. Skew + Period]
  /\ in_flight \in [Ends -> SUBSET (0 .. Delay)]
  /\ silent_for \in [Ends -> 0 .. MaxSilence]

(* A connection times out only when it has lost the other end: an idle      *)
(* connection between two live ends does not, whatever the random intervals,*)
(* the order of the two updaters and the delay of the bytes.                *)
NoFalseTimeout ==
  [][\A e \in Ends : TimeOut(e) => Silent(Other(e))]_vars

(* A lost end is noticed, though this one goes on sending heartbeats into   *)
(* the void: no connection is open MaxSilence after the other end fell      *)
(* silent.  That is a timeout after the last byte can have come in, or      *)
(* after this end's creation and first update, and at most a period more.   *)
DeadEndNoticed ==
  \A e \in Ends : Open(e) => silent_for[Other(e)] < MaxSilence
===============================================================================
