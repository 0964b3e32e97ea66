-------------------------- MODULE PMuxHeartbeatProofs --------------------------
(* Proofs about PMuxHeartbeat for every interval, timeout, updater period,  *)
(* delay and skew that HeartbeatAssumption allows.                          *)
EXTENDS PMuxHeartbeat, TLAPS

LEMMA OtherEnd ==
  \A e \in Ends : Other(e) \in Ends /\ Other(e) # e /\ Other(Other(e)) = e
  BY DEF Ends, Other

LEMMA IntervalValues ==
  ASSUME NEW d \in Intervals
  PROVE  d \in Nat \ {0} /\ d + Period + Delay <= Timeout + 1
  BY HeartbeatAssumption DEF Intervals

-------------------------------------------------------------------------------
(* The domains and sorts, without bounds on the ages.                       *)
Sorts ==
  /\ status \in [Ends -> {"new", "first_run", "running", "timed_out", "closed"}]
  /\ link \in BOOLEAN
  /\ since_in \in [Ends -> Nat] /\ since_out \in [Ends -> Nat]
  /\ interval \in [Ends -> Intervals \union {Interval}]
  /\ since_run \in [Ends -> Nat]
  /\ in_flight \in [Ends -> SUBSET (0 .. Delay)]
  /\ silent_for \in [Ends -> 0 .. MaxSilence]

LEMMA AgeByOne ==
  ASSUME NEW limit \in Nat, NEW age \in 0 .. limit
  PROVE  UpTo(limit, age) \in 0 .. limit
  BY DEF UpTo

LEMMA MaxSilenceNat == MaxSilence \in Nat
  BY HeartbeatAssumption DEF MaxSilence

LEMMA SortsInit == Init => Sorts
  BY HeartbeatAssumption, MaxSilenceNat DEF Init, Sorts

LEMMA SortOfEnd ==
  ASSUME Sorts, NEW e \in Ends
  PROVE  /\ status[e] \in {"new", "first_run", "running", "timed_out", "closed"}
         /\ since_in[e] \in Nat /\ since_out[e] \in Nat /\ since_run[e] \in Nat
         /\ interval[e] \in Nat \ {0}
         /\ in_flight[e] \in SUBSET (0 .. Delay)
         /\ silent_for[e] \in 0 .. MaxSilence
  BY HeartbeatAssumption, IntervalValues DEF Sorts

LEMMA SendSort ==
  ASSUME Sorts, NEW e \in Ends, send(e)
  PROVE  in_flight' \in [Ends -> SUBSET (0 .. Delay)]
<1>1. 0 \in 0 .. Delay
  BY HeartbeatAssumption
<1>2. in_flight \in [Ends -> SUBSET (0 .. Delay)]
  BY DEF Sorts
<1>3. in_flight[e] \union {0} \in SUBSET (0 .. Delay)
  BY <1>1, <1>2
<1> QED
  BY <1>2, <1>3 DEF send

LEMMA TickSorts == Sorts /\ Tick => Sorts'
<1> SUFFICES ASSUME Sorts, Tick PROVE Sorts'
  OBVIOUS
<1>1. silent_for' \in [Ends -> 0 .. MaxSilence]
  BY AgeByOne, MaxSilenceNat, SortOfEnd DEF Tick
<1>2. ASSUME NEW e \in Ends
      PROVE  {UpTo(Delay, a) : a \in in_flight[e]} \in SUBSET (0 .. Delay)
  BY AgeByOne, SortOfEnd, HeartbeatAssumption
<1>3. in_flight' \in [Ends -> SUBSET (0 .. Delay)]
  BY <1>2 DEF Tick
<1>4. \A e \in Ends : since_in[e] \in Nat /\ since_out[e] \in Nat /\ since_run[e] \in Nat
  BY SortOfEnd
<1>5. since_in' \in [Ends -> Nat]
  <2>1. since_in' = [e \in Ends |-> IF Open(e) THEN since_in[e] + 1 ELSE since_in[e]]
    BY DEF Tick
  <2> QED
    BY <1>4, <2>1
<1>6. since_out' \in [Ends -> Nat]
  <2>1. since_out' = [e \in Ends |-> IF Open(e) THEN since_out[e] + 1 ELSE since_out[e]]
    BY DEF Tick
  <2> QED
    BY <1>4, <2>1
<1>7. since_run' \in [Ends -> Nat]
  <2>1. since_run' = [e \in Ends |->
          IF Open(e) \/ (status[e] = "new" /\ status[Other(e)] # "new")
          THEN since_run[e] + 1 ELSE since_run[e]]
    BY DEF Tick
  <2> QED
    BY <1>4, <2>1
<1>8. UNCHANGED <<status, interval, link>>
  BY DEF Tick
<1> QED
  BY <1>1, <1>3, <1>5, <1>6, <1>7, <1>8 DEF Sorts

LEMMA SortsStep == Sorts /\ [Next]_vars => Sorts'
<1> SUFFICES ASSUME Sorts, [Next]_vars PROVE Sorts'
  OBVIOUS
<1> USE HeartbeatAssumption DEF Sorts, stamps
<1>1. CASE Tick
  BY <1>1, TickSorts
<1>2. CASE Cut
  BY <1>2 DEF Cut
<1>3. ASSUME NEW e \in Ends, Step(e) PROVE Sorts'
  <2>2. CASE Create(e)
    BY <2>2 DEF Create
  <2>3. CASE FirstUpdate(e)
    BY <2>3, SendSort DEF FirstUpdate
  <2>4. CASE TimeOut(e)
    BY <2>4 DEF TimeOut
  <2>5. CASE Heartbeat(e)
    BY <2>5, SendSort DEF Heartbeat
  <2>6. CASE IdleUpdate(e)
    BY <2>6 DEF IdleUpdate
  <2>7. CASE send_message(e)
    BY <2>7, SendSort DEF send_message
  <2>8. CASE got_data(e)
    BY <2>8, OtherEnd DEF got_data
  <2>9. CASE Leave(e) \/ got_error(e)
    BY <2>9 DEF Leave, got_error
  <2> QED
    BY <1>3, <2>2, <2>3, <2>4, <2>5, <2>6, <2>7, <2>8, <2>9
    DEF Step, periodic_update
<1>4. CASE UNCHANGED vars
  BY <1>4 DEF vars
<1> QED
  BY <1>1, <1>2, <1>3, <1>4 DEF Next

-------------------------------------------------------------------------------
(* What bounds the ages of an end: its updater runs in time, a timeout ends *)
(* it, and a heartbeat follows the last data it sent.                       *)
InBounds(e) ==
  /\ since_run[e] <= Skew + Period
  /\ since_in[e] <= Timeout + Period
  /\ status[e] = "new" => since_run[e] <= Skew /\ since_in[e] = 0
  /\ Open(e) => since_run[e] <= Period
  /\ status[e] = "first_run" => since_in[e] <= since_run[e]
  /\ status[e] = "running" =>
       /\ since_in[e] <= Timeout + since_run[e]
       /\ interval[e] \in Intervals
       /\ since_out[e] < interval[e] + since_run[e]

(* The end that was created late, or has not been called by its updater     *)
(* yet, has kept the other waiting for no longer than that; later, what the *)
(* other has read last is no older than what was sent last, or something    *)
(* that will be read in time is on its way.                                 *)
KeptWaiting(e) ==
  LET q == Other(e) IN
  Open(e) =>
    /\ status[q] = "new" => since_in[e] <= since_run[q]
    /\ status[q] = "first_run" => since_in[e] <= Skew + since_run[q]
    /\ status[q] = "running" /\ link =>
         \/ since_in[e] <= since_out[q]
         \/ \E a \in in_flight[q] : since_in[e] + Delay <= Timeout + a

Bounds == \A e \in Ends : InBounds(e)
Evidence == \A e \in Ends : KeptWaiting(e)

IInv == Sorts /\ Bounds /\ Evidence

(* A step of one end leaves what the other end keeps alone.                 *)
LEMMA OthersUnchanged ==
  ASSUME Sorts, NEW e \in Ends, NEW f \in Ends, Step(f), f # e
  PROVE  /\ status'[e] = status[e]
         /\ since_in'[e] = since_in[e] /\ since_out'[e] = since_out[e]
         /\ interval'[e] = interval[e] /\ since_run'[e] = since_run[e]
<1> USE DEF Sorts, stamps
<1>1. CASE Create(f) \/ Leave(f) \/ got_error(f) \/ TimeOut(f)
  BY <1>1 DEF Create, Leave, got_error, TimeOut
<1>2. CASE FirstUpdate(f) \/ Heartbeat(f)
  BY <1>2 DEF FirstUpdate, Heartbeat
<1>3. CASE IdleUpdate(f) \/ send_message(f) \/ got_data(f)
  BY <1>3 DEF IdleUpdate, send_message, got_data
<1> QED
  BY <1>1, <1>2, <1>3 DEF Step, periodic_update

LEMMA TickOfEnd ==
  ASSUME Sorts, Tick, NEW e \in Ends
  PROVE  /\ status'[e] = status[e]
         /\ interval'[e] = interval[e]
         /\ Open(e) => /\ since_run[e] < Period
                       /\ since_in'[e] = since_in[e] + 1
                       /\ since_out'[e] = since_out[e] + 1
                       /\ since_run'[e] = since_run[e] + 1
         /\ status[e] = "new" =>
              /\ since_in'[e] = since_in[e]
              /\ IF status[Other(e)] = "new" THEN since_run'[e] = since_run[e]
                 ELSE since_run[e] < Skew /\ since_run'[e] = since_run[e] + 1
         /\ Ended(e) => since_in'[e] = since_in[e] /\ since_run'[e] = since_run[e]
<1>1. UNCHANGED <<status, interval>>
  BY DEF Tick
<1>2. since_in'[e] = IF Open(e) THEN since_in[e] + 1 ELSE since_in[e]
  BY DEF Tick
<1>3. since_out'[e] = IF Open(e) THEN since_out[e] + 1 ELSE since_out[e]
  BY DEF Tick
<1>4. since_run'[e] = IF Open(e) \/ (status[e] = "new" /\ status[Other(e)] # "new")
                      THEN since_run[e] + 1 ELSE since_run[e]
  BY DEF Tick
<1>5. /\ Open(e) => since_run[e] < Period
      /\ status[e] = "new" => since_run[e] < Skew \/ status[Other(e)] = "new"
  BY DEF Tick, InTime
<1> QED
  BY <1>1, <1>2, <1>3, <1>4, <1>5 DEF Open, Ended

LEMMA BoundsStep == Sorts /\ Bounds /\ [Next]_vars => Bounds'
<1> SUFFICES ASSUME Sorts, Bounds, [Next]_vars, NEW e \in Ends PROVE InBounds(e)'
  BY DEF Bounds
<1>0. InBounds(e)
  BY DEF Bounds
<1>a. /\ since_in[e] \in Nat /\ since_out[e] \in Nat /\ since_run[e] \in Nat
      /\ interval[e] \in Nat \ {0}
      /\ status[e] \in {"new", "first_run", "running", "timed_out", "closed"}
  BY SortOfEnd
<1> USE HeartbeatAssumption
<1>1. CASE Tick
  BY <1>0, <1>a, <1>1, TickOfEnd DEF Open, Ended, InBounds
<1>2. CASE Cut
  BY <1>0, <1>2 DEF Cut, stamps, Open, InBounds
<1>3. ASSUME NEW f \in Ends, Step(f), f # e PROVE InBounds(e)'
  BY <1>0, <1>3, OthersUnchanged DEF Open, InBounds
<1>4. ASSUME Step(e) PROVE InBounds(e)'
  <2> USE DEF Sorts, stamps
  <2>2. CASE Create(e)
    <3>1. /\ status'[e] = "first_run" /\ since_run'[e] = 0 /\ status[e] = "new"
          /\ UNCHANGED since_in
      BY <2>2 DEF Create
    <3> QED
      BY <1>0, <1>a, <3>1 DEF Open, InBounds
  <2>3. CASE FirstUpdate(e)
    <3>1. /\ since_in'[e] = 0 /\ since_out'[e] = 0 /\ since_run'[e] = 0
          /\ interval'[e] \in Intervals
          /\ status'[e] = "running"
      BY <2>3 DEF FirstUpdate, Open
    <3> QED
      BY <3>1, IntervalValues DEF Open, InBounds
  <2>4. CASE TimeOut(e) \/ Leave(e) \/ got_error(e)
    <3>1. /\ status'[e] \in {"timed_out", "closed"}
          /\ UNCHANGED <<since_in, since_run>>
      BY <2>4 DEF TimeOut, Leave, got_error
    <3> QED
      BY <1>0, <3>1 DEF Open, InBounds
  <2>5. CASE Heartbeat(e)
    <3>1. /\ since_out'[e] = 0 /\ since_run'[e] = 0
          /\ interval'[e] \in Intervals
          /\ since_in' = since_in /\ since_in[e] <= Timeout
          /\ status'[e] = "running"
      BY <1>a, <2>5 DEF Heartbeat, TimeoutReached, Open
    <3> QED
      BY <1>a, <3>1, IntervalValues DEF Open, InBounds
  <2>6. CASE IdleUpdate(e)
    <3>1. /\ since_run'[e] = 0 /\ status'[e] = "running"
          /\ UNCHANGED <<status, since_in, since_out, interval>>
          /\ since_in[e] <= Timeout /\ since_out[e] < interval[e]
      BY <1>a, <2>6 DEF IdleUpdate, HeartbeatDue, TimeoutReached, Open
    <3> QED
      BY <1>0, <1>a, <3>1 DEF Open, InBounds
  <2>7. CASE send_message(e)
    <3>1. /\ since_out'[e] = 0
          /\ UNCHANGED <<status, since_in, since_run, interval>>
      BY <2>7 DEF send_message
    <3> QED
      BY <1>0, <1>a, <3>1 DEF Open, InBounds
  <2>8. CASE got_data(e)
    <3>1. /\ since_in'[e] = 0
          /\ UNCHANGED <<status, since_out, since_run, interval>>
      BY <2>8 DEF got_data
    <3> QED
      BY <1>0, <1>a, <3>1 DEF Open, InBounds
  <2> QED
    BY <1>4, <2>2, <2>3, <2>4, <2>5, <2>6, <2>7, <2>8
    DEF Step, periodic_update
<1>5. CASE UNCHANGED vars
  BY <1>0, <1>5 DEF vars, Open, InBounds
<1> QED
  BY <1>1, <1>2, <1>3, <1>4, <1>5 DEF Next
-------------------------------------------------------------------------------
LEMMA TwoEnds == \A e, f \in Ends : f = e \/ f = Other(e)
  BY DEF Ends, Other

(* What is on its way from an end after the end has sent.                   *)
LEMMA SentAtOnce ==
  ASSUME Sorts, NEW e \in Ends, send(e), link
  PROVE  0 \in in_flight'[e]
  BY DEF Sorts, send

LEMMA EvidenceStep == IInv /\ [Next]_vars => Evidence'
<1> SUFFICES ASSUME IInv, [Next]_vars, NEW e \in Ends PROVE KeptWaiting(e)'
  BY DEF Evidence
<1> DEFINE q == Other(e)
<1> HIDE DEF q
<1>q. q \in Ends /\ q # e /\ Other(q) = e /\ q = Other(e)
  BY OtherEnd DEF q
<1>s. Sorts
  BY DEF IInv
<1>b. InBounds(e) /\ InBounds(q)
  BY <1>q DEF IInv, Bounds
<1>k. /\ Open(e) /\ status[q] = "new" => since_in[e] <= since_run[q]
      /\ Open(e) /\ status[q] = "first_run" => since_in[e] <= Skew + since_run[q]
      /\ Open(e) /\ status[q] = "running" /\ link =>
           \/ since_in[e] <= since_out[q]
           \/ \E a \in in_flight[q] : since_in[e] + Delay <= Timeout + a
  BY DEF IInv, Evidence, KeptWaiting, q
<1> DEFINE Kept ==
      /\ Open(e)' /\ status'[q] = "new" => since_in'[e] <= since_run'[q]
      /\ Open(e)' /\ status'[q] = "first_run" => since_in'[e] <= Skew + since_run'[q]
      /\ Open(e)' /\ status'[q] = "running" /\ link' =>
           \/ since_in'[e] <= since_out'[q]
           \/ \E a \in in_flight'[q] : since_in'[e] + Delay <= Timeout + a
<1> SUFFICES Kept
  BY DEF KeptWaiting, q
<1>e. /\ since_in[e] \in Nat
      /\ status[e] \in {"new", "first_run", "running", "timed_out", "closed"}
  BY <1>s, SortOfEnd
<1>f. /\ since_out[q] \in Nat /\ since_run[q] \in Nat
      /\ status[q] \in {"new", "first_run", "running", "timed_out", "closed"}
      /\ interval[q] \in Nat
      /\ in_flight[q] \in SUBSET (0 .. Delay)
  BY <1>q, <1>s, SortOfEnd
<1>c. /\ Skew \in Nat /\ Period \in Nat /\ Delay \in Nat /\ Timeout \in Nat
      /\ Timeout >= Skew + Period + Delay
  BY HeartbeatAssumption
<1>1. CASE Tick
  <2>1. /\ status' = status /\ link' = link
        /\ Open(e) => since_in'[e] = since_in[e] + 1
        /\ Open(e)' <=> Open(e)
    BY <1>1, <1>s, TickOfEnd DEF Tick, Open
  <2>2. /\ status[q] = "new" /\ Open(e) => since_run'[q] = since_run[q] + 1
        /\ Open(q) => since_run'[q] = since_run[q] + 1 /\ since_out'[q] = since_out[q] + 1
    BY <1>1, <1>q, <1>s, TickOfEnd DEF Open
  <2>3. ASSUME Open(e), NEW a \in in_flight[q]
        PROVE  a \in Nat /\ a + 1 \in in_flight'[q]
    <3>1. a < Delay /\ a \in Nat
      BY <1>1, <1>c, <1>f, <1>q, <2>3 DEF Tick, InTime
    <3>2. UpTo(Delay, a) = a + 1
      BY <3>1 DEF UpTo
    <3>3. in_flight'[q] = {UpTo(Delay, b) : b \in in_flight[q]}
      BY <1>1, <1>q DEF Tick
    <3> QED
      BY <3>1, <3>2, <3>3
  <2>4. CASE status[q] = "running" /\ link /\ Open(e)
    <3>1. CASE since_in[e] <= since_out[q]
      BY <1>e, <1>f, <2>1, <2>2, <2>4, <3>1 DEF Open
    <3>2. ASSUME NEW a \in in_flight[q], since_in[e] + Delay <= Timeout + a
          PROVE  since_in'[e] + Delay <= Timeout + (a + 1) /\ a + 1 \in in_flight'[q]
      BY <1>c, <1>e, <2>1, <2>3, <2>4, <3>2
    <3> QED
      BY <1>k, <2>1, <2>4, <3>1, <3>2
  <2> QED
    BY <1>c, <1>e, <1>f, <1>k, <2>1, <2>2, <2>4 DEF Open
<1>2. CASE Cut
  <2>1. /\ ~link' /\ status' = status /\ since_in' = since_in /\ since_run' = since_run
    BY <1>2 DEF Cut, stamps
  <2> QED
    BY <1>k, <2>1 DEF Open
<1>3. ASSUME Step(e) PROVE Kept
  <2>1. /\ status'[q] = status[q] /\ since_out'[q] = since_out[q]
        /\ since_run'[q] = since_run[q]
    BY <1>3, <1>q, <1>s, OthersUnchanged
  <2>2. CASE Create(e)
    <3>1. status[e] = "new" /\ since_in' = since_in /\ link' = link
      BY <2>2 DEF Create, stamps
    <3>2. since_in'[e] = 0
      BY <1>b, <3>1 DEF InBounds
    <3> QED
      BY <1>c, <1>f, <2>1, <3>2
  <2>3. CASE FirstUpdate(e) \/ got_data(e)
    <3>1. since_in'[e] = 0
      BY <1>s, <2>3 DEF FirstUpdate, got_data, Sorts
    <3> QED
      BY <1>c, <1>f, <2>1, <3>1
  <2>4. CASE TimeOut(e) \/ Leave(e) \/ got_error(e)
    <3>1. status'[e] \in {"timed_out", "closed"}
      BY <1>s, <2>4 DEF TimeOut, Leave, got_error, Sorts
    <3> QED
      BY <3>1 DEF Open
  <2>5. CASE Heartbeat(e) \/ send_message(e)
    <3>1. /\ UNCHANGED <<status, since_in, link>> /\ send(e)
      BY <2>5 DEF Heartbeat, send_message
    <3>2. in_flight'[q] = in_flight[q]
      BY <1>q, <1>s, <3>1 DEF send, Sorts
    <3> QED
      BY <1>k, <2>1, <3>1, <3>2 DEF Open
  <2>6. CASE IdleUpdate(e)
    <3>1. UNCHANGED <<status, since_in, link, in_flight>>
      BY <2>6 DEF IdleUpdate, stamps
    <3> QED
      BY <1>k, <2>1, <3>1 DEF Open
  <2> QED
    BY <1>3, <2>2, <2>3, <2>4, <2>5, <2>6 DEF Step, periodic_update
<1>4. ASSUME Step(q) PROVE Kept
  <2>1. /\ status'[e] = status[e] /\ since_in'[e] = since_in[e]
    BY <1>4, <1>q, <1>s, OthersUnchanged
  <2>2. CASE Create(q)
    <3>1. status[q] = "new" /\ status'[q] = "first_run" /\ since_run'[q] = 0
      BY <1>q, <1>s, <2>2 DEF Create, Sorts
    <3>2. Open(e) => since_in[e] <= Skew
      BY <1>b, <1>c, <1>e, <1>f, <1>k, <3>1 DEF InBounds
    <3> QED
      BY <1>c, <2>1, <3>1, <3>2 DEF Open
  <2>3. ASSUME Open(e), status[q] \in {"first_run", "running"}, link, send(q)
        PROVE  \E a \in in_flight'[q] : since_in[e] + Delay <= Timeout + a
    <3>1. CASE since_in[e] + Delay <= Timeout
      <4>1. 0 \in in_flight'[q] /\ since_in[e] + Delay <= Timeout + 0
        BY <1>c, <1>q, <1>s, <2>3, <3>1, SentAtOnce
      <4> QED
        BY <4>1
    <3>2. CASE status[q] = "running" /\ ~(since_in[e] + Delay <= Timeout)
      <4>1. ~(since_in[e] <= since_out[q])
        <5>1. /\ since_out[q] < interval[q] + since_run[q] /\ since_run[q] <= Period
              /\ interval[q] \in Intervals
          BY <1>b, <3>2 DEF InBounds, Open
        <5>2. interval[q] + Period + Delay <= Timeout + 1
          BY <5>1, IntervalValues
        <5> QED
          BY <1>c, <1>e, <1>f, <3>2, <5>1, <5>2
      <4>2. in_flight[q] \subseteq in_flight'[q]
        BY <1>q, <1>s, <2>3 DEF send, Sorts
      <4> QED
        BY <1>k, <2>3, <3>2, <4>1, <4>2
    <3>3. CASE status[q] = "first_run"
      <4>1. since_in[e] <= Skew + since_run[q] /\ since_run[q] <= Period
        BY <1>b, <1>k, <2>3, <3>3 DEF InBounds, Open
      <4> QED
        BY <1>c, <1>e, <1>f, <3>1, <4>1
    <3> QED
      BY <2>3, <3>1, <3>2, <3>3
  <2>4. CASE FirstUpdate(q)
    <3>1. /\ status[q] = "first_run" /\ status'[q] = "running" /\ link' = link /\ send(q)
      BY <1>q, <1>s, <2>4 DEF FirstUpdate, Sorts
    <3> QED
      BY <2>1, <2>3, <3>1 DEF Open
  <2>5. CASE TimeOut(q) \/ Leave(q) \/ got_error(q)
    <3>1. status'[q] \in {"timed_out", "closed"}
      BY <1>q, <1>s, <2>5 DEF TimeOut, Leave, got_error, Sorts
    <3> QED
      BY <3>1
  <2>6. CASE Heartbeat(q)
    <3>1. /\ status[q] = "running" /\ status' = status /\ link' = link /\ send(q)
      BY <2>6 DEF Heartbeat
    <3> QED
      BY <2>1, <2>3, <3>1 DEF Open
  <2>7. CASE send_message(q)
    <3>1. /\ UNCHANGED <<status, link, since_run>> /\ send(q)
      BY <2>7 DEF send_message
    <3> QED
      BY <1>k, <2>1, <2>3, <3>1 DEF Open
  <2>8. CASE IdleUpdate(q)
    <3>1. /\ status[q] = "running" /\ UNCHANGED <<status, link, in_flight, since_out>>
      BY <2>8 DEF IdleUpdate, stamps
    <3> QED
      BY <1>k, <2>1, <3>1 DEF Open
  <2>9. CASE got_data(q)
    <3>1. UNCHANGED <<status, link, since_out, since_run>>
      BY <2>9 DEF got_data
    <3>2. in_flight'[q] = in_flight[q]
      BY <1>q, <1>s, <2>9 DEF got_data, Sorts
    <3> QED
      BY <1>k, <2>1, <3>1, <3>2 DEF Open
  <2> QED
    BY <1>4, <2>2, <2>4, <2>5, <2>6, <2>7, <2>8, <2>9 DEF Step, periodic_update
<1>5. CASE UNCHANGED vars
  BY <1>k, <1>5 DEF vars, Open
<1> QED
  BY <1>1, <1>2, <1>3, <1>4, <1>5, <1>q, TwoEnds DEF Next

(* Every state of every behaviour has its type, the bounds of the ages      *)
(* included.                                                                *)
LEMMA IInvInit == Init => IInv
<1> SUFFICES ASSUME Init PROVE IInv
  OBVIOUS
<1>1. Sorts
  BY SortsInit
<1>2. Bounds
  BY HeartbeatAssumption DEF Init, Bounds, InBounds, Open
<1>3. Evidence
  BY DEF Init, Evidence, KeptWaiting, Open
<1> QED
  BY <1>1, <1>2, <1>3 DEF IInv

LEMMA AlwaysIInv == Spec => []IInv
<1>1. IInv /\ [Next]_vars => IInv'
  BY SortsStep, BoundsStep, EvidenceStep DEF IInv
<1> QED
  BY <1>1, IInvInit, PTL DEF Spec

THEOREM TypeCorrect == Spec => []TypeOK
<1>1. IInv => TypeOK
  <2> SUFFICES ASSUME IInv PROVE TypeOK
    OBVIOUS
  <2>1. \A e \in Ends : since_in[e] \in 0 .. Timeout + Period
    BY SortOfEnd, HeartbeatAssumption DEF IInv, Bounds, InBounds
  <2>2. \A e \in Ends : since_run[e] \in 0 .. Skew + Period
    BY SortOfEnd, HeartbeatAssumption DEF IInv, Bounds, InBounds
  <2> QED
    BY <2>1, <2>2 DEF IInv, Sorts, TypeOK
<1> QED
  BY <1>1, AlwaysIInv, PTL

(* An idle connection between two live ends never times out: what keeps it  *)
(* is KeptWaiting, which bounds the age of the last incoming data by the    *)
(* time of the last heartbeat that was sent or is on its way.               *)
THEOREM HealthyConnectionStays == Spec => NoFalseTimeout
<1>1. ASSUME IInv, IInv', NEW e \in Ends, TimeOut(e) PROVE Silent(Other(e))
  <2> DEFINE q == Other(e)
  <2> HIDE DEF q
  <2>1. q \in Ends /\ q = Other(e)
    BY OtherEnd DEF q
  <2>2. SUFFICES ASSUME ~Silent(q) PROVE FALSE
    BY <2>1
  <2>3. link /\ status[q] \in {"new", "first_run", "running"}
    BY <1>1, <2>1, <2>2, SortOfEnd DEF Silent, Ended, IInv
  <2>4. InBounds(q)
    BY <1>1, <2>1 DEF IInv, Bounds
  <2>5. Open(e) /\ since_in[e] > Timeout
    BY <1>1 DEF TimeOut, TimeoutReached, Open
  <2>6. /\ status[q] = "new" => since_in[e] <= since_run[q]
        /\ status[q] = "first_run" => since_in[e] <= Skew + since_run[q]
        /\ status[q] = "running" =>
             \/ since_in[e] <= since_out[q]
             \/ \E a \in in_flight[q] : since_in[e] + Delay <= Timeout + a
    BY <1>1, <2>1, <2>3, <2>5 DEF IInv, Evidence, KeptWaiting
  <2>7. /\ since_in[e] \in Nat /\ since_out[q] \in Nat /\ since_run[q] \in Nat
        /\ interval[q] \in Nat /\ in_flight[q] \in SUBSET (0 .. Delay)
    BY <1>1, <2>1, SortOfEnd DEF IInv
  <2> USE HeartbeatAssumption
  <2>8. CASE status[q] = "new"
    BY <2>4, <2>5, <2>6, <2>7, <2>8 DEF InBounds
  <2>9. CASE status[q] = "first_run"
    BY <2>4, <2>5, <2>6, <2>7, <2>9 DEF InBounds, Open
  <2>10. CASE status[q] = "running"
    <3>1. /\ since_out[q] < interval[q] + since_run[q] /\ since_run[q] <= Period
          /\ interval[q] \in Intervals
      BY <2>4, <2>10 DEF InBounds, Open
    <3>2. interval[q] + Period + Delay <= Timeout + 1
      BY <3>1, IntervalValues
    <3>3. ~(since_in[e] <= since_out[q])
      BY <2>5, <2>7, <3>1, <3>2
    <3>4. \A a \in in_flight[q] : ~(since_in[e] + Delay <= Timeout + a)
      BY <2>5, <2>7
    <3> QED
      BY <2>6, <2>10, <3>3, <3>4
  <2> QED
    BY <2>3, <2>8, <2>9, <2>10
<1>2. IInv /\ IInv' /\ [Next]_vars =>
        [\A e \in Ends : TimeOut(e) => Silent(Other(e))]_vars
  BY <1>1
<1> QED
  BY <1>2, AlwaysIInv, PTL DEF Spec, NoFalseTimeout

-------------------------------------------------------------------------------
(* A lost end.  What it has sent last was on its way for at most Delay, and *)
(* the other end, if it was created or called late, began to wait at most   *)
(* Skew and a Period later.                                                 *)
Waited(e) ==
  LET q == Other(e) IN
  /\ ~Silent(q) => silent_for[q] = 0
  /\ status[e] = "new" => silent_for[q] <= since_run[e]
  /\ status[e] = "first_run" => silent_for[q] <= Skew + since_run[e]
  /\ status[e] = "running" => silent_for[q] <= since_in[e] + Skew + Period + Delay
  /\ Open(e) => \A a \in in_flight[q] : silent_for[q] <= Skew + a

SilenceHeard == \A e \in Ends : Waited(e)
CutUnderConnection == ~link => \E e \in Ends : status[e] # "new"

LEMMA CutStep == Sorts /\ CutUnderConnection /\ [Next]_vars => CutUnderConnection'
<1> SUFFICES ASSUME Sorts, CutUnderConnection, [Next]_vars, ~link'
             PROVE  \E e \in Ends : status'[e] # "new"
  BY DEF CutUnderConnection
<1>1. CASE Tick \/ UNCHANGED vars
  BY <1>1 DEF CutUnderConnection, Tick, vars
<1>2. CASE Cut
  BY <1>2 DEF Cut, stamps, Open
<1>3. ASSUME NEW f \in Ends, Step(f) PROVE \E e \in Ends : status'[e] # "new"
  <2>1. CASE Create(f) \/ FirstUpdate(f)
    BY <2>1 DEF Create, FirstUpdate, Sorts
  <2>2. CASE TimeOut(f) \/ Leave(f) \/ got_error(f)
    BY <2>2 DEF TimeOut, Leave, got_error, Sorts
  <2>3. CASE Heartbeat(f) \/ IdleUpdate(f) \/ send_message(f) \/ got_data(f)
    BY <2>3 DEF Heartbeat, IdleUpdate, send_message, got_data, stamps, CutUnderConnection
  <2> QED
    BY <1>3, <2>1, <2>2, <2>3 DEF Step, periodic_update
<1> QED
  BY <1>1, <1>2, <1>3 DEF Next

LEMMA SilenceStep ==
  IInv /\ CutUnderConnection /\ SilenceHeard /\ [Next]_vars => SilenceHeard'
<1> SUFFICES ASSUME IInv, CutUnderConnection, SilenceHeard, [Next]_vars, NEW e \in Ends
             PROVE  Waited(e)'
  BY DEF SilenceHeard
<1> DEFINE q == Other(e)
<1> HIDE DEF q
<1>q. q \in Ends /\ q # e /\ Other(q) = e /\ q = Other(e)
  BY OtherEnd DEF q
<1>s. Sorts
  BY DEF IInv
<1>w. /\ ~Silent(q) => silent_for[q] = 0
      /\ status[e] = "new" => silent_for[q] <= since_run[e]
      /\ status[e] = "first_run" => silent_for[q] <= Skew + since_run[e]
      /\ status[e] = "running" => silent_for[q] <= since_in[e] + Skew + Period + Delay
      /\ Open(e) => \A a \in in_flight[q] : silent_for[q] <= Skew + a
  BY DEF SilenceHeard, Waited, q
<1> DEFINE Heard ==
      /\ ~Silent(q)' => silent_for'[q] = 0
      /\ status'[e] = "new" => silent_for'[q] <= since_run'[e]
      /\ status'[e] = "first_run" => silent_for'[q] <= Skew + since_run'[e]
      /\ status'[e] = "running" => silent_for'[q] <= since_in'[e] + Skew + Period + Delay
      /\ Open(e)' => \A a \in in_flight'[q] : silent_for'[q] <= Skew + a
<1> SUFFICES Heard
  BY DEF Waited, q
<1>b. InBounds(e)
  BY DEF IInv, Bounds
<1>e. /\ since_in[e] \in Nat /\ since_run[e] \in Nat
      /\ status[e] \in {"new", "first_run", "running", "timed_out", "closed"}
      /\ silent_for[q] \in Nat /\ silent_for[q] <= MaxSilence
      /\ in_flight[q] \in SUBSET (0 .. Delay)
      /\ status[q] \in {"new", "first_run", "running", "timed_out", "closed"}
  BY <1>q, <1>s, SortOfEnd, MaxSilenceNat
<1>c. Skew \in Nat /\ Period \in Nat \ {0} /\ Delay \in Nat
  BY HeartbeatAssumption
<1>1. CASE Tick
  <2>1. /\ status' = status /\ link' = link
        /\ Open(e) => /\ since_in'[e] = since_in[e] + 1
                      /\ since_run'[e] = since_run[e] + 1
        /\ status[e] = "new" =>
             IF status[q] = "new" THEN since_run'[e] = since_run[e]
             ELSE since_run'[e] = since_run[e] + 1
    BY <1>1, <1>q, <1>s, TickOfEnd DEF Tick
  <2>2. /\ silent_for'[q] <= silent_for[q] + 1 /\ silent_for'[q] \in Nat
        /\ ~Silent(q) => silent_for'[q] = silent_for[q]
    <3>1. silent_for'[q] = IF Silent(q) /\ ~Ended(e) THEN UpTo(MaxSilence, silent_for[q])
                                                    ELSE silent_for[q]
      BY <1>1, <1>q DEF Tick
    <3>2. UpTo(MaxSilence, silent_for[q]) \in Nat /\
            UpTo(MaxSilence, silent_for[q]) <= silent_for[q] + 1
      BY <1>e, MaxSilenceNat DEF UpTo
    <3> QED
      BY <1>e, <3>1, <3>2
  <2>3. ~Silent(q)' <=> ~Silent(q)
    BY <2>1 DEF Silent, Ended
  <2>4. status[e] = "new" /\ status[q] = "new" => silent_for'[q] = silent_for[q]
    <3>1. status[e] = "new" /\ status[q] = "new" => link
      BY <1>q, TwoEnds DEF CutUnderConnection
    <3> QED
      BY <2>2, <3>1 DEF Silent, Ended
  <2>5. ASSUME Open(e), NEW b \in in_flight'[q] PROVE silent_for'[q] <= Skew + b
    <3>1. PICK a \in in_flight[q] : b = UpTo(Delay, a)
      BY <1>1, <1>q, <2>5 DEF Tick
    <3>2. a \in Nat /\ a < Delay
      BY <1>1, <1>c, <1>e, <1>q, <2>5 DEF Tick, InTime
    <3>3. b = a + 1
      BY <3>1, <3>2 DEF UpTo
    <3> QED
      BY <1>c, <1>e, <1>w, <2>2, <2>5, <3>2, <3>3
  <2>6. Open(e)' => Open(e)
    BY <2>1 DEF Open
  <2> QED
    BY <1>c, <1>e, <1>w, <2>1, <2>2, <2>3, <2>4, <2>5, <2>6 DEF Open
<1>2. CASE Cut
  <2>1. /\ status' = status /\ since_in' = since_in /\ since_run' = since_run
        /\ silent_for' = silent_for /\ in_flight'[q] = {} /\ ~link'
    BY <1>2, <1>q DEF Cut, stamps
  <2> QED
    BY <1>w, <2>1 DEF Silent
<1>3. ASSUME Step(e) PROVE Heard
  <2>0. silent_for' = silent_for /\ link' = link
    BY <1>3 DEF Step, periodic_update, Create, FirstUpdate, TimeOut, Heartbeat,
       IdleUpdate, send_message, got_data, Leave, got_error
  <2>1. status'[q] = status[q]
    BY <1>3, <1>q, <1>s, OthersUnchanged
  <2>z. ~Silent(q)' => silent_for'[q] = 0
    BY <1>w, <2>0, <2>1 DEF Silent, Ended
  <2>2. CASE Create(e)
    <3>1. /\ status[e] = "new" /\ status'[e] = "first_run" /\ since_run'[e] = 0
          /\ in_flight' = in_flight
      BY <1>s, <2>2 DEF Create, Sorts
    <3>2. silent_for[q] <= Skew
      BY <1>b, <1>c, <1>e, <1>w, <3>1 DEF InBounds
    <3> QED
      BY <1>c, <1>e, <2>0, <2>z, <3>1, <3>2
  <2>3. CASE FirstUpdate(e)
    <3>1. /\ status[e] = "first_run" /\ status'[e] = "running" /\ since_in'[e] = 0
          /\ send(e)
      BY <1>s, <2>3 DEF FirstUpdate, Sorts
    <3>2. in_flight'[q] = in_flight[q]
      BY <1>q, <1>s, <3>1 DEF send, Sorts
    <3>3. silent_for[q] <= Skew + Period
      BY <1>b, <1>c, <1>e, <1>w, <3>1 DEF InBounds, Open
    <3> QED
      BY <1>c, <1>e, <1>w, <2>0, <2>z, <3>1, <3>2, <3>3 DEF Open
  <2>4. CASE TimeOut(e) \/ Leave(e) \/ got_error(e)
    <3>1. status'[e] \in {"timed_out", "closed"}
      BY <1>s, <2>4 DEF TimeOut, Leave, got_error, Sorts
    <3> QED
      BY <2>z, <3>1 DEF Open
  <2>5. CASE Heartbeat(e) \/ send_message(e)
    <3>1. UNCHANGED <<status, since_in>> /\ send(e)
      BY <2>5 DEF Heartbeat, send_message
    <3>2. in_flight'[q] = in_flight[q]
      BY <1>q, <1>s, <3>1 DEF send, Sorts
    <3>3. since_run'[e] = since_run[e] \/ status[e] = "running"
      BY <2>5 DEF Heartbeat, send_message
    <3> QED
      BY <1>e, <1>w, <2>0, <2>5, <2>z, <3>1, <3>2, <3>3 DEF Heartbeat, send_message, Open
  <2>6. CASE IdleUpdate(e)
    <3>1. status[e] = "running" /\ UNCHANGED <<status, since_in, in_flight>>
      BY <2>6 DEF IdleUpdate, stamps
    <3> QED
      BY <1>w, <2>0, <2>z, <3>1 DEF Open
  <2>7. CASE got_data(e)
    <3>1. UNCHANGED <<status, since_run>> /\ since_in'[e] = 0 /\ Open(e)
      BY <1>s, <2>7 DEF got_data, Sorts
    <3>2. in_flight[q] # {} /\ in_flight'[q] \subseteq in_flight[q]
      BY <1>q, <1>s, <2>7 DEF got_data, Sorts
    <3>3. PICK a \in in_flight[q] : TRUE
      BY <3>2
    <3>4. silent_for[q] <= Skew + Delay
      BY <1>c, <1>e, <1>w, <3>1, <3>3
    <3> QED
      BY <1>c, <1>e, <1>w, <2>0, <2>z, <3>1, <3>2, <3>4 DEF Open
  <2> QED
    BY <1>3, <2>2, <2>3, <2>4, <2>5, <2>6, <2>7 DEF Step, periodic_update
<1>4. ASSUME Step(q) PROVE Heard
  <2>0. silent_for' = silent_for /\ link' = link
    BY <1>4 DEF Step, periodic_update, Create, FirstUpdate, TimeOut, Heartbeat,
       IdleUpdate, send_message, got_data, Leave, got_error
  <2>1. /\ status'[e] = status[e] /\ since_in'[e] = since_in[e]
        /\ since_run'[e] = since_run[e]
    BY <1>4, <1>q, <1>s, OthersUnchanged
  <2>2. Ended(q) => Ended(q)'
    BY <1>4 DEF Step, periodic_update, Create, FirstUpdate, TimeOut, Heartbeat,
       IdleUpdate, send_message, got_data, Leave, got_error, Open, Ended
  <2>3. ~Silent(q)' => silent_for'[q] = 0
    BY <1>w, <2>0, <2>2 DEF Silent
  <2>4. in_flight'[q] \subseteq in_flight[q] \/ silent_for[q] = 0
    <3>1. CASE send(q) /\ ~link
      BY <3>1 DEF send
    <3>2. CASE Open(q) /\ link
      BY <1>w, <3>2 DEF Open, Silent, Ended
    <3>3. CASE UNCHANGED in_flight
      BY <3>3
    <3>4. CASE got_data(q)
      BY <1>q, <1>s, <3>4 DEF got_data, Sorts
    <3> QED
      BY <1>4, <3>1, <3>2, <3>3, <3>4 DEF Step, periodic_update, Create, FirstUpdate,
         TimeOut, Heartbeat, IdleUpdate, send_message, Leave, got_error, Open
  <2>5. \A a \in in_flight'[q] : a \in Nat
    BY <1>4, <1>c, <1>q, <1>s, SortsStep DEF Sorts
  <2> QED
    BY <1>c, <1>w, <2>0, <2>1, <2>3, <2>4, <2>5 DEF Open
<1>5. CASE UNCHANGED vars
  BY <1>w, <1>5 DEF vars, Open, Silent, Ended
<1> QED
  BY <1>1, <1>2, <1>3, <1>4, <1>5, <1>q, TwoEnds DEF Next

(* A lost end is noticed in time.                                           *)
THEOREM LostEndNoticed == Spec => []DeadEndNoticed
<1>1. Init => CutUnderConnection /\ SilenceHeard
  BY OtherEnd, HeartbeatAssumption
  DEF Init, CutUnderConnection, SilenceHeard, Waited, Silent, Ended, Open
<1>2. IInv /\ CutUnderConnection /\ SilenceHeard /\ [Next]_vars =>
        CutUnderConnection' /\ SilenceHeard'
  BY CutStep, SilenceStep DEF IInv
<1>3. IInv /\ SilenceHeard => DeadEndNoticed
  <2> SUFFICES ASSUME IInv, SilenceHeard, NEW e \in Ends, Open(e)
               PROVE  silent_for[Other(e)] < MaxSilence
    BY DEF DeadEndNoticed
  <2>1. InBounds(e) /\ Waited(e)
    BY DEF IInv, Bounds, SilenceHeard
  <2>2. /\ since_in[e] \in Nat /\ since_run[e] \in Nat /\ silent_for[Other(e)] \in Nat
    BY SortOfEnd, OtherEnd, MaxSilenceNat DEF IInv
  <2> QED
    BY <2>1, <2>2, HeartbeatAssumption DEF InBounds, Waited, MaxSilence, Open
<1> QED
  BY <1>1, <1>2, <1>3, AlwaysIInv, PTL DEF Spec
===============================================================================
