--------------------- MODULE InterThreadTransportInvariant ---------------------
(****************************************************************************)
(* The inductive invariant of InterThreadTransport: the events that are on  *)
(* their way between the threads agree with the two ends of every           *)
(* connection, with its counters, and with the calls and callbacks in       *)
(* progress.                                                                *)
(*                                                                          *)
(* A swap moves a queue to the batch it is appended to, an empty one, so    *)
(* the events on their way in a direction are one sequence, batch first,    *)
(* which only grows at its end and shrinks at its front.                    *)
(****************************************************************************)
EXTENDS InterThreadTransportProofs

USE DEF Enqueue, NeedDispatch, TakeId, ErasedBy

Up == at_batch \o ct_at_queue
Down == ct_batch \o at_ct_queue

-------------------------------------------------------------------------------
(* Sequences of events.                                                     *)

Final == {"GOT_ERROR", "DROP_CONNECTION"}

(* Of two events of one connection, the earlier is not its last one, the    *)
(* later not its first one, and messages are numbered upwards.              *)
MayPrecede(a, b) ==
  a.id = b.id =>
    /\ b.type # "NEW_CONNECTION"
    /\ a.type \notin Final
    /\ (a.type = "MESSAGE" /\ b.type = "MESSAGE" => a.n < b.n)

Sequenced(q) == \A i, j \in 1 .. Len(q) : i < j => MayPrecede(q[i], q[j])

(* r is q after event e was pushed, or after its first k events are gone.   *)
Pushed(q, r, e) ==
  /\ Len(r) = Len(q) + 1
  /\ r[Len(q) + 1] = e
  /\ \A i \in 1 .. Len(q) : r[i] = q[i]

Advanced(q, r, k) ==
  /\ k \in 0 .. Len(q)
  /\ Len(r) = Len(q) - k
  /\ \A i \in 1 .. Len(r) : r[i] = q[i + k]

LEMMA AppendPushes ==
  ASSUME NEW S, NEW b \in Seq(S), NEW q \in Seq(S), NEW e \in S
  PROVE  Pushed(b \o q, b \o Append(q, e), e)
<1> DEFINE r == Append(q, e)
<1>1. /\ r \in Seq(S) /\ Len(r) = Len(q) + 1
      /\ \A i \in 1 .. Len(q) : r[i] = q[i]
      /\ r[Len(q) + 1] = e
  BY AppendProperties
<1> HIDE DEF r
<1>2. /\ Len(b \o r) = Len(b) + Len(r)
      /\ \A i \in 1 .. Len(b) + Len(r) :
           (b \o r)[i] = IF i <= Len(b) THEN b[i] ELSE r[i - Len(b)]
  BY <1>1, ConcatProperties
<1>3. /\ Len(b \o q) = Len(b) + Len(q)
      /\ \A i \in 1 .. Len(b) + Len(q) :
           (b \o q)[i] = IF i <= Len(b) THEN b[i] ELSE q[i - Len(b)]
  BY ConcatProperties
<1>4. Len(b) \in Nat /\ Len(q) \in Nat
  BY LenProperties
<1> DEFINE x == b \o q
           y == b \o r
<1> SUFFICES Pushed(x, y, e)
  BY DEF r
<1>5. /\ Len(y) = Len(b) + Len(r) /\ Len(x) = Len(b) + Len(q)
      /\ \A i \in 1 .. Len(b) + Len(r) :
           y[i] = IF i <= Len(b) THEN b[i] ELSE r[i - Len(b)]
      /\ \A i \in 1 .. Len(b) + Len(q) :
           x[i] = IF i <= Len(b) THEN b[i] ELSE q[i - Len(b)]
  BY <1>2, <1>3
<1> HIDE DEF x, y
<1>6. y[Len(x) + 1] = e
  BY <1>1, <1>4, <1>5
<1>7. ASSUME NEW i \in 1 .. Len(x) PROVE y[i] = x[i]
  <2>1. CASE i <= Len(b)
    BY <2>1, <1>1, <1>4, <1>5
  <2>2. CASE i > Len(b)
    <3>1. i - Len(b) \in 1 .. Len(q) /\ i \in 1 .. Len(b) + Len(r) /\ i \in 1 .. Len(b) + Len(q)
      BY <2>2, <1>1, <1>4, <1>5
    <3> QED BY <2>2, <3>1, <1>1, <1>4, <1>5
  <2> QED BY <2>1, <2>2, <1>4, <1>5
<1> QED
  BY <1>1, <1>4, <1>5, <1>6, <1>7 DEF Pushed

(* The first k events of a batch leave: one, or all of them.                *)
LEMMA TailAdvances ==
  ASSUME NEW S, NEW b \in Seq(S), NEW q \in Seq(S), b # <<>>
  PROVE  /\ Advanced(b \o q, Tail(b) \o q, 1)
         /\ Len(b \o q) \in Nat \ {0} /\ (b \o q)[1] = Head(b)
<1> DEFINE t == Tail(b)
           x == b \o q
           y == t \o q
<1>1. /\ t \in Seq(S) /\ Len(t) = Len(b) - 1
      /\ \A i \in 1 .. Len(t) : t[i] = b[i + 1]
  BY HeadTailProperties
<1>2. Len(b) \in Nat \ {0} /\ Len(q) \in Nat /\ Head(b) = b[1]
  BY LenProperties, EmptySeq
<1> HIDE DEF t
<1>3. /\ Len(x) = Len(b) + Len(q)
      /\ \A i \in 1 .. Len(b) + Len(q) :
           x[i] = IF i <= Len(b) THEN b[i] ELSE q[i - Len(b)]
  BY ConcatProperties
<1>4. /\ Len(y) = Len(t) + Len(q)
      /\ \A i \in 1 .. Len(t) + Len(q) :
           y[i] = IF i <= Len(t) THEN t[i] ELSE q[i - Len(t)]
  BY <1>1, ConcatProperties
<1> SUFFICES Advanced(x, y, 1) /\ Len(x) \in Nat \ {0} /\ x[1] = b[1]
  BY <1>2 DEF t
<1> HIDE DEF x, y
<1>5. ASSUME NEW i \in 1 .. Len(y) PROVE y[i] = x[i + 1]
  <2>1. CASE i <= Len(t)
    BY <2>1, <1>1, <1>2, <1>3, <1>4
  <2>2. CASE i > Len(t)
    <3>1. i - Len(t) = (i + 1) - Len(b) /\ ~(i + 1 <= Len(b)) /\ i + 1 \in 1 .. Len(b) + Len(q)
      BY <2>2, <1>1, <1>2, <1>4
    <3>2. y[i] = q[i - Len(t)] /\ x[i + 1] = q[(i + 1) - Len(b)]
      BY <2>2, <3>1, <1>2, <1>3, <1>4
    <3> QED BY <3>1, <3>2
  <2> QED BY <2>1, <2>2, <1>1, <1>2, <1>4
<1> QED
  BY <1>1, <1>2, <1>3, <1>4, <1>5 DEF Advanced

LEMMA CutAdvances ==
  ASSUME NEW S, NEW b \in Seq(S), NEW q \in Seq(S)
  PROVE  /\ Advanced(b \o q, <<>> \o q, Len(b))
         /\ \A i \in 1 .. Len(b) : (b \o q)[i] = b[i]
<1>1. <<>> \o q = q
  BY ConcatEmptySeq
<1>2. Len(b) \in Nat /\ Len(q) \in Nat
  BY LenProperties
<1> DEFINE x == b \o q
<1>3. /\ Len(x) = Len(b) + Len(q)
      /\ \A i \in 1 .. Len(b) + Len(q) :
           x[i] = IF i <= Len(b) THEN b[i] ELSE q[i - Len(b)]
  BY ConcatProperties
<1> SUFFICES Advanced(x, q, Len(b)) /\ \A i \in 1 .. Len(b) : x[i] = b[i]
  BY <1>1
<1> HIDE DEF x
<1>4. ASSUME NEW i \in 1 .. Len(q) PROVE q[i] = x[i + Len(b)]
  <2>1. (i + Len(b)) - Len(b) = i /\ ~(i + Len(b) <= Len(b)) /\ i + Len(b) \in 1 .. Len(b) + Len(q)
    BY <1>2
  <2> QED BY <2>1, <1>2, <1>3
<1> QED
  BY <1>2, <1>3, <1>4 DEF Advanced

LEMMA SequencedPushed ==
  ASSUME NEW q, NEW r, NEW e, Len(q) \in Nat, Pushed(q, r, e), Sequenced(q),
         \A i \in 1 .. Len(q) : MayPrecede(q[i], e)
  PROVE  Sequenced(r)
<1> SUFFICES ASSUME NEW i \in 1 .. Len(r), NEW j \in 1 .. Len(r), i < j
             PROVE  MayPrecede(r[i], r[j])
  BY DEF Sequenced
<1>1. i \in 1 .. Len(q) /\ r[i] = q[i]
  BY DEF Pushed
<1>2. CASE j = Len(q) + 1
  BY <1>1, <1>2 DEF Pushed
<1>3. CASE j # Len(q) + 1
  <2>1. j \in 1 .. Len(q) /\ r[j] = q[j]
    BY <1>3 DEF Pushed
  <2> QED BY <1>1, <2>1 DEF Sequenced
<1> QED BY <1>2, <1>3

LEMMA SequencedAdvanced ==
  ASSUME NEW q, NEW r, NEW k, Len(q) \in Nat, Advanced(q, r, k), Sequenced(q)
  PROVE  Sequenced(r)
<1> SUFFICES ASSUME NEW i \in 1 .. Len(r), NEW j \in 1 .. Len(r), i < j
             PROVE  MayPrecede(r[i], r[j])
  BY DEF Sequenced
<1>1. /\ i + k \in 1 .. Len(q) /\ j + k \in 1 .. Len(q) /\ i + k < j + k
      /\ r[i] = q[i + k] /\ r[j] = q[j + k]
  BY DEF Advanced
<1> QED BY <1>1 DEF Sequenced

LEMMA InQueuePushed ==
  ASSUME NEW q, NEW r, NEW e, Len(q) \in Nat, Pushed(q, r, e), NEW x
  PROVE  InQueue(x, r) <=> InQueue(x, q) \/ x = e
  BY DEF Pushed, InQueue

LEMMA InQueueAdvanced ==
  ASSUME NEW q, NEW r, NEW k, Len(q) \in Nat, Advanced(q, r, k), NEW x
  PROVE  InQueue(x, q) <=> InQueue(x, r) \/ \E i \in 1 .. k : q[i] = x
<1>1. ASSUME NEW i \in 1 .. Len(q), q[i] = x, i > k PROVE InQueue(x, r)
  <2>1. i - k \in 1 .. Len(r) /\ r[i - k] = x
    BY <1>1 DEF Advanced
  <2> QED BY <2>1 DEF InQueue
<1> QED
  BY <1>1 DEF Advanced, InQueue

(* An event on its way is in the queue or in the batch.                     *)
LEMMA InFlight ==
  ASSUME NEW S, NEW b \in Seq(S), NEW q \in Seq(S), NEW x
  PROVE  InQueue(x, b \o q) <=> InQueue(x, b) \/ InQueue(x, q)
<1>1. Len(b) \in Nat /\ Len(q) \in Nat
  BY LenProperties
<1> DEFINE y == b \o q
<1>2. /\ Len(y) = Len(b) + Len(q)
      /\ \A i \in 1 .. Len(b) + Len(q) :
           y[i] = IF i <= Len(b) THEN b[i] ELSE q[i - Len(b)]
  BY ConcatProperties
<1> HIDE DEF y
<1>3. ASSUME NEW i \in 1 .. Len(y), y[i] = x PROVE InQueue(x, b) \/ InQueue(x, q)
  BY <1>1, <1>2, <1>3 DEF InQueue
<1>4. ASSUME NEW i \in 1 .. Len(b), b[i] = x PROVE InQueue(x, y)
  BY <1>1, <1>2, <1>4 DEF InQueue
<1>5. ASSUME NEW i \in 1 .. Len(q), q[i] = x PROVE InQueue(x, y)
  <2>1. i + Len(b) \in 1 .. Len(y) /\ y[i + Len(b)] = x
    BY <1>1, <1>2, <1>5
  <2> QED BY <2>1 DEF InQueue
<1> QED
  BY <1>3, <1>4, <1>5 DEF InQueue, y

(* What a push, the next event and a lost batch mean for the events that    *)
(* are on their way.                                                        *)
Grows(q, r, e) == \A x : InQueue(x, r) <=> InQueue(x, q) \/ x = e

NextLeaves(q, r, e) ==
  /\ \A x : InQueue(x, q) <=> InQueue(x, r) \/ x = e
  /\ \A x : InQueue(x, r) => MayPrecede(e, x)

BatchLeaves(q, r, b) ==
  /\ \A x : InQueue(x, r) => InQueue(x, q)
  /\ \A x : InQueue(x, q) => InQueue(x, r) \/ x.id \in ConnectionsIn(b)

LEMMA PushGrows ==
  ASSUME NEW S, NEW b \in Seq(S), NEW q \in Seq(S), NEW e \in S
  PROVE  /\ Grows(b \o q, b \o Append(q, e), e)
         /\ (/\ Sequenced(b \o q)
             /\ \A x : InQueue(x, b \o q) => MayPrecede(x, e))
              => Sequenced(b \o Append(q, e))
<1> DEFINE x == b \o q
           y == b \o Append(q, e)
<1>1. Len(x) \in Nat
  BY ConcatProperties, LenProperties
<1>2. Pushed(x, y, e)
  BY AppendPushes
<1> SUFFICES /\ Grows(x, y, e)
             /\ Sequenced(x) /\ (\A z : InQueue(z, x) => MayPrecede(z, e)) => Sequenced(y)
  OBVIOUS
<1> HIDE DEF x, y
<1>3. Grows(x, y, e)
  BY <1>1, <1>2, InQueuePushed DEF Grows
<1>4. ASSUME Sequenced(x), \A z : InQueue(z, x) => MayPrecede(z, e) PROVE Sequenced(y)
  <2>1. \A i \in 1 .. Len(x) : MayPrecede(x[i], e)
    BY <1>4 DEF InQueue
  <2> QED BY <1>1, <1>2, <1>4, <2>1, SequencedPushed
<1> QED BY <1>3, <1>4

LEMMA TailLeaves ==
  ASSUME NEW S, NEW b \in Seq(S), NEW q \in Seq(S), b # <<>>, Sequenced(b \o q)
  PROVE  Sequenced(Tail(b) \o q) /\ NextLeaves(b \o q, Tail(b) \o q, Head(b))
<1> DEFINE x == b \o q
           y == Tail(b) \o q
           e == Head(b)
<1>1. Advanced(x, y, 1) /\ Len(x) \in Nat \ {0} /\ x[1] = e
  BY TailAdvances
<1> SUFFICES Sequenced(y) /\ NextLeaves(x, y, e)
  OBVIOUS
<1> HIDE DEF y, e
<1>2. Sequenced(x)
  OBVIOUS
<1> HIDE DEF x
<1>3. Sequenced(y)
  BY <1>1, <1>2, SequencedAdvanced
<1>4. ASSUME NEW z PROVE InQueue(z, x) <=> InQueue(z, y) \/ z = e
  <2>1. InQueue(z, x) <=> InQueue(z, y) \/ \E i \in 1 .. 1 : x[i] = z
    BY <1>1, InQueueAdvanced
  <2> QED BY <1>1, <2>1
<1>5. ASSUME NEW z, InQueue(z, y) PROVE MayPrecede(e, z)
  <2>1. PICK i \in 1 .. Len(y) : y[i] = z
    BY <1>5 DEF InQueue
  <2>2. i + 1 \in 1 .. Len(x) /\ x[i + 1] = z /\ 1 < i + 1 /\ 1 \in 1 .. Len(x)
    BY <1>1, <2>1 DEF Advanced
  <2> QED BY <1>1, <1>2, <2>2 DEF Sequenced
<1> QED BY <1>3, <1>4, <1>5 DEF NextLeaves

LEMMA CutLeaves ==
  ASSUME NEW S, NEW b \in Seq(S), NEW q \in Seq(S), Sequenced(b \o q)
  PROVE  Sequenced(<<>> \o q) /\ BatchLeaves(b \o q, <<>> \o q, b)
<1> DEFINE x == b \o q
           y == <<>> \o q
<1>1. /\ Advanced(x, y, Len(b)) /\ Len(x) \in Nat
      /\ \A i \in 1 .. Len(b) : x[i] = b[i]
  BY CutAdvances, ConcatProperties, LenProperties
<1> SUFFICES Sequenced(y) /\ BatchLeaves(x, y, b)
  OBVIOUS
<1> HIDE DEF y
<1>2. Sequenced(x)
  OBVIOUS
<1> HIDE DEF x
<1>3. Sequenced(y)
  BY <1>1, <1>2, SequencedAdvanced
<1>4. ASSUME NEW z PROVE InQueue(z, x) <=> InQueue(z, y) \/ \E i \in 1 .. Len(b) : x[i] = z
  BY <1>1, InQueueAdvanced
<1>5. ASSUME NEW i \in 1 .. Len(b), NEW z, x[i] = z PROVE z.id \in ConnectionsIn(b)
  BY <1>1, <1>5 DEF ConnectionsIn
<1> QED BY <1>3, <1>4, <1>5 DEF BatchLeaves
-------------------------------------------------------------------------------
(* The invariant.                                                           *)

(* What is on its way to the AT agrees with both ends and the counters: an  *)
(* announcement is of a connection the AT has not heard of, a message was   *)
(* sent and not received yet, an error was met.                             *)
UpFits(e) ==
  /\ e.id <= last_connection_id
  /\ e.type = "NEW_CONNECTION" => e.id \notin at_map /\ at_end[e.id] = "none"
  /\ e.type = "MESSAGE" => up_got[e.id] < e.n /\ e.n <= up_sent[e.id]
  /\ e.type = "GOT_ERROR" => ct_end[e.id] = "error"

DownFits(e) ==
  /\ e.id <= last_connection_id
  /\ e.type = "MESSAGE" => down_got[e.id] < e.n /\ e.n <= down_sent[e.id]
  /\ e.type = "DROP_CONNECTION" => at_end[e.id] = "drop"

UpInv ==
  /\ Sequenced(Up) /\ \A e \in CtAtEvent : InQueue(e, Up) => UpFits(e)
  /\ \A id \in Ids : up_got[id] <= up_sent[id]

DownInv ==
  /\ Sequenced(Down) /\ \A e \in AtCtEvent : InQueue(e, Down) => DownFits(e)
  /\ \A id \in Ids : down_got[id] <= down_sent[id]

(* What an end has still to be told is on its way.                          *)
Announced(id) ==
  id <= last_connection_id /\ id \notin at_map /\ at_end[id] = "none" =>
    \E t \in ConnTypes : InQueue(NewConnectionEvent(id, t), Up)

UpComplete(id) ==
  at_end[id] = "none" =>
    \A n \in Nat : up_got[id] < n /\ n <= up_sent[id] => InQueue(Message(id, n), Up)

(* Once the error has reached its callback, everything before it has too.   *)
ErrorComing(id) ==
  at_end[id] = "none" /\ ct_end[id] = "error" =>
    IF at_frame = [kind |-> "got_error", id |-> id]
    THEN up_got[id] = up_sent[id]
    ELSE InQueue(GotErrorEvent(id), Up)

DownComplete(id) ==
  ct_end[id] = "none" =>
    \A n \in Nat : down_got[id] < n /\ n <= down_sent[id] => InQueue(Message(id, n), Down)

DropComing(id) ==
  ct_end[id] = "none" /\ at_end[id] = "drop" => InQueue(DropEvent(id), Down)

NothingMissing ==
  \A id \in Ids \ lost :
    Announced(id) /\ UpComplete(id) /\ ErrorComing(id) /\ DownComplete(id) /\ DropComing(id)

(* The CT's map against the history of its ends.                            *)
CtSide ==
  /\ ct_call # NoCall => ct_batch = <<>>
  /\ ct_call.op = "got_error" => ct_call.id \in ct_map /\ ct_end[ct_call.id] = "error"
  /\ \A id \in Ids :
       /\ ct_end[id] = "drop" => at_end[id] = "drop"
       /\ id \in ct_map => ct_end[id] = "none" \/ (ct_call.op = "got_error" /\ ct_call.id = id)
       /\ id <= last_connection_id /\ id \notin ct_map => ct_end[id] # "none"
       /\ id > last_connection_id => ct_end[id] = "none"

(* The AT's, and its running callback.                                      *)
AtSide ==
  /\ at_call.op = "drop_connection" => at_call.id \in at_map /\ at_end[at_call.id] = "drop"
  /\ at_frame # NoFrame =>
       /\ at_frame.id \in at_map \/ at_end[at_frame.id] # "none"
       /\ at_frame.kind = "got_error" => ct_end[at_frame.id] = "error"
  /\ \A id \in Ids :
       /\ at_end[id] = "error" => ct_end[id] = "error"
       /\ id \in at_map =>
            /\ id <= last_connection_id
            /\ at_end[id] = "none" \/ (at_call.op = "drop_connection" /\ at_call.id = id)
       /\ id > last_connection_id => at_end[id] = "none"

Inv == UpInv /\ DownInv /\ NothingMissing /\ CtSide /\ AtSide

(* A stale entry of m_ct_map was left by the last event of its connection.  *)
StaleUnfound ==
  /\ \A id \in ct_stale : at_end[id] = "drop"
  /\ \A e \in AtCtEvent : InQueue(e, Down) => e.id \notin ct_stale

-------------------------------------------------------------------------------
(* Types, as the steps need them.                                           *)

LEMMA CtAtEvents ==
  ASSUME NEW e \in CtAtEvent
  PROVE  /\ e.id \in Ids /\ e.id \in Nat
         /\ e.type \in {"NEW_CONNECTION", "MESSAGE", "GOT_ERROR"}
         /\ e.type = "MESSAGE" => e.n \in 1 .. MaxMessages /\ e = Message(e.id, e.n)
         /\ e.type = "NEW_CONNECTION" =>
              e.connection_type \in ConnTypes /\ e = NewConnectionEvent(e.id, e.connection_type)
         /\ e.type = "GOT_ERROR" => e = GotErrorEvent(e.id)
  BY InterThreadTransportAssumption DEF Ids, CtAtEvent, MessageEvents, Message, NewConnectionEvent, GotErrorEvent

LEMMA AtCtEvents ==
  ASSUME NEW e \in AtCtEvent
  PROVE  /\ e.id \in Ids /\ e.id \in Nat
         /\ e.type \in {"MESSAGE", "DROP_CONNECTION"}
         /\ e.type = "MESSAGE" => e.n \in 1 .. MaxMessages /\ e = Message(e.id, e.n)
         /\ e.type = "DROP_CONNECTION" => e = DropEvent(e.id)
  BY InterThreadTransportAssumption DEF Ids, AtCtEvent, MessageEvents, Message, DropEvent

Basics ==
  /\ Up \in Seq(CtAtEvent) /\ Down \in Seq(AtCtEvent)
  /\ last_connection_id \in Nat /\ \A id \in ct_map : id \in Ids /\ id <= last_connection_id
  /\ at_map \subseteq Ids
  /\ ct_call.op \in CtAtOps => ct_call.id \in Ids
  /\ at_call.op \in AtCtOps => at_call.id \in Ids
  /\ at_frame \in Frame \union {NoFrame}
  /\ ct_end \in [Ids -> {"none", "error", "drop"}]
  /\ at_end \in [Ids -> {"none", "error", "drop"}]
  /\ up_sent \in [Ids -> Nat] /\ up_got \in [Ids -> Nat]
  /\ down_sent \in [Ids -> Nat] /\ down_got \in [Ids -> Nat]

LEMMA TypesGiveBasics == TypeOK => Basics
<1> SUFFICES ASSUME TypeOK PROVE Basics
  OBVIOUS
<1>1. Up \in Seq(CtAtEvent) /\ Down \in Seq(AtCtEvent)
  BY ConcatProperties DEF Up, Down, TypeOK
<1>2. last_connection_id \in Nat /\ ct_map \subseteq 1 .. last_connection_id
  BY InterThreadTransportAssumption DEF TypeOK
<1>3. \A id \in ct_map : id \in Ids /\ id <= last_connection_id
  BY <1>2, CtMapIds
<1>4. /\ ct_call.op \in CtAtOps => ct_call.id \in Ids
      /\ at_call.op \in AtCtOps => at_call.id \in Ids
  BY DEF TypeOK, Call, NoCall, CtAtOps, AtCtOps
<1>5. Counters \subseteq [Ids -> Nat]
  BY InterThreadTransportAssumption DEF Counters
<1> QED
  BY <1>1, <1>2, <1>3, <1>4, <1>5 DEF Basics, TypeOK

LEMMA InSeq ==
  ASSUME NEW S, NEW q \in Seq(S), NEW x, InQueue(x, q)
  PROVE  x \in S
  BY ElementOfSeq DEF InQueue

LEMMA TypesGiveBasicsNext == TypeOK' => Basics'
  BY TypesGiveBasics, PTL

(* What each kind of step does to the events on their way.                  *)
LEMMA UpGrows ==
  ASSUME TypeOK, Sequenced(Up), NEW e \in CtAtEvent, NEW op, PushToApp(e, op),
         UNCHANGED at_batch,
         \A x \in CtAtEvent : InQueue(x, Up) => MayPrecede(x, e)
  PROVE  Sequenced(Up') /\ Grows(Up, Up', e)
<1>1. /\ at_batch \in Seq(CtAtEvent) /\ ct_at_queue \in Seq(CtAtEvent)
      /\ Up \in Seq(CtAtEvent)
  BY TypesGiveBasics DEF TypeOK, Basics
<1>2. \A x : InQueue(x, Up) => MayPrecede(x, e)
  BY <1>1, InSeq
<1>3. Up = at_batch \o ct_at_queue /\ Up' = at_batch \o Append(ct_at_queue, e)
  BY DEF Up, PushToApp
<1>4. /\ Grows(at_batch \o ct_at_queue, at_batch \o Append(ct_at_queue, e), e)
      /\ (/\ Sequenced(at_batch \o ct_at_queue)
          /\ \A x : InQueue(x, at_batch \o ct_at_queue) => MayPrecede(x, e))
           => Sequenced(at_batch \o Append(ct_at_queue, e))
  BY <1>1, PushGrows
<1> QED BY <1>2, <1>3, <1>4

LEMMA DownGrows ==
  ASSUME TypeOK, Sequenced(Down), NEW e \in AtCtEvent, NEW op, PushToCom(e, op),
         UNCHANGED ct_batch,
         \A x \in AtCtEvent : InQueue(x, Down) => MayPrecede(x, e)
  PROVE  Sequenced(Down') /\ Grows(Down, Down', e)
<1>1. /\ ct_batch \in Seq(AtCtEvent) /\ at_ct_queue \in Seq(AtCtEvent)
      /\ Down \in Seq(AtCtEvent)
  BY TypesGiveBasics DEF TypeOK, Basics
<1>2. \A x : InQueue(x, Down) => MayPrecede(x, e)
  BY <1>1, InSeq
<1>3. Down = ct_batch \o at_ct_queue /\ Down' = ct_batch \o Append(at_ct_queue, e)
  BY DEF Down, PushToCom
<1>4. /\ Grows(ct_batch \o at_ct_queue, ct_batch \o Append(at_ct_queue, e), e)
      /\ (/\ Sequenced(ct_batch \o at_ct_queue)
          /\ \A x : InQueue(x, ct_batch \o at_ct_queue) => MayPrecede(x, e))
           => Sequenced(ct_batch \o Append(at_ct_queue, e))
  BY <1>1, PushGrows
<1> QED BY <1>2, <1>3, <1>4

LEMMA UpLeaves ==
  ASSUME TypeOK, Sequenced(Up), AtEvent
  PROVE  /\ Head(at_batch) \in CtAtEvent /\ InQueue(Head(at_batch), Up)
         /\ at_batch' = Tail(at_batch) =>
              Sequenced(Up') /\ NextLeaves(Up, Up', Head(at_batch))
         /\ at_batch' = <<>> => Sequenced(Up') /\ BatchLeaves(Up, Up', at_batch)
<1>1. /\ at_batch \in Seq(CtAtEvent) /\ ct_at_queue \in Seq(CtAtEvent) /\ at_batch # <<>>
      /\ ct_at_queue' = ct_at_queue
  BY DEF TypeOK, AtEvent
<1>2. NextLeaves(Up, Tail(at_batch) \o ct_at_queue, Head(at_batch))
  BY <1>1, TailLeaves DEF Up
<1> QED
  BY <1>1, <1>2, TailLeaves, CutLeaves, HeadTailProperties DEF Up, NextLeaves

LEMMA DownLeaves ==
  ASSUME TypeOK, Sequenced(Down), CtEvent
  PROVE  /\ Head(ct_batch) \in AtCtEvent /\ InQueue(Head(ct_batch), Down)
         /\ ct_batch' = Tail(ct_batch) =>
              Sequenced(Down') /\ NextLeaves(Down, Down', Head(ct_batch))
         /\ ct_batch' = <<>> => Sequenced(Down') /\ BatchLeaves(Down, Down', ct_batch)
<1>1. /\ ct_batch \in Seq(AtCtEvent) /\ at_ct_queue \in Seq(AtCtEvent) /\ ct_batch # <<>>
      /\ at_ct_queue' = at_ct_queue
  BY DEF TypeOK, CtEvent
<1>2. NextLeaves(Down, Tail(ct_batch) \o at_ct_queue, Head(ct_batch))
  BY <1>1, TailLeaves DEF Down
<1> QED
  BY <1>1, <1>2, TailLeaves, CutLeaves, HeadTailProperties DEF Down, NextLeaves

(* The next event of the CT comes before all others on their way.           *)
LEMMA NextOfDown ==
  ASSUME TypeOK, Sequenced(Down), CtEvent
  PROVE  \A x : InQueue(x, Down) =>
           x = Head(ct_batch) \/ MayPrecede(Head(ct_batch), x)
<1>1. /\ ct_batch \in Seq(AtCtEvent) /\ at_ct_queue \in Seq(AtCtEvent) /\ ct_batch # <<>>
  BY DEF TypeOK, CtEvent
<1>2. NextLeaves(Down, Tail(ct_batch) \o at_ct_queue, Head(ct_batch))
  BY <1>1, TailLeaves DEF Down
<1> QED BY <1>2 DEF NextLeaves

(* What is left of them when the CT throws the rest of its batch away.      *)
LEMMA DownThrows ==
  ASSUME TypeOK, Sequenced(Down), CtEvent, ct_batch' = <<>>
  PROVE  \A x : InQueue(x, Down') => MayPrecede(Head(ct_batch), x) /\ InQueue(x, Down)
<1> PICK t : t = Tail(ct_batch)
  OBVIOUS
<1>1. /\ ct_batch \in Seq(AtCtEvent) /\ at_ct_queue \in Seq(AtCtEvent) /\ ct_batch # <<>>
      /\ t \in Seq(AtCtEvent) /\ Down' = <<>> \o at_ct_queue
  BY HeadTailProperties DEF TypeOK, CtEvent, Down
<1>2. Sequenced(t \o at_ct_queue) /\ NextLeaves(Down, t \o at_ct_queue, Head(ct_batch))
  BY <1>1, TailLeaves DEF Down
<1>3. BatchLeaves(t \o at_ct_queue, <<>> \o at_ct_queue, t)
  BY <1>1, <1>2, CutLeaves
<1> QED BY <1>1, <1>2, <1>3 DEF NextLeaves, BatchLeaves

(* The connections of a batch are that of its first event and the rest's.   *)
LEMMA ConnectionsOfTail ==
  ASSUME NEW S, NEW b \in Seq(S), b # <<>>, NEW i \in ConnectionsIn(b), i # Head(b).id
  PROVE  i \in ConnectionsIn(Tail(b))
<1> PICK t : t = Tail(b)
  OBVIOUS
<1>1. /\ Len(t) = Len(b) - 1 /\ \A k \in 1 .. Len(t) : t[k] = b[k + 1]
      /\ Head(b) = b[1] /\ Len(b) \in Nat
  BY HeadTailProperties, LenProperties
<1>2. PICK k \in 1 .. Len(b) : b[k].id = i
  BY DEF ConnectionsIn
<1>3. k - 1 \in 1 .. Len(t) /\ t[k - 1] = b[k]
  BY <1>1, <1>2
<1> QED BY <1>2, <1>3 DEF ConnectionsIn

(* A swap moves nothing.                                                    *)
LEMMA SwapKeepsUp == ASSUME TypeOK, WakeUpApp PROVE Up' = Up
  BY ConcatEmptySeq DEF WakeUpApp, TypeOK, Up

LEMMA SwapKeepsDown == ASSUME TypeOK, WakeUpCom PROVE Down' = Down
  BY ConcatEmptySeq DEF WakeUpCom, CtHandlerRuns, TypeOK, Down

-------------------------------------------------------------------------------
(* The steps of the CT keep the invariant.                                  *)

LEMMA InvNewConnection ==
  ASSUME TypeOK, TypeOK', Inv, NEW t \in ConnTypes, NewConnection(t)
  PROVE  Inv'
<1> PICK id : id = last_connection_id + 1
  OBVIOUS
<1> PICK e : e = NewConnectionEvent(id, t)
  OBVIOUS
<1>1. Basics /\ Basics'
  BY TypesGiveBasics, TypesGiveBasicsNext
<1>2. /\ id \in Ids /\ last_connection_id' = id /\ ct_map' = ct_map \union {id}
      /\ PushToApp(e, "new_connection") /\ CtHandlerRuns
      /\ UNCHANGED <<ct_batch, ct_end, at_vars, up_sent, up_got, down_vars, lost>>
  BY DEF NewConnection
<1>e. e.id = id /\ e.type = "NEW_CONNECTION" /\ e \in CtAtEvent
  BY <1>2 DEF NewConnectionEvent, CtAtEvent
<1>u. /\ ct_batch' = ct_batch /\ ct_end' = ct_end /\ at_map' = at_map /\ at_call' = at_call
      /\ at_batch' = at_batch /\ at_frame' = at_frame /\ at_end' = at_end
      /\ up_sent' = up_sent /\ up_got' = up_got /\ lost' = lost
      /\ at_ct_queue' = at_ct_queue /\ down_sent' = down_sent /\ down_got' = down_got
  BY <1>2 DEF at_vars, down_vars
<1>3. Sequenced(Up') /\ Grows(Up, Up', e) /\ Down' = Down
  <2>1. \A x \in CtAtEvent : InQueue(x, Up) => MayPrecede(x, e)
    BY <1>1, <1>e DEF Inv, UpInv, UpFits, Basics, MayPrecede
  <2> QED
    BY <1>2, <1>e, <1>u, <2>1, UpGrows DEF Inv, UpInv, Down
<1>4. UpInv'
  <2>1. ASSUME NEW x \in CtAtEvent, InQueue(x, Up) PROVE UpFits(x)'
    BY <1>1, <1>2, <1>u, <2>1, CtAtEvents DEF Inv, UpInv, UpFits, Basics
  <2>2. UpFits(e)'
    BY <1>1, <1>2, <1>e, <1>u DEF Inv, UpFits, AtSide, Basics
  <2>3. ASSUME NEW x \in CtAtEvent, InQueue(x, Up') PROVE UpFits(x)'
    BY <1>3, <2>1, <2>2, <2>3 DEF Grows
  <2>4. \A i \in Ids : up_got'[i] <= up_sent'[i]
    BY <1>u DEF Inv, UpInv
  <2> QED BY <1>3, <2>3, <2>4 DEF UpInv
<1>n. last_connection_id <= last_connection_id' /\ last_connection_id \in Nat
  BY <1>1, <1>2 DEF Basics
<1>5. DownInv'
  <2>1. ASSUME NEW x \in AtCtEvent, InQueue(x, Down') PROVE DownFits(x)'
    <3>1. DownFits(x) /\ x.id \in Nat
      BY <1>3, <2>1, AtCtEvents DEF Inv, DownInv
    <3> QED BY <1>2, <1>n, <1>u, <3>1 DEF DownFits
  <2> QED BY <1>3, <1>u, <2>1 DEF Inv, DownInv
<1>6. NothingMissing'
  <2> SUFFICES ASSUME NEW i \in Ids \ lost
               PROVE  /\ Announced(i)' /\ UpComplete(i)' /\ ErrorComing(i)'
                      /\ DownComplete(i)' /\ DropComing(i)'
    BY <1>u DEF NothingMissing
  <2>1. /\ Announced(i) /\ UpComplete(i) /\ ErrorComing(i) /\ DownComplete(i) /\ DropComing(i)
    BY DEF Inv, NothingMissing
  <2>2. \A x : InQueue(x, Up) \/ x = e => InQueue(x, Up')
    BY <1>3 DEF Grows
  <2>3. Announced(i)'
    <3>1. CASE i = id
      BY <1>e, <2>2, <3>1 DEF Announced
    <3>2. CASE i # id
      <4>1. i <= last_connection_id' => i <= last_connection_id
        BY <1>2, <1>n, <3>2 DEF Ids
      <4> QED BY <1>u, <2>1, <2>2, <4>1 DEF Announced
    <3> QED BY <3>1, <3>2
  <2>4. UpComplete(i)'
    BY <1>u, <2>1, <2>2 DEF UpComplete
  <2>5. ErrorComing(i)'
    BY <1>u, <2>1, <2>2 DEF ErrorComing
  <2>6. DownComplete(i)' /\ DropComing(i)'
    BY <1>3, <1>u, <2>1 DEF DownComplete, DropComing
  <2> QED BY <2>3, <2>4, <2>5, <2>6
<1>7. CtSide'
  <2>1. ct_call = NoCall /\ ct_batch' = <<>> /\ ct_call'.op = "new_connection"
    BY <1>2, <1>u DEF PushToApp, CtHandlerRuns
  <2>2. ASSUME NEW i \in Ids
        PROVE  /\ ct_end'[i] = "drop" => at_end'[i] = "drop"
               /\ i \in ct_map' => ct_end'[i] = "none"
               /\ i <= last_connection_id' /\ i \notin ct_map' => ct_end'[i] # "none"
               /\ i > last_connection_id' => ct_end'[i] = "none"
    <3>1. /\ ct_end[i] = "drop" => at_end[i] = "drop"
          /\ i \in ct_map => ct_end[i] = "none"
          /\ i <= last_connection_id /\ i \notin ct_map => ct_end[i] # "none"
          /\ i > last_connection_id => ct_end[i] = "none"
      BY <2>1 DEF Inv, CtSide, NoCall
    <3>2. /\ i = id => i > last_connection_id
          /\ i <= last_connection_id' => i <= last_connection_id \/ i = id
          /\ i > last_connection_id' => i > last_connection_id
      BY <1>2, <1>n DEF Ids
    <3> QED BY <1>2, <1>u, <3>1, <3>2
  <2> QED BY <2>1, <2>2 DEF CtSide
<1>8. AtSide'
  BY <1>1, <1>2, <1>u DEF Inv, AtSide, Basics
<1> QED BY <1>4, <1>5, <1>6, <1>7, <1>8 DEF Inv

LEMMA InvSendToAppThread ==
  ASSUME TypeOK, TypeOK', Inv, NEW id \in ct_map, SendToAppThread(id)
  PROVE  Inv'
<1> PICK n : n = up_sent[id] + 1
  OBVIOUS
<1> PICK e : e = Message(id, n)
  OBVIOUS
<1>1. Basics /\ Basics'
  BY TypesGiveBasics, TypesGiveBasicsNext
<1>2. /\ up_sent' = [up_sent EXCEPT ![id] = n] /\ PushToApp(e, "send_to_app_thread")
      /\ ct_call = NoCall
  BY DEF SendToAppThread, CtHandlerRuns
<1>3. /\ last_connection_id' = last_connection_id /\ ct_map' = ct_map /\ ct_batch' = ct_batch
      /\ ct_end' = ct_end /\ at_map' = at_map /\ at_call' = at_call
      /\ at_batch' = at_batch /\ at_frame' = at_frame /\ at_end' = at_end
      /\ up_got' = up_got /\ lost' = lost
      /\ at_ct_queue' = at_ct_queue /\ down_sent' = down_sent /\ down_got' = down_got
  BY DEF SendToAppThread, at_vars, down_vars
<1>4. id \in Ids /\ n \in Nat /\ id <= last_connection_id /\ ct_end[id] = "none"
  BY <1>1, <1>2 DEF Basics, Inv, CtSide, NoCall
<1>5. e.id = id /\ e.type = "MESSAGE" /\ e.n = n /\ e \in CtAtEvent
  <2>1. up_sent[id] \in 0 .. MaxMessages /\ up_sent[id] < MaxMessages
    BY <1>4 DEF SendToAppThread, TypeOK, Counters
  <2>2. n \in 1 .. MaxMessages
    BY <2>1, InterThreadTransportAssumption
  <2> QED BY <1>4, <2>2 DEF Message, CtAtEvent, MessageEvents
<1>6. Sequenced(Up') /\ Grows(Up, Up', e) /\ Down' = Down
  <2>1. ASSUME NEW x \in CtAtEvent, InQueue(x, Up), x.id = id PROVE MayPrecede(x, e)
    <3>1. UpFits(x)
      BY <2>1 DEF Inv, UpInv
    <3>2. x.type # "GOT_ERROR" /\ x.type \notin Final
      BY <1>4, <2>1, <3>1, CtAtEvents DEF UpFits, Final
    <3>3. ASSUME x.type = "MESSAGE" PROVE x.n < n
      <4>1. x.n \in 1 .. MaxMessages /\ x.n <= up_sent[id] /\ up_sent[id] \in Nat
        BY <1>1, <1>4, <2>1, <3>1, <3>3, CtAtEvents DEF UpFits, Basics
      <4> QED BY <4>1
    <3> QED BY <1>5, <3>2, <3>3 DEF MayPrecede
  <2>2. \A x \in CtAtEvent : InQueue(x, Up) => MayPrecede(x, e)
    BY <1>5, <2>1 DEF MayPrecede
  <2> QED
    BY <1>2, <1>3, <1>5, <2>2, UpGrows DEF Inv, UpInv, Down
<1>7. UpInv'
  <2>1. ASSUME NEW x \in CtAtEvent, InQueue(x, Up) PROVE UpFits(x)'
    <3>1. UpFits(x) /\ x.id \in Ids
      BY <2>1, CtAtEvents DEF Inv, UpInv
    <3>2. up_sent[x.id] \in Nat /\ up_sent'[x.id] \in Nat /\ up_sent[x.id] <= up_sent'[x.id]
      <4>1. up_sent[x.id] \in Nat /\ up_sent \in [Ids -> Nat]
        BY <1>1, <3>1 DEF Basics
      <4>2. CASE x.id = id
        BY <1>2, <1>4, <4>1, <4>2
      <4>3. CASE x.id # id
        BY <1>2, <1>4, <3>1, <4>1, <4>3
      <4> QED BY <4>2, <4>3
    <3>3. ASSUME x.type = "MESSAGE" PROVE x.n <= up_sent'[x.id]
      <4>1. x.n \in 1 .. MaxMessages /\ x.n <= up_sent[x.id]
        BY <3>1, <3>3, CtAtEvents DEF UpFits
      <4> QED BY <3>2, <4>1
    <3> QED BY <1>3, <3>1, <3>3 DEF UpFits
  <2>2. UpFits(e)' /\ \A i \in Ids : up_got'[i] <= up_sent'[i]
    BY <1>1, <1>2, <1>3, <1>4, <1>5 DEF Inv, UpInv, UpFits, Basics
  <2> QED BY <1>6, <2>1, <2>2 DEF UpInv, Grows
<1>8. DownInv'
  BY <1>1, <1>3, <1>6, AtCtEvents DEF Inv, DownInv, DownFits, Basics
<1>9. NothingMissing'
  <2>1. ASSUME NEW i \in Ids \ lost
        PROVE  Announced(i)' /\ UpComplete(i)' /\ DownComplete(i)' /\ DropComing(i)'
    <3>1. Announced(i) /\ UpComplete(i) /\ DownComplete(i) /\ DropComing(i)
      BY DEF Inv, NothingMissing
    <3>2. \A x : InQueue(x, Up) \/ x = e => InQueue(x, Up')
      BY <1>6 DEF Grows
    <3>3. Announced(i)' /\ DownComplete(i)' /\ DropComing(i)'
      BY <1>3, <1>6, <3>1, <3>2 DEF Announced, DownComplete, DropComing
    <3>4. UpComplete(i)'
      <4>1. ASSUME NEW m \in Nat, m <= up_sent'[i] PROVE m <= up_sent[i] \/ (i = id /\ m = n)
        <5>1. up_sent \in [Ids -> Nat]
          BY <1>1 DEF Basics
        <5>2. CASE i = id
          <6>1. up_sent[id] \in Nat /\ up_sent'[i] = n
            BY <1>2, <1>4, <5>1, <5>2
          <6> QED BY <4>1, <5>2, <6>1
        <5>3. CASE i # id
          <6>1. up_sent'[i] = up_sent[i]
            BY <1>2, <1>4, <5>1, <5>3
          <6> QED BY <4>1, <6>1
        <5> QED BY <5>2, <5>3
      <4>2. ASSUME NEW m \in Nat, at_end[i] = "none", up_got[i] < m, m <= up_sent'[i]
            PROVE  InQueue(Message(i, m), Up')
        <5>1. CASE m <= up_sent[i]
          BY <3>1, <3>2, <4>2, <5>1 DEF UpComplete
        <5>2. CASE i = id /\ m = n
          BY <3>2, <5>2
        <5> QED BY <4>1, <4>2, <5>1, <5>2
      <4> QED BY <1>3, <4>2 DEF UpComplete
    <3> QED BY <3>3, <3>4
  <2>2. ASSUME NEW i \in Ids \ lost PROVE ErrorComing(i)'
    <3>1. i # id => up_sent'[i] = up_sent[i]
      BY <1>1, <1>2 DEF Basics
    <3> QED BY <1>3, <1>4, <1>6, <3>1 DEF Inv, NothingMissing, ErrorComing, Grows
  <2> QED BY <1>3, <2>1, <2>2 DEF NothingMissing
<1>10. CtSide'
  BY <1>1, <1>2, <1>3 DEF Inv, CtSide, SendToAppThread, PushToApp, CtHandlerRuns, Basics, NoCall
<1>11. AtSide'
  BY <1>1, <1>3 DEF Inv, AtSide, Basics
<1> QED BY <1>7, <1>8, <1>9, <1>10, <1>11 DEF Inv

LEMMA InvGotError ==
  ASSUME TypeOK, TypeOK', Inv, NEW id \in ct_map, GotError(id)
  PROVE  Inv'
<1> PICK e : e = GotErrorEvent(id)
  OBVIOUS
<1>1. Basics /\ Basics'
  BY TypesGiveBasics, TypesGiveBasicsNext
<1>2. /\ ct_end' = [ct_end EXCEPT ![id] = "error"] /\ PushToApp(e, "got_error")
      /\ ct_call = NoCall
  BY DEF GotError, CtHandlerRuns
<1>3. /\ last_connection_id' = last_connection_id /\ ct_map' = ct_map /\ ct_batch' = ct_batch
      /\ at_map' = at_map /\ at_call' = at_call
      /\ at_batch' = at_batch /\ at_frame' = at_frame /\ at_end' = at_end
      /\ up_sent' = up_sent /\ up_got' = up_got /\ lost' = lost
      /\ at_ct_queue' = at_ct_queue /\ down_sent' = down_sent /\ down_got' = down_got
  BY DEF GotError, at_vars, down_vars
<1>4. id \in Ids /\ id <= last_connection_id /\ ct_end[id] = "none"
  BY <1>1, <1>2 DEF Basics, Inv, CtSide, NoCall
<1>5. e.id = id /\ e.type = "GOT_ERROR" /\ e \in CtAtEvent
  BY <1>4 DEF GotErrorEvent, CtAtEvent
<1>6. Sequenced(Up') /\ Grows(Up, Up', e) /\ Down' = Down
  <2>1. \A x \in CtAtEvent : InQueue(x, Up) => MayPrecede(x, e)
    BY <1>1, <1>4, <1>5, CtAtEvents DEF Inv, UpInv, UpFits, Basics, MayPrecede, Final
  <2> QED
    BY <1>2, <1>3, <1>5, <2>1, UpGrows DEF Inv, UpInv, Down
<1>7. UpInv'
  <2>1. ASSUME NEW x \in CtAtEvent, InQueue(x, Up) PROVE UpFits(x)'
    BY <1>1, <1>2, <1>3, <1>4, <2>1, CtAtEvents DEF Inv, UpInv, UpFits, Basics
  <2>2. UpFits(e)' /\ \A i \in Ids : up_got'[i] <= up_sent'[i]
    BY <1>1, <1>2, <1>3, <1>4, <1>5 DEF Inv, UpInv, UpFits, Basics
  <2> QED BY <1>6, <2>1, <2>2 DEF UpInv, Grows
<1>8. DownInv'
  BY <1>1, <1>3, <1>6, AtCtEvents DEF Inv, DownInv, DownFits, Basics
<1>9. NothingMissing'
  <2>1. ASSUME NEW i \in Ids \ lost
        PROVE  Announced(i)' /\ UpComplete(i)' /\ DownComplete(i)' /\ DropComing(i)'
    BY <1>1, <1>2, <1>3, <1>4, <1>6 DEF Inv, NothingMissing, Announced, UpComplete,
       DownComplete, DropComing, Basics, Grows
  <2>2. ASSUME NEW i \in Ids \ lost PROVE ErrorComing(i)'
    <3>1. i # id => ct_end'[i] = ct_end[i]
      BY <1>1, <1>2 DEF Basics
    <3>2. at_frame # [kind |-> "got_error", id |-> id]
      BY <1>4 DEF Inv, AtSide, NoFrame
    <3>3. CASE i = id
      BY <1>3, <1>6, <3>2, <3>3 DEF ErrorComing, Grows
    <3>4. CASE i # id
      BY <1>3, <1>6, <3>1, <3>4 DEF Inv, NothingMissing, ErrorComing, Grows
    <3> QED BY <3>3, <3>4
  <2> QED BY <1>3, <2>1, <2>2 DEF NothingMissing
<1>10. CtSide'
  <2>1. ct_batch' = <<>> /\ ct_call'.op = "got_error" /\ ct_call'.id = id
    BY <1>2, <1>3, <1>5 DEF GotError, CtHandlerRuns, PushToApp
  <2>2. \A i \in Ids : ct_end'[i] = IF i = id THEN "error" ELSE ct_end[i]
    BY <1>1, <1>2, <1>4 DEF Basics
  <2>3. ct_call.op # "got_error"
    BY <1>2 DEF NoCall
  <2>4. ASSUME NEW i \in Ids
        PROVE  /\ ct_end'[i] = "drop" => at_end'[i] = "drop"
               /\ i \in ct_map' => ct_end'[i] = "none" \/ i = id
               /\ i <= last_connection_id' /\ i \notin ct_map' => ct_end'[i] # "none"
               /\ i > last_connection_id' => ct_end'[i] = "none"
    <3>1. CASE i = id
      <4>1. ~(i > last_connection_id)
        BY <1>1, <1>4, <3>1, InterThreadTransportAssumption DEF Basics, Ids
      <4> QED BY <1>3, <2>2, <3>1, <4>1
    <3>2. CASE i # id
      BY <1>3, <2>2, <2>3, <3>2 DEF Inv, CtSide
    <3> QED BY <3>1, <3>2
  <2> QED BY <1>3, <1>4, <2>1, <2>2, <2>4 DEF CtSide
<1>11. AtSide'
  BY <1>1, <1>2, <1>3, <1>4 DEF Inv, AtSide, Basics
<1> QED BY <1>7, <1>8, <1>9, <1>10, <1>11 DEF Inv

LEMMA InvCtReturn ==
  ASSUME TypeOK, TypeOK', Inv, CtReturn
  PROVE  Inv'
<1>1. Basics /\ Basics'
  BY TypesGiveBasics, TypesGiveBasicsNext
<1>2. ct_map' = ct_map \ ErasedBy(ct_call, "got_error") /\ ct_call' = NoCall
  BY DEF CtReturn
<1>3. /\ last_connection_id' = last_connection_id /\ ct_batch' = ct_batch
      /\ ct_end' = ct_end /\ at_map' = at_map /\ at_call' = at_call
      /\ at_batch' = at_batch /\ at_frame' = at_frame /\ at_end' = at_end
      /\ ct_at_queue' = ct_at_queue /\ up_sent' = up_sent /\ up_got' = up_got /\ lost' = lost
      /\ at_ct_queue' = at_ct_queue /\ down_sent' = down_sent /\ down_got' = down_got
  BY DEF CtReturn, at_vars, down_vars
<1>4. Up' = Up /\ Down' = Down
  BY <1>3 DEF Up, Down
<1>5. UpInv' /\ DownInv' /\ NothingMissing'
  BY <1>3, <1>4 DEF Inv, UpInv, UpFits, DownInv, DownFits, NothingMissing, Announced,
     UpComplete, ErrorComing, DownComplete, DropComing
<1>6. CtSide'
  BY <1>1, <1>2, <1>3 DEF Inv, CtSide, Basics, NoCall
<1>7. AtSide'
  BY <1>1, <1>3 DEF Inv, AtSide, Basics
<1> QED BY <1>5, <1>6, <1>7 DEF Inv

LEMMA InvWakeUpCom ==
  ASSUME TypeOK, TypeOK', Inv, WakeUpCom
  PROVE  Inv'
<1>1. /\ last_connection_id' = last_connection_id /\ ct_map' = ct_map /\ ct_call' = ct_call
      /\ ct_end' = ct_end /\ at_map' = at_map /\ at_call' = at_call
      /\ at_batch' = at_batch /\ at_frame' = at_frame /\ at_end' = at_end
      /\ ct_at_queue' = ct_at_queue /\ up_sent' = up_sent /\ up_got' = up_got /\ lost' = lost
      /\ down_sent' = down_sent /\ down_got' = down_got
  BY DEF WakeUpCom, at_vars, up_vars
<1>2. Up' = Up /\ Down' = Down
  BY <1>1, SwapKeepsDown DEF Up
<1>3. UpInv' /\ DownInv' /\ NothingMissing'
  BY <1>1, <1>2 DEF Inv, UpInv, UpFits, DownInv, DownFits, NothingMissing, Announced,
     UpComplete, ErrorComing, DownComplete, DropComing
<1>4. CtSide' /\ AtSide'
  BY <1>1 DEF Inv, CtSide, AtSide, WakeUpCom, CtHandlerRuns
<1> QED BY <1>3, <1>4 DEF Inv

(* What every event of a batch of the CT has in common.                     *)
LEMMA CtEventFacts ==
  ASSUME TypeOK, Inv, CtEvent
  PROVE  /\ Head(ct_batch) \in AtCtEvent /\ DownFits(Head(ct_batch))
         /\ ct_call = NoCall /\ ct_call' = NoCall
         /\ last_connection_id' = last_connection_id
         /\ at_map' = at_map /\ at_call' = at_call /\ at_batch' = at_batch
         /\ at_frame' = at_frame /\ at_end' = at_end
         /\ ct_at_queue' = ct_at_queue /\ up_sent' = up_sent /\ up_got' = up_got
         /\ at_ct_queue' = at_ct_queue /\ down_sent' = down_sent
         /\ Up' = Up
<1>1. Head(ct_batch) \in AtCtEvent /\ DownFits(Head(ct_batch))
  BY DownLeaves DEF Inv, DownInv
<1>2. ct_call = NoCall
  BY DEF Inv, CtSide, CtEvent
<1> QED
  BY <1>1, <1>2 DEF CtEvent, at_vars, up_vars, Up

(* An event finds only an entry that is in use.                             *)
LEMMA FoundInUse ==
  ASSUME TypeOK, Inv, StaleUnfound, CtEvent, Found(Head(ct_batch).id)
  PROVE  Head(ct_batch).id \in ct_map
  BY DownLeaves DEF Inv, DownInv, StaleUnfound, Found

(* The events of other connections are where they were.                     *)
LEMMA OthersStay ==
  ASSUME NEW q, NEW r, NEW e, NextLeaves(q, r, e), NEW i, i # e.id
  PROVE  /\ \A n : InQueue(Message(i, n), q) => InQueue(Message(i, n), r)
         /\ \A t : InQueue(NewConnectionEvent(i, t), q) => InQueue(NewConnectionEvent(i, t), r)
         /\ InQueue(GotErrorEvent(i), q) => InQueue(GotErrorEvent(i), r)
         /\ InQueue(DropEvent(i), q) => InQueue(DropEvent(i), r)
<1>1. \A x : InQueue(x, q) /\ x.id = i => InQueue(x, r)
  BY DEF NextLeaves
<1>2. \A n, t : /\ Message(i, n).id = i /\ NewConnectionEvent(i, t).id = i
                /\ GotErrorEvent(i).id = i /\ DropEvent(i).id = i
  BY DEF Message, NewConnectionEvent, GotErrorEvent, DropEvent
<1> QED BY <1>1, <1>2

LEMMA OthersNotLost ==
  ASSUME NEW q, NEW r, NEW b, BatchLeaves(q, r, b), NEW i, i \notin ConnectionsIn(b)
  PROVE  /\ \A n : InQueue(Message(i, n), q) => InQueue(Message(i, n), r)
         /\ \A t : InQueue(NewConnectionEvent(i, t), q) => InQueue(NewConnectionEvent(i, t), r)
         /\ InQueue(GotErrorEvent(i), q) => InQueue(GotErrorEvent(i), r)
         /\ InQueue(DropEvent(i), q) => InQueue(DropEvent(i), r)
<1>1. \A x : InQueue(x, q) /\ x.id = i => InQueue(x, r)
  BY DEF BatchLeaves
<1>2. \A n, t : /\ Message(i, n).id = i /\ NewConnectionEvent(i, t).id = i
                /\ GotErrorEvent(i).id = i /\ DropEvent(i).id = i
  BY DEF Message, NewConnectionEvent, GotErrorEvent, DropEvent
<1> QED BY <1>1, <1>2

LEMMA InvCtSkip ==
  ASSUME TypeOK, TypeOK', Inv, CtSkip
  PROVE  Inv'
<1> PICK e : e = Head(ct_batch)
  OBVIOUS
<1>1. Basics /\ Basics'
  BY TypesGiveBasics, TypesGiveBasicsNext
<1>2. /\ CtEvent /\ e.id \notin ct_map /\ ct_batch' = Tail(ct_batch)
      /\ ct_map' = ct_map /\ ct_end' = ct_end /\ down_got' = down_got /\ lost' = lost
  BY DEF CtSkip, Found
<1>3. /\ e \in AtCtEvent /\ DownFits(e) /\ ct_call = NoCall /\ ct_call' = NoCall
      /\ last_connection_id' = last_connection_id
      /\ at_map' = at_map /\ at_call' = at_call /\ at_frame' = at_frame /\ at_end' = at_end
      /\ up_sent' = up_sent /\ up_got' = up_got /\ down_sent' = down_sent /\ Up' = Up
  BY <1>2, CtEventFacts
<1>4. Sequenced(Down') /\ NextLeaves(Down, Down', e)
  BY <1>2, DownLeaves DEF Inv, DownInv
<1>5. ct_end[e.id] # "none"
  BY <1>2, <1>3, AtCtEvents DEF Inv, CtSide, DownFits
<1>6. UpInv'
  BY <1>2, <1>3 DEF Inv, UpInv, UpFits
<1>7. DownInv'
  BY <1>2, <1>3, <1>4 DEF Inv, DownInv, DownFits, NextLeaves
<1>8. NothingMissing'
  <2>1. ASSUME NEW i \in Ids \ lost
        PROVE  Announced(i)' /\ UpComplete(i)' /\ ErrorComing(i)'
    BY <1>2, <1>3 DEF Inv, NothingMissing, Announced, UpComplete, ErrorComing
  <2>2. ASSUME NEW i \in Ids \ lost PROVE DownComplete(i)' /\ DropComing(i)'
    <3>1. CASE i = e.id
      BY <1>2, <1>5, <3>1 DEF DownComplete, DropComing
    <3>2. CASE i # e.id
      BY <1>2, <1>3, <1>4, <3>2, OthersStay DEF Inv, NothingMissing, DownComplete, DropComing
    <3> QED BY <3>1, <3>2
  <2> QED BY <1>2, <2>1, <2>2 DEF NothingMissing
<1>9. CtSide' /\ AtSide'
  BY <1>2, <1>3 DEF Inv, CtSide, AtSide
<1> QED BY <1>6, <1>7, <1>8, <1>9 DEF Inv

LEMMA InvCtMessage ==
  ASSUME TypeOK, TypeOK', Inv, StaleUnfound, CtMessage
  PROVE  Inv'
<1> PICK e : e = Head(ct_batch)
  OBVIOUS
<1>1. Basics /\ Basics'
  BY TypesGiveBasics, TypesGiveBasicsNext
<1>2. /\ CtEvent /\ e.id \in ct_map /\ e.type = "MESSAGE" /\ ct_batch' = Tail(ct_batch)
      /\ down_got' = [down_got EXCEPT ![e.id] = e.n]
      /\ ct_map' = ct_map /\ ct_end' = ct_end /\ lost' = lost
  BY FoundInUse DEF CtMessage
<1>3. /\ e \in AtCtEvent /\ DownFits(e) /\ ct_call = NoCall /\ ct_call' = NoCall
      /\ last_connection_id' = last_connection_id
      /\ at_map' = at_map /\ at_call' = at_call /\ at_frame' = at_frame /\ at_end' = at_end
      /\ up_sent' = up_sent /\ up_got' = up_got /\ down_sent' = down_sent /\ Up' = Up
  BY <1>2, CtEventFacts
<1>4. Sequenced(Down') /\ NextLeaves(Down, Down', e)
  BY <1>2, DownLeaves DEF Inv, DownInv
<1>5. /\ e.id \in Ids /\ e.n \in Nat /\ e = Message(e.id, e.n)
      /\ down_got[e.id] < e.n /\ e.n <= down_sent[e.id]
      /\ \A i \in Ids : down_got'[i] = IF i = e.id THEN e.n ELSE down_got[i]
  <2>1. e.id \in Ids /\ e.n \in 1 .. MaxMessages /\ e = Message(e.id, e.n)
    BY <1>2, <1>3, AtCtEvents
  <2> QED BY <1>1, <1>2, <1>3, <2>1, InterThreadTransportAssumption DEF DownFits, Basics
<1>6. UpInv'
  BY <1>2, <1>3 DEF Inv, UpInv, UpFits
<1>7. DownInv'
  <2>1. ASSUME NEW x \in AtCtEvent, InQueue(x, Down') PROVE DownFits(x)'
    <3>1. DownFits(x) /\ MayPrecede(e, x) /\ x.id \in Ids
      BY <1>4, <2>1, AtCtEvents DEF Inv, DownInv, NextLeaves
    <3> QED BY <1>2, <1>3, <1>5, <3>1 DEF DownFits, MayPrecede
  <2> QED BY <1>3, <1>4, <1>5, <2>1 DEF Inv, DownInv
<1>8. NothingMissing'
  <2>1. ASSUME NEW i \in Ids \ lost
        PROVE  Announced(i)' /\ UpComplete(i)' /\ ErrorComing(i)'
    BY <1>2, <1>3 DEF Inv, NothingMissing, Announced, UpComplete, ErrorComing
  <2>2. ASSUME NEW i \in Ids \ lost PROVE DownComplete(i)' /\ DropComing(i)'
    <3>1. CASE i = e.id
      <4>1. ASSUME NEW n \in Nat, ct_end[i] = "none", e.n < n, n <= down_sent[i]
            PROVE  InQueue(Message(i, n), Down')
        <5>1. down_got[i] \in Nat /\ down_got[i] < n
          BY <1>1, <1>5, <3>1, <4>1 DEF Basics
        <5>2. InQueue(Message(i, n), Down)
          BY <4>1, <5>1 DEF Inv, NothingMissing, DownComplete
        <5>3. Message(i, n).n = n /\ n # e.n
          BY <1>5, <4>1 DEF Message
        <5>4. Message(i, n) # e
          BY <5>3
        <5> QED BY <1>4, <5>2, <5>4 DEF NextLeaves
      <4>2. DropEvent(i).type = "DROP_CONNECTION"
        BY DEF DropEvent
      <4>3. InQueue(DropEvent(i), Down) => InQueue(DropEvent(i), Down')
        BY <1>2, <1>4, <4>2 DEF NextLeaves
      <4> QED
        BY <1>2, <1>3, <1>5, <3>1, <4>1, <4>3
        DEF Inv, NothingMissing, DownComplete, DropComing
    <3>2. CASE i # e.id
      BY <1>2, <1>3, <1>4, <1>5, <3>2, OthersStay
      DEF Inv, NothingMissing, DownComplete, DropComing
    <3> QED BY <3>1, <3>2
  <2> QED BY <1>2, <2>1, <2>2 DEF NothingMissing
<1>9. CtSide' /\ AtSide'
  BY <1>2, <1>3 DEF Inv, CtSide, AtSide
<1> QED BY <1>6, <1>7, <1>8, <1>9 DEF Inv

LEMMA InvCtDrop ==
  ASSUME TypeOK, TypeOK', Inv, StaleUnfound, CtDrop \/ CtDropThrows
  PROVE  Inv'
<1> PICK e : e = Head(ct_batch)
  OBVIOUS
<1>1. Basics /\ Basics'
  BY TypesGiveBasics, TypesGiveBasicsNext
<1>2. /\ CtEvent /\ e.id \in ct_map /\ e.type = "DROP_CONNECTION"
      /\ ct_map' = ct_map \ {e.id}
      /\ ct_end' = [ct_end EXCEPT ![e.id] = "drop"]
      /\ down_got' = down_got /\ lost \subseteq lost'
  BY FoundInUse DEF CtDrop, CtDropThrows
<1>3. /\ e \in AtCtEvent /\ DownFits(e) /\ ct_call = NoCall /\ ct_call' = NoCall
      /\ last_connection_id' = last_connection_id
      /\ at_map' = at_map /\ at_call' = at_call /\ at_frame' = at_frame /\ at_end' = at_end
      /\ up_sent' = up_sent /\ up_got' = up_got /\ down_sent' = down_sent /\ Up' = Up
  BY <1>2, CtEventFacts
<1>4. /\ Sequenced(Down') /\ \A x : InQueue(x, Down') => InQueue(x, Down)
      /\ \A i \in Ids \ lost' : i # e.id =>
           /\ \A n : InQueue(Message(i, n), Down) => InQueue(Message(i, n), Down')
           /\ InQueue(DropEvent(i), Down) => InQueue(DropEvent(i), Down')
  <2>1. CASE CtDrop
    <3>1. Sequenced(Down') /\ NextLeaves(Down, Down', e)
      BY <1>2, <2>1, DownLeaves DEF Inv, DownInv, CtDrop
    <3> QED BY <3>1, OthersStay DEF NextLeaves
  <2>2. CASE CtDropThrows
    <3>1. Sequenced(Down') /\ BatchLeaves(Down, Down', ct_batch)
      BY <1>2, <2>2, DownLeaves DEF Inv, DownInv, CtDropThrows
    <3>2. ct_batch \in Seq(AtCtEvent) /\ ct_batch # <<>>
      BY <1>2 DEF TypeOK, CtEvent
    <3>3. \A i \in Ids \ lost' : i # e.id => i \notin ConnectionsIn(ct_batch)
      BY <2>2, <3>2, ConnectionsOfTail DEF CtDropThrows
    <3> QED BY <3>1, <3>3, OthersNotLost DEF BatchLeaves
  <2> QED BY <2>1, <2>2
<1>5. /\ e.id \in Ids /\ e.id <= last_connection_id
      /\ ct_end[e.id] = "none" /\ at_end[e.id] = "drop"
      /\ \A i \in Ids : ct_end'[i] = IF i = e.id THEN "drop" ELSE ct_end[i]
  BY <1>1, <1>2, <1>3, AtCtEvents DEF Inv, CtSide, DownFits, Basics, NoCall
<1>6. UpInv'
  <2>1. ASSUME NEW x \in CtAtEvent, InQueue(x, Up) PROVE UpFits(x)'
    BY <1>2, <1>3, <1>5, <2>1, CtAtEvents DEF Inv, UpInv, UpFits
  <2> QED BY <1>3, <2>1 DEF Inv, UpInv
<1>7. DownInv'
  BY <1>2, <1>3, <1>4 DEF Inv, DownInv, DownFits
<1>8. NothingMissing'
  <2>1. ASSUME NEW i \in Ids \ lost'
        PROVE  Announced(i)' /\ UpComplete(i)' /\ ErrorComing(i)'
    BY <1>2, <1>3, <1>5 DEF Inv, NothingMissing, Announced, UpComplete, ErrorComing
  <2>2. ASSUME NEW i \in Ids \ lost' PROVE DownComplete(i)' /\ DropComing(i)'
    <3>1. CASE i = e.id
      BY <1>5, <3>1 DEF DownComplete, DropComing
    <3>2. CASE i # e.id
      BY <1>2, <1>3, <1>4, <1>5, <3>2
      DEF Inv, NothingMissing, DownComplete, DropComing
    <3> QED BY <3>1, <3>2
  <2> QED BY <1>2, <2>1, <2>2 DEF NothingMissing
<1>9. CtSide'
  <2>1. ASSUME NEW i \in Ids
        PROVE  /\ ct_end'[i] = "drop" => at_end'[i] = "drop"
               /\ i \in ct_map' => ct_end'[i] = "none"
               /\ i <= last_connection_id' /\ i \notin ct_map' => ct_end'[i] # "none"
               /\ i > last_connection_id' => ct_end'[i] = "none"
    <3>1. CASE i = e.id
      <4>1. ~(i > last_connection_id)
        BY <1>1, <1>5, <3>1, InterThreadTransportAssumption DEF Basics, Ids
      <4> QED BY <1>2, <1>3, <1>5, <3>1, <4>1
    <3>2. CASE i # e.id
      BY <1>2, <1>3, <1>5, <3>2 DEF Inv, CtSide, NoCall
    <3> QED BY <3>1, <3>2
  <2> QED BY <1>3, <2>1 DEF CtSide, NoCall
<1>10. AtSide'
  <2>1. at_frame # NoFrame => at_frame.id \in Ids
    BY <1>1 DEF Basics, Frame
  <2> QED BY <1>3, <1>5, <2>1 DEF Inv, AtSide
<1> QED BY <1>6, <1>7, <1>8, <1>9, <1>10 DEF Inv

LEMMA InvCtAssertionFailure ==
  ASSUME TypeOK, TypeOK', Inv, CtAssertionFailure
  PROVE  Inv'
<1>1. /\ CtEvent /\ ct_batch' = <<>> /\ lost' = lost \union ConnectionsIn(ct_batch)
      /\ ct_map' = ct_map /\ ct_end' = ct_end /\ down_got' = down_got
  BY DEF CtAssertionFailure
<1>2. /\ ct_call = NoCall /\ ct_call' = NoCall
      /\ last_connection_id' = last_connection_id
      /\ at_map' = at_map /\ at_call' = at_call /\ at_frame' = at_frame /\ at_end' = at_end
      /\ up_sent' = up_sent /\ up_got' = up_got /\ down_sent' = down_sent /\ Up' = Up
  BY <1>1, CtEventFacts
<1>3. Sequenced(Down') /\ BatchLeaves(Down, Down', ct_batch)
  BY <1>1, DownLeaves DEF Inv, DownInv
<1>4. UpInv'
  BY <1>1, <1>2 DEF Inv, UpInv, UpFits
<1>5. DownInv'
  BY <1>1, <1>2, <1>3 DEF Inv, DownInv, DownFits, BatchLeaves
<1>6. NothingMissing'
  <2>1. ASSUME NEW i \in Ids \ lost, i \notin ConnectionsIn(ct_batch)
        PROVE  Announced(i)' /\ UpComplete(i)' /\ ErrorComing(i)'
               /\ DownComplete(i)' /\ DropComing(i)'
    <3>1. Announced(i)' /\ UpComplete(i)' /\ ErrorComing(i)'
      BY <1>1, <1>2 DEF Inv, NothingMissing, Announced, UpComplete, ErrorComing
    <3>2. DownComplete(i)' /\ DropComing(i)'
      BY <1>1, <1>2, <1>3, <2>1, OthersNotLost
      DEF Inv, NothingMissing, DownComplete, DropComing
    <3> QED BY <3>1, <3>2
  <2> QED BY <1>1, <2>1 DEF NothingMissing
<1>7. CtSide' /\ AtSide'
  BY <1>1, <1>2 DEF Inv, CtSide, AtSide
<1> QED BY <1>4, <1>5, <1>6, <1>7 DEF Inv

-------------------------------------------------------------------------------
(* The steps of the AT keep the invariant.                                  *)

LEMMA InvAttachFactory ==
  ASSUME TypeOK, TypeOK', Inv, NEW t \in ConnTypes, AttachFactory(t)
  PROVE  Inv'
<1>1. /\ last_connection_id' = last_connection_id /\ ct_map' = ct_map /\ ct_call' = ct_call
      /\ ct_batch' = ct_batch /\ ct_end' = ct_end /\ at_map' = at_map /\ at_call' = at_call
      /\ at_batch' = at_batch /\ at_frame' = at_frame /\ at_end' = at_end
      /\ ct_at_queue' = ct_at_queue /\ up_sent' = up_sent /\ up_got' = up_got /\ lost' = lost
      /\ at_ct_queue' = at_ct_queue /\ down_sent' = down_sent /\ down_got' = down_got
  BY DEF AttachFactory, ct_vars, up_vars, down_vars
<1>2. Up' = Up /\ Down' = Down
  BY <1>1 DEF Up, Down
<1>3. UpInv' /\ DownInv' /\ NothingMissing'
  BY <1>1, <1>2 DEF Inv, UpInv, UpFits, DownInv, DownFits, NothingMissing, Announced,
     UpComplete, ErrorComing, DownComplete, DropComing
<1>4. CtSide' /\ AtSide'
  BY <1>1 DEF Inv, CtSide, AtSide
<1> QED BY <1>3, <1>4 DEF Inv

LEMMA InvAttachAgain ==
  ASSUME TypeOK, TypeOK', Inv, NEW t \in ConnTypes, AttachAgain(t)
  PROVE  Inv'
<1>1. /\ last_connection_id' = last_connection_id /\ ct_map' = ct_map /\ ct_call' = ct_call
      /\ ct_batch' = ct_batch /\ ct_end' = ct_end /\ at_map' = at_map /\ at_call' = at_call
      /\ at_end' = at_end
      /\ ct_at_queue' = ct_at_queue /\ up_sent' = up_sent /\ up_got' = up_got
      /\ at_ct_queue' = at_ct_queue /\ down_sent' = down_sent /\ down_got' = down_got
  BY DEF AttachAgain, ct_vars, up_vars, down_vars
<1>2. /\ at_call = NoCall /\ at_frame # NoFrame /\ at_frame' = NoFrame /\ at_batch' = <<>>
      /\ lost' = lost \union ConnectionsIn(at_batch)
                 \union {id \in at_map : at_frame = [kind |-> "got_error", id |-> id]}
  BY DEF AttachAgain, AppRuns
<1>3. Sequenced(Up') /\ BatchLeaves(Up, Up', at_batch) /\ Down' = Down
  <2>1. at_batch \in Seq(CtAtEvent) /\ ct_at_queue \in Seq(CtAtEvent)
    BY DEF TypeOK
  <2> QED BY <1>1, <1>2, <2>1, CutLeaves DEF Inv, UpInv, Up, Down
<1>4. UpInv'
  BY <1>1, <1>3 DEF Inv, UpInv, UpFits, BatchLeaves
<1>5. DownInv' /\ CtSide'
  BY <1>1, <1>3 DEF Inv, DownInv, DownFits, CtSide
<1>6. NothingMissing'
  <2> SUFFICES ASSUME NEW i \in Ids \ lost'
               PROVE  /\ Announced(i)' /\ UpComplete(i)' /\ ErrorComing(i)'
                      /\ DownComplete(i)' /\ DropComing(i)'
    BY DEF NothingMissing
  <2>1. i \in Ids \ lost /\ i \notin ConnectionsIn(at_batch)
    BY <1>2
  <2>2. Announced(i)' /\ UpComplete(i)'
    BY <1>1, <1>3, <2>1, OthersNotLost DEF Inv, NothingMissing, Announced, UpComplete
  <2>3. DownComplete(i)' /\ DropComing(i)'
    BY <1>1, <1>3, <2>1 DEF Inv, NothingMissing, DownComplete, DropComing
  <2>4. ErrorComing(i)'
    <3>1. NoFrame # [kind |-> "got_error", id |-> i]
      BY DEF NoFrame
    <3>2. CASE at_frame = [kind |-> "got_error", id |-> i]
      <4>1. i \notin at_map
        BY <1>2, <3>2
      <4>2. at_end[i] # "none"
        BY <1>2, <3>2, <4>1 DEF Inv, AtSide
      <4> QED BY <1>1, <4>2 DEF ErrorComing
    <3>3. CASE at_frame # [kind |-> "got_error", id |-> i]
      BY <1>1, <1>2, <1>3, <2>1, <3>1, <3>3, OthersNotLost DEF Inv, NothingMissing, ErrorComing
    <3> QED BY <3>2, <3>3
  <2> QED BY <2>2, <2>3, <2>4
<1>7. AtSide'
  BY <1>1, <1>2 DEF Inv, AtSide
<1> QED BY <1>4, <1>5, <1>6, <1>7 DEF Inv

LEMMA InvSendToComThread ==
  ASSUME TypeOK, TypeOK', Inv, NEW id \in at_map, SendToComThread(id)
  PROVE  Inv'
<1> PICK n : n = down_sent[id] + 1
  OBVIOUS
<1> PICK e : e = Message(id, n)
  OBVIOUS
<1>1. Basics /\ Basics'
  BY TypesGiveBasics, TypesGiveBasicsNext
<1>2. /\ down_sent' = [down_sent EXCEPT ![id] = n] /\ PushToCom(e, "send_to_com_thread")
      /\ at_call = NoCall
  BY DEF SendToComThread, AppRuns
<1>3. /\ last_connection_id' = last_connection_id /\ ct_map' = ct_map /\ ct_call' = ct_call
      /\ ct_batch' = ct_batch /\ ct_end' = ct_end /\ at_map' = at_map
      /\ at_batch' = at_batch /\ at_frame' = at_frame /\ at_end' = at_end
      /\ ct_at_queue' = ct_at_queue /\ up_sent' = up_sent /\ up_got' = up_got /\ lost' = lost
      /\ down_got' = down_got
  BY DEF SendToComThread, ct_vars, up_vars
<1>4. id \in Ids /\ n \in Nat /\ id <= last_connection_id /\ at_end[id] = "none"
  BY <1>1, <1>2 DEF Basics, Inv, AtSide, NoCall
<1>5. e.id = id /\ e.type = "MESSAGE" /\ e.n = n /\ e \in AtCtEvent
  <2>1. down_sent[id] \in 0 .. MaxMessages /\ down_sent[id] < MaxMessages
    BY <1>4 DEF SendToComThread, TypeOK, Counters
  <2>2. n \in 1 .. MaxMessages
    BY <2>1, InterThreadTransportAssumption
  <2> QED BY <1>4, <2>2 DEF Message, AtCtEvent, MessageEvents
<1>6. Sequenced(Down') /\ Grows(Down, Down', e) /\ Up' = Up
  <2>1. ASSUME NEW x \in AtCtEvent, InQueue(x, Down), x.id = id PROVE MayPrecede(x, e)
    <3>1. DownFits(x)
      BY <2>1 DEF Inv, DownInv
    <3>2. x.type \notin Final
      BY <1>4, <2>1, <3>1, AtCtEvents DEF DownFits, Final
    <3>3. ASSUME x.type = "MESSAGE" PROVE x.n < n
      <4>1. x.n \in 1 .. MaxMessages /\ x.n <= down_sent[id] /\ down_sent[id] \in Nat
        BY <1>1, <1>4, <2>1, <3>1, <3>3, AtCtEvents DEF DownFits, Basics
      <4> QED BY <4>1
    <3> QED BY <1>5, <3>2, <3>3 DEF MayPrecede
  <2>2. \A x \in AtCtEvent : InQueue(x, Down) => MayPrecede(x, e)
    BY <1>5, <2>1 DEF MayPrecede
  <2> QED
    BY <1>2, <1>3, <1>5, <2>2, DownGrows DEF Inv, DownInv, Up
<1>7. DownInv'
  <2>1. ASSUME NEW x \in AtCtEvent, InQueue(x, Down) PROVE DownFits(x)'
    <3>1. DownFits(x) /\ x.id \in Ids
      BY <2>1, AtCtEvents DEF Inv, DownInv
    <3>2. down_sent[x.id] \in Nat /\ down_sent'[x.id] \in Nat /\ down_sent[x.id] <= down_sent'[x.id]
      <4>1. down_sent[x.id] \in Nat /\ down_sent \in [Ids -> Nat]
        BY <1>1, <3>1 DEF Basics
      <4>2. CASE x.id = id
        BY <1>2, <1>4, <4>1, <4>2
      <4>3. CASE x.id # id
        BY <1>2, <1>4, <3>1, <4>1, <4>3
      <4> QED BY <4>2, <4>3
    <3>3. ASSUME x.type = "MESSAGE" PROVE x.n <= down_sent'[x.id]
      <4>1. x.n \in 1 .. MaxMessages /\ x.n <= down_sent[x.id]
        BY <3>1, <3>3, AtCtEvents DEF DownFits
      <4> QED BY <3>2, <4>1
    <3> QED BY <1>3, <3>1, <3>3 DEF DownFits
  <2>2. DownFits(e)' /\ \A i \in Ids : down_got'[i] <= down_sent'[i]
    BY <1>1, <1>2, <1>3, <1>4, <1>5 DEF Inv, DownInv, DownFits, Basics
  <2> QED BY <1>6, <2>1, <2>2 DEF DownInv, Grows
<1>8. UpInv'
  BY <1>1, <1>3, <1>6, CtAtEvents DEF Inv, UpInv, UpFits, Basics
<1>9. NothingMissing'
  BY <1>1, <1>2, <1>3, <1>4, <1>6 DEF Inv, NothingMissing, Announced, UpComplete,
     ErrorComing, DownComplete, DropComing, Basics, Grows
<1>10. CtSide'
  BY <1>1, <1>3 DEF Inv, CtSide, Basics
<1>11. AtSide'
  BY <1>1, <1>2, <1>3 DEF Inv, AtSide, PushToCom, Basics, NoCall
<1> QED BY <1>7, <1>8, <1>9, <1>10, <1>11 DEF Inv

LEMMA InvDropConnection ==
  ASSUME TypeOK, TypeOK', Inv, NEW id \in at_map, DropConnection(id)
  PROVE  Inv'
<1> PICK e : e = DropEvent(id)
  OBVIOUS
<1>1. Basics /\ Basics'
  BY TypesGiveBasics, TypesGiveBasicsNext
<1>2. /\ at_end' = [at_end EXCEPT ![id] = "drop"] /\ PushToCom(e, "drop_connection")
      /\ at_call = NoCall
  BY DEF DropConnection, AppRuns
<1>3. /\ last_connection_id' = last_connection_id /\ ct_map' = ct_map /\ ct_call' = ct_call
      /\ ct_batch' = ct_batch /\ ct_end' = ct_end /\ at_map' = at_map
      /\ at_batch' = at_batch /\ at_frame' = at_frame
      /\ ct_at_queue' = ct_at_queue /\ up_sent' = up_sent /\ up_got' = up_got /\ lost' = lost
      /\ down_sent' = down_sent /\ down_got' = down_got
  BY DEF DropConnection, ct_vars, up_vars
<1>4. /\ id \in Ids /\ id <= last_connection_id /\ at_end[id] = "none"
      /\ \A i \in Ids : at_end'[i] = IF i = id THEN "drop" ELSE at_end[i]
  BY <1>1, <1>2 DEF Basics, Inv, AtSide, NoCall
<1>5. e.id = id /\ e.type = "DROP_CONNECTION" /\ e \in AtCtEvent
  BY <1>4 DEF DropEvent, AtCtEvent
<1>6. Sequenced(Down') /\ Grows(Down, Down', e) /\ Up' = Up
  <2>1. \A x \in AtCtEvent : InQueue(x, Down) => MayPrecede(x, e)
    BY <1>1, <1>4, <1>5, AtCtEvents DEF Inv, DownInv, DownFits, Basics, MayPrecede, Final
  <2> QED
    BY <1>2, <1>3, <1>5, <2>1, DownGrows DEF Inv, DownInv, Up
<1>7. DownInv'
  <2>1. ASSUME NEW x \in AtCtEvent, InQueue(x, Down) PROVE DownFits(x)'
    BY <1>1, <1>2, <1>3, <1>4, <2>1, AtCtEvents DEF Inv, DownInv, DownFits, Basics
  <2>2. DownFits(e)' /\ \A i \in Ids : down_got'[i] <= down_sent'[i]
    BY <1>1, <1>2, <1>3, <1>4, <1>5 DEF Inv, DownInv, DownFits, Basics
  <2> QED BY <1>6, <2>1, <2>2 DEF DownInv, Grows
<1>8. UpInv'
  <2>1. ASSUME NEW x \in CtAtEvent, InQueue(x, Up) PROVE UpFits(x)'
    BY <1>3, <1>4, <2>1, CtAtEvents DEF Inv, UpInv, UpFits
  <2> QED BY <1>3, <1>6, <2>1 DEF Inv, UpInv
<1>9. NothingMissing'
  <2> SUFFICES ASSUME NEW i \in Ids \ lost
               PROVE  /\ Announced(i)' /\ UpComplete(i)' /\ ErrorComing(i)'
                      /\ DownComplete(i)' /\ DropComing(i)'
    BY <1>3 DEF NothingMissing
  <2>1. /\ Announced(i) /\ UpComplete(i) /\ ErrorComing(i) /\ DownComplete(i) /\ DropComing(i)
    BY DEF Inv, NothingMissing
  <2>2. \A x : InQueue(x, Down) \/ x = e => InQueue(x, Down')
    BY <1>6 DEF Grows
  <2>3. at_end'[i] = "none" => at_end[i] = "none"
    BY <1>4
  <2>4. Announced(i)' /\ UpComplete(i)' /\ ErrorComing(i)'
    BY <1>3, <1>6, <2>1, <2>3 DEF Announced, UpComplete, ErrorComing
  <2>5. DownComplete(i)'
    BY <1>3, <2>1, <2>2 DEF DownComplete
  <2>6. DropComing(i)'
    <3>1. i = id \/ at_end'[i] = at_end[i]
      BY <1>4
    <3> QED BY <1>3, <2>1, <2>2, <3>1 DEF DropComing
  <2> QED BY <2>4, <2>5, <2>6
<1>10. CtSide'
  BY <1>3, <1>4 DEF Inv, CtSide
<1>11. AtSide'
  <2>1. at_call'.op = "drop_connection" /\ at_call'.id = id /\ at_call.op # "drop_connection"
    BY <1>2, <1>5 DEF PushToCom, NoCall
  <2>2. at_frame # NoFrame => at_frame.id \in Ids
    BY <1>1 DEF Basics, Frame
  <2>3. ~(id > last_connection_id)
    BY <1>1, <1>4, InterThreadTransportAssumption DEF Basics, Ids
  <2> QED BY <1>3, <1>4, <2>1, <2>2, <2>3 DEF Inv, AtSide
<1> QED BY <1>7, <1>8, <1>9, <1>10, <1>11 DEF Inv

LEMMA InvAtReturn ==
  ASSUME TypeOK, TypeOK', Inv, AtReturn
  PROVE  Inv'
<1>1. Basics /\ Basics'
  BY TypesGiveBasics, TypesGiveBasicsNext
<1>2. at_map' = at_map \ ErasedBy(at_call, "drop_connection") /\ at_call' = NoCall
  BY DEF AtReturn
<1>3. /\ last_connection_id' = last_connection_id /\ ct_map' = ct_map /\ ct_call' = ct_call
      /\ ct_batch' = ct_batch /\ ct_end' = ct_end
      /\ at_batch' = at_batch /\ at_frame' = at_frame /\ at_end' = at_end
      /\ ct_at_queue' = ct_at_queue /\ up_sent' = up_sent /\ up_got' = up_got /\ lost' = lost
      /\ at_ct_queue' = at_ct_queue /\ down_sent' = down_sent /\ down_got' = down_got
  BY DEF AtReturn, ct_vars, up_vars
<1>4. Up' = Up /\ Down' = Down
  BY <1>3 DEF Up, Down
<1>5. ASSUME NEW i, i \in at_map, i \notin at_map' PROVE at_end[i] = "drop"
  BY <1>2, <1>5 DEF Inv, AtSide
<1>6. UpInv' /\ DownInv'
  BY <1>2, <1>3, <1>4 DEF Inv, UpInv, UpFits, DownInv, DownFits
<1>7. NothingMissing'
  BY <1>3, <1>4, <1>5 DEF Inv, NothingMissing, Announced,
     UpComplete, ErrorComing, DownComplete, DropComing
<1>8. CtSide'
  BY <1>3 DEF Inv, CtSide
<1>9. AtSide'
  <2>1. ASSUME at_frame # NoFrame PROVE at_frame.id \in at_map' \/ at_end[at_frame.id] # "none"
    BY <1>5, <2>1 DEF Inv, AtSide
  <2>2. ASSUME NEW i \in at_map' PROVE i <= last_connection_id /\ at_end[i] = "none"
    BY <1>1, <1>2, <2>2 DEF Inv, AtSide, Basics
  <2> QED BY <1>2, <1>3, <2>1, <2>2 DEF Inv, AtSide, NoCall
<1> QED BY <1>6, <1>7, <1>8, <1>9 DEF Inv

LEMMA InvWakeUpApp ==
  ASSUME TypeOK, TypeOK', Inv, WakeUpApp
  PROVE  Inv'
<1>1. /\ last_connection_id' = last_connection_id /\ ct_map' = ct_map /\ ct_call' = ct_call
      /\ ct_batch' = ct_batch /\ ct_end' = ct_end /\ at_map' = at_map /\ at_call' = at_call
      /\ at_frame' = at_frame /\ at_end' = at_end /\ up_sent' = up_sent /\ up_got' = up_got
      /\ at_ct_queue' = at_ct_queue /\ down_sent' = down_sent /\ down_got' = down_got
      /\ lost' = lost
  BY DEF WakeUpApp, ct_vars, down_vars
<1>2. Up' = Up /\ Down' = Down
  BY <1>1, SwapKeepsUp DEF Down
<1>3. UpInv' /\ DownInv' /\ NothingMissing'
  BY <1>1, <1>2 DEF Inv, UpInv, UpFits, DownInv, DownFits, NothingMissing, Announced,
     UpComplete, ErrorComing, DownComplete, DropComing
<1>4. CtSide' /\ AtSide'
  BY <1>1 DEF Inv, CtSide, AtSide
<1> QED BY <1>3, <1>4 DEF Inv

(* What every event of a batch of the AT has in common.                     *)
LEMMA AtEventFacts ==
  ASSUME TypeOK, Inv, AtEvent
  PROVE  /\ Head(at_batch) \in CtAtEvent /\ UpFits(Head(at_batch))
         /\ at_call = NoCall /\ at_call' = NoCall /\ at_frame = NoFrame
         /\ last_connection_id' = last_connection_id
         /\ ct_map' = ct_map /\ ct_call' = ct_call /\ ct_batch' = ct_batch /\ ct_end' = ct_end
         /\ at_end' = at_end /\ up_sent' = up_sent
         /\ down_sent' = down_sent /\ down_got' = down_got /\ Down' = Down
<1>1. Head(at_batch) \in CtAtEvent /\ UpFits(Head(at_batch))
  BY UpLeaves DEF Inv, UpInv
<1> QED
  BY <1>1 DEF AtEvent, AtIdle, ct_vars, down_vars, Down

(* What the AT's steps through a batch leave as it was.                     *)
LEMMA DownKept ==
  ASSUME TypeOK, Inv, AtEvent
  PROVE  /\ DownInv' /\ CtSide'
         /\ \A i \in Ids \ lost : DownComplete(i)' /\ DropComing(i)'
<1>1. /\ last_connection_id' = last_connection_id
      /\ ct_map' = ct_map /\ ct_call' = ct_call /\ ct_batch' = ct_batch /\ ct_end' = ct_end
      /\ at_end' = at_end
      /\ down_sent' = down_sent /\ down_got' = down_got /\ Down' = Down
  BY AtEventFacts
<1>2. DownInv' /\ CtSide'
  BY <1>1 DEF Inv, DownInv, DownFits, CtSide
<1>3. ASSUME NEW i \in Ids \ lost PROVE DownComplete(i)' /\ DropComing(i)'
  BY <1>1 DEF Inv, NothingMissing, DownComplete, DropComing
<1> QED BY <1>2, <1>3

LEMMA InvAtCreate ==
  ASSUME TypeOK, TypeOK', Inv, AtCreate
  PROVE  Inv'
<1> PICK e : e = Head(at_batch)
  OBVIOUS
<1>1. /\ AtEvent /\ e.type = "NEW_CONNECTION" /\ e.id \notin at_map
      /\ at_batch' = Tail(at_batch) /\ at_map' = at_map \union {e.id}
      /\ at_frame' = [kind |-> "connected", id |-> e.id]
      /\ up_got' = up_got /\ lost' = lost
  BY DEF AtCreate, Callback
<1>2. /\ e \in CtAtEvent /\ UpFits(e)
      /\ at_call = NoCall /\ at_call' = NoCall /\ at_frame = NoFrame
      /\ last_connection_id' = last_connection_id /\ ct_end' = ct_end
      /\ at_end' = at_end /\ up_sent' = up_sent
  BY <1>1, AtEventFacts
<1>3. Sequenced(Up') /\ NextLeaves(Up, Up', e)
  BY <1>1, UpLeaves DEF Inv, UpInv
<1>4. e.id \in Ids /\ e.id <= last_connection_id /\ at_end[e.id] = "none"
  BY <1>1, <1>2, CtAtEvents DEF UpFits
<1>5. UpInv'
  <2>1. ASSUME NEW x \in CtAtEvent, InQueue(x, Up') PROVE UpFits(x)'
    <3>1. UpFits(x) /\ MayPrecede(e, x)
      BY <1>3, <2>1 DEF Inv, UpInv, NextLeaves
    <3> QED BY <1>1, <1>2, <3>1 DEF UpFits, MayPrecede
  <2> QED BY <1>1, <1>2, <1>3, <2>1 DEF Inv, UpInv
<1>6. NothingMissing'
  <2>1. ASSUME NEW i \in Ids \ lost PROVE Announced(i)' /\ UpComplete(i)' /\ ErrorComing(i)'
    <3>1. /\ \A n : InQueue(Message(i, n), Up) => InQueue(Message(i, n), Up')
          /\ InQueue(GotErrorEvent(i), Up) => InQueue(GotErrorEvent(i), Up')
      <4>1. GotErrorEvent(i).type = "GOT_ERROR" /\ \A n : Message(i, n).type = "MESSAGE"
        BY DEF GotErrorEvent, Message
      <4> QED BY <1>1, <1>3, <4>1 DEF NextLeaves
    <3>2. UpComplete(i)'
      BY <1>1, <1>2, <3>1 DEF Inv, NothingMissing, UpComplete
    <3>3. ErrorComing(i)'
      BY <1>1, <1>2, <3>1 DEF Inv, NothingMissing, ErrorComing, NoFrame
    <3>4. Announced(i)'
      <4>1. CASE i = e.id
        BY <1>1, <4>1 DEF Announced
      <4>2. CASE i # e.id
        BY <1>1, <1>2, <1>3, <4>2, OthersStay DEF Inv, NothingMissing, Announced
      <4> QED BY <4>1, <4>2
    <3> QED BY <3>2, <3>3, <3>4
  <2> QED BY <1>1, <2>1, DownKept DEF NothingMissing
<1>7. AtSide'
  BY <1>1, <1>2, <1>4 DEF Inv, AtSide, NoFrame, NoCall
<1> QED BY <1>1, <1>5, <1>6, <1>7, DownKept DEF Inv

LEMMA InvAtAssertionFailure ==
  ASSUME TypeOK, TypeOK', Inv, AtAssertionFailure
  PROVE  Inv'
<1>1. /\ AtEvent /\ at_batch' = <<>> /\ lost' = lost \union ConnectionsIn(at_batch)
      /\ at_map' = at_map /\ at_frame' = at_frame /\ up_got' = up_got
  BY DEF AtAssertionFailure
<1>2. /\ at_call' = at_call
      /\ last_connection_id' = last_connection_id /\ ct_end' = ct_end
      /\ at_end' = at_end /\ up_sent' = up_sent
  BY <1>1, AtEventFacts
<1>3. Sequenced(Up') /\ BatchLeaves(Up, Up', at_batch)
  BY <1>1, UpLeaves DEF Inv, UpInv
<1>4. UpInv'
  BY <1>1, <1>2, <1>3 DEF Inv, UpInv, UpFits, BatchLeaves
<1>5. NothingMissing'
  <2>1. ASSUME NEW i \in Ids \ lost, i \notin ConnectionsIn(at_batch)
        PROVE  Announced(i)' /\ UpComplete(i)' /\ ErrorComing(i)'
    BY <1>1, <1>2, <1>3, <2>1, OthersNotLost
    DEF Inv, NothingMissing, Announced, UpComplete, ErrorComing
  <2> QED BY <1>1, <2>1, DownKept DEF NothingMissing
<1>6. AtSide'
  BY <1>1, <1>2 DEF Inv, AtSide
<1> QED BY <1>1, <1>4, <1>5, <1>6, DownKept DEF Inv

LEMMA InvAtSkip ==
  ASSUME TypeOK, TypeOK', Inv, AtSkip
  PROVE  Inv'
<1> PICK e : e = Head(at_batch)
  OBVIOUS
<1>1. /\ AtEvent /\ e.type # "NEW_CONNECTION" /\ e.id \notin at_map
      /\ at_batch' = Tail(at_batch)
      /\ at_map' = at_map /\ at_frame' = at_frame /\ up_got' = up_got /\ lost' = lost
  BY DEF AtSkip
<1>2. /\ e \in CtAtEvent /\ UpFits(e) /\ at_call' = at_call
      /\ last_connection_id' = last_connection_id /\ ct_end' = ct_end
      /\ at_end' = at_end /\ up_sent' = up_sent
  BY <1>1, AtEventFacts
<1>3. Sequenced(Up') /\ NextLeaves(Up, Up', e)
  BY <1>1, UpLeaves DEF Inv, UpInv
<1>4. UpInv'
  BY <1>1, <1>2, <1>3 DEF Inv, UpInv, UpFits, NextLeaves
<1>5. e.id \notin lost => at_end[e.id] # "none"
  <2>1. SUFFICES ASSUME e.id \notin lost, at_end[e.id] = "none" PROVE FALSE
    OBVIOUS
  <2>2. Announced(e.id) /\ e.id <= last_connection_id
    BY <1>2, <2>1, CtAtEvents DEF Inv, NothingMissing, UpFits
  <2>3. PICK t \in ConnTypes : InQueue(NewConnectionEvent(e.id, t), Up)
    BY <1>1, <2>1, <2>2 DEF Announced
  <2>4. /\ NewConnectionEvent(e.id, t).id = e.id
        /\ NewConnectionEvent(e.id, t).type = "NEW_CONNECTION"
    BY DEF NewConnectionEvent
  <2>5. NewConnectionEvent(e.id, t) # e
    BY <1>1, <2>4
  <2> QED BY <1>3, <2>3, <2>4, <2>5 DEF NextLeaves, MayPrecede
<1>6. NothingMissing'
  <2>1. ASSUME NEW i \in Ids \ lost PROVE Announced(i)' /\ UpComplete(i)' /\ ErrorComing(i)'
    <3>1. CASE i = e.id
      BY <1>2, <1>5, <2>1, <3>1 DEF Announced, UpComplete, ErrorComing
    <3>2. CASE i # e.id
      BY <1>1, <1>2, <1>3, <3>2, OthersStay
      DEF Inv, NothingMissing, Announced, UpComplete, ErrorComing
    <3> QED BY <3>1, <3>2
  <2> QED BY <1>1, <2>1, DownKept DEF NothingMissing
<1>7. AtSide'
  BY <1>1, <1>2 DEF Inv, AtSide
<1> QED BY <1>1, <1>4, <1>6, <1>7, DownKept DEF Inv

LEMMA InvAtMessage ==
  ASSUME TypeOK, TypeOK', Inv, AtMessage
  PROVE  Inv'
<1> PICK e : e = Head(at_batch)
  OBVIOUS
<1>1. /\ AtEvent /\ e.type = "MESSAGE" /\ e.id \in at_map
      /\ at_batch' = Tail(at_batch) /\ up_got' = [up_got EXCEPT ![e.id] = e.n]
      /\ at_frame' = [kind |-> "got_message", id |-> e.id]
      /\ at_map' = at_map /\ lost' = lost
  BY DEF AtMessage, Callback
<1>2. /\ e \in CtAtEvent /\ UpFits(e)
      /\ at_call' = at_call /\ at_frame = NoFrame
      /\ last_connection_id' = last_connection_id /\ ct_end' = ct_end
      /\ at_end' = at_end /\ up_sent' = up_sent
  BY <1>1, AtEventFacts
<1>3. Sequenced(Up') /\ NextLeaves(Up, Up', e)
  BY <1>1, UpLeaves DEF Inv, UpInv
<1>4. /\ e.id \in Ids /\ e.n \in Nat
      /\ up_got[e.id] < e.n /\ e.n <= up_sent[e.id]
      /\ \A i \in Ids : up_got'[i] = (IF i = e.id THEN e.n ELSE up_got[i]) /\ up_got[i] \in Nat
  <2>1. e.id \in Ids /\ e.n \in 1 .. MaxMessages
    BY <1>1, <1>2, CtAtEvents
  <2>2. Basics
    BY TypesGiveBasics
  <2> QED BY <1>1, <1>2, <2>1, <2>2, InterThreadTransportAssumption DEF UpFits, Basics
<1>5. UpInv'
  <2>1. ASSUME NEW x \in CtAtEvent, InQueue(x, Up') PROVE UpFits(x)'
    <3>1. UpFits(x) /\ MayPrecede(e, x) /\ x.id \in Ids
      BY <1>3, <2>1, CtAtEvents DEF Inv, UpInv, NextLeaves
    <3> QED BY <1>1, <1>2, <1>4, <3>1 DEF UpFits, MayPrecede
  <2> QED BY <1>2, <1>3, <1>4, <2>1 DEF Inv, UpInv
<1>6. NothingMissing'
  <2>1. ASSUME NEW i \in Ids \ lost PROVE Announced(i)' /\ UpComplete(i)' /\ ErrorComing(i)'
    <3>1. CASE i = e.id
      <4>1. ASSUME NEW n \in Nat, at_end[i] = "none", e.n < n, n <= up_sent[i]
            PROVE  InQueue(Message(i, n), Up')
        <5>1. up_got[i] < n
          BY <1>4, <3>1, <4>1
        <5>2. InQueue(Message(i, n), Up)
          BY <4>1, <5>1 DEF Inv, NothingMissing, UpComplete
        <5>3. Message(i, n).n = n /\ n # e.n
          BY <1>4, <4>1 DEF Message
        <5>4. Message(i, n) # e
          BY <5>3
        <5> QED BY <1>3, <5>2, <5>4 DEF NextLeaves
      <4>2. GotErrorEvent(i).type = "GOT_ERROR"
        BY DEF GotErrorEvent
      <4>3. InQueue(GotErrorEvent(i), Up) => InQueue(GotErrorEvent(i), Up')
        BY <1>1, <1>3, <4>2 DEF NextLeaves
      <4>4. Announced(i)' /\ UpComplete(i)'
        BY <1>1, <1>2, <1>4, <3>1, <4>1 DEF Announced, UpComplete
      <4>5. ErrorComing(i)'
        BY <1>1, <1>2, <4>3 DEF Inv, NothingMissing, ErrorComing, NoFrame
      <4> QED BY <4>4, <4>5
    <3>2. CASE i # e.id
      <4>1. Announced(i)' /\ UpComplete(i)'
        BY <1>1, <1>2, <1>3, <1>4, <3>2, OthersStay
        DEF Inv, NothingMissing, Announced, UpComplete
      <4>2. ErrorComing(i)'
        BY <1>1, <1>2, <1>3, <1>4, <3>2, OthersStay
        DEF Inv, NothingMissing, ErrorComing, NoFrame
      <4> QED BY <4>1, <4>2
    <3> QED BY <3>1, <3>2
  <2> QED BY <1>1, <2>1, DownKept DEF NothingMissing
<1>7. AtSide'
  BY <1>1, <1>2 DEF Inv, AtSide, NoFrame
<1> QED BY <1>1, <1>5, <1>6, <1>7, DownKept DEF Inv

LEMMA InvAtGotError ==
  ASSUME TypeOK, TypeOK', Inv, AtGotError
  PROVE  Inv'
<1> PICK e : e = Head(at_batch)
  OBVIOUS
<1>1. /\ AtEvent /\ e.type = "GOT_ERROR" /\ e.id \in at_map
      /\ at_batch' = Tail(at_batch)
      /\ at_frame' = [kind |-> "got_error", id |-> e.id]
      /\ at_map' = at_map /\ up_got' = up_got /\ lost' = lost
  BY DEF AtGotError, Callback
<1>2. /\ e \in CtAtEvent /\ UpFits(e)
      /\ at_call' = at_call /\ at_frame = NoFrame
      /\ last_connection_id' = last_connection_id /\ ct_end' = ct_end
      /\ at_end' = at_end /\ up_sent' = up_sent
  BY <1>1, AtEventFacts
<1>3. Sequenced(Up') /\ NextLeaves(Up, Up', e)
  BY <1>1, UpLeaves DEF Inv, UpInv
<1>4. e.id \in Ids /\ ct_end[e.id] = "error"
  BY <1>1, <1>2, CtAtEvents DEF UpFits
<1>5. UpInv'
  BY <1>1, <1>2, <1>3 DEF Inv, UpInv, UpFits, NextLeaves
<1>6. ASSUME NEW i \in Ids, NEW n, InQueue(Message(i, n), Up)
      PROVE  InQueue(Message(i, n), Up') /\ i # e.id
  <2>1. Message(i, n).type = "MESSAGE" /\ Message(i, n).id = i
    BY DEF Message
  <2>2. InQueue(Message(i, n), Up')
    BY <1>1, <1>3, <1>6, <2>1 DEF NextLeaves
  <2>3. MayPrecede(e, Message(i, n))
    BY <1>3, <2>2 DEF NextLeaves
  <2> QED BY <1>1, <2>1, <2>2, <2>3 DEF MayPrecede, Final
<1>7. NothingMissing'
  <2>1. ASSUME NEW i \in Ids \ lost PROVE Announced(i)' /\ UpComplete(i)' /\ ErrorComing(i)'
    <3>1. UpComplete(i)'
      BY <1>1, <1>2, <1>6 DEF Inv, NothingMissing, UpComplete
    <3>2. CASE i = e.id
      <4>1. Announced(i)'
        BY <1>1, <3>2 DEF Announced
      <4>2. at_end[i] = "none" => up_got[i] = up_sent[i]
        <5>1. up_got[i] \in Nat /\ up_sent[i] \in Nat /\ up_got[i] <= up_sent[i]
          BY TypesGiveBasics DEF Basics, Inv, UpInv
        <5>2. at_end[i] = "none" /\ up_got[i] < up_sent[i] => InQueue(Message(i, up_sent[i]), Up)
          BY <5>1 DEF Inv, NothingMissing, UpComplete
        <5> QED BY <1>6, <3>2, <5>1, <5>2
      <4>3. ErrorComing(i)'
        BY <1>1, <1>2, <3>2, <4>2 DEF ErrorComing
      <4> QED BY <3>1, <4>1, <4>3
    <3>3. CASE i # e.id
      <4>1. Announced(i)'
        BY <1>1, <1>2, <1>3, <3>3, OthersStay DEF Inv, NothingMissing, Announced
      <4>2. ErrorComing(i)'
        BY <1>1, <1>2, <1>3, <3>3, OthersStay DEF Inv, NothingMissing, ErrorComing, NoFrame
      <4> QED BY <3>1, <4>1, <4>2
    <3> QED BY <3>2, <3>3
  <2> QED BY <1>1, <2>1, DownKept DEF NothingMissing
<1>8. AtSide'
  BY <1>1, <1>2, <1>4 DEF Inv, AtSide, NoFrame
<1> QED BY <1>1, <1>5, <1>7, <1>8, DownKept DEF Inv

LEMMA InvAtCallbackReturn ==
  ASSUME TypeOK, TypeOK', Inv, AtCallbackReturn
  PROVE  Inv'
<1> PICK id : id = at_frame.id
  OBVIOUS
<1>1. Basics /\ Basics'
  BY TypesGiveBasics, TypesGiveBasicsNext
<1>2. at_frame # NoFrame /\ at_frame' = NoFrame /\ at_call = NoCall
  BY DEF AtCallbackReturn
<1>3. /\ last_connection_id' = last_connection_id /\ ct_map' = ct_map /\ ct_call' = ct_call
      /\ ct_batch' = ct_batch /\ ct_end' = ct_end /\ at_call' = at_call
      /\ at_batch' = at_batch
      /\ ct_at_queue' = ct_at_queue /\ up_sent' = up_sent /\ up_got' = up_got /\ lost' = lost
      /\ at_ct_queue' = at_ct_queue /\ down_sent' = down_sent /\ down_got' = down_got
  BY DEF AtCallbackReturn, ct_vars, up_vars, down_vars
<1>4. Up' = Up /\ Down' = Down
  BY <1>3 DEF Up, Down
<1>5. CASE at_frame.kind = "got_error" /\ id \in at_map
  <2>1. /\ at_map' = at_map \ {id} /\ id \in Ids
        /\ at_end[id] = "none" /\ ct_end[id] = "error" /\ id <= last_connection_id
        /\ \A i \in Ids : at_end'[i] = IF i = id THEN "error" ELSE at_end[i]
    <3>1. at_map' = at_map \ {id} /\ at_end' = [at_end EXCEPT ![id] = "error"]
      BY <1>5 DEF AtCallbackReturn
    <3> QED BY <1>1, <1>2, <1>5, <3>1 DEF Inv, AtSide, Basics, NoCall
  <2>2. UpInv'
    <3>1. ASSUME NEW x \in CtAtEvent, InQueue(x, Up) PROVE UpFits(x)'
      BY <1>3, <1>5, <2>1, <3>1, CtAtEvents DEF Inv, UpInv, UpFits
    <3> QED BY <1>3, <1>4, <3>1 DEF Inv, UpInv
  <2>3. DownInv'
    <3>1. ASSUME NEW x \in AtCtEvent, InQueue(x, Down) PROVE DownFits(x)'
      BY <1>3, <2>1, <3>1, AtCtEvents DEF Inv, DownInv, DownFits
    <3> QED BY <1>3, <1>4, <3>1 DEF Inv, DownInv
  <2>4. NothingMissing'
    <3>1. ASSUME NEW i \in Ids \ lost
          PROVE  /\ Announced(i)' /\ UpComplete(i)' /\ ErrorComing(i)'
                 /\ DownComplete(i)' /\ DropComing(i)'
      <4>1. CASE i = id
        BY <1>3, <1>4, <2>1, <4>1 DEF Inv, NothingMissing, Announced, UpComplete,
           ErrorComing, DownComplete, DropComing
      <4>2. CASE i # id
        <5>1. at_frame # [kind |-> "got_error", id |-> i] /\ NoFrame # [kind |-> "got_error", id |-> i]
          BY <4>2 DEF NoFrame
        <5>2. ErrorComing(i)'
          BY <1>2, <1>3, <1>4, <2>1, <4>2, <5>1 DEF Inv, NothingMissing, ErrorComing
        <5> QED
          BY <1>3, <1>4, <2>1, <4>2, <5>2 DEF Inv, NothingMissing, Announced, UpComplete,
             DownComplete, DropComing
      <4> QED BY <4>1, <4>2
    <3> QED BY <1>3, <3>1 DEF NothingMissing
  <2>5. CtSide'
    BY <1>3, <2>1 DEF Inv, CtSide
  <2>6. AtSide'
    <3>1. ~(id > last_connection_id)
      BY <1>1, <2>1, InterThreadTransportAssumption DEF Basics, Ids
    <3> QED BY <1>2, <1>3, <2>1, <3>1 DEF Inv, AtSide, NoCall
  <2> QED BY <2>2, <2>3, <2>4, <2>5, <2>6 DEF Inv
<1>6. CASE ~(at_frame.kind = "got_error" /\ id \in at_map)
  <2>1. at_map' = at_map /\ at_end' = at_end
    BY <1>6 DEF AtCallbackReturn
  <2>2. UpInv' /\ DownInv'
    BY <1>3, <1>4, <2>1 DEF Inv, UpInv, UpFits, DownInv, DownFits
  <2>3. at_frame.kind = "got_error" => at_end[id] # "none"
    BY <1>2, <1>6 DEF Inv, AtSide
  <2>4. NothingMissing'
    <3>1. ASSUME NEW i \in Ids \ lost PROVE ErrorComing(i)'
      <4>1. NoFrame # [kind |-> "got_error", id |-> i]
        BY DEF NoFrame
      <4>2. at_frame = [kind |-> "got_error", id |-> i] => at_end[i] # "none"
        BY <2>3
      <4> QED BY <1>2, <1>3, <1>4, <2>1, <4>1, <4>2 DEF Inv, NothingMissing, ErrorComing
    <3> QED
      BY <1>3, <1>4, <2>1, <3>1 DEF Inv, NothingMissing, Announced, UpComplete,
         DownComplete, DropComing
  <2>5. CtSide' /\ AtSide'
    BY <1>2, <1>3, <2>1 DEF Inv, CtSide, AtSide
  <2> QED BY <2>2, <2>4, <2>5 DEF Inv
<1> QED BY <1>5, <1>6

-------------------------------------------------------------------------------
(* The stale entries.  A step that pushes nothing, drops nothing and closes *)
(* no dropped end finds and leaves them as they were.                       *)

LEMMA StaleKept ==
  ASSUME StaleUnfound, ct_stale' \subseteq ct_stale,
         \A id \in ct_stale : at_end'[id] = at_end[id],
         \A e \in AtCtEvent : InQueue(e, Down') => InQueue(e, Down)
  PROVE  StaleUnfound'
  BY DEF StaleUnfound

(* Whoever pushes to the CT has an AT object that is not dropped.           *)
LEMMA StalePush ==
  ASSUME TypeOK, Inv, StaleUnfound, NEW id \in at_map, AppRuns,
         NEW e \in AtCtEvent, e.id = id, NEW op, PushToCom(e, op),
         ct_stale' = ct_stale, ct_batch' = ct_batch,
         \A i \in Ids : i # id => at_end'[i] = at_end[i]
  PROVE  StaleUnfound'
<1>1. id \in Ids /\ at_end[id] = "none" /\ ct_stale \subseteq Ids
  BY TypesGiveBasics DEF Basics, Inv, AtSide, AppRuns, NoCall, TypeOK
<1>2. id \notin ct_stale
  BY <1>1 DEF StaleUnfound
<1>3. \A x : InQueue(x, Down') => InQueue(x, Down) \/ x = e
  <2>1. ct_batch \in Seq(AtCtEvent) /\ at_ct_queue \in Seq(AtCtEvent)
    BY DEF TypeOK
  <2>2. Down = ct_batch \o at_ct_queue /\ Down' = ct_batch \o Append(at_ct_queue, e)
    BY DEF Down, PushToCom
  <2>3. Grows(ct_batch \o at_ct_queue, ct_batch \o Append(at_ct_queue, e), e)
    BY <2>1, PushGrows
  <2> QED BY <2>2, <2>3 DEF Grows
<1> QED BY <1>1, <1>2, <1>3 DEF StaleUnfound

LEMMA StaleStep == TypeOK /\ Inv /\ StaleUnfound /\ [Next]_vars => StaleUnfound'
<1> SUFFICES ASSUME TypeOK, Inv, StaleUnfound, [Next]_vars PROVE StaleUnfound'
  OBVIOUS
<1>1. ct_stale \subseteq Ids /\ at_end \in [Ids -> {"none", "error", "drop"}]
  BY DEF TypeOK
<1>2. CASE CtCalls
  <2>1. ct_stale' = ct_stale /\ at_end' = at_end /\ Down' = Down
    BY <1>2 DEF CtCalls, NewConnection, SendToAppThread, GotError, at_vars, down_vars, Down
  <2> QED BY <2>1, StaleKept
<1>3. ASSUME NEW id \in at_map, SendToComThread(id) PROVE StaleUnfound'
  <2> PICK e : e = Message(id, down_sent[id] + 1)
    OBVIOUS
  <2>1. /\ PushToCom(e, "send_to_com_thread") /\ AppRuns /\ e.id = id
        /\ ct_stale' = ct_stale /\ ct_batch' = ct_batch /\ at_end' = at_end
    BY <1>3 DEF SendToComThread, ct_vars, Message
  <2>2. id \in Ids /\ down_sent[id] \in 0 .. MaxMessages /\ down_sent[id] < MaxMessages
    BY <1>3 DEF SendToComThread, TypeOK, Counters
  <2>3. e \in AtCtEvent
    BY <2>2, InterThreadTransportAssumption DEF Message, AtCtEvent, MessageEvents
  <2> QED BY <2>1, <2>3, StalePush
<1>4. ASSUME NEW id \in at_map, DropConnection(id) PROVE StaleUnfound'
  <2> PICK e : e = DropEvent(id)
    OBVIOUS
  <2>1. /\ PushToCom(e, "drop_connection") /\ AppRuns /\ e.id = id
        /\ ct_stale' = ct_stale /\ ct_batch' = ct_batch
        /\ at_end' = [at_end EXCEPT ![id] = "drop"]
    BY <1>4 DEF DropConnection, ct_vars, DropEvent
  <2>2. id \in Ids
    BY DEF TypeOK
  <2>3. e \in AtCtEvent /\ \A i \in Ids : i # id => at_end'[i] = at_end[i]
    BY <1>1, <2>1, <2>2 DEF DropEvent, AtCtEvent
  <2> QED BY <2>1, <2>3, StalePush
<1>5. ASSUME NEW t \in ConnTypes, AttachFactory(t) \/ AttachAgain(t) PROVE StaleUnfound'
  <2>1. ct_stale' = ct_stale /\ at_end' = at_end /\ Down' = Down
    BY <1>5 DEF AttachFactory, AttachAgain, ct_vars, down_vars, Down
  <2> QED BY <2>1, StaleKept
<1>6. CASE CtReturn \/ WakeUpCom
  <2>1. ct_stale' = ct_stale /\ at_end' = at_end /\ Down' = Down
    BY <1>6, SwapKeepsDown DEF CtReturn, WakeUpCom, at_vars, down_vars, Down
  <2> QED BY <2>1, StaleKept
<1>7. CASE CtSkip \/ CtMessage \/ CtDrop \/ CtAssertionFailure
  <2>1. CtEvent /\ (ct_batch' = Tail(ct_batch) \/ ct_batch' = <<>>)
    BY <1>7 DEF CtSkip, CtMessage, CtDrop, CtAssertionFailure
  <2>2. ct_stale' \subseteq ct_stale /\ at_end' = at_end
    BY <1>7 DEF CtSkip, CtMessage, CtDrop, CtAssertionFailure, CtEvent, at_vars
  <2>3. \A x : InQueue(x, Down') => InQueue(x, Down)
    BY <2>1, DownLeaves DEF Inv, DownInv, NextLeaves, BatchLeaves
  <2> QED BY <2>2, <2>3, StaleKept
<1>8. CASE CtDropThrows
  <2> PICK e : e = Head(ct_batch)
    OBVIOUS
  <2>1. /\ CtEvent /\ e.type = "DROP_CONNECTION" /\ ct_batch' = <<>>
        /\ ct_stale' = ct_stale \union {e.id} /\ at_end' = at_end
    BY <1>8 DEF CtDropThrows, CtEvent, at_vars
  <2>2. Sequenced(Down) /\ e \in AtCtEvent /\ InQueue(e, Down) /\ DownFits(e)
    BY <2>1, DownLeaves DEF Inv, DownInv
  <2>3. \A x : InQueue(x, Down') => MayPrecede(e, x) /\ InQueue(x, Down)
    BY <2>1, <2>2, DownThrows
  <2>4. \A x : InQueue(x, Down') => x.id # e.id
    BY <2>1, <2>3 DEF MayPrecede, Final
  <2>5. at_end[e.id] = "drop"
    BY <2>1, <2>2 DEF DownFits
  <2> QED BY <2>1, <2>3, <2>4, <2>5 DEF StaleUnfound
<1>9. CASE AtStep
  <2>1. ct_stale' = ct_stale /\ Down' = Down
    BY <1>9 DEF AtStep, AtReturn, WakeUpApp, AtCallbackReturn, AtCreate, AtAssertionFailure,
       AtSkip, AtMessage, AtGotError, AtEvent, ct_vars, down_vars, Down
  <2>2. ASSUME NEW id \in ct_stale PROVE at_end'[id] = at_end[id]
    <3>1. CASE AtCallbackReturn /\ at_frame.kind = "got_error" /\ at_frame.id \in at_map
      <4>1. at_end' = [at_end EXCEPT ![at_frame.id] = "error"] /\ at_call = NoCall
        BY <3>1 DEF AtCallbackReturn
      <4>2. at_frame.id \in Ids
        BY <3>1 DEF TypeOK
      <4>3. at_end[at_frame.id] = "none"
        BY <3>1, <4>1, <4>2 DEF Inv, AtSide, NoCall
      <4>4. id \in Ids /\ id # at_frame.id
        BY <1>1, <4>3 DEF StaleUnfound
      <4> QED BY <1>1, <4>1, <4>4
    <3>2. CASE ~(AtCallbackReturn /\ at_frame.kind = "got_error" /\ at_frame.id \in at_map)
      BY <1>9, <3>2 DEF AtStep, AtReturn, WakeUpApp, AtCallbackReturn, AtCreate,
         AtAssertionFailure, AtSkip, AtMessage, AtGotError, AtEvent
    <3> QED BY <3>1, <3>2
  <2> QED BY <2>1, <2>2, StaleKept
<1>10. CASE UNCHANGED vars
  <2>1. ct_stale' = ct_stale /\ at_end' = at_end /\ Down' = Down
    BY <1>10 DEF vars, ct_vars, at_vars, down_vars, Down
  <2> QED BY <2>1, StaleKept
<1> QED
  BY <1>2, <1>3, <1>4, <1>5, <1>6, <1>7, <1>8, <1>9, <1>10 DEF Next, AtCalls, CtStep

-------------------------------------------------------------------------------
(* The invariant holds of every behaviour.                                  *)

LEMMA InvInit == Init => Inv
<1> SUFFICES ASSUME Init PROVE Inv
  OBVIOUS
<1>1. Up = <<>> /\ Down = <<>>
  BY DEF Init, Up, Down
<1>2. \A x : ~InQueue(x, Up) /\ ~InQueue(x, Down)
  BY <1>1 DEF InQueue
<1>3. Sequenced(Up) /\ Sequenced(Down)
  BY <1>1 DEF Sequenced
<1>4. \A id \in Ids : id \in Nat /\ ~(id <= 0)
  BY InterThreadTransportAssumption DEF Ids
<1>5. /\ \A id \in Ids : /\ ct_end[id] = "none" /\ at_end[id] = "none"
                         /\ up_sent[id] = 0 /\ up_got[id] = 0
                         /\ down_sent[id] = 0 /\ down_got[id] = 0
      /\ last_connection_id = 0 /\ ct_map = {} /\ at_map = {}
      /\ ct_call = NoCall /\ at_call = NoCall /\ at_frame = NoFrame
      /\ ct_batch = <<>>
  BY DEF Init
<1>6. UpInv /\ DownInv
  BY <1>2, <1>3, <1>5 DEF UpInv, DownInv
<1>7. NothingMissing
  BY <1>4, <1>5 DEF NothingMissing, Announced, UpComplete, ErrorComing, DownComplete, DropComing
<1>8. CtSide /\ AtSide
  BY <1>4, <1>5 DEF CtSide, AtSide, NoCall
<1> QED BY <1>6, <1>7, <1>8 DEF Inv

LEMMA InvStep == TypeOK /\ TypeOK' /\ Inv /\ StaleUnfound /\ [Next]_vars => Inv'
<1> SUFFICES ASSUME TypeOK, TypeOK', Inv, StaleUnfound, [Next]_vars PROVE Inv'
  OBVIOUS
<1>1. CASE CtCalls
  BY <1>1, InvNewConnection, InvSendToAppThread, InvGotError DEF CtCalls
<1>2. CASE AtCalls
  BY <1>2, InvAttachFactory, InvAttachAgain, InvSendToComThread, InvDropConnection DEF AtCalls
<1>3. CASE CtStep
  BY <1>3, InvCtReturn, InvWakeUpCom, InvCtSkip, InvCtMessage, InvCtDrop,
     InvCtAssertionFailure DEF CtStep
<1>4. CASE AtStep
  BY <1>4, InvAtReturn, InvWakeUpApp, InvAtCallbackReturn, InvAtCreate,
     InvAtAssertionFailure, InvAtSkip, InvAtMessage, InvAtGotError DEF AtStep
<1>5. CASE UNCHANGED vars
  BY <1>5 DEF vars, ct_vars, at_vars, up_vars, down_vars, Inv, UpInv, UpFits, DownInv,
     DownFits, NothingMissing, Announced, UpComplete, ErrorComing, DownComplete, DropComing,
     CtSide, AtSide, Up, Down
<1> QED BY <1>1, <1>2, <1>3, <1>4, <1>5 DEF Next

(* The two directions, the ends and the counters always agree, and nothing  *)
(* of a connection whose events no exception threw away is missing; an      *)
(* entry of m_ct_map that outlived its CT object is found by no event.      *)
THEOREM InvHolds == Spec => [](Inv /\ StaleUnfound)
<1>1. Init => StaleUnfound
  BY DEF Init, StaleUnfound, Down, InQueue
<1>2. TypeOK /\ Inv /\ StaleUnfound /\ [Next]_vars => Inv' /\ StaleUnfound'
  BY TypeStep, InvStep, StaleStep
<1> QED BY InvInit, <1>1, <1>2, TypeCorrect, PTL DEF Spec
===============================================================================
