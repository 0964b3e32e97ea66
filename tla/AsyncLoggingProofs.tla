--------------------------- MODULE AsyncLoggingProofs ---------------------------
(* Proofs about AsyncLogging for any number of loggers, workers, slots and  *)
(* messages.                                                                *)
EXTENDS AsyncLogging, FiniteSetTheorems, TLAPS

(* The ring.                                                                *)

Ring == head \in 0 .. Capacity /\ tail \in 0 .. Capacity

LEMMA Wrap ==
  ASSUME NEW i \in 0 .. Capacity
  PROVE  /\ Successor(i) = IF i = Capacity THEN 0 ELSE i + 1
         /\ Successor(i) \in 0 .. Capacity
  BY AsyncLoggingAssumption DEF Successor

LEMMA SizeRange ==
  ASSUME Ring
  PROVE  /\ Size \in 0 .. Capacity
         /\ Full <=> Size = Capacity
         /\ Empty <=> Size = 0
  BY Wrap, AsyncLoggingAssumption DEF Ring, Size, Full, Empty

(* An item makes the queue one longer, or it was full and stays full.       *)
LEMMA PushSize ==
  ASSUME Ring, NEW m, push_back(m)
  PROVE  /\ Ring'
         /\ Size' = IF Full THEN Size ELSE Size + 1
  BY Wrap, AsyncLoggingAssumption DEF Ring, Size, Full, push_back, HeadAfter

LEMMA PopSize ==
  ASSUME Ring, ~Empty, pop_front
  PROVE  Ring' /\ Size' = Size - 1
  BY Wrap, AsyncLoggingAssumption DEF Ring, Size, Empty, pop_front

-------------------------------------------------------------------------------
(* The inductive invariant.  Slots between head and tail hold messages, and *)
(* so does a thread that has still to put its message into the queue.       *)

InUse == {i \in 0 .. Capacity : IF head <= tail THEN head <= i /\ i < tail
                                                ELSE head <= i \/ i < tail}

SlotsFilled == \A i \in InUse : slots[i] \in Messages

PostingFilled ==
  \A t \in Callers : pc[t] \in {"enqueue", "wait", "awake"} => posting[t] \in Messages

IInv == TypeOK /\ SlotsFilled /\ PostingFilled

USE DEF Places

LEMMA TypeInit == Init => IInv
<1> SUFFICES ASSUME Init PROVE IInv
  OBVIOUS
<1>1. Cardinality(Workers) \in Nat /\ 0 \in 0 .. Cardinality(Workers)
  BY AsyncLoggingAssumption
<1>2. 0 \in 0 .. Capacity /\ \A p \in Producers : MaxLogs[p] \in Nat
  BY AsyncLoggingAssumption
<1>3. InUse = {}
  BY <1>2 DEF Init, InUse
<1>4. registered \subseteq Producers /\ holders \subseteq Callers
  BY AsyncLoggingAssumption DEF Init, Callers
<1>5. written \in [Producers -> Seq(Nat)]
  BY DEF Init
<1>6. TypeOK
  BY <1>1, <1>2, <1>4, <1>5 DEF Init, TypeOK
<1> QED
  BY <1>3, <1>6 DEF Init, IInv, SlotsFilled, PostingFilled

(* What a caller logs is a message.                                         *)
LEMMA Logged ==
  ASSUME NEW p \in Producers, NEW n \in Nat \ {0}, n <= MaxLogs[p]
  PROVE  [kind |-> "log", logger |-> p, n |-> n] \in LogMessage
<1>1. n \in 1 .. MaxLogs[p]
  BY AsyncLoggingAssumption
<1>2. [kind |-> "log", logger |-> p, n |-> n]
        \in [kind : {"log"}, logger : {p}, n : 1 .. MaxLogs[p]]
  BY <1>1
<1> QED
  BY <1>2 DEF LogMessage

LEMMA LogMessageFields ==
  ASSUME NEW m \in LogMessage
  PROVE  m.logger \in Producers /\ m.n \in Nat
<1>1. PICK p \in Producers : m \in [kind : {"log"}, logger : {p}, n : 1 .. MaxLogs[p]]
  BY DEF LogMessage
<1> QED
  BY <1>1, AsyncLoggingAssumption

(* The step that puts an item into the queue.                               *)
LEMMA PushFilled ==
  ASSUME TypeOK, SlotsFilled, NEW m \in Messages, push_back(m)
  PROVE  /\ slots' \in [0 .. Capacity -> Messages \union {Nothing}]
         /\ driven_out' \subseteq LogMessage \union {TerminateMessage}
         /\ SlotsFilled'
<1>1. slots' \in [0 .. Capacity -> Messages \union {Nothing}]
  BY DEF TypeOK, push_back
<1>2. Ring
  BY DEF TypeOK, Ring
<1>3. CASE Successor(tail) = head
  <2>1. head \in InUse
    BY <1>2, <1>3, Wrap, AsyncLoggingAssumption DEF Ring, InUse
  <2>2. slots[head] \in Messages
    BY <2>1 DEF SlotsFilled
  <2>3. driven_out' \subseteq LogMessage \union {TerminateMessage}
    BY <1>3, <2>2 DEF push_back, TypeOK, Messages
  <2>4. \A i \in InUse' : i = tail \/ i \in InUse
    BY <1>2, <1>3, Wrap, AsyncLoggingAssumption
    DEF Ring, InUse, push_back, HeadAfter
  <2> QED
    BY <1>1, <2>3, <2>4 DEF push_back, SlotsFilled, TypeOK
<1>4. CASE Successor(tail) # head
  <2>1. driven_out' \subseteq LogMessage \union {TerminateMessage}
    BY <1>4 DEF push_back, TypeOK
  <2>2. \A i \in InUse' : i = tail \/ i \in InUse
    BY <1>2, <1>4, Wrap, AsyncLoggingAssumption
    DEF Ring, InUse, push_back, HeadAfter
  <2> QED
    BY <1>1, <2>1, <2>2 DEF push_back, SlotsFilled, TypeOK
<1> QED
  BY <1>3, <1>4

LEMMA PopFilled ==
  ASSUME TypeOK, SlotsFilled, ~Empty, pop_front
  PROVE  /\ slots' \in [0 .. Capacity -> Messages \union {Nothing}]
         /\ slots[head] \in Messages
         /\ SlotsFilled'
<1>1. Ring
  BY DEF TypeOK, Ring
<1>2. head \in InUse
  BY <1>1, AsyncLoggingAssumption DEF Ring, InUse, Empty
<1>3. \A i \in InUse' : i # head /\ i \in InUse
  BY <1>1, Wrap, AsyncLoggingAssumption DEF Ring, InUse, Empty, pop_front
<1>4. slots' = [slots EXCEPT ![head] = Nothing]
  BY DEF pop_front
<1>5. slots[head] \in Messages
  BY <1>2 DEF SlotsFilled
<1>6. slots' \in [0 .. Capacity -> Messages \union {Nothing}]
  BY <1>4 DEF TypeOK
<1>7. SlotsFilled'
  BY <1>3, <1>4 DEF SlotsFilled, TypeOK, InUse
<1> QED
  BY <1>5, <1>6, <1>7

LEMMA SlotsKept ==
  ASSUME SlotsFilled, UNCHANGED queue_vars PROVE SlotsFilled'
  BY DEF SlotsFilled, InUse, queue_vars

LEMMA LogStep == ASSUME IInv, NEW p \in Producers, Log(p) PROVE IInv'
<1> USE DEF IInv
<1> DEFINE m == [kind |-> "log", logger |-> p, n |-> logged[p] + 1]
<1>1. p \in Callers /\ logged[p] \in Nat /\ MaxLogs[p] \in Nat
  BY AsyncLoggingAssumption DEF Callers, TypeOK
<1>2. m \in LogMessage
  BY <1>1, Logged DEF Log
<1>3. logged' \in [Producers -> Nat] /\ \A q \in Producers : logged'[q] <= MaxLogs[q]
  BY <1>1 DEF Log, TypeOK
<1>4. SlotsFilled'
  BY SlotsKept DEF Log
<1>5. m \in Messages
  BY <1>2 DEF Messages
<1> HIDE DEF m
<1>6. CASE PoolAlive
  <2>1. Post(p, m) /\ UNCHANGED <<refused, queue_vars, registry_vars, worker, taken, terminates, written>>
    BY <1>6 DEF Log, m
  <2>2. TypeOK'
    BY <1>1, <1>3, <1>5, <2>1 DEF Post, Goto, TypeOK, queue_vars, registry_vars
  <2>3. PostingFilled'
    BY <1>1, <1>5, <2>1 DEF Post, Goto, PostingFilled, TypeOK
  <2> QED
    BY <1>4, <2>2, <2>3
<1>7. CASE ~PoolAlive
  <2>1. /\ refused' = refused \union {m}
        /\ UNCHANGED <<holders, posting, pc, queue_vars, registry_vars, worker, taken, terminates, written>>
    BY <1>7 DEF Log, m
  <2>2. TypeOK'
    BY <1>2, <1>3, <2>1 DEF TypeOK, queue_vars, registry_vars
  <2>3. PostingFilled'
    BY <2>1 DEF PostingFilled
  <2> QED
    BY <1>4, <2>2, <2>3
<1> QED
  BY <1>6, <1>7

LEMMA EnqueueStep == ASSUME IInv, NEW t \in Callers, Enqueue(t) PROVE IInv'
<1> USE DEF IInv
<1>1. posting[t] \in Messages
  BY DEF Enqueue, PostingFilled
<1>2. UNCHANGED <<registry_vars, worker, taken, holders, terminates, logged, refused, written>>
  BY DEF Enqueue
<1>3. CASE Blocks(t) /\ Full
  <2>1. Goto(t, "wait") /\ UNCHANGED <<queue_vars, posting>>
    BY <1>3 DEF Enqueue
  <2>2. TypeOK'
    BY <1>2, <2>1 DEF Goto, TypeOK, queue_vars, registry_vars
  <2>3. PostingFilled'
    BY <1>1, <2>1 DEF Goto, PostingFilled, TypeOK
  <2> QED
    BY <2>1, <2>2, <2>3, SlotsKept
<1>4. CASE ~(Blocks(t) /\ Full)
  <2>1. push_back(posting[t]) /\ posting' = [posting EXCEPT ![t] = Nothing] /\ Goto(t, "notify")
    BY <1>4 DEF Enqueue
  <2>2. Ring'
    BY <2>1, PushSize DEF TypeOK, Ring
  <2>3. TypeOK'
    BY <1>1, <1>2, <2>1, <2>2, PushFilled DEF Goto, TypeOK, Ring, registry_vars
  <2>4. PostingFilled'
    BY <2>1 DEF Goto, PostingFilled, TypeOK
  <2> QED
    BY <1>1, <2>1, <2>3, <2>4, PushFilled
<1> QED
  BY <1>3, <1>4

LEMMA DequeueStep == ASSUME IInv, NEW w \in Workers, Dequeue(w) PROVE IInv'
<1> USE DEF IInv
<1>1. UNCHANGED <<registry_vars, pc, posting, holders, terminates, logged, refused, written>>
  BY DEF Dequeue
<1>2. PostingFilled'
  BY <1>1 DEF PostingFilled
<1>3. CASE Empty
  <2>1. worker' = [worker EXCEPT ![w] = "wait"] /\ UNCHANGED <<queue_vars, taken>>
    BY <1>3 DEF Dequeue
  <2>2. TypeOK'
    BY <1>1, <2>1 DEF TypeOK, queue_vars, registry_vars
  <2> QED
    BY <1>2, <2>1, <2>2, SlotsKept
<1>4. CASE ~Empty
  <2>1. /\ pop_front /\ taken' = [taken EXCEPT ![w] = slots[head]]
        /\ worker' = [worker EXCEPT ![w] = "notify"]
    BY <1>4 DEF Dequeue, Front
  <2>2. Ring' /\ UNCHANGED driven_out
    BY <1>4, <2>1, PopSize DEF TypeOK, Ring, pop_front
  <2>3. TypeOK'
    BY <1>1, <1>4, <2>1, <2>2, PopFilled DEF TypeOK, Ring, registry_vars
  <2> QED
    BY <1>2, <1>4, <2>1, <2>3, PopFilled
<1> QED
  BY <1>3, <1>4

LEMMA ProcessStep == ASSUME IInv, NEW w \in Workers, Process(w) PROVE IInv'
<1> USE DEF IInv
<1>1. UNCHANGED <<queue_vars, registry_vars, posting, holders, terminates, logged, refused>>
  BY DEF Process
<1>2. pc' \in [Callers -> Places] /\ PostingFilled'
  <2>1. CASE UNCHANGED pc
    BY <1>1, <2>1 DEF TypeOK, PostingFilled
  <2>2. ASSUME NEW t \in Callers, pc[t] = "wait", Goto(t, "awake")
        PROVE  pc' \in [Callers -> Places] /\ PostingFilled'
    BY <1>1, <2>2 DEF TypeOK, PostingFilled, Goto, Places
  <2>3. UNCHANGED pc \/ \E t \in Notified : Goto(t, "awake")
    BY Zenon DEF Process
  <2>4. \A t \in Notified : t \in Callers /\ pc[t] = "wait"
    BY DEF Notified, At, TypeOK
  <2> QED
    BY <2>1, <2>2, <2>3, <2>4
<1>3. written' \in [Producers -> Seq(Nat)]
  <2>1. CASE taken[w] \in LogMessage
    <3>1. taken[w].logger \in Producers /\ taken[w].n \in Nat
      BY <2>1, LogMessageFields
    <3>2. Append(written[taken[w].logger], taken[w].n) \in Seq(Nat)
      BY <3>1 DEF TypeOK
    <3> QED
      BY <2>1, <3>1, <3>2 DEF Process, TypeOK
  <2>2. CASE taken[w] \notin LogMessage
    BY <2>2 DEF Process, TypeOK
  <2> QED
    BY <2>1, <2>2
<1>4. worker' \in [Workers -> {"dequeue", "wait", "awake", "notify", "exited"}]
  BY DEF Process, TypeOK
<1>5. taken' \in [Workers -> Messages \union {Nothing}]
  BY DEF Process, TypeOK
<1>6. TypeOK'
  BY <1>1, <1>2, <1>3, <1>4, <1>5 DEF TypeOK, queue_vars, registry_vars
<1> QED
  BY <1>1, <1>2, <1>6, SlotsKept

LEMMA WakeUpStep == ASSUME IInv, WakeUp PROVE IInv'
<1> USE DEF IInv
<1>1. UNCHANGED <<queue_vars, registry_vars, posting, taken, holders, terminates, logged, refused, written>>
  BY DEF WakeUp
<1>2. CASE (\E w \in At(worker, "wait") : worker' = [worker EXCEPT ![w] = "awake"]) /\ UNCHANGED pc
  BY <1>1, <1>2, SlotsKept DEF TypeOK, PostingFilled, At, queue_vars, registry_vars
<1>3. ASSUME NEW t \in At(pc, "wait"), Goto(t, "awake"), UNCHANGED worker PROVE IInv'
  <2>1. t \in Callers /\ pc[t] = "wait"
    BY DEF At, TypeOK
  <2>2. TypeOK' /\ PostingFilled'
    BY <1>1, <1>3, <2>1 DEF TypeOK, PostingFilled, Goto, queue_vars, registry_vars
  <2> QED
    BY <1>1, <2>2, SlotsKept
<1> QED
  BY <1>2, <1>3 DEF WakeUp

LEMMA NotifyPushStep == ASSUME IInv, NEW t \in Callers, NotifyPush(t) PROVE IInv'
<1> USE DEF IInv
<1>1. /\ UNCHANGED <<queue_vars, registry_vars, posting, taken, holders, terminates, logged, refused, written>>
      /\ \/ Goto(t, "leave") \/ Goto(t, "destroy")
  BY DEF NotifyPush
<1>2. worker' \in [Workers -> {"dequeue", "wait", "awake", "notify", "exited"}]
  BY DEF NotifyPush, At, TypeOK
<1>3. TypeOK'
  BY <1>1, <1>2 DEF TypeOK, Goto, queue_vars, registry_vars
<1>4. PostingFilled'
  BY <1>1 DEF PostingFilled, Goto, TypeOK
<1> QED
  BY <1>1, <1>3, <1>4, SlotsKept

(* A thread drops its reference to the pool, by leaving it or by shutdown.  *)
LEMMA DropStep ==
  ASSUME IInv, NEW t \in Callers, Drop(t),
         UNCHANGED <<queue_vars, registry_vars, posting, worker, taken, logged, refused, written>>
  PROVE  IInv'
<1> USE DEF IInv
<1>1. Cardinality(Workers) \in 0 .. Cardinality(Workers)
  BY AsyncLoggingAssumption
<1>2. \E place \in {"destroy", "next", "closed", "idle"} : Goto(t, place)
  BY DEF Drop, Done
<1>3. holders' \subseteq Callers /\ terminates' \in 0 .. Cardinality(Workers)
  BY <1>1 DEF Drop, TypeOK
<1>4. TypeOK'
  BY <1>2, <1>3 DEF TypeOK, Goto, queue_vars, registry_vars
<1>5. PostingFilled'
  BY <1>2 DEF PostingFilled, Goto, TypeOK
<1> QED
  BY <1>4, <1>5, SlotsKept

LEMMA PoolEndStep ==
  ASSUME IInv, NEW t \in Callers, PostTerminate(t) \/ Join(t) PROVE IInv'
<1> USE DEF IInv
<1>1. CASE PostTerminate(t)
  <2>1. terminates' \in 0 .. Cardinality(Workers)
    BY <1>1, AsyncLoggingAssumption DEF PostTerminate, TypeOK
  <2>2. TerminateMessage \in Messages
    BY DEF Messages
  <2>3. TypeOK' /\ PostingFilled'
    BY <1>1, <2>1, <2>2 DEF PostTerminate, Goto, TypeOK, PostingFilled, queue_vars, registry_vars
  <2> QED
    BY <1>1, <2>3, SlotsKept DEF PostTerminate
<1>2. CASE Join(t)
  <2>1. \E place \in {"next", "closed", "idle"} : Goto(t, place)
    BY <1>2 DEF Join, Done
  <2>2. TypeOK' /\ PostingFilled'
    BY <1>2, <2>1 DEF Join, Goto, TypeOK, PostingFilled, queue_vars, registry_vars
  <2> QED
    BY <1>2, <2>2, SlotsKept DEF Join
<1> QED
  BY <1>1, <1>2

LEMMA FlushingStep == ASSUME IInv, Flushing PROVE IInv'
<1> USE DEF IInv
<1>0. Flusher \in Callers
  BY DEF Callers
<1>1. CASE FlusherWakes
  BY <1>0, <1>1, SlotsKept DEF FlusherWakes, Goto, TypeOK, PostingFilled, queue_vars
<1>2. CASE FlushAll
  BY <1>0, <1>2, SlotsKept DEF FlushAll, Goto, TypeOK, PostingFilled, queue_vars
<1>3. ASSUME NEW p \in to_flush, Flush, to_flush' = to_flush \ {p},
             IF PoolAlive
             THEN Post(Flusher, [kind |-> "flush", logger |-> p])
             ELSE Goto(Flusher, "threw") /\ UNCHANGED <<holders, posting>>
      PROVE  IInv'
  <2> DEFINE m == [kind |-> "flush", logger |-> p]
  <2>1. m \in Messages
    BY DEF Messages, FlushMessage, TypeOK
  <2>2. UNCHANGED <<queue_vars, worker, taken, terminates, map_mutex, periodic_mutex,
                    active, registered, logged, refused, written>>
    BY <1>3 DEF Flush
  <2>3. Post(Flusher, m) \/ (Goto(Flusher, "threw") /\ UNCHANGED <<holders, posting>>)
    BY <1>3
  <2> HIDE DEF m
  <2>4. TypeOK' /\ PostingFilled'
    <3>1. to_flush' \subseteq Producers
      BY <1>3 DEF TypeOK
    <3>2. CASE Post(Flusher, m)
      BY <1>0, <2>1, <2>2, <3>1, <3>2 DEF Post, Goto, TypeOK, PostingFilled, queue_vars
    <3>3. CASE Goto(Flusher, "threw") /\ UNCHANGED <<holders, posting>>
      BY <1>0, <2>2, <3>1, <3>3 DEF Goto, TypeOK, PostingFilled, queue_vars
    <3> QED BY <2>3, <3>2, <3>3
  <2> QED
    BY <2>2, <2>4, SlotsKept
<1>4. CASE FlushedAll
  BY <1>0, <1>4, SlotsKept DEF FlushedAll, Goto, TypeOK, PostingFilled, queue_vars
<1> QED
  BY <1>1, <1>2, <1>3, <1>4 DEF Flushing, Flush

LEMMA ShutdownStep == ASSUME IInv, Shutdown \/ Closing PROVE IInv'
<1> USE DEF IInv
<1>0. Closer \in Callers
  BY DEF Callers
<1>1. CASE Shutdown
  BY <1>0, <1>1, SlotsKept DEF Shutdown, Goto, TypeOK, PostingFilled, queue_vars, registry_vars
<1>2. CASE StopFlusher
  BY <1>0, <1>2, SlotsKept DEF StopFlusher, Goto, TypeOK, PostingFilled, queue_vars
<1>3. CASE DropAll
  BY <1>0, <1>3, SlotsKept DEF DropAll, Goto, TypeOK, PostingFilled, queue_vars
<1>4. CASE ResetPool
  BY <1>0, <1>4, DropStep DEF ResetPool
<1> QED
  BY <1>1, <1>2, <1>3, <1>4 DEF Closing

LEMMA TypeStep == IInv /\ [Next]_vars => IInv'
<1> SUFFICES ASSUME IInv, [Next]_vars PROVE IInv'
  OBVIOUS
<1>1. ASSUME NEW t \in Callers, Posting(t) PROVE IInv'
  BY <1>1, EnqueueStep, NotifyPushStep, DropStep, PoolEndStep DEF Posting, Leave
<1>2. ASSUME NEW w \in Workers, Working(w) PROVE IInv'
  BY <1>2, DequeueStep, ProcessStep DEF Working
<1>3. CASE UNCHANGED vars
  BY <1>3, SlotsKept
  DEF vars, registry_vars, queue_vars, IInv, TypeOK, PostingFilled
<1> QED
  BY <1>1, <1>2, <1>3, LogStep, WakeUpStep, FlushingStep, ShutdownStep DEF Next

(* Every variable keeps its type, whatever the numbers of loggers, workers, *)
(* slots and messages; the slots between head and tail always hold          *)
(* messages.                                                                *)
THEOREM TypeCorrect == Spec => []TypeOK
<1>1. IInv => TypeOK
  BY DEF IInv
<1> QED
  BY <1>1, TypeInit, TypeStep, PTL DEF Spec

LEMMA Invariance == Spec => []IInv
  BY TypeInit, TypeStep, PTL DEF Spec

-------------------------------------------------------------------------------
(* No wake-up is lost.  A place is left and reached by one thread at a time.*)

Count(f, place) == Cardinality(At(f, place))

LEMMA Counting ==
  ASSUME NEW T, IsFiniteSet(T), NEW P, NEW f \in [T -> P], NEW place
  PROVE  /\ IsFiniteSet(At(f, place)) /\ Count(f, place) \in Nat
         /\ At(f, place) # {} => Count(f, place) > 0
<1>1. At(f, place) \in SUBSET T
  BY DEF At
<1>2. IsFiniteSet(At(f, place))
  BY <1>1, FS_Subset
<1>3. Cardinality(At(f, place)) \in Nat
  BY <1>2, FS_CardinalityType
<1> QED
  BY <1>2, <1>3, FS_EmptySet DEF Count

(* x moves to a place: f becomes g.                                         *)
Moves(f, g, x, to, place) ==
  /\ Count(g, place) = Count(f, place) + (IF to = place THEN 1 ELSE 0)
                                       - (IF f[x] = place THEN 1 ELSE 0)
  /\ Count(g, place) \in Nat

LEMMA CountMove ==
  ASSUME NEW T, IsFiniteSet(T), NEW P, NEW f \in [T -> P],
         NEW x \in T, NEW to, NEW g, g = [f EXCEPT ![x] = to], NEW place
  PROVE  Moves(f, g, x, to, place)
<1> USE DEF Count, Moves
<1>1. IsFiniteSet(At(f, place)) /\ Cardinality(At(f, place)) \in Nat
  BY Counting
<1>6. Count(g, place) \in Nat
  <2>1. g \in [T -> P \union {to}]
    OBVIOUS
  <2> QED
    BY <2>1, Counting
<1>2. CASE to = place /\ f[x] = place
  <2>1. At(g, place) = At(f, place)
    BY <1>2 DEF At
  <2> QED
    BY <1>1, <1>2, <2>1
<1>3. CASE to = place /\ f[x] # place
  <2>1. At(g, place) = At(f, place) \union {x} /\ x \notin At(f, place)
    BY <1>3 DEF At
  <2>2. Cardinality(At(g, place)) = Cardinality(At(f, place)) + 1
    BY <1>1, <2>1, FS_AddElement
  <2> QED
    BY <1>1, <1>3, <2>2
<1>4. CASE to # place /\ f[x] = place
  <2>1. At(g, place) = At(f, place) \ {x} /\ x \in At(f, place)
    BY <1>4 DEF At
  <2>2. Cardinality(At(g, place)) = Cardinality(At(f, place)) - 1
    BY <1>1, <2>1, FS_RemoveElement
  <2> QED
    BY <1>1, <1>4, <1>6, <2>2
<1>5. CASE to # place /\ f[x] # place
  <2>1. At(g, place) = At(f, place)
    BY <1>5 DEF At
  <2> QED
    BY <1>1, <1>5, <2>1
<1> QED
  BY <1>2, <1>3, <1>4, <1>5, <1>6

LEMMA Counts ==
  ASSUME TypeOK
  PROVE  /\ Count(pc, "awake") \in Nat /\ Count(pc, "notify") \in Nat
         /\ Count(worker, "awake") \in Nat /\ Count(worker, "notify") \in Nat
  BY Counting, AsyncLoggingAssumption DEF TypeOK, Count

LEMMA CallerMoves ==
  ASSUME TypeOK, NEW t \in Callers, NEW to, Goto(t, to)
  PROVE  /\ Count(pc', "awake") = Count(pc, "awake") + (IF to = "awake" THEN 1 ELSE 0)
                                                    - (IF pc[t] = "awake" THEN 1 ELSE 0)
         /\ Count(pc', "notify") = Count(pc, "notify") + (IF to = "notify" THEN 1 ELSE 0)
                                                      - (IF pc[t] = "notify" THEN 1 ELSE 0)
         /\ Count(pc', "awake") \in Nat /\ Count(pc', "notify") \in Nat
         /\ At(pc', "wait") # {} => to = "wait" \/ At(pc, "wait") # {}
<1>1. pc \in [Callers -> Places] /\ IsFiniteSet(Callers)
  BY AsyncLoggingAssumption DEF TypeOK
<1>2. pc' = [pc EXCEPT ![t] = to]
  BY DEF Goto
<1>3. At(pc', "wait") # {} => to = "wait" \/ At(pc, "wait") # {}
  BY <1>1, <1>2 DEF At
<1>4. ASSUME NEW place
      PROVE  Moves(pc, pc', t, to, place)
  <2> HIDE DEF Places
  <2> QED
    BY <1>1, <1>2, CountMove, Zenon
<1> QED
  BY <1>3, <1>4 DEF Moves

Stage(w, to) == worker' = [worker EXCEPT ![w] = to]

LEMMA WorkerMoves ==
  ASSUME TypeOK, NEW w \in Workers, NEW to, Stage(w, to)
  PROVE  /\ Count(worker', "awake") = Count(worker, "awake") + (IF to = "awake" THEN 1 ELSE 0)
                                                    - (IF worker[w] = "awake" THEN 1 ELSE 0)
         /\ Count(worker', "notify") = Count(worker, "notify") + (IF to = "notify" THEN 1 ELSE 0)
                                                      - (IF worker[w] = "notify" THEN 1 ELSE 0)
         /\ Count(worker', "awake") \in Nat /\ Count(worker', "notify") \in Nat
         /\ At(worker', "wait") # {} => to = "wait" \/ At(worker, "wait") # {}
<1> DEFINE Stages == {"dequeue", "wait", "awake", "notify", "exited"}
<1>1. worker \in [Workers -> Stages] /\ IsFiniteSet(Workers)
  BY AsyncLoggingAssumption DEF TypeOK
<1>2. At(worker', "wait") # {} => to = "wait" \/ At(worker, "wait") # {}
  BY <1>1 DEF At, Stage
<1>3. ASSUME NEW place
      PROVE  Moves(worker, worker', w, to, place)
  <2> HIDE DEF Stages
  <2> QED
    BY <1>1, CountMove, Zenon DEF Stage
<1> QED
  BY <1>2, <1>3 DEF Moves

(* The invariant in terms of the counts.                                    *)
Backed ==
  /\ At(pc, "wait") # {} => Capacity - Size <= Count(worker, "notify") + Count(pc, "awake")
  /\ At(worker, "wait") # {} => Size <= Count(pc, "notify") + Count(worker, "awake")

LEMMA SizeKept == ASSUME UNCHANGED queue_vars PROVE Size' = Size
  BY DEF queue_vars, Size

LEMMA BackedEnqueue ==
  ASSUME TypeOK, Backed, NEW t \in Callers, Enqueue(t) PROVE Backed'
<1>1. Ring /\ Capacity \in Nat \ {0}
  BY AsyncLoggingAssumption DEF TypeOK, Ring
<1>2. pc[t] \in {"enqueue", "awake"} /\ UNCHANGED worker
  BY DEF Enqueue
<1>3. CASE Blocks(t) /\ Full
  <2>1. Goto(t, "wait") /\ UNCHANGED queue_vars
    BY <1>3 DEF Enqueue
  <2>2. Size' = Size /\ Size = Capacity
    BY <1>1, <1>3, <2>1, SizeRange, SizeKept
  <2>3. Count(pc', "awake") \in Nat /\ Count(pc', "notify") = Count(pc, "notify")
    BY <1>2, <2>1, CallerMoves, Counts
  <2> QED
    BY <1>1, <1>2, <2>2, <2>3, Counts DEF Backed
<1>4. CASE ~(Blocks(t) /\ Full)
  <2>1. push_back(posting[t]) /\ Goto(t, "notify")
    BY <1>4 DEF Enqueue
  <2>2. Size \in 0 .. Capacity /\ Size' = IF Full THEN Size ELSE Size + 1
    BY <1>1, <2>1, SizeRange, PushSize
  <2>3. Full <=> Size = Capacity
    BY <1>1, SizeRange
  <2>4. /\ Count(pc', "awake") \in {Count(pc, "awake"), Count(pc, "awake") - 1}
        /\ Count(pc', "notify") = Count(pc, "notify") + 1
        /\ At(pc', "wait") # {} => At(pc, "wait") # {}
    BY <1>2, <2>1, CallerMoves, Counts
  <2>5. Count(pc', "awake") \in Nat
    BY <2>1, CallerMoves, Counts, <1>2
  <2> QED
    BY <1>1, <1>2, <2>2, <2>3, <2>4, <2>5, Counts DEF Backed
<1> QED
  BY <1>3, <1>4

LEMMA BackedDequeue ==
  ASSUME TypeOK, Backed, NEW w \in Workers, Dequeue(w) PROVE Backed'
<1>1. Ring /\ Capacity \in Nat \ {0}
  BY AsyncLoggingAssumption DEF TypeOK, Ring
<1>2. worker[w] \in {"dequeue", "awake"} /\ UNCHANGED pc
  BY DEF Dequeue, Stage
<1>3. CASE Empty
  <2>1. Stage(w, "wait") /\ UNCHANGED queue_vars
    BY <1>3 DEF Dequeue, Stage
  <2>2. Size' = Size /\ Size = 0
    BY <1>1, <1>3, <2>1, SizeRange, SizeKept
  <2>3. Count(worker', "awake") \in Nat /\ Count(worker', "notify") = Count(worker, "notify")
    BY <1>2, <2>1, WorkerMoves, Counts
  <2> QED
    BY <1>1, <1>2, <2>2, <2>3, Counts DEF Backed
<1>4. CASE ~Empty
  <2>1. pop_front /\ Stage(w, "notify")
    BY <1>4 DEF Dequeue, Stage
  <2>2. Size \in 0 .. Capacity /\ Size' = Size - 1
    BY <1>1, <1>4, <2>1, SizeRange, PopSize
  <2> QED
    BY <1>1, <1>2, <2>1, <2>2, WorkerMoves, Counts DEF Backed
<1> QED
  BY <1>3, <1>4

(* The notification of a caller that has put an item into the queue.        *)
LEMMA BackedNotifyPush ==
  ASSUME TypeOK, Backed, NEW t \in Callers, NotifyPush(t) PROVE Backed'
<1>1. Size' = Size /\ Size \in 0 .. Capacity /\ Capacity \in Nat \ {0}
  BY SizeKept, SizeRange, AsyncLoggingAssumption DEF NotifyPush, TypeOK, Ring
<1>2. pc[t] = "notify" /\ (Goto(t, "leave") \/ Goto(t, "destroy"))
  BY DEF NotifyPush
<1>3. /\ Count(pc', "awake") = Count(pc, "awake") /\ Count(pc', "notify") = Count(pc, "notify") - 1
      /\ At(pc', "wait") # {} => At(pc, "wait") # {}
  BY <1>2, CallerMoves, Counts
<1>4. CASE At(worker, "wait") = {}
  BY <1>1, <1>3, <1>4, Counts DEF Backed, NotifyPush
<1>5. ASSUME NEW w \in At(worker, "wait"), Stage(w, "awake")
      PROVE  Backed'
  <2>1. w \in Workers /\ worker[w] = "wait" /\ At(worker, "wait") # {}
    BY DEF At, TypeOK
  <2>2. /\ Count(worker', "awake") = Count(worker, "awake") + 1
        /\ Count(worker', "notify") = Count(worker, "notify")
    BY <1>5, <2>1, WorkerMoves, Counts
  <2> QED
    BY <1>1, <1>3, <2>1, <2>2, Counts DEF Backed
<1> QED
  BY <1>4, <1>5 DEF NotifyPush, Stage

(* The notification of a worker that has taken an item.                     *)
LEMMA BackedProcess ==
  ASSUME TypeOK, Backed, NEW w \in Workers, Process(w) PROVE Backed'
<1>1. Size' = Size /\ Size \in 0 .. Capacity /\ Capacity \in Nat \ {0}
  BY SizeKept, SizeRange, AsyncLoggingAssumption DEF Process, TypeOK, Ring
<1>2. /\ worker[w] = "notify"
      /\ \/ Stage(w, "exited")
         \/ Stage(w, "dequeue")
  BY DEF Process, Stage
<1>3. /\ Count(worker', "awake") = Count(worker, "awake")
      /\ Count(worker', "notify") = Count(worker, "notify") - 1
      /\ At(worker', "wait") # {} => At(worker, "wait") # {}
  BY <1>2, WorkerMoves, Counts
<1>4. CASE At(pc, "wait") = {}
  BY <1>1, <1>3, <1>4, Counts DEF Backed, Process, Notified
<1>5. ASSUME NEW t \in At(pc, "wait"), Goto(t, "awake") PROVE Backed'
  <2>1. t \in Callers /\ pc[t] = "wait" /\ At(pc, "wait") # {}
    BY DEF At, TypeOK
  <2>2. /\ Count(pc', "awake") = Count(pc, "awake") + 1
        /\ Count(pc', "notify") = Count(pc, "notify")
    BY <1>5, <2>1, CallerMoves, Counts
  <2> QED
    BY <1>1, <1>3, <2>1, <2>2, Counts DEF Backed
<1> QED
  BY <1>4, <1>5 DEF Process, Notified

LEMMA BackedWakeUp == ASSUME TypeOK, Backed, WakeUp PROVE Backed'
<1>1. Size' = Size /\ Size \in 0 .. Capacity /\ Capacity \in Nat \ {0}
  BY SizeKept, SizeRange, AsyncLoggingAssumption DEF WakeUp, TypeOK, Ring
<1>2. ASSUME NEW w \in At(worker, "wait"), Stage(w, "awake"),
             UNCHANGED pc
      PROVE  Backed'
  <2>1. w \in Workers /\ worker[w] = "wait"
    BY DEF At, TypeOK
  <2> QED
    BY <1>1, <1>2, <2>1, WorkerMoves, Counts DEF Backed
<1>3. ASSUME NEW t \in At(pc, "wait"), Goto(t, "awake"), UNCHANGED worker
      PROVE  Backed'
  <2>1. t \in Callers /\ pc[t] = "wait"
    BY DEF At, TypeOK
  <2> QED
    BY <1>1, <1>3, <2>1, CallerMoves, Counts DEF Backed
<1> QED
  BY <1>2, <1>3 DEF WakeUp, Stage

(* A caller that moves between other places than these.                     *)
LEMMA BackedElsewhere ==
  ASSUME TypeOK, Backed, UNCHANGED <<queue_vars, worker>>,
         NEW t \in Callers, NEW to \in Places \ {"wait", "awake", "notify"},
         pc[t] \notin {"wait", "awake", "notify"}, Goto(t, to)
  PROVE  Backed'
<1>1. Size' = Size /\ Size \in 0 .. Capacity /\ Capacity \in Nat \ {0}
  BY SizeKept, SizeRange, AsyncLoggingAssumption DEF TypeOK, Ring
<1>2. /\ Count(pc', "awake") = Count(pc, "awake") /\ Count(pc', "notify") = Count(pc, "notify")
      /\ At(pc', "wait") # {} => At(pc, "wait") # {}
  BY CallerMoves, Counts
<1> QED
  BY <1>1, <1>2, Counts DEF Backed

LEMMA BackedStep == IInv /\ Backed /\ [Next]_vars => Backed'
<1> SUFFICES ASSUME IInv, Backed, [Next]_vars PROVE Backed'
  OBVIOUS
<1> USE DEF IInv
<1>1. ASSUME NEW p \in Producers, Log(p) PROVE Backed'
  <2>1. UNCHANGED <<queue_vars, worker>> /\ pc[p] = "idle" /\ p \in Callers
    BY <1>1 DEF Log, Callers
  <2>2. CASE PoolAlive
    <3>1. Goto(p, "enqueue")
      BY <1>1, <2>2 DEF Log, Post
    <3> QED
      BY <2>1, <3>1, BackedElsewhere
  <2>3. CASE ~PoolAlive
    BY <1>1, <2>1, <2>3, SizeKept DEF Log, Backed
  <2> QED
    BY <2>2, <2>3
<1>2. ASSUME NEW t \in Callers, Posting(t) PROVE Backed'
  <2>1. CASE Leave(t)
    <3>1. \E to \in Places \ {"wait", "awake", "notify"} : Goto(t, to)
      BY <2>1 DEF Leave, Drop, Done
    <3> QED
      BY <2>1, <3>1, BackedElsewhere DEF Leave
  <2>2. CASE PostTerminate(t)
    BY <2>2, BackedElsewhere DEF PostTerminate
  <2>3. CASE Join(t)
    <3>1. \E to \in Places \ {"wait", "awake", "notify"} : Goto(t, to)
      BY <2>3 DEF Join, Done
    <3> QED
      BY <2>3, <3>1, BackedElsewhere DEF Join
  <2> QED
    BY <1>2, <2>1, <2>2, <2>3, BackedEnqueue, BackedNotifyPush DEF Posting
<1>3. ASSUME NEW w \in Workers, Working(w) PROVE Backed'
  BY <1>3, BackedDequeue, BackedProcess DEF Working
<1>4. CASE Flushing
  <2>1. /\ UNCHANGED <<queue_vars, worker>> /\ Flusher \in Callers
        /\ pc[Flusher] \in {"sleep", "flush_all", "next"}
        /\ \E to \in Places \ {"wait", "awake", "notify"} : Goto(Flusher, to)
    BY <1>4 DEF Flushing, FlusherWakes, FlushAll, Flush, FlushedAll, Post, Callers
  <2> QED
    BY <2>1, BackedElsewhere
<1>5. CASE Shutdown \/ Closing
  <2>1. /\ UNCHANGED <<queue_vars, worker>> /\ Closer \in Callers
        /\ pc[Closer] \in {"idle", "stop", "join", "reset"}
        /\ \E to \in Places \ {"wait", "awake", "notify"} : Goto(Closer, to)
    BY <1>5 DEF Shutdown, Closing, StopFlusher, DropAll, ResetPool, ResetsFrom, Drop, Done, Callers
  <2> QED
    BY <2>1, BackedElsewhere
<1>6. CASE UNCHANGED vars
  BY <1>6, SizeKept DEF vars, Backed
<1> QED
  BY <1>1, <1>2, <1>3, <1>4, <1>5, <1>6, BackedWakeUp DEF Next

(* No wake-up is lost, with any number of callers and workers and although  *)
(* notify_one is called after the queue's mutex is released.                *)
THEOREM WakeUpsArrive == Spec => []NoLostWakeUp
<1>1. Init => Backed
  BY DEF Init, Backed, At
<1>2. Backed => NoLostWakeUp
  BY DEF Backed, NoLostWakeUp, Count
<1> QED
  BY <1>1, <1>2, BackedStep, Invariance, PTL DEF Spec

-------------------------------------------------------------------------------
(* The order of the shutdown: until the pool is reset, the registry holds   *)
(* it; from then on the flusher is gone.                                    *)

ClosingOrder ==
  IF pc[Closer] \in {"idle", "stop", "join"}
  THEN Closer \in holders /\ pc[Flusher] # "threw"
  ELSE pc[Flusher] = "exited"

LEMMA ClosingOrderStep == IInv /\ ClosingOrder /\ [Next]_vars => ClosingOrder'
<1> SUFFICES ASSUME IInv, ClosingOrder, [Next]_vars PROVE ClosingOrder'
  OBVIOUS
<1> USE AsyncLoggingAssumption DEF IInv, ClosingOrder
<1>0. Closer # Flusher /\ Flusher \in Callers /\ Closer \in Callers /\ pc \in [Callers -> Places]
  BY DEF Callers, TypeOK
<1>1. ASSUME NEW p \in Producers, Log(p) PROVE ClosingOrder'
  <2>1. p # Closer /\ p # Flusher /\ p \in Callers
    BY DEF Callers
  <2> QED
    BY <1>0, <1>1, <2>1 DEF Log, Post, Goto
<1>2. ASSUME NEW t \in Callers, Posting(t) PROVE ClosingOrder'
  <2>1. CASE Enqueue(t)
    BY <1>0, <2>1 DEF Enqueue, Goto
  <2>2. CASE NotifyPush(t)
    BY <1>0, <2>2 DEF NotifyPush, Goto
  <2>3. CASE Leave(t)
    BY <1>0, <2>3 DEF Leave, Drop, Done, Goto
  <2>4. CASE PostTerminate(t)
    BY <1>0, <2>4 DEF PostTerminate, Goto
  <2>5. CASE Join(t)
    BY <1>0, <2>5 DEF Join, Done, Goto
  <2> QED
    BY <1>2, <2>1, <2>2, <2>3, <2>4, <2>5 DEF Posting
<1>3. ASSUME NEW w \in Workers, Working(w) PROVE ClosingOrder'
  BY <1>0, <1>3 DEF Working, Dequeue, Process, Notified, At, Goto
<1>4. CASE WakeUp
  BY <1>0, <1>4 DEF WakeUp, At, Goto
<1>5. CASE Flushing
  BY <1>0, <1>5 DEF Flushing, FlusherWakes, FlushAll, Flush, FlushedAll, Post, PoolAlive, Goto
<1>6. CASE Shutdown \/ Closing
  BY <1>0, <1>6 DEF Shutdown, Closing, StopFlusher, DropAll, ResetPool, ResetsFrom, Drop, Done, Goto
<1>7. CASE UNCHANGED vars
  BY <1>7 DEF vars
<1> QED
  BY <1>1, <1>2, <1>3, <1>4, <1>5, <1>6, <1>7 DEF Next

(* The periodic flusher never throws for want of a pool, because shutdown   *)
(* joins it before it resets the pool.                                      *)
THEOREM FlusherIsServed == Spec => []FlusherFindsPool
<1>1. Init => ClosingOrder
  BY AsyncLoggingAssumption DEF Init, ClosingOrder, Callers
<1>2. ClosingOrder => FlusherFindsPool
  BY DEF ClosingOrder, FlusherFindsPool
<1> QED
  BY <1>1, <1>2, ClosingOrderStep, Invariance, PTL DEF Spec

-------------------------------------------------------------------------------
(* Whoever posts holds the pool, or is its destructor, which waits.         *)

PostersHold ==
  \A t \in Callers :
    pc[t] \in {"enqueue", "wait", "awake"} => t \in holders \/ posting[t] = TerminateMessage

LEMMA PostersHoldStep == IInv /\ PostersHold /\ [Next]_vars => PostersHold'
<1> SUFFICES ASSUME IInv, PostersHold, [Next]_vars PROVE PostersHold'
  OBVIOUS
<1> USE DEF IInv, PostersHold
<1>0. /\ pc \in [Callers -> Places] /\ posting \in [Callers -> Messages \union {Nothing}]
      /\ Flusher \in Callers /\ Closer \in Callers
  BY DEF Callers, TypeOK
<1>1. ASSUME NEW p \in Producers, Log(p) PROVE PostersHold'
  <2>1. p \in Callers
    BY DEF Callers
  <2> QED
    BY <1>0, <1>1, <2>1 DEF Log, Post, Goto
<1>2. ASSUME NEW t \in Callers, Posting(t) PROVE PostersHold'
  <2>1. CASE Enqueue(t)
    BY <1>0, <2>1 DEF Enqueue, Goto
  <2>2. CASE NotifyPush(t)
    BY <1>0, <2>2 DEF NotifyPush, Goto
  <2>3. CASE Leave(t)
    BY <1>0, <2>3 DEF Leave, Drop, Done, Goto
  <2>4. CASE PostTerminate(t)
    BY <1>0, <2>4 DEF PostTerminate, Goto
  <2>5. CASE Join(t)
    BY <1>0, <2>5 DEF Join, Done, Goto
  <2> QED
    BY <1>2, <2>1, <2>2, <2>3, <2>4, <2>5 DEF Posting
<1>3. ASSUME NEW w \in Workers, Working(w) PROVE PostersHold'
  BY <1>0, <1>3 DEF Working, Dequeue, Process, Notified, At, Goto
<1>4. CASE WakeUp
  BY <1>0, <1>4 DEF WakeUp, At, Goto
<1>5. CASE Flushing
  BY <1>0, <1>5 DEF Flushing, FlusherWakes, FlushAll, Flush, FlushedAll, Post, Goto
<1>6. CASE Shutdown \/ Closing
  BY <1>0, <1>6 DEF Shutdown, Closing, StopFlusher, DropAll, ResetPool, ResetsFrom, Drop, Done, Goto
<1>7. CASE UNCHANGED vars
  BY <1>7 DEF vars
<1> QED
  BY <1>1, <1>2, <1>3, <1>4, <1>5, <1>6, <1>7 DEF Next

(* The destructor, in whichever thread it runs and whatever that thread's   *)
(* own policy is, drives no message out of the queue.                       *)
THEOREM DestructorWaits == Spec => EndDrivesOutNothing
<1>1. Init => PostersHold
  BY AsyncLoggingAssumption DEF Init, PostersHold
<1>2. ASSUME IInv, PostersHold, [Next]_vars PROVE [~PoolAlive => UNCHANGED driven_out]_vars
  <2> SUFFICES ASSUME holders = {}, Next PROVE UNCHANGED driven_out
    BY <1>2 DEF PoolAlive
  <2>1. ASSUME NEW t \in Callers, Enqueue(t) PROVE UNCHANGED driven_out
    <3>1. Blocks(t)
      BY <1>2, <2>1 DEF PostersHold, Enqueue, Blocks
    <3>2. CASE Full
      BY <2>1, <3>1, <3>2 DEF Enqueue, queue_vars
    <3>3. CASE ~Full
      BY <2>1, <3>3 DEF Enqueue, push_back, Full
    <3> QED
      BY <3>2, <3>3
  <2>2. ASSUME NEW t \in Callers, Posting(t) PROVE UNCHANGED driven_out
    BY <2>1, <2>2
    DEF Posting, NotifyPush, Leave, PostTerminate, Join, queue_vars
  <2>3. ASSUME NEW w \in Workers, Working(w) PROVE UNCHANGED driven_out
    BY <2>3 DEF Working, Dequeue, Process, pop_front, queue_vars
  <2> QED
    BY <2>2, <2>3
    DEF Next, Log, WakeUp, Flushing, FlusherWakes, FlushAll, Flush, FlushedAll,
        Shutdown, Closing, StopFlusher, DropAll, ResetPool, queue_vars
<1>3. IInv /\ PostersHold /\ [Next]_vars => [~PoolAlive => UNCHANGED driven_out]_vars
  BY <1>2
<1> QED
  BY <1>1, <1>3, PostersHoldStep, Invariance, PTL DEF Spec, EndDrivesOutNothing

-------------------------------------------------------------------------------
(* The ring implements the buffer.                                          *)

Slot(h, i) == (h + i - 1) % (Capacity + 1)

LEMMA SlotValue ==
  ASSUME NEW h \in 0 .. Capacity, NEW i \in 1 .. Capacity + 1
  PROVE  /\ Slot(h, i) = IF h + i - 1 <= Capacity THEN h + i - 1 ELSE h + i - 2 - Capacity
         /\ Slot(h, i) \in 0 .. Capacity
  BY AsyncLoggingAssumption DEF Slot

LEMMA SlotPlaces ==
  ASSUME Ring
  PROVE  /\ Slot(head, 1) = head /\ Slot(head, Size + 1) = tail
         /\ \A i \in 1 .. Size : Slot(head, i) \in InUse /\ Slot(head, i) # tail
         /\ \A i \in 2 .. Size : Slot(head, i) # head
<1>1. /\ Capacity \in Nat \ {0} /\ Size \in 0 .. Capacity
      /\ head \in 0 .. Capacity /\ tail \in 0 .. Capacity
      /\ Size = IF tail >= head THEN tail - head ELSE Capacity + 1 - (head - tail)
  BY SizeRange, AsyncLoggingAssumption DEF Ring, Size
<1>2. ASSUME NEW i \in 1 .. Size + 1
      PROVE  /\ Slot(head, i) = IF head + i - 1 <= Capacity THEN head + i - 1
                                                           ELSE head + i - 2 - Capacity
             /\ Slot(head, i) \in 0 .. Capacity
  <2>1. i \in 1 .. Capacity + 1
    BY <1>1
  <2> QED
    BY <1>1, <2>1, SlotValue
<1>3. 1 \in 1 .. Size + 1 /\ Size + 1 \in 1 .. Size + 1
  BY <1>1
<1>4. Slot(head, 1) = head /\ Slot(head, Size + 1) = tail
  BY <1>1, <1>2, <1>3
<1>5. ASSUME NEW i \in 1 .. Size PROVE Slot(head, i) \in InUse /\ Slot(head, i) # tail
  BY <1>1, <1>2 DEF InUse
<1>6. ASSUME NEW i \in 2 .. Size PROVE Slot(head, i) # head
  BY <1>1, <1>2
<1> QED
  BY <1>4, <1>5, <1>6

LEMMA SlotShift ==
  ASSUME NEW h \in 0 .. Capacity, NEW i \in 1 .. Capacity
  PROVE  Slot(Successor(h), i) = Slot(h, i + 1)
<1>1. Capacity \in Nat \ {0} /\ i \in 1 .. Capacity + 1 /\ i + 1 \in 1 .. Capacity + 1
  BY AsyncLoggingAssumption
<1>2. Successor(h) \in 0 .. Capacity /\ Successor(h) = IF h = Capacity THEN 0 ELSE h + 1
  BY Wrap
<1>3. Slot(Successor(h), i) = IF Successor(h) + i - 1 <= Capacity THEN Successor(h) + i - 1
                                                     ELSE Successor(h) + i - 2 - Capacity
  BY <1>1, <1>2, SlotValue
<1>4. Slot(h, i + 1) = IF h + (i + 1) - 1 <= Capacity THEN h + (i + 1) - 1
                                                     ELSE h + (i + 1) - 2 - Capacity
  BY <1>1, SlotValue
<1> QED
  BY <1>1, <1>2, <1>3, <1>4

ItemsView ==
  /\ Items \in Seq(Messages) /\ Len(Items) = Size
  /\ \A i \in 1 .. Size : Items[i] = slots[Slot(head, i)]

LEMMA ItemsAre == IInv => ItemsView
<1> SUFFICES ASSUME TypeOK, SlotsFilled PROVE ItemsView
  BY DEF IInv
<1>1. Ring /\ Size \in Nat
  BY SizeRange, AsyncLoggingAssumption DEF TypeOK, Ring
<1>2. Items = [i \in 1 .. Size |-> slots[Slot(head, i)]]
  BY DEF Items, Slot
<1>3. \A i \in 1 .. Size : slots[Slot(head, i)] \in Messages
  BY <1>1, SlotPlaces DEF SlotsFilled
<1>4. Items \in [1 .. Size -> Messages]
  BY <1>2, <1>3
<1> QED
  BY <1>1, <1>2, <1>4 DEF ItemsView

LEMMA NextItems == IInv' => ItemsView'
  BY ItemsAre, PTL

LEMMA SameSequence ==
  ASSUME NEW S, NEW s \in Seq(S), NEW t \in Seq(S), Len(s) = Len(t),
         \A i \in 1 .. Len(s) : s[i] = t[i]
  PROVE  s = t
  OBVIOUS

LEMMA PutItem ==
  ASSUME IInv, NEW m \in Messages, push_back(m), ~Full, IInv'
  PROVE  Len(Items) < Capacity /\ Items' = Append(Items, m)
<1>1. Ring /\ Size \in 0 .. Capacity /\ Size # Capacity /\ Size' = Size + 1 /\ Capacity \in Nat
  BY SizeRange, PushSize, AsyncLoggingAssumption DEF IInv, TypeOK, Ring
<1>2. /\ Items \in Seq(Messages) /\ Len(Items) = Size
      /\ \A i \in 1 .. Size : Items[i] = slots[Slot(head, i)]
  BY ItemsAre DEF ItemsView
<1>3. /\ Items' \in Seq(Messages) /\ Len(Items') = Size'
      /\ \A i \in 1 .. Size' : Items'[i] = slots'[Slot(head', i)]
  BY NextItems DEF ItemsView
<1>4. head' = head /\ slots' = [slots EXCEPT ![tail] = m]
  BY DEF push_back, HeadAfter, Full
<1>5. \A i \in 1 .. Size : Items'[i] = Items[i]
  BY <1>1, <1>2, <1>3, <1>4, SlotPlaces, SlotValue DEF IInv, TypeOK, Ring
<1>6. Items'[Size + 1] = m
  <2>1. Size + 1 \in 1 .. Size' /\ Slot(head', Size + 1) = tail
    BY <1>1, <1>4, SlotPlaces
  <2>2. slots'[tail] = m
    BY <1>4 DEF IInv, TypeOK
  <2> QED
    BY <1>3, <2>1, <2>2
<1>7. \A i \in 1 .. Len(Items') : Items'[i] = Append(Items, m)[i]
  BY <1>1, <1>2, <1>3, <1>5, <1>6
<1>8. Append(Items, m) \in Seq(Messages) /\ Len(Append(Items, m)) = Len(Items')
  BY <1>1, <1>2, <1>3
<1>9. Items' = Append(Items, m)
  BY <1>3, <1>7, <1>8, SameSequence
<1> QED
  BY <1>1, <1>2, <1>9

LEMMA DriveOutItem ==
  ASSUME IInv, NEW m \in Messages, push_back(m), Full, IInv'
  PROVE  Len(Items) = Capacity /\ Items' = Append(Tail(Items), m)
<1>1. Ring /\ Size = Capacity /\ Size' = Size /\ Capacity \in Nat \ {0}
  BY SizeRange, PushSize, AsyncLoggingAssumption DEF IInv, TypeOK, Ring
<1>2. /\ Items \in Seq(Messages) /\ Len(Items) = Size
      /\ \A i \in 1 .. Size : Items[i] = slots[Slot(head, i)]
  BY ItemsAre DEF ItemsView
<1>3. /\ Items' \in Seq(Messages) /\ Len(Items') = Size'
      /\ \A i \in 1 .. Size' : Items'[i] = slots'[Slot(head', i)]
  BY NextItems DEF ItemsView
<1>4. head' = Successor(head) /\ slots' = [slots EXCEPT ![tail] = m]
  BY DEF push_back, HeadAfter, Full
<1>5. \A i \in 1 .. Size : Items'[i] = slots'[Slot(head, i + 1)]
  BY <1>1, <1>3, <1>4, SlotShift DEF Ring
<1>6. \A i \in 1 .. Size - 1 : Items'[i] = Items[i + 1]
  <2> TAKE i \in 1 .. Size - 1
  <2>1. i + 1 \in 1 .. Size /\ i \in 1 .. Size
    BY <1>1
  <2>2. Slot(head, i + 1) \in 0 .. Capacity /\ Slot(head, i + 1) # tail
    BY <1>1, <2>1, SlotPlaces, SlotValue DEF Ring
  <2> QED
    BY <1>2, <1>4, <1>5, <2>1, <2>2 DEF IInv, TypeOK
<1>7. Items'[Size] = m
  BY <1>1, <1>4, <1>5, SlotPlaces DEF IInv, TypeOK
<1>8. /\ Tail(Items) \in Seq(Messages) /\ Len(Tail(Items)) = Size - 1
      /\ \A i \in 1 .. Size - 1 : Tail(Items)[i] = Items[i + 1]
  BY <1>1, <1>2
<1>9. \A i \in 1 .. Len(Items') : Items'[i] = Append(Tail(Items), m)[i]
  BY <1>1, <1>3, <1>6, <1>7, <1>8
<1>10. Append(Tail(Items), m) \in Seq(Messages) /\ Len(Append(Tail(Items), m)) = Len(Items')
  BY <1>1, <1>3, <1>8
<1>11. Items' = Append(Tail(Items), m)
  BY <1>3, <1>9, <1>10, SameSequence
<1> QED
  BY <1>1, <1>2, <1>11

LEMMA TakeItem ==
  ASSUME IInv, ~Empty, pop_front, IInv'
  PROVE  Items # <<>> /\ Items' = Tail(Items)
<1>1. Ring /\ Size \in 1 .. Capacity /\ Size' = Size - 1 /\ Capacity \in Nat \ {0}
  BY SizeRange, PopSize, AsyncLoggingAssumption DEF IInv, TypeOK, Ring
<1>2. /\ Items \in Seq(Messages) /\ Len(Items) = Size
      /\ \A i \in 1 .. Size : Items[i] = slots[Slot(head, i)]
  BY ItemsAre DEF ItemsView
<1>3. /\ Items' \in Seq(Messages) /\ Len(Items') = Size'
      /\ \A i \in 1 .. Size' : Items'[i] = slots'[Slot(head', i)]
  BY NextItems DEF ItemsView
<1>4. head' = Successor(head) /\ slots' = [slots EXCEPT ![head] = Nothing]
  BY DEF pop_front
<1>5. \A i \in 1 .. Size - 1 : Items'[i] = Items[i + 1]
  <2> TAKE i \in 1 .. Size - 1
  <2>1. i + 1 \in 2 .. Size /\ i \in 1 .. Capacity
    BY <1>1
  <2>2. Slot(head, i + 1) # head
    BY <1>1, <2>1, SlotPlaces
  <2>4. i + 1 \in 1 .. Capacity + 1 /\ head \in 0 .. Capacity
    BY <1>1, <2>1 DEF Ring
  <2>5. Slot(head, i + 1) \in 0 .. Capacity
    BY <2>4, SlotValue
  <2>3. Slot(head', i) = Slot(head, i + 1)
    BY <1>1, <1>4, <2>1, SlotShift DEF Ring
  <2> QED
    BY <1>1, <1>2, <1>3, <1>4, <2>1, <2>2, <2>3, <2>5 DEF IInv, TypeOK
<1>6. /\ Items # <<>> /\ Tail(Items) \in Seq(Messages) /\ Len(Tail(Items)) = Size - 1
      /\ \A i \in 1 .. Size - 1 : Tail(Items)[i] = Items[i + 1]
  BY <1>1, <1>2
<1> QED
  BY <1>1, <1>3, <1>5, <1>6, SameSequence

LEMMA BufferStep == IInv /\ IInv' /\ [Next]_vars => [Buffer!Next]_Items
<1> SUFFICES ASSUME IInv, IInv', [Next]_vars PROVE Buffer!Next \/ UNCHANGED Items
  OBVIOUS
<1>1. ASSUME UNCHANGED queue_vars PROVE UNCHANGED Items
  BY <1>1 DEF queue_vars, Items, Size
<1>2. ASSUME NEW t \in Callers, Enqueue(t) PROVE Buffer!Next \/ UNCHANGED Items
  <2>1. posting[t] \in Messages
    BY <1>2 DEF IInv, PostingFilled, Enqueue
  <2>2. CASE Blocks(t) /\ Full
    BY <1>1, <1>2, <2>2 DEF Enqueue
  <2>3. CASE ~(Blocks(t) /\ Full)
    <3>1. push_back(posting[t])
      BY <1>2, <2>3 DEF Enqueue
    <3>2. Buffer!Put(posting[t]) \/ Buffer!DriveOut(posting[t])
      BY <2>1, <3>1, PutItem, DriveOutItem DEF Buffer!Put, Buffer!DriveOut
    <3> QED
      BY <2>1, <3>2 DEF Buffer!Next
  <2> QED
    BY <2>2, <2>3
<1>3. ASSUME NEW w \in Workers, Dequeue(w) PROVE Buffer!Next \/ UNCHANGED Items
  <2>1. CASE Empty
    BY <1>1, <1>3, <2>1 DEF Dequeue
  <2>2. CASE ~Empty
    BY <1>3, <2>2, TakeItem DEF Dequeue, Buffer!Next, Buffer!Take
  <2> QED
    BY <2>1, <2>2
<1>4. ASSUME NEW t \in Callers, Posting(t) PROVE Enqueue(t) \/ UNCHANGED queue_vars
  BY <1>4 DEF Posting, NotifyPush, Leave, PostTerminate, Join
<1>5. ASSUME NEW w \in Workers, Working(w) PROVE Dequeue(w) \/ UNCHANGED queue_vars
  BY <1>5 DEF Working, Process
<1>6. \/ UNCHANGED queue_vars
      \/ \E t \in Callers : Posting(t)
      \/ \E w \in Workers : Working(w)
  BY DEF Next, Log, WakeUp, Flushing, FlusherWakes, FlushAll, Flush, FlushedAll,
         Shutdown, Closing, StopFlusher, DropAll, ResetPool, vars
<1> QED
  BY <1>1, <1>2, <1>3, <1>4, <1>5, <1>6

(* The ring with its wrapping indices, shared by every logger and worker,   *)
(* implements the bounded first-in first-out buffer of BoundedBuffer.       *)
THEOREM RingIsABuffer == Spec => ImplementsBuffer
<1>1. Init => Buffer!Init
  <2> SUFFICES ASSUME Init PROVE Items = <<>>
    BY DEF Buffer!Init
  <2>1. Size = 0
    BY AsyncLoggingAssumption DEF Init, Size
  <2> QED
    BY <2>1, TypeInit, ItemsAre DEF ItemsView
<1> QED
  BY <1>1, BufferStep, Invariance, PTL DEF Spec, ImplementsBuffer, Buffer!Spec

-------------------------------------------------------------------------------
(* The way of a message: posted by its thread, queued, held by a worker and *)
(* written.                                                                 *)

LogOf(p, n) == [kind |-> "log", logger |-> p, n |-> n]

Contains(s, m) == \E i \in 1 .. Len(s) : s[i] = m

Posts(t) == pc[t] \in {"enqueue", "wait", "awake"}

Posted(p, n) == Posts(p) /\ posting[p] = LogOf(p, n)
Queued(p, n) == Contains(Items, LogOf(p, n))
Held(p, n) == \E w \in Workers : worker[w] = "notify" /\ taken[w] = LogOf(p, n)
Written(p, n) == Contains(written[p], n)

(* Nobody posts another thread's message.                                   *)
OwnMessages ==
  \A t \in Callers, p \in Producers, n \in Nat :
    Posts(t) /\ posting[t] = LogOf(p, n) => t = p

(* The messages queued for p, and the numbers of those written, go up.      *)
Sorted(s, p) ==
  \A i, j \in 1 .. Len(s), a, b \in Nat :
    i < j /\ s[i] = LogOf(p, a) /\ s[j] = LogOf(p, b) => a < b

Rising(s) == \A i, j \in 1 .. Len(s) : i < j => s[i] < s[j]

(* What is further on its way has the lower number.                         *)
Ranked(p) ==
  \A a, b \in Nat :
    /\ Written(p, a) /\ (Held(p, b) \/ Queued(p, b) \/ Posted(p, b)) => a < b
    /\ Held(p, a) /\ (Queued(p, b) \/ Posted(p, b)) => a < b
    /\ Queued(p, a) /\ Posted(p, b) => a < b
    /\ Written(p, a) \/ Held(p, a) \/ Queued(p, a) \/ Posted(p, a) => a <= logged[p]

InOrder == \A p \in Producers : Ranked(p) /\ Sorted(Items, p) /\ Rising(written[p])

Alone == \A v, w \in Workers : v = w

(* Every message logged is somewhere on its way or accounted for.           *)
OnItsWay ==
  \A p \in Producers : \A n \in 1 .. logged[p] :
    \/ LogOf(p, n) \in refused \union driven_out
    \/ Posted(p, n) \/ Queued(p, n) \/ Held(p, n) \/ Written(p, n)

(* Terminate messages come from the destructor only, and behind the others. *)
Ended(w) == worker[w] = "exited" \/ (worker[w] = "notify" /\ taken[w] = TerminateMessage)

(* A terminate message is followed by nothing else.                         *)
Closed(s) ==
  \A i, j \in 1 .. Len(s) : i < j /\ s[i] = TerminateMessage => s[j] = TerminateMessage

NoEndYet ==
  /\ \A t \in Callers : pc[t] # "destroy" /\ (Posts(t) => posting[t] # TerminateMessage)
  /\ ~Contains(Items, TerminateMessage)
  /\ \A w \in Workers : ~Ended(w)

EndsLast ==
  /\ holders # {} => NoEndYet
  /\ Closed(Items)
  /\ (\E w \in Workers : Ended(w)) =>
       \A i \in 1 .. Len(Items) : Items[i] = TerminateMessage

LEMMA AppendContains ==
  ASSUME NEW S, NEW s \in Seq(S), NEW x \in S, NEW m
  PROVE  Contains(Append(s, x), m) <=> Contains(s, m) \/ m = x
<1>1. /\ Len(s) \in Nat /\ Len(Append(s, x)) = Len(s) + 1
      /\ Append(s, x)[Len(s) + 1] = x
      /\ \A i \in 1 .. Len(s) : Append(s, x)[i] = s[i]
  OBVIOUS
<1>2. \A i \in 1 .. Len(s) + 1 : i \in 1 .. Len(s) \/ i = Len(s) + 1
  BY <1>1
<1>3. Len(s) + 1 \in 1 .. Len(s) + 1 /\ \A i \in 1 .. Len(s) : i \in 1 .. Len(s) + 1
  BY <1>1
<1> QED BY <1>1, <1>2, <1>3 DEF Contains

LEMMA TailContains ==
  ASSUME NEW S, NEW s \in Seq(S), s # <<>>, NEW m
  PROVE  Contains(s, m) <=> s[1] = m \/ Contains(Tail(s), m)
<1>1. /\ Len(s) \in Nat \ {0} /\ Len(Tail(s)) = Len(s) - 1
      /\ \A i \in 1 .. Len(s) - 1 : Tail(s)[i] = s[i + 1]
  OBVIOUS
<1>2. ASSUME NEW i \in 1 .. Len(s), s[i] = m PROVE s[1] = m \/ Contains(Tail(s), m)
  <2>1. CASE i = 1
    BY <1>2, <2>1
  <2>2. CASE i # 1
    <3>1. i - 1 \in 1 .. Len(s) - 1 /\ (i - 1) + 1 = i
      BY <1>1, <2>2
    <3>2. Tail(s)[i - 1] = m
      BY <1>1, <1>2, <3>1
    <3> QED BY <1>1, <3>1, <3>2 DEF Contains
  <2> QED BY <2>1, <2>2
<1>3. ASSUME NEW i \in 1 .. Len(Tail(s)), Tail(s)[i] = m PROVE Contains(s, m)
  <2>1. i + 1 \in 1 .. Len(s) /\ s[i + 1] = m
    BY <1>1, <1>3
  <2> QED BY <2>1 DEF Contains
<1>4. s[1] = m => Contains(s, m)
  BY <1>1 DEF Contains
<1> QED BY <1>2, <1>3, <1>4 DEF Contains

LEMMA AppendSorts ==
  ASSUME NEW S, NEW s \in Seq(S), NEW x \in S, NEW p, Sorted(s, p),
         \A a, b \in Nat : Contains(s, LogOf(p, a)) /\ x = LogOf(p, b) => a < b
  PROVE  Sorted(Append(s, x), p)
<1>1. /\ Len(s) \in Nat /\ Len(Append(s, x)) = Len(s) + 1
      /\ Append(s, x)[Len(s) + 1] = x
      /\ \A i \in 1 .. Len(s) : Append(s, x)[i] = s[i]
  OBVIOUS
<1> SUFFICES ASSUME NEW i \in 1 .. Len(s) + 1, NEW j \in 1 .. Len(s) + 1,
                    NEW a \in Nat, NEW b \in Nat, i < j,
                    Append(s, x)[i] = LogOf(p, a), Append(s, x)[j] = LogOf(p, b)
             PROVE  a < b
  BY <1>1 DEF Sorted
<1>2. i \in 1 .. Len(s) /\ s[i] = LogOf(p, a)
  BY <1>1
<1>3. CASE j = Len(s) + 1
  BY <1>1, <1>2, <1>3 DEF Contains
<1>4. CASE j # Len(s) + 1
  <2>1. j \in 1 .. Len(s) /\ s[j] = LogOf(p, b)
    BY <1>1, <1>4
  <2> QED BY <1>2, <2>1 DEF Sorted
<1> QED BY <1>3, <1>4

LEMMA TailSorted ==
  ASSUME NEW S, NEW s \in Seq(S), s # <<>>, NEW p, Sorted(s, p)
  PROVE  /\ Sorted(Tail(s), p)
         /\ \A a, b \in Nat : s[1] = LogOf(p, a) /\ Contains(Tail(s), LogOf(p, b)) => a < b
<1>1. /\ Len(s) \in Nat \ {0} /\ Len(Tail(s)) = Len(s) - 1
      /\ \A i \in 1 .. Len(s) - 1 : Tail(s)[i] = s[i + 1] /\ i + 1 \in 1 .. Len(s)
      /\ 1 \in 1 .. Len(s)
  OBVIOUS
<1>2. ASSUME NEW i \in 1 .. Len(s) - 1, NEW j \in 1 .. Len(s) - 1,
             NEW a \in Nat, NEW b \in Nat, i < j,
             Tail(s)[i] = LogOf(p, a), Tail(s)[j] = LogOf(p, b)
      PROVE  a < b
  <2>1. s[i + 1] = LogOf(p, a) /\ s[j + 1] = LogOf(p, b) /\ i + 1 < j + 1
    BY <1>1, <1>2
  <2> QED BY <1>1, <2>1 DEF Sorted
<1>3. ASSUME NEW j \in 1 .. Len(s) - 1, NEW a \in Nat, NEW b \in Nat,
             s[1] = LogOf(p, a), Tail(s)[j] = LogOf(p, b)
      PROVE  a < b
  <2>1. s[j + 1] = LogOf(p, b) /\ 1 < j + 1
    BY <1>1, <1>3
  <2> QED BY <1>1, <1>3, <2>1 DEF Sorted
<1> QED BY <1>1, <1>2, <1>3 DEF Sorted, Contains

LEMMA AppendRises ==
  ASSUME NEW s \in Seq(Nat), NEW n \in Nat, Rising(s),
         \A a \in Nat : Contains(s, a) => a < n
  PROVE  Rising(Append(s, n))
<1>1. /\ Len(s) \in Nat /\ Len(Append(s, n)) = Len(s) + 1
      /\ Append(s, n)[Len(s) + 1] = n
      /\ \A i \in 1 .. Len(s) : Append(s, n)[i] = s[i] /\ s[i] \in Nat
  OBVIOUS
<1> SUFFICES ASSUME NEW i \in 1 .. Len(s) + 1, NEW j \in 1 .. Len(s) + 1, i < j
             PROVE  Append(s, n)[i] < Append(s, n)[j]
  BY <1>1 DEF Rising
<1>2. i \in 1 .. Len(s) /\ Append(s, n)[i] = s[i] /\ Contains(s, s[i]) /\ s[i] \in Nat
  BY <1>1 DEF Contains
<1>3. CASE j = Len(s) + 1
  BY <1>1, <1>2, <1>3
<1>4. CASE j # Len(s) + 1
  BY <1>1, <1>2, <1>4 DEF Rising
<1> QED BY <1>3, <1>4

LEMMA AppendCloses ==
  ASSUME NEW S, NEW s \in Seq(S), NEW x \in S, Closed(s),
         Contains(s, TerminateMessage) => x = TerminateMessage
  PROVE  Closed(Append(s, x))
<1>1. /\ Len(s) \in Nat /\ Len(Append(s, x)) = Len(s) + 1
      /\ Append(s, x)[Len(s) + 1] = x
      /\ \A i \in 1 .. Len(s) : Append(s, x)[i] = s[i]
  OBVIOUS
<1> SUFFICES ASSUME NEW i \in 1 .. Len(s) + 1, NEW j \in 1 .. Len(s) + 1, i < j,
                    Append(s, x)[i] = TerminateMessage
             PROVE  Append(s, x)[j] = TerminateMessage
  BY <1>1 DEF Closed
<1>2. i \in 1 .. Len(s) /\ s[i] = TerminateMessage
  BY <1>1
<1>3. CASE j = Len(s) + 1
  BY <1>1, <1>2, <1>3 DEF Contains
<1>4. CASE j # Len(s) + 1
  <2>1. j \in 1 .. Len(s)
    BY <1>1, <1>4
  <2> QED BY <1>1, <1>2, <2>1 DEF Closed
<1> QED BY <1>3, <1>4

LEMMA TailCloses ==
  ASSUME NEW S, NEW s \in Seq(S), s # <<>>, Closed(s)
  PROVE  /\ Closed(Tail(s))
         /\ s[1] = TerminateMessage =>
              \A i \in 1 .. Len(Tail(s)) : Tail(s)[i] = TerminateMessage
<1>1. /\ Len(s) \in Nat \ {0} /\ Len(Tail(s)) = Len(s) - 1
      /\ \A i \in 1 .. Len(s) - 1 : Tail(s)[i] = s[i + 1] /\ i + 1 \in 1 .. Len(s)
      /\ 1 \in 1 .. Len(s)
  OBVIOUS
<1>2. ASSUME NEW i \in 1 .. Len(s) - 1, NEW j \in 1 .. Len(s) - 1, i < j,
             Tail(s)[i] = TerminateMessage
      PROVE  Tail(s)[j] = TerminateMessage
  <2>1. s[i + 1] = TerminateMessage /\ i + 1 < j + 1
    BY <1>1, <1>2
  <2> QED BY <1>1, <2>1 DEF Closed
<1>3. ASSUME NEW j \in 1 .. Len(s) - 1, s[1] = TerminateMessage
      PROVE  Tail(s)[j] = TerminateMessage
  BY <1>1, <1>3 DEF Closed
<1> QED BY <1>1, <1>2, <1>3 DEF Closed

(* Messages are told apart by their fields.                                 *)
LEMMA Kinds ==
  /\ \A p, q, a, b : LogOf(p, a) = LogOf(q, b) => p = q /\ a = b
  /\ \A p, n : LogOf(p, n) # TerminateMessage /\ LogOf(p, n) \notin FlushMessage
  /\ TerminateMessage \notin FlushMessage /\ TerminateMessage \notin LogMessage
<1>1. \A p, q, a, b : LogOf(p, a) = LogOf(q, b) => p = q /\ a = b
  <2> SUFFICES ASSUME NEW p, NEW q, NEW a, NEW b, LogOf(p, a) = LogOf(q, b)
               PROVE  p = q /\ a = b
    OBVIOUS
  <2>1. LogOf(p, a).logger = p /\ LogOf(q, b).logger = q /\ LogOf(p, a).n = a /\ LogOf(q, b).n = b
    BY DEF LogOf
  <2> QED BY <2>1
<1>2. ASSUME NEW p, NEW n
      PROVE  LogOf(p, n) # TerminateMessage /\ LogOf(p, n) \notin FlushMessage
  <2>1. LogOf(p, n).kind = "log" /\ TerminateMessage.kind = "terminate"
    BY DEF LogOf, TerminateMessage
  <2>2. \A m \in FlushMessage : m.kind = "flush"
    BY DEF FlushMessage
  <2> QED BY <2>1, <2>2
<1>3. TerminateMessage \notin FlushMessage /\ TerminateMessage \notin LogMessage
  <2>1. TerminateMessage.kind = "terminate"
    BY DEF TerminateMessage
  <2>2. \A m \in FlushMessage : m.kind = "flush"
    BY DEF FlushMessage
  <2>3. \A m \in LogMessage : m.kind = "log"
    BY DEF LogMessage
  <2> QED BY <2>1, <2>2, <2>3
<1> QED BY <1>1, <1>2, <1>3

LEMMA LogMessageIs ==
  /\ \A m \in LogMessage : m = LogOf(m.logger, m.n)
  /\ \A p \in Producers : \A n \in 1 .. MaxLogs[p] : LogOf(p, n) \in LogMessage
<1>1. ASSUME NEW m \in LogMessage PROVE m = LogOf(m.logger, m.n)
  <2> PICK p \in Producers : m \in [kind : {"log"}, logger : {p}, n : 1 .. MaxLogs[p]]
    BY DEF LogMessage
  <2> QED BY DEF LogOf
<1>2. ASSUME NEW p \in Producers, NEW n \in 1 .. MaxLogs[p] PROVE LogOf(p, n) \in LogMessage
  <2>1. LogOf(p, n) \in [kind : {"log"}, logger : {p}, n : 1 .. MaxLogs[p]]
    BY DEF LogOf
  <2> QED BY <2>1 DEF LogMessage
<1> QED BY <1>1, <1>2

-------------------------------------------------------------------------------
(* What a step does to the messages on their way.                           *)

(* Nothing: what is posted, but for requests to flush and to terminate, is  *)
(* posted as before, what is held is held, and nothing else changes.        *)
Quiet ==
  /\ Items' = Items
  /\ UNCHANGED <<driven_out, written, refused, logged>>
  /\ \A t \in Callers : Posts(t) => Posts(t)' /\ posting'[t] = posting[t]
  /\ \A t \in Callers : Posts(t)' =>
       \/ Posts(t) /\ posting'[t] = posting[t]
       \/ posting'[t] \in FlushMessage \union {TerminateMessage}
  /\ \A w \in Workers :
       /\ worker'[w] = "notify" <=> worker[w] = "notify"
       /\ worker[w] = "notify" => taken'[w] = taken[w]
       /\ worker'[w] = "exited" => worker[w] = "exited"

(* A caller puts its message at the end of the queue, which may drive out   *)
(* the one at the front.                                                    *)
Pushes(t) ==
  /\ Posts(t) /\ posting[t] \in Messages
  /\ pc' = [pc EXCEPT ![t] = "notify"]
  /\ posting' = [posting EXCEPT ![t] = Nothing]
  /\ UNCHANGED <<worker, taken, holders, written, refused, logged>>
  /\ driven_out \subseteq driven_out'
  /\ \/ Items' = Append(Items, posting[t])
     \/ /\ Items # <<>> /\ Items' = Append(Tail(Items), posting[t])
        /\ Items[1] \in FlushMessage \union driven_out'

(* A worker takes the message at the front.                                 *)
Takes(w) ==
  /\ Items # <<>> /\ Items' = Tail(Items)
  /\ worker[w] # "notify"
  /\ worker' = [worker EXCEPT ![w] = "notify"]
  /\ taken' = [taken EXCEPT ![w] = Items[1]]
  /\ UNCHANGED <<pc, posting, holders, driven_out, written, refused, logged>>

LEMMA ItemsKept == UNCHANGED queue_vars => Items' = Items
  BY DEF queue_vars, Items, Size

LEMMA FrontItem ==
  ASSUME IInv, Items # <<>>
  PROVE  Items[1] = slots[head]
<1>1. ItemsView /\ Ring
  BY ItemsAre DEF IInv, TypeOK, Ring
<1>2. 1 \in 1 .. Size
  BY <1>1 DEF ItemsView
<1> QED BY <1>1, <1>2, SlotPlaces DEF ItemsView

LEMMA EnqueuePushes ==
  ASSUME IInv, IInv', NEW t \in Callers, Enqueue(t), ~(Blocks(t) /\ Full)
  PROVE  Pushes(t)
<1>1. /\ push_back(posting[t]) /\ posting' = [posting EXCEPT ![t] = Nothing]
      /\ pc' = [pc EXCEPT ![t] = "notify"] /\ Posts(t)
      /\ UNCHANGED <<worker, taken, holders, written, refused, logged>>
  BY DEF Enqueue, Goto, Posts
<1>2. posting[t] \in Messages
  BY DEF Enqueue, IInv, PostingFilled
<1>3. CASE ~Full
  <2>1. Items' = Append(Items, posting[t]) /\ driven_out' = driven_out
    BY <1>1, <1>2, <1>3, PutItem DEF push_back, Full
  <2> QED BY <1>1, <1>2, <2>1 DEF Pushes
<1>4. CASE Full
  <2>1. Len(Items) = Capacity /\ Items' = Append(Tail(Items), posting[t])
    BY <1>1, <1>2, <1>4, DriveOutItem
  <2>2. Items # <<>>
    BY <2>1, AsyncLoggingAssumption
  <2>3. driven_out' = driven_out \union ({Items[1]} \ FlushMessage)
    BY <1>1, <1>4, <2>2, FrontItem DEF push_back, Full
  <2> QED BY <1>1, <1>2, <2>1, <2>2, <2>3 DEF Pushes
<1> QED BY <1>3, <1>4

LEMMA DequeueTakes ==
  ASSUME IInv, IInv', NEW w \in Workers, Dequeue(w), ~Empty
  PROVE  Takes(w)
<1>1. pop_front /\ worker[w] \in {"dequeue", "awake"}
  BY DEF Dequeue
<1>2. Items # <<>> /\ Items' = Tail(Items)
  BY <1>1, TakeItem
<1>3. Items[1] = Front
  BY <1>2, FrontItem DEF Front
<1> QED BY <1>1, <1>2, <1>3 DEF Takes, Dequeue, pop_front

LEMMA StepKinds ==
  IInv /\ IInv' /\ [Next]_vars =>
    \/ Quiet
    \/ \E p \in Producers : Log(p)
    \/ \E t \in Callers : Pushes(t)
    \/ \E w \in Workers : Takes(w) \/ Process(w)
<1> SUFFICES ASSUME IInv, IInv', [Next]_vars
             PROVE  \/ Quiet
                    \/ \E p \in Producers : Log(p)
                    \/ \E t \in Callers : Pushes(t)
                    \/ \E w \in Workers : Takes(w) \/ Process(w)
  OBVIOUS
<1>0. /\ pc \in [Callers -> Places] /\ posting \in [Callers -> Messages \union {Nothing}]
      /\ worker \in [Workers -> {"dequeue", "wait", "awake", "notify", "exited"}]
      /\ Flusher \in Callers /\ Closer \in Callers
  BY DEF Callers, IInv, TypeOK
<1>1. ASSUME NEW t \in Callers, Posting(t) PROVE Quiet \/ Pushes(t)
  <2>1. CASE Enqueue(t) /\ ~(Blocks(t) /\ Full)
    BY <2>1, EnqueuePushes
  <2>2. CASE Enqueue(t) /\ Blocks(t) /\ Full
    BY <1>0, <2>2, ItemsKept DEF Enqueue, Goto, Quiet, Posts, queue_vars
  <2>3. CASE NotifyPush(t)
    BY <1>0, <2>3, ItemsKept DEF NotifyPush, Goto, At, Quiet, Posts, queue_vars
  <2>4. CASE Leave(t)
    BY <1>0, <2>4, ItemsKept DEF Leave, Drop, Done, Goto, Quiet, Posts, queue_vars
  <2>5. CASE PostTerminate(t)
    <3>1. pc' = [pc EXCEPT ![t] = "enqueue"] /\ pc[t] = "destroy"
      BY <2>5 DEF PostTerminate, Goto
    <3>2. posting' = [posting EXCEPT ![t] = TerminateMessage]
      BY <2>5 DEF PostTerminate
    <3>3. UNCHANGED <<queue_vars, written, refused, logged, worker, taken>>
      BY <2>5 DEF PostTerminate
    <3>4. \A u \in Callers : Posts(u) => Posts(u)' /\ posting'[u] = posting[u]
      BY <1>0, <3>1, <3>2 DEF Posts
    <3>5. \A u \in Callers : Posts(u)' =>
            \/ Posts(u) /\ posting'[u] = posting[u]
            \/ posting'[u] = TerminateMessage
      BY <1>0, <3>1, <3>2 DEF Posts
    <3> QED BY <3>3, <3>4, <3>5, ItemsKept DEF Quiet, queue_vars
  <2>6. CASE Join(t)
    BY <1>0, <2>6, ItemsKept DEF Join, Done, Goto, Quiet, Posts, queue_vars
  <2> QED BY <1>1, <2>1, <2>2, <2>3, <2>4, <2>5, <2>6 DEF Posting
<1>2. ASSUME NEW w \in Workers, Working(w) PROVE Quiet \/ Takes(w) \/ Process(w)
  <2>1. CASE Dequeue(w) /\ ~Empty
    BY <2>1, DequeueTakes
  <2>2. CASE Dequeue(w) /\ Empty
    BY <1>0, <2>2, ItemsKept DEF Dequeue, Quiet, Posts, queue_vars
  <2> QED BY <1>2, <2>1, <2>2 DEF Working
<1>3. CASE WakeUp
  BY <1>0, <1>3, ItemsKept DEF WakeUp, At, Goto, Quiet, Posts, queue_vars
<1>4. CASE Flushing
  <2>1. CASE FlusherWakes \/ FlushAll \/ FlushedAll
    BY <1>0, <2>1, ItemsKept
    DEF FlusherWakes, FlushAll, FlushedAll, Goto, Quiet, Posts, queue_vars
  <2>2. CASE Flush
    <3>1. UNCHANGED <<queue_vars, written, refused, logged, worker, taken>> /\ pc[Flusher] = "next"
      BY <2>2 DEF Flush
    <3> PICK p \in to_flush :
          IF PoolAlive THEN Post(Flusher, [kind |-> "flush", logger |-> p])
          ELSE Goto(Flusher, "threw") /\ UNCHANGED <<holders, posting>>
      BY <2>2 DEF Flush
    <3> PICK m \in FlushMessage : m = [kind |-> "flush", logger |-> p]
      BY DEF FlushMessage, IInv, TypeOK
    <3>2. \/ /\ pc' = [pc EXCEPT ![Flusher] = "enqueue"]
             /\ posting' = [posting EXCEPT ![Flusher] = m]
          \/ pc' = [pc EXCEPT ![Flusher] = "threw"] /\ posting' = posting
      BY DEF Post, Goto
    <3>3. \A u \in Callers : Posts(u) => Posts(u)' /\ posting'[u] = posting[u]
      BY <1>0, <3>1, <3>2 DEF Posts
    <3>4. \A u \in Callers : Posts(u)' =>
            (Posts(u) /\ posting'[u] = posting[u]) \/ posting'[u] \in FlushMessage
      BY <1>0, <3>1, <3>2 DEF Posts
    <3> QED BY <3>1, <3>3, <3>4, ItemsKept DEF Quiet, queue_vars
  <2> QED BY <1>4, <2>1, <2>2 DEF Flushing
<1>5. CASE Shutdown \/ Closing
  BY <1>0, <1>5, ItemsKept
  DEF Shutdown, Closing, StopFlusher, DropAll, ResetPool, ResetsFrom, Drop, Done, Goto,
      Quiet, Posts, queue_vars
<1>6. CASE UNCHANGED vars
  BY <1>6, ItemsKept DEF vars, Quiet, Posts, queue_vars
<1> QED BY <1>1, <1>2, <1>3, <1>4, <1>5, <1>6 DEF Next

(* What logging and writing a message comes to.                             *)
LEMMA LogFacts ==
  ASSUME IInv, NEW p \in Producers, Log(p)
  PROVE  /\ Items' = Items
         /\ UNCHANGED <<driven_out, written, worker, taken>>
         /\ logged' = [logged EXCEPT ![p] = logged[p] + 1]
         /\ p \in Callers /\ ~Posts(p)
         /\ \/ /\ pc' = [pc EXCEPT ![p] = "enqueue"]
               /\ posting' = [posting EXCEPT ![p] = LogOf(p, logged[p] + 1)]
               /\ refused' = refused
            \/ /\ UNCHANGED <<pc, posting>>
               /\ refused' = refused \union {LogOf(p, logged[p] + 1)}
<1>1. LogOf(p, logged[p] + 1) = [kind |-> "log", logger |-> p, n |-> logged[p] + 1]
  BY DEF LogOf
<1>2. /\ UNCHANGED queue_vars /\ UNCHANGED <<written, worker, taken>>
      /\ logged' = [logged EXCEPT ![p] = logged[p] + 1]
      /\ pc[p] = "idle" /\ p \in Callers
  BY DEF Log, Callers
<1>3. \/ /\ pc' = [pc EXCEPT ![p] = "enqueue"]
         /\ posting' = [posting EXCEPT ![p] = LogOf(p, logged[p] + 1)]
         /\ refused' = refused
      \/ /\ UNCHANGED <<pc, posting>>
         /\ refused' = refused \union {LogOf(p, logged[p] + 1)}
  BY <1>1 DEF Log, Post, Goto
<1> QED BY <1>2, <1>3, ItemsKept DEF Posts, queue_vars

LEMMA ProcessFacts ==
  ASSUME IInv, NEW w \in Workers, Process(w)
  PROVE  /\ Items' = Items
         /\ UNCHANGED <<driven_out, posting, holders, refused, logged>>
         /\ \A t \in Callers : Posts(t)' <=> Posts(t)
         /\ worker[w] = "notify" /\ worker'[w] # "notify"
         /\ worker'[w] = "exited" => taken[w] = TerminateMessage
         /\ \A v \in Workers \ {w} : worker'[v] = worker[v] /\ taken'[v] = taken[v]
         /\ \/ /\ taken[w] \in LogMessage
               /\ written' = [written EXCEPT ![taken[w].logger] =
                                Append(written[taken[w].logger], taken[w].n)]
            \/ taken[w] \notin LogMessage /\ written' = written
<1>0. /\ pc \in [Callers -> Places]
      /\ worker \in [Workers -> {"dequeue", "wait", "awake", "notify", "exited"}]
      /\ taken \in [Workers -> Messages \union {Nothing}]
  BY DEF IInv, TypeOK
<1>1. \A t \in Callers : Posts(t)' <=> Posts(t)
  <2>1. pc' = pc \/ \E t \in At(pc, "wait") : pc' = [pc EXCEPT ![t] = "awake"]
    BY DEF Process, Notified, Goto
  <2> QED BY <1>0, <2>1 DEF Posts, At
<1> QED BY <1>0, <1>1, ItemsKept DEF Process, queue_vars

LEMMA OwnMessagesStep ==
  ASSUME IInv, IInv', OwnMessages, [Next]_vars
  PROVE  OwnMessages'
<1>0. pc \in [Callers -> Places] /\ posting \in [Callers -> Messages \union {Nothing}]
  BY DEF IInv, TypeOK
<1> SUFFICES ASSUME NEW t \in Callers, NEW q \in Producers, NEW n \in Nat,
                    Posts(t)', posting'[t] = LogOf(q, n)
             PROVE  t = q
  BY DEF OwnMessages
<1>1. Posts(t) /\ posting'[t] = posting[t] => t = q
  BY DEF OwnMessages
<1>2. CASE Quiet
  BY <1>1, <1>2, Kinds DEF Quiet
<1>3. ASSUME NEW p \in Producers, Log(p) PROVE t = q
  <2>1. CASE t = p /\ posting'[p] = LogOf(p, logged[p] + 1)
    BY <2>1, Kinds
  <2> QED BY <1>0, <1>1, <1>3, <2>1, LogFacts DEF Posts
<1>4. ASSUME NEW u \in Callers, Pushes(u) PROVE t = q
  <2>1. t # u
    BY <1>0, <1>4 DEF Pushes, Posts
  <2> QED BY <1>0, <1>1, <1>4, <2>1 DEF Pushes, Posts
<1>5. ASSUME NEW w \in Workers, Takes(w) PROVE t = q
  BY <1>1, <1>5 DEF Takes, Posts
<1>6. ASSUME NEW w \in Workers, Process(w) PROVE t = q
  BY <1>1, <1>6, ProcessFacts
<1> QED BY <1>2, <1>3, <1>4, <1>5, <1>6, StepKinds

-------------------------------------------------------------------------------
(* With one worker, the order is kept.                                      *)

LEMMA OrderQuiet ==
  ASSUME IInv, InOrder, Quiet PROVE InOrder'
<1> SUFFICES ASSUME NEW q \in Producers
             PROVE  (Ranked(q) /\ Sorted(Items, q) /\ Rising(written[q]))'
  BY DEF InOrder
<1>1. Ranked(q) /\ Sorted(Items, q) /\ Rising(written[q]) /\ q \in Callers
  BY DEF InOrder, Callers
<1>2. ASSUME NEW n \in Nat
      PROVE  /\ Posted(q, n)' => Posted(q, n)
             /\ Held(q, n)' => Held(q, n)
             /\ Queued(q, n)' => Queued(q, n)
             /\ Written(q, n)' => Written(q, n)
  <2>1. Posted(q, n)' => Posted(q, n)
    BY <1>1, Kinds DEF Quiet, Posted
  <2>2. Held(q, n)' => Held(q, n)
    BY DEF Quiet, Held
  <2>3. (Queued(q, n)' => Queued(q, n)) /\ (Written(q, n)' => Written(q, n))
    BY DEF Quiet, Queued, Written, Contains
  <2> QED BY <2>1, <2>2, <2>3
<1>3. Ranked(q)'
  BY <1>1, <1>2 DEF Ranked, Quiet
<1>4. Sorted(Items, q)' /\ Rising(written[q])'
  BY <1>1 DEF Quiet, Sorted, Rising
<1> QED BY <1>3, <1>4

LEMMA OrderLog ==
  ASSUME IInv, InOrder, NEW p \in Producers, Log(p) PROVE InOrder'
<1> SUFFICES ASSUME NEW q \in Producers
             PROVE  (Ranked(q) /\ Sorted(Items, q) /\ Rising(written[q]))'
  BY DEF InOrder
<1>1. Ranked(q) /\ Sorted(Items, q) /\ Rising(written[q])
  BY DEF InOrder
<1>2. /\ Items' = Items /\ UNCHANGED <<written, worker, taken>>
      /\ logged[q] \in Nat /\ logged'[q] = logged[q] + (IF p = q THEN 1 ELSE 0)
      /\ q \in Callers
  BY LogFacts DEF IInv, TypeOK, Callers
<1>3. ASSUME NEW n \in Nat
      PROVE  /\ Held(q, n)' <=> Held(q, n)
             /\ Queued(q, n)' <=> Queued(q, n)
             /\ Written(q, n)' <=> Written(q, n)
             /\ Posted(q, n)' => Posted(q, n) \/ (p = q /\ n = logged[q] + 1)
  <2>1. Held(q, n)' <=> Held(q, n)
    BY <1>2 DEF Held
  <2>2. (Queued(q, n)' <=> Queued(q, n)) /\ (Written(q, n)' <=> Written(q, n))
    BY <1>2 DEF Queued, Written, Contains
  <2>3. Posted(q, n)' => Posted(q, n) \/ (p = q /\ n = logged[q] + 1)
    <3>1. pc \in [Callers -> Places] /\ posting \in [Callers -> Messages \union {Nothing}]
      BY DEF IInv, TypeOK
    <3>2. CASE p = q
      BY <1>2, <3>1, <3>2, LogFacts, Kinds DEF Posted, Posts
    <3>3. CASE p # q
      BY <1>2, <3>1, <3>3, LogFacts DEF Posted, Posts
    <3> QED BY <3>2, <3>3
  <2> QED BY <2>1, <2>2, <2>3
<1>4. Ranked(q)'
  <2> SUFFICES ASSUME NEW a \in Nat, NEW b \in Nat
      PROVE ( /\ Written(q, a) /\ (Held(q, b) \/ Queued(q, b) \/ Posted(q, b)) => a < b
              /\ Held(q, a) /\ (Queued(q, b) \/ Posted(q, b)) => a < b
              /\ Queued(q, a) /\ Posted(q, b) => a < b
              /\ Written(q, a) \/ Held(q, a) \/ Queued(q, a) \/ Posted(q, a)
                   => a <= logged[q])'
    BY DEF Ranked
  <2>1. /\ Written(q, a) /\ (Held(q, b) \/ Queued(q, b) \/ Posted(q, b)) => a < b
        /\ Held(q, a) /\ (Queued(q, b) \/ Posted(q, b)) => a < b
        /\ Queued(q, a) /\ Posted(q, b) => a < b
        /\ Written(q, a) \/ Held(q, a) \/ Queued(q, a) \/ Posted(q, a) => a <= logged[q]
    BY <1>1 DEF Ranked
  <2>2. Written(q, a) \/ Held(q, a) \/ Queued(q, a) => a < logged[q] + 1
    BY <1>2, <2>1
  <2>3. logged[q] <= logged'[q] /\ (p = q => logged'[q] = logged[q] + 1)
    BY <1>2
  <2> HIDE DEF Written, Held, Queued, Posted
  <2> QED BY <1>2, <1>3, <2>1, <2>2, <2>3
<1>5. Sorted(Items, q)' /\ Rising(written[q])'
  BY <1>1, <1>2 DEF Sorted, Rising
<1> QED BY <1>4, <1>5

LEMMA OrderPush ==
  ASSUME IInv, OwnMessages, InOrder, NEW t \in Callers, Pushes(t) PROVE InOrder'
<1> SUFFICES ASSUME NEW q \in Producers
             PROVE  (Ranked(q) /\ Sorted(Items, q) /\ Rising(written[q]))'
  BY DEF InOrder
<1>1. Ranked(q) /\ Sorted(Items, q) /\ Rising(written[q])
  BY DEF InOrder
<1>2. /\ UNCHANGED <<written, logged, worker, taken>> /\ q \in Callers
      /\ pc \in [Callers -> Places] /\ posting \in [Callers -> Messages \union {Nothing}]
      /\ Items \in Seq(Messages) /\ posting[t] \in Messages
  BY ItemsAre DEF Pushes, IInv, TypeOK, Callers, ItemsView
<1>3. \A n \in Nat : posting[t] = LogOf(q, n) => q = t /\ Posted(q, n)
  BY DEF OwnMessages, Pushes, Posted
<1>4. ASSUME NEW n \in Nat
      PROVE  /\ Held(q, n)' => Held(q, n)
             /\ Written(q, n)' => Written(q, n)
             /\ Posted(q, n)' => Posted(q, n) /\ q # t
             /\ Queued(q, n)' => Queued(q, n) \/ (q = t /\ Posted(q, n))
  <2>1. (Held(q, n)' => Held(q, n)) /\ (Written(q, n)' => Written(q, n))
    BY <1>2 DEF Held, Written
  <2>2. Posted(q, n)' => Posted(q, n) /\ q # t
    BY <1>2 DEF Pushes, Posted, Posts
  <2>3. Queued(q, n)' => Queued(q, n) \/ (q = t /\ Posted(q, n))
    <3>1. CASE Items' = Append(Items, posting[t])
      BY <1>2, <1>3, <3>1, AppendContains DEF Queued
    <3>2. CASE Items # <<>> /\ Items' = Append(Tail(Items), posting[t])
      <4>1. Tail(Items) \in Seq(Messages)
        BY <1>2, <3>2
      <4> PICK rest \in Seq(Messages) : rest = Tail(Items)
        BY <4>1
      <4>2. Contains(Append(rest, posting[t]), LogOf(q, n)) =>
              Contains(rest, LogOf(q, n)) \/ LogOf(q, n) = posting[t]
        <5>1. rest \in Seq(Messages) /\ posting[t] \in Messages
          BY <1>2
        <5> QED BY ONLY <5>1, AppendContains
      <4>3. Contains(Tail(Items), LogOf(q, n)) => Contains(Items, LogOf(q, n))
        BY <1>2, <3>2, TailContains
      <4> QED BY <1>3, <3>2, <4>2, <4>3 DEF Queued
    <3> QED BY <3>1, <3>2 DEF Pushes
  <2> QED BY <2>1, <2>2, <2>3
<1>5. Ranked(q)'
  BY <1>1, <1>2, <1>4 DEF Ranked
<1>6. Sorted(Items', q)
  <2>1. \A a, b \in Nat : Contains(Items, LogOf(q, a)) /\ posting[t] = LogOf(q, b) => a < b
    BY <1>1, <1>3 DEF Ranked, Queued
  <2>2. CASE Items' = Append(Items, posting[t])
    BY <1>1, <1>2, <2>1, <2>2, AppendSorts
  <2>3. CASE Items # <<>> /\ Items' = Append(Tail(Items), posting[t])
    <3>1. Tail(Items) \in Seq(Messages) /\ Sorted(Tail(Items), q)
      BY <1>1, <1>2, <2>3, TailSorted
    <3>2. \A a \in Nat : Contains(Tail(Items), LogOf(q, a)) => Contains(Items, LogOf(q, a))
      BY <1>2, <2>3, TailContains
    <3> PICK rest \in Seq(Messages) : rest = Tail(Items)
      BY <3>1
    <3>3. \A a, b \in Nat : Contains(rest, LogOf(q, a)) /\ posting[t] = LogOf(q, b) => a < b
      BY <2>1, <3>2
    <3>4. Sorted(rest, q)
      BY <3>1
    <3>5. Sorted(Append(rest, posting[t]), q)
      BY <1>2, <3>3, <3>4, AppendSorts
    <3> QED BY <2>3, <3>5
  <2> QED BY <2>2, <2>3 DEF Pushes
<1>7. Sorted(Items, q)' /\ Rising(written[q])'
  BY <1>1, <1>2, <1>6 DEF Sorted, Rising
<1> QED BY <1>5, <1>7

LEMMA OrderTake ==
  ASSUME IInv, Alone, InOrder, NEW w \in Workers, Takes(w) PROVE InOrder'
<1> SUFFICES ASSUME NEW q \in Producers
             PROVE  (Ranked(q) /\ Sorted(Items, q) /\ Rising(written[q]))'
  BY DEF InOrder
<1>1. Ranked(q) /\ Sorted(Items, q) /\ Rising(written[q])
  BY DEF InOrder
<1>2. /\ UNCHANGED <<pc, posting, written, logged>>
      /\ Items \in Seq(Messages) /\ Items # <<>> /\ Items' = Tail(Items)
      /\ \A v \in Workers : taken'[v] = Items[1]
  BY ItemsAre DEF Takes, IInv, TypeOK, ItemsView, Alone
<1>3. ASSUME NEW n \in Nat
      PROVE  /\ Held(q, n)' => Items[1] = LogOf(q, n) /\ Queued(q, n)
             /\ Queued(q, n)' => Contains(Tail(Items), LogOf(q, n)) /\ Queued(q, n)
             /\ Posted(q, n)' => Posted(q, n)
             /\ Written(q, n)' => Written(q, n)
  <2>1. (Posted(q, n)' => Posted(q, n)) /\ (Written(q, n)' => Written(q, n))
    BY <1>2 DEF Posted, Posts, Written
  <2>2. Queued(q, n) <=> Items[1] = LogOf(q, n) \/ Contains(Tail(Items), LogOf(q, n))
    BY <1>2, TailContains DEF Queued
  <2>3. Held(q, n)' => Items[1] = LogOf(q, n)
    BY <1>2 DEF Held
  <2>4. Queued(q, n)' => Contains(Tail(Items), LogOf(q, n))
    BY <1>2 DEF Queued
  <2> QED BY <2>1, <2>2, <2>3, <2>4
<1>4. /\ Sorted(Tail(Items), q)
      /\ \A a, b \in Nat :
           Items[1] = LogOf(q, a) /\ Contains(Tail(Items), LogOf(q, b)) => a < b
  BY <1>1, <1>2, TailSorted
<1>5. Ranked(q)'
  BY <1>1, <1>2, <1>3, <1>4 DEF Ranked
<1>6. Sorted(Items, q)' /\ Rising(written[q])'
  <2>1. Sorted(Items', q)
    BY <1>2, <1>4
  <2> QED BY <1>1, <1>2, <2>1 DEF Sorted, Rising
<1> QED BY <1>5, <1>6

LEMMA OrderProcess ==
  ASSUME IInv, Alone, InOrder, NEW w \in Workers, Process(w) PROVE InOrder'
<1> SUFFICES ASSUME NEW q \in Producers
             PROVE  (Ranked(q) /\ Sorted(Items, q) /\ Rising(written[q]))'
  BY DEF InOrder
<1>1. Ranked(q) /\ Sorted(Items, q) /\ Rising(written[q]) /\ q \in Callers
  BY DEF InOrder, Callers
<1>2. /\ Items' = Items /\ UNCHANGED <<posting, logged>>
      /\ written[q] \in Seq(Nat)
      /\ \A t \in Callers : Posts(t)' <=> Posts(t)
      /\ \A v \in Workers : worker'[v] # "notify"
  BY ProcessFacts DEF Alone, IInv, TypeOK
<1>3. \/ written'[q] = written[q]
      \/ \E n \in Nat : Held(q, n) /\ written'[q] = Append(written[q], n)
  <2>1. CASE taken[w] \in LogMessage
    <3> PICK p \in Producers, n \in Nat : p = taken[w].logger /\ n = taken[w].n
      BY <2>1, LogMessageFields
    <3>1. taken[w] = LogOf(p, n) /\ worker[w] = "notify"
      BY <2>1, LogMessageIs, ProcessFacts
    <3>2. written' = [written EXCEPT ![p] = Append(written[p], n)]
      BY <2>1, ProcessFacts
    <3>3. written \in [Producers -> Seq(Nat)]
      BY DEF IInv, TypeOK
    <3>4. CASE p = q
      BY <3>1, <3>2, <3>3, <3>4 DEF Held
    <3>5. CASE p # q
      BY <3>2, <3>3, <3>5
    <3> QED BY <3>4, <3>5
  <2>2. CASE taken[w] \notin LogMessage
    BY <2>2, ProcessFacts
  <2> QED BY <2>1, <2>2
<1>4. ASSUME NEW n \in Nat
      PROVE  /\ ~Held(q, n)'
             /\ Queued(q, n)' => Queued(q, n)
             /\ Posted(q, n)' => Posted(q, n)
             /\ Written(q, n)' => Written(q, n) \/ Held(q, n)
  <2>1. ~Held(q, n)'
    BY <1>2 DEF Held
  <2>2. Queued(q, n)' => Queued(q, n)
    BY <1>2 DEF Queued
  <2>3. Posted(q, n)' => Posted(q, n)
    BY <1>1, <1>2 DEF Posted
  <2>4. Written(q, n)' => Written(q, n) \/ Held(q, n)
    <3>1. ASSUME NEW k \in Nat
          PROVE  Contains(Append(written[q], k), n) <=> Contains(written[q], n) \/ n = k
      BY <1>2, AppendContains
    <3> QED BY <1>3, <3>1 DEF Written
  <2> QED BY <2>1, <2>2, <2>3, <2>4
<1>5. Ranked(q)'
  BY <1>1, <1>2, <1>4 DEF Ranked
<1>6. Rising(written'[q])
  <2>1. ASSUME NEW n \in Nat, Held(q, n)
        PROVE  Rising(Append(written[q], n))
    <3>1. \A a \in Nat : Contains(written[q], a) => a < n
      BY <1>1, <2>1 DEF Ranked, Written
    <3> QED BY <1>1, <1>2, <3>1, AppendRises
  <2> QED BY <1>1, <1>3, <2>1
<1>7. Sorted(Items, q)' /\ Rising(written[q])'
  BY <1>1, <1>2, <1>6 DEF Sorted, Rising
<1> QED BY <1>5, <1>7

LEMMA OrderInit == Init => OwnMessages /\ InOrder
<1> SUFFICES ASSUME Init PROVE OwnMessages /\ InOrder
  OBVIOUS
<1>1. \A t \in Callers : ~Posts(t)
  BY DEF Init, Posts
<1>2. Items = <<>>
  <2>1. Size = 0
    BY AsyncLoggingAssumption DEF Init, Size
  <2> QED BY <2>1, TypeInit, ItemsAre DEF ItemsView
<1>3. \A w \in Workers : worker[w] # "notify"
  BY DEF Init
<1>4. ASSUME NEW q \in Producers
      PROVE  Ranked(q) /\ Sorted(Items, q) /\ Rising(written[q])
  <2>1. written[q] = <<>> /\ q \in Callers
    BY DEF Init, Callers
  <2>2. \A n \in Nat : ~Written(q, n) /\ ~Held(q, n) /\ ~Queued(q, n) /\ ~Posted(q, n)
    BY <1>1, <1>2, <1>3, <2>1 DEF Written, Held, Queued, Posted, Contains
  <2>3. Sorted(<<>>, q) /\ Rising(<<>>)
    BY DEF Sorted, Rising
  <2> QED BY <1>2, <2>1, <2>2, <2>3 DEF Ranked
<1> QED BY <1>1, <1>4 DEF OwnMessages, InOrder

LEMMA OrderStep ==
  IInv /\ IInv' /\ OwnMessages /\ (Alone => InOrder) /\ [Next]_vars
    => (OwnMessages /\ (Alone => InOrder))'
<1>1. Alone' <=> Alone
  BY DEF Alone
<1> QED
  BY <1>1, OwnMessagesStep, StepKinds, OrderQuiet, OrderLog, OrderPush, OrderTake, OrderProcess

(* With the one worker of main.cxx, the messages a thread logs are written  *)
(* in the order in which it logged them and none of them twice, whatever    *)
(* drives messages out of the queue and whoever else logs.                  *)
THEOREM OrderIsKept == Spec => []InProgramOrder
<1>1. Init => OwnMessages /\ (Alone => InOrder)
  BY OrderInit
<1>2. OwnMessages /\ (Alone => InOrder) => InProgramOrder
  <2>1. Cardinality(Workers) = 1 => Alone
    BY AsyncLoggingAssumption, FS_Singleton DEF Alone
  <2> QED BY <2>1 DEF InProgramOrder, InOrder, Rising
<1> QED
  BY <1>1, <1>2, OrderStep, Invariance, PTL DEF Spec

-------------------------------------------------------------------------------
(* No message is lost on its way, with any number of workers.               *)

LEMMA AccountOf ==
  ASSUME IInv, IInv', OwnMessages, OnItsWay, [Next]_vars
  PROVE  OnItsWay'
<1> SUFFICES ASSUME NEW q \in Producers, NEW n \in 1 .. logged'[q]
             PROVE  \/ LogOf(q, n) \in refused' \union driven_out'
                    \/ Posted(q, n)' \/ Queued(q, n)' \/ Held(q, n)' \/ Written(q, n)'
  BY DEF OnItsWay
<1>0. /\ q \in Callers /\ logged \in [Producers -> Nat]
      /\ pc \in [Callers -> Places] /\ posting \in [Callers -> Messages \union {Nothing}]
      /\ Items \in Seq(Messages)
  BY ItemsAre DEF Callers, IInv, TypeOK, ItemsView
<1>1. n \in 1 .. logged[q] =>
        \/ LogOf(q, n) \in refused \union driven_out
        \/ Posted(q, n) \/ Queued(q, n) \/ Held(q, n) \/ Written(q, n)
  BY DEF OnItsWay
<1>2. CASE Quiet
  <2>1. n \in 1 .. logged[q] /\ refused' = refused /\ driven_out' = driven_out
    BY <1>2 DEF Quiet
  <2>2. Posted(q, n) => Posted(q, n)'
    BY <1>0, <1>2 DEF Quiet, Posted
  <2>3. (Queued(q, n) => Queued(q, n)') /\ (Written(q, n) => Written(q, n)')
    BY <1>2 DEF Quiet, Queued, Written, Contains
  <2>4. Held(q, n) => Held(q, n)'
    BY <1>2 DEF Quiet, Held
  <2> QED BY <1>1, <2>1, <2>2, <2>3, <2>4
<1>3. ASSUME NEW p \in Producers, Log(p)
      PROVE  \/ LogOf(q, n) \in refused' \union driven_out'
             \/ Posted(q, n)' \/ Queued(q, n)' \/ Held(q, n)' \/ Written(q, n)'
  <2>1. (Queued(q, n) => Queued(q, n)') /\ (Written(q, n) => Written(q, n)')
    BY <1>3, LogFacts DEF Queued, Written, Contains
  <2>2. Held(q, n) => Held(q, n)'
    BY <1>3, LogFacts DEF Held
  <2>3. Posted(q, n) => Posted(q, n)'
    BY <1>0, <1>3, LogFacts DEF Posted, Posts
  <2>4. refused \union driven_out \subseteq refused' \union driven_out'
    BY <1>3, LogFacts
  <2>5. n \in 1 .. logged[q] \/ (q = p /\ n = logged[p] + 1)
    <3>1. logged[p] \in Nat /\ logged[q] \in Nat
      BY <1>0
    <3>2. logged' = [logged EXCEPT ![p] = logged[p] + 1]
      BY <1>3, LogFacts
    <3>3. CASE p = q
      <4>1. n \in 1 .. logged[p] + 1
        BY <1>0, <3>2, <3>3
      <4> QED BY <3>1, <3>3, <4>1
    <3>4. CASE p # q
      BY <1>0, <3>2, <3>4
    <3> QED BY <3>3, <3>4
  <2>6. CASE q = p /\ n = logged[p] + 1
    BY <1>0, <1>3, <2>6, LogFacts DEF Posted, Posts
  <2> QED BY <1>1, <2>1, <2>2, <2>3, <2>4, <2>5, <2>6
<1>4. ASSUME NEW t \in Callers, Pushes(t)
      PROVE  \/ LogOf(q, n) \in refused' \union driven_out'
             \/ Posted(q, n)' \/ Queued(q, n)' \/ Held(q, n)' \/ Written(q, n)'
  <2>1. /\ n \in 1 .. logged[q] /\ refused' = refused /\ driven_out \subseteq driven_out'
        /\ posting[t] \in Messages
    BY <1>4 DEF Pushes
  <2>2. (Held(q, n) => Held(q, n)') /\ (Written(q, n) => Written(q, n)')
    BY <1>4 DEF Pushes, Held, Written
  <2>3. Posted(q, n) /\ q # t => Posted(q, n)'
    BY <1>0, <1>4 DEF Pushes, Posted, Posts
  <2>4. CASE Items' = Append(Items, posting[t])
    <3>1. Contains(Items', LogOf(q, n)) <=>
            Contains(Items, LogOf(q, n)) \/ LogOf(q, n) = posting[t]
      BY <1>0, <2>1, <2>4, AppendContains
    <3> QED BY <1>1, <2>1, <2>2, <2>3, <3>1 DEF Queued, Posted
  <2>5. CASE /\ Items # <<>> /\ Items' = Append(Tail(Items), posting[t])
             /\ Items[1] \in FlushMessage \union driven_out'
    <3>0. Tail(Items) \in Seq(Messages)
      BY <1>0, <2>5
    <3> PICK rest \in Seq(Messages) : rest = Tail(Items)
      BY <3>0
    <3>1. Contains(Append(rest, posting[t]), LogOf(q, n)) <=>
            Contains(rest, LogOf(q, n)) \/ LogOf(q, n) = posting[t]
      <4>1. rest \in Seq(Messages) /\ posting[t] \in Messages
        BY <2>1
      <4> QED BY ONLY <4>1, AppendContains
    <3>2. Contains(Items, LogOf(q, n)) =>
            Items[1] = LogOf(q, n) \/ Contains(Tail(Items), LogOf(q, n))
      BY <1>0, <2>5, TailContains
    <3>3. Queued(q, n) => Queued(q, n)' \/ LogOf(q, n) \in driven_out'
      BY <2>5, <3>1, <3>2, Kinds DEF Queued
    <3>4. Posted(q, n) /\ q = t => Queued(q, n)'
      BY <2>5, <3>1 DEF Queued, Posted
    <3> QED BY <1>1, <2>1, <2>2, <2>3, <3>3, <3>4
  <2> QED BY <1>4, <2>4, <2>5 DEF Pushes
<1>5. ASSUME NEW w \in Workers, Takes(w)
      PROVE  \/ LogOf(q, n) \in refused' \union driven_out'
             \/ Posted(q, n)' \/ Queued(q, n)' \/ Held(q, n)' \/ Written(q, n)'
  <2>1. n \in 1 .. logged[q] /\ UNCHANGED <<refused, driven_out, pc, posting, written>>
    BY <1>5 DEF Takes
  <2>2. (Posted(q, n) => Posted(q, n)') /\ (Written(q, n) => Written(q, n)')
    BY <2>1 DEF Posted, Posts, Written
  <2>3. /\ worker \in [Workers -> {"dequeue", "wait", "awake", "notify", "exited"}]
        /\ taken \in [Workers -> Messages \union {Nothing}]
    BY DEF IInv, TypeOK
  <2>4. Held(q, n) => Held(q, n)'
    BY <1>5, <2>3 DEF Takes, Held
  <2>5. Items[1] = LogOf(q, n) => Held(q, n)'
    BY <1>5, <2>3 DEF Takes, Held
  <2>6. Queued(q, n) => Items[1] = LogOf(q, n) \/ Queued(q, n)'
    BY <1>0, <1>5, TailContains DEF Takes, Queued
  <2> QED BY <1>1, <2>1, <2>2, <2>4, <2>5, <2>6
<1>6. ASSUME NEW w \in Workers, Process(w)
      PROVE  \/ LogOf(q, n) \in refused' \union driven_out'
             \/ Posted(q, n)' \/ Queued(q, n)' \/ Held(q, n)' \/ Written(q, n)'
  <2>1. n \in 1 .. logged[q] /\ UNCHANGED <<refused, driven_out, posting>> /\ Items' = Items
    BY <1>6, ProcessFacts
  <2>2. (Posted(q, n) => Posted(q, n)') /\ (Queued(q, n) => Queued(q, n)')
    BY <1>0, <1>6, <2>1, ProcessFacts DEF Posted, Queued
  <2>3. written \in [Producers -> Seq(Nat)] /\ LogOf(q, n) \in LogMessage
    <3>1. n \in 1 .. MaxLogs[q] /\ logged[q] <= MaxLogs[q]
      BY <2>1, AsyncLoggingAssumption DEF IInv, TypeOK
    <3> QED BY <3>1, LogMessageIs DEF IInv, TypeOK
  <2>4. taken[w] = LogOf(q, n) => Written(q, n)'
    <3> SUFFICES ASSUME taken[w] = LogOf(q, n) PROVE Written(q, n)'
      OBVIOUS
    <3>1. taken[w].logger = q /\ taken[w].n = n
      BY DEF LogOf
    <3>2. written'[q] = Append(written[q], n)
      BY <1>6, <2>3, <3>1, ProcessFacts
    <3>3. written[q] \in Seq(Nat) /\ n \in Nat
      BY <1>0, <2>1, <2>3
    <3> QED BY <3>2, <3>3, AppendContains DEF Written
  <2>5. Held(q, n) => Held(q, n)' \/ taken[w] = LogOf(q, n)
    BY <1>6, ProcessFacts DEF Held
  <2>6. Written(q, n) => Written(q, n)'
    <3>1. written[q] \in Seq(Nat)
      BY <2>3
    <3>2. written'[q] = written[q] \/ \E k \in Nat : written'[q] = Append(written[q], k)
      <4>1. CASE taken[w] \in LogMessage
        <5> PICK p \in Producers, k \in Nat : p = taken[w].logger /\ k = taken[w].n
          BY <4>1, LogMessageFields
        <5>1. written' = [written EXCEPT ![p] = Append(written[p], k)]
          BY <1>6, <4>1, ProcessFacts
        <5>2. CASE p = q
          BY <2>3, <5>1, <5>2
        <5>3. CASE p # q
          BY <2>3, <5>1, <5>3
        <5> QED BY <5>2, <5>3
      <4>2. CASE taken[w] \notin LogMessage
        BY <1>6, <4>2, ProcessFacts
      <4> QED BY <4>1, <4>2
    <3>3. ASSUME NEW k \in Nat PROVE Written(q, n) => Contains(Append(written[q], k), n)
      BY <3>1, AppendContains DEF Written
    <3> QED BY <3>2, <3>3 DEF Written
  <2> QED BY <1>1, <2>1, <2>2, <2>4, <2>5, <2>6
<1> QED BY <1>2, <1>3, <1>4, <1>5, <1>6, StepKinds

(* While the pool is held, and stays held, no thread is in its destructor   *)
(* or posts a terminate message; nobody gets hold of it again.              *)
LEMMA NoDestructorYet ==
  ASSUME IInv, EndsLast, [Next]_vars, holders' # {}
  PROVE  /\ holders # {}
         /\ \A t \in Callers :
              pc'[t] # "destroy" /\ (Posts(t)' => posting'[t] # TerminateMessage)
<1>0. /\ pc \in [Callers -> Places] /\ posting \in [Callers -> Messages \union {Nothing}]
      /\ Flusher \in Callers /\ Closer \in Callers
  BY DEF Callers, IInv, TypeOK
<1>1. holders # {}
  BY DEF Next, Log, Post, PoolAlive, Posting, Enqueue, NotifyPush, Leave, Drop,
         PostTerminate, Join, Working, Dequeue, Process, WakeUp, Flushing,
         FlusherWakes, FlushAll, Flush, FlushedAll, Shutdown, Closing, StopFlusher,
         DropAll, ResetPool, vars
<1>2. \A t \in Callers : pc[t] # "destroy" /\ (Posts(t) => posting[t] # TerminateMessage)
  BY <1>1 DEF EndsLast, NoEndYet
<1> SUFFICES ASSUME NEW u \in Callers
             PROVE  pc'[u] # "destroy" /\ (Posts(u)' => posting'[u] # TerminateMessage)
  BY <1>1
<1>3. ASSUME NEW p \in Producers, Log(p)
      PROVE  pc'[u] # "destroy" /\ (Posts(u)' => posting'[u] # TerminateMessage)
  BY <1>0, <1>2, <1>3, LogFacts, Kinds DEF Posts
<1>4. ASSUME NEW t \in Callers, Posting(t)
      PROVE  pc'[u] # "destroy" /\ (Posts(u)' => posting'[u] # TerminateMessage)
  <2>1. CASE Enqueue(t)
    BY <1>0, <1>2, <2>1 DEF Enqueue, Goto, Posts
  <2>2. CASE NotifyPush(t)
    BY <1>0, <1>1, <1>2, <2>2 DEF NotifyPush, PoolAlive, Goto, Posts
  <2>3. CASE Leave(t)
    BY <1>0, <1>2, <2>3 DEF Leave, Drop, Done, Goto, Posts
  <2>4. CASE PostTerminate(t) \/ Join(t)
    BY <1>2, <2>4 DEF PostTerminate, Join
  <2> QED BY <1>4, <2>1, <2>2, <2>3, <2>4 DEF Posting
<1>5. ASSUME NEW w \in Workers, Working(w)
      PROVE  pc'[u] # "destroy" /\ (Posts(u)' => posting'[u] # TerminateMessage)
  BY <1>0, <1>2, <1>5 DEF Working, Dequeue, Process, Notified, At, Goto, Posts
<1>6. CASE WakeUp
  BY <1>0, <1>2, <1>6 DEF WakeUp, At, Goto, Posts
<1>7. CASE Flushing
  <2>1. CASE FlusherWakes \/ FlushAll \/ FlushedAll
    BY <1>0, <1>2, <2>1 DEF FlusherWakes, FlushAll, FlushedAll, Goto, Posts
  <2>2. CASE Flush
    <3> PICK p \in to_flush, m \in FlushMessage :
          IF PoolAlive THEN Post(Flusher, m)
          ELSE Goto(Flusher, "threw") /\ UNCHANGED <<holders, posting>>
      BY <2>2 DEF Flush, FlushMessage, IInv, TypeOK
    <3> QED BY <1>0, <1>2, Kinds DEF Post, Goto, Posts
  <2> QED BY <1>7, <2>1, <2>2 DEF Flushing
<1>8. CASE Shutdown \/ Closing
  BY <1>0, <1>2, <1>8
  DEF Shutdown, Closing, StopFlusher, DropAll, ResetPool, ResetsFrom, Drop, Done, Goto, Posts
<1>9. CASE UNCHANGED vars
  BY <1>2, <1>9 DEF vars, Posts
<1> QED BY <1>3, <1>4, <1>5, <1>6, <1>7, <1>8, <1>9 DEF Next

(* What a step does to the end of the queue.                                *)
QueueEnds ==
  /\ Closed(Items)
  /\ (\E w \in Workers : Ended(w)) =>
       \A i \in 1 .. Len(Items) : Items[i] = TerminateMessage

LEMMA AllEnds ==
  ASSUME NEW S, NEW s \in Seq(S), \A i \in 1 .. Len(s) : s[i] = TerminateMessage
  PROVE  /\ TerminateMessage \in S =>
              \A i \in 1 .. Len(Append(s, TerminateMessage)) :
                Append(s, TerminateMessage)[i] = TerminateMessage
         /\ s # <<>> => \A i \in 1 .. Len(Tail(s)) : Tail(s)[i] = TerminateMessage
<1>1. TerminateMessage \in S =>
        \A i \in 1 .. Len(Append(s, TerminateMessage)) :
          Append(s, TerminateMessage)[i] = TerminateMessage
  <2> DEFINE m == TerminateMessage
  <2> HIDE DEF m
  <2>1. ASSUME m \in S, \A i \in 1 .. Len(s) : s[i] = m
        PROVE  \A i \in 1 .. Len(Append(s, m)) : Append(s, m)[i] = m
    BY <2>1
  <2> QED BY <2>1 DEF m
<1>2. ASSUME s # <<>> PROVE \A i \in 1 .. Len(Tail(s)) : Tail(s)[i] = TerminateMessage
  <2>1. /\ Len(s) \in Nat \ {0} /\ Len(Tail(s)) = Len(s) - 1
        /\ \A i \in 1 .. Len(s) - 1 : Tail(s)[i] = s[i + 1] /\ i + 1 \in 1 .. Len(s)
    BY <1>2
  <2> QED BY <2>1
<1> QED BY <1>1, <1>2

LEMMA PushEnds ==
  ASSUME IInv, PostersHold, EndsLast, NEW t \in Callers, Pushes(t)
  PROVE  /\ QueueEnds'
         /\ holders # {} => ~Contains(Items', TerminateMessage) /\ \A w \in Workers : ~Ended(w)'
<1>1. /\ Items \in Seq(Messages) /\ posting[t] \in Messages
      /\ UNCHANGED <<worker, taken>> /\ Closed(Items)
  BY ItemsAre DEF IInv, ItemsView, Pushes, EndsLast
<1>2. \A w \in Workers : Ended(w)' <=> Ended(w)
  BY <1>1 DEF Ended
<1> PICK m \in Messages : m = posting[t]
  BY <1>1
<1>3. PICK kept \in Seq(Messages) :
        /\ Items' = Append(kept, m)
        /\ kept = Items \/ (Items # <<>> /\ kept = Tail(Items))
  <2>1. CASE Items' = Append(Items, m)
    BY <1>1, <2>1
  <2>2. CASE Items # <<>> /\ Items' = Append(Tail(Items), m)
    <3>1. Tail(Items) \in Seq(Messages)
      BY <1>1, <2>2
    <3> QED BY <2>2, <3>1
  <2> QED BY <2>1, <2>2 DEF Pushes
<1>4. Closed(kept)
  BY <1>1, <1>3, TailCloses
<1>5. Contains(kept, TerminateMessage) => Contains(Items, TerminateMessage)
  BY <1>1, <1>3, TailContains
<1>6. Contains(Items', TerminateMessage) <=>
        Contains(kept, TerminateMessage) \/ TerminateMessage = m
  <2>1. Contains(Append(kept, m), TerminateMessage) <=>
          Contains(kept, TerminateMessage) \/ TerminateMessage = m
    BY AppendContains
  <2> QED BY <1>3, <2>1
<1>7. CASE holders # {}
  <2>1. /\ ~Contains(Items, TerminateMessage) /\ m # TerminateMessage
        /\ \A w \in Workers : ~Ended(w)
    BY <1>7 DEF EndsLast, NoEndYet, Pushes
  <2>2. Closed(Append(kept, m))
    BY <1>4, <1>5, <2>1, AppendCloses
  <2>3. Closed(Items')
    BY <1>3, <2>2
  <2> QED BY <1>2, <1>5, <1>6, <2>1, <2>3 DEF QueueEnds, Closed
<1>8. CASE holders = {}
  <2>1. m = TerminateMessage
    BY <1>8 DEF PostersHold, Pushes, Posts
  <2>2. Closed(Append(kept, m))
    BY <1>4, <2>1, AppendCloses
  <2>3. Closed(Items')
    BY <1>3, <2>2
  <2>4. ASSUME NEW w \in Workers, Ended(w)
        PROVE  \A i \in 1 .. Len(Items') : Items'[i] = TerminateMessage
    <3>1. \A i \in 1 .. Len(Items) : Items[i] = TerminateMessage
      BY <2>4 DEF EndsLast
    <3>2. \A i \in 1 .. Len(kept) : kept[i] = TerminateMessage
      BY <1>1, <1>3, <3>1, AllEnds
    <3>3. TerminateMessage \in Messages
      BY DEF Messages
    <3>4. \A i \in 1 .. Len(Append(kept, TerminateMessage)) :
            Append(kept, TerminateMessage)[i] = TerminateMessage
      BY <3>2, <3>3, AllEnds
    <3> QED BY <1>3, <2>1, <3>4
  <2>5. (\E w \in Workers : Ended(w)') =>
          \A i \in 1 .. Len(Items') : Items'[i] = TerminateMessage
    BY <1>2, <2>4
  <2> QED BY <1>8, <2>3, <2>5 DEF QueueEnds, Closed
<1> QED BY <1>7, <1>8

LEMMA TakeEnds ==
  ASSUME IInv, EndsLast, NEW w \in Workers, Takes(w)
  PROVE  /\ QueueEnds'
         /\ holders # {} => ~Contains(Items', TerminateMessage) /\ \A v \in Workers : ~Ended(v)'
<1>1. /\ Items \in Seq(Messages) /\ Items # <<>> /\ Items' = Tail(Items) /\ Closed(Items)
      /\ worker \in [Workers -> {"dequeue", "wait", "awake", "notify", "exited"}]
      /\ taken \in [Workers -> Messages \union {Nothing}]
  BY ItemsAre DEF IInv, TypeOK, ItemsView, Takes, EndsLast
<1>2. \A v \in Workers : Ended(v)' => Ended(v) \/ Items[1] = TerminateMessage
  BY <1>1 DEF Takes, Ended
<1>3. /\ Closed(Tail(Items))
      /\ Items[1] = TerminateMessage =>
           \A i \in 1 .. Len(Tail(Items)) : Tail(Items)[i] = TerminateMessage
  BY <1>1, TailCloses
<1>4. Contains(Items, TerminateMessage) <=>
        Items[1] = TerminateMessage \/ Contains(Tail(Items), TerminateMessage)
  BY <1>1, TailContains
<1>5. (\E v \in Workers : Ended(v)) =>
        \A i \in 1 .. Len(Tail(Items)) : Tail(Items)[i] = TerminateMessage
  BY <1>1, AllEnds DEF EndsLast
<1>6. /\ Closed(Items')
      /\ (\E v \in Workers : Ended(v)') =>
           \A i \in 1 .. Len(Items') : Items'[i] = TerminateMessage
  BY <1>1, <1>2, <1>3, <1>5
<1>7. QueueEnds'
  BY <1>6 DEF QueueEnds, Closed
<1>8. ASSUME holders # {}
      PROVE  ~Contains(Items', TerminateMessage) /\ \A v \in Workers : ~Ended(v)'
  BY <1>1, <1>2, <1>4, <1>8 DEF EndsLast, NoEndYet
<1> QED BY <1>7, <1>8

LEMMA OtherEnds ==
  ASSUME IInv, EndsLast,
         Quiet \/ (\E p \in Producers : Log(p)) \/ (\E w \in Workers : Process(w))
  PROVE  /\ QueueEnds'
         /\ holders # {} => ~Contains(Items', TerminateMessage) /\ \A v \in Workers : ~Ended(v)'
<1>1. Items' = Items
  BY LogFacts, ProcessFacts DEF Quiet
<1>2. \A v \in Workers : Ended(v)' => Ended(v)
  <2>1. CASE Quiet
    BY <2>1 DEF Quiet, Ended
  <2>2. ASSUME NEW p \in Producers, Log(p) PROVE \A v \in Workers : Ended(v)' => Ended(v)
    BY <2>2, LogFacts DEF Ended
  <2>3. ASSUME NEW w \in Workers, Process(w) PROVE \A v \in Workers : Ended(v)' => Ended(v)
    BY <2>3, ProcessFacts DEF Ended
  <2> QED BY <2>1, <2>2, <2>3
<1> QED BY <1>1, <1>2 DEF EndsLast, NoEndYet, QueueEnds, Closed, Contains

LEMMA EndsLastStep ==
  ASSUME IInv, IInv', PostersHold, EndsLast, [Next]_vars
  PROVE  EndsLast'
<1>1. /\ QueueEnds'
      /\ holders # {} => ~Contains(Items', TerminateMessage) /\ \A v \in Workers : ~Ended(v)'
  BY StepKinds, PushEnds, TakeEnds, OtherEnds
<1>2. holders' # {} => NoEndYet'
  <2> SUFFICES ASSUME holders' # {} PROVE NoEndYet'
    OBVIOUS
  <2>1. /\ holders # {}
        /\ \A t \in Callers : pc'[t] # "destroy" /\ (Posts(t)' => posting'[t] # TerminateMessage)
    BY NoDestructorYet
  <2> QED BY <1>1, <2>1 DEF NoEndYet, Contains
<1> QED BY <1>1, <1>2 DEF EndsLast, QueueEnds

-------------------------------------------------------------------------------
(* A message that may wait is not driven out.                               *)
NoneDrivenOut == Overrunning = {} => driven_out = {}

LEMMA DrivenOutStep ==
  ASSUME IInv, IInv', NoneDrivenOut, [Next]_vars
  PROVE  NoneDrivenOut'
<1> SUFFICES ASSUME Overrunning = {} PROVE driven_out' = {}
  BY DEF NoneDrivenOut
<1>0. driven_out = {}
  BY DEF NoneDrivenOut
<1>1. ASSUME NEW t \in Callers, Enqueue(t) PROVE driven_out' = {}
  <2>1. Blocks(t)
    BY DEF Blocks
  <2>2. CASE Full
    BY <1>0, <1>1, <2>1, <2>2 DEF Enqueue, queue_vars
  <2>3. CASE ~Full
    BY <1>0, <1>1, <2>3 DEF Enqueue, push_back, Full
  <2> QED BY <2>2, <2>3
<1>2. ASSUME NEW t \in Callers, Posting(t) PROVE driven_out' = {}
  BY <1>0, <1>1, <1>2 DEF Posting, NotifyPush, Leave, PostTerminate, Join, queue_vars
<1>3. ASSUME NEW w \in Workers, Working(w) PROVE driven_out' = {}
  BY <1>0, <1>3 DEF Working, Dequeue, Process, pop_front, queue_vars
<1> QED
  BY <1>0, <1>2, <1>3
  DEF Next, vars, queue_vars, Log, WakeUp, Flushing, FlusherWakes, FlushAll, Flush,
      FlushedAll, Shutdown, Closing, StopFlusher, DropAll, ResetPool

LEMMA EndsInit == Init => PostersHold /\ OnItsWay /\ EndsLast /\ NoneDrivenOut
<1> SUFFICES ASSUME Init PROVE PostersHold /\ OnItsWay /\ EndsLast /\ NoneDrivenOut
  OBVIOUS
<1>1. \A t \in Callers : ~Posts(t) /\ pc[t] # "destroy"
  BY DEF Init, Posts
<1>2. Items = <<>>
  <2>1. Size = 0
    BY AsyncLoggingAssumption DEF Init, Size
  <2> QED BY <2>1, TypeInit, ItemsAre DEF ItemsView
<1>3. \A w \in Workers : ~Ended(w)
  BY DEF Init, Ended
<1>4. \A p \in Producers : 1 .. logged[p] = {}
  BY DEF Init
<1>5. PostersHold /\ NoneDrivenOut
  BY <1>1 DEF PostersHold, NoneDrivenOut, Posts, Init
<1>6. Len(Items) = 0
  BY <1>2
<1> QED BY <1>1, <1>3, <1>4, <1>5, <1>6 DEF OnItsWay, EndsLast, NoEndYet, Closed, Contains

LEMMA ExitWritten ==
  ASSUME IInv, PostersHold, OnItsWay, EndsLast, NoneDrivenOut
  PROVE  WrittenAtExit
<1> SUFFICES ASSUME \A w \in Workers : worker[w] = "exited",
                    NEW p \in Producers, NEW n \in 1 .. logged[p],
                    LogOf(p, n) \notin refused \union driven_out
             PROVE  Written(p, n)
  BY DEF WrittenAtExit, NoneDrivenOut, LogOf, Written, Contains
<1>1. PICK w \in Workers : Ended(w)
  <2>1. Workers # {}
    BY AsyncLoggingAssumption, FS_EmptySet
  <2> QED BY <2>1 DEF Ended
<1>2. ~Held(p, n)
  BY DEF Held
<1>3. ~Queued(p, n)
  BY <1>1, Kinds DEF EndsLast, Queued, Contains
<1>4. ~Posted(p, n)
  <2>1. p \in Callers /\ holders = {}
    BY <1>1 DEF Callers, EndsLast, NoEndYet
  <2> QED BY <2>1, Kinds DEF PostersHold, Posted, Posts
<1> QED BY <1>2, <1>3, <1>4 DEF OnItsWay

LEMMA EndsStep ==
  /\ IInv /\ IInv' /\ [Next]_vars
  /\ OwnMessages /\ PostersHold /\ OnItsWay /\ EndsLast /\ NoneDrivenOut
  => (OwnMessages /\ PostersHold /\ OnItsWay /\ EndsLast /\ NoneDrivenOut)'
  BY OwnMessagesStep, PostersHoldStep, AccountOf, EndsLastStep, DrivenOutStep

(* When the pool's threads have exited, every message logged before is in   *)
(* the file, was refused because the pool was gone, or was driven out by a  *)
(* logger that does not wait for room: the destructor's terminate messages  *)
(* come last, and no worker leaves anything behind them.                    *)
THEOREM NothingLost == Spec => []WrittenAtExit
<1>1. Init => OwnMessages /\ PostersHold /\ OnItsWay /\ EndsLast /\ NoneDrivenOut
  BY OrderInit, EndsInit
<1>2. IInv /\ PostersHold /\ OnItsWay /\ EndsLast /\ NoneDrivenOut => WrittenAtExit
  BY ExitWritten
<1> QED
  BY <1>1, <1>2, EndsStep, Invariance, PTL DEF Spec
===============================================================================
