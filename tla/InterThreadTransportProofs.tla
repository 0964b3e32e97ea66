---------------------- MODULE InterThreadTransportProofs ----------------------
(****************************************************************************)
(* Proofs about InterThreadTransport for every number of connections,       *)
(* messages and connection types, attached factories, oversized payloads    *)
(* and managers that throw.                                                 *)
(****************************************************************************)
EXTENDS InterThreadTransport, SequenceTheorems, TLAPS

USE DEF Ids, Enqueue, NeedDispatch, TakeId, ErasedBy

(* An event in a queue of events has the type of the queue's elements, and  *)
(* taking the first one off leaves such a queue.                            *)
LEMMA FirstOfBatch ==
  ASSUME NEW S, NEW batch \in Seq(S), batch # <<>>
  PROVE  Head(batch) \in S /\ Tail(batch) \in Seq(S)
  BY HeadTailProperties

(* The ids a lost batch is charged to are connection ids.                   *)
LEMMA ConnectionsInBatch ==
  ASSUME NEW batch, batch \in Seq(CtAtEvent) \/ batch \in Seq(AtCtEvent)
  PROVE  ConnectionsIn(batch) \subseteq Ids
  BY DEF ConnectionsIn, CtAtEvent, AtCtEvent, MessageEvents

(* The CT only holds connection ids it has given out.                       *)
LEMMA CtMapIds == TypeOK => ct_map \subseteq Ids
<1> SUFFICES ASSUME TypeOK, NEW id \in ct_map PROVE id \in Ids
  OBVIOUS
<1>1. last_connection_id \in 0 .. MaxConnections /\ ct_map \subseteq 1 .. last_connection_id
  BY DEF TypeOK
<1> QED
  BY <1>1, InterThreadTransportAssumption

(* Recording the number of a delivered message keeps a counter a counter.   *)
LEMMA SetCounter ==
  ASSUME NEW f \in Counters, NEW id \in Ids, NEW n \in 1 .. MaxMessages
  PROVE  [f EXCEPT ![id] = n] \in Counters
<1>1. n \in 0 .. MaxMessages
  BY InterThreadTransportAssumption
<1> QED
  BY <1>1 DEF Counters

(* The type invariant is inductive.                                         *)
LEMMA TypeInit == Init => TypeOK
  BY InterThreadTransportAssumption
  DEF Init, TypeOK, Counters, NoCall, NoFrame

LEMMA TypeStep == TypeOK /\ [Next]_vars => TypeOK'
<1> SUFFICES ASSUME TypeOK, [Next]_vars PROVE TypeOK'
  OBVIOUS
<1> USE InterThreadTransportAssumption
<1>1. ASSUME NEW t \in ConnTypes, NewConnection(t) PROVE TypeOK'
  <2> DEFINE id == last_connection_id + 1
  <2>1. id \in Ids /\ NewConnectionEvent(id, t) \in CtAtEvent
    BY <1>1 DEF NewConnection, TypeOK, NewConnectionEvent, CtAtEvent
  <2>2. ct_at_queue' \in Seq(CtAtEvent)
    BY <1>1, <2>1 DEF NewConnection, PushToApp, TypeOK
  <2>3. ct_call' \in Call(CtAtOps)
    BY <1>1, <2>1 DEF NewConnection, PushToApp, Call, CtAtOps,
                      NewConnectionEvent
  <2>4. last_connection_id' \in 0 .. MaxConnections
    BY <1>1, <2>1 DEF NewConnection, TypeOK
  <2>5. ct_map' \subseteq 1 .. last_connection_id'
    BY <1>1, <2>1 DEF NewConnection, TypeOK
  <2> QED
    BY <1>1, <2>2, <2>3, <2>4, <2>5
    DEF NewConnection, TypeOK, at_vars, down_vars
<1>2. ASSUME NEW id \in ct_map, SendToAppThread(id) PROVE TypeOK'
  <2>1. id \in Ids
    BY CtMapIds
  <2>2. up_sent[id] + 1 \in 1 .. MaxMessages
    <3>1. up_sent[id] \in 0 .. MaxMessages /\ up_sent[id] < MaxMessages
      BY <1>2, <2>1 DEF SendToAppThread, TypeOK, Counters
    <3> QED
      BY <3>1
  <2>3. Message(id, up_sent[id] + 1) \in CtAtEvent
    BY <2>1, <2>2 DEF Message, CtAtEvent, MessageEvents
  <2>4. ct_at_queue' \in Seq(CtAtEvent) /\ ct_call' \in Call(CtAtOps)
    BY <1>2, <2>1, <2>3
    DEF SendToAppThread, PushToApp, TypeOK, Call, CtAtOps, Message
  <2>5. up_sent' \in Counters
    BY <1>2, <2>1, <2>2 DEF SendToAppThread, TypeOK, Counters
  <2> QED
    BY <1>2, <2>4, <2>5 DEF SendToAppThread, TypeOK, at_vars, down_vars
<1>3. ASSUME NEW id \in ct_map, GotError(id) PROVE TypeOK'
  <2>1. id \in Ids /\ GotErrorEvent(id) \in CtAtEvent
    BY CtMapIds DEF GotErrorEvent, CtAtEvent
  <2>2. ct_at_queue' \in Seq(CtAtEvent) /\ ct_call' \in Call(CtAtOps)
    BY <1>3, <2>1 DEF GotError, PushToApp, TypeOK, Call, CtAtOps, GotErrorEvent
  <2> QED
    BY <1>3, <2>1, <2>2 DEF GotError, TypeOK, at_vars, down_vars
<1>4. CASE CtReturn
  <2>1. app_wakeups' \in Nat
    BY <1>4 DEF CtReturn, Pending, TypeOK
  <2>2. ct_map' \subseteq 1 .. last_connection_id'
    BY <1>4 DEF CtReturn, TypeOK
  <2> QED
    BY <1>4, <2>1, <2>2 DEF CtReturn, TypeOK, at_vars, down_vars
<1>5. CASE WakeUpCom
  BY <1>5 DEF WakeUpCom, CtHandlerRuns, TypeOK, at_vars, up_vars
<1>6. ASSUME CtEvent PROVE Head(ct_batch) \in AtCtEvent /\ Tail(ct_batch) \in Seq(AtCtEvent)
                           /\ Head(ct_batch).id \in Ids
  BY <1>6, FirstOfBatch DEF CtEvent, TypeOK, AtCtEvent, MessageEvents
<1>7. CASE CtSkip
  BY <1>6, <1>7 DEF CtSkip, CtEvent, TypeOK, at_vars, up_vars
<1>8. CASE CtMessage
  <2>1. Head(ct_batch).n \in 1 .. MaxMessages
    BY <1>6, <1>8 DEF CtMessage, AtCtEvent, MessageEvents
  <2>2. down_got' \in Counters
    BY <1>6, <1>8, <2>1, SetCounter DEF CtMessage, TypeOK
  <2> QED
    BY <1>6, <1>8, <2>2 DEF CtMessage, CtEvent, TypeOK, at_vars, up_vars
<1>9. CASE CtDrop
  BY <1>6, <1>9 DEF CtDrop, CtEvent, TypeOK, at_vars, up_vars
<1>24. CASE CtDropThrows
  <2>1. lost' \subseteq Ids
    BY <1>6, <1>24, ConnectionsInBatch DEF CtDropThrows, TypeOK
  <2>2. ct_stale' \subseteq Ids
    BY <1>6, <1>24 DEF CtDropThrows, TypeOK
  <2>3. ct_end' \in [Ids -> {"none", "error", "drop"}]
    BY <1>6, <1>24 DEF CtDropThrows, TypeOK
  <2>4. ct_map' \subseteq 1 .. last_connection_id'
    BY <1>24 DEF CtDropThrows, CtEvent, TypeOK
  <2>5. ct_batch' \in Seq(AtCtEvent)
    BY <1>24 DEF CtDropThrows
  <2> QED
    BY <1>24, <2>1, <2>2, <2>3, <2>4, <2>5 DEF CtDropThrows, CtEvent, TypeOK, at_vars, up_vars
<1>10. CASE CtAssertionFailure
  <2>1. lost' \subseteq Ids
    BY <1>10, ConnectionsInBatch DEF CtAssertionFailure, TypeOK
  <2> QED
    BY <1>10, <2>1 DEF CtAssertionFailure, CtEvent, TypeOK, at_vars, up_vars
<1>11. ASSUME NEW t \in ConnTypes, AttachFactory(t) PROVE TypeOK'
  BY <1>11 DEF AttachFactory, TypeOK, ct_vars, up_vars, down_vars
<1>25. ASSUME NEW t \in ConnTypes, AttachAgain(t) PROVE TypeOK'
  <2>1. lost' \subseteq Ids
    BY <1>25, ConnectionsInBatch DEF AttachAgain, TypeOK
  <2> QED
    BY <1>25, <2>1 DEF AttachAgain, TypeOK, ct_vars, up_vars, down_vars
<1>12. ASSUME NEW id \in at_map, SendToComThread(id) PROVE TypeOK'
  <2>1. id \in Ids /\ down_sent[id] + 1 \in 1 .. MaxMessages
    <3>1. id \in Ids
      BY DEF TypeOK
    <3>2. down_sent[id] \in 0 .. MaxMessages /\ down_sent[id] < MaxMessages
      BY <1>12, <3>1 DEF SendToComThread, TypeOK, Counters
    <3> QED
      BY <3>1, <3>2
  <2>2. Message(id, down_sent[id] + 1) \in AtCtEvent
    BY <2>1 DEF Message, AtCtEvent, MessageEvents
  <2>3. at_ct_queue' \in Seq(AtCtEvent) /\ at_call' \in Call(AtCtOps)
    BY <1>12, <2>1, <2>2
    DEF SendToComThread, PushToCom, TypeOK, Call, AtCtOps, Message
  <2>4. down_sent' \in Counters
    BY <1>12, <2>1 DEF SendToComThread, TypeOK, Counters
  <2> QED
    BY <1>12, <2>3, <2>4 DEF SendToComThread, TypeOK, ct_vars, up_vars
<1>13. ASSUME NEW id \in at_map, DropConnection(id) PROVE TypeOK'
  <2>1. id \in Ids /\ DropEvent(id) \in AtCtEvent
    BY <1>13 DEF TypeOK, DropEvent, AtCtEvent
  <2>2. at_ct_queue' \in Seq(AtCtEvent) /\ at_call' \in Call(AtCtOps)
    BY <1>13, <2>1 DEF DropConnection, PushToCom, TypeOK, Call, AtCtOps, DropEvent
  <2> QED
    BY <1>13, <2>1, <2>2 DEF DropConnection, TypeOK, ct_vars, up_vars
<1>14. CASE AtReturn
  <2>1. com_wakeups' \in Nat
    BY <1>14 DEF AtReturn, Pending, TypeOK
  <2>2. at_map' \subseteq Ids
    BY <1>14 DEF AtReturn, TypeOK
  <2> QED
    BY <1>14, <2>1, <2>2 DEF AtReturn, TypeOK, ct_vars, up_vars
<1>15. CASE WakeUpApp
  BY <1>15 DEF WakeUpApp, TypeOK, ct_vars, down_vars
<1>16. ASSUME AtEvent PROVE Head(at_batch) \in CtAtEvent /\ Tail(at_batch) \in Seq(CtAtEvent)
                            /\ Head(at_batch).id \in Ids
  BY <1>16, FirstOfBatch DEF AtEvent, TypeOK, CtAtEvent, MessageEvents
<1>17. CASE AtCreate
  BY <1>16, <1>17
  DEF AtCreate, AtEvent, Callback, Frame, TypeOK, ct_vars, down_vars
<1>18. CASE AtAssertionFailure
  <2>1. lost' \subseteq Ids
    BY <1>18, ConnectionsInBatch DEF AtAssertionFailure, TypeOK
  <2> QED
    BY <1>18, <2>1 DEF AtAssertionFailure, AtEvent, TypeOK, ct_vars, down_vars
<1>19. CASE AtSkip
  BY <1>16, <1>19 DEF AtSkip, AtEvent, TypeOK, ct_vars, down_vars
<1>20. CASE AtMessage
  <2>1. Head(at_batch).n \in 1 .. MaxMessages
    BY <1>16, <1>20 DEF AtMessage, CtAtEvent, MessageEvents
  <2>2. up_got' \in Counters
    BY <1>16, <1>20, <2>1, SetCounter DEF AtMessage, TypeOK
  <2> QED
    BY <1>16, <1>20, <2>2
    DEF AtMessage, AtEvent, Callback, Frame, TypeOK, ct_vars, down_vars
<1>21. CASE AtGotError
  BY <1>16, <1>21
  DEF AtGotError, AtEvent, Callback, Frame, TypeOK, ct_vars, down_vars
<1>22. CASE AtCallbackReturn
  BY <1>22 DEF AtCallbackReturn, TypeOK, ct_vars, up_vars, down_vars
<1>23. CASE UNCHANGED vars
  BY <1>23
  DEF TypeOK, vars, ct_vars, at_vars, up_vars, down_vars
<1> QED
  BY <1>1, <1>2, <1>3, <1>4, <1>5, <1>7, <1>8, <1>9, <1>10, <1>11, <1>12,
     <1>13, <1>14, <1>15, <1>17, <1>18, <1>19, <1>20, <1>21, <1>22, <1>23,
     <1>24, <1>25
  DEF Next, CtCalls, AtCalls, CtStep, AtStep

(* Every state of every behaviour has its type; in particular m_ct_map      *)
(* never holds an id that m_last_connection_id has not reached, so the      *)
(* duplicate-id ASSERT of new_connection() cannot fail.                     *)
THEOREM TypeCorrect == Spec => []TypeOK
<1>1. Init => TypeOK
  BY TypeInit
<1>2. TypeOK /\ [Next]_vars => TypeOK'
  BY TypeStep
<1> QED
  BY <1>1, <1>2, PTL DEF Spec

-------------------------------------------------------------------------------
(* Wake-ups.  Each direction is touched by three kinds of step: the push,   *)
(* the return of the call that pushed, and the swap; every other step       *)
(* leaves its queue, its dispatched wake-ups and its call alone.            *)

UpWakeUps == app_wakeups + Pending(ct_call) = One(ct_at_queue)
DownWakeUps == com_wakeups + Pending(at_call) = One(at_ct_queue)

LEMMA AppendNonEmpty ==
  ASSUME NEW S, NEW queue \in Seq(S), NEW event
  PROVE  Append(queue, event) # <<>>
<1>1. queue \in Seq(S \union {event})
  OBVIOUS
<1> QED
  BY <1>1, AppendProperties

(* The flag read under the mutex accounts for the event pushed with it.     *)
LEMMA PushToAppKeepsWakeUps ==
  ASSUME TypeOK, UpWakeUps, CtHandlerRuns, UNCHANGED app_wakeups,
         NEW event, NEW op, PushToApp(event, op)
  PROVE  UpWakeUps'
<1>1. ct_at_queue' # <<>> /\ ct_call'.need_dispatch = (ct_at_queue = <<>>)
  BY AppendNonEmpty, Zenon DEF PushToApp, TypeOK
<1>2. app_wakeups = One(ct_at_queue)
  BY DEF UpWakeUps, CtHandlerRuns, Pending, NoCall, TypeOK
<1>3. One(ct_at_queue)' = 1
  BY <1>1 DEF One
<1>4. CASE ct_at_queue = <<>>
  <2>1. ct_call'.need_dispatch
    BY <1>1, <1>4, Zenon
  <2>2. Pending(ct_call)' = 1
    BY <2>1, Zenon DEF Pending
  <2> QED
    BY <1>2, <1>3, <1>4, <2>2 DEF UpWakeUps, One
<1>5. CASE ct_at_queue # <<>>
  <2>1. ~ ct_call'.need_dispatch
    BY <1>1, <1>5, Zenon
  <2>2. Pending(ct_call)' = 0
    BY <2>1, Zenon DEF Pending
  <2> QED
    BY <1>2, <1>3, <1>5, <2>2 DEF UpWakeUps, One
<1> QED
  BY <1>4, <1>5

LEMMA PushToComKeepsWakeUps ==
  ASSUME TypeOK, DownWakeUps, AppRuns, UNCHANGED com_wakeups,
         NEW event, NEW op, PushToCom(event, op)
  PROVE  DownWakeUps'
<1>1. at_ct_queue' # <<>> /\ at_call'.need_dispatch = (at_ct_queue = <<>>)
  BY AppendNonEmpty, Zenon DEF PushToCom, TypeOK
<1>2. com_wakeups = One(at_ct_queue)
  BY DEF DownWakeUps, AppRuns, Pending, NoCall, TypeOK
<1>3. One(at_ct_queue)' = 1
  BY <1>1 DEF One
<1>4. CASE at_ct_queue = <<>>
  <2>1. at_call'.need_dispatch
    BY <1>1, <1>4, Zenon
  <2>2. Pending(at_call)' = 1
    BY <2>1, Zenon DEF Pending
  <2> QED
    BY <1>2, <1>3, <1>4, <2>2 DEF DownWakeUps, One
<1>5. CASE at_ct_queue # <<>>
  <2>1. ~ at_call'.need_dispatch
    BY <1>1, <1>5, Zenon
  <2>2. Pending(at_call)' = 0
    BY <2>1, Zenon DEF Pending
  <2> QED
    BY <1>2, <1>3, <1>5, <2>2 DEF DownWakeUps, One
<1> QED
  BY <1>4, <1>5

LEMMA UpWakeUpsStep == TypeOK /\ UpWakeUps /\ [Next]_vars => UpWakeUps'
<1> SUFFICES ASSUME TypeOK, UpWakeUps, [Next]_vars PROVE UpWakeUps'
  OBVIOUS
<1>1. ASSUME NEW t \in ConnTypes, NewConnection(t) PROVE UpWakeUps'
  BY <1>1, PushToAppKeepsWakeUps DEF NewConnection
<1>2. ASSUME NEW id \in ct_map, SendToAppThread(id) PROVE UpWakeUps'
  BY <1>2, PushToAppKeepsWakeUps DEF SendToAppThread
<1>3. ASSUME NEW id \in ct_map, GotError(id) PROVE UpWakeUps'
  BY <1>3, PushToAppKeepsWakeUps DEF GotError
<1>4. CASE CtReturn
  BY <1>4 DEF CtReturn, UpWakeUps, Pending, NoCall, TypeOK
<1>5. CASE WakeUpApp
  <2>1. ct_at_queue # <<>>
    BY <1>5 DEF WakeUpApp, UpWakeUps, Pending, One, TypeOK
  <2>2. app_wakeups = 1 /\ Pending(ct_call) = 0
    BY <1>5, <2>1 DEF WakeUpApp, UpWakeUps, Pending, One, TypeOK
  <2> QED
    BY <1>5, <2>2 DEF WakeUpApp, UpWakeUps, One, ct_vars, Pending
<1>6. CASE UNCHANGED <<ct_at_queue, app_wakeups, ct_call>>
  BY <1>6 DEF UpWakeUps
<1>7. ASSUME AtCalls \/ (AtStep /\ ~ WakeUpApp) \/ (CtStep /\ ~ CtReturn)
      PROVE  UNCHANGED <<ct_at_queue, app_wakeups, ct_call>>
  BY <1>7
  DEF AtCalls, AtStep, CtStep, AttachFactory, AttachAgain, SendToComThread,
      DropConnection, AtReturn, AtCreate, AtAssertionFailure, AtSkip,
      AtMessage, AtGotError, AtCallbackReturn, AtEvent, WakeUpCom, CtEvent,
      CtSkip, CtMessage, CtDrop, CtDropThrows, CtAssertionFailure, ct_vars, up_vars
<1> QED
  BY <1>1, <1>2, <1>3, <1>4, <1>5, <1>6, <1>7
  DEF Next, CtCalls, CtStep, AtStep, vars, ct_vars, up_vars

LEMMA DownWakeUpsStep == TypeOK /\ DownWakeUps /\ [Next]_vars => DownWakeUps'
<1> SUFFICES ASSUME TypeOK, DownWakeUps, [Next]_vars PROVE DownWakeUps'
  OBVIOUS
<1>1. ASSUME NEW id \in at_map, SendToComThread(id) PROVE DownWakeUps'
  BY <1>1, PushToComKeepsWakeUps DEF SendToComThread
<1>2. ASSUME NEW id \in at_map, DropConnection(id) PROVE DownWakeUps'
  BY <1>2, PushToComKeepsWakeUps DEF DropConnection
<1>3. CASE AtReturn
  BY <1>3 DEF AtReturn, DownWakeUps, Pending, NoCall, TypeOK
<1>4. CASE WakeUpCom
  <2>1. at_ct_queue # <<>>
    BY <1>4 DEF WakeUpCom, DownWakeUps, Pending, One, TypeOK
  <2>2. com_wakeups = 1 /\ Pending(at_call) = 0
    BY <1>4, <2>1 DEF WakeUpCom, DownWakeUps, Pending, One, TypeOK
  <2> QED
    BY <1>4, <2>2 DEF WakeUpCom, DownWakeUps, One, at_vars, Pending
<1>5. CASE UNCHANGED <<at_ct_queue, com_wakeups, at_call>>
  BY <1>5 DEF DownWakeUps
<1>6. ASSUME NEW t \in ConnTypes, NewConnection(t) \/ AttachFactory(t) \/ AttachAgain(t)
      PROVE  UNCHANGED <<at_ct_queue, com_wakeups, at_call>>
  BY <1>6 DEF NewConnection, AttachFactory, AttachAgain, at_vars, down_vars
<1>7. ASSUME NEW id \in ct_map, SendToAppThread(id) \/ GotError(id)
      PROVE  UNCHANGED <<at_ct_queue, com_wakeups, at_call>>
  BY <1>7 DEF SendToAppThread, GotError, at_vars, down_vars
<1>8. ASSUME (CtStep /\ ~ WakeUpCom) \/ (AtStep /\ ~ AtReturn)
      PROVE  UNCHANGED <<at_ct_queue, com_wakeups, at_call>>
  BY <1>8
  DEF CtStep, AtStep, CtReturn, CtEvent, CtSkip, CtMessage, CtDrop,
      CtDropThrows, CtAssertionFailure, WakeUpApp, AtEvent, AtCreate, AtAssertionFailure,
      AtSkip, AtMessage, AtGotError, AtCallbackReturn, at_vars, down_vars
<1> QED
  BY <1>1, <1>2, <1>3, <1>4, <1>5, <1>6, <1>7, <1>8
  DEF Next, CtCalls, AtCalls, CtStep, AtStep, vars, at_vars, down_vars

(* No interleaving of pushes, late dispatches and swaps loses a wake-up or  *)
(* dispatches a second one for the same backlog.                            *)
THEOREM WakeUpsExact == Spec => []OneWakeUpPerBacklog
<1>1. Init => UpWakeUps /\ DownWakeUps
  BY DEF Init, UpWakeUps, DownWakeUps, Pending, One, NoCall
<1>2. TypeOK /\ UpWakeUps /\ DownWakeUps /\ [Next]_vars
        => (UpWakeUps /\ DownWakeUps)'
  BY UpWakeUpsStep, DownWakeUpsStep
<1>3. UpWakeUps /\ DownWakeUps => OneWakeUpPerBacklog
  BY DEF UpWakeUps, DownWakeUps, OneWakeUpPerBacklog
<1> QED
  BY <1>1, <1>2, <1>3, TypeCorrect, PTL DEF Spec
===============================================================================
