------------------------- MODULE InterThreadTransport -------------------------
(****************************************************************************)
(* InterThreadTransportImpl: the two mutex-protected queues between the     *)
(* communication thread (CT), which owns sockets and protocol objects, and  *)
(* the application thread (AT), which owns the business objects.            *)
(*                                                                          *)
(* A thread that puts an event into an empty queue dispatches, after it     *)
(* released the mutex, one run of the wake-up handler on the other thread;  *)
(* the handler takes the whole queue under the mutex and then works through *)
(* its events.  The steps of this module are the sections between two       *)
(* points where the other thread can observe or change anything: the locked *)
(* push, the dispatch after it, the locked swap, and each event of a batch. *)
(* m_ct_map and m_last_connection_id are touched by the CT only, m_at_map   *)
(* and the factory map by the AT only, so what a thread does to its own     *)
(* maps is part of its nearest step.                                        *)
(*                                                                          *)
(* An exception - a failing ASSERT, or one a connection manager throws when *)
(* it is told of a drop - leaves the wake-up handler and the events of the  *)
(* batch that were not reached are gone; the thread goes back to its loop.  *)
(****************************************************************************)
EXTENDS Naturals, Sequences

CONSTANTS
  MaxConnections,   \* bound: connections the CT opens
  MaxMessages,      \* bound: messages per connection and direction
  ConnTypes,        \* connection types, one per listener or connector
  AttachedFirst,    \* the types whose factory is attached before traffic
  AttachedTwice,    \* the types the application may attach once more
  Reconnecting,     \* the connections whose manager may throw when it is
                    \* told of a drop: see TcpClientConnectionManager
  Oversized         \* the AT's messages that PMux refuses to send, each the
                    \* pair of its connection and its number

ASSUME InterThreadTransportAssumption ==
  /\ MaxConnections \in Nat
  /\ MaxMessages \in Nat
  /\ AttachedFirst \subseteq ConnTypes
  /\ AttachedTwice \subseteq ConnTypes
  /\ Reconnecting \subseteq Nat
  /\ Oversized \subseteq Nat \X Nat

Ids == 1 .. MaxConnections

VARIABLES
  ct_at_queue,          \* m_ct_at_queue
  at_ct_queue,          \* m_at_ct_queue
  app_wakeups,          \* wake_up_app runs dispatched and not yet started
  com_wakeups,          \* wake_up_com runs dispatched and not yet started
  last_connection_id,   \* m_last_connection_id
  ct_map,               \* the ids of m_ct_map whose CT object is in use
  ct_stale,             \* the other ids of m_ct_map: the erase was skipped
  at_map,               \* the ids of m_at_map
  factory_map,          \* the types of m_at_transport_factory_map
  ct_call,              \* the call the CT is in, between push and return
  at_call,              \* the call the AT is in, between push and return
  ct_batch,             \* the events wake_up_com still has to process
  at_batch,             \* the events wake_up_app still has to process
  at_frame              \* the callback of an AT object that is running

(* History, read by no guard but the bounds on the number of messages: how  *)
(* each end came to its end, how many messages went in and came out of each *)
(* direction, and whose events an exception threw away.                     *)
VARIABLES ct_end, at_end, up_sent, up_got, down_sent, down_got, lost

ct_vars == <<last_connection_id, ct_map, ct_stale, ct_call, ct_batch, ct_end>>
at_vars == <<at_map, factory_map, at_call, at_batch, at_frame, at_end>>
up_vars == <<ct_at_queue, app_wakeups, up_sent, up_got>>
down_vars == <<at_ct_queue, com_wakeups, down_sent, down_got>>
vars == <<ct_vars, at_vars, up_vars, down_vars, lost>>

-------------------------------------------------------------------------------
(* Events.  A message is its number within its connection and direction.    *)

Message(id, n) == [type |-> "MESSAGE", id |-> id, n |-> n]
NewConnectionEvent(id, t) ==
  [type |-> "NEW_CONNECTION", id |-> id, connection_type |-> t]
GotErrorEvent(id) == [type |-> "GOT_ERROR", id |-> id]
DropEvent(id) == [type |-> "DROP_CONNECTION", id |-> id]

MessageEvents == [type : {"MESSAGE"}, id : Ids, n : 1 .. MaxMessages]
CtAtEvent ==
  MessageEvents
    \union [type : {"NEW_CONNECTION"}, id : Ids, connection_type : ConnTypes]
    \union [type : {"GOT_ERROR"}, id : Ids]
AtCtEvent == MessageEvents \union [type : {"DROP_CONNECTION"}, id : Ids]

NoCall == [op |-> "none", id |-> 0, need_dispatch |-> FALSE]
NoFrame == [kind |-> "none", id |-> 0]

(* Mutants: a queue of one event counts as empty, and every push dispatches.*)
NeedDispatchAfterPush(queue) == Len(queue) = 1
NeedDispatchAlways(queue) == TRUE

NeedDispatch(queue) == queue = <<>>

(* Mutant: events are pushed to the front.                                  *)
EnqueueFirst(queue, event) == <<event>> \o queue

Enqueue(queue, event) == Append(queue, event)

(* What a call still has to do once it has released the mutex: dispatch,    *)
(* and forget the connection it ends.                                       *)
Pending(call) == IF call.need_dispatch THEN 1 ELSE 0

(* Mutant: the map entry is left behind.                                    *)
NothingErased(call, op) == {}

ErasedBy(call, op) == IF call.op = op THEN {call.id} ELSE {}

InQueue(event, queue) == \E i \in 1 .. Len(queue) : queue[i] = event
ConnectionsIn(queue) == {queue[i].id : i \in 1 .. Len(queue)}

-------------------------------------------------------------------------------
Init ==
  /\ ct_at_queue = <<>> /\ at_ct_queue = <<>>
  /\ app_wakeups = 0 /\ com_wakeups = 0
  /\ last_connection_id = 0
  /\ ct_map = {} /\ ct_stale = {} /\ at_map = {}
  /\ factory_map = AttachedFirst
  /\ ct_call = NoCall /\ at_call = NoCall
  /\ ct_batch = <<>> /\ at_batch = <<>>
  /\ at_frame = NoFrame
  /\ ct_end = [id \in Ids |-> "none"] /\ at_end = [id \in Ids |-> "none"]
  /\ up_sent = [id \in Ids |-> 0] /\ up_got = [id \in Ids |-> 0]
  /\ down_sent = [id \in Ids |-> 0] /\ down_got = [id \in Ids |-> 0]
  /\ lost = {}

-------------------------------------------------------------------------------
(* The CT.                                                                  *)

(* The CT runs a completion handler or a timer, from which the protocol     *)
(* objects call the transport.                                              *)
CtHandlerRuns == ct_call = NoCall /\ ct_batch = <<>>

(* The locked section of every CT call.                                     *)
PushToApp(event, op) ==
  /\ ct_at_queue' = Enqueue(ct_at_queue, event)
  /\ ct_call' = [op |-> op, id |-> event.id,
                 need_dispatch |-> NeedDispatch(ct_at_queue)]

(* Mutant: the counter of connection ids is read and not advanced.          *)
KeepId(id) == UNCHANGED last_connection_id

TakeId(id) == last_connection_id' = id

(* m_ct_map has no entry above m_last_connection_id (TypeOK), so the insert *)
(* never meets a duplicate and its ASSERT never fails.                      *)
NewConnection(t) ==
  LET id == last_connection_id + 1 IN
  /\ CtHandlerRuns
  /\ id \in Ids
  /\ TakeId(id)
  /\ ct_map' = ct_map \union {id}
  /\ PushToApp(NewConnectionEvent(id, t), "new_connection")
  /\ UNCHANGED <<ct_stale, ct_batch, ct_end, app_wakeups, up_sent, up_got>>
  /\ UNCHANGED <<at_vars, down_vars, lost>>

SendToAppThread(id) ==
  /\ CtHandlerRuns
  /\ id \in ct_map
  /\ up_sent[id] < MaxMessages
  /\ up_sent' = [up_sent EXCEPT ![id] = @ + 1]
  /\ PushToApp(Message(id, up_sent[id] + 1), "send_to_app_thread")
  /\ UNCHANGED <<last_connection_id, ct_map, ct_stale, ct_batch, ct_end>>
  /\ UNCHANGED <<app_wakeups, up_got, at_vars, down_vars, lost>>

GotError(id) ==
  /\ CtHandlerRuns
  /\ id \in ct_map
  /\ PushToApp(GotErrorEvent(id), "got_error")
  /\ ct_end' = [ct_end EXCEPT ![id] = "error"]
  /\ UNCHANGED <<last_connection_id, ct_map, ct_stale, ct_batch>>
  /\ UNCHANGED <<app_wakeups, up_sent, up_got, at_vars, down_vars, lost>>

(* After the push: dispatch if needed, and only then forget the connection. *)
CtReturn ==
  /\ ct_call # NoCall
  /\ app_wakeups' = app_wakeups + Pending(ct_call)
  /\ ct_map' = ct_map \ ErasedBy(ct_call, "got_error")
  /\ ct_call' = NoCall
  /\ UNCHANGED <<last_connection_id, ct_stale, ct_batch, ct_end>>
  /\ UNCHANGED <<ct_at_queue, up_sent, up_got, at_vars, down_vars, lost>>

(* wake_up_com up to the end of its locked section; an empty queue gives an *)
(* empty batch, which is the early return.                                  *)
WakeUpCom ==
  /\ CtHandlerRuns
  /\ com_wakeups > 0
  /\ com_wakeups' = com_wakeups - 1
  /\ ct_batch' = at_ct_queue
  /\ at_ct_queue' = <<>>
  /\ UNCHANGED <<last_connection_id, ct_map, ct_stale, ct_call, ct_end>>
  /\ UNCHANGED <<down_sent, down_got, at_vars, up_vars, lost>>

Found(id) == id \in ct_map \union ct_stale

(* The next event of the batch.                                             *)
CtEvent ==
  /\ ct_batch # <<>>
  /\ UNCHANGED <<last_connection_id, ct_call, at_vars, up_vars>>
  /\ UNCHANGED <<at_ct_queue, com_wakeups, down_sent>>

CtSkip ==
  LET event == Head(ct_batch) IN
  /\ CtEvent
  /\ ~ Found(event.id)
  /\ ct_batch' = Tail(ct_batch)
  /\ UNCHANGED <<ct_map, ct_stale, ct_end, down_got, lost>>

CtMessage ==
  LET event == Head(ct_batch) IN
  /\ CtEvent
  /\ Found(event.id)
  /\ event.type = "MESSAGE"
  /\ <<event.id, event.n>> \notin Oversized
  /\ ct_batch' = Tail(ct_batch)
  /\ down_got' = [down_got EXCEPT ![event.id] = event.n]
  /\ UNCHANGED <<ct_map, ct_stale, ct_end, lost>>

CtDrop ==
  LET event == Head(ct_batch) IN
  /\ CtEvent
  /\ Found(event.id)
  /\ event.type = "DROP_CONNECTION"
  /\ ct_batch' = Tail(ct_batch)
  /\ ct_map' = ct_map \ {event.id}
  /\ ct_stale' = ct_stale \ {event.id}
  /\ ct_end' = [ct_end EXCEPT ![event.id] = "drop"]
  /\ UNCHANGED <<down_got, lost>>

(* The CT object closes its socket and tells its manager, whose exception   *)
(* skips the erase and the rest of the batch.  The object calls the         *)
(* transport no more.                                                       *)
CtDropThrows ==
  LET event == Head(ct_batch) IN
  /\ CtEvent
  /\ Found(event.id)
  /\ event.type = "DROP_CONNECTION"
  /\ event.id \in Reconnecting
  /\ ct_batch' = <<>>
  /\ ct_map' = ct_map \ {event.id}
  /\ ct_stale' = ct_stale \union {event.id}
  /\ ct_end' = [ct_end EXCEPT ![event.id] = "drop"]
  /\ lost' = lost \union ConnectionsIn(Tail(ct_batch))
  /\ UNCHANGED down_got

(* The ASSERT on the payload size in PMuxImpl::send_message.                *)
CtAssertionFailure ==
  LET event == Head(ct_batch) IN
  /\ CtEvent
  /\ Found(event.id)
  /\ event.type = "MESSAGE"
  /\ <<event.id, event.n>> \in Oversized
  /\ ct_batch' = <<>>
  /\ lost' = lost \union ConnectionsIn(ct_batch)
  /\ UNCHANGED <<ct_map, ct_stale, ct_end, down_got>>

-------------------------------------------------------------------------------
(* The AT.                                                                  *)

(* Application code runs: a callback of an AT object, or a handler of its   *)
(* own while no batch is being processed.                                   *)
AppRuns == at_call = NoCall /\ (at_frame # NoFrame \/ at_batch = <<>>)

AtIdle == at_call = NoCall /\ at_frame = NoFrame

(* The locked section of every AT call.                                     *)
PushToCom(event, op) ==
  /\ at_ct_queue' = Enqueue(at_ct_queue, event)
  /\ at_call' = [op |-> op, id |-> event.id,
                 need_dispatch |-> NeedDispatch(at_ct_queue)]

AttachFactory(t) ==
  /\ AppRuns
  /\ t \notin factory_map
  /\ factory_map' = factory_map \union {t}
  /\ UNCHANGED <<at_map, at_call, at_batch, at_frame, at_end>>
  /\ UNCHANGED <<ct_vars, up_vars, down_vars, lost>>

(* Outside a callback the ASSERT on a second factory only throws to the     *)
(* caller.  Out of a callback it ends wake_up_app, and an object that was   *)
(* being told of its error stays in the map.                                *)
AttachAgain(t) ==
  /\ AppRuns
  /\ t \in factory_map \intersect AttachedTwice
  /\ at_frame # NoFrame
  /\ at_frame' = NoFrame
  /\ at_batch' = <<>>
  /\ lost' = lost \union ConnectionsIn(at_batch)
                 \union {id \in at_map : at_frame = [kind |-> "got_error", id |-> id]}
  /\ UNCHANGED <<at_map, factory_map, at_call, at_end>>
  /\ UNCHANGED <<ct_vars, up_vars, down_vars>>

SendToComThread(id) ==
  /\ AppRuns
  /\ id \in at_map
  /\ down_sent[id] < MaxMessages
  /\ down_sent' = [down_sent EXCEPT ![id] = @ + 1]
  /\ PushToCom(Message(id, down_sent[id] + 1), "send_to_com_thread")
  /\ UNCHANGED <<at_map, factory_map, at_batch, at_frame, at_end>>
  /\ UNCHANGED <<com_wakeups, down_got, ct_vars, up_vars, lost>>

DropConnection(id) ==
  /\ AppRuns
  /\ id \in at_map
  /\ PushToCom(DropEvent(id), "drop_connection")
  /\ at_end' = [at_end EXCEPT ![id] = "drop"]
  /\ UNCHANGED <<at_map, factory_map, at_batch, at_frame>>
  /\ UNCHANGED <<com_wakeups, down_sent, down_got, ct_vars, up_vars, lost>>

AtReturn ==
  /\ at_call # NoCall
  /\ com_wakeups' = com_wakeups + Pending(at_call)
  /\ at_map' = at_map \ ErasedBy(at_call, "drop_connection")
  /\ at_call' = NoCall
  /\ UNCHANGED <<factory_map, at_batch, at_frame, at_end>>
  /\ UNCHANGED <<at_ct_queue, down_sent, down_got, ct_vars, up_vars, lost>>

WakeUpApp ==
  /\ AtIdle
  /\ at_batch = <<>>
  /\ app_wakeups > 0
  /\ app_wakeups' = app_wakeups - 1
  /\ at_batch' = ct_at_queue
  /\ ct_at_queue' = <<>>
  /\ UNCHANGED <<at_map, factory_map, at_call, at_frame, at_end>>
  /\ UNCHANGED <<up_sent, up_got, ct_vars, down_vars, lost>>

(* The next event of the batch, once the callback of the one before it has  *)
(* returned.                                                                *)
AtEvent ==
  /\ AtIdle
  /\ at_batch # <<>>
  /\ UNCHANGED <<factory_map, at_call, at_end, ct_vars, down_vars>>
  /\ UNCHANGED <<ct_at_queue, app_wakeups, up_sent>>

Callback(kind, id) == at_frame' = [kind |-> kind, id |-> id]

(* Factory, map entry, connected() callback.                                *)
AtCreate ==
  LET event == Head(at_batch) IN
  /\ AtEvent
  /\ event.type = "NEW_CONNECTION"
  /\ event.connection_type \in factory_map
  /\ event.id \notin at_map
  /\ at_batch' = Tail(at_batch)
  /\ at_map' = at_map \union {event.id}
  /\ Callback("connected", event.id)
  /\ UNCHANGED <<up_got, lost>>

(* No factory for the connection type, or the id is already known.          *)
AtAssertionFailure ==
  LET event == Head(at_batch) IN
  /\ AtEvent
  /\ event.type = "NEW_CONNECTION"
  /\ event.connection_type \in factory_map => event.id \in at_map
  /\ at_batch' = <<>>
  /\ lost' = lost \union ConnectionsIn(at_batch)
  /\ UNCHANGED <<at_map, at_frame, up_got>>

AtSkip ==
  LET event == Head(at_batch) IN
  /\ AtEvent
  /\ event.type # "NEW_CONNECTION"
  /\ event.id \notin at_map
  /\ at_batch' = Tail(at_batch)
  /\ UNCHANGED <<at_map, at_frame, up_got, lost>>

AtMessage ==
  LET event == Head(at_batch) IN
  /\ AtEvent
  /\ event.type = "MESSAGE"
  /\ event.id \in at_map
  /\ at_batch' = Tail(at_batch)
  /\ up_got' = [up_got EXCEPT ![event.id] = event.n]
  /\ Callback("got_message", event.id)
  /\ UNCHANGED <<at_map, lost>>

AtGotError ==
  LET event == Head(at_batch) IN
  /\ AtEvent
  /\ event.type = "GOT_ERROR"
  /\ event.id \in at_map
  /\ at_batch' = Tail(at_batch)
  /\ Callback("got_error", event.id)
  /\ UNCHANGED <<at_map, up_got, lost>>

(* got_error() erases the object when its callback has returned; the        *)
(* callback may have dropped it before.                                     *)
AtCallbackReturn ==
  /\ at_call = NoCall
  /\ at_frame # NoFrame
  /\ at_frame' = NoFrame
  /\ IF at_frame.kind = "got_error" /\ at_frame.id \in at_map
     THEN /\ at_map' = at_map \ {at_frame.id}
          /\ at_end' = [at_end EXCEPT ![at_frame.id] = "error"]
     ELSE UNCHANGED <<at_map, at_end>>
  /\ UNCHANGED <<factory_map, at_call, at_batch>>
  /\ UNCHANGED <<ct_vars, up_vars, down_vars, lost>>

-------------------------------------------------------------------------------
CtCalls ==
  \/ \E t \in ConnTypes : NewConnection(t)
  \/ \E id \in ct_map : SendToAppThread(id) \/ GotError(id)

AtCalls ==
  \/ \E t \in ConnTypes : AttachFactory(t) \/ AttachAgain(t)
  \/ \E id \in at_map : SendToComThread(id) \/ DropConnection(id)

CtStep ==
  \/ CtReturn \/ WakeUpCom
  \/ CtSkip \/ CtMessage \/ CtDrop \/ CtDropThrows \/ CtAssertionFailure

AtStep ==
  \/ AtReturn \/ WakeUpApp \/ AtCallbackReturn
  \/ AtCreate \/ AtAssertionFailure \/ AtSkip \/ AtMessage \/ AtGotError

Next == CtCalls \/ AtCalls \/ CtStep \/ AtStep

Spec == Init /\ [][Next]_vars

(* Both event loops run what is dispatched to them and the callbacks of the *)
(* application return; neither side has to make any call of its own.        *)
Fairness == WF_vars(CtStep) /\ WF_vars(AtStep)

FairSpec == Spec /\ Fairness
-------------------------------------------------------------------------------
(* Properties.                                                              *)

CtAtOps == {"new_connection", "send_to_app_thread", "got_error"}
AtCtOps == {"send_to_com_thread", "drop_connection"}
Call(ops) == [op : ops, id : Ids, need_dispatch : BOOLEAN]
Frame == [kind : {"connected", "got_message", "got_error"}, id : Ids]
Counters == [Ids -> 0 .. MaxMessages]

TypeOK ==
  /\ ct_at_queue \in Seq(CtAtEvent) /\ at_batch \in Seq(CtAtEvent)
  /\ at_ct_queue \in Seq(AtCtEvent) /\ ct_batch \in Seq(AtCtEvent)
  /\ app_wakeups \in Nat /\ com_wakeups \in Nat
  /\ last_connection_id \in 0 .. MaxConnections
  /\ ct_map \subseteq 1 .. last_connection_id
  /\ ct_stale \subseteq Ids
  /\ at_map \subseteq Ids
  /\ factory_map \subseteq ConnTypes
  /\ ct_call \in Call(CtAtOps) \union {NoCall}
  /\ at_call \in Call(AtCtOps) \union {NoCall}
  /\ at_frame \in Frame \union {NoFrame}
  /\ ct_end \in [Ids -> {"none", "error", "drop"}]
  /\ at_end \in [Ids -> {"none", "error", "drop"}]
  /\ up_sent \in Counters /\ up_got \in Counters
  /\ down_sent \in Counters /\ down_got \in Counters
  /\ lost \subseteq Ids

One(queue) == IF queue = <<>> THEN 0 ELSE 1

(* A queue with events in it has exactly one run of its wake-up handler     *)
(* ahead, either dispatched or about to be by the call that made the queue  *)
(* non-empty, and an empty queue has none: the flag taken under the mutex   *)
(* and the dispatch after it neither lose a wake-up nor pile them up in the *)
(* dispatcher, however the other thread's swap falls between the two.       *)
OneWakeUpPerBacklog ==
  /\ app_wakeups + Pending(ct_call) = One(ct_at_queue)
  /\ com_wakeups + Pending(at_call) = One(at_ct_queue)

(* Events on their way to the other thread, in the queue or in the batch.   *)
UpInFlight(event) ==
  InQueue(event, ct_at_queue) \/ InQueue(event, at_batch)
DownInFlight(event) ==
  InQueue(event, at_ct_queue) \/ InQueue(event, ct_batch)

(* No half-open connection on the AT: an AT object whose CT end is gone has *)
(* the error still coming, or is in the callback that reports it, or is     *)
(* being dropped.  Only a batch lost to an exception may break this, and    *)
(* only for the connections that had an event in what was lost of it.       *)
AtEndIsBacked ==
  \A id \in at_map \ lost :
    \/ id \in ct_map
    \/ UpInFlight(GotErrorEvent(id))
    \/ at_frame = [kind |-> "got_error", id |-> id]
    \/ at_call.op = "drop_connection" /\ at_call.id = id

(* No half-open connection on the CT: a transport in m_ct_map has its AT    *)
(* object, or is still to be announced, or its DROP_CONNECTION is coming,   *)
(* or it is just being erased by got_error.  An entry that outlives its CT  *)
(* object, because a manager's exception skipped the erase, is found by no  *)
(* event any more.                                                          *)
CtEndIsBacked ==
  /\ \A id \in ct_map \ lost :
       \/ id \in at_map
       \/ \E t \in ConnTypes : UpInFlight(NewConnectionEvent(id, t))
       \/ DownInFlight(DropEvent(id))
       \/ ct_call.op = "got_error" /\ ct_call.id = id
  /\ \A event \in AtCtEvent : DownInFlight(event) => event.id \notin ct_stale

(* The AT's ASSERT on duplicate connection ids never fires: an id is        *)
(* announced at most once, before anything else is queued for it, and never *)
(* while the AT still has an object for it.                                 *)
AnnouncedOnce ==
  \A i, j \in 1 .. Len(at_batch \o ct_at_queue) :
    LET backlog == at_batch \o ct_at_queue IN
    (backlog[i].type = "NEW_CONNECTION" /\ backlog[i].id = backlog[j].id)
      => /\ i <= j
         /\ backlog[j].type = "NEW_CONNECTION" => i = j
         /\ backlog[i].id \notin at_map

(* What an exception may do to a connection is lose its events: what        *)
(* still arrives is in order and was sent, and nothing arrives at an end    *)
(* that was closed.                                                         *)
InOrderUntilClosed ==
  [][\A id \in Ids :
       /\ up_got'[id] # up_got[id] =>
            up_got[id] < up_got'[id] /\ up_got'[id] <= up_sent[id]
                                    /\ at_end[id] = "none"
       /\ down_got'[id] # down_got[id] =>
            down_got[id] < down_got'[id] /\ down_got'[id] <= down_sent[id]
                                        /\ ct_end[id] = "none"]_vars

(* A connection the application dropped, and to which it never gave an      *)
(* oversized payload, is closed on the CT or its DROP_CONNECTION is still   *)
(* coming, whatever happens to other connections: "When a disconnect        *)
(* happens in the AT, it notifies the InterThreadTransport by calling       *)
(* drop_connection()", which "then calls" the drop of the CT object.        *)
DropIsCarriedOut ==
  \A id \in ct_map :
    (at_end[id] = "drop" /\ \A n \in 1 .. down_sent[id] : <<id, n>> \notin Oversized) =>
      \/ DownInFlight(DropEvent(id))
      \/ ct_call.op = "got_error" /\ ct_call.id = id

-------------------------------------------------------------------------------
(* Refinement of ConnectionSessions: an end is closed by its own thread's   *)
(* push (got_error, drop_connection) or by processing the other thread's.   *)

CtEndOf(id) == IF ct_end[id] # "none" THEN ct_end[id]
               ELSE IF id \in ct_map THEN "open" ELSE "none"
AtEndOf(id) == IF at_end[id] # "none" THEN at_end[id]
               ELSE IF id \in at_map THEN "open" ELSE "none"

Session(id) == INSTANCE ConnectionSessions WITH
  Ids <- {id},
  net <- [i \in {id} |-> CtEndOf(i)],
  app <- [i \in {id} |-> AtEndOf(i)],
  up_sent <- [i \in {id} |-> up_sent[i]],
  up_got <- [i \in {id} |-> up_got[i]],
  down_sent <- [i \in {id} |-> down_sent[i]],
  down_got <- [i \in {id} |-> down_got[i]]

(* The queues, wake-ups and batches deliver to every connection what        *)
(* ConnectionSessions promises it, until an exception throws away an event  *)
(* of that very connection; what happens to others does not matter.         *)
ImplementsSessions ==
  /\ \A id \in Ids : Session(id)!Init
  /\ [][\A id \in Ids :
          id \in lost' \/ Session(id)!Next \/ UNCHANGED Session(id)!vars]_vars

-------------------------------------------------------------------------------
(* Liveness, under FairSpec.                                                *)

(* Every connection the CT opens gets its AT object, and one that breaks    *)
(* reaches the application's got_error unless the application has dropped   *)
(* it in the meantime.                                                      *)
OpenReachesApp ==
  \A id \in Ids : (CtEndOf(id) = "open") ~> (AtEndOf(id) # "none")
ErrorReachesApp ==
  \A id \in Ids : (CtEndOf(id) = "error")
                     ~> (AtEndOf(id) \in {"error", "drop"})

(* A dropped connection is closed on the CT.                                *)
DropReachesNetwork ==
  \A id \in Ids : (AtEndOf(id) = "drop")
                     ~> (CtEndOf(id) \in {"error", "drop"})

(* A message is delivered unless the end it is for was closed.              *)
MessagesArrive ==
  \A id \in Ids, n \in 1 .. MaxMessages :
    /\ (up_sent[id] >= n) ~> (up_got[id] >= n \/ at_end[id] # "none")
    /\ (down_sent[id] >= n) ~> (down_got[id] >= n \/ ct_end[id] # "none")
===============================================================================
