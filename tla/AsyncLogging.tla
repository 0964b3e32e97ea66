------------------------------ MODULE AsyncLogging ------------------------------
(****************************************************************************)
(* The logger of every part of the program: spdlog's asynchronous loggers,  *)
(* which share one thread pool with one bounded queue, as main.cxx sets     *)
(* them up, and the registry's periodic flusher and shutdown.               *)
(*                                                                          *)
(* A step is what a thread does between two points at which others can act: *)
(* the work under the queue's mutex, including the test of the condition    *)
(* variable's predicate; the notify_one that comes after the unlock; taking *)
(* and dropping a reference to the pool.  Whoever drops the last reference  *)
(* runs the pool's destructor.  What a message says is left out; a message  *)
(* is named by its logger and number.                                       *)
(****************************************************************************)
EXTENDS Integers, Sequences, FiniteSets

CONSTANTS
  Producers,        \* threads that log, each through a logger of its own
  Overrunning,      \* those of them whose policy is overrun_oldest; the
                    \* others block
  Registered,       \* those whose logger was given to register_logger
  Workers,          \* the pool's threads
  Flusher, Closer,  \* the periodic flusher, and the thread calling shutdown
  Nothing,          \* a slot or a thread without a message
  Capacity,         \* q_max_items
  MaxLogs           \* bound: how many messages each producer logs

Callers == Producers \union {Flusher, Closer}

ASSUME AsyncLoggingAssumption ==
  /\ Capacity \in Nat \ {0} /\ MaxLogs \in [Producers -> Nat]
  /\ Overrunning \subseteq Producers /\ Registered \subseteq Producers
  /\ IsFiniteSet(Callers) /\ IsFiniteSet(Workers)
  /\ Flusher \notin Producers /\ Closer \notin Producers /\ Flusher # Closer
  /\ Cardinality(Workers) \in Nat \ {0}

VARIABLES
  slots, head, tail,  \* circular_q: v_, head_ and tail_
  pc,               \* where each caller is
  posting,          \* the async_msg a caller is posting
  worker,           \* where each worker is
  taken,            \* the async_msg a worker has taken
  holders,          \* who holds a shared_ptr to the pool; Closer's is the
                    \* registry's tp_
  terminates,       \* terminate messages the destructor has still to post
  map_mutex,        \* who holds the registry's logger_map_mutex_
  periodic_mutex,   \* who holds the mutex_ of the periodic_worker
  active,           \* active_ of the periodic_worker
  registered,       \* the registry's loggers_
  to_flush          \* those flush_all has still to visit

(* History: how many messages each producer has logged, those refused for   *)
(* want of a pool, those driven out, and the numbers of those written, in   *)
(* order.  Requests to flush leave no trace.                                *)
VARIABLES logged, refused, driven_out, written

queue_vars == <<slots, head, tail, driven_out>>
registry_vars == <<map_mutex, periodic_mutex, active, registered, to_flush>>
vars == <<queue_vars, registry_vars, pc, posting, worker, taken, holders,
          terminates, logged, refused, written>>

LogMessage ==
  UNION {[kind : {"log"}, logger : {p}, n : 1 .. MaxLogs[p]] : p \in Producers}
FlushMessage == [kind : {"flush"}, logger : Producers]
TerminateMessage == [kind |-> "terminate"]
Messages == LogMessage \union FlushMessage \union {TerminateMessage}

Init ==
  /\ slots = [i \in 0 .. Capacity |-> Nothing]
  /\ head = 0 /\ tail = 0
  /\ pc = [t \in Callers |-> IF t = Flusher THEN "sleep" ELSE "idle"]
  /\ posting = [t \in Callers |-> Nothing]
  /\ worker = [w \in Workers |-> "dequeue"]
  /\ taken = [w \in Workers |-> Nothing]
  /\ holders = {Closer} /\ terminates = 0
  /\ map_mutex = Nothing /\ periodic_mutex = Nothing
  /\ active = TRUE /\ registered = Registered /\ to_flush = {}
  /\ logged = [p \in Producers |-> 0]
  /\ refused = {} /\ driven_out = {} /\ written = [p \in Producers |-> <<>>]

-------------------------------------------------------------------------------
(* circular_q.  One slot more than the capacity tells full from empty.      *)

(* Mutant: the indices wrap one slot too late.                              *)
WrapsLate(i) == (i + 1) % (Capacity + 2)

Successor(i) == (i + 1) % (Capacity + 1)

Size == IF tail >= head THEN tail - head ELSE Capacity + 1 - (head - tail)

Full == Successor(tail) = head

Empty == tail = head

(* Mutant: the newest item is at the front.                                 *)
Newest == slots[(tail + Capacity) % (Capacity + 1)]

Front == slots[head]

(* Mutant: an overrun does not move the head.                               *)
HeadStays(new_tail) == head

(* push_back: an item that fills the last slot drives out the oldest.       *)
HeadAfter(new_tail) == IF new_tail = head THEN Successor(head) ELSE head

push_back(m) ==
  LET new_tail == Successor(tail) IN
  /\ slots' = [slots EXCEPT ![tail] = m]
  /\ tail' = new_tail
  /\ head' = HeadAfter(new_tail)
  /\ driven_out' = IF new_tail = head THEN driven_out \union ({slots[head]} \ FlushMessage)
                                      ELSE driven_out

(* The item is moved out of its slot.                                       *)
pop_front ==
  /\ slots' = [slots EXCEPT ![head] = Nothing]
  /\ head' = Successor(head)
  /\ UNCHANGED <<tail, driven_out>>

-------------------------------------------------------------------------------
(* Posting: async_logger::sink_it_ or flush_, thread_pool::post_async_msg_  *)
(* and mpmc_blocking_queue::enqueue or enqueue_nowait.                      *)

PoolAlive == holders # {}

Goto(t, place) == pc' = [pc EXCEPT ![t] = place]

(* The threads that are at a place.                                         *)
At(where, place) == {t \in DOMAIN where : where[t] = place}

(* weak_ptr::lock() succeeded.                                              *)
Post(t, m) ==
  /\ holders' = holders \union {t}
  /\ posting' = [posting EXCEPT ![t] = m]
  /\ Goto(t, "enqueue")

Log(p) ==
  LET m == [kind |-> "log", logger |-> p, n |-> logged[p] + 1] IN
  /\ pc[p] = "idle" /\ logged[p] < MaxLogs[p]
  /\ logged' = [logged EXCEPT ![p] = @ + 1]
  /\ IF PoolAlive
     THEN Post(p, m) /\ UNCHANGED refused
     ELSE refused' = refused \union {m} /\ UNCHANGED <<holders, posting, pc>>
  /\ UNCHANGED <<queue_vars, registry_vars, worker, taken, terminates, written>>

(* Mutant: the destructor posts like the logger in whose call it runs.      *)
BlocksLikeItsThread(t) == t \notin Overrunning

(* Does t wait for room?  The destructor does, whoever runs it.             *)
Blocks(t) ==
  posting[t] = TerminateMessage \/ posting[t].logger \notin Overrunning

Enqueue(t) ==
  /\ pc[t] \in {"enqueue", "awake"}
  /\ IF Blocks(t) /\ Full
     THEN Goto(t, "wait") /\ UNCHANGED <<queue_vars, posting>>
     ELSE /\ push_back(posting[t])
          /\ posting' = [posting EXCEPT ![t] = Nothing]
          /\ Goto(t, "notify")
  /\ UNCHANGED <<registry_vars, worker, taken, holders, terminates, logged,
                 refused, written>>

(* push_cv_.notify_one().                                                   *)
NotifyPush(t) ==
  /\ pc[t] = "notify"
  /\ Goto(t, IF PoolAlive THEN "leave" ELSE "destroy")
  /\ IF At(worker, "wait") = {}
     THEN UNCHANGED worker
     ELSE \E w \in At(worker, "wait") : worker' = [worker EXCEPT ![w] = "awake"]
  /\ UNCHANGED <<queue_vars, registry_vars, posting, taken, holders,
                 terminates, logged, refused, written>>

(* Where a caller goes on when it is done with the pool.                    *)
Done(t) == IF t = Flusher THEN "next" ELSE IF t = Closer THEN "closed" ELSE "idle"

(* The shared_ptr of t goes out of scope; the last one takes the pool with  *)
(* it.                                                                      *)
Drop(t) ==
  /\ holders' = holders \ {t}
  /\ IF holders' = {}
     THEN terminates' = Cardinality(Workers) /\ Goto(t, "destroy")
     ELSE Goto(t, Done(t)) /\ UNCHANGED terminates

Leave(t) ==
  /\ pc[t] = "leave"
  /\ Drop(t)
  /\ UNCHANGED <<queue_vars, registry_vars, posting, worker, taken, logged,
                 refused, written>>

(* ~thread_pool: a terminate message for each worker, then join them.       *)
PostTerminate(t) ==
  /\ pc[t] = "destroy" /\ terminates > 0
  /\ terminates' = terminates - 1
  /\ posting' = [posting EXCEPT ![t] = TerminateMessage]
  /\ Goto(t, "enqueue")
  /\ UNCHANGED <<queue_vars, registry_vars, worker, taken, holders, logged,
                 refused, written>>

Join(t) ==
  /\ pc[t] = "destroy" /\ terminates = 0
  /\ \A w \in Workers : worker[w] = "exited"
  /\ Goto(t, Done(t))
  /\ UNCHANGED <<queue_vars, registry_vars, posting, worker, taken, holders,
                 terminates, logged, refused, written>>

-------------------------------------------------------------------------------
(* worker_loop_, process_next_msg_ and dequeue_for.                         *)

Dequeue(w) ==
  /\ worker[w] \in {"dequeue", "awake"}
  /\ IF Empty
     THEN worker' = [worker EXCEPT ![w] = "wait"] /\ UNCHANGED <<queue_vars, taken>>
     ELSE /\ taken' = [taken EXCEPT ![w] = Front]
          /\ pop_front
          /\ worker' = [worker EXCEPT ![w] = "notify"]
  /\ UNCHANGED <<registry_vars, pc, posting, holders, terminates, logged,
                 refused, written>>

(* Mutants: pop_cv_ is notified only when the queue has become empty, or    *)
(* not at all.                                                              *)
NotifiesWhenEmpty == IF Empty THEN At(pc, "wait") ELSE {}
NotifiesNobody == {}

(* Those whom pop_cv_.notify_one() may wake.                                *)
Notified == At(pc, "wait")

(* Then the message is processed, which nobody else sees.                   *)
Process(w) ==
  /\ worker[w] = "notify"
  /\ IF Notified = {} THEN UNCHANGED pc ELSE \E t \in Notified : Goto(t, "awake")
  /\ worker' = [worker EXCEPT ![w] =
                  IF taken[w] = TerminateMessage THEN "exited" ELSE "dequeue"]
  /\ IF taken[w] \in LogMessage
     THEN written' = [written EXCEPT ![taken[w].logger] = Append(@, taken[w].n)]
     ELSE UNCHANGED written
  /\ taken' = [taken EXCEPT ![w] = Nothing]
  /\ UNCHANGED <<queue_vars, registry_vars, posting, holders, terminates, logged,
                 refused>>

(* A wait ends without a notification: after ten seconds, for a worker, or  *)
(* for no reason.                                                           *)
WakeUp ==
  /\ \/ /\ \E w \in At(worker, "wait") : worker' = [worker EXCEPT ![w] = "awake"]
        /\ UNCHANGED pc
     \/ (\E t \in At(pc, "wait") : Goto(t, "awake")) /\ UNCHANGED worker
  /\ UNCHANGED <<queue_vars, registry_vars, posting, taken, holders, terminates,
                 logged, refused, written>>

-------------------------------------------------------------------------------
(* registry::flush_all, called by the periodic_worker under its own mutex.  *)

FlusherWakes ==
  /\ pc[Flusher] = "sleep" /\ periodic_mutex = Nothing
  /\ IF active THEN periodic_mutex' = Flusher /\ Goto(Flusher, "flush_all")
               ELSE UNCHANGED periodic_mutex /\ Goto(Flusher, "exited")
  /\ UNCHANGED <<queue_vars, posting, worker, taken, holders, terminates,
                 map_mutex, active, registered, to_flush, logged, refused, written>>

FlushAll ==
  /\ pc[Flusher] = "flush_all" /\ map_mutex = Nothing
  /\ map_mutex' = Flusher
  /\ to_flush' = registered
  /\ Goto(Flusher, "next")
  /\ UNCHANGED <<queue_vars, posting, worker, taken, holders, terminates,
                 periodic_mutex, active, registered, logged, refused, written>>

(* logger::flush() catches nothing: without a pool, flush_ throws out of    *)
(* the thread.                                                              *)
Flush ==
  /\ pc[Flusher] = "next"
  /\ \E p \in to_flush :
       /\ to_flush' = to_flush \ {p}
       /\ IF PoolAlive
          THEN Post(Flusher, [kind |-> "flush", logger |-> p])
          ELSE Goto(Flusher, "threw") /\ UNCHANGED <<holders, posting>>
  /\ UNCHANGED <<queue_vars, worker, taken, terminates, map_mutex,
                 periodic_mutex, active, registered, logged, refused, written>>

FlushedAll ==
  /\ pc[Flusher] = "next" /\ to_flush = {}
  /\ map_mutex' = Nothing /\ periodic_mutex' = Nothing
  /\ Goto(Flusher, "sleep")
  /\ UNCHANGED <<queue_vars, posting, worker, taken, holders, terminates,
                 active, registered, to_flush, logged, refused, written>>

-------------------------------------------------------------------------------
(* registry::shutdown.                                                      *)

Shutdown ==
  /\ Goto(Closer, "stop") /\ pc[Closer] = "idle"
  /\ UNCHANGED <<queue_vars, registry_vars, posting, worker, taken, holders,
                 terminates, logged, refused, written>>

(* ~periodic_worker: its mutex is free only between two callbacks.          *)
StopFlusher ==
  /\ pc[Closer] = "stop" /\ periodic_mutex = Nothing
  /\ active' = FALSE
  /\ Goto(Closer, "join")
  /\ UNCHANGED <<queue_vars, posting, worker, taken, holders, terminates,
                 map_mutex, periodic_mutex, registered, to_flush, logged,
                 refused, written>>

DropAll ==
  /\ pc[Closer] = "join" /\ pc[Flusher] = "exited"
  /\ map_mutex = Nothing
  /\ registered' = {}
  /\ Goto(Closer, "reset")
  /\ UNCHANGED <<queue_vars, posting, worker, taken, holders, terminates,
                 map_mutex, periodic_mutex, active, to_flush, logged, refused,
                 written>>

(* Mutant: shutdown begins with the pool.                                   *)
ResetsFirst == "idle"

ResetsFrom == "reset"

ResetPool ==
  /\ pc[Closer] = ResetsFrom
  /\ Drop(Closer)
  /\ UNCHANGED <<queue_vars, registry_vars, posting, worker, taken, logged,
                 refused, written>>

-------------------------------------------------------------------------------
Posting(t) == Enqueue(t) \/ NotifyPush(t) \/ Leave(t) \/ PostTerminate(t) \/ Join(t)
Flushing == FlusherWakes \/ FlushAll \/ Flush \/ FlushedAll
Closing == StopFlusher \/ DropAll \/ ResetPool
Working(w) == Dequeue(w) \/ Process(w)

Next ==
  \/ \E p \in Producers : Log(p)
  \/ \E t \in Callers : Posting(t)
  \/ \E w \in Workers : Working(w)
  \/ WakeUp \/ Flushing \/ Shutdown \/ Closing

Spec == Init /\ [][Next]_vars

(* Every thread goes on: a caller with its post, a worker with the message  *)
(* it has taken, the shutdown once called.  The flusher sleeps for whole    *)
(* seconds with its mutex free, so shutdown gets it (strong fairness).      *)
(* That anything is logged, that a wait ends by itself and that shutdown is *)
(* called is not assumed.                                                   *)
FairSpec ==
  /\ Spec
  /\ \A t \in Callers : WF_vars(Posting(t))
  /\ \A w \in Workers : WF_vars(Working(w))
  /\ WF_vars(Flushing) /\ SF_vars(Closing)

-------------------------------------------------------------------------------
(* Properties.                                                              *)

Places == {"idle", "enqueue", "wait", "awake", "notify", "leave", "destroy",
           "sleep", "flush_all", "next", "threw", "exited",
           "stop", "join", "reset", "closed"}

TypeOK ==
  /\ slots \in [0 .. Capacity -> Messages \union {Nothing}]
  /\ head \in 0 .. Capacity /\ tail \in 0 .. Capacity
  /\ pc \in [Callers -> Places]
  /\ posting \in [Callers -> Messages \union {Nothing}]
  /\ worker \in [Workers -> {"dequeue", "wait", "awake", "notify", "exited"}]
  /\ taken \in [Workers -> Messages \union {Nothing}]
  /\ holders \subseteq Callers
  /\ terminates \in 0 .. Cardinality(Workers)
  /\ map_mutex \in {Nothing, Flusher} /\ periodic_mutex \in {Nothing, Flusher}
  /\ active \in BOOLEAN
  /\ registered \subseteq Producers /\ to_flush \subseteq Producers
  /\ logged \in [Producers -> Nat] /\ \A p \in Producers : logged[p] <= MaxLogs[p]
  /\ refused \subseteq LogMessage /\ driven_out \subseteq LogMessage \union {TerminateMessage}
  /\ written \in [Producers -> Seq(Nat)]

(* The queue's indices stand for a bounded first-in first-out buffer: no    *)
(* item is lost, repeated or moved when they wrap or when an item drives    *)
(* out the oldest.                                                          *)
Items == [i \in 1 .. Size |-> slots[(head + i - 1) % (Capacity + 1)]]

Buffer == INSTANCE BoundedBuffer WITH Item <- Messages, items <- Items

ImplementsBuffer == Buffer!Spec

(* No wake-up is lost although notify_one comes after the unlock: while a   *)
(* caller waits there is no more room than notifications to come and woken  *)
(* callers; while a worker waits there is no more to take than that.        *)
NoLostWakeUp ==
  /\ At(pc, "wait") # {} =>
       Capacity - Size <= Cardinality(At(worker, "notify")) + Cardinality(At(pc, "awake"))
  /\ At(worker, "wait") # {} =>
       Size <= Cardinality(At(pc, "notify")) + Cardinality(At(worker, "awake"))

(* When the workers are gone, whatever was logged has been written, unless  *)
(* there was no pool any more or a logger that does not wait drove it out   *)
(* while the pool was in use; the pool's own end drives out nothing, in     *)
(* whichever thread it happens to run.                                      *)
WrittenAtExit ==
  /\ (\A w \in Workers : worker[w] = "exited") =>
       \A p \in Producers : \A n \in 1 .. logged[p] :
         LET m == [kind |-> "log", logger |-> p, n |-> n] IN
         \/ m \in refused \union driven_out
         \/ \E i \in 1 .. Len(written[p]) : written[p][i] = n
  /\ Overrunning = {} => driven_out = {}

EndDrivesOutNothing == [][~PoolAlive => UNCHANGED driven_out]_vars

(* With one worker, what a thread logs is written in its order and once.    *)
InProgramOrder ==
  Cardinality(Workers) = 1 =>
    \A p \in Producers : \A i, j \in 1 .. Len(written[p]) :
      i < j => written[p][i] < written[p][j]

(* The periodic flusher never meets loggers whose pool is gone, which would *)
(* throw out of its thread.                                                 *)
FlusherFindsPool == pc[Flusher] # "threw"

(* Shutdown comes to its end: the flusher is joined though it may be        *)
(* waiting for room, the callers inside the pool leave it, the last of them *)
(* or the shutdown itself destroys it, and the workers exit.                *)
ShutdownCompletes ==
  (pc[Closer] = "stop") ~>
    (pc[Closer] = "closed" /\ \A w \in Workers : worker[w] = "exited")
===============================================================================
