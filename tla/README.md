# qtscreenshot: TLA+ models, checks and proofs

The repository is a small Qt program that takes a screenshot
(`src/src`) on top of a C++ library for networked programs
(`src/nseit-cpp-base/nseit`), with spdlog vendored beside it. The program
itself is one timer shot; the logic worth verifying is the library's: two
threads that exchange connections and messages through queues, connection
objects with five ways to end, a connector that retries, a framing protocol
with heartbeats. Paths below are relative to `src/nseit-cpp-base/nseit` unless
they begin with `src/`.

## Inventory

| Part | State | Operations | Talks to |
|---|---|---|---|
| `InterThreadTransportImpl` (ITT) | two queues with a mutex each, `m_ct_map`, `m_at_map`, factory map, `m_last_connection_id` | `new_connection`, `send_to_app_thread`, `got_error` on the communication thread (CT); `send_to_com_thread`, `drop_connection`, `attach_...factory` on the application thread (AT); `wake_up_app`, `wake_up_com` | dispatchers (`io_service.post`), PMux through `UpstreamMsgTransportIttAdapter`, business objects through `DownstreamMsgTransportIttAdapter` |
| `AsioTCPConnector` | `m_retry`, `m_stopped`, `m_connect_in_progress`, retry count and limit, socket, timer | `start`, `stop`, retry configuration, `handle_connect`, `handle_error`, timer | connection factory, connection manager, retry policy |
| `TcpClientConnectionManager` | the connections, the connector to restart | `connected`, `disconnected` | calls `start` of the connector from inside a teardown |
| `AsioTCPConnection` | `m_write_queue`, `m_write_in_progress_queue`, `m_write_in_progress`, `m_connection_dropped` | `add_to_write_queue`, `start_writing`, `start_reading`, completions, `drop_connection...` | PMux above, the manager, the socket |
| `PMuxImpl` | header and payload being read, time stamps, `m_first_run`, `m_connection` | `send_message`, `got_data`, `got_error`, `periodic_update`, `drop_connection...` | connection below, ITT adapter above, updater |
| `PeriodicUpdaterImpl` | `m_receivers` | `start`, `stop`, `periodic_update` | calls receivers that remove themselves during the walk |
| `CtConnectionFactory` | none | `create` | wires the objects of a connection |
| `AsioTCPListener`, `TCPConnectionManagerImpl` | acceptor, socket, the connections | `start`, `handle_accept`; `stop` is a todo | factory, manager |
| `SimpleTCPConnectorRetryPolicy` | none | `wait_for` | connector |
| `Buffer`, `Clock`, `util`, `error`, `assert.h` | none that is shared | helpers; `ASSERT` logs and throws | everything |
| `App` (`src/src`) | the callback, never invoked | `capture`, `free_to_capture` | Qt |
| spdlog's asynchronous loggers | the pool's ring and two condition variables, its workers, the registry's pool, loggers and periodic flusher | `log`, `flush`, `enqueue`, `enqueue_nowait`, `dequeue_for`, `flush_all`, `shutdown`, the pool's destructor; `main.cxx` starts it with 8192 items, one thread, `block` | the logger of every part |
| xxHash | none | none used | nothing |

What is hard about it, and what makes it correct:

- **ITT**: two threads; the flag `need_dispatch` is read under the mutex and
  acted on after it; batches are processed outside the lock; either side may
  end a connection while the other one's events for it are queued; an exception
  throws away the rest of a batch. Correct when no wake-up is lost or doubled,
  messages arrive once and in order, and no connection stays half-open.
- **Connector**: `start`, `stop`, reconnects, completions and the timer in any
  order over one socket and one timer. Correct when there is one outstanding
  operation, the retry limit holds, `stop` stops, and `start` works whenever
  nothing is outstanding.
- **Connection objects**: a read failure, a write failure, a protocol error, a
  heartbeat timeout and a drop from the application may follow each other in
  any order, some of them from inside the updater's walk. Correct when a
  connection is torn down once, and whole but for what the manager's exception cuts
  short, what is written is what was accepted, and nothing stays outstanding on
  a closed socket.
- **PMux framing**: messages must not depend on how the bytes were cut.
- **PMux heartbeat**: random intervals, two updaters and delays on the way. An
  idle healthy connection must not time out, a lost end must be noticed.
- **Listener**: one error ends it. It should say so.
- **Asynchronous loggers**: producers, workers, a flusher and a shutdown around
  one bounded queue; notifications come after the unlock; whoever drops the last
  reference to the pool runs its destructor. Correct when no one sleeps on, what
  was accepted is written in order, and the shutdown ends.

`PROJECT.json` lists the hazards with their lines and the properties on them.

## Modules

| Module | What it is |
|---|---|
| `ConnectionSessions` | the promise of the ITT: two ends and four counters per connection, no queues |
| `InterThreadTransport` | the ITT with its queues, wake-ups, batches and callbacks; the refinement of `ConnectionSessions` |
| `InterThreadTransportProofs` | the type invariant and `OneWakeUpPerBacklog`, proved |
| `InterThreadTransportInvariant` | what the events on their way say of every connection, proved inductive |
| `InterThreadTransportRefinement` | from it: no half-open connection, ids announced once, deliveries in order, and the refinement of `ConnectionSessions`, proved |
| `AsioTCPConnector` | the connector with the connection manager that restarts it |
| `AsioTCPConnectorProofs` | the type invariant, `OneOperation` and `LimitRespected`, proved |
| `CtConnections` | connection object, PMux, updater, manager and `m_ct_map` entry, from creation to the last completion handler |
| `CtConnectionsProofs` | the type invariant and all safety invariants, proved |
| `MessageStream` | the promise of PMux's framing: messages in order up to the first frame that is not of the protocol, no bytes |
| `PMuxFraming` | `send_message`, `send_heartbeat`, `got_data` over a byte stream cut into chunks; the refinement of `MessageStream` |
| `PMuxFramingProofs` | the type invariant, `InStep`, `RefusesOnlyForeign` and the refinement, proved |
| `PMuxHeartbeat` | `periodic_update` on both ends of a connection, against a clock |
| `PMuxHeartbeatProofs` | the type invariant, `NoFalseTimeout` and `DeadEndNoticed`, proved |
| `BoundedBuffer` | the promise of the loggers' queue: first in, first out, the oldest driven out; no ring |
| `AsyncLogging` | loggers, pool, workers, flusher and shutdown; the refinement of `BoundedBuffer` |
| `AsyncLoggingProofs` | the type invariant, `NoLostWakeUp`, `FlusherFindsPool`, `EndDrivesOutNothing`, `InProgramOrder`, `WrittenAtExit` and the refinement, proved |
| `AsioTCPListener` | the accept loop and its manager's connections |
| `...MC` | the constants' values for TLC |

A definition marked *Mutant* is a plausible mistake in the definition that
follows it; no specification uses it. Each property was seen to fail with one
of them in place (`PROJECT.json`, "mutants").

### InterThreadTransport

A step is what lies between two points at which the other thread can look:
the locked push (`PushToApp`, `PushToCom`), the dispatch after the unlock
together with the erasure that follows it (`CtReturn`, `AtReturn`), the locked
swap (`WakeUpApp`, `WakeUpCom`), and each event of a batch. The two
`io_service`s are the counters `app_wakeups` and `com_wakeups`: dispatched
handlers are alike, so their number is all there is to them. A callback of an
AT object (`at_frame`) stays open over several steps, because the application
may call `send_message` and `drop_connection` from it; `got_error` erases the
map entry when its callback returns. On the CT no call into the ITT is made
from inside `wake_up_com`: PMux only starts asynchronous operations there.

A failed `ASSERT` logs and throws. Nothing in the library catches it, so it
leaves the handler and its batch; the model goes on with the thread back in its
event loop, as under an owner that catches and runs the loop again (nothing in
the repository runs an `io_service`, the owner is outside it). With an owner
that lets the process die, everything up to that step still holds. There are
four such exceptions: no factory for a type or an id known twice
(`AtAssertionFailure`), a factory attached twice out of a callback
(`AttachAgain`, for the types in `AttachedTwice`), an oversized payload
(`CtAssertionFailure`), and a connection manager that throws when it is told of
a drop (`CtDropThrows`, for the connections in `Reconnecting`; when and why it
throws is the business of the connector's and `CtConnections`' modules). The last
one skips `m_ct_map.erase`: the object is closed and calls no more, so its id
moves from `ct_map` to `ct_stale`. An event would find either (`Found`);
`CtEndIsBacked` says that none comes for a stale one.

The abstract end of a connection is `open` while its map entry is there, and
closed from the push that ends it (`got_error`, `drop_connection`) or the
processing of the other side's event; that is why the history variables
`ct_end` and `at_end` are set at the push, one step before the map entry goes.

### AsioTCPConnector

Handlers of one thread, so each is one action. Time is left out: an armed timer
may expire at any moment, and whether `start` is still within the policy's delay
is a choice, except for the first attempt of all, which has nothing to wait for
(`attempted`). `timer` distinguishes `armed` from `cancelled` because a cancelled
wait still runs its handler. `socket_open` follows `m_socket`: `async_connect`
opens it, a failed attempt leaves it open, and it is moved into the connection or
closed behind a `stop`. While it is not open, `m_socket.cancel()` throws out of
`stop` before the timer is reached, so only a wait after a failed attempt can be
cancelled, unless it has expired already. The factory throws when the peer has gone before
its address is asked for (`ct-connection-factory.h:48`).

The end of a connection restarts the connector from inside its teardown, in two
orders: `do_drop_connection` closes the socket before it tells the manager
(`ConnectionDropped`), a failed read or write tells the manager first
(`ConnectionFailed`). When `start` throws there, the connection is counted in
`unclosed` until its last handler runs.

### CtConnections

Handlers again, except the updater's walk: `PassStarts`, one `Update` per
receiver, `PassEnds`, with the iterator in `next`, because receivers leave the
list during the walk. A read or write that was outstanding when the socket was
closed still completes, with an error or with what had come before, and finds
`dropped` set. The factory of the CT, the adapters and the ITT's `m_ct_map`
are part of this module as far as the CT touches them: an error is reported
and the entry removed in the same call.

The manager of a connection in `Reconnecting` may throw whenever it is told of an
end, because the connector's `start()` does while an attempt is in progress
(`AsioTCPConnector` says when; here it is a choice). What the exception cuts short
depends on the path. A drop from the application does not get to `m_ct_map.erase`
(the entry outlives the object). A failed read or write does not get to
`m_socket.close()`: the socket stays open as long as the other operation keeps
the object alive (`socket_open`). A protocol error leaves PMux its pointer to the
socket object. A heartbeat timeout ends the updater's pass (`PassAborted`).
`refused` remembers of which ends the manager threw.

### PMuxFraming

One direction of a connection, byte for byte: a header is six bytes with the
length in network order. `GotData` hands over a chunk of any size up to the
buffer's; each iteration of `got_data`'s loop is a step, told apart by what
`read_header` and `read_payload` find. `header` and `payload` are the filled parts
of `m_header` and `m_payload`. A protocol error ends the connection and leaves
the rest of the chunk alone. The sender is the peer's PMux, or anything else:
`ForeignFrames` holds frames no PMux sends. The assumption on the constants says only
what a stream of bytes cannot help: it falls into frames by its own headers, so a
length has four bytes and a frame that is accepted has the payload its header
announces (`Framed`).

### PMuxHeartbeat

Both ends of a connection, in the milliseconds of `Clock`; every time stamp is
kept as its age. `periodic_update` is four actions, its branches in their order.
The surroundings of the code are `Tick`'s guard `InTime`: the updater calls each
end at least once a `Period`, bytes arrive in order within `Delay`, the second end
is created within `Skew` of the first. The repository does not say who calls the
updater; the module says what that caller has to keep to. `HeartbeatAssumption`
relates those to the two constants of the code, and with 1 and 10 seconds it leaves
8.5 seconds for `Period + Delay`. `in_flight` holds the ages of bytes on their way;
a heartbeat and a message are alike, since both refresh the other end's stamp.
`Cut` loses the network without a word to either end.

### AsyncLogging

A step is the work under a mutex, or what lies between two of them: `Enqueue` with
the test of the wait's predicate, then `NotifyPush`, then `Leave`, which gives the
shared_ptr to the pool back; `Dequeue`, then `Process` with the notification before
it. `holders` are the callers inside the pool, and `Closer` for the registry's own
reference; whoever makes it empty goes to `PostTerminate` and `Join`, the
destructor. A wait can also end by itself (`WakeUp`: the ten seconds of
`dequeue_for`, or a spurious wake-up). The flusher holds both registry mutexes while
it posts; each is represented by its holder. `pop_front` leaves a moved-from item in
its slot, `Nothing` here. Every producer logs through a logger of its own, so order
is asked of each producer. `main.cxx` itself starts no flusher and calls no
shutdown; they are the registry's operations that a program with this pool has, and
the destructors at exit drop the pool in the same way.

### AsioTCPListener

Handlers of one thread. `FactoryThrows` leaves the accepted socket in `m_socket`,
where the next `async_accept`, if the owner calls `start` again, fails.

## Runs

| Run | Instance | Shows |
|---|---|---|
| `itt_failures` | 2 connections, 1 message per direction, a type whose factory comes late or never, factories attached twice, message 1 of one connection oversized, a manager of the other that throws | with batches lost to exceptions: the refinement of `ConnectionSessions` for each connection until it loses an event; wake-ups exact; no half-open connection; no event that finds an entry left behind; ids announced once |
| `itt_live` | 1 connection, 2 messages per direction, a manager that throws, fairness | the refinement with order among several messages; deliveries in order and never after the end; opens, errors, drops and messages arrive |
| `itt_lost_drop` | 2 connections of one type, factory attached, message 1 of one oversized | violated: a DROP_CONNECTION is lost to another connection's `ASSERT` |
| `connector` | limits 0 (none), 1 and 2, retry count followed to 4, two open connections | one operation at a time, the limit, and that the connector never falls silent |
| `connector_stop` | same | violated: a wait that follows a failed connect is cancelled, and connects |
| `connector_stuck` | same | violated: `m_connect_in_progress` set with nothing outstanding |
| `connector_unclosed` | same | violated: a refused `start` leaves a socket open |
| `ct_connections` | one busy connection (messages up to two buffers) whose manager may throw, and one that only heartbeats | teardown once, and whole but for what the manager's exception leaves behind; write order, no stalled write, complete passes, release of what is closed |
| `pmux_framing` | 3 frames, payloads of 0 to 3 bytes around a limit of 3, chunks of 1 to 8 bytes, five kinds of foreign frames | the refinement of `MessageStream` under every cutting; every byte accounted for; a PMux refuses nothing a PMux sends, type 0 excepted; frames are finished with when their bytes have come |
| `pmux_heartbeat` | interval 2, period 2, delay 1, skew 1, timeout 5: the shortest the assumption allows | no false time-out, and a lost end noticed in time |
| `async_logging` | queue of 2, one worker, a blocking and an overrunning producer with 2 and 1 messages, flusher and shutdown at any moment | the refinement of `BoundedBuffer`; wake-ups; what was accepted is written, in order; the shutdown ends |
| `listener_silent` | 2 connections | violated: the loop ends without its report |

Why the bounds are enough. In the ITT a connection id touches others only
through the queues, the batch and the wake-ups, so two connections show every
kind of interference between connections, and one message in each direction
shows its crossing with opens, errors and drops; order among the messages of a
connection needs two, in `itt_live`, where `InOrderUntilClosed` is checked (that it
survives lost batches too is proved, `DeliveriesInOrder`). The liveness properties also hold with two
connections and one message, a run too long to keep here. In the connector the
limits 0, 1 and 2 are no limit, the first failure and a later one; a count above
the limit is reached (4) when it is started again after the limit. In
`CtConnections` two connections are needed for receivers before, at and after
the iterator; a busy one gets a header and payload queued while a heartbeat or
an earlier message is written. A third receiver or message adds length only.
In `PMuxFraming` a chunk of 8 bytes spans the end of one frame and the header of
the next, one of a single byte splits every field, and the third frame shows the
state left behind by each kind of frame followed by each other.
In `PMuxHeartbeat` the values are the smallest at which intervals, period, delay and
skew all differ from nothing, and the timeout has no slack: with `>=` in place of
`>` in the time-out's test, `NoFalseTimeout` fails. The ages are bounded by the code
itself, the silence by `MaxSilence`. In `AsyncLogging` a ring of three slots wraps
within one run, is full with two, and five items (three messages, a flush and a
terminate) pass through it; the producers' policies differ so that waiting and
driving out meet. What is proved holds for any number of threads and any capacity.

Deadlock is checked in `connector` and `pmux_heartbeat`. It is off where a system may come to
rest: all connections closed and nothing to deliver, or the
loggers shut down.

### Fairness

`InterThreadTransport`: weak fairness of each thread's own steps, that is, the
event loops run what was posted and callbacks return. No call from outside is
assumed. `AsioTCPConnector`: weak fairness of the timer's handler and of the
completion of an outstanding connect; that a peer ever accepts is not assumed.
`PMuxFraming`: weak fairness of the loop in `got_data` and of the socket handing
over bytes that have come. `CtConnections`: weak fairness of a pass once it started, strong fairness of the
completions on a closed socket (no handler starts during a pass, so these are
enabled again and again, not continuously); the event loop's queue is first in,
first out, so it does run them. Nothing is assumed of an open socket, and where
the manager's exception leaves one open behind a dropped connection, `Released`
promises nothing until it is closed.
`AsyncLogging`: weak fairness of each caller inside the pool, each worker and the
flusher, and strong fairness of the shutdown, whose mutex the flusher takes and
gives back again and again (it leaves it for the interval of its wait). That a
message is logged, that the shutdown is called, and that a wait ends by itself are not
assumed, so `ShutdownCompletes` rests on the notifications alone.

## Disagreements between the code and its own words

Five runs are expected to be violated; `PROJECT.json` "findings" quotes the
lines. `itt_lost_drop`: a drop promised by `inter-thread-transport.h:46-50` is
lost with its batch. `connector_stop`: "Stop initiated. Not retrying."
(`asio-tcp-connector.cxx:161`), yet the timer of a retry that `stop` cancels after a
failed connect connects.
`connector_stuck`: "A connect already in progress." (`:57`), with none.
`connector_unclosed`: "... Ignoring." (`:57`), yet the exception cuts short the
teardown that asked for the start, before it closes the socket. `listener_silent`:
"not listening any more" (`asio-tcp-listener.cxx:62`) is what the loop says when it
ends, except when the factory throws.

## Theorems

They hold for every value of the constants that satisfies the named `ASSUME`s. Every
safety invariant, action property and refinement that a passing run checks is proved.

**InterThreadTransport.**

- `InterThreadTransportProofs!TypeCorrect`: `Spec => []TypeOK`. `TypeOK` is
  inductive as it stands; its conjunct `ct_map \subseteq 1 .. last_connection_id`
  is what keeps the `ASSERT` of `new_connection` from failing.
- `InterThreadTransportProofs!WakeUpsExact`: `Spec => []OneWakeUpPerBacklog`.
  Each direction is an invariant of its own (`UpWakeUps`, `DownWakeUps`),
  inductive over `TypeOK`: a push changes the count by its own flag, the return
  moves one from the flag to the dispatcher, and a swap finds exactly one
  because there is at most one. Every other step leaves queue, call and
  dispatcher of that direction alone.
- `InterThreadTransportInvariant!InvHolds`: `Spec => [](Inv /\ StaleUnfound)`, from
  which the rest follows. The properties are not inductive: that an AT object is backed says
  nothing of what will take its backing away. A swap happens on an empty batch, so
  the events on their way in a direction are one sequence, `batch \o queue`, which
  grows at its end and loses its front (one event, or a whole batch to an
  exception). `Inv` says four things. `Sequenced`: of two events of one connection
  an announcement never comes second, an error or drop never first, and messages
  are numbered upwards. `UpFits`, `DownFits`: every event on its way agrees with the
  maps, ends and counters (an announced id is unknown to the AT, a message was sent
  and not yet received). `NothingMissing`: what an end has still to be told is on its
  way, for each connection outside `lost`. `CtSide`, `AtSide`: maps, calls and
  callbacks agree with the history of the ends. The first two hold for lost
  connections as well, and that is why order and `AnnouncedOnce` survive an exception.
  `StaleUnfound`: no event on its way names an entry that outlived its object, since
  the drop that left it behind was the last event of its connection.
- `InterThreadTransportRefinement!AtEndsBacked`, `CtEndsBacked`, `OneAnnouncement`,
  `DeliveriesInOrder`: each from one part of `Inv`.
- `InterThreadTransportRefinement!Implementation`: `Spec => ImplementsSessions`.
  For a connection that loses nothing a push moves its own end, a processed event
  moves the other one or a counter by one (because nothing is missing, the next
  message on its way is number `got + 1`), and every other step leaves both ends and
  all four counters alone.

**AsioTCPConnector.**

- `AsioTCPConnectorProofs!TypeCorrect`, `OneOperationAtATime`: `TypeOK` and
  `OneOperation` are inductive.
- `AsioTCPConnectorProofs!LimitKept`: `LimitRespected` is not inductive, because
  it does not say that an outstanding attempt has one failure left. `BelowLimit`
  does: the count is below the limit, or at it and at rest.

**CtConnections**, for any number of connections and buffers.

- `CtConnectionsProofs!TypeCorrect`, `TornDownAsFarAsTheManagerLets`,
  `ReportedOnce`, `WritesKeepGoing`, `PassIsComplete`, from one invariant of three
  parts. `Whole`: a connection is unborn, in use or gone, each with the values of
  everything that knows of it, and no receiver is twice in the list (without that, erasing one would leave
  the other). Every step is shown to create a connection, to end one that is in use
  (`Ends`, what the five paths have in common), or to leave the ends of all alone.
  `Outgoing`: operations are outstanding only on connections that were made, and
  nothing waits without a write. `Walk`: those before the updater's iterator have been
  updated.
- `CtConnectionsProofs!WritesKeepOrder`: `Spec => []WrittenInOrder`. The account of a
  connection (`Accounted`): what was accepted is what was written, followed by what
  the outstanding write has taken and by some rest, which is the queue until the
  connection is dropped. Acceptance adds a buffer at one end, a swap
  moves the border inside, a completion moves the other one.

**PMuxFraming**, for any messages, foreign frames, buffer size and cutting.

- `PMuxFramingProofs!TypeCorrect`, `StaysInStep`, `RefusalsRight`, from one invariant.
  To `InStep` it adds that every frame sent is `Framed`, that a complete header is kept
  only while its payload is read and was accepted (`Reading`), and that the frame at
  which a connection was dropped is not of the protocol (`Dropped`). The bytes ahead of
  the receiver are written in two ways, as the frames it is not done with (`Ahead`) and
  as what it holds of a header, a payload and its chunk, followed by the wire
  (`Stream4`). When a header is complete both begin with six known bytes, so they are
  the header of the next frame (`HeaderAhead`, `HeaderBytes`), and what is behind them
  begins with that frame's payload. Refusing is then a matter of the frame alone
  (`HeaderMeans`).
- `PMuxFramingProofs!Implementation`: `Spec => ImplementsStream`. The step that ends a
  frame is `TakeMessage`, `TakeHeartbeat` or `Refuse` of the stream, a send is `Put`,
  and reading a part of anything is none of its steps.
- The lemmas on `FlattenSeq` (`FlattenAppend`, `FlattenFirst`) hold for any number of
  sequences. They are proved with the least number at which they would fail
  (`LeastNumber`, from the library's well-foundedness of `<`).

**PMuxHeartbeat.**

- `PMuxHeartbeatProofs!TypeCorrect`, `HealthyConnectionStays`, `LostEndNoticed`. The
  invariant bounds the age of the last incoming data by what is still to come: an
  end's last bytes were sent at most `since_out` ago, its next ones follow within an
  interval and a period, and they arrive within `Delay`; in the beginning the other
  end's creation and first update take the interval's place. `HeartbeatAssumption`
  says that both sums stay within the timeout.

**AsyncLogging**, for any number of threads and any capacity.

- `AsyncLoggingProofs!TypeCorrect`: `TypeOK` needs that the slots between head and
  tail are filled (`SlotsFilled`) and that a caller on its way to the queue has a
  message (`PostingFilled`).
- `AsyncLoggingProofs!WakeUpsArrive`: with `TypeOK`, `NoLostWakeUp` is inductive; a
  step moves one from the free room to a notification, from there to a woken thread,
  and from there to the queue.
- `AsyncLoggingProofs!FlusherIsServed`: the registry's reference lives until the
  flusher has exited (`ClosingOrder`).
- `AsyncLoggingProofs!DestructorWaits`: whoever posts for a logger holds the pool
  (`PostersHold`), so without holders only terminate messages are posted, which wait.
- `AsyncLoggingProofs!RingIsABuffer`: `Spec => ImplementsBuffer`, a step of the ring
  being `Put`, `DriveOut`, `Take` or none of the buffer.
- `AsyncLoggingProofs!OrderIsKept`: `Spec => []InProgramOrder`. A message of a producer
  is being posted, queued, held by the worker or written, and passes these in this
  order; with one worker, none overtakes another.
- `AsyncLoggingProofs!NothingLost`: `Spec => []WrittenAtExit`. Every message is on that
  way, or refused, or driven out (`OnItsWay`); nothing but terminate messages is behind a
  terminate message, and once a worker has taken one nothing else is queued
  (`EndsLast`). It needs that there is a worker, which the pool's
  constructor sees to (`thread_pool-inl.h:19` throws on none).

Model-checked only: the liveness properties (`OpenReachesApp`, `ErrorReachesApp`,
`DropReachesNetwork`, `MessagesArrive`, `AttemptEnds`, `StopSettles`, `Released`,
`FramesTaken`, `ShutdownCompletes`), because the prover has no fairness and no
`ENABLED`. The violated runs are counterexamples and need no proof.

## Plan

Done: the parts listed above, with every safety property proved. Left:

1. The composition of connector, connection objects and ITT. The exception of
   `start()` inside `disconnected()` is in all three modules, each with its own
   part of what it cuts short; in one model, the choice whether it is thrown would
   be the connector's state.
2. Proofs of what the violated runs leave standing: `stop` stops and the connector does
   not stay stuck, under the conditions that exclude those counterexamples.

## Not modelled

The screenshot application (no state that a later call reads), the retry
policy's floating-point jitter (a choice in the connector), `util`, `error`,
`Buffer` and `Clock` (stateless or plain ownership), formatting and logging levels,
and the vendored hash, which nothing uses. Most lines of the repository are vendored:
the fmt library, spdlog's pattern formatter, its sinks but one, and xxHash are pure
formatting or are not used by the program, and a model of them would say nothing
about it; that is why the modules stand for a small share of all lines and for
nearly all of `nseit/*.cxx` that changes state. Left out of the modelled parts:
payloads, addresses and error codes; `set_endpoint`; the unlocked `size()` in the
ITT's trace lines; the destruction of an AT object inside its own callback (its map
entry is modelled); wrap-around of the 64-bit connection id; the overrun counter;
replacing the pool, registering or dropping single loggers while they are in use; the
calls of `stop` on the listener, an empty todo.
