----------------------------- MODULE CtConnections -----------------------------
(****************************************************************************)
(* The objects the communication thread keeps for a connection, from        *)
(* CtConnectionFactory::create to the last completion handler: the socket   *)
(* object (AsioTCPConnection), the protocol object (PMuxImpl), its          *)
(* registration with PeriodicUpdaterImpl, the connection manager's          *)
(* reference and the entry in InterThreadTransport's m_ct_map.              *)
(*                                                                          *)
(* One thread runs everything, a handler at a time; what interleaves is     *)
(* handlers: the completion of an outstanding read or write (which comes    *)
(* even after the socket was closed), messages and drops from the           *)
(* application thread, and the periodic update, which walks the list of     *)
(* receivers while these take themselves off it.                            *)
(*                                                                          *)
(* The manager of a connection that the connector made starts the connector *)
(* again when it is told of the end, and start() throws while an attempt is *)
(* in progress.  Whether one is, is a choice; what the exception cuts short *)
(* is not: each path to the end of a connection calls the manager at        *)
(* another place.                                                           *)
(*                                                                          *)
(* Bytes are left out.  What is written is a sequence of buffers, each the  *)
(* header or the payload of a message, or a heartbeat.  What is read is     *)
(* either well-formed or a protocol error.  Time is left out: whether a     *)
(* heartbeat is due or a timeout is reached is a choice.                    *)
(****************************************************************************)
EXTENDS Naturals, Sequences, SequencesExt

CONSTANTS
  Connections,      \* the connections the factory may be asked for
  Reconnecting,     \* those of a manager with reconnect_on_disconnect
  Idle, End,        \* the updater's iterator between passes, and past the end
  MaxBuffers        \* bound: no message or further heartbeat is sent on
                    \* connection c once it has accepted MaxBuffers[c] buffers

ASSUME CtConnectionsAssumption ==
  /\ Reconnecting \subseteq Connections
  /\ MaxBuffers \in [Connections -> Nat]
  /\ Idle \notin Connections /\ End \notin Connections /\ Idle # End

VARIABLES
  dropped,          \* AsioTCPConnection::m_connection_dropped
  socket_open,      \* AsioTCPConnection::m_socket is open
  reading,          \* an async_read_some is outstanding
  out,              \* the write queues: busy is m_write_in_progress, an
                    \* async_write of in_progress is outstanding
  first_run,        \* PMuxImpl::m_first_run
  pmux_connection,  \* PMuxImpl::m_connection is not null
  created,          \* the connections the factory has made
  managed,          \* the connection manager's m_connections
  ct_map,           \* the entries of InterThreadTransport::m_ct_map
  receivers,        \* PeriodicUpdaterImpl::m_receivers
  next              \* the iterator of PeriodicUpdaterImpl::periodic_update

(* History: the buffers accepted for writing, those the socket took, how    *)
(* often each connection's end was reported to the application thread,      *)
(* asked for by it and told to the manager, of which ends the manager threw *)
(* when it was told, who was updated in this pass, and whether an ASSERT on *)
(* a registration has failed.                                               *)
VARIABLES sent, wire, errors, app_drops, disconnects, refused, updated,
          assertion_failed

told_vars == <<dropped, managed, ct_map, receivers, errors, disconnects,
               refused, assertion_failed>>
end_vars == <<told_vars, socket_open>>
write_vars == <<out, sent>>
pass_vars == <<next, updated>>
vars == <<end_vars, write_vars, pass_vars, reading, wire, first_run,
          pmux_connection, created, app_drops>>

Init ==
  /\ dropped = [c \in Connections |-> FALSE]
  /\ socket_open = [c \in Connections |-> FALSE]
  /\ reading = [c \in Connections |-> FALSE]
  /\ out = [c \in Connections |->
              [busy |-> FALSE, in_progress |-> <<>>, queue |-> <<>>]]
  /\ first_run = [c \in Connections |-> TRUE]
  /\ pmux_connection = [c \in Connections |-> FALSE]
  /\ created = {} /\ managed = {} /\ ct_map = {} /\ receivers = <<>>
  /\ next = Idle /\ updated = {}
  /\ sent = [c \in Connections |-> <<>>]
  /\ wire = [c \in Connections |-> <<>>]
  /\ errors = [c \in Connections |-> 0]
  /\ app_drops = [c \in Connections |-> 0]
  /\ disconnects = [c \in Connections |-> 0]
  /\ refused = {}
  /\ assertion_failed = FALSE

-------------------------------------------------------------------------------
(* Parts of handlers.                                                       *)

(* The event loop starts a handler only when no other one is running.       *)
HandlerStarts == next = Idle

(* Mutant: the queue is copied, not moved, into the write.                  *)
StartWritingCopy(w) ==
  IF w.busy THEN w
  ELSE [busy |-> w.queue # <<>>, in_progress |-> w.queue, queue |-> w.queue]

(* start_writing: one async_write at a time, over everything queued.        *)
StartWriting(w) ==
  IF w.busy THEN w
  ELSE [busy |-> w.queue # <<>>, in_progress |-> w.queue, queue |-> <<>>]

(* add_to_write_queue for each of the buffers.                              *)
AddToWriteQueue(c, w, buffers) ==
  IF dropped[c] THEN w ELSE [w EXCEPT !.queue = @ \o buffers]

(* They are added, then start_writing.                                      *)
Write(c, buffers) ==
  /\ out' = [out EXCEPT ![c] = StartWriting(AddToWriteQueue(c, @, buffers))]
  /\ sent' = [sent EXCEPT ![c] = IF dropped[c] THEN @ ELSE @ \o buffers]

(* A buffer is named by its place among the connection's buffers.           *)
Message(c, has_payload) ==
  LET n == Len(sent[c]) + 1 IN
  IF has_payload
  THEN <<[part |-> "header", n |-> n], [part |-> "payload", n |-> n]>>
  ELSE <<[part |-> "header", n |-> n]>>

Heartbeat(c) == <<[part |-> "heartbeat", n |-> Len(sent[c]) + 1]>>

MayWrite(c) == Len(sent[c]) < MaxBuffers[c]

(* std::find in m_receivers, which holds nobody twice.                      *)
Position(c) == CHOOSE i \in 1 .. Len(receivers) : receivers[i] = c

(* The end of a connection, common to every path: PMux leaves the updater   *)
(* (whose ASSERT throws if it is not there; what that exception leaves      *)
(* behind is not followed further), the socket object is marked dropped and *)
(* taken off the manager, which may throw then.  left_open is whether the   *)
(* socket is still open when the handler is over.                           *)
TearDown(c, throws, left_open) ==
  /\ throws => c \in Reconnecting
  /\ IF Contains(receivers, c)
     THEN /\ receivers' = RemoveAt(receivers, Position(c))
          /\ dropped' = [dropped EXCEPT ![c] = TRUE]
          /\ disconnects' = [disconnects EXCEPT ![c] = @ + 1]
          /\ managed' = managed \ {c}
          /\ refused' = IF throws THEN refused \union {c} ELSE refused
          /\ socket_open' = [socket_open EXCEPT ![c] = left_open]
          /\ UNCHANGED assertion_failed
     ELSE /\ assertion_failed' = TRUE
          /\ UNCHANGED <<receivers, dropped, disconnects, managed, refused,
                         socket_open>>

(* The socket is closed, by a handler or with the last reference.           *)
Close(c) == socket_open' = [socket_open EXCEPT ![c] = FALSE]

(* Mutant: got_error leaves the transport in m_ct_map.                      *)
ReportErrorOnly(c) ==
  /\ errors' = [errors EXCEPT ![c] = @ + 1]
  /\ UNCHANGED ct_map

(* InterThreadTransport::got_error.                                         *)
ReportError(c) ==
  /\ errors' = [errors EXCEPT ![c] = @ + 1]
  /\ ct_map' = ct_map \ {c}

(* Mutant: an error is reported however often it is met.                    *)
AlwaysActive(c) == TRUE

(* "We should notify upstream only if the connection is still active."      *)
StillActive(c) == ~dropped[c]

-------------------------------------------------------------------------------
(* CtConnectionFactory::create and the connected() that follows it in the   *)
(* accept or connect handler.                                               *)
Create(c) ==
  /\ HandlerStarts
  /\ c \notin created
  /\ created' = created \union {c}
  /\ ct_map' = ct_map \union {c}
  /\ receivers' = Append(receivers, c)
  /\ socket_open' = [socket_open EXCEPT ![c] = TRUE]
  /\ reading' = [reading EXCEPT ![c] = TRUE]
  /\ pmux_connection' = [pmux_connection EXCEPT ![c] = TRUE]
  /\ managed' = managed \union {c}
  /\ UNCHANGED <<write_vars, pass_vars, dropped, errors, disconnects, refused,
                 assertion_failed, wire, first_run, app_drops>>

-------------------------------------------------------------------------------
(* wake_up_com.  drop_connection has the application thread forget the      *)
(* connection, so that it sends nothing for it afterwards.                  *)
MayFind(c) == c \in ct_map /\ app_drops[c] = 0

SendMessage(c, has_payload) ==
  /\ HandlerStarts
  /\ MayFind(c)
  /\ MayWrite(c)
  /\ Write(c, Message(c, has_payload))
  /\ UNCHANGED <<end_vars, pass_vars, reading, wire, first_run,
                 pmux_connection, created, app_drops>>

(* The entry is erased after the call, and stays when that throws.          *)
DropFromApp(c) ==
  /\ HandlerStarts
  /\ MayFind(c)
  /\ app_drops' = [app_drops EXCEPT ![c] = @ + 1]
  /\ \E throws \in BOOLEAN :
       /\ TearDown(c, throws, FALSE)
       /\ ct_map' = IF throws \/ ~Contains(receivers, c) THEN ct_map
                                                       ELSE ct_map \ {c}
  /\ UNCHANGED <<write_vars, pass_vars, reading, wire, first_run,
                 pmux_connection, created, errors>>

(* AsioTCPConnection::drop_connection or PMuxImpl::drop_connection, called  *)
(* on a connection the manager still holds; the caller gets the exception.  *)
DropFromCt(c) ==
  /\ HandlerStarts
  /\ c \in managed
  /\ ReportError(c)
  /\ \E throws \in BOOLEAN : TearDown(c, throws, FALSE)
  /\ UNCHANGED <<write_vars, pass_vars, reading, wire, first_run,
                 pmux_connection, created, app_drops>>

-------------------------------------------------------------------------------
(* read_completion_handler.                                                 *)

(* Mutant: the handler reads on.                                            *)
ReadsOn(c) == UNCHANGED reading

ReadEnds(c) == reading' = [reading EXCEPT ![c] = FALSE]

ReadData(c) ==
  /\ HandlerStarts
  /\ reading[c] /\ ~dropped[c]
  /\ UNCHANGED vars

(* got_data finds a protocol error and forgets the socket object, unless    *)
(* the manager throws; the handler sees that the connection was dropped, or *)
(* is cut short, and does not read on.                                      *)
ReadProtocolError(c) ==
  /\ HandlerStarts
  /\ reading[c] /\ ~dropped[c]
  /\ ReadEnds(c)
  /\ ReportError(c)
  /\ \E throws \in BOOLEAN :
       /\ TearDown(c, throws, FALSE)
       /\ pmux_connection' = [pmux_connection EXCEPT ![c] = throws]
  /\ UNCHANGED <<write_vars, pass_vars, wire, first_run, created, app_drops>>

(* When the manager throws, m_socket.close() is not reached: the socket is  *)
(* closed with the object, which a write under way keeps alive.             *)
ReadFailed(c) ==
  /\ HandlerStarts
  /\ reading[c]
  /\ ReadEnds(c)
  /\ IF StillActive(c)
     THEN /\ ReportError(c)
          /\ \E throws \in BOOLEAN :
               TearDown(c, throws, throws /\ out[c].busy)
     ELSE Close(c) /\ UNCHANGED told_vars
  /\ UNCHANGED <<write_vars, pass_vars, wire, first_run, pmux_connection,
                 created, app_drops>>

(* Data that came in before the drop, or on a socket that was left open, is *)
(* ignored; with no write under way the last reference goes.                *)
ReadAfterDrop(c) ==
  /\ HandlerStarts
  /\ reading[c] /\ dropped[c]
  /\ ReadEnds(c)
  /\ IF out[c].busy THEN UNCHANGED socket_open ELSE Close(c)
  /\ UNCHANGED <<told_vars, write_vars, pass_vars, wire, first_run,
                 pmux_connection, created, app_drops>>

-------------------------------------------------------------------------------
(* write_completion_handler.                                                *)

(* Mutant: a completion does not start the next write.                      *)
WriteOnDemand(c, w) == w

AfterWrite(c, w) == IF dropped[c] THEN w ELSE StartWriting(w)

WriteDone(c) ==
  LET idle == [out[c] EXCEPT !.busy = FALSE] IN
  /\ HandlerStarts
  /\ out[c].busy
  /\ wire' = [wire EXCEPT ![c] = @ \o out[c].in_progress]
  /\ out' = [out EXCEPT ![c] = AfterWrite(c, idle)]
  /\ IF dropped[c] /\ ~reading[c] THEN Close(c) ELSE UNCHANGED socket_open
  /\ UNCHANGED <<told_vars, pass_vars, sent, reading, first_run,
                 pmux_connection, created, app_drops>>

(* An error, or the cancellation of the write by a drop, after the socket   *)
(* has taken some of the buffers.  As in ReadFailed, the socket is not      *)
(* closed when the manager throws and the read is outstanding.              *)
WriteFailed(c) ==
  /\ HandlerStarts
  /\ out[c].busy
  /\ \E k \in 0 .. Len(out[c].in_progress) :
       wire' = [wire EXCEPT ![c] = @ \o SubSeq(out[c].in_progress, 1, k)]
  /\ out' = [out EXCEPT ![c].busy = FALSE]
  /\ IF StillActive(c)
     THEN /\ ReportError(c)
          /\ \E throws \in BOOLEAN : TearDown(c, throws, throws /\ reading[c])
     ELSE Close(c) /\ UNCHANGED told_vars
  /\ UNCHANGED <<pass_vars, sent, reading, first_run, pmux_connection,
                 created, app_drops>>

-------------------------------------------------------------------------------
(* PeriodicUpdaterImpl::periodic_update.  The iterator moves on before the  *)
(* receiver it pointed to is called.                                        *)

(* Mutant: the iterator moves two places.                                   *)
SkipOne(c) ==
  LET i == Position(c) IN
  IF i + 1 >= Len(receivers) THEN End ELSE receivers[i + 2]

Successor(c) ==
  LET i == Position(c) IN
  IF i = Len(receivers) THEN End ELSE receivers[i + 1]

PassStarts ==
  /\ HandlerStarts
  /\ next' = IF receivers = <<>> THEN End ELSE Head(receivers)
  /\ updated' = {}
  /\ UNCHANGED <<end_vars, write_vars, reading, wire, first_run,
                 pmux_connection, created, app_drops>>

(* PMuxImpl::periodic_update of the receiver c.                             *)
Update(c) ==
  /\ next = c
  /\ next' = Successor(c)
  /\ updated' = updated \union {c}
  /\ UNCHANGED <<reading, wire, pmux_connection, created, app_drops>>

FirstUpdate(c) ==
  /\ Update(c)
  /\ first_run[c]
  /\ first_run' = [first_run EXCEPT ![c] = FALSE]
  /\ Write(c, Heartbeat(c))
  /\ UNCHANGED end_vars

(* The exception of a receiver c ends the pass there.                       *)
PassAborted(c) ==
  /\ next = c
  /\ next' = Idle
  /\ UNCHANGED <<updated, reading, wire, pmux_connection, created, app_drops>>

HeartbeatTimeout(c) ==
  /\ ~first_run[c]
  /\ ReportError(c)
  /\ \E throws \in BOOLEAN :
       /\ TearDown(c, throws, FALSE)
       /\ IF throws THEN PassAborted(c) ELSE Update(c)
  /\ UNCHANGED <<write_vars, first_run>>

HeartbeatDue(c) ==
  /\ Update(c)
  /\ ~first_run[c]
  /\ MayWrite(c)
  /\ Write(c, Heartbeat(c))
  /\ UNCHANGED <<end_vars, first_run>>

NothingDue(c) ==
  /\ Update(c)
  /\ ~first_run[c]
  /\ UNCHANGED <<end_vars, write_vars, first_run>>

PassEnds ==
  /\ next = End
  /\ next' = Idle
  /\ UNCHANGED <<end_vars, write_vars, updated, reading, wire, first_run,
                 pmux_connection, created, app_drops>>

-------------------------------------------------------------------------------
UpdaterStep ==
  \/ PassStarts \/ PassEnds
  \/ \E c \in Connections :
       FirstUpdate(c) \/ HeartbeatTimeout(c) \/ HeartbeatDue(c) \/ NothingDue(c)

(* What completes once the socket is closed.                                *)
ReadCompletes(c) == ReadFailed(c) \/ ReadAfterDrop(c)
WriteCompletes(c) == WriteDone(c) \/ WriteFailed(c)

Next ==
  \/ UpdaterStep
  \/ \E c \in Connections :
       \/ Create(c)
       \/ \E has_payload \in BOOLEAN : SendMessage(c, has_payload)
       \/ DropFromApp(c) \/ DropFromCt(c)
       \/ ReadData(c) \/ ReadProtocolError(c)
       \/ ReadCompletes(c) \/ WriteCompletes(c)

Spec == Init /\ [][Next]_vars

(* A periodic update runs to its end, and what was outstanding on a socket  *)
(* completes once it is closed, but need not on one that was left open;     *)
(* strong fairness because no handler starts during a pass, and passes keep *)
(* coming.                                                                  *)
FairSpec ==
  /\ Spec
  /\ WF_vars(next # Idle /\ UpdaterStep)
  /\ \A c \in Connections :
       /\ SF_vars(~socket_open[c] /\ ReadCompletes(c))
       /\ SF_vars(~socket_open[c] /\ WriteCompletes(c))

-------------------------------------------------------------------------------
(* Properties.                                                              *)

Buffer == [part : {"header", "payload", "heartbeat"}, n : Nat]

TypeOK ==
  /\ dropped \in [Connections -> BOOLEAN]
  /\ socket_open \in [Connections -> BOOLEAN]
  /\ reading \in [Connections -> BOOLEAN]
  /\ out \in [Connections -> [busy : BOOLEAN, in_progress : Seq(Buffer),
                              queue : Seq(Buffer)]]
  /\ first_run \in [Connections -> BOOLEAN]
  /\ pmux_connection \in [Connections -> BOOLEAN]
  /\ created \subseteq Connections /\ managed \subseteq Connections
  /\ ct_map \subseteq Connections
  /\ receivers \in Seq(Connections)
  /\ next \in Connections \union {Idle, End}
  /\ sent \in [Connections -> Seq(Buffer)]
  /\ wire \in [Connections -> Seq(Buffer)]
  /\ errors \in [Connections -> 0 .. 1]
  /\ app_drops \in [Connections -> 0 .. 1]
  /\ disconnects \in [Connections -> 0 .. 1]
  /\ refused \subseteq Connections /\ updated \subseteq Connections
  /\ assertion_failed \in BOOLEAN

(* In use, a connection is known to the manager, the updater and m_ct_map,  *)
(* PMux has its socket object, and the socket is open.  Once dropped, the   *)
(* manager and the updater have let go of it, whichever of the paths came   *)
(* first and whatever handlers are still to run, so no ASSERT on a          *)
(* registration fails and m_receivers holds no pointer to what is gone.     *)
(* Two things are left behind exactly where the manager's exception cut the *)
(* path short: the entry in m_ct_map after a drop asked for by the          *)
(* application thread, and an open socket with the read or the write that   *)
(* did not fail still outstanding.  No path leaves both, or either alone    *)
(* without the exception.                                                   *)
TornDownTogether ==
  /\ ~assertion_failed
  /\ \A c \in created :
       /\ (c \in managed) = ~dropped[c]
       /\ Contains(receivers, c) = ~dropped[c]
       /\ (c \in ct_map) = (~dropped[c] \/ (c \in refused /\ app_drops[c] = 1))
       /\ ~dropped[c] => pmux_connection[c] /\ socket_open[c]
       /\ dropped[c] /\ socket_open[c] =>
            /\ c \in refused /\ app_drops[c] = 0
            /\ reading[c] # out[c].busy

(* Its end is told to the manager once, and to the application thread once  *)
(* unless that has asked for it.                                            *)
EndsOnce ==
  \A c \in created :
    /\ disconnects[c] = (IF dropped[c] THEN 1 ELSE 0)
    /\ errors[c] + app_drops[c] = disconnects[c]

(* The two write queues neither lose, repeat nor reorder a buffer, however  *)
(* completions and further messages interleave: what the socket took, what  *)
(* it is taking and what waits is what was accepted.  In particular no      *)
(* buffer comes between a message's header and its payload.                 *)
WrittenInOrder ==
  \A c \in Connections :
    /\ IsPrefix(wire[c], sent[c])
    /\ ~dropped[c] =>
         sent[c] = wire[c] \o (IF out[c].busy THEN out[c].in_progress ELSE <<>>)
                           \o out[c].queue

(* Buffers never wait with no write under way that will pick them up.       *)
NoStalledWrite ==
  \A c \in Connections :
    out[c].queue # <<>> /\ ~dropped[c] => out[c].busy

(* A pass of the periodic update that gets to its end (an exception of the  *)
(* manager's aborts it) has updated every receiver, although receivers      *)
(* leave the list during the pass, and its iterator always points into the  *)
(* list.                                                                    *)
PassVisitsEveryReceiver ==
  /\ next \in Connections => Contains(receivers, next)
  /\ next = End => \A c \in Connections : Contains(receivers, c) => c \in updated

(* Once a dropped connection's socket is closed, the outstanding read and   *)
(* write complete and nothing new is started, so the last reference to the  *)
(* connection goes.  (Where the manager's exception leaves the socket open, *)
(* that waits for the operation outstanding on it.)                         *)
Released ==
  \A c \in Connections :
    (dropped[c] /\ ~socket_open[c]) ~> [](~reading[c] /\ ~out[c].busy)
===============================================================================
