---------------------------- MODULE AsioTCPListener ----------------------------
(****************************************************************************)
(* The accept loop of AsioTCPListener and the connections its manager       *)
(* (TCPConnectionManagerImpl) keeps.  One thread, a handler at a time.      *)
(*                                                                          *)
(* What create() throws leaves handle_accept; the model goes on with the    *)
(* thread back in its event loop, as under an owner that catches and runs   *)
(* the loop again.  stop() does nothing.                                    *)
(****************************************************************************)
CONSTANT Connections    \* the connections the factory may make

VARIABLES
  started,      \* start() has been called
  accepting,    \* an async_accept is outstanding
  socket_open,  \* m_socket holds an accepted socket nobody has taken
  created,      \* the connections the factory has made
  m_connections,\* those the manager holds
  reported      \* "not listening any more" was logged since start()

vars == <<started, accepting, socket_open, created, m_connections, reported>>

Init ==
  /\ started = FALSE /\ accepting = FALSE /\ socket_open = FALSE /\ reported = FALSE
  /\ created = {} /\ m_connections = {}

-------------------------------------------------------------------------------
(* start().  Its caller calls it again only when the loop has ended: the    *)
(* code has no guard of its own.                                            *)
Start ==
  /\ ~accepting
  /\ started' = TRUE /\ accepting' = TRUE /\ reported' = FALSE
  /\ UNCHANGED <<socket_open, created, m_connections>>

(* handle_accept without an error: the factory takes the socket, the        *)
(* manager the connection, and the next accept starts.                      *)
Accepted(c) ==
  /\ accepting /\ ~socket_open
  /\ c \notin created
  /\ created' = created \union {c}
  /\ m_connections' = m_connections \union {c}
  /\ UNCHANGED <<started, accepting, socket_open, reported>>

(* The peer has gone: create() throws before it takes the socket.           *)
FactoryThrows ==
  /\ accepting /\ ~socket_open
  /\ accepting' = FALSE
  /\ socket_open' = TRUE
  /\ UNCHANGED <<started, created, m_connections, reported>>

(* handle_accept with an error, which an accept into an open socket always  *)
(* has.                                                                     *)
AcceptFailed ==
  /\ accepting
  /\ accepting' = FALSE
  /\ reported' = TRUE
  /\ UNCHANGED <<started, socket_open, created, m_connections>>

(* TCPConnectionManagerImpl::disconnected.                                  *)
Disconnected(c) ==
  /\ c \in m_connections
  /\ m_connections' = m_connections \ {c}
  /\ UNCHANGED <<started, accepting, socket_open, created, reported>>

Next ==
  \/ Start \/ FactoryThrows \/ AcceptFailed
  \/ \E c \in Connections : Accepted(c) \/ Disconnected(c)

Spec == Init /\ [][Next]_vars

-------------------------------------------------------------------------------
(* A listener that was started listens until it says that it does not.      *)
ListensUntilReported == started /\ ~accepting => reported
===============================================================================
