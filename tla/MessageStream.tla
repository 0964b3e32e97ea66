----------------------------- MODULE MessageStream -----------------------------
(****************************************************************************)
(* What PMux promises about one direction of a connection: the messages of  *)
(* the peer, in order and each once, up to the first frame that is not of   *)
(* the protocol; heartbeats are taken in silence.  There are no bytes here. *)
(****************************************************************************)
EXTENDS Naturals, Sequences

CONSTANT Frames     \* records with a kind ("message", "heartbeat" or
                    \* "invalid"), a type and a payload

VARIABLES sent,       \* the frames of the peer
          taken,      \* how many of them the receiver is done with
          delivered,  \* the messages given to the upper layer
          closed      \* the receiver reported an error and dropped the
                      \* connection

vars == <<sent, taken, delivered, closed>>

Init == sent = <<>> /\ taken = 0 /\ delivered = <<>> /\ closed = FALSE

Put(frame) ==
  /\ sent' = Append(sent, frame)
  /\ UNCHANGED <<taken, delivered, closed>>

(* The receiver finishes the next frame.                                    *)
NextFrameIs(kind) ==
  /\ ~closed
  /\ taken < Len(sent)
  /\ sent[taken + 1].kind = kind
  /\ UNCHANGED sent

TakeMessage ==
  LET frame == sent[taken + 1] IN
  /\ NextFrameIs("message")
  /\ taken' = taken + 1
  /\ delivered' = Append(delivered,
                         [type |-> frame.type, payload |-> frame.payload])
  /\ UNCHANGED closed

TakeHeartbeat ==
  /\ NextFrameIs("heartbeat")
  /\ taken' = taken + 1
  /\ UNCHANGED <<delivered, closed>>

Refuse ==
  /\ NextFrameIs("invalid")
  /\ closed' = TRUE
  /\ UNCHANGED <<taken, delivered>>

Next == (\E frame \in Frames : Put(frame)) \/ TakeMessage \/ TakeHeartbeat \/ Refuse

Spec == Init /\ [][Next]_vars
===============================================================================
