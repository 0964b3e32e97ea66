-------------------------- MODULE ConnectionSessions --------------------------
(****************************************************************************)
(* What InterThreadTransport promises to its two users, the communication   *)
(* thread (CT) and the application thread (AT), as its header states it:    *)
(* every connection opened on the CT gets one object on the AT, messages    *)
(* pass between the two in order, and the end of a connection on one side   *)
(* closes the other side after what was sent before it.                     *)
(*                                                                          *)
(* There are no queues, no locks and no wake-ups here; a connection is a    *)
(* pair of ends and four counters.  The n-th message of a direction is the  *)
(* number n, so "in order, without loss or duplication" is "the counter of  *)
(* deliveries moves by one and never passes the counter of sends".          *)
(****************************************************************************)
EXTENDS Naturals

CONSTANT Ids            \* the connection ids that may be given out

VARIABLES net,          \* the CT end: "none", "open", "error" or "drop"
          app,          \* the AT end: "none", "open", "error" or "drop"
          up_sent,      \* messages the CT handed over for the AT
          up_got,       \* messages the AT object received
          down_sent,    \* messages the AT object sent
          down_got      \* messages the CT transport received

vars == <<net, app, up_sent, up_got, down_sent, down_got>>

End == {"none", "open", "error", "drop"}

Init ==
  /\ net = [id \in Ids |-> "none"]
  /\ app = [id \in Ids |-> "none"]
  /\ up_sent = [id \in Ids |-> 0]
  /\ up_got = [id \in Ids |-> 0]
  /\ down_sent = [id \in Ids |-> 0]
  /\ down_got = [id \in Ids |-> 0]

(* The CT accepts or establishes a connection.                              *)
Open(id) ==
  /\ net[id] = "none"
  /\ net' = [net EXCEPT ![id] = "open"]
  /\ UNCHANGED <<app, up_sent, up_got, down_sent, down_got>>

(* The AT object of the connection is created.                              *)
Announce(id) ==
  /\ net[id] # "none"
  /\ app[id] = "none"
  /\ app' = [app EXCEPT ![id] = "open"]
  /\ UNCHANGED <<net, up_sent, up_got, down_sent, down_got>>

SendUp(id) ==
  /\ net[id] = "open"
  /\ up_sent' = [up_sent EXCEPT ![id] = @ + 1]
  /\ UNCHANGED <<net, app, up_got, down_sent, down_got>>

ReceiveUp(id) ==
  /\ app[id] = "open"
  /\ up_got[id] < up_sent[id]
  /\ up_got' = [up_got EXCEPT ![id] = @ + 1]
  /\ UNCHANGED <<net, app, up_sent, down_sent, down_got>>

(* The connection breaks on the network side.                               *)
Fail(id) ==
  /\ net[id] = "open"
  /\ net' = [net EXCEPT ![id] = "error"]
  /\ UNCHANGED <<app, up_sent, up_got, down_sent, down_got>>

(* The AT learns of it, after every message that came before.               *)
ReportError(id) ==
  /\ net[id] = "error"
  /\ app[id] = "open"
  /\ up_got[id] = up_sent[id]
  /\ app' = [app EXCEPT ![id] = "error"]
  /\ UNCHANGED <<net, up_sent, up_got, down_sent, down_got>>

SendDown(id) ==
  /\ app[id] = "open"
  /\ down_sent' = [down_sent EXCEPT ![id] = @ + 1]
  /\ UNCHANGED <<net, app, up_sent, up_got, down_got>>

ReceiveDown(id) ==
  /\ net[id] = "open"
  /\ down_got[id] < down_sent[id]
  /\ down_got' = [down_got EXCEPT ![id] = @ + 1]
  /\ UNCHANGED <<net, app, up_sent, up_got, down_sent>>

(* The application gives the connection up.                                 *)
Drop(id) ==
  /\ app[id] = "open"
  /\ app' = [app EXCEPT ![id] = "drop"]
  /\ UNCHANGED <<net, up_sent, up_got, down_sent, down_got>>

(* The CT closes it, after handing every message sent before to the         *)
(* transport.                                                               *)
CloseDropped(id) ==
  /\ app[id] = "drop"
  /\ net[id] = "open"
  /\ down_got[id] = down_sent[id]
  /\ net' = [net EXCEPT ![id] = "drop"]
  /\ UNCHANGED <<app, up_sent, up_got, down_sent, down_got>>

Next ==
  \E id \in Ids :
    \/ Open(id) \/ Announce(id)
    \/ SendUp(id) \/ ReceiveUp(id) \/ Fail(id) \/ ReportError(id)
    \/ SendDown(id) \/ ReceiveDown(id) \/ Drop(id) \/ CloseDropped(id)

Spec == Init /\ [][Next]_vars
===============================================================================
