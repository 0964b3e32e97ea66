--------------------- MODULE InterThreadTransportRefinement ---------------------
(****************************************************************************)
(* InterThreadTransport implements ConnectionSessions for every connection  *)
(* none of whose events an exception threw away, leaves no end of a         *)
(* connection half-open, and announces and delivers in order.               *)
(****************************************************************************)
EXTENDS InterThreadTransportInvariant

USE DEF Enqueue, NeedDispatch, TakeId, ErasedBy

-------------------------------------------------------------------------------
(* The two ends.                                                            *)

LEMMA UpInFlightOf ==
  ASSUME TypeOK, NEW e
  PROVE  InQueue(e, Up) <=> UpInFlight(e)
<1>1. at_batch \in Seq(CtAtEvent) /\ ct_at_queue \in Seq(CtAtEvent)
  BY DEF TypeOK
<1> QED BY <1>1, InFlight DEF Up, UpInFlight

LEMMA DownInFlightOf ==
  ASSUME TypeOK, NEW e
  PROVE  InQueue(e, Down) <=> DownInFlight(e)
<1>1. ct_batch \in Seq(AtCtEvent) /\ at_ct_queue \in Seq(AtCtEvent)
  BY DEF TypeOK
<1> QED BY <1>1, InFlight DEF Down, DownInFlight

LEMMA AtEnds == TypeOK /\ Inv => AtEndIsBacked
<1> SUFFICES ASSUME TypeOK, Inv, NEW id \in at_map \ lost, id \notin ct_map,
                    ~(at_call.op = "drop_connection" /\ at_call.id = id)
             PROVE  UpInFlight(GotErrorEvent(id)) \/ at_frame = [kind |-> "got_error", id |-> id]
  BY DEF AtEndIsBacked
<1>1. id \in Ids /\ at_end[id] = "none" /\ id <= last_connection_id
  BY TypesGiveBasics DEF Basics, Inv, AtSide
<1>2. ct_end[id] = "error"
  BY <1>1, TypesGiveBasics DEF Basics, Inv, CtSide
<1>3. ErrorComing(id)
  BY <1>1 DEF Inv, NothingMissing
<1> QED BY <1>1, <1>2, <1>3, UpInFlightOf DEF ErrorComing

LEMMA CtEnds == TypeOK /\ Inv /\ StaleUnfound => CtEndIsBacked
<1>6. ASSUME TypeOK, StaleUnfound, NEW e \in AtCtEvent, DownInFlight(e)
      PROVE  e.id \notin ct_stale
  BY <1>6, DownInFlightOf DEF StaleUnfound
<1> SUFFICES ASSUME TypeOK, Inv, NEW id \in ct_map \ lost, id \notin at_map,
                    ~(ct_call.op = "got_error" /\ ct_call.id = id)
             PROVE  \/ \E t \in ConnTypes : UpInFlight(NewConnectionEvent(id, t))
                    \/ DownInFlight(DropEvent(id))
  BY <1>6 DEF CtEndIsBacked
<1>1. id \in Ids /\ ct_end[id] = "none" /\ id <= last_connection_id
  BY TypesGiveBasics DEF Basics, Inv, CtSide
<1>2. at_end[id] \in {"none", "drop"}
  BY <1>1, TypesGiveBasics DEF Basics, Inv, AtSide
<1>3. Announced(id) /\ DropComing(id)
  BY <1>1 DEF Inv, NothingMissing
<1>4. CASE at_end[id] = "none"
  BY <1>1, <1>3, <1>4, UpInFlightOf DEF Announced
<1>5. CASE at_end[id] = "drop"
  BY <1>1, <1>3, <1>5, DownInFlightOf DEF DropComing
<1> QED BY <1>2, <1>4, <1>5

(* The AT never keeps an object of a connection the CT has closed without   *)
(* the error coming, its callback running or the object being dropped.      *)
THEOREM AtEndsBacked == Spec => []AtEndIsBacked
  BY AtEnds, InvHolds, TypeCorrect, PTL

(* The CT never keeps a transport without its AT object, or the             *)
(* announcement or the drop of it coming, or its own erasure under way, and *)
(* no event finds an entry that outlived its CT object.                     *)
THEOREM CtEndsBacked == Spec => []CtEndIsBacked
  BY CtEnds, InvHolds, TypeCorrect, PTL

(* A connection is announced once, first of its events, and never while the *)
(* AT has an object for it: the ASSERT on duplicate ids does not fire.      *)
THEOREM OneAnnouncement == Spec => []AnnouncedOnce
<1>1. TypeOK /\ Inv => AnnouncedOnce
  <2> SUFFICES ASSUME TypeOK, Inv, NEW i \in 1 .. Len(Up), NEW j \in 1 .. Len(Up),
                      Up[i].type = "NEW_CONNECTION", Up[i].id = Up[j].id
               PROVE  /\ i <= j
                      /\ Up[j].type = "NEW_CONNECTION" => i = j
                      /\ Up[i].id \notin at_map
    BY DEF AnnouncedOnce, Up
  <2>1. Up \in Seq(CtAtEvent) /\ Len(Up) \in Nat
    BY TypesGiveBasics, LenProperties DEF Basics
  <2>2. /\ j < i => MayPrecede(Up[j], Up[i])
        /\ i < j => MayPrecede(Up[i], Up[j])
    BY DEF Inv, UpInv, Sequenced
  <2>3. Up[i] \in CtAtEvent /\ InQueue(Up[i], Up)
    BY <2>1, ElementOfSeq DEF InQueue
  <2>4. Up[i].id \notin at_map
    BY <2>3 DEF Inv, UpInv, UpFits
  <2>5. i \in Nat /\ j \in Nat
    BY <2>1
  <2> QED BY <2>2, <2>4, <2>5 DEF MayPrecede
<1> QED BY <1>1, InvHolds, TypeCorrect, PTL

-------------------------------------------------------------------------------
(* The order of the deliveries.                                             *)

LEMMA UpDelivery ==
  ASSUME TypeOK, Inv, AtMessage
  PROVE  \E id \in at_map \intersect Ids, n \in Nat :
           /\ up_got' = [up_got EXCEPT ![id] = n]
           /\ up_got[id] < n /\ n <= up_sent[id] /\ at_end[id] = "none"
           /\ id \notin lost => n = up_got[id] + 1
<1> PICK e : e = Head(at_batch)
  OBVIOUS
<1>1. /\ AtEvent /\ e.type = "MESSAGE" /\ e.id \in at_map /\ at_batch' = Tail(at_batch)
      /\ up_got' = [up_got EXCEPT ![e.id] = e.n]
  BY DEF AtMessage
<1>2. e \in CtAtEvent /\ UpFits(e) /\ at_call = NoCall
  BY <1>1, AtEventFacts
<1>3. e.id \in Ids /\ e.n \in Nat /\ up_got[e.id] < e.n /\ e.n <= up_sent[e.id]
  <2>1. e.id \in Ids /\ e.n \in 1 .. MaxMessages
    BY <1>1, <1>2, CtAtEvents
  <2> QED BY <1>1, <1>2, <2>1, InterThreadTransportAssumption DEF UpFits
<1>4. at_end[e.id] = "none"
  BY <1>1, <1>2, <1>3 DEF Inv, AtSide, NoCall
<1>5. ASSUME e.id \notin lost PROVE e.n = up_got[e.id] + 1
  <2>1. NextLeaves(Up, Up', e)
    BY <1>1, UpLeaves DEF Inv, UpInv
  <2> PICK n : n = up_got[e.id] + 1
    OBVIOUS
  <2>2. n \in Nat /\ up_got[e.id] \in Nat /\ up_sent[e.id] \in Nat
    BY <1>3, TypesGiveBasics DEF Basics
  <2>3. InQueue(Message(e.id, n), Up)
    BY <1>3, <1>4, <1>5, <2>2 DEF Inv, NothingMissing, UpComplete
  <2>4. /\ Message(e.id, n).id = e.id /\ Message(e.id, n).n = n
        /\ Message(e.id, n).type = "MESSAGE"
    BY DEF Message
  <2>5. Message(e.id, n) # e => e.n < n
    BY <1>1, <2>1, <2>3, <2>4 DEF NextLeaves, MayPrecede
  <2>6. e.n = n \/ e.n < n
    BY <2>4, <2>5
  <2> QED BY <1>3, <2>2, <2>6
<1> QED BY <1>1, <1>3, <1>4, <1>5

LEMMA DownDelivery ==
  ASSUME TypeOK, Inv, StaleUnfound, CtMessage
  PROVE  \E id \in ct_map \intersect Ids, n \in Nat :
           /\ down_got' = [down_got EXCEPT ![id] = n]
           /\ down_got[id] < n /\ n <= down_sent[id] /\ ct_end[id] = "none"
           /\ id \notin lost => n = down_got[id] + 1
<1> PICK e : e = Head(ct_batch)
  OBVIOUS
<1>1. /\ CtEvent /\ e.type = "MESSAGE" /\ e.id \in ct_map /\ ct_batch' = Tail(ct_batch)
      /\ down_got' = [down_got EXCEPT ![e.id] = e.n]
  BY FoundInUse DEF CtMessage
<1>2. e \in AtCtEvent /\ DownFits(e) /\ ct_call = NoCall
  BY <1>1, CtEventFacts
<1>3. e.id \in Ids /\ e.n \in Nat /\ down_got[e.id] < e.n /\ e.n <= down_sent[e.id]
  <2>1. e.id \in Ids /\ e.n \in 1 .. MaxMessages
    BY <1>1, <1>2, AtCtEvents
  <2> QED BY <1>1, <1>2, <2>1, InterThreadTransportAssumption DEF DownFits
<1>4. ct_end[e.id] = "none"
  BY <1>1, <1>2, <1>3 DEF Inv, CtSide, NoCall
<1>5. ASSUME e.id \notin lost PROVE e.n = down_got[e.id] + 1
  <2>1. NextLeaves(Down, Down', e)
    BY <1>1, DownLeaves DEF Inv, DownInv
  <2> PICK n : n = down_got[e.id] + 1
    OBVIOUS
  <2>2. n \in Nat /\ down_got[e.id] \in Nat /\ down_sent[e.id] \in Nat
    BY <1>3, TypesGiveBasics DEF Basics
  <2>3. InQueue(Message(e.id, n), Down)
    BY <1>3, <1>4, <1>5, <2>2 DEF Inv, NothingMissing, DownComplete
  <2>4. /\ Message(e.id, n).id = e.id /\ Message(e.id, n).n = n
        /\ Message(e.id, n).type = "MESSAGE"
    BY DEF Message
  <2>5. Message(e.id, n) # e => e.n < n
    BY <1>1, <2>1, <2>3, <2>4 DEF NextLeaves, MayPrecede
  <2>6. e.n = n \/ e.n < n
    BY <2>4, <2>5
  <2> QED BY <1>3, <2>2, <2>6
<1> QED BY <1>1, <1>3, <1>4, <1>5

(* Only the two steps that hand over a message count a delivery.            *)
LEMMA OthersDeliverNothing ==
  ASSUME [Next]_vars
  PROVE  (AtMessage \/ up_got' = up_got) /\ (CtMessage \/ down_got' = down_got)
<1>1. CASE CtCalls
  BY <1>1 DEF CtCalls, NewConnection, SendToAppThread, GotError, down_vars
<1>2. CASE AtCalls
  BY <1>2 DEF AtCalls, AttachFactory, AttachAgain, SendToComThread, DropConnection, up_vars, down_vars
<1>3. CASE CtStep
  BY <1>3 DEF CtStep, CtReturn, WakeUpCom, CtSkip, CtMessage, CtDrop, CtDropThrows,
     CtAssertionFailure, CtEvent, up_vars, down_vars
<1>4. CASE AtStep
  BY <1>4 DEF AtStep, AtReturn, WakeUpApp, AtCallbackReturn, AtCreate, AtAssertionFailure,
     AtSkip, AtMessage, AtGotError, AtEvent, up_vars, down_vars
<1>5. CASE UNCHANGED vars
  BY <1>5 DEF vars, up_vars, down_vars
<1> QED BY <1>1, <1>2, <1>3, <1>4, <1>5 DEF Next

(* Whatever an exception loses, what arrives was sent, arrives in order,    *)
(* and arrives at an end that is not closed.                                *)
THEOREM DeliveriesInOrder == Spec => InOrderUntilClosed
<1> DEFINE
      InOrder ==
        \A id \in Ids :
          /\ up_got'[id] # up_got[id] =>
               up_got[id] < up_got'[id] /\ up_got'[id] <= up_sent[id] /\ at_end[id] = "none"
          /\ down_got'[id] # down_got[id] =>
               down_got[id] < down_got'[id] /\ down_got'[id] <= down_sent[id]
                 /\ ct_end[id] = "none"
<1>1. ASSUME TypeOK, Inv, StaleUnfound, [Next]_vars PROVE InOrder
  <2> SUFFICES ASSUME NEW id \in Ids
               PROVE  /\ up_got'[id] # up_got[id] =>
                           up_got[id] < up_got'[id] /\ up_got'[id] <= up_sent[id]
                             /\ at_end[id] = "none"
                      /\ down_got'[id] # down_got[id] =>
                           down_got[id] < down_got'[id] /\ down_got'[id] <= down_sent[id]
                             /\ ct_end[id] = "none"
    OBVIOUS
  <2>1. up_got \in [Ids -> Nat] /\ down_got \in [Ids -> Nat]
    BY <1>1, TypesGiveBasics DEF Basics
  <2>2. up_got'[id] # up_got[id] =>
          up_got[id] < up_got'[id] /\ up_got'[id] <= up_sent[id] /\ at_end[id] = "none"
    BY <1>1, <2>1, UpDelivery, OthersDeliverNothing
  <2>3. down_got'[id] # down_got[id] =>
          down_got[id] < down_got'[id] /\ down_got'[id] <= down_sent[id] /\ ct_end[id] = "none"
    BY <1>1, <2>1, DownDelivery, OthersDeliverNothing
  <2> QED BY <2>2, <2>3
<1>2. TypeOK /\ Inv /\ StaleUnfound /\ [Next]_vars => [InOrder]_vars
  BY <1>1
<1> QED BY <1>2, InvHolds, TypeCorrect, PTL DEF Spec, InOrderUntilClosed

-------------------------------------------------------------------------------
(* The refinement: what a step does to the two ends and the counters of one *)
(* connection is one step of its session, or none.                          *)

Ends(id) == <<CtEndOf(id), AtEndOf(id), up_sent[id], up_got[id], down_sent[id], down_got[id]>>

Kept(id) == Ends(id)' = Ends(id)

CtEndMoves(id, end) ==
  Ends(id)' = <<end, AtEndOf(id), up_sent[id], up_got[id], down_sent[id], down_got[id]>>
AtEndMoves(id, end) ==
  Ends(id)' = <<CtEndOf(id), end, up_sent[id], up_got[id], down_sent[id], down_got[id]>>

Moves(id) ==
  \/ CtEndOf(id) = "none" /\ CtEndMoves(id, "open")
  \/ CtEndOf(id) # "none" /\ AtEndOf(id) = "none" /\ AtEndMoves(id, "open")
  \/ CtEndOf(id) = "open" /\ CtEndMoves(id, "error")
  \/ /\ CtEndOf(id) = "error" /\ AtEndOf(id) = "open" /\ up_got[id] = up_sent[id]
     /\ AtEndMoves(id, "error")
  \/ AtEndOf(id) = "open" /\ AtEndMoves(id, "drop")
  \/ /\ AtEndOf(id) = "drop" /\ CtEndOf(id) = "open" /\ down_got[id] = down_sent[id]
     /\ CtEndMoves(id, "drop")
  \/ /\ CtEndOf(id) = "open"
     /\ Ends(id)' = <<CtEndOf(id), AtEndOf(id), up_sent[id] + 1, up_got[id],
                      down_sent[id], down_got[id]>>
  \/ /\ AtEndOf(id) = "open" /\ up_got[id] < up_sent[id]
     /\ Ends(id)' = <<CtEndOf(id), AtEndOf(id), up_sent[id], up_got[id] + 1,
                      down_sent[id], down_got[id]>>
  \/ /\ AtEndOf(id) = "open"
     /\ Ends(id)' = <<CtEndOf(id), AtEndOf(id), up_sent[id], up_got[id],
                      down_sent[id] + 1, down_got[id]>>
  \/ /\ CtEndOf(id) = "open" /\ down_got[id] < down_sent[id]
     /\ Ends(id)' = <<CtEndOf(id), AtEndOf(id), up_sent[id], up_got[id],
                      down_sent[id], down_got[id] + 1>>

LEMMA SessionMoves ==
  ASSUME NEW id, Moves(id)
  PROVE  Session(id)!Next
<1>1. CASE CtEndOf(id) = "none" /\ CtEndMoves(id, "open")
  <2>1. Session(id)!Open(id)
    BY <1>1 DEF CtEndMoves, Ends, Session!Open
  <2> QED BY <2>1 DEF Session!Next
<1>2. CASE CtEndOf(id) # "none" /\ AtEndOf(id) = "none" /\ AtEndMoves(id, "open")
  <2>1. Session(id)!Announce(id)
    BY <1>2 DEF AtEndMoves, Ends, Session!Announce
  <2> QED BY <2>1 DEF Session!Next
<1>3. CASE CtEndOf(id) = "open" /\ CtEndMoves(id, "error")
  <2>1. Session(id)!Fail(id)
    BY <1>3 DEF CtEndMoves, Ends, Session!Fail
  <2> QED BY <2>1 DEF Session!Next
<1>4. CASE /\ CtEndOf(id) = "error" /\ AtEndOf(id) = "open" /\ up_got[id] = up_sent[id]
           /\ AtEndMoves(id, "error")
  <2>1. Session(id)!ReportError(id)
    BY <1>4 DEF AtEndMoves, Ends, Session!ReportError
  <2> QED BY <2>1 DEF Session!Next
<1>5. CASE AtEndOf(id) = "open" /\ AtEndMoves(id, "drop")
  <2>1. Session(id)!Drop(id)
    BY <1>5 DEF AtEndMoves, Ends, Session!Drop
  <2> QED BY <2>1 DEF Session!Next
<1>6. CASE /\ AtEndOf(id) = "drop" /\ CtEndOf(id) = "open" /\ down_got[id] = down_sent[id]
           /\ CtEndMoves(id, "drop")
  <2>1. Session(id)!CloseDropped(id)
    BY <1>6 DEF CtEndMoves, Ends, Session!CloseDropped
  <2> QED BY <2>1 DEF Session!Next
<1>7. CASE /\ CtEndOf(id) = "open"
           /\ Ends(id)' = <<CtEndOf(id), AtEndOf(id), up_sent[id] + 1, up_got[id],
                            down_sent[id], down_got[id]>>
  <2>1. Session(id)!SendUp(id)
    BY <1>7 DEF Ends, Session!SendUp
  <2> QED BY <2>1 DEF Session!Next
<1>8. CASE /\ AtEndOf(id) = "open" /\ up_got[id] < up_sent[id]
           /\ Ends(id)' = <<CtEndOf(id), AtEndOf(id), up_sent[id], up_got[id] + 1,
                            down_sent[id], down_got[id]>>
  <2>1. Session(id)!ReceiveUp(id)
    BY <1>8 DEF Ends, Session!ReceiveUp
  <2> QED BY <2>1 DEF Session!Next
<1>9. CASE /\ AtEndOf(id) = "open"
           /\ Ends(id)' = <<CtEndOf(id), AtEndOf(id), up_sent[id], up_got[id],
                            down_sent[id] + 1, down_got[id]>>
  <2>1. Session(id)!SendDown(id)
    BY <1>9 DEF Ends, Session!SendDown
  <2> QED BY <2>1 DEF Session!Next
<1>10. CASE /\ CtEndOf(id) = "open" /\ down_got[id] < down_sent[id]
            /\ Ends(id)' = <<CtEndOf(id), AtEndOf(id), up_sent[id], up_got[id],
                             down_sent[id], down_got[id] + 1>>
  <2>1. Session(id)!ReceiveDown(id)
    BY <1>10 DEF Ends, Session!ReceiveDown
  <2> QED BY <2>1 DEF Session!Next
<1> QED
  BY <1>1, <1>2, <1>3, <1>4, <1>5, <1>6, <1>7, <1>8, <1>9, <1>10 DEF Moves

LEMMA SessionStutters ==
  ASSUME NEW id, Kept(id)
  PROVE  UNCHANGED Session(id)!vars
  BY DEF Kept, Ends, Session!vars

CtKept(i) == CtEndOf(i)' = CtEndOf(i) /\ up_sent'[i] = up_sent[i] /\ down_got'[i] = down_got[i]
AtKept(i) == AtEndOf(i)' = AtEndOf(i) /\ up_got'[i] = up_got[i] /\ down_sent'[i] = down_sent[i]

LEMMA BothKept == ASSUME NEW i, CtKept(i), AtKept(i) PROVE Kept(i)
  BY DEF CtKept, AtKept, Kept, Ends

(* A step of one thread leaves the other's end and counters alone.          *)
LEMMA CtSideKept ==
  ASSUME NEW i, ct_map' = ct_map, ct_end' = ct_end, up_sent' = up_sent, down_got' = down_got
  PROVE  CtKept(i)
  BY DEF CtKept, CtEndOf

LEMMA AtSideKept ==
  ASSUME NEW i, at_map' = at_map, at_end' = at_end, up_got' = up_got, down_sent' = down_sent
  PROVE  AtKept(i)
  BY DEF AtKept, AtEndOf

LEMMA MovesNewConnection ==
  ASSUME TypeOK, Inv, NEW t \in ConnTypes, NewConnection(t), NEW i \in Ids
  PROVE  Moves(i) \/ Kept(i)
<1> PICK id : id = last_connection_id + 1
  OBVIOUS
<1>1. /\ id \in Ids /\ ct_map' = ct_map \union {id}
      /\ ct_end' = ct_end /\ up_sent' = up_sent /\ down_got' = down_got /\ AtKept(i)
  BY AtSideKept DEF NewConnection, at_vars, down_vars
<1>2. id \notin ct_map /\ ct_end[id] = "none"
  BY <1>1, TypesGiveBasics DEF Basics, Inv, CtSide
<1>3. CASE i = id
  BY <1>1, <1>2, <1>3 DEF Moves, CtEndMoves, Ends, CtEndOf, AtKept
<1>4. CASE i # id
  BY <1>1, <1>4, BothKept DEF CtKept, CtEndOf
<1> QED BY <1>3, <1>4

LEMMA MovesSendToAppThread ==
  ASSUME TypeOK, Inv, NEW id \in ct_map, SendToAppThread(id), NEW i \in Ids
  PROVE  Moves(i) \/ Kept(i)
<1>1. /\ ct_map' = ct_map /\ up_sent' = [up_sent EXCEPT ![id] = @ + 1]
      /\ ct_end' = ct_end /\ down_got' = down_got /\ AtKept(i) /\ ct_call = NoCall
  BY AtSideKept DEF SendToAppThread, CtHandlerRuns, at_vars, down_vars
<1>2. id \in Ids /\ ct_end[id] = "none" /\ up_sent \in [Ids -> Nat]
  BY <1>1, TypesGiveBasics DEF Basics, Inv, CtSide, NoCall
<1>3. CASE i = id
  BY <1>1, <1>2, <1>3 DEF Moves, Ends, CtEndOf, AtKept
<1>4. CASE i # id
  BY <1>1, <1>2, <1>4, BothKept DEF CtKept, CtEndOf
<1> QED BY <1>3, <1>4

LEMMA MovesGotError ==
  ASSUME TypeOK, Inv, NEW id \in ct_map, GotError(id), NEW i \in Ids
  PROVE  Moves(i) \/ Kept(i)
<1>1. /\ ct_map' = ct_map /\ ct_end' = [ct_end EXCEPT ![id] = "error"]
      /\ up_sent' = up_sent /\ down_got' = down_got /\ AtKept(i) /\ ct_call = NoCall
  BY AtSideKept DEF GotError, CtHandlerRuns, at_vars, down_vars
<1>2. id \in Ids /\ ct_end[id] = "none" /\ ct_end \in [Ids -> {"none", "error", "drop"}]
  BY <1>1, TypesGiveBasics DEF Basics, Inv, CtSide, NoCall
<1>3. CASE i = id
  BY <1>1, <1>2, <1>3 DEF Moves, CtEndMoves, Ends, CtEndOf, AtKept
<1>4. CASE i # id
  BY <1>1, <1>2, <1>4, BothKept DEF CtKept, CtEndOf
<1> QED BY <1>3, <1>4

LEMMA MovesCtReturn ==
  ASSUME TypeOK, Inv, CtReturn, NEW i \in Ids
  PROVE  Kept(i)
<1>1. /\ ct_map' = ct_map \ ErasedBy(ct_call, "got_error")
      /\ ct_end' = ct_end /\ up_sent' = up_sent /\ down_got' = down_got /\ AtKept(i)
  BY AtSideKept DEF CtReturn, at_vars, down_vars
<1>2. i \in ct_map /\ i \notin ct_map' => ct_end[i] = "error"
  BY <1>1 DEF Inv, CtSide
<1> QED BY <1>1, <1>2, BothKept DEF CtKept, CtEndOf

LEMMA MovesCtMessage ==
  ASSUME TypeOK, Inv, StaleUnfound, CtMessage, NEW i \in Ids \ lost'
  PROVE  Moves(i) \/ Kept(i)
<1>1. ct_map' = ct_map /\ ct_end' = ct_end /\ lost' = lost
  BY DEF CtMessage
<1>2. CtEvent
  BY DEF CtMessage
<1>3. up_sent' = up_sent /\ AtKept(i)
  BY <1>2, CtEventFacts, AtSideKept
<1>4. PICK id \in ct_map \intersect Ids, n \in Nat :
        /\ down_got' = [down_got EXCEPT ![id] = n]
        /\ down_got[id] < n /\ n <= down_sent[id] /\ ct_end[id] = "none"
        /\ id \notin lost => n = down_got[id] + 1
  BY DownDelivery
<1>5. down_got \in [Ids -> Nat] /\ down_sent \in [Ids -> Nat]
  BY TypesGiveBasics DEF Basics
<1>6. CASE i = id
  <2>1. down_got'[i] = down_got[i] + 1 /\ down_got[i] < down_sent[i] /\ CtEndOf(i) = "open"
    BY <1>1, <1>4, <1>5, <1>6 DEF CtEndOf
  <2>2. CtEndOf(i)' = CtEndOf(i)
    BY <1>1 DEF CtEndOf
  <2> QED BY <1>3, <2>1, <2>2 DEF Moves, Ends, AtKept
<1>7. CASE i # id
  BY <1>1, <1>3, <1>4, <1>5, <1>7, BothKept DEF CtKept, CtEndOf
<1> QED BY <1>6, <1>7

LEMMA MovesCtDrop ==
  ASSUME TypeOK, Inv, StaleUnfound, CtDrop \/ CtDropThrows, NEW i \in Ids \ lost'
  PROVE  Moves(i) \/ Kept(i)
<1> PICK e : e = Head(ct_batch)
  OBVIOUS
<1>1. /\ CtEvent /\ e.id \in ct_map /\ e.type = "DROP_CONNECTION"
      /\ ct_map' = ct_map \ {e.id}
      /\ ct_end' = [ct_end EXCEPT ![e.id] = "drop"]
      /\ down_got' = down_got /\ lost \subseteq lost'
  BY FoundInUse DEF CtDrop, CtDropThrows
<1>2. e \in AtCtEvent /\ DownFits(e) /\ ct_call = NoCall /\ up_sent' = up_sent /\ AtKept(i)
  BY <1>1, CtEventFacts, AtSideKept
<1>3. /\ e.id \in Ids /\ ct_end[e.id] = "none" /\ at_end[e.id] = "drop"
      /\ ct_end \in [Ids -> {"none", "error", "drop"}]
  BY <1>1, <1>2, AtCtEvents, TypesGiveBasics DEF Basics, Inv, CtSide, DownFits, NoCall
<1>4. CASE i = e.id
  <2> PICK n : n = down_sent[i]
    OBVIOUS
  <2>1. n \in Nat /\ down_got[i] \in Nat /\ down_got[i] <= n
    BY TypesGiveBasics DEF Basics, Inv, DownInv
  <2>2. ~(down_got[i] < n)
    <3>1. SUFFICES ASSUME down_got[i] < n PROVE FALSE
      OBVIOUS
    <3>2. InQueue(Message(i, n), Down)
      BY <1>1, <1>3, <1>4, <2>1, <3>1 DEF Inv, NothingMissing, DownComplete
    <3>3. \A x : InQueue(x, Down) => x = e \/ MayPrecede(e, x)
      BY <1>1, NextOfDown DEF Inv, DownInv
    <3>4. Message(i, n).type = "MESSAGE" /\ Message(i, n).id = i
      BY DEF Message
    <3> QED BY <1>1, <1>4, <3>2, <3>3, <3>4 DEF MayPrecede, Final
  <2>3. down_got[i] = down_sent[i]
    BY <2>1, <2>2
  <2>4. CtEndOf(i) = "open" /\ AtEndOf(i) = "drop" /\ CtEndOf(i)' = "drop"
    BY <1>1, <1>3, <1>4 DEF CtEndOf, AtEndOf
  <2> QED BY <1>1, <1>2, <2>3, <2>4 DEF Moves, CtEndMoves, Ends, AtKept
<1>5. CASE i # e.id
  BY <1>1, <1>2, <1>3, <1>5, BothKept DEF CtKept, CtEndOf
<1> QED BY <1>4, <1>5

LEMMA MovesSendToComThread ==
  ASSUME TypeOK, Inv, NEW id \in at_map, SendToComThread(id), NEW i \in Ids
  PROVE  Moves(i) \/ Kept(i)
<1>1. /\ at_map' = at_map /\ down_sent' = [down_sent EXCEPT ![id] = @ + 1]
      /\ at_end' = at_end /\ up_got' = up_got /\ CtKept(i) /\ at_call = NoCall
  BY CtSideKept DEF SendToComThread, AppRuns, ct_vars, up_vars
<1>2. id \in Ids /\ at_end[id] = "none" /\ down_sent \in [Ids -> Nat]
  BY <1>1, TypesGiveBasics DEF Basics, Inv, AtSide, NoCall
<1>3. CASE i = id
  BY <1>1, <1>2, <1>3 DEF Moves, Ends, AtEndOf, CtKept
<1>4. CASE i # id
  BY <1>1, <1>2, <1>4, BothKept DEF AtKept, AtEndOf
<1> QED BY <1>3, <1>4

LEMMA MovesDropConnection ==
  ASSUME TypeOK, Inv, NEW id \in at_map, DropConnection(id), NEW i \in Ids
  PROVE  Moves(i) \/ Kept(i)
<1>1. /\ at_map' = at_map /\ at_end' = [at_end EXCEPT ![id] = "drop"]
      /\ up_got' = up_got /\ down_sent' = down_sent /\ CtKept(i) /\ at_call = NoCall
  BY CtSideKept DEF DropConnection, AppRuns, ct_vars, up_vars
<1>2. id \in Ids /\ at_end[id] = "none" /\ at_end \in [Ids -> {"none", "error", "drop"}]
  BY <1>1, TypesGiveBasics DEF Basics, Inv, AtSide, NoCall
<1>3. CASE i = id
  BY <1>1, <1>2, <1>3 DEF Moves, AtEndMoves, Ends, AtEndOf, CtKept
<1>4. CASE i # id
  BY <1>1, <1>2, <1>4, BothKept DEF AtKept, AtEndOf
<1> QED BY <1>3, <1>4

LEMMA MovesAtReturn ==
  ASSUME TypeOK, Inv, AtReturn, NEW i \in Ids
  PROVE  Kept(i)
<1>1. /\ at_map' = at_map \ ErasedBy(at_call, "drop_connection")
      /\ at_end' = at_end /\ up_got' = up_got /\ down_sent' = down_sent /\ CtKept(i)
  BY CtSideKept DEF AtReturn, ct_vars, up_vars
<1>2. i \in at_map /\ i \notin at_map' => at_end[i] = "drop"
  BY <1>1 DEF Inv, AtSide
<1> QED BY <1>1, <1>2, BothKept DEF AtKept, AtEndOf

LEMMA MovesAtCreate ==
  ASSUME TypeOK, Inv, AtCreate, NEW i \in Ids
  PROVE  Moves(i) \/ Kept(i)
<1> PICK e : e = Head(at_batch)
  OBVIOUS
<1>1. /\ AtEvent /\ e.type = "NEW_CONNECTION" /\ e.id \notin at_map
      /\ at_map' = at_map \union {e.id} /\ up_got' = up_got
  BY DEF AtCreate
<1>2. /\ e \in CtAtEvent /\ UpFits(e) /\ CtKept(i)
      /\ at_end' = at_end /\ down_sent' = down_sent
  BY <1>1, AtEventFacts, CtSideKept
<1>3. CASE i = e.id
  <2>1. i <= last_connection_id /\ at_end[i] = "none"
    BY <1>1, <1>2, <1>3 DEF UpFits
  <2>2. AtEndOf(i) = "none" /\ AtEndOf(i)' = "open"
    BY <1>1, <1>2, <1>3, <2>1 DEF AtEndOf
  <2>3. CtEndOf(i) # "none"
    BY <2>1 DEF Inv, CtSide, CtEndOf
  <2> QED BY <1>1, <1>2, <2>2, <2>3 DEF Moves, AtEndMoves, Ends, CtKept
<1>4. CASE i # e.id
  BY <1>1, <1>2, <1>4, BothKept DEF AtKept, AtEndOf
<1> QED BY <1>3, <1>4

LEMMA MovesAtMessage ==
  ASSUME TypeOK, Inv, AtMessage, NEW i \in Ids \ lost'
  PROVE  Moves(i) \/ Kept(i)
<1>1. at_map' = at_map /\ lost' = lost
  BY DEF AtMessage
<1>2. AtEvent
  BY DEF AtMessage
<1>3. at_end' = at_end /\ down_sent' = down_sent /\ CtKept(i)
  BY <1>2, AtEventFacts, CtSideKept
<1>4. PICK id \in at_map \intersect Ids, n \in Nat :
        /\ up_got' = [up_got EXCEPT ![id] = n]
        /\ up_got[id] < n /\ n <= up_sent[id] /\ at_end[id] = "none"
        /\ id \notin lost => n = up_got[id] + 1
  BY UpDelivery
<1>5. up_got \in [Ids -> Nat] /\ up_sent \in [Ids -> Nat]
  BY TypesGiveBasics DEF Basics
<1>6. CASE i = id
  <2>1. up_got'[i] = up_got[i] + 1 /\ up_got[i] < up_sent[i] /\ AtEndOf(i) = "open"
    BY <1>1, <1>4, <1>5, <1>6 DEF AtEndOf
  <2>2. AtEndOf(i)' = AtEndOf(i)
    BY <1>1, <1>3 DEF AtEndOf
  <2> QED BY <1>3, <2>1, <2>2 DEF Moves, Ends, CtKept
<1>7. CASE i # id
  BY <1>1, <1>3, <1>4, <1>5, <1>7, BothKept DEF AtKept, AtEndOf
<1> QED BY <1>6, <1>7

LEMMA MovesAtCallbackReturn ==
  ASSUME TypeOK, Inv, AtCallbackReturn, NEW i \in Ids \ lost'
  PROVE  Moves(i) \/ Kept(i)
<1> PICK id : id = at_frame.id
  OBVIOUS
<1>1. /\ up_got' = up_got /\ down_sent' = down_sent /\ lost' = lost /\ CtKept(i)
      /\ at_frame # NoFrame /\ at_call = NoCall
  BY CtSideKept DEF AtCallbackReturn, ct_vars, up_vars, down_vars
<1>2. CASE ~(at_frame.kind = "got_error" /\ id \in at_map)
  <2>1. at_map' = at_map /\ at_end' = at_end
    BY <1>2 DEF AtCallbackReturn
  <2> QED BY <1>1, <2>1, AtSideKept, BothKept
<1>3. CASE at_frame.kind = "got_error" /\ id \in at_map
  <2>1. at_map' = at_map \ {id} /\ at_end' = [at_end EXCEPT ![id] = "error"]
    BY <1>3 DEF AtCallbackReturn
  <2>2. /\ id \in Ids /\ at_end[id] = "none" /\ ct_end[id] = "error"
        /\ at_end \in [Ids -> {"none", "error", "drop"}]
        /\ at_frame = [kind |-> "got_error", id |-> id]
    BY <1>1, <1>3, TypesGiveBasics DEF Basics, Inv, AtSide, NoCall, Frame
  <2>3. CASE i = id
    <3>1. AtEndOf(i) = "open" /\ AtEndOf(i)' = "error" /\ CtEndOf(i) = "error"
      BY <1>3, <2>1, <2>2, <2>3 DEF AtEndOf, CtEndOf
    <3>2. up_got[i] = up_sent[i]
      BY <1>1, <2>2, <2>3 DEF Inv, NothingMissing, ErrorComing
    <3> QED BY <1>1, <3>1, <3>2 DEF Moves, AtEndMoves, Ends, CtKept
  <2>4. CASE i # id
    BY <1>1, <2>1, <2>2, <2>4, BothKept DEF AtKept, AtEndOf
  <2> QED BY <2>3, <2>4
<1> QED BY <1>2, <1>3

(* The remaining steps change neither an end nor a counter.                 *)
LEMMA OtherStepsKeep ==
  ASSUME TypeOK, Inv, NEW i \in Ids,
         \/ WakeUpCom \/ CtSkip \/ CtAssertionFailure
         \/ \E t \in ConnTypes : AttachFactory(t) \/ AttachAgain(t)
         \/ WakeUpApp \/ AtAssertionFailure \/ AtSkip \/ AtGotError
         \/ UNCHANGED vars
  PROVE  Kept(i)
<1>1. /\ ct_map' = ct_map /\ ct_end' = ct_end /\ up_sent' = up_sent /\ down_got' = down_got
      /\ at_map' = at_map /\ at_end' = at_end /\ up_got' = up_got /\ down_sent' = down_sent
  BY DEF WakeUpCom, CtSkip, CtAssertionFailure, CtEvent, AttachFactory, AttachAgain, WakeUpApp,
     AtAssertionFailure, AtSkip, AtGotError, AtEvent,
     vars, ct_vars, at_vars, up_vars, down_vars
<1> QED BY <1>1, CtSideKept, AtSideKept, BothKept

LEMMA SessionSteps ==
  ASSUME TypeOK, Inv, StaleUnfound, [Next]_vars, NEW i \in Ids \ lost'
  PROVE  Moves(i) \/ Kept(i)
<1>1. CASE CtCalls
  BY <1>1, MovesNewConnection, MovesSendToAppThread, MovesGotError DEF CtCalls
<1>2. CASE AtCalls
  BY <1>2, OtherStepsKeep, MovesSendToComThread, MovesDropConnection DEF AtCalls
<1>3. CASE CtStep
  BY <1>3, MovesCtReturn, MovesCtMessage, MovesCtDrop, OtherStepsKeep DEF CtStep
<1>4. CASE AtStep
  BY <1>4, MovesAtReturn, MovesAtCallbackReturn, MovesAtCreate, MovesAtMessage,
     OtherStepsKeep DEF AtStep
<1> QED BY <1>1, <1>2, <1>3, <1>4, OtherStepsKeep DEF Next

(* The queues, wake-ups and batches give every connection the session       *)
(* ConnectionSessions describes, until an exception throws away an event of *)
(* that very connection.                                                    *)
THEOREM Implementation == Spec => ImplementsSessions
<1>1. ASSUME Init PROVE \A id \in Ids : Session(id)!Init
  <2> SUFFICES ASSUME NEW id \in Ids PROVE Session(id)!Init
    OBVIOUS
  <2>1. /\ CtEndOf(id) = "none" /\ AtEndOf(id) = "none"
        /\ up_sent[id] = 0 /\ up_got[id] = 0 /\ down_sent[id] = 0 /\ down_got[id] = 0
    BY <1>1 DEF Init, CtEndOf, AtEndOf
  <2> QED BY <2>1 DEF Session!Init
<1>2. ASSUME TypeOK, Inv, StaleUnfound, [Next]_vars
      PROVE  [\A id \in Ids :
                id \in lost' \/ Session(id)!Next \/ UNCHANGED Session(id)!vars]_vars
  BY <1>2, SessionSteps, SessionMoves, SessionStutters
<1> QED BY <1>1, <1>2, InvHolds, TypeCorrect, PTL DEF Spec, ImplementsSessions
===============================================================================
