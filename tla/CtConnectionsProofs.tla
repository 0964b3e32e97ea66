-------------------------- MODULE CtConnectionsProofs --------------------------
(****************************************************************************)
(* Proofs about CtConnections for every number of connections and buffers.  *)
(****************************************************************************)
EXTENDS CtConnections, SequenceTheorems, TLAPS

-------------------------------------------------------------------------------
(* The list of receivers.                                                   *)

(* Erasing the k-th element moves up those behind it.                       *)
LEMMA Erased ==
  ASSUME NEW S, NEW s \in Seq(S), NEW k \in 1 .. Len(s)
  PROVE  /\ RemoveAt(s, k) \in Seq(S)
         /\ Len(RemoveAt(s, k)) = Len(s) - 1
         /\ \A i \in 1 .. Len(s) - 1 :
              RemoveAt(s, k)[i] = IF i < k THEN s[i] ELSE s[i + 1]
<1> DEFINE before == SubSeq(s, 1, k - 1)
           behind == SubSeq(s, k + 1, Len(s))
<1>1. Len(s) \in Nat /\ \A i \in 1 .. Len(s) : s[i] \in S
  BY LenProperties, ElementOfSeq
<1>2. /\ before \in Seq(S) /\ Len(before) = k - 1
      /\ \A i \in 1 .. k - 1 : before[i] = s[i]
  <2>1. \A i \in 1 .. k - 1 : s[i] \in S
    BY <1>1
  <2>2. /\ before \in Seq(S)
        /\ Len(before) = IF 1 <= k - 1 THEN (k - 1) - 1 + 1 ELSE 0
        /\ \A i \in 1 .. (k - 1) - 1 + 1 : before[i] = s[1 + i - 1]
    BY <2>1, SubSeqProperties, <1>1
  <2> QED BY <2>2, <1>1
<1>3. /\ behind \in Seq(S) /\ Len(behind) = Len(s) - k
      /\ \A i \in 1 .. Len(s) - k : behind[i] = s[k + i]
  <2>1. \A i \in k + 1 .. Len(s) : s[i] \in S
    BY <1>1
  <2>2. /\ behind \in Seq(S)
        /\ Len(behind) = IF k + 1 <= Len(s) THEN Len(s) - (k + 1) + 1 ELSE 0
        /\ \A i \in 1 .. Len(s) - (k + 1) + 1 : behind[i] = s[k + 1 + i - 1]
    BY <2>1, SubSeqProperties, <1>1
  <2> QED BY <2>2, <1>1
<1>4. /\ before \o behind \in Seq(S)
      /\ Len(before \o behind) = Len(before) + Len(behind)
      /\ \A i \in 1 .. Len(before) + Len(behind) :
           (before \o behind)[i] = IF i <= Len(before) THEN before[i]
                                   ELSE behind[i - Len(before)]
  BY <1>2, <1>3, ConcatProperties
<1>5. RemoveAt(s, k) = before \o behind
  BY DEF RemoveAt
<1> HIDE DEF before, behind
<1>6. Len(before \o behind) = Len(s) - 1
  BY <1>1, <1>2, <1>3, <1>4
<1>7. ASSUME NEW i \in 1 .. Len(s) - 1
      PROVE  (before \o behind)[i] = IF i < k THEN s[i] ELSE s[i + 1]
  <2>1. (before \o behind)[i] = IF i <= k - 1 THEN before[i] ELSE behind[i - (k - 1)]
    BY <1>1, <1>2, <1>3, <1>4
  <2>2. CASE i < k
    <3>1. i \in 1 .. k - 1
      BY <2>2, <1>1
    <3> QED BY <2>1, <2>2, <3>1, <1>2, <1>1
  <2>3. CASE i >= k
    <3>1. i - (k - 1) \in 1 .. Len(s) - k /\ k + (i - (k - 1)) = i + 1 /\ ~(i <= k - 1)
      BY <2>3, <1>1
    <3> QED BY <2>1, <2>3, <3>1, <1>3, <1>1
  <2>4. i < k \/ i >= k
    BY <1>1
  <2> QED BY <2>2, <2>3, <2>4
<1> QED
  BY <1>4, <1>5, <1>6, <1>7

NoRepeats ==
  \A i, j \in 1 .. Len(receivers) : receivers[i] = receivers[j] => i = j

(* Who is in the list has a position there.                                 *)
LEMMA PositionFound ==
  ASSUME NEW c, Contains(receivers, c)
  PROVE  Position(c) \in 1 .. Len(receivers) /\ receivers[Position(c)] = c
  BY DEF Contains, Position

(* Erasing c from a list without repetitions erases c and nobody else.      *)
LEMMA OnlyOneErased ==
  ASSUME receivers \in Seq(Connections), NoRepeats,
         NEW c, Contains(receivers, c),
         receivers' = RemoveAt(receivers, Position(c))
  PROVE  /\ receivers' \in Seq(Connections) /\ NoRepeats'
         /\ ~Contains(receivers', c)
         /\ \A d \in Connections \ {c} : Contains(receivers', d) <=> Contains(receivers, d)
<1> DEFINE k == Position(c)
<1>1. k \in 1 .. Len(receivers) /\ receivers[k] = c
  BY PositionFound
<1>2. Len(receivers) \in Nat
  BY LenProperties
<1>3. /\ receivers' \in Seq(Connections)
      /\ Len(receivers') = Len(receivers) - 1
      /\ \A i \in 1 .. Len(receivers) - 1 :
           receivers'[i] = IF i < k THEN receivers[i] ELSE receivers[i + 1]
  BY <1>1, Erased
<1> HIDE DEF k
<1>4. NoRepeats'
  <2> SUFFICES ASSUME NEW i \in 1 .. Len(receivers'), NEW j \in 1 .. Len(receivers'),
                      receivers'[i] = receivers'[j]
               PROVE  i = j
    BY Zenon DEF NoRepeats
  <2> DEFINE at(n) == IF n < k THEN n ELSE n + 1
  <2>1. i \in 1 .. Len(receivers) - 1 /\ j \in 1 .. Len(receivers) - 1
    BY <1>2, <1>3
  <2>2. receivers'[i] = receivers[at(i)] /\ receivers'[j] = receivers[at(j)]
    BY <2>1, <1>3
  <2>3. at(i) \in 1 .. Len(receivers) /\ at(j) \in 1 .. Len(receivers)
    BY <2>1, <1>1, <1>2
  <2>4. at(i) = at(j)
    <3> HIDE DEF at
    <3> QED BY <2>2, <2>3 DEF NoRepeats
  <2> QED BY <2>1, <2>4, <1>1, <1>2
<1>5. ~Contains(receivers', c)
  BY <1>1, <1>2, <1>3 DEF NoRepeats, Contains
<1>6. ASSUME NEW d \in Connections \ {c}
      PROVE  Contains(receivers', d) <=> Contains(receivers, d)
  <2>1. ASSUME NEW i \in 1 .. Len(receivers'), receivers'[i] = d
        PROVE  Contains(receivers, d)
    BY <2>1, <1>1, <1>2, <1>3 DEF Contains
  <2>2. ASSUME NEW i \in 1 .. Len(receivers), receivers[i] = d
        PROVE  Contains(receivers', d)
    <3>1. CASE i < k
      <4>1. i \in 1 .. Len(receivers') /\ receivers'[i] = d
        BY <3>1, <2>2, <1>1, <1>2, <1>3
      <4> QED BY <4>1 DEF Contains
    <3>2. CASE i > k
      <4>1. i - 1 \in 1 .. Len(receivers') /\ receivers'[i - 1] = d
        BY <3>2, <2>2, <1>1, <1>2, <1>3
      <4> QED BY <4>1 DEF Contains
    <3>3. i # k
      BY <2>2, <1>1, <1>6
    <3> QED BY <3>1, <3>2, <3>3, <1>1
  <2> QED BY <2>1, <2>2 DEF Contains
<1> QED BY <1>3, <1>4, <1>5, <1>6

(* A connection the factory makes goes to the end of the list.              *)
LEMMA OneAppended ==
  ASSUME receivers \in Seq(Connections), NoRepeats,
         NEW c \in Connections, ~Contains(receivers, c),
         receivers' = Append(receivers, c)
  PROVE  /\ receivers' \in Seq(Connections) /\ NoRepeats'
         /\ Contains(receivers', c)
         /\ \A d \in Connections \ {c} : Contains(receivers', d) <=> Contains(receivers, d)
<1>1. /\ receivers' \in Seq(Connections)
      /\ Len(receivers') = Len(receivers) + 1
      /\ \A i \in 1 .. Len(receivers) : receivers'[i] = receivers[i]
      /\ receivers'[Len(receivers) + 1] = c
  BY AppendProperties
<1>2. Len(receivers) \in Nat
  BY LenProperties
<1> QED
  BY <1>1, <1>2 DEF NoRepeats, Contains

-------------------------------------------------------------------------------
(* The ends of connections.                                                 *)

EndTypes ==
  /\ dropped \in [Connections -> BOOLEAN]
  /\ pmux_connection \in [Connections -> BOOLEAN]
  /\ created \subseteq Connections /\ managed \subseteq Connections
  /\ ct_map \subseteq Connections
  /\ receivers \in Seq(Connections)
  /\ errors \in [Connections -> Nat] /\ app_drops \in [Connections -> Nat]
  /\ disconnects \in [Connections -> Nat]
  /\ refused \subseteq Connections
  /\ assertion_failed = FALSE

(* Of a connection that was not made yet, that is in use, that has ended.   *)
Unborn(c) ==
  /\ dropped[c] = FALSE
  /\ c \notin managed /\ c \notin ct_map /\ ~Contains(receivers, c)
  /\ errors[c] = 0 /\ app_drops[c] = 0 /\ disconnects[c] = 0
  /\ c \notin refused

InUse(c) ==
  /\ dropped[c] = FALSE /\ pmux_connection[c] = TRUE
  /\ c \in managed /\ c \in ct_map /\ Contains(receivers, c)
  /\ errors[c] = 0 /\ app_drops[c] = 0 /\ disconnects[c] = 0
  /\ c \notin refused

(* m_ct_map keeps the entry only of a drop whose handler was cut short.     *)
Gone(c) ==
  /\ dropped[c] = TRUE
  /\ c \notin managed /\ ~Contains(receivers, c)
  /\ errors[c] + app_drops[c] = 1 /\ disconnects[c] = 1
  /\ (c \in ct_map) <=> (c \in refused /\ app_drops[c] = 1)

Whole ==
  /\ EndTypes /\ NoRepeats
  /\ \A c \in Connections : IF c \in created THEN InUse(c) \/ Gone(c) ELSE Unborn(c)

(* A receiver is updated while it is registered.                            *)
NextRegistered == next \in Connections => Contains(receivers, next)

(* What every path to the end of a connection comes to.                     *)
Ends(c) ==
  /\ c \in created /\ InUse(c)
  /\ receivers' = RemoveAt(receivers, Position(c))
  /\ dropped' = [dropped EXCEPT ![c] = TRUE]
  /\ disconnects' = [disconnects EXCEPT ![c] = @ + 1]
  /\ managed' = managed \ {c}
  /\ \E throws \in BOOLEAN :
       /\ refused' = IF throws THEN refused \union {c} ELSE refused
       /\ \/ /\ errors' = [errors EXCEPT ![c] = @ + 1] /\ UNCHANGED app_drops
             /\ ct_map' = ct_map \ {c}
          \/ /\ app_drops' = [app_drops EXCEPT ![c] = @ + 1] /\ UNCHANGED errors
             /\ ct_map' = IF throws THEN ct_map ELSE ct_map \ {c}
  /\ \/ UNCHANGED pmux_connection
     \/ \E b \in BOOLEAN : pmux_connection' = [pmux_connection EXCEPT ![c] = b]
  /\ UNCHANGED <<created, assertion_failed>>

EndsUntouched == UNCHANGED <<told_vars, pmux_connection, created, app_drops>>

(* Reporting an error and tearing down a connection in use ends it.         *)
LEMMA ErrorEnds ==
  ASSUME NEW c \in Connections, c \in created, InUse(c), ReportError(c),
         \E throws \in BOOLEAN, left_open \in BOOLEAN :
           TearDown(c, throws, left_open),
         UNCHANGED <<created, app_drops>>,
         \/ UNCHANGED pmux_connection
         \/ \E b \in BOOLEAN : pmux_connection' = [pmux_connection EXCEPT ![c] = b]
  PROVE  Ends(c)
<1> PICK throws \in BOOLEAN, left_open \in BOOLEAN : TearDown(c, throws, left_open)
  OBVIOUS
<1>1. Contains(receivers, c)
  BY DEF InUse
<1>2. /\ receivers' = RemoveAt(receivers, Position(c))
      /\ dropped' = [dropped EXCEPT ![c] = TRUE]
      /\ disconnects' = [disconnects EXCEPT ![c] = @ + 1]
      /\ managed' = managed \ {c}
      /\ refused' = IF throws THEN refused \union {c} ELSE refused
      /\ assertion_failed' = assertion_failed
  BY <1>1 DEF TearDown
<1>3. errors' = [errors EXCEPT ![c] = @ + 1] /\ ct_map' = ct_map \ {c}
  BY DEF ReportError
<1> QED
  BY <1>2, <1>3 DEF Ends

(* A connection that one of its collections holds, or that was made and is  *)
(* not dropped, is in use; what a drop left behind in m_ct_map is not found.*)
LEMMA HeldIsInUse ==
  ASSUME Whole, NEW c \in Connections,
         \/ MayFind(c) \/ c \in managed \/ Contains(receivers, c)
         \/ c \in created /\ ~dropped[c]
  PROVE  c \in created /\ InUse(c)
<1>1. IF c \in created THEN InUse(c) \/ Gone(c) ELSE Unborn(c)
  BY DEF Whole
<1> QED
  BY <1>1 DEF Gone, Unborn, MayFind

(* Operations are outstanding on connections that were made only.           *)
Idles ==
  \A c \in Connections \ created :
    reading[c] = FALSE /\ out[c].busy = FALSE /\ out[c].queue = <<>>

(* A read that ends ends its connection, if that is still in use.           *)
LEMMA OwnEnd ==
  ASSUME Whole, Idles, NEW c \in Connections,
         ReadProtocolError(c) \/ ReadFailed(c) \/ ReadAfterDrop(c)
  PROVE  EndsUntouched \/ Ends(c)
<1>1. c \in created
  BY DEF ReadProtocolError, ReadFailed, ReadAfterDrop, Idles
<1>2. CASE ReadProtocolError(c)
  <2>1. InUse(c)
    BY <1>1, <1>2, HeldIsInUse DEF ReadProtocolError
  <2> QED
    BY <1>1, <1>2, <2>1, ErrorEnds DEF ReadProtocolError
<1>3. CASE ReadFailed(c) /\ StillActive(c)
  <2>1. InUse(c)
    BY <1>1, <1>3, HeldIsInUse DEF StillActive
  <2> QED
    BY <1>1, <1>3, <2>1, ErrorEnds DEF ReadFailed
<1>4. CASE ReadFailed(c) /\ ~StillActive(c)
  BY <1>4 DEF ReadFailed, EndsUntouched
<1>5. CASE ReadAfterDrop(c)
  BY <1>5 DEF ReadAfterDrop, EndsUntouched
<1> QED BY <1>2, <1>3, <1>4, <1>5

(* A failed write ends its connection, unless that was dropped before.      *)
LEMMA FailedWriteEnds ==
  ASSUME Whole, Idles, NEW c \in Connections, WriteFailed(c)
  PROVE  (EndsUntouched /\ dropped[c]) \/ Ends(c)
<1>1. c \in created
  BY DEF WriteFailed, Idles
<1>2. CASE StillActive(c)
  <2>1. InUse(c)
    BY <1>1, <1>2, HeldIsInUse DEF StillActive
  <2> QED
    BY <1>1, <1>2, <2>1, ErrorEnds DEF WriteFailed
<1>3. CASE ~StillActive(c)
  BY <1>3 DEF WriteFailed, EndsUntouched, StillActive
<1> QED BY <1>2, <1>3

(* Every step makes a connection, ends one in use, or leaves the ends of    *)
(* all connections alone.                                                   *)
LEMMA StepsOnEnds ==
  ASSUME Whole, Idles, NextRegistered, [Next]_vars
  PROVE  \/ EndsUntouched
         \/ \E c \in Connections : Create(c) \/ Ends(c)
<1>1. CASE UNCHANGED vars
  BY <1>1 DEF vars, end_vars, told_vars, EndsUntouched
<1>2. CASE PassStarts \/ PassEnds
  BY <1>2 DEF PassStarts, PassEnds, EndsUntouched, end_vars
<1>3. ASSUME NEW c \in Connections,
             FirstUpdate(c) \/ HeartbeatDue(c) \/ NothingDue(c)
      PROVE  EndsUntouched
  BY <1>3
  DEF FirstUpdate, HeartbeatDue, NothingDue, Update, EndsUntouched, end_vars
<1>4. ASSUME NEW c \in Connections, HeartbeatTimeout(c)
      PROVE  Ends(c)
  <2>1. next = c
    BY <1>4 DEF HeartbeatTimeout, Update, PassAborted
  <2>2. c \in created /\ InUse(c)
    BY <2>1, HeldIsInUse DEF NextRegistered
  <2> QED
    BY <1>4, <2>2, ErrorEnds DEF HeartbeatTimeout, Update, PassAborted
<1>5. ASSUME NEW c \in Connections, NEW has_payload \in BOOLEAN,
             SendMessage(c, has_payload)
      PROVE  EndsUntouched
  BY <1>5 DEF SendMessage, EndsUntouched, end_vars
<1>6. ASSUME NEW c \in Connections, DropFromApp(c)
      PROVE  Ends(c)
  <2>1. c \in created /\ InUse(c) /\ Contains(receivers, c)
    BY <1>6, HeldIsInUse DEF DropFromApp, InUse
  <2> PICK throws \in BOOLEAN :
        /\ TearDown(c, throws, FALSE)
        /\ ct_map' = IF throws \/ ~Contains(receivers, c) THEN ct_map
                                                         ELSE ct_map \ {c}
    BY <1>6 DEF DropFromApp
  <2>2. /\ receivers' = RemoveAt(receivers, Position(c))
        /\ dropped' = [dropped EXCEPT ![c] = TRUE]
        /\ disconnects' = [disconnects EXCEPT ![c] = @ + 1]
        /\ managed' = managed \ {c}
        /\ refused' = IF throws THEN refused \union {c} ELSE refused
        /\ assertion_failed' = assertion_failed
    BY <2>1 DEF TearDown
  <2>3. /\ app_drops' = [app_drops EXCEPT ![c] = @ + 1]
        /\ UNCHANGED <<errors, pmux_connection, created>>
        /\ ct_map' = IF throws THEN ct_map ELSE ct_map \ {c}
    BY <1>6, <2>1 DEF DropFromApp
  <2> QED
    BY <2>1, <2>2, <2>3 DEF Ends
<1>7. ASSUME NEW c \in Connections, DropFromCt(c)
      PROVE  Ends(c)
  <2>1. c \in created /\ InUse(c)
    BY <1>7, HeldIsInUse DEF DropFromCt
  <2> QED
    BY <1>7, <2>1, ErrorEnds DEF DropFromCt
<1>8. ASSUME NEW c \in Connections, ReadData(c) \/ ReadAfterDrop(c) \/ WriteDone(c)
      PROVE  EndsUntouched
  BY <1>8 DEF ReadData, ReadAfterDrop, WriteDone, EndsUntouched, vars, end_vars, told_vars
<1>9. ASSUME NEW c \in Connections, ReadProtocolError(c) \/ ReadFailed(c)
      PROVE  EndsUntouched \/ Ends(c)
  BY <1>9, OwnEnd
<1>10. ASSUME NEW c \in Connections, WriteFailed(c)
       PROVE  EndsUntouched \/ Ends(c)
  BY <1>10, FailedWriteEnds
<1> QED
  BY <1>1, <1>2, <1>3, <1>4, <1>5, <1>6, <1>7, <1>8, <1>9, <1>10
  DEF Next, UpdaterStep, ReadCompletes, WriteCompletes

LEMMA WholeInit == Init => Whole /\ Idles
  BY CtConnectionsAssumption
  DEF Init, Whole, EndTypes, NoRepeats, Unborn, Contains, Idles

LEMMA WholeUntouched == Whole /\ EndsUntouched => Whole'
  BY DEF Whole, EndTypes, EndsUntouched, told_vars, NoRepeats, InUse, Gone,
         Unborn, Contains

LEMMA WholeCreate ==
  ASSUME Whole, NEW c \in Connections, Create(c)
  PROVE  Whole'
<1>1. c \notin created /\ Unborn(c)
  BY DEF Create, Whole
<1>2. /\ receivers' \in Seq(Connections) /\ NoRepeats'
      /\ Contains(receivers', c)
      /\ \A d \in Connections \ {c} : Contains(receivers', d) <=> Contains(receivers, d)
  BY <1>1, OneAppended DEF Create, Unborn, Whole, EndTypes
<1>3. EndTypes'
  BY <1>2 DEF Whole, EndTypes, Create
<1>4. c \in created' /\ InUse(c)'
  BY <1>1, <1>2 DEF Create, InUse, Unborn, Whole, EndTypes
<1>5. ASSUME NEW d \in Connections, d # c
      PROVE  IF d \in created' THEN InUse(d)' \/ Gone(d)' ELSE Unborn(d)'
  <2>1. IF d \in created THEN InUse(d) \/ Gone(d) ELSE Unborn(d)
    BY DEF Whole
  <2>2. /\ d \in created' <=> d \in created
        /\ d \in managed' <=> d \in managed
        /\ d \in ct_map' <=> d \in ct_map
        /\ Contains(receivers', d) <=> Contains(receivers, d)
        /\ pmux_connection'[d] = pmux_connection[d]
        /\ UNCHANGED <<dropped, errors, app_drops, disconnects, refused>>
    BY <1>2, <1>5 DEF Create, Whole, EndTypes
  <2> QED BY <2>1, <2>2 DEF InUse, Gone, Unborn
<1> QED
  BY <1>2, <1>3, <1>4, <1>5 DEF Whole

LEMMA WholeEnds ==
  ASSUME Whole, NEW c \in Connections, Ends(c)
  PROVE  Whole'
<1>1. c \in created /\ InUse(c) /\ Contains(receivers, c)
  BY DEF Ends, InUse
<1>2. /\ receivers' \in Seq(Connections) /\ NoRepeats'
      /\ ~Contains(receivers', c)
      /\ \A d \in Connections \ {c} : Contains(receivers', d) <=> Contains(receivers, d)
  BY <1>1, OnlyOneErased DEF Ends, Whole, EndTypes
<1> PICK throws \in BOOLEAN :
      /\ refused' = IF throws THEN refused \union {c} ELSE refused
      /\ \/ /\ errors' = [errors EXCEPT ![c] = @ + 1] /\ UNCHANGED app_drops
            /\ ct_map' = ct_map \ {c}
         \/ /\ app_drops' = [app_drops EXCEPT ![c] = @ + 1] /\ UNCHANGED errors
            /\ ct_map' = IF throws THEN ct_map ELSE ct_map \ {c}
  BY DEF Ends
<1>3. EndTypes'
  <2> USE DEF Whole, EndTypes, Ends
  <2>1. /\ errors[c] + 1 \in Nat /\ app_drops[c] + 1 \in Nat
        /\ disconnects[c] + 1 \in Nat
    OBVIOUS
  <2>2. errors' \in [Connections -> Nat] /\ app_drops' \in [Connections -> Nat]
    <3>1. CASE errors' = [errors EXCEPT ![c] = @ + 1] /\ UNCHANGED app_drops
      BY <2>1, <3>1
    <3>2. CASE app_drops' = [app_drops EXCEPT ![c] = @ + 1] /\ UNCHANGED errors
      BY <2>1, <3>2
    <3> QED BY <3>1, <3>2
  <2>3. disconnects' \in [Connections -> Nat] /\ dropped' \in [Connections -> BOOLEAN]
    BY <2>1
  <2>4. pmux_connection' \in [Connections -> BOOLEAN]
    OBVIOUS
  <2>5. refused' \subseteq Connections /\ ct_map' \subseteq Connections
    OBVIOUS
  <2>6. created' = created /\ managed' \subseteq Connections /\ assertion_failed' = FALSE
    OBVIOUS
  <2>7. created' \subseteq Connections
    BY <2>6
  <2> HIDE DEF Ends, Whole
  <2> QED BY <1>2, <2>2, <2>3, <2>4, <2>5, <2>6, <2>7 DEF EndTypes
<1>4. c \in created' /\ Gone(c)'
  <2>1. /\ c \in created' /\ dropped'[c] = TRUE /\ c \notin managed'
        /\ disconnects'[c] = 1
    BY <1>1 DEF Ends, InUse, Whole, EndTypes
  <2>2. errors[c] = 0 /\ app_drops[c] = 0 /\ c \in ct_map /\ c \notin refused
    BY <1>1 DEF InUse
  <2>3. CASE errors' = [errors EXCEPT ![c] = @ + 1] /\ UNCHANGED app_drops
             /\ ct_map' = ct_map \ {c}
    <3>1. errors'[c] = 1 /\ app_drops'[c] = 0 /\ c \notin ct_map'
      BY <2>2, <2>3 DEF Whole, EndTypes
    <3> QED BY <2>1, <3>1, <1>2 DEF Gone
  <2>4. CASE app_drops' = [app_drops EXCEPT ![c] = @ + 1] /\ UNCHANGED errors
             /\ ct_map' = IF throws THEN ct_map ELSE ct_map \ {c}
    <3>1. errors'[c] = 0 /\ app_drops'[c] = 1
      BY <2>2, <2>4 DEF Whole, EndTypes
    <3>2. (c \in ct_map') <=> (c \in refused')
      BY <2>2, <2>4
    <3> QED BY <2>1, <3>1, <3>2, <1>2 DEF Gone
  <2> QED BY <2>3, <2>4
<1>5. ASSUME NEW d \in Connections, d # c
      PROVE  IF d \in created' THEN InUse(d)' \/ Gone(d)' ELSE Unborn(d)'
  <2>1. IF d \in created THEN InUse(d) \/ Gone(d) ELSE Unborn(d)
    BY DEF Whole
  <2>2. /\ d \in created' <=> d \in created
        /\ d \in managed' <=> d \in managed
        /\ d \in ct_map' <=> d \in ct_map
        /\ d \in refused' <=> d \in refused
        /\ Contains(receivers', d) <=> Contains(receivers, d)
        /\ pmux_connection'[d] = pmux_connection[d]
        /\ dropped'[d] = dropped[d] /\ errors'[d] = errors[d]
        /\ app_drops'[d] = app_drops[d] /\ disconnects'[d] = disconnects[d]
    BY <1>2, <1>5 DEF Ends, Whole, EndTypes
  <2> QED BY <2>1, <2>2 DEF InUse, Gone, Unborn
<1> QED
  BY <1>2, <1>3, <1>4, <1>5 DEF Whole

LEMMA WholeStep == Whole /\ Idles /\ NextRegistered /\ [Next]_vars => Whole'
  BY StepsOnEnds, WholeUntouched, WholeCreate, WholeEnds

-------------------------------------------------------------------------------
(* The walk of the periodic update.                                         *)

(* Those before the iterator have been updated.                             *)
Visited(k) ==
  \A i \in 1 .. Len(receivers) : i < k => receivers[i] \in updated

AllVisited == \A i \in 1 .. Len(receivers) : receivers[i] \in updated

Walk ==
  /\ updated \subseteq Connections
  /\ next \in Connections \union {Idle, End}
  /\ next \in Connections =>
       \E k \in 1 .. Len(receivers) : receivers[k] = next /\ Visited(k)
  /\ next = End => AllVisited

LEMMA WalkRegisters == Walk => NextRegistered
  BY DEF Walk, NextRegistered, Contains

(* One step of the walk, whether or not the receiver leaves the list.       *)
LEMMA WalkUpdate ==
  ASSUME Whole, Walk, NEW c \in Connections, Update(c),
         receivers' \in {receivers, RemoveAt(receivers, Position(c))}
  PROVE  Walk'
<1>0. Contains(receivers, c)
  BY WalkRegisters DEF NextRegistered, Update
<1> PICK k \in 1 .. Len(receivers) : k = Position(c) /\ receivers[k] = c
  BY <1>0, PositionFound
<1>1. k \in 1 .. Len(receivers) /\ receivers[k] = c 
  OBVIOUS
<1>2. Len(receivers) \in Nat /\ receivers \in Seq(Connections)
  BY LenProperties DEF Whole, EndTypes
<1>3. Visited(k)
  BY <1>1 DEF Walk, Update, Whole, NoRepeats
<1>4. /\ updated' = updated \union {c} /\ updated' \subseteq Connections
      /\ next' = IF k = Len(receivers) THEN End ELSE receivers[k + 1]
  BY DEF Update, Successor, Walk
<1>5. ASSUME k < Len(receivers) PROVE next' = receivers[k + 1] /\ next' \in Connections
  BY <1>1, <1>2, <1>4, <1>5, ElementOfSeq
<1>6. ASSUME k = Len(receivers) PROVE next' = End
  BY <1>4, <1>6
<1>7. End \notin Connections /\ Idle \notin Connections /\ Idle # End
  BY CtConnectionsAssumption
<1>8. CASE receivers' = receivers
  <2>1. CASE k < Len(receivers)
    <3>1. receivers'[k + 1] = next' /\ k + 1 \in 1 .. Len(receivers')
      BY <2>1, <1>1, <1>2, <1>5, <1>8
    <3>2. Visited(k + 1)'
      BY <2>1, <1>1, <1>2, <1>3, <1>4, <1>8 DEF Visited, AllVisited
    <3> QED
      BY <2>1, <3>1, <3>2, <1>4, <1>5, <1>7 DEF Walk
  <2>2. CASE k = Len(receivers)
    <3>1. AllVisited'
      BY <2>2, <1>1, <1>2, <1>3, <1>4, <1>8 DEF Visited, AllVisited
    <3> QED
      BY <2>2, <3>1, <1>4, <1>6, <1>7, <1>8 DEF Walk
  <2> QED BY <2>1, <2>2, <1>1, <1>2
<1>9. CASE receivers' = RemoveAt(receivers, k)
  <2>1. /\ Len(receivers') = Len(receivers) - 1
        /\ \A i \in 1 .. Len(receivers) - 1 :
             receivers'[i] = IF i < k THEN receivers[i] ELSE receivers[i + 1]
    BY <1>1, <1>2, <1>9, Erased
  <2>2. CASE k < Len(receivers)
    <3>1. receivers'[k] = next' /\ k \in 1 .. Len(receivers')
      BY <2>1, <2>2, <1>1, <1>2, <1>5
    <3>2. Visited(k)'
      BY <2>1, <2>2, <1>1, <1>2, <1>3, <1>4 DEF Visited, AllVisited
    <3> QED
      BY <2>2, <3>1, <3>2, <1>4, <1>5, <1>7 DEF Walk
  <2>3. CASE k = Len(receivers)
    <3>1. AllVisited'
      BY <2>1, <2>3, <1>1, <1>2, <1>3, <1>4 DEF Visited, AllVisited
    <3> QED
      BY <2>3, <3>1, <1>4, <1>6, <1>7 DEF Walk
  <2> QED BY <2>2, <2>3, <1>1, <1>2
<1> QED
  BY <1>8, <1>9

(* Outside a pass the list may change in any way.                           *)
LEMMA WalkIdle ==
  ASSUME Walk, next = Idle, UNCHANGED pass_vars
  PROVE  Walk'
  BY CtConnectionsAssumption DEF Walk, pass_vars

LEMMA WalkStep == Whole /\ Walk /\ [Next]_vars => Walk'
<1> SUFFICES ASSUME Whole, Walk, [Next]_vars PROVE Walk'
  OBVIOUS
<1>1. CASE UNCHANGED vars
  BY <1>1 DEF vars, pass_vars, end_vars, told_vars, Walk, Visited, AllVisited
<1>2. CASE PassStarts
  <2>1. receivers \in Seq(Connections) /\ Len(receivers) \in Nat
    BY LenProperties DEF Whole, EndTypes
  <2>2. receivers' = receivers /\ updated' = {}
    BY <1>2 DEF PassStarts, end_vars, told_vars
  <2>3. CASE receivers = <<>>
    <3>1. next' = End /\ AllVisited'
      BY <1>2, <2>2, <2>3 DEF PassStarts, AllVisited
    <3> QED
      BY <3>1, <2>2, CtConnectionsAssumption DEF Walk
  <2>4. CASE receivers # <<>>
    <3>1. Len(receivers) >= 1
      BY <2>1, <2>4, EmptySeq
    <3>2. next' = receivers[1] /\ receivers[1] \in Connections
      BY <1>2, <2>1, <2>4, <3>1, ElementOfSeq DEF PassStarts
    <3>3. 1 \in 1 .. Len(receivers') /\ receivers'[1] = next' /\ Visited(1)'
      BY <3>1, <3>2, <2>1, <2>2 DEF Visited, AllVisited
    <3> QED
      BY <3>2, <3>3, <2>2, CtConnectionsAssumption DEF Walk
  <2> QED BY <2>3, <2>4
<1>3. CASE PassEnds
  BY <1>3, CtConnectionsAssumption DEF PassEnds, Walk
<1>4. ASSUME NEW c \in Connections,
             FirstUpdate(c) \/ HeartbeatDue(c) \/ NothingDue(c)
      PROVE  Walk'
  <2>1. Update(c) /\ receivers' = receivers
    BY <1>4 DEF FirstUpdate, HeartbeatDue, NothingDue, end_vars, told_vars
  <2> QED BY <2>1, WalkUpdate
<1>5. ASSUME NEW c \in Connections, HeartbeatTimeout(c) PROVE Walk'
  <2>1. CASE Update(c)
    <3>1. receivers' \in {receivers, RemoveAt(receivers, Position(c))}
      BY <1>5 DEF HeartbeatTimeout, TearDown
    <3> QED BY <2>1, <3>1, WalkUpdate
  <2>2. CASE PassAborted(c)
    BY <2>2, CtConnectionsAssumption DEF PassAborted, Walk
  <2> QED BY <1>5, <2>1, <2>2 DEF HeartbeatTimeout
<1>6. ASSUME NEW c \in Connections,
             \/ Create(c) \/ \E b \in BOOLEAN : SendMessage(c, b)
             \/ DropFromApp(c) \/ DropFromCt(c) \/ ReadData(c)
             \/ ReadProtocolError(c) \/ ReadCompletes(c) \/ WriteCompletes(c)
      PROVE  Walk'
  <2>1. next = Idle /\ UNCHANGED pass_vars
    BY <1>6 DEF Create, SendMessage, DropFromApp, DropFromCt, ReadData,
      ReadProtocolError, ReadCompletes, WriteCompletes, ReadFailed,
      ReadAfterDrop, WriteDone, WriteFailed, HandlerStarts, vars
  <2> QED BY <2>1, WalkIdle
<1> QED
  BY <1>1, <1>2, <1>3, <1>4, <1>5, <1>6 DEF Next, UpdaterStep

-------------------------------------------------------------------------------
(* The outstanding operations and the write queues.                         *)

Writer == [busy : BOOLEAN, in_progress : Seq(Buffer), queue : Seq(Buffer)]

OutTypes ==
  /\ out \in [Connections -> Writer]
  /\ reading \in [Connections -> BOOLEAN] /\ first_run \in [Connections -> BOOLEAN]
  /\ sent \in [Connections -> Seq(Buffer)] /\ wire \in [Connections -> Seq(Buffer)]

NotStalled(c) == out[c].queue # <<>> /\ dropped[c] = FALSE => out[c].busy = TRUE

Outgoing == OutTypes /\ Idles /\ \A c \in Connections : NotStalled(c)

(* A step that changes what is outstanding on connection c only, which was  *)
(* made, and leaves it with a write under way or nothing to write.          *)
OnlyOn(c) ==
  /\ c \in created /\ created \subseteq created'
  /\ dropped' = dropped \/ Ends(c)
  /\ OutTypes'
  /\ \A d \in Connections \ {c} : out'[d] = out[d] /\ reading'[d] = reading[d]
  /\ NotStalled(c)'

LEMMA OnlyOnKeeps ==
  ASSUME Outgoing, EndTypes, NEW c \in Connections, OnlyOn(c)
  PROVE  Outgoing'
<1>1. Idles'
  BY DEF OnlyOn, Outgoing, Idles
<1>2. ASSUME NEW d \in Connections \ {c} PROVE NotStalled(d)'
  <2>1. dropped'[d] = dropped[d]
    BY DEF OnlyOn, Ends, EndTypes
  <2> QED BY <2>1 DEF OnlyOn, Outgoing, NotStalled
<1> QED BY <1>1, <1>2 DEF OnlyOn, Outgoing

(* start_writing leaves nothing waiting without a write under way.          *)
LEMMA StartWritingStarts ==
  ASSUME NEW w \in Writer
  PROVE  /\ StartWriting(w) \in Writer
         /\ StartWriting(w).queue # <<>> => StartWriting(w).busy = TRUE
<1>1. w.queue \in Seq(Buffer) /\ <<>> \in Seq(Buffer) /\ w.busy \in BOOLEAN
  BY EmptySeq DEF Writer
<1>2. CASE w.busy
  BY <1>1, <1>2 DEF StartWriting, Writer
<1>3. CASE ~w.busy
  BY <1>1, <1>3 DEF StartWriting, Writer
<1> QED BY <1>2, <1>3

LEMMA ConcatType ==
  ASSUME NEW S, NEW s \in Seq(S), NEW t \in Seq(S)
  PROVE  s \o t \in Seq(S)
  BY ConcatProperties

(* Writing buffers on a connection in use.                                  *)
LEMMA WriteStarts ==
  ASSUME OutTypes, NEW c \in Connections, c \in created, ~dropped[c],
         NEW buffers \in Seq(Buffer), Write(c, buffers),
         reading' = reading, wire' = wire, created' = created,
         dropped' = dropped, first_run' \in [Connections -> BOOLEAN]
  PROVE  OnlyOn(c)
<1> DEFINE queue == out[c].queue \o buffers
           all == sent[c] \o buffers
           w == [out[c] EXCEPT !.queue = queue]
<1>1. out[c] \in Writer /\ out[c].queue \in Seq(Buffer) /\ sent[c] \in Seq(Buffer)
  BY DEF OutTypes, Writer
<1>2. queue \in Seq(Buffer) /\ all \in Seq(Buffer)
  BY <1>1, ConcatType
<1>3. w \in Writer
  <2> HIDE DEF queue
  <2> QED BY <1>1, <1>2 DEF Writer
<1>4. out' = [out EXCEPT ![c] = StartWriting(w)] /\ sent' = [sent EXCEPT ![c] = all]
  <2>1. AddToWriteQueue(c, out[c], buffers) = w
    BY DEF AddToWriteQueue
  <2>2. out' = [out EXCEPT ![c] = StartWriting(AddToWriteQueue(c, out[c], buffers))]
    BY DEF Write
  <2>3. sent' = [sent EXCEPT ![c] = all]
    BY DEF Write
  <2> HIDE DEF w, all
  <2> QED BY <2>1, <2>2, <2>3
<1> HIDE DEF w, all
<1>5. /\ StartWriting(w) \in Writer
      /\ StartWriting(w).queue # <<>> => StartWriting(w).busy = TRUE
  BY <1>3, StartWritingStarts
<1>6. out' \in [Connections -> Writer] /\ sent' \in [Connections -> Seq(Buffer)]
  BY <1>2, <1>4, <1>5 DEF OutTypes
<1>7. out'[c] = StartWriting(w) /\ \A d \in Connections \ {c} : out'[d] = out[d]
  BY <1>4 DEF OutTypes
<1> QED
  BY <1>5, <1>6, <1>7 DEF OnlyOn, OutTypes, NotStalled

LEMMA HeartbeatType ==
  ASSUME OutTypes, NEW c \in Connections
  PROVE  Heartbeat(c) \in Seq(Buffer)
<1>1. Len(sent[c]) \in Nat
  BY LenProperties DEF OutTypes
<1>2. [part |-> "heartbeat", n |-> Len(sent[c]) + 1] \in Buffer
  BY <1>1 DEF Buffer
<1> QED BY <1>2 DEF Heartbeat

LEMMA MessageType ==
  ASSUME OutTypes, NEW c \in Connections, NEW has_payload \in BOOLEAN
  PROVE  Message(c, has_payload) \in Seq(Buffer)
<1>1. Len(sent[c]) \in Nat
  BY LenProperties DEF OutTypes
<1>2. /\ [part |-> "header", n |-> Len(sent[c]) + 1] \in Buffer
      /\ [part |-> "payload", n |-> Len(sent[c]) + 1] \in Buffer
  BY <1>1 DEF Buffer
<1> QED BY <1>2 DEF Message

(* What is outstanding and queued is left alone.                            *)
LEMMA OutgoingUntouched ==
  ASSUME Outgoing, UNCHANGED <<write_vars, reading, wire, first_run>>,
         created \subseteq created',
         \A c \in Connections : dropped[c] => dropped'[c] = TRUE,
         EndTypes
  PROVE  Outgoing'
  BY DEF Outgoing, OutTypes, Idles, NotStalled, write_vars, EndTypes

(* Ending a connection drops it and no other.                               *)
LEMMA EndsDrops ==
  ASSUME EndTypes, NEW c \in Connections, Ends(c)
  PROVE  /\ c \in created /\ created' = created /\ dropped'[c] = TRUE
         /\ \A d \in Connections : dropped[d] => dropped'[d] = TRUE
  BY DEF Ends, EndTypes

(* The first k elements of a sequence.                                      *)
LEMMA FrontType ==
  ASSUME NEW S, NEW s \in Seq(S), NEW k \in 0 .. Len(s)
  PROVE  SubSeq(s, 1, k) \in Seq(S)
<1>1. Len(s) \in Nat /\ \A i \in 1 .. k : s[i] \in S
  BY LenProperties, ElementOfSeq
<1> QED BY <1>1, SubSeqProperties

LEMMA OutgoingWriteDone ==
  ASSUME Outgoing, EndTypes, NEW c \in Connections, WriteDone(c)
  PROVE  Outgoing'
<1> DEFINE idle == [out[c] EXCEPT !.busy = FALSE]
           taken == wire[c] \o out[c].in_progress
<1>1. c \in created
  BY DEF WriteDone, Outgoing, Idles
<1>2. idle \in Writer /\ wire[c] \in Seq(Buffer) /\ out[c].in_progress \in Seq(Buffer)
  BY DEF Outgoing, OutTypes, Writer
<1>3. taken \in Seq(Buffer)
  BY <1>2, ConcatType
<1>4. /\ out' = [out EXCEPT ![c] = AfterWrite(c, idle)]
      /\ wire' = [wire EXCEPT ![c] = taken]
  BY DEF WriteDone
<1> HIDE DEF idle, taken
<1>5. /\ AfterWrite(c, idle) \in Writer
      /\ dropped[c] = FALSE /\ AfterWrite(c, idle).queue # <<>> =>
           AfterWrite(c, idle).busy = TRUE
  BY <1>2, StartWritingStarts DEF AfterWrite
<1>6. /\ reading' = reading /\ first_run' = first_run /\ sent' = sent
      /\ dropped' = dropped /\ created' = created
  BY DEF WriteDone, end_vars, told_vars
<1>7. OutTypes'
  BY <1>3, <1>4, <1>5, <1>6 DEF Outgoing, OutTypes
<1>8. out'[c] = AfterWrite(c, idle) /\ \A d \in Connections \ {c} : out'[d] = out[d]
  BY <1>4 DEF Outgoing, OutTypes
<1>9. OnlyOn(c)
  BY <1>1, <1>5, <1>6, <1>7, <1>8 DEF OnlyOn, NotStalled
<1> QED BY <1>9, OnlyOnKeeps

LEMMA OutgoingWriteFailed ==
  ASSUME Outgoing, EndTypes, NEW c \in Connections, WriteFailed(c),
         (EndsUntouched /\ dropped[c]) \/ Ends(c)
  PROVE  Outgoing'
<1>1. c \in created
  BY DEF WriteFailed, Outgoing, Idles
<1>2. wire[c] \in Seq(Buffer) /\ out[c].in_progress \in Seq(Buffer)
  BY DEF Outgoing, OutTypes, Writer
<1> PICK k \in 0 .. Len(out[c].in_progress) :
      wire' = [wire EXCEPT ![c] = @ \o SubSeq(out[c].in_progress, 1, k)]
  BY DEF WriteFailed
<1> DEFINE taken == wire[c] \o SubSeq(out[c].in_progress, 1, k)
           idle == [out[c] EXCEPT !.busy = FALSE]
<1>3. taken \in Seq(Buffer)
  BY <1>2, FrontType, ConcatType
<1>4. wire' = [wire EXCEPT ![c] = taken] /\ out' = [out EXCEPT ![c] = idle]
  BY DEF WriteFailed
<1>5. idle \in Writer
  BY DEF Outgoing, OutTypes, Writer
<1> HIDE DEF taken, idle
<1>6. reading' = reading /\ first_run' = first_run /\ sent' = sent
  BY DEF WriteFailed
<1>7. OutTypes'
  BY <1>3, <1>4, <1>5, <1>6 DEF Outgoing, OutTypes
<1>8. /\ created' = created /\ dropped'[c] = TRUE
      /\ dropped' = dropped \/ Ends(c)
  BY EndsDrops DEF EndsUntouched, told_vars, EndTypes
<1>9. OnlyOn(c)
  BY <1>1, <1>4, <1>6, <1>7, <1>8 DEF OnlyOn, NotStalled, Outgoing, OutTypes
<1> QED BY <1>9, OnlyOnKeeps

(* A read ends, with the connection or after it.                            *)
LEMMA OutgoingReadEnds ==
  ASSUME Outgoing, EndTypes, NEW c \in Connections, c \in created,
         ReadEnds(c), UNCHANGED <<write_vars, wire, first_run>>,
         EndsUntouched \/ Ends(c)
  PROVE  Outgoing'
<1>1. /\ created' = created /\ (dropped' = dropped \/ Ends(c))
      /\ \A d \in Connections : dropped[d] => dropped'[d] = TRUE
  BY EndsDrops DEF EndsUntouched, told_vars, EndTypes
<1>2. OutTypes' /\ \A d \in Connections \ {c} : reading'[d] = reading[d]
  BY DEF Outgoing, OutTypes, ReadEnds, write_vars
<1>3. NotStalled(c)'
  <2>1. dropped[c] \in BOOLEAN /\ out' = out
    BY DEF EndTypes, write_vars
  <2>2. dropped'[c] = FALSE => dropped[c] = FALSE
    BY <1>1, <2>1
  <2>3. NotStalled(c)
    BY DEF Outgoing
  <2> QED BY <2>1, <2>2, <2>3 DEF NotStalled
<1>4. OnlyOn(c)
  <2>1. created \subseteq created' /\ out' = out
    BY <1>1 DEF write_vars
  <2> QED BY <1>1, <1>2, <1>3, <2>1, Zenon DEF OnlyOn
<1> QED BY <1>4, OnlyOnKeeps

LEMMA OutgoingInit == Init => Outgoing
  BY EmptySeq DEF Init, Outgoing, OutTypes, Writer, Idles, NotStalled

LEMMA OutgoingStep == Whole /\ Outgoing /\ NextRegistered /\ [Next]_vars => Outgoing'
<1> SUFFICES ASSUME Whole, Outgoing, NextRegistered, [Next]_vars PROVE Outgoing'
  OBVIOUS
<1>0. EndTypes /\ OutTypes /\ Idles
  BY DEF Whole, Outgoing
<1>1. CASE UNCHANGED vars
  BY <1>0, <1>1, OutgoingUntouched DEF vars, write_vars, end_vars, told_vars, EndTypes
<1>2. CASE PassStarts \/ PassEnds
  BY <1>0, <1>2, OutgoingUntouched DEF PassStarts, PassEnds, end_vars, told_vars, EndTypes
<1>3. ASSUME NEW c \in Connections, FirstUpdate(c) \/ HeartbeatDue(c)
      PROVE  Outgoing'
  <2>1. c \in created /\ InUse(c)
    BY <1>3, HeldIsInUse DEF FirstUpdate, HeartbeatDue, Update, NextRegistered
  <2>2. /\ Write(c, Heartbeat(c)) /\ reading' = reading /\ wire' = wire
        /\ created' = created /\ dropped' = dropped
        /\ first_run' \in [Connections -> BOOLEAN]
    BY <1>0, <1>3 DEF FirstUpdate, HeartbeatDue, Update, end_vars, told_vars, OutTypes
  <2>3. ~dropped[c]
    BY <2>1 DEF InUse
  <2>4. OnlyOn(c)
    BY <1>0, <2>1, <2>2, <2>3, HeartbeatType, WriteStarts
  <2> QED BY <1>0, <2>4, OnlyOnKeeps
<1>4. ASSUME NEW c \in Connections, NEW has_payload \in BOOLEAN,
             SendMessage(c, has_payload)
      PROVE  Outgoing'
  <2>1. c \in created /\ InUse(c)
    BY <1>4, HeldIsInUse DEF SendMessage
  <2>2. /\ Write(c, Message(c, has_payload)) /\ reading' = reading /\ wire' = wire
        /\ created' = created /\ dropped' = dropped
        /\ first_run' \in [Connections -> BOOLEAN]
    BY <1>0, <1>4 DEF SendMessage, end_vars, told_vars, OutTypes
  <2>3. ~dropped[c]
    BY <2>1 DEF InUse
  <2>4. OnlyOn(c)
    BY <1>0, <2>1, <2>2, <2>3, MessageType, WriteStarts
  <2> QED BY <1>0, <2>4, OnlyOnKeeps
<1>5. ASSUME NEW c \in Connections, NothingDue(c)
      PROVE  Outgoing'
  BY <1>0, <1>5, OutgoingUntouched DEF NothingDue, Update, end_vars, told_vars, EndTypes
<1>6. ASSUME NEW c \in Connections, HeartbeatTimeout(c) \/ DropFromApp(c) \/ DropFromCt(c)
      PROVE  Outgoing'
  <2>1. /\ UNCHANGED <<write_vars, reading, wire, first_run>> /\ created' = created
        /\ \E throws \in BOOLEAN : TearDown(c, throws, FALSE)
    BY <1>6
    DEF HeartbeatTimeout, DropFromApp, DropFromCt, Update, PassAborted
  <2>2. \A d \in Connections : dropped[d] => dropped'[d] = TRUE
    BY <1>0, <2>1 DEF TearDown, EndTypes
  <2> QED BY <1>0, <2>1, <2>2, OutgoingUntouched
<1>7. ASSUME NEW c \in Connections, Create(c)
      PROVE  Outgoing'
  <2>1. /\ UNCHANGED <<write_vars, dropped, wire, first_run>>
        /\ reading' = [reading EXCEPT ![c] = TRUE]
        /\ created' = created \union {c}
    BY <1>7 DEF Create
  <2> QED
    BY <1>0, <2>1 DEF Outgoing, OutTypes, Idles, NotStalled, write_vars
<1>8. ASSUME NEW c \in Connections, ReadData(c)
      PROVE  Outgoing'
  BY <1>0, <1>8, OutgoingUntouched DEF ReadData, vars, write_vars, end_vars, told_vars, EndTypes
<1>9. ASSUME NEW c \in Connections, ReadProtocolError(c) \/ ReadFailed(c) \/ ReadAfterDrop(c)
      PROVE  Outgoing'
  <2>1. ReadEnds(c) /\ UNCHANGED <<write_vars, wire, first_run>>
    BY <1>9 DEF ReadProtocolError, ReadFailed, ReadAfterDrop
  <2>2. c \in created
    BY <1>0, <1>9 DEF ReadProtocolError, ReadFailed, ReadAfterDrop, Idles
  <2>3. EndsUntouched \/ Ends(c)
    BY <1>0, <1>9, <2>2, OwnEnd
  <2> QED BY <1>0, <2>1, <2>2, <2>3, OutgoingReadEnds
<1>10. ASSUME NEW c \in Connections, WriteDone(c)
       PROVE  Outgoing'
  BY <1>0, <1>10, OutgoingWriteDone
<1>11. ASSUME NEW c \in Connections, WriteFailed(c)
       PROVE  Outgoing'
  <2>1. (EndsUntouched /\ dropped[c]) \/ Ends(c)
    BY <1>0, <1>11, FailedWriteEnds
  <2> QED BY <1>0, <1>11, <2>1, OutgoingWriteFailed
<1> QED
  BY <1>1, <1>2, <1>3, <1>4, <1>5, <1>6, <1>7, <1>8, <1>9, <1>10, <1>11
  DEF Next, UpdaterStep, ReadCompletes, WriteCompletes

-------------------------------------------------------------------------------
(* The sockets.                                                             *)

(* The socket of a connection in use is open and read from; that of one     *)
(* that has ended is open only where close() was not reached, and then with *)
(* the one of the two operations outstanding that did not fail.             *)
SocketOf(c) ==
  IF dropped[c]
  THEN socket_open[c] =>
         c \in refused /\ app_drops[c] = 0 /\ reading[c] # out[c].busy
  ELSE socket_open[c] = TRUE /\ reading[c] = TRUE

Sockets ==
  /\ socket_open \in [Connections -> BOOLEAN]
  /\ \A c \in created : SocketOf(c)

(* What the socket of d depends on is left alone.                           *)
Aside(d) ==
  /\ dropped'[d] = dropped[d] /\ socket_open'[d] = socket_open[d]
  /\ reading'[d] = reading[d] /\ out'[d].busy = out[d].busy
  /\ app_drops'[d] = app_drops[d] /\ (d \in refused' <=> d \in refused)

LEMMA SocketsOn ==
  ASSUME Sockets, EndTypes, NEW c \in Connections,
         socket_open' \in [Connections -> BOOLEAN],
         created' \subseteq created \union {c}, SocketOf(c)',
         \A d \in Connections \ {c} : Aside(d)
  PROVE  Sockets'
<1>1. ASSUME NEW d \in created', d # c PROVE SocketOf(d)'
  <2>1. d \in created /\ Aside(d) /\ SocketOf(d)
    BY <1>1 DEF Sockets, EndTypes
  <2> QED BY <2>1 DEF Aside, SocketOf
<1> QED BY <1>1 DEF Sockets

LEMMA SocketsUntouched ==
  ASSUME Sockets, UNCHANGED <<end_vars, reading, out, created, app_drops>>
  PROVE  Sockets'
  BY DEF Sockets, SocketOf, end_vars, told_vars

(* A write on a connection in use.                                          *)
LEMMA SocketsWrite ==
  ASSUME Sockets, EndTypes, OutTypes, NEW c \in Connections, c \in created,
         ~dropped[c], UNCHANGED <<end_vars, reading, created, app_drops>>,
         NEW w, out' = [out EXCEPT ![c] = w]
  PROVE  Sockets'
<1>1. SocketOf(c)'
  BY DEF Sockets, SocketOf, end_vars, told_vars
<1>2. ASSUME NEW d \in Connections \ {c} PROVE Aside(d)
  BY DEF Aside, end_vars, told_vars, OutTypes
<1>3. socket_open' \in [Connections -> BOOLEAN] /\ created' = created
  BY DEF Sockets, end_vars
<1> QED BY <1>1, <1>2, <1>3, SocketsOn

(* The end of a connection in use; the socket may stay open only if the     *)
(* manager threw and one of the operations is still outstanding.            *)
LEMMA SocketsTearDown ==
  ASSUME Sockets, EndTypes, NEW c \in Connections, InUse(c),
         NEW throws \in BOOLEAN, NEW left_open \in BOOLEAN,
         TearDown(c, throws, left_open), created' = created,
         left_open => throws /\ app_drops'[c] = 0 /\ reading'[c] # out'[c].busy,
         \A d \in Connections \ {c} :
           /\ reading'[d] = reading[d] /\ out'[d].busy = out[d].busy
           /\ app_drops'[d] = app_drops[d]
  PROVE  Sockets'
<1>1. /\ dropped' = [dropped EXCEPT ![c] = TRUE]
      /\ refused' = IF throws THEN refused \union {c} ELSE refused
      /\ socket_open' = [socket_open EXCEPT ![c] = left_open]
  BY DEF TearDown, InUse
<1>2. /\ dropped'[c] = TRUE /\ socket_open'[c] = left_open
      /\ socket_open' \in [Connections -> BOOLEAN]
      /\ throws => c \in refused'
  BY <1>1 DEF Sockets, EndTypes
<1>3. SocketOf(c)'
  BY <1>2 DEF SocketOf
<1>4. ASSUME NEW d \in Connections \ {c} PROVE Aside(d)
  <2>1. /\ dropped'[d] = dropped[d] /\ socket_open'[d] = socket_open[d]
        /\ d \in refused' <=> d \in refused
    BY <1>1 DEF Sockets, EndTypes
  <2> QED BY <2>1 DEF Aside
<1> QED BY <1>2, <1>3, <1>4, SocketsOn

LEMMA SocketsReadFailed ==
  ASSUME Whole, Outgoing, Sockets, NEW c \in Connections, ReadFailed(c)
  PROVE  Sockets'
<1>0. EndTypes /\ OutTypes /\ c \in created
  BY DEF Whole, Outgoing, Idles, ReadFailed
<1>1. /\ created' = created /\ app_drops' = app_drops /\ out' = out
      /\ reading' = [reading EXCEPT ![c] = FALSE]
  BY DEF ReadFailed, ReadEnds, write_vars
<1>2. reading'[c] = FALSE /\ out[c].busy \in BOOLEAN
  BY <1>0, <1>1 DEF OutTypes, Writer
<1>3. \A d \in Connections \ {c} : reading'[d] = reading[d]
  BY <1>0, <1>1 DEF OutTypes
<1>4. CASE StillActive(c)
  <2>1. InUse(c)
    BY <1>0, <1>4, HeldIsInUse DEF StillActive
  <2> PICK throws \in BOOLEAN : TearDown(c, throws, throws /\ out[c].busy)
    BY <1>4 DEF ReadFailed
  <2> DEFINE left_open == throws /\ out[c].busy
  <2>2. left_open \in BOOLEAN /\ TearDown(c, throws, left_open)
    OBVIOUS
  <2>3. left_open => throws /\ app_drops'[c] = 0 /\ reading'[c] # out'[c].busy
    BY <1>1, <1>2, <2>1 DEF InUse
  <2> HIDE DEF left_open
  <2> QED BY <1>0, <1>1, <1>3, <2>1, <2>2, <2>3, SocketsTearDown
<1>5. CASE ~StillActive(c)
  <2>1. socket_open' = [socket_open EXCEPT ![c] = FALSE] /\ UNCHANGED told_vars
    BY <1>5 DEF ReadFailed, Close
  <2>2. SocketOf(c)'
    BY <1>5, <2>1 DEF SocketOf, StillActive, told_vars, Sockets
  <2>3. ASSUME NEW d \in Connections \ {c} PROVE Aside(d)
    BY <1>1, <1>3, <2>1 DEF Aside, told_vars, Sockets
  <2>4. socket_open' \in [Connections -> BOOLEAN]
    BY <2>1 DEF Sockets
  <2> QED BY <1>0, <1>1, <2>2, <2>3, <2>4, SocketsOn
<1> QED BY <1>4, <1>5

LEMMA SocketsWriteFailed ==
  ASSUME Whole, Outgoing, Sockets, NEW c \in Connections, WriteFailed(c)
  PROVE  Sockets'
<1>0. EndTypes /\ OutTypes /\ c \in created
  BY DEF Whole, Outgoing, Idles, WriteFailed
<1>1. /\ created' = created /\ app_drops' = app_drops /\ reading' = reading
      /\ out' = [out EXCEPT ![c].busy = FALSE]
  BY DEF WriteFailed
<1>2. out'[c].busy = FALSE /\ reading[c] \in BOOLEAN
  BY <1>0, <1>1 DEF OutTypes, Writer
<1>3. \A d \in Connections \ {c} : out'[d].busy = out[d].busy
  BY <1>0, <1>1 DEF OutTypes
<1>4. CASE StillActive(c)
  <2>1. InUse(c)
    BY <1>0, <1>4, HeldIsInUse DEF StillActive
  <2> PICK throws \in BOOLEAN : TearDown(c, throws, throws /\ reading[c])
    BY <1>4 DEF WriteFailed
  <2> DEFINE left_open == throws /\ reading[c]
  <2>2. left_open \in BOOLEAN /\ TearDown(c, throws, left_open)
    OBVIOUS
  <2>3. left_open => throws /\ app_drops'[c] = 0 /\ reading'[c] # out'[c].busy
    BY <1>1, <1>2, <2>1 DEF InUse
  <2> HIDE DEF left_open
  <2> QED BY <1>0, <1>1, <1>3, <2>1, <2>2, <2>3, SocketsTearDown
<1>5. CASE ~StillActive(c)
  <2>1. socket_open' = [socket_open EXCEPT ![c] = FALSE] /\ UNCHANGED told_vars
    BY <1>5 DEF WriteFailed, Close
  <2>2. SocketOf(c)'
    BY <1>5, <2>1 DEF SocketOf, StillActive, told_vars, Sockets
  <2>3. ASSUME NEW d \in Connections \ {c} PROVE Aside(d)
    BY <1>1, <1>3, <2>1 DEF Aside, told_vars, Sockets
  <2>4. socket_open' \in [Connections -> BOOLEAN]
    BY <2>1 DEF Sockets
  <2> QED BY <1>0, <1>1, <2>2, <2>3, <2>4, SocketsOn
<1> QED BY <1>4, <1>5

(* The completions that find the connection dropped without an error: with  *)
(* both operations outstanding the socket was closed before, with one the   *)
(* last reference goes.                                                     *)
LEMMA SocketsCompleted ==
  ASSUME Whole, Outgoing, Sockets, NEW c \in Connections,
         ReadAfterDrop(c) \/ WriteDone(c)
  PROVE  Sockets'
<1>0. EndTypes /\ OutTypes /\ c \in created /\ SocketOf(c)
  BY DEF Whole, Outgoing, Idles, ReadAfterDrop, WriteDone, Sockets
<1>1. /\ socket_open' \in {socket_open, [socket_open EXCEPT ![c] = FALSE]}
      /\ created' = created /\ app_drops' = app_drops /\ UNCHANGED told_vars
  BY DEF ReadAfterDrop, WriteDone, Close
<1>2. /\ socket_open' \in [Connections -> BOOLEAN]
      /\ \A d \in Connections \ {c} : socket_open'[d] = socket_open[d]
  BY <1>1 DEF Sockets
<1>3. \A d \in Connections \ {c} : reading'[d] = reading[d] /\ out'[d].busy = out[d].busy
  BY <1>0 DEF ReadAfterDrop, WriteDone, ReadEnds, write_vars, OutTypes
<1>4. ASSUME NEW d \in Connections \ {c} PROVE Aside(d)
  BY <1>1, <1>2, <1>3 DEF Aside, told_vars
<1>5. SocketOf(c)'
  <2>1. CASE ReadAfterDrop(c)
    <3>1. CASE out[c].busy
      <4>1. reading[c] = TRUE /\ out[c].busy = TRUE /\ dropped[c] = TRUE
        BY <1>0, <2>1, <3>1 DEF ReadAfterDrop, OutTypes, Writer, EndTypes
      <4>2. socket_open[c] = FALSE
        BY <1>0, <4>1 DEF SocketOf, Sockets
      <4>3. socket_open' = socket_open /\ dropped' = dropped
        BY <2>1, <3>1 DEF ReadAfterDrop, told_vars
      <4> QED BY <4>1, <4>2, <4>3 DEF SocketOf
    <3>2. CASE ~out[c].busy
      <4>1. socket_open'[c] = FALSE /\ dropped'[c]
        BY <2>1, <3>2 DEF ReadAfterDrop, told_vars, Close, Sockets
      <4> QED BY <4>1 DEF SocketOf
    <3> QED BY <3>1, <3>2
  <2>2. CASE WriteDone(c)
    <3>0. reading' = reading /\ dropped' = dropped /\ out[c].busy = TRUE
      BY <1>0, <2>2 DEF WriteDone, told_vars, OutTypes, Writer
    <3>1. CASE dropped[c] /\ ~reading[c]
      <4>1. socket_open'[c] = FALSE
        BY <2>2, <3>1 DEF WriteDone, Close, Sockets
      <4> QED BY <3>0, <3>1, <4>1 DEF SocketOf
    <3>2. CASE dropped[c] /\ reading[c]
      <4>1. reading[c] = TRUE
        BY <1>0, <3>2 DEF OutTypes
      <4>2. socket_open[c] = FALSE
        BY <1>0, <3>0, <3>2, <4>1 DEF SocketOf, Sockets
      <4>3. socket_open' = socket_open
        BY <2>2, <3>2 DEF WriteDone
      <4> QED BY <3>0, <3>2, <4>2, <4>3 DEF SocketOf
    <3>3. CASE ~dropped[c]
      <4>1. socket_open' = socket_open
        BY <2>2, <3>3 DEF WriteDone
      <4> QED BY <1>0, <3>0, <3>3, <4>1 DEF SocketOf
    <3> QED BY <3>1, <3>2, <3>3
  <2> QED BY <2>1, <2>2
<1> QED BY <1>0, <1>1, <1>2, <1>4, <1>5, SocketsOn

LEMMA SocketsCreate ==
  ASSUME Whole, Outgoing, Sockets, NEW c \in Connections, Create(c)
  PROVE  Sockets'
<1>0. EndTypes /\ OutTypes /\ dropped[c] = FALSE
  BY DEF Whole, Outgoing, Create, Unborn
<1>1. /\ socket_open' = [socket_open EXCEPT ![c] = TRUE]
      /\ reading' = [reading EXCEPT ![c] = TRUE]
      /\ created' = created \union {c} /\ UNCHANGED <<dropped, refused, app_drops, out>>
  BY DEF Create, write_vars
<1>2. SocketOf(c)' /\ socket_open' \in [Connections -> BOOLEAN]
  BY <1>0, <1>1 DEF SocketOf, Sockets, OutTypes
<1>3. ASSUME NEW d \in Connections \ {c} PROVE Aside(d)
  BY <1>0, <1>1 DEF Aside, Sockets, OutTypes
<1> QED BY <1>0, <1>1, <1>2, <1>3, SocketsOn

LEMMA SocketsInit == Init => Sockets
  BY DEF Init, Sockets

LEMMA SocketsStep ==
  Whole /\ Outgoing /\ Sockets /\ NextRegistered /\ [Next]_vars => Sockets'
<1> SUFFICES ASSUME Whole, Outgoing, Sockets, NextRegistered, [Next]_vars
             PROVE  Sockets'
  OBVIOUS
<1>0. EndTypes /\ OutTypes /\ Idles
  BY DEF Whole, Outgoing
<1>1. CASE UNCHANGED vars \/ PassStarts \/ PassEnds
  BY <1>1, SocketsUntouched DEF vars, PassStarts, PassEnds, write_vars
<1>2. ASSUME NEW c \in Connections, NothingDue(c) \/ ReadData(c)
      PROVE  Sockets'
  BY <1>2, SocketsUntouched DEF NothingDue, Update, ReadData, vars, write_vars
<1>3. ASSUME NEW c \in Connections, FirstUpdate(c) \/ HeartbeatDue(c)
      PROVE  Sockets'
  <2>1. c \in created /\ InUse(c)
    BY <1>3, HeldIsInUse DEF FirstUpdate, HeartbeatDue, Update, NextRegistered
  <2>2. UNCHANGED <<end_vars, reading, created, app_drops>> /\ ~dropped[c]
    BY <1>3, <2>1 DEF FirstUpdate, HeartbeatDue, Update, InUse
  <2>3. \E w : out' = [out EXCEPT ![c] = w]
    BY <1>3 DEF FirstUpdate, HeartbeatDue, Write
  <2> QED BY <1>0, <2>1, <2>2, <2>3, SocketsWrite
<1>4. ASSUME NEW c \in Connections, NEW has_payload \in BOOLEAN,
             SendMessage(c, has_payload)
      PROVE  Sockets'
  <2>1. c \in created /\ InUse(c)
    BY <1>4, HeldIsInUse DEF SendMessage
  <2>2. UNCHANGED <<end_vars, reading, created, app_drops>> /\ ~dropped[c]
    BY <1>4, <2>1 DEF SendMessage, InUse
  <2>3. \E w : out' = [out EXCEPT ![c] = w]
    BY <1>4 DEF SendMessage, Write
  <2> QED BY <1>0, <2>1, <2>2, <2>3, SocketsWrite
<1>5. ASSUME NEW c \in Connections,
             \/ HeartbeatTimeout(c) \/ DropFromApp(c) \/ DropFromCt(c)
             \/ ReadProtocolError(c)
      PROVE  Sockets'
  <2>1. InUse(c)
    <3>1. CASE HeartbeatTimeout(c)
      <4>1. next = c
        BY <3>1 DEF HeartbeatTimeout, Update, PassAborted
      <4> QED BY <4>1, HeldIsInUse DEF NextRegistered
    <3>2. CASE DropFromApp(c) \/ DropFromCt(c)
      BY <3>2, HeldIsInUse DEF DropFromApp, DropFromCt
    <3>3. CASE ReadProtocolError(c)
      <4>1. c \in created /\ ~dropped[c]
        BY <1>0, <3>3 DEF ReadProtocolError, Idles
      <4> QED BY <4>1, HeldIsInUse
    <3> QED BY <1>5, <3>1, <3>2, <3>3
  <2> PICK throws \in BOOLEAN : TearDown(c, throws, FALSE)
    BY <1>5 DEF HeartbeatTimeout, DropFromApp, DropFromCt, ReadProtocolError
  <2>2. out' = out /\ created' = created
    BY <1>5
    DEF HeartbeatTimeout, Update, PassAborted, DropFromApp, DropFromCt,
        ReadProtocolError, write_vars
  <2>3. \A d \in Connections \ {c} :
          reading'[d] = reading[d] /\ app_drops'[d] = app_drops[d]
    BY <1>0, <1>5
    DEF HeartbeatTimeout, Update, PassAborted, DropFromApp, DropFromCt,
        ReadProtocolError, ReadEnds, OutTypes, EndTypes
  <2> QED BY <1>0, <2>1, <2>2, <2>3, SocketsTearDown
<1>6. ASSUME NEW c \in Connections, Create(c) \/ ReadFailed(c) \/ WriteFailed(c)
                                  \/ ReadAfterDrop(c) \/ WriteDone(c)
      PROVE  Sockets'
  BY <1>6, SocketsCreate, SocketsReadFailed, SocketsWriteFailed, SocketsCompleted
<1> QED
  BY <1>1, <1>2, <1>3, <1>4, <1>5, <1>6
  DEF Next, UpdaterStep, ReadCompletes, WriteCompletes

-------------------------------------------------------------------------------
(* The invariant of the specification and what it gives.                    *)

IInv == Whole /\ Outgoing /\ Sockets /\ Walk

LEMMA WalkInit == Init => Walk
  BY CtConnectionsAssumption DEF Init, Walk

LEMMA Inductive == Spec => []IInv
<1>1. Init => IInv
  BY WholeInit, OutgoingInit, SocketsInit, WalkInit DEF IInv
<1>2. IInv /\ [Next]_vars => IInv'
  <2>1. Outgoing => Idles
    BY DEF Outgoing
  <2> QED
    BY <2>1, WholeStep, OutgoingStep, SocketsStep, WalkStep, WalkRegisters
    DEF IInv
<1> QED BY <1>1, <1>2, PTL DEF Spec

(* For any number of connections and buffers, the state has its type; in    *)
(* particular no end is reported, asked for or told to the manager twice.   *)
THEOREM TypeCorrect == Spec => []TypeOK
<1>1. IInv => TypeOK
  <2> SUFFICES ASSUME IInv PROVE TypeOK
    OBVIOUS
  <2>1. EndTypes /\ OutTypes /\ Walk
    BY DEF IInv, Whole, Outgoing
  <2>2. ASSUME NEW c \in Connections
        PROVE  errors[c] \in 0 .. 1 /\ app_drops[c] \in 0 .. 1 /\ disconnects[c] \in 0 .. 1
    <3>1. InUse(c) \/ Gone(c) \/ Unborn(c)
      BY DEF IInv, Whole
    <3>2. errors[c] \in Nat /\ app_drops[c] \in Nat
      BY <2>1 DEF EndTypes
    <3> QED BY <3>1, <3>2 DEF InUse, Gone, Unborn
  <2>3. /\ errors \in [Connections -> 0 .. 1] /\ app_drops \in [Connections -> 0 .. 1]
        /\ disconnects \in [Connections -> 0 .. 1]
    BY <2>1, <2>2 DEF EndTypes
  <2> QED
    BY <2>1, <2>3
    DEF IInv, Sockets, TypeOK, EndTypes, OutTypes, Walk, Writer
<1> QED BY <1>1, Inductive, PTL

(* Whichever path ends a connection, whatever is still outstanding on its   *)
(* socket, whether or not a pass of the updater is under way and whether or *)
(* not the manager throws, the manager and the updater let go of it in that *)
(* same handler and no ASSERT on a registration fails; an entry in m_ct_map *)
(* or an open socket is left behind exactly by the paths that an exception  *)
(* of the manager cuts short.                                               *)
THEOREM TornDownAsFarAsTheManagerLets == Spec => []TornDownTogether
<1>1. IInv => TornDownTogether
  <2> SUFFICES ASSUME IInv PROVE TornDownTogether
    OBVIOUS
  <2>1. assertion_failed = FALSE
    BY DEF IInv, Whole, EndTypes
  <2>2. ASSUME NEW c \in created
        PROVE  /\ (c \in managed) = ~dropped[c]
               /\ Contains(receivers, c) = ~dropped[c]
               /\ (c \in ct_map) = (~dropped[c] \/ (c \in refused /\ app_drops[c] = 1))
               /\ ~dropped[c] => pmux_connection[c] /\ socket_open[c]
               /\ dropped[c] /\ socket_open[c] =>
                    /\ c \in refused /\ app_drops[c] = 0
                    /\ reading[c] # out[c].busy
    <3>1. /\ InUse(c) \/ Gone(c)
          /\ SocketOf(c)
      BY DEF IInv, Whole, EndTypes, Sockets
    <3>2. CASE InUse(c)
      <4>1. /\ dropped[c] = FALSE /\ (c \in managed) = TRUE
            /\ Contains(receivers, c) = TRUE /\ (c \in ct_map) = TRUE
            /\ pmux_connection[c] = TRUE /\ socket_open[c] = TRUE
        BY <3>1, <3>2 DEF InUse, Contains, SocketOf
      <4> QED BY <4>1, Zenon
    <3>3. CASE Gone(c)
      <4>1. /\ dropped[c] = TRUE /\ (c \in managed) = FALSE
            /\ Contains(receivers, c) = FALSE
            /\ (c \in ct_map) = (c \in refused /\ app_drops[c] = 1)
        BY <3>3 DEF Gone, Contains
      <4>2. socket_open[c] =>
              c \in refused /\ app_drops[c] = 0 /\ reading[c] # out[c].busy
        BY <3>1, <4>1 DEF SocketOf
      <4> QED BY <4>1, <4>2
    <3> QED BY <3>1, <3>2, <3>3
  <2> QED BY <2>1, <2>2, Zenon DEF TornDownTogether
<1> QED BY <1>1, Inductive, PTL

(* The manager hears of the end of every connection exactly once, and the   *)
(* application thread exactly once unless it had asked for it.              *)
THEOREM ReportedOnce == Spec => []EndsOnce
<1>1. IInv => EndsOnce
  BY DEF IInv, Whole, EndTypes, InUse, Gone, EndsOnce
<1> QED BY <1>1, Inductive, PTL

(* Buffers never wait without a write under way that will pick them up.     *)
THEOREM WritesKeepGoing == Spec => []NoStalledWrite
<1>1. IInv => NoStalledWrite
  BY DEF IInv, Whole, EndTypes, Outgoing, NotStalled, NoStalledWrite
<1> QED BY <1>1, Inductive, PTL

(* Receivers that leave the list while the updater walks it cost no other   *)
(* receiver its update, and the iterator never points at one that has left. *)
THEOREM PassIsComplete == Spec => []PassVisitsEveryReceiver
<1>1. IInv => PassVisitsEveryReceiver
  BY WalkRegisters
  DEF IInv, Walk, NextRegistered, AllVisited, Contains, PassVisitsEveryReceiver
<1> QED BY <1>1, Inductive, PTL

-------------------------------------------------------------------------------
(* The order of what is written.                                            *)

(* The buffers a write under way has taken off the queue, and these before  *)
(* those that wait.                                                         *)
Taken(w) == IF w.busy THEN w.in_progress ELSE <<>>
Pending(w) == Taken(w) \o w.queue

(* What the socket took, what it is taking and some rest is what was        *)
(* accepted; the rest is what waits, until the connection is dropped.       *)
Accounted(c) ==
  \E rest \in Seq(Buffer) :
    /\ sent[c] = wire[c] \o (Taken(out[c]) \o rest)
    /\ dropped[c] = FALSE => rest = out[c].queue

Accounts == \A c \in Connections : Accounted(c)

LEMMA PendingTypes ==
  ASSUME NEW w \in Writer
  PROVE  /\ w.queue \in Seq(Buffer) /\ w.in_progress \in Seq(Buffer)
         /\ Taken(w) \in Seq(Buffer) /\ Pending(w) \in Seq(Buffer)
<1>1. w.queue \in Seq(Buffer) /\ w.in_progress \in Seq(Buffer) /\ <<>> \in Seq(Buffer)
  BY EmptySeq DEF Writer
<1>2. Taken(w) \in Seq(Buffer)
  BY <1>1 DEF Taken
<1> QED BY <1>1, <1>2, ConcatType DEF Pending

LEMMA BuffersAssociate ==
  ASSUME NEW s \in Seq(Buffer), NEW t \in Seq(Buffer), NEW u \in Seq(Buffer)
  PROVE  (s \o t) \o u = s \o (t \o u)
<1> HIDE DEF Buffer
<1> QED BY ConcatAssociative

(* start_writing moves buffers, it adds, drops and reorders none.           *)
LEMMA StartWritingMoves ==
  ASSUME NEW w \in Writer
  PROVE  Pending(StartWriting(w)) = Pending(w)
<1>1. w.queue \in Seq(Buffer) /\ <<>> \in Seq(Buffer)
  BY PendingTypes, EmptySeq
<1>2. CASE w.busy
  BY <1>2 DEF StartWriting
<1>3. CASE ~w.busy
  <2>1. Pending(w) = w.queue
    BY <1>1, <1>3, ConcatEmptySeq DEF Pending, Taken
  <2>2. Taken(StartWriting(w)) = w.queue /\ StartWriting(w).queue = <<>>
    BY <1>3 DEF StartWriting, Taken
  <2>3. w.queue \o <<>> = w.queue
    BY <1>1, ConcatEmptySeq
  <2> QED BY <2>1, <2>2, <2>3 DEF Pending
<1> QED BY <1>2, <1>3

(* A connection's account depends on its own queues, and a drop may leave   *)
(* it as it is.                                                             *)
LEMMA AccountKept ==
  ASSUME NEW c \in Connections, Accounted(c), EndTypes,
         out'[c] = out[c], sent'[c] = sent[c], wire'[c] = wire[c],
         dropped[c] => dropped'[c] = TRUE
  PROVE  Accounted(c)'
<1>1. dropped[c] \in BOOLEAN
  BY DEF EndTypes
<1> PICK rest \in Seq(Buffer) :
      /\ sent[c] = wire[c] \o (Taken(out[c]) \o rest)
      /\ dropped[c] = FALSE => rest = out[c].queue
  BY DEF Accounted
<1>2. sent'[c] = wire'[c] \o (Taken(out'[c]) \o rest)
  OBVIOUS
<1>3. dropped'[c] = FALSE => rest = out'[c].queue
  BY <1>1
<1> QED BY <1>2, <1>3 DEF Accounted

(* Buffers written on a connection in use queue up behind the others.       *)
LEMMA AccountWrite ==
  ASSUME OutTypes, EndTypes, Accounts, NEW c \in Connections, ~dropped[c],
         NEW buffers \in Seq(Buffer), Write(c, buffers),
         wire' = wire, dropped' = dropped
  PROVE  Accounts'
<1>1. /\ out[c] \in Writer /\ sent[c] \in Seq(Buffer) /\ wire[c] \in Seq(Buffer)
      /\ out[c].queue \in Seq(Buffer) /\ Taken(out[c]) \in Seq(Buffer)
  BY PendingTypes DEF OutTypes
<1> PICK w \in Writer :
      /\ w = [out[c] EXCEPT !.queue = out[c].queue \o buffers]
      /\ out' = [out EXCEPT ![c] = StartWriting(w)]
  <2> DEFINE q == out[c].queue \o buffers
             v == [out[c] EXCEPT !.queue = q]
  <2>1. q \in Seq(Buffer)
    BY <1>1, ConcatType
  <2>2. AddToWriteQueue(c, out[c], buffers) = v
    BY DEF AddToWriteQueue
  <2>3. out' = [out EXCEPT ![c] = StartWriting(AddToWriteQueue(c, out[c], buffers))]
    BY DEF Write
  <2>4. v \in Writer
    <3> HIDE DEF q
    <3> QED BY <1>1, <2>1 DEF Writer
  <2>5. v = [out[c] EXCEPT !.queue = out[c].queue \o buffers]
    OBVIOUS
  <2> HIDE DEF v
  <2> QED BY <2>2, <2>3, <2>4, <2>5
<1>2. sent' = [sent EXCEPT ![c] = sent[c] \o buffers]
  BY DEF Write
<1>3. sent[c] = wire[c] \o Pending(out[c])
  <2>1. Accounted(c) /\ dropped[c] = FALSE
    BY DEF Accounts, EndTypes
  <2> QED BY <2>1 DEF Accounted, Pending
<1>4. sent[c] \o buffers = wire[c] \o Pending(w)
  <2>1. Taken(w) = Taken(out[c]) /\ w.queue = out[c].queue \o buffers
    BY <1>1 DEF Taken, Writer
  <2>2. Pending(out[c]) \in Seq(Buffer)
    BY <1>1, PendingTypes
  <2>3. Pending(out[c]) \o buffers = Pending(w)
    <3>1. (Taken(out[c]) \o out[c].queue) \o buffers
            = Taken(out[c]) \o (out[c].queue \o buffers)
      <4>1. /\ Taken(out[c]) \in Seq(Buffer) /\ out[c].queue \in Seq(Buffer)
            /\ buffers \in Seq(Buffer)
        BY <1>1
      <4> QED BY ONLY <4>1, BuffersAssociate
    <3> QED BY <2>1, <3>1 DEF Pending
  <2>4. (wire[c] \o Pending(out[c])) \o buffers = wire[c] \o (Pending(out[c]) \o buffers)
    <3>1. wire[c] \in Seq(Buffer) /\ buffers \in Seq(Buffer)
      BY <1>1
    <3> QED BY ONLY <2>2, <3>1, BuffersAssociate
  <2> QED BY <1>3, <2>3, <2>4
<1>5. StartWriting(w) \in Writer /\ Pending(StartWriting(w)) = Pending(w)
  BY StartWritingStarts, StartWritingMoves
<1>6. Accounted(c)'
  <2>1. out'[c] = StartWriting(w) /\ sent'[c] = wire[c] \o Pending(StartWriting(w))
    BY <1>2, <1>4, <1>5 DEF OutTypes
  <2>2. out'[c].queue \in Seq(Buffer)
    BY <1>5, <2>1, PendingTypes
  <2> QED BY <2>1, <2>2 DEF Accounted, Pending
<1>7. ASSUME NEW d \in Connections \ {c} PROVE Accounted(d)'
  <2>1. out'[d] = out[d] /\ sent'[d] = sent[d] /\ wire'[d] = wire[d]
    BY <1>2 DEF OutTypes
  <2> QED BY <2>1, AccountKept DEF Accounts, EndTypes
<1> QED BY <1>6, <1>7 DEF Accounts

(* What a completed write took goes to the socket, in front of what waits.  *)
LEMMA AccountWriteDone ==
  ASSUME OutTypes, EndTypes, Accounts, NEW c \in Connections, WriteDone(c)
  PROVE  Accounts'
<1>1. /\ out[c] \in Writer /\ sent[c] \in Seq(Buffer) /\ wire[c] \in Seq(Buffer)
      /\ out[c].queue \in Seq(Buffer) /\ out[c].in_progress \in Seq(Buffer)
      /\ dropped[c] \in BOOLEAN
  BY PendingTypes DEF OutTypes, EndTypes
<1>2. out[c].busy /\ sent' = sent /\ dropped' = dropped
  BY DEF WriteDone, end_vars, told_vars
<1> PICK rest \in Seq(Buffer) :
      /\ sent[c] = wire[c] \o (out[c].in_progress \o rest)
      /\ dropped[c] = FALSE => rest = out[c].queue
  BY <1>2 DEF Accounts, Accounted, Taken
<1> PICK idle \in Writer :
      /\ idle = [out[c] EXCEPT !.busy = FALSE]
      /\ out' = [out EXCEPT ![c] = AfterWrite(c, idle)]
  <2>1. [out[c] EXCEPT !.busy = FALSE] \in Writer
    BY <1>1 DEF Writer
  <2> QED BY <2>1 DEF WriteDone
<1>3. wire' = [wire EXCEPT ![c] = wire[c] \o out[c].in_progress]
  BY DEF WriteDone
<1>4. Taken(idle) = <<>> /\ idle.queue = out[c].queue
  BY <1>1 DEF Taken, Writer
<1>5. sent[c] = (wire[c] \o out[c].in_progress) \o rest
  <2> PICK w \in Seq(Buffer) : w = wire[c]
    BY <1>1
  <2> PICK p \in Seq(Buffer) : p = out[c].in_progress
    BY <1>1
  <2>1. w \in Seq(Buffer) /\ p \in Seq(Buffer) /\ rest \in Seq(Buffer)
    OBVIOUS
  <2>2. (w \o p) \o rest = w \o (p \o rest)
    BY ONLY <2>1, BuffersAssociate
  <2>3. sent[c] = w \o (p \o rest)
    OBVIOUS
  <2> QED BY <2>2, <2>3
<1>6. /\ out'[c] = AfterWrite(c, idle)
      /\ sent'[c] = wire'[c] \o rest
      /\ wire'[c] \in Seq(Buffer)
  <2>1. wire[c] \o out[c].in_progress \in Seq(Buffer)
    BY <1>1, ConcatType
  <2> QED BY <1>2, <1>3, <1>5, <2>1 DEF OutTypes
<1>7. <<>> \o rest = rest
  BY ConcatEmptySeq
<1>8. Accounted(c)'
  <2>1. CASE dropped[c]
    <3>1. out'[c] = idle
      BY <1>6, <2>1 DEF AfterWrite
    <3>2. sent'[c] = wire'[c] \o (Taken(out'[c]) \o rest)
      BY <1>4, <1>6, <1>7, <3>1
    <3> QED BY <1>2, <2>1, <3>2 DEF Accounted
  <2>2. CASE ~dropped[c]
    <3>1. out'[c] = StartWriting(idle) /\ rest = out[c].queue
      BY <1>1, <1>6, <2>2 DEF AfterWrite
    <3>2. Pending(idle) = rest
      BY <1>4, <1>7, <3>1 DEF Pending
    <3>3. sent'[c] = wire'[c] \o Pending(out'[c])
      BY <1>6, <3>1, <3>2, StartWritingMoves
    <3>4. out'[c].queue \in Seq(Buffer)
      BY <3>1, StartWritingStarts, PendingTypes
    <3> QED BY <3>3, <3>4 DEF Accounted, Pending
  <2> QED BY <2>1, <2>2
<1>9. ASSUME NEW d \in Connections \ {c} PROVE Accounted(d)'
  <2>1. out'[d] = out[d] /\ sent'[d] = sent[d] /\ wire'[d] = wire[d]
    BY <1>2, <1>3 DEF OutTypes
  <2> QED BY <1>2, <2>1, AccountKept DEF Accounts, EndTypes
<1> QED BY <1>8, <1>9 DEF Accounts

(* A sequence is its first k elements and the others.                       *)
LEMMA Split ==
  ASSUME NEW S, NEW s \in Seq(S), NEW k \in 0 .. Len(s)
  PROVE  /\ SubSeq(s, 1, k) \in Seq(S)
         /\ \E back \in Seq(S) : s = SubSeq(s, 1, k) \o back
<1>1. Len(s) \in Nat /\ \A i \in 1 .. Len(s) : s[i] \in S
  BY LenProperties, ElementOfSeq
<1>2. SubSeq(s, k + 1, Len(s)) \in Seq(S)
  <2>1. \A i \in k + 1 .. Len(s) : s[i] \in S
    BY <1>1
  <2> QED BY <1>1, <2>1, SubSeqProperties
<1>3. s = SubSeq(s, 1, k) \o SubSeq(s, k + 1, Len(s))
  <2>1. 1 \in 1 .. Len(s) + 1 /\ k \in 1 - 1 .. Len(s) /\ Len(s) \in k .. Len(s)
    BY <1>1
  <2>2. SubSeq(s, 1, k) \o SubSeq(s, k + 1, Len(s)) = SubSeq(s, 1, Len(s))
    BY <2>1, ConcatAdjacentSubSeq
  <2> QED BY <2>2, SubSeqFull
<1> QED BY <1>2, <1>3, FrontType

(* What is left when the socket has taken a part of what it was given.      *)
Continues(s, t) == \E more \in Seq(Buffer) : s = t \o more

LEMMA PartTaken ==
  ASSUME NEW w \in Seq(Buffer), NEW s \in Seq(Buffer), NEW rest \in Seq(Buffer),
         NEW front \in Seq(Buffer), Continues(s, front)
  PROVE  Continues(w \o (s \o rest), w \o front)
<1>1. ASSUME NEW back \in Seq(Buffer)
      PROVE  (front \o back) \o rest = front \o (back \o rest)
  BY BuffersAssociate, SMTT(30)
<1>2. ASSUME NEW more \in Seq(Buffer)
      PROVE  (w \o front) \o more = w \o (front \o more)
  BY BuffersAssociate, SMTT(30)
<1>3. \E more \in Seq(Buffer) : s \o rest = front \o more
  <2> PICK back \in Seq(Buffer) : s = front \o back
    BY DEF Continues
  <2>1. back \o rest \in Seq(Buffer)
    BY ConcatType
  <2>2. s \o rest = front \o (back \o rest)
    BY <1>1
  <2> QED BY ONLY <2>1, <2>2
<1> QED BY <1>2, <1>3 DEF Continues

LEMMA FrontTaken ==
  ASSUME NEW w \in Seq(Buffer), NEW s \in Seq(Buffer), NEW rest \in Seq(Buffer),
         NEW k \in 0 .. Len(s)
  PROVE  Continues(w \o (s \o rest), w \o SubSeq(s, 1, k))
<1> HIDE DEF Buffer
<1>1. SubSeq(s, 1, k) \in Seq(Buffer) /\ Continues(s, SubSeq(s, 1, k))
  BY Split DEF Continues
<1> QED BY <1>1, PartTaken

(* Of a failed write the socket took the first buffers, and the connection  *)
(* is dropped, so that nothing follows them.                                *)
LEMMA AccountWriteFailed ==
  ASSUME OutTypes, EndTypes, Accounts, NEW c \in Connections, WriteFailed(c),
         dropped'[c] = TRUE, \A d \in Connections : dropped[d] => dropped'[d] = TRUE
  PROVE  Accounts'
<1>1. /\ out[c] \in Writer /\ sent[c] \in Seq(Buffer) /\ wire[c] \in Seq(Buffer)
      /\ out[c].in_progress \in Seq(Buffer)
  BY PendingTypes DEF OutTypes
<1>2. out[c].busy /\ sent' = sent /\ out' = [out EXCEPT ![c].busy = FALSE]
  BY DEF WriteFailed
<1> PICK k \in 0 .. Len(out[c].in_progress) :
      wire' = [wire EXCEPT ![c] = @ \o SubSeq(out[c].in_progress, 1, k)]
  BY DEF WriteFailed
<1> PICK front \in Seq(Buffer) : front = SubSeq(out[c].in_progress, 1, k)
  BY <1>1, FrontType
<1>3. wire' = [wire EXCEPT ![c] = wire[c] \o front]
  OBVIOUS
<1> PICK rest \in Seq(Buffer) : sent[c] = wire[c] \o (out[c].in_progress \o rest)
  BY <1>2 DEF Accounts, Accounted, Taken
<1> PICK more \in Seq(Buffer) : sent[c] = (wire[c] \o front) \o more
  <2>1. Continues(wire[c] \o (out[c].in_progress \o rest), wire[c] \o front)
    BY <1>1, FrontTaken
  <2> QED BY <2>1 DEF Continues
<1>6. Accounted(c)'
  <2>1. sent'[c] = wire'[c] \o more /\ Taken(out'[c]) = <<>>
    BY <1>1, <1>2, <1>3 DEF OutTypes, Taken, Writer
  <2>2. <<>> \o more = more
    BY ConcatEmptySeq
  <2>3. sent'[c] = wire'[c] \o (Taken(out'[c]) \o more) /\ dropped'[c] # FALSE
    BY <2>1, <2>2
  <2> QED BY <2>3 DEF Accounted
<1>7. ASSUME NEW d \in Connections \ {c} PROVE Accounted(d)'
  <2>1. out'[d] = out[d] /\ sent'[d] = sent[d] /\ wire'[d] = wire[d]
    BY <1>2, <1>3 DEF OutTypes
  <2> QED BY <2>1, AccountKept DEF Accounts
<1> QED BY <1>6, <1>7 DEF Accounts

(* Nothing is written and nothing completes.                                *)
LEMMA AccountsUntouched ==
  ASSUME EndTypes, Accounts, UNCHANGED <<write_vars, wire>>,
         \A d \in Connections : dropped[d] => dropped'[d] = TRUE
  PROVE  Accounts'
  BY AccountKept DEF Accounts, write_vars

LEMMA AccountsInit == Init => Accounts
<1>1. <<>> \in Seq(Buffer) /\ <<>> \o <<>> = <<>>
  BY EmptySeq, ConcatEmptySeq
<1>2. ASSUME Init, NEW c \in Connections PROVE Accounted(c)
  <2>1. sent[c] = <<>> /\ wire[c] = <<>> /\ Taken(out[c]) = <<>> /\ out[c].queue = <<>>
    BY <1>2 DEF Init, Taken
  <2> QED BY <1>1, <2>1 DEF Accounted
<1> QED BY <1>2 DEF Accounts

LEMMA AccountsStep == IInv /\ Accounts /\ [Next]_vars => Accounts'
<1> SUFFICES ASSUME IInv, Accounts, [Next]_vars PROVE Accounts'
  OBVIOUS
<1>0. Whole /\ NextRegistered /\ EndTypes /\ OutTypes /\ Idles
  BY WalkRegisters DEF IInv, Whole, Outgoing
<1>1. ASSUME NEW c \in Connections, FirstUpdate(c) \/ HeartbeatDue(c)
      PROVE  Accounts'
  <2>1. InUse(c)
    BY <1>0, <1>1, HeldIsInUse DEF FirstUpdate, HeartbeatDue, Update, NextRegistered
  <2>2. Write(c, Heartbeat(c)) /\ wire' = wire /\ dropped' = dropped /\ ~dropped[c]
    BY <1>1, <2>1 DEF FirstUpdate, HeartbeatDue, Update, end_vars, told_vars, InUse
  <2> QED BY <1>0, <2>2, HeartbeatType, AccountWrite
<1>2. ASSUME NEW c \in Connections, NEW has_payload \in BOOLEAN,
             SendMessage(c, has_payload)
      PROVE  Accounts'
  <2>1. InUse(c)
    BY <1>0, <1>2, HeldIsInUse DEF SendMessage
  <2>2. /\ Write(c, Message(c, has_payload))
        /\ wire' = wire /\ dropped' = dropped /\ ~dropped[c]
    BY <1>2, <2>1 DEF SendMessage, end_vars, told_vars, InUse
  <2> QED BY <1>0, <2>2, MessageType, AccountWrite
<1>3. ASSUME NEW c \in Connections, WriteDone(c)
      PROVE  Accounts'
  BY <1>0, <1>3, AccountWriteDone
<1>4. ASSUME NEW c \in Connections, WriteFailed(c)
      PROVE  Accounts'
  <2>1. (EndsUntouched /\ dropped[c]) \/ Ends(c)
    BY <1>0, <1>4, FailedWriteEnds
  <2>2. dropped'[c] = TRUE /\ \A d \in Connections : dropped[d] => dropped'[d] = TRUE
    BY <1>0, <2>1, EndsDrops DEF EndsUntouched, told_vars, EndTypes
  <2> QED BY <1>0, <1>4, <2>2, AccountWriteFailed
<1>5. ASSUME UNCHANGED <<write_vars, wire>> PROVE Accounts'
  <2>1. \A d \in Connections : dropped[d] => dropped'[d] = TRUE
    <3>1. CASE EndsUntouched
      BY <1>0, <3>1 DEF EndsUntouched, told_vars, EndTypes
    <3>2. ASSUME NEW c \in Connections, Create(c) \/ Ends(c)
          PROVE  \A d \in Connections : dropped[d] => dropped'[d] = TRUE
      BY <1>0, <3>2, EndsDrops DEF Create, EndTypes
    <3> QED BY <1>0, <3>1, <3>2, StepsOnEnds
  <2> QED BY <1>0, <1>5, <2>1, AccountsUntouched
<1>6. CASE UNCHANGED vars \/ PassStarts \/ PassEnds
  <2>1. UNCHANGED <<write_vars, wire>>
    BY <1>6 DEF vars, write_vars, PassStarts, PassEnds
  <2> QED BY <1>5, <2>1
<1>7. ASSUME NEW c \in Connections,
             \/ HeartbeatTimeout(c) \/ NothingDue(c) \/ Create(c)
             \/ DropFromApp(c) \/ DropFromCt(c) \/ ReadData(c)
             \/ ReadProtocolError(c) \/ ReadFailed(c) \/ ReadAfterDrop(c)
      PROVE  Accounts'
  <2>1. UNCHANGED <<write_vars, wire>>
    BY <1>7
    DEF HeartbeatTimeout, NothingDue, Update, PassAborted, Create,
        DropFromApp, DropFromCt,
        ReadData, ReadProtocolError, ReadFailed, ReadAfterDrop, vars, write_vars
  <2> QED BY <1>5, <2>1
<1> QED
  BY <1>1, <1>2, <1>3, <1>4, <1>6, <1>7
  DEF Next, UpdaterStep, ReadCompletes, WriteCompletes

(* A sequence begins with what it is put together of.                       *)
LEMMA Begins ==
  ASSUME NEW S, NEW s \in Seq(S), NEW t \in Seq(S)
  PROVE  IsPrefix(s, s \o t)
<1>1. Len(s) \in Nat /\ Len(t) \in Nat /\ Len(s \o t) = Len(s) + Len(t)
  BY LenProperties, ConcatProperties
<1>2. SubSeq(s \o t, 1, Len(s)) = SubSeq(s, 1, Len(s))
  <2>1. CASE Len(s) = 0
    BY <2>1, SubSeqEmpty
  <2>2. CASE Len(s) # 0
    <3>1. 1 \in 1 .. Len(s) /\ Len(s) \in 1 .. Len(s)
      BY <1>1, <2>2
    <3> QED BY <3>1, SubSeqOfConcat1
  <2> QED BY <2>1, <2>2
<1> QED BY <1>1, <1>2 DEF IsPrefix

(* However completions, failures, drops and further writes interleave, the  *)
(* socket is given the accepted buffers one by one in the order in which    *)
(* they were accepted, and while the connection lives all that it has not   *)
(* been given is being written or waits.                                    *)
THEOREM WritesKeepOrder == Spec => []WrittenInOrder
<1>1. Init => Accounts
  BY AccountsInit
<1>2. IInv /\ Accounts /\ [Next]_vars => Accounts'
  BY AccountsStep
<1>3. IInv /\ Accounts => WrittenInOrder
  <2> SUFFICES ASSUME IInv, Accounts, NEW c \in Connections
               PROVE  /\ IsPrefix(wire[c], sent[c])
                      /\ ~dropped[c] =>
                           sent[c] = (wire[c] \o Taken(out[c])) \o out[c].queue
    BY Zenon DEF WrittenInOrder, Taken
  <2>1. /\ out[c] \in Writer /\ wire[c] \in Seq(Buffer)
        /\ dropped[c] \in BOOLEAN
    BY DEF IInv, Whole, Outgoing, OutTypes, EndTypes
  <2>2. out[c].queue \in Seq(Buffer) /\ Taken(out[c]) \in Seq(Buffer)
    BY <2>1, PendingTypes
  <2> PICK rest \in Seq(Buffer) :
        /\ sent[c] = wire[c] \o (Taken(out[c]) \o rest)
        /\ dropped[c] = FALSE => rest = out[c].queue
    BY DEF Accounts, Accounted
  <2>3. IsPrefix(wire[c], sent[c])
    <3>1. Taken(out[c]) \o rest \in Seq(Buffer)
      BY <2>2, ConcatType
    <3> QED BY <2>1, <3>1, Begins
  <2>4. ~dropped[c] => sent[c] = (wire[c] \o Taken(out[c])) \o out[c].queue
    <3>1. (wire[c] \o Taken(out[c])) \o out[c].queue
            = wire[c] \o (Taken(out[c]) \o out[c].queue)
      BY <2>1, <2>2, BuffersAssociate
    <3> QED BY <2>1, <3>1
  <2> QED BY <2>3, <2>4
<1> QED BY <1>1, <1>2, <1>3, Inductive, PTL DEF Spec
===============================================================================
