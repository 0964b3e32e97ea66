------------------------------ MODULE PMuxFraming ------------------------------
(****************************************************************************)
(* PMuxImpl's framing, in one direction of a connection: send_message and   *)
(* send_heartbeat of a peer put frames on the stream, the socket hands the  *)
(* stream to got_data in chunks of any size, and the header and payload     *)
(* state machine puts the messages together again.                          *)
(*                                                                          *)
(* Bytes are real here: a header is the payload's length in four bytes in   *)
(* network order, the type and the flags, and the receiver knows nothing    *)
(* but bytes.  The loop of got_data is one step per iteration over the rest *)
(* of the chunk; no other step of the receiver comes between.               *)
(*                                                                          *)
(* Besides the peer's PMux there may be anything at the other end: what     *)
(* such a peer sends is a frame of ForeignFrames.                           *)
(****************************************************************************)
EXTENDS Naturals, Sequences, SequencesExt

CONSTANTS
  MAX_MESSAGE_SIZE,       \* MAX_MESSAGE_SIZE
  INCOMING_BUFFER_SIZE,   \* the most bytes the socket hands over at once
  m_version,              \* m_version
  Types, Payloads,        \* what the peer's application sends
  ForeignFrames,          \* what a peer that is not this program may send
  MaxFrames               \* bound: frames sent

HEADER_SIZE == 6
FLAG_HEARTBEAT == 32
Byte == 0 .. 255

Frame == [length : Nat, type : Byte, flags : Byte, payload : Seq(Byte)]

(* What a frame means, read off the whole frame.                            *)
Kind(frame) ==
  LET heartbeat == (frame.flags \div FLAG_HEARTBEAT) % 2 = 1 IN
  IF \/ frame.flags % 16 # m_version
     \/ frame.length > MAX_MESSAGE_SIZE
     \/ heartbeat /\ frame.length # 0
     \/ ~heartbeat /\ frame.type = 0
  THEN "invalid"
  ELSE IF heartbeat THEN "heartbeat" ELSE "message"

(* The four bytes of a number, the highest first.                           *)
htonl(n) ==
  LET high == n \div 256
      higher == high \div 256
  IN <<higher \div 256, higher % 256, high % 256, n % 256>>

(* A stream is cut into frames by its headers: a length has four bytes, and *)
(* a frame that is accepted has the payload its header announces.           *)
Framed(frame) ==
  /\ frame \in Frame /\ htonl(frame.length) \in Seq(Byte)
  /\ Kind(frame) = "invalid" \/ Len(frame.payload) = frame.length

ASSUME PMuxFramingAssumption ==
  /\ MAX_MESSAGE_SIZE \in Nat /\ htonl(MAX_MESSAGE_SIZE) \in Seq(Byte)
  /\ INCOMING_BUFFER_SIZE \in Nat \ {0}
  /\ m_version \in 0 .. 15
  /\ Types \subseteq Byte /\ \A payload \in Payloads : payload \in Seq(Byte)
  /\ \A frame \in ForeignFrames : Framed(frame)
  /\ MaxFrames \in Nat

VARIABLES
  wire,       \* the bytes sent and not yet handed to got_data
  data,       \* what got_data has left of its chunk
  state,      \* m_state
  header,     \* the m_header_filled_bytes first bytes of m_header
  payload,    \* the m_payload_filled_bytes first bytes of m_payload
  closed      \* a protocol error was reported and the connection dropped

(* History: the frames sent, the number of them finished with, and the      *)
(* got_message calls on the upper layer.                                    *)
VARIABLES sent, taken, delivered

receiver_vars == <<state, header, payload, closed, taken, delivered>>
vars == <<wire, data, sent, receiver_vars>>

Init ==
  /\ wire = <<>> /\ data = <<>> /\ sent = <<>>
  /\ state = "READING_HEADER" /\ header = <<>> /\ payload = <<>>
  /\ closed = FALSE /\ taken = 0 /\ delivered = <<>>

-------------------------------------------------------------------------------
(* The sender.                                                              *)

Bytes(frame) == htonl(frame.length) \o <<frame.type, frame.flags>> \o frame.payload

Put(frame) ==
  /\ Len(sent) < MaxFrames
  /\ sent' = Append(sent, frame)
  /\ wire' = wire \o Bytes(frame)
  /\ UNCHANGED <<data, receiver_vars>>

MessageFrame(type, content) ==
  [length |-> Len(content), type |-> type, flags |-> m_version,
   payload |-> content]

HeartbeatFrame ==
  [length |-> 0, type |-> 0, flags |-> m_version + FLAG_HEARTBEAT,
   payload |-> <<>>]

(* The ASSERT refuses a payload that is too big; nothing is sent then.      *)
SendMessage(type, content) ==
  /\ Len(content) < MAX_MESSAGE_SIZE
  /\ Put(MessageFrame(type, content))

SendHeartbeat == Put(HeartbeatFrame)

SendForeign(frame) == Put(frame)

-------------------------------------------------------------------------------
(* The receiver: the fields of the header, which m_header holds as bytes.   *)

(* Mutant: the length is read in the host's order.                          *)
HostOrder(bytes) ==
  bytes[1] + 256 * (bytes[2] + 256 * (bytes[3] + 256 * bytes[4]))

ntohl(bytes) ==
  bytes[4] + 256 * (bytes[3] + 256 * (bytes[2] + 256 * bytes[1]))

(* Mutant: all of the flags are taken for the version.                      *)
AllFlags(flags) == flags

VersionOf(flags) == flags % 16

IsHeartbeat(flags) == (flags \div FLAG_HEARTBEAT) % 2 = 1

(* The bytes of the chunk that belong to what is being read, of which       *)
(* filled bytes are there and required bytes are needed.                    *)

(* Mutant: what is there already is not counted.                            *)
TakeAfresh(filled, required) ==
  SubSeq(data, 1, IF required > Len(data) THEN Len(data) ELSE required)

Take(filled, required) ==
  LET bytes_required == required - Len(filled) IN
  SubSeq(data, 1, IF bytes_required > Len(data) THEN Len(data)
                                               ELSE bytes_required)

(* Mutant: the rest of the chunk is forgotten.                              *)
NoRest(bytes) == <<>>

RestAfter(bytes) == SubSeq(data, Len(bytes) + 1, Len(data))

(* The socket hands over the next bytes.                                    *)
GotData(n) ==
  /\ data = <<>> /\ ~closed
  /\ data' = SubSeq(wire, 1, n)
  /\ wire' = SubSeq(wire, n + 1, Len(wire))
  /\ UNCHANGED <<sent, receiver_vars>>

(* got_data's loop.  An iteration reads header or payload bytes; how the    *)
(* header looks with the bytes this one adds:                               *)
Header == header \o Take(header, HEADER_SIZE)
length == ntohl(Header)
type == Header[5]
flags == Header[6]

ReadHeader ==
  /\ state = "READING_HEADER" /\ data # <<>>
  /\ UNCHANGED <<wire, sent>>

HeaderIncomplete ==
  /\ ReadHeader
  /\ Len(Header) < HEADER_SIZE
  /\ header' = Header
  /\ data' = RestAfter(Take(header, HEADER_SIZE))
  /\ UNCHANGED <<state, payload, closed, taken, delivered>>

HeaderComplete == ReadHeader /\ Len(Header) >= HEADER_SIZE

Refused ==
  \/ VersionOf(flags) # m_version
  \/ length > MAX_MESSAGE_SIZE
  \/ IsHeartbeat(flags) /\ length # 0
  \/ ~IsHeartbeat(flags) /\ type = 0

(* The error is reported, the connection dropped, the chunk left alone.     *)
ProtocolError ==
  /\ HeaderComplete /\ Refused
  /\ header' = Header
  /\ closed' = TRUE
  /\ data' = <<>>
  /\ UNCHANGED <<state, payload, taken, delivered>>

(* Mutant: m_header_filled_bytes is not reset.                              *)
KeepHeader == header' = Header

ResetHeader == header' = <<>>

HandleHeartbeat ==
  /\ HeaderComplete /\ ~Refused /\ IsHeartbeat(flags)
  /\ ResetHeader
  /\ taken' = taken + 1
  /\ data' = RestAfter(Take(header, HEADER_SIZE))
  /\ UNCHANGED <<state, payload, closed, delivered>>

EmptyMessage ==
  /\ HeaderComplete /\ ~Refused /\ ~IsHeartbeat(flags) /\ length = 0
  /\ ResetHeader
  /\ taken' = taken + 1
  /\ delivered' = Append(delivered, [type |-> type, payload |-> <<>>])
  /\ data' = RestAfter(Take(header, HEADER_SIZE))
  /\ UNCHANGED <<state, payload, closed>>

PayloadFollows ==
  /\ HeaderComplete /\ ~Refused /\ ~IsHeartbeat(flags) /\ length # 0
  /\ header' = Header
  /\ payload' = <<>>
  /\ state' = "READING_PAYLOAD"
  /\ data' = RestAfter(Take(header, HEADER_SIZE))
  /\ UNCHANGED <<closed, taken, delivered>>

ReadPayload ==
  LET required == ntohl(header)
      bytes    == Take(payload, required)
      filled   == payload \o bytes
  IN
  /\ state = "READING_PAYLOAD" /\ data # <<>>
  /\ data' = RestAfter(bytes)
  /\ payload' = filled
  /\ IF Len(filled) < required
     THEN UNCHANGED <<state, header, taken, delivered>>
     ELSE /\ delivered' = Append(delivered,
                                 [type |-> header[5], payload |-> filled])
          /\ taken' = taken + 1
          /\ header' = <<>>
          /\ state' = "READING_HEADER"
  /\ UNCHANGED <<wire, sent, closed>>

-------------------------------------------------------------------------------
Send ==
  \/ \E t \in Types, content \in Payloads : SendMessage(t, content)
  \/ SendHeartbeat
  \/ \E frame \in ForeignFrames : SendForeign(frame)

Receive == \E n \in 1 .. INCOMING_BUFFER_SIZE : n <= Len(wire) /\ GotData(n)

Loop ==
  \/ HeaderIncomplete \/ ProtocolError
  \/ HandleHeartbeat \/ EmptyMessage \/ PayloadFollows
  \/ ReadPayload

Next == Send \/ Receive \/ Loop

Spec == Init /\ [][Next]_vars

(* got_data runs to its end, and the socket hands over what has come.       *)
FairSpec == Spec /\ WF_vars(Loop) /\ WF_vars(Receive)

-------------------------------------------------------------------------------
(* Properties.                                                              *)

TypeOK ==
  /\ wire \in Seq(Byte) /\ data \in Seq(Byte)
  /\ Len(data) <= INCOMING_BUFFER_SIZE
  /\ state \in {"READING_HEADER", "READING_PAYLOAD"}
  /\ header \in Seq(Byte) /\ Len(header) <= HEADER_SIZE
  /\ payload \in Seq(Byte) /\ Len(payload) <= MAX_MESSAGE_SIZE
  /\ closed \in BOOLEAN
  /\ sent \in Seq(Frame) /\ Len(sent) <= MaxFrames
  /\ taken \in 0 .. Len(sent)
  /\ delivered \in Seq([type : Byte, payload : Seq(Byte)])

(* The receiver is at the place in the stream where it takes itself to be:  *)
(* the bytes of the frames it is not done with are those it has of the      *)
(* current one, the rest of its chunk, and what is still to come.  So it    *)
(* never loses, repeats or misreads a byte, and when all bytes have been    *)
(* read no frame is left unfinished.                                        *)
InStep ==
  ~closed =>
    FlattenSeq([i \in 1 .. Len(sent) - taken |-> Bytes(sent[taken + i])])
      = header \o (IF state = "READING_PAYLOAD" THEN payload ELSE <<>>)
               \o data \o wire

(* What the peer's PMux sends, its PMux accepts: a connection is dropped    *)
(* for a protocol error only at a frame no PMux sends, or at a message of   *)
(* the type 0, which send_message sends and read_header refuses.            *)
FromPMux(frame) ==
  \/ frame = HeartbeatFrame
  \/ \E t \in Types \ {0}, content \in Payloads :
        Len(content) < MAX_MESSAGE_SIZE /\ frame = MessageFrame(t, content)

RefusesOnlyForeign == closed => ~FromPMux(sent[taken + 1])

(* What a frame means.                                                      *)
Meaning(frame) ==
  [kind |-> Kind(frame), type |-> frame.type, payload |-> frame.payload]

Stream == INSTANCE MessageStream WITH
  Frames <- {Meaning(frame) : frame \in
               {MessageFrame(t, content) : t \in Types, content \in Payloads}
                 \union {HeartbeatFrame} \union ForeignFrames},
  sent <- [i \in 1 .. Len(sent) |-> Meaning(sent[i])]

(* However the stream is cut into chunks, it is the same messages in the    *)
(* same order, each once, and an error at the first frame that is not of    *)
(* the protocol and nowhere else.                                           *)
ImplementsStream == Stream!Spec

(* Every frame is finished with once its bytes have come, whatever chunk    *)
(* its last byte came in, unless the connection is dropped.                 *)
FramesTaken ==
  \A n \in 1 .. MaxFrames : (Len(sent) >= n) ~> (taken >= n \/ closed)
===============================================================================
