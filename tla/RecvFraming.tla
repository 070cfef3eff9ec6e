----------------------------- MODULE RecvFraming -----------------------------
(***************************************************************************)
(* How the bytes of one connection become messages: NetMessage::Recv       *)
(* (net_message.cpp) in the loop of SocketServer::OnRecv (net_server.cpp). *)
(*                                                                         *)
(* A message is a head of HeadLen bytes, the first two of which hold the   *)
(* length of the body, and the body.  Recv asks the socket for what is     *)
(* missing of the head, then for what is missing of the message, and may   *)
(* be given less.  All lengths are uint16: GetLength() is the field plus   *)
(* HeadLen, taken modulo Modulus.                                          *)
(*                                                                         *)
(* When OnRecv runs is SocketServer's matter; here it may run at any time, *)
(* and EAGAIN, which changes nothing, is a stuttering step.                *)
(***************************************************************************)
EXTENDS Integers, Sequences

CONSTANTS
  Modulus,  \* 2^16
  MaxLen,   \* NETMSG_MAX_LEN
  HeadLen,  \* NETMSG_HEAD_LEN
  Fields,   \* what clients write in the length field
  LowByte,  \* the first of a uint16's two bytes in memory, as a uint16
  NumMsg    \* bound: messages a client writes

uint16 == 0..Modulus - 1

ASSUME ConstantsAssumption ==
  /\ Modulus \in Nat /\ MaxLen \in Nat /\ NumMsg \in Nat
  /\ HeadLen \in 2..Modulus - 1
  /\ Fields \subseteq uint16
  /\ LowByte \in [uint16 -> uint16]
  /\ \A f \in uint16 : LowByte[f] <= f

\* Clients that write no message longer than the maximum.
FieldsFit == MaxLen < Modulus /\ \A f \in Fields : f + HeadLen <= MaxLen

VARIABLES
  sent,       \* the length fields of the messages the client wrote
  peer,       \* "up", or "gone" once it has shut down or reset
  wire,       \* bytes written and not yet received
  m_msg,      \* the bytes received of the current message
  m_field,    \* the uint16 at the front of its buffer
  m_size,     \* the size of its buffer
  overrun,    \* a byte was received beyond the buffer: nothing is said from then
  delivered,  \* the messages given to AddMsg and accepted
  status      \* "open", "closed" by OnRecv, or "refused" by AddMsg

client == <<sent, peer>>
message == <<m_msg, m_field, m_size>>
vars == <<sent, peer, wire, m_msg, m_field, m_size, overrun, delivered, status>>

Promise == INSTANCE Framing

-----------------------------------------------------------------------------
(* The client.                                                             *)

ClientWrite(f) ==
  /\ peer = "up" /\ Len(sent) < NumMsg
  /\ sent' = Append(sent, f)
  /\ wire' = wire \o Promise!Message(Len(sent) + 1, f)
  /\ UNCHANGED <<peer, message, overrun, delivered, status>>

\* The end of the stream, perhaps in the middle of a message.
ClientGone ==
  /\ peer = "up"
  /\ \E n \in 0..Len(wire) : wire' = SubSeq(wire, 1, n)
  /\ peer' = "gone"
  /\ UNCHANGED <<sent, message, overrun, delivered, status>>

-----------------------------------------------------------------------------
(* NetMessage.                                                             *)

Wrap(n) == IF n < Modulus THEN n ELSE n - Modulus

GetLength(field) == Wrap(field + HeadLen)

RecvDone_HeadOnly(msg, field) == Len(msg) = HeadLen
RecvDone_BodyLength(msg, field) == Len(msg) = field
RecvDone(msg, field) == Len(msg) = GetLength(field)

\* The number of bytes Recv asks for.
Want_Whole ==
  IF Len(m_msg) < HeadLen THEN HeadLen - Len(m_msg) ELSE GetLength(m_field)
Want ==
  IF Len(m_msg) < HeadLen THEN HeadLen - Len(m_msg)
  ELSE GetLength(m_field) - Len(m_msg)

\* The numbers that the first two bytes of a buffer can spell.  Where a message
\* starts it is the client's field, elsewhere a body may hold anything.
Spelled(msg) == IF msg[1][2] = 1 THEN {sent[msg[1][1]]} ELSE uint16

\* The uint16 at the front once the bytes of msg are there.
FieldRead(msg, w) ==
  IF Len(m_msg) >= 2 THEN m_field
  ELSE IF Len(msg) = 1 THEN LowByte[w] ELSE w

\* Recv resizes the buffer when the head is complete.
HeadComplete(msg) == Len(m_msg) < HeadLen /\ Len(msg) = HeadLen
Size_Body(msg, field) == IF HeadComplete(msg) THEN field ELSE m_size
Size(msg, field) == IF HeadComplete(msg) THEN GetLength(field) ELSE m_size

\* A string that becomes shorter than the field has a zero written behind it.
Resized(field, size) ==
  CASE size = 0 -> field - LowByte[field]
    [] size = 1 -> LowByte[field]
    [] OTHER    -> field

-----------------------------------------------------------------------------
(* OnRecv.                                                                 *)

\* A new NetMessage, or none.
NewMessage == m_msg' = <<>> /\ m_field' = 0 /\ m_size' = HeadLen

\* The loop body, with the message as Recv leaves it.
LoopBody(msg, field, size) ==
  IF GetLength(field) > MaxLen
  THEN NewMessage /\ status' = "closed" /\ UNCHANGED delivered
  ELSE \/ /\ RecvDone(msg, field)
          /\ NewMessage
          /\ \/ delivered' = Append(delivered, msg) /\ UNCHANGED status
             \/ status' = "refused" /\ UNCHANGED delivered
       \/ /\ ~RecvDone(msg, field)
          /\ m_msg' = msg /\ m_field' = field /\ m_size' = size
          /\ UNCHANGED <<delivered, status>>

\* Recv is given n bytes.
Recv(n) ==
  /\ status = "open" /\ ~overrun
  /\ n <= Want /\ n <= Len(wire)
  /\ wire' = SubSeq(wire, n + 1, Len(wire))
  /\ LET msg == m_msg \o SubSeq(wire, 1, n)
     IN  /\ overrun' = (Len(msg) > m_size)
         /\ \E w \in Spelled(msg) :
              LET field == FieldRead(msg, w)
                  size  == Size(msg, field)
              IN  LoopBody(msg, Resized(field, size), size)
  /\ UNCHANGED client

\* Recv returns 0, or an error other than EAGAIN.
NothingToRecv ==
  \/ Len(m_msg) >= HeadLen /\ GetLength(m_field) < Len(m_msg)
  \/ wire = <<>> /\ peer = "gone"

RecvEnd ==
  /\ status = "open" /\ ~overrun
  /\ NothingToRecv
  /\ NewMessage /\ status' = "closed"
  /\ UNCHANGED <<client, wire, overrun, delivered>>

-----------------------------------------------------------------------------
Init ==
  /\ sent = <<>> /\ peer = "up" /\ wire = <<>>
  /\ m_msg = <<>> /\ m_field = 0 /\ m_size = HeadLen
  /\ overrun = FALSE /\ delivered = <<>> /\ status = "open"

RecvSome == \E n \in 1..Len(wire) : Recv(n)

Next ==
  \/ \E f \in Fields : ClientWrite(f)
  \/ ClientGone
  \/ RecvSome
  \/ RecvEnd

Spec == Init /\ [][Next]_vars

\* Bytes that were written arrive, and OnRecv is called when they do.
FairSpec == Spec /\ WF_vars(RecvSome)

-----------------------------------------------------------------------------
Byte == (1..NumMsg) \X (1..(HeadLen + Modulus))

TypeOK ==
  /\ sent \in Seq(Fields) /\ Len(sent) <= NumMsg
  /\ peer \in {"up", "gone"}
  /\ wire \in Seq(Byte)
  /\ m_msg \in Seq(Byte) /\ Len(m_msg) \in uint16  \* m_recvLen
  /\ m_field \in uint16 /\ m_size \in uint16
  /\ overrun \in BOOLEAN
  /\ delivered \in Seq(Seq(Byte))
  /\ status \in {"open", "closed", "refused"}

\* recv never writes beyond the string's bytes, which are resized to the
\* length that the head announces.
NoOverrun == ~overrun

\* OnRecv disconnects no client that is still there and within its quota.
ClosedForCause == status = "closed" => peer = "gone"

\* Messages are handed on whole and in order, whatever the chunks.
ImplementsFraming == Promise!Spec

\* A whole message is handed on unless the client goes away or is refused.
WholeMessageDelivered ==
  \A k \in 1..NumMsg :
    Len(sent) >= k ~> Len(delivered) >= k \/ peer = "gone" \/ status = "refused"

\* const_define.h:35: NETMSG_MAX_LEN is the longest message.  Recv and OnRecv
\* both test for it: nothing of a longer message is handed on.
LongMessageRefused ==
  \A i \in DOMAIN delivered :
    sent[delivered[i][1][1]] + HeadLen <= MaxLen
=============================================================================
