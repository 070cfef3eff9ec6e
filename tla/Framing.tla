------------------------------- MODULE Framing -------------------------------
(***************************************************************************)
(* What receiving promises (NetMessage::Recv under SocketServer::OnRecv):  *)
(* of the messages a client writes to its connection, a prefix is handed   *)
(* on, each one whole and in order, however TCP cuts the stream.           *)
(***************************************************************************)
EXTENDS Integers, Sequences

CONSTANTS
  HeadLen,  \* NETMSG_HEAD_LEN: bytes before the body
  Fields,   \* what clients write in the length field: bytes in the body
  NumMsg    \* bound: messages a client writes

VARIABLES
  sent,      \* the length fields of the messages written so far
  delivered  \* the messages handed on, each a sequence of bytes

frVars == <<sent, delivered>>

\* The bytes of the k-th message, when its length field is f: byte <<k, o>> is
\* the o-th of message k.
Message(k, f) == [o \in 1..(HeadLen + f) |-> <<k, o>>]

Init == sent = <<>> /\ delivered = <<>>

Write(f) ==
  /\ Len(sent) < NumMsg
  /\ sent' = Append(sent, f)
  /\ UNCHANGED delivered

Deliver ==
  LET k == Len(delivered) + 1
  IN  /\ k <= Len(sent)
      /\ delivered' = Append(delivered, Message(k, sent[k]))
      /\ UNCHANGED sent

Next == (\E f \in Fields : Write(f)) \/ Deliver

Spec == Init /\ [][Next]_frVars
=============================================================================
