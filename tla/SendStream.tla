----------------------------- MODULE SendStream ------------------------------
(***************************************************************************)
(* How replies become the byte stream of one connection: SendMsg on the    *)
(* message thread and OnSend on the network thread (net_server.cpp), with  *)
(* NetMessage's Send, SendDone, Copy and Append (net_message.cpp).         *)
(*                                                                         *)
(* Both are critical sections of m_sendListMutex, so each is one step.     *)
(* The socket takes any part of what it is offered.  When OnSend runs is   *)
(* SocketServer's matter; here it may run whenever there is an entry.      *)
(* The buffer position m_sendBegin is a uint16.                            *)
(*                                                                         *)
(* send sets errno only when it takes nothing.  After it took a part, the  *)
(* errno that SendMsg tests is what an earlier call of the thread left -   *)
(* EBADF of a reply to a client that is gone, EAGAIN of PackDeal's last    *)
(* idle try_wait, anything - so the test may go either way.                *)
(* A connection that breaks is SocketServer's matter too: from then on     *)
(* nothing more is added to its stream.                                    *)
(***************************************************************************)
EXTENDS Integers, Sequences

CONSTANTS
  Modulus,   \* 2^16
  MaxLen,    \* NETMSG_MAX_LEN
  Lens,      \* the lengths of replies
  NumMsg     \* bound: replies made

uint16 == 0..Modulus - 1

ASSUME ConstantsAssumption ==
  /\ Modulus \in Nat /\ MaxLen \in uint16 /\ NumMsg \in Nat
  /\ Lens \subseteq uint16 \ {0}

VARIABLES
  made,         \* the lengths of the replies given to SendMsg
  refused,      \* the replies that Append refused, with a log entry
  cut,          \* history: the replies of which SendMsg dropped what send left
  stream,       \* the bytes that the socket has taken
  m_msg,        \* the buffer of the entry in m_sendMsgList, <<>> if there is none
  m_sendBegin,  \* the number of its bytes that were sent
  wrapped       \* m_sendBegin has wrapped: bound, OnSend repeats itself from then

vars == <<made, refused, cut, stream, m_msg, m_sendBegin, wrapped>>

\* Byte <<k, o>> is the o-th of reply k.
Reply(k, len) == [o \in 1..len |-> <<k, o>>]

-----------------------------------------------------------------------------
(* NetMessage.                                                             *)

Wrap(n) == IF n < Modulus THEN n ELSE n - Modulus

SendDone_Started(msg, begin) == begin > 0
SendDone(msg, begin) == begin >= Len(msg)

\* Copy: a new message of what is left to send.
Copy_FromStart(msg, begin) == msg
Copy(msg, begin) == SubSeq(msg, begin + 1, Len(msg))

\* Append drops what was sent, then adds, unless the buffer is full.
Full == Len(m_msg) >= MaxLen
AppendBegin_Kept == UNCHANGED m_sendBegin
AppendBegin == m_sendBegin' = 0
AppendMsg(msg) ==
  /\ m_msg' = SubSeq(m_msg, m_sendBegin + 1, Len(m_msg)) \o msg
  /\ AppendBegin

-----------------------------------------------------------------------------
(* SendMsg and OnSend.                                                     *)

\* Behind an entry a reply waits for it.
SendMsgBehind(len) ==
  /\ m_msg # <<>>
  /\ \/ /\ ~Full
        /\ AppendMsg(Reply(Len(made) + 1, len))
        /\ UNCHANGED refused
     \/ /\ Full
        /\ refused' = refused \cup {Len(made) + 1}
        /\ UNCHANGED <<m_msg, m_sendBegin>>
  /\ UNCHANGED <<cut, stream, wrapped>>

\* Otherwise it is sent.  What the socket does not take is kept if errno is
\* EAGAIN, as it is when the socket took nothing; if it took a part, errno may
\* be anything, and the rest may be dropped, without a log entry.
SendMsgDirect(len) ==
  /\ m_msg = <<>>
  /\ \E n \in 0..len :
       LET k   == Len(made) + 1
           msg == Reply(k, len)
       IN  /\ stream' = stream \o SubSeq(msg, 1, n)
           /\ \/ SendDone(msg, n) /\ m_msg' = <<>> /\ UNCHANGED cut
              \/ ~SendDone(msg, n) /\ m_msg' = Copy(msg, n) /\ UNCHANGED cut
              \/ ~SendDone(msg, n) /\ n > 0 /\ m_msg' = <<>> /\ cut' = cut \cup {k}
           /\ m_sendBegin' = 0
  /\ UNCHANGED <<refused, wrapped>>

SendMsg(len) ==
  /\ ~wrapped /\ Len(made) < NumMsg
  /\ made' = Append(made, len)
  /\ SendMsgBehind(len) \/ SendMsgDirect(len)

\* The socket takes n bytes; the entry is erased when all have been sent.
OnSend(n) ==
  /\ ~wrapped /\ m_msg # <<>>
  /\ n <= Len(m_msg) - m_sendBegin
  /\ stream' = stream \o SubSeq(m_msg, m_sendBegin + 1, m_sendBegin + n)
  /\ wrapped' = (m_sendBegin + n >= Modulus)
  /\ LET begin == Wrap(m_sendBegin + n)
     IN  \/ /\ SendDone(m_msg, begin)
            /\ m_msg' = <<>> /\ m_sendBegin' = 0
         \/ /\ ~SendDone(m_msg, begin)
            /\ m_sendBegin' = begin /\ UNCHANGED m_msg
  /\ UNCHANGED <<made, refused, cut>>

-----------------------------------------------------------------------------
Init ==
  /\ made = <<>> /\ refused = {} /\ cut = {} /\ stream = <<>>
  /\ m_msg = <<>> /\ m_sendBegin = 0 /\ wrapped = FALSE

Next ==
  \/ \E len \in Lens : SendMsg(len)
  \/ \E n \in 1..Len(m_msg) : OnSend(n)

Spec == Init /\ [][Next]_vars

-----------------------------------------------------------------------------
Byte == (1..NumMsg) \X uint16

TypeOK ==
  /\ made \in Seq(Lens) /\ Len(made) <= NumMsg
  /\ refused \subseteq 1..NumMsg /\ cut \subseteq 1..NumMsg
  /\ stream \in Seq(Byte)
  /\ m_msg \in Seq(Byte)
  /\ m_sendBegin \in uint16
  /\ ~wrapped => m_sendBegin <= Len(m_msg)
  /\ wrapped \in BOOLEAN

\* What the client has received and will receive if nothing more is sent.
Out == stream \o SubSeq(m_msg, m_sendBegin + 1, Len(m_msg))

\* A later reply begins.
NewReply(a, b) == b[2] = 1 /\ b[1] > a[1]

\* The byte after a byte: the next of its reply, or the first of a later one
\* if the reply is at its end or in broken.
Follows(a, b, broken) ==
  \/ a[2] < made[a[1]] /\ b = <<a[1], a[2] + 1>>
  \/ (a[2] = made[a[1]] \/ a[1] \in broken) /\ NewReply(a, b)

\* The stream is made of replies in the order they were made, each from its
\* first byte on, and each to its last one unless it is in broken.
MadeOfReplies(broken) ==
  ~wrapped /\ Out # <<>> =>
    /\ Out[1][2] = 1
    /\ \A i \in 1..Len(Out) - 1 : Follows(Out[i], Out[i + 1], broken)
    /\ LET z == Out[Len(Out)] IN z[2] = made[z[1]] \/ z[1] \in broken

\* However SendMsg and OnSend alternate and however little the socket takes,
\* the client's stream is the replies in order, with no byte repeated, skipped
\* or mixed into another reply; and only a reply of which SendMsg dropped the
\* rest in the very call that made it (net_server.cpp:229) ends early.
RepliesInOrder == MadeOfReplies(cut)

\* What SendMsg has kept, or Append has added, gets to the client to the last
\* byte: a reply is lost only when Append refuses it, or SendMsg drops it.
KeptArrives ==
  ~wrapped =>
    \A k \in DOMAIN made :
      k \in refused \cup cut \/ \E i \in DOMAIN Out : Out[i] = <<k, made[k]>>

-----------------------------------------------------------------------------
(* What a comment of the program says and the code does not do.            *)

\* const_define.h:36: a message has a protocol head of NETMSG_HEAD_LEN, and
\* with it its length: the client can tell the replies apart only when each
\* of them is whole.
WholeReplies == MadeOfReplies({})

=============================================================================
