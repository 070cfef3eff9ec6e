-------------------------- MODULE SocketServerProofs --------------------------
(***************************************************************************)
(* Theorems about SocketServer, for any clients, numbers of descriptors    *)
(* and messages, quota and send buffers: types, BytesBelongToFd,           *)
(* HandledInOrder, NoLostEdge and NoLeftoverReply.                         *)
(*                                                                         *)
(* IInv is their conjunction with what they need: where the network thread *)
(* is and which entries of the batch it has done (NetPhase, Working), which *)
(* descriptors are open and registered and for whom (Descriptors), what    *)
(* CloseConnect has cleared before it closes (Cleared), what EPOLLOUT is   *)
(* armed for (Armed), and the numbers of the messages a client has in hand, *)
(* in the queue and half received (InOrder).                               *)
(***************************************************************************)
EXTENDS SocketServer, Subsequence, SequenceTheorems, FiniteSetTheorems, TLAPS

-----------------------------------------------------------------------------
(* The invariant.                                                          *)

\* The places between the start of an entry and the end of CloseConnect.
InEntry == {"recv", "purge", "close", "erase"}

\* Where the network thread can be, and with which flags left.
NetPhase ==
  /\ net.pc \in InEntry \/ net.ev # {} => net.fd \in Fd
  /\ net.pc \in {"wait", "accept"} => net.ev = {}
  /\ net.pc \in InEntry => "IN" \notin net.ev
  /\ net.pc = "wait" => \A fd \in Fd \cup {Listener} : batch[fd] = {}

\* A registered descriptor is open, an open one belongs to one open client
\* and has a number OnRecv accepts; the clients waiting are others.
Descriptors ==
  /\ \A fd \in Fd : mask[fd] # {} => fdConn[fd] # NULL /\ "IN" \in mask[fd]
  /\ \A fd \in Fd :
       fdConn[fd] # NULL => fd < MAX_CONN /\ conn[fdConn[fd]].st = "open"
  /\ \A a, b \in Fd : fdConn[a] = fdConn[b] /\ fdConn[a] # NULL => a = b
  /\ \A i \in DOMAIN backlog : conn[backlog[i]].st = "backlog"
  /\ \A i, j \in DOMAIN backlog : backlog[i] = backlog[j] => i = j

\* Entries of the batch are of registered descriptors: only the thread that
\* works on an entry closes its descriptor, and it does so after epoll's DEL.
Working ==
  /\ \A fd \in Fd : batch[fd] # {} => mask[fd] # {}
  /\ net.pc \in InEntry \/ net.ev # {} => batch[net.fd] = {}
  /\ net.pc = "recv" \/ "IN" \in net.ev => mask[net.fd] # {}
  /\ net.pc \in {"close", "erase"} => mask[net.fd] = {}

\* Nothing received is left under a number that is about to be closed.
Cleared ==
  /\ net.pc \in {"purge", "close"} => m_recvMsgList[net.fd] = <<>>
  /\ net.pc = "close" => \A i \in DOMAIN queue : queue[i].sock # net.fd

\* EPOLLOUT is armed while replies wait, or the message thread is about to arm it.
Armed ==
  \A fd \in Fd :
    m_sendMsgList[fd] # <<>> /\ mask[fd] # {} =>
      "OUT" \in mask[fd] \/ (deal.pc = "arm" /\ deal.sock = fd)

\* The message thread between GetMsg and the deletion of its message.
Hand ==
  /\ deal.pc = "call" => deal.pMsg = NULL
  /\ deal.pc = "arm" => deal.pMsg # NULL
  /\ deal.pMsg # NULL => deal.sock \in Fd

\* A client that is not accepted yet has not been heard.
Unheard ==
  \A c \in Conn :
    conn[c].st \in {"new", "backlog"} =>
      conn[c].read = 0 /\ handled[c] = 0 /\ (deal.pMsg # NULL => Sender # c)

\* The message of a client that ends with unit n of its stream.
EndingAt(c, n) == << <<c, n - 1>>, <<c, n>> >>
End(pMsg) == pMsg[2][2]

\* The units of c in the messages that the message thread has got.
InHand(c) == deal.pc = "ret" /\ deal.pMsg # NULL /\ Sender = c
TakenUnits(c) == 2 * handled[c] + (IF InHand(c) THEN 2 ELSE 0)

From(c) == {i \in DOMAIN queue : queue[i].pMsg[1][1] = c}

\* The queue holds a run of each client's messages that starts right after
\* those taken.
RunInQueue(c) ==
  /\ InHand(c) => deal.pMsg = EndingAt(c, TakenUnits(c))
  /\ \A i \in From(c) :
       LET n == End(queue[i].pMsg)
       IN  /\ queue[i].pMsg = EndingAt(c, n)
           /\ n > TakenUnits(c)
           /\ n = TakenUnits(c) + 2 \/ \E j \in From(c) : End(queue[j].pMsg) = n - 2
  /\ \A i, j \in From(c) : i < j => End(queue[i].pMsg) < End(queue[j].pMsg)

\* What has been read of a client ends with the partial message, unless the
\* descriptor is being closed, and before that the run in the queue ends.
RunIsRead(fd) ==
  LET c == fdConn[fd]
      whole == conn[c].read - Len(m_recvMsgList[fd])
  IN  /\ m_recvMsgList[fd] \in {<<>>, << <<c, conn[c].read>> >>}
      /\ ~ (net.fd = fd /\ net.pc \in {"purge", "close"}) =>
           /\ \A i \in From(c) : End(queue[i].pMsg) <= whole
           /\ whole = TakenUnits(c) \/ \E i \in From(c) : End(queue[i].pMsg) = whole

InOrder ==
  /\ \A c \in Conn : RunInQueue(c)
  /\ \A fd \in Fd : fdConn[fd] # NULL => RunIsRead(fd)

IInv ==
  /\ TypeOK
  /\ NetPhase
  /\ Descriptors
  /\ Working
  /\ Cleared
  /\ Hand
  /\ Unheard
  /\ BytesBelongToFd
  /\ InOrder
  /\ Armed
  /\ NoLostReadEdge
  /\ NoLostWriteEdge
  /\ NoLeftoverReply

-----------------------------------------------------------------------------
(* Types.                                                                  *)

ConnState ==
  [st : {"new", "backlog", "open", "closed"}, sent : 0..2 * NumMsg,
   read : 0..2 * NumMsg, peer : {"up", "fin", "rst"}, tx : Seq(Conn)]
ConnOK(cs) ==
  /\ cs \in [Conn -> ConnState]
  /\ \A c \in Conn : Len(cs[c].tx) <= TxCap /\ cs[c].read <= cs[c].sent
NetState ==
  [pc : {"wait", "event", "recv", "purge", "close", "erase", "accept"},
   fd : Fd \cup {Listener}, ev : SUBSET Events]
DealState ==
  [pc : {"call", "ret", "arm"}, sock : Fd \cup {NULL}, pMsg : Message \cup {NULL}]

\* A set of numbers that is not empty has a least one, so Min is defined.
LEMMA LeastNumber ==
  ASSUME NEW T \in SUBSET Nat, T # {}
  PROVE  \E x \in T : \A y \in T : x <= y
<1>1. IsWellFoundedOn(OpToRel(<, Nat), Nat)
  BY NatLessThanWellFounded
<1>2. PICK x \in T : \A y \in T : ~ (<<y, x>> \in OpToRel(<, Nat))
  BY <1>1, WFMin
<1>3. \A y \in T : ~ (y < x)
  BY <1>2 DEF OpToRel
<1> QED BY <1>3

LEMMA TypeParts ==
  TypeOK <=> /\ ConnOK(conn)
             /\ backlog \in Seq(Conn)
             /\ fdConn \in [Fd -> Conn \cup {NULL}]
             /\ mask \in [Fd -> SUBSET {"IN", "OUT"}]
             /\ ready \subseteq Fd \cup {Listener}
             /\ m_recvMsgList \in [Fd -> Seq(Unit)]
             /\ m_sendMsgList \in [Fd -> Seq(Conn)]
             /\ queue \in Seq([sock : Fd, pMsg : Message])
             /\ net \in NetState
             /\ batch \in [Fd \cup {Listener} -> SUBSET Events]
             /\ deal \in DealState
             /\ handled \in [Conn -> 0..NumMsg]
BY DEF TypeOK, ConnOK, ConnState, NetState, DealState

LEMMA Constants ==
  /\ Fd \subseteq Nat /\ Listener \notin Fd
  /\ NumMsg \in Nat /\ TxCap \in Nat /\ MAX_CONN \in Nat
  /\ NULL \notin Conn /\ NULL \notin Message
BY ConstantsAssumption DEF Fd, Listener

-----------------------------------------------------------------------------
(* What the steps do to a client, in a form that needs no nested EXCEPT.   *)

\* One client changes, in one field.
Changed(c, st, sent, read, peer, tx) ==
  /\ conn' = [x \in Conn |-> IF x = c
                THEN [st |-> st, sent |-> sent, read |-> read, peer |-> peer, tx |-> tx]
                ELSE conn[x]]

LEMMA ChangedOK ==
  ASSUME ConnOK(conn), NEW c \in Conn,
         NEW st \in {"new", "backlog", "open", "closed"}, NEW sent \in 0..2 * NumMsg,
         NEW read \in 0..2 * NumMsg, NEW peer \in {"up", "fin", "rst"},
         NEW tx \in Seq(Conn), Len(tx) <= TxCap, read <= sent,
         Changed(c, st, sent, read, peer, tx)
  PROVE  ConnOK(conn')
BY DEF Changed, ConnOK, ConnState

LEMMA FieldChanges ==
  ASSUME ConnOK(conn), NEW c \in Conn, NEW v
  PROVE  LET s == conn[c] IN
         /\ conn' = [conn EXCEPT ![c].st = v] => Changed(c, v, s.sent, s.read, s.peer, s.tx)
         /\ conn' = [conn EXCEPT ![c].sent = v] => Changed(c, s.st, v, s.read, s.peer, s.tx)
         /\ conn' = [conn EXCEPT ![c].read = v] => Changed(c, s.st, s.sent, v, s.peer, s.tx)
         /\ conn' = [conn EXCEPT ![c].peer = v] => Changed(c, s.st, s.sent, s.read, v, s.tx)
         /\ conn' = [conn EXCEPT ![c].tx = v] => Changed(c, s.st, s.sent, s.read, s.peer, v)
         /\ conn' = [x \in Conn |-> IF x = c THEN [conn[x] EXCEPT !.tx = v] ELSE conn[x]]
              => Changed(c, s.st, s.sent, s.read, s.peer, v)
         /\ conn' = [x \in Conn |-> IF x = c THEN [conn[x] EXCEPT !.st = "closed", !.tx = v]
                                    ELSE conn[x]]
              => Changed(c, "closed", s.sent, s.read, s.peer, v)
<1> SUFFICES ASSUME conn \in [Conn -> ConnState]
             PROVE  LET s == conn[c] IN
         /\ conn' = [conn EXCEPT ![c].st = v] => Changed(c, v, s.sent, s.read, s.peer, s.tx)
         /\ conn' = [conn EXCEPT ![c].sent = v] => Changed(c, s.st, v, s.read, s.peer, s.tx)
         /\ conn' = [conn EXCEPT ![c].read = v] => Changed(c, s.st, s.sent, v, s.peer, s.tx)
         /\ conn' = [conn EXCEPT ![c].peer = v] => Changed(c, s.st, s.sent, s.read, v, s.tx)
         /\ conn' = [conn EXCEPT ![c].tx = v] => Changed(c, s.st, s.sent, s.read, s.peer, v)
         /\ conn' = [x \in Conn |-> IF x = c THEN [conn[x] EXCEPT !.tx = v] ELSE conn[x]]
              => Changed(c, s.st, s.sent, s.read, s.peer, v)
         /\ conn' = [x \in Conn |-> IF x = c THEN [conn[x] EXCEPT !.st = "closed", !.tx = v]
                                    ELSE conn[x]]
              => Changed(c, "closed", s.sent, s.read, s.peer, v)
  BY DEF ConnOK
<1> QED BY DEF Changed, ConnState

LEMMA ClientChanges ==
  ASSUME ConnOK(conn), NEW c \in Conn
  PROVE  LET s == conn[c] IN
         /\ ClientConnect(c) => Changed(c, "backlog", s.sent, s.read, s.peer, s.tx)
         /\ ClientSend(c) => Changed(c, s.st, s.sent + 1, s.read, s.peer, s.tx)
         /\ ClientFin(c) => Changed(c, s.st, s.sent, s.read, "fin", s.tx)
         /\ ClientRst(c) => Changed(c, s.st, s.sent, s.read, "rst", s.tx)
         /\ ClientRead(c) => Changed(c, s.st, s.sent, s.read, s.peer, Tail(s.tx))
BY FieldChanges DEF ClientConnect, ClientSend, ClientFin, ClientRst, ClientRead

LEMMA Unchanged ==
  ASSUME UNCHANGED conn, ConnOK(conn) PROVE ConnOK(conn')
BY DEF ConnOK

\* The client a message names, and the numbers in it.
LEMMA MessageParts ==
  ASSUME NEW m \in Message
  PROVE  /\ m[1][1] \in Conn /\ m[2][1] \in Conn
         /\ m[1][2] \in 1..2 * NumMsg /\ m[2][2] \in 1..2 * NumMsg
         /\ m = << <<m[1][1], m[1][2]>>, <<m[2][1], m[2][2]>> >>
         /\ m # NULL
BY Constants DEF Message, Unit

LEMMA SenderIs ==
  ASSUME TypeOK, deal.pMsg # NULL
  PROVE  deal.pMsg \in Message /\ Sender \in Conn
<1>1. deal.pMsg \in Message
  BY TypeParts DEF DealState
<1> QED BY <1>1, MessageParts DEF Sender

\* What waits under a descriptor of m_recvMsgList is a unit at most.
LEMMA ReadsUnit ==
  ASSUME IInv, net.pc = "recv", net.fd < MAX_CONN
  PROVE  /\ net.fd \in Fd
         /\ fdConn[net.fd] \in Conn
         /\ conn[fdConn[net.fd]].st = "open"
         /\ mask[net.fd] # {}
<1>1. net.fd \in Fd
  BY DEF IInv, NetPhase, InEntry
<1>2. mask[net.fd] # {}
  BY DEF IInv, Working
<1>3. fdConn[net.fd] # NULL
  BY <1>1, <1>2 DEF IInv, Descriptors
<1>4. fdConn[net.fd] \in Conn
  BY <1>1, <1>3, TypeParts DEF IInv
<1> QED BY <1>1, <1>2, <1>3, <1>4 DEF IInv, Descriptors

LEMMA RecvUnitChanges ==
  ASSUME IInv, RecvUnit
  PROVE  LET c == fdConn[net.fd]
             s == conn[c]
         IN  /\ Changed(c, s.st, s.sent, s.read + 1, s.peer, s.tx)
             /\ s.read + 1 \in 1..2 * NumMsg /\ s.read + 1 <= s.sent
             /\ <<c, s.read + 1>> \in Unit
<1> DEFINE c == fdConn[net.fd]
<1>1. net.pc = "recv" /\ net.fd < MAX_CONN
  BY DEF RecvUnit
<1>2. c \in Conn
  BY <1>1, ReadsUnit
<1>3. conn \in [Conn -> ConnState]
  BY TypeParts DEF IInv, ConnOK
<1>4. Rx(c) > 0 /\ conn' = [conn EXCEPT ![c].read = @ + 1]
  BY DEF RecvUnit
<1>5. Changed(c, conn[c].st, conn[c].sent, conn[c].read + 1, conn[c].peer, conn[c].tx)
  <2> HIDE DEF c
  <2> QED BY <1>2, <1>4, FieldChanges, TypeParts DEF IInv
<1>6. conn[c].read + 1 \in 1..2 * NumMsg /\ conn[c].read + 1 <= conn[c].sent
  BY <1>2, <1>3, <1>4, Constants DEF ConnState, Rx
<1> QED BY <1>2, <1>5, <1>6 DEF Unit

LEMMA CloseFdChanges ==
  ASSUME IInv, CloseFd
  PROVE  LET c == fdConn[net.fd]
             s == conn[c]
         IN  /\ net.fd \in Fd
             /\ c \in Conn => Changed(c, "closed", s.sent, s.read, s.peer, <<>>)
             /\ c \notin Conn => UNCHANGED conn
<1> DEFINE c == fdConn[net.fd]
<1>1. net.fd \in Fd
  BY DEF IInv, NetPhase, InEntry, CloseFd
<1>2. conn \in [Conn -> ConnState]
  BY TypeParts DEF IInv, ConnOK
<1>3. conn' = [x \in Conn |-> IF x = c THEN [conn[x] EXCEPT !.st = "closed", !.tx = <<>>]
                              ELSE conn[x]]
  BY DEF CloseFd
<1>4. ASSUME c \in Conn
      PROVE  Changed(c, "closed", conn[c].sent, conn[c].read, conn[c].peer, <<>>)
  <2> HIDE DEF c
  <2> QED BY <1>3, <1>4, FieldChanges, TypeParts DEF IInv
<1>5. ASSUME c \notin Conn PROVE UNCHANGED conn
  <2>1. conn = [x \in Conn |-> conn[x]]
    BY <1>2
  <2>2. conn' = [x \in Conn |-> conn[x]]
    BY <1>3, <1>5
  <2> QED BY <2>1, <2>2
<1> QED BY <1>1, <1>4, <1>5

LEMMA AcceptChanges ==
  ASSUME IInv, Accept
  PROVE  LET c == Head(backlog)
             s == conn[c]
             fd == Min(FreeFds)
         IN  /\ c \in Conn /\ s.st = "backlog"
             /\ fd \in Fd /\ fdConn[fd] = NULL
             /\ \/ /\ Changed(c, "open", s.sent, s.read, s.peer, s.tx)
                   /\ fd < MAX_CONN
                   /\ fdConn' = [fdConn EXCEPT ![fd] = c]
                   /\ Ctl(fd, c, {"IN"})
                \/ /\ Changed(c, "closed", s.sent, s.read, s.peer, s.tx)
                   /\ UNCHANGED <<fdConn, mask, ready>>
<1> DEFINE c == Head(backlog)
           fd == Min(FreeFds)
<1>1. backlog \in Seq(Conn) /\ backlog # <<>>
  BY TypeParts DEF IInv, Accept
<1>2. c \in Conn /\ c = backlog[1] /\ 1 \in DOMAIN backlog
  BY <1>1
<1>3. conn[c].st = "backlog"
  BY <1>2 DEF IInv, Descriptors
<1>4. fd \in FreeFds
  <2>1. FreeFds \in SUBSET Nat /\ FreeFds # {}
    BY Constants DEF FreeFds, Accept
  <2>2. \E x \in FreeFds : \A y \in FreeFds : x <= y
    BY <2>1, LeastNumber
  <2> QED BY <2>2 DEF Min
<1>5. fd \in Fd /\ fdConn[fd] = NULL
  BY <1>4 DEF FreeFds
<1>6. conn \in [Conn -> ConnState]
  BY TypeParts DEF IInv, ConnOK
<1>7. \A st : conn' = [conn EXCEPT ![c].st = st] =>
        Changed(c, st, conn[c].sent, conn[c].read, conn[c].peer, conn[c].tx)
  <2> HIDE DEF c
  <2> QED BY <1>2, FieldChanges, TypeParts DEF IInv
<1>8. \/ /\ fd < MAX_CONN
         /\ fdConn' = [fdConn EXCEPT ![fd] = c]
         /\ conn' = [conn EXCEPT ![c].st = "open"]
         /\ Ctl(fd, c, {"IN"})
      \/ /\ conn' = [conn EXCEPT ![c].st = "closed"]
         /\ UNCHANGED <<fdConn, mask, ready>>
  BY DEF Accept
<1> HIDE DEF c, fd
<1> QED BY <1>2, <1>3, <1>5, <1>7, <1>8 DEF c, fd

LEMMA Cut ==
  ASSUME NEW S, NEW s \in Seq(S), NEW n \in 0..Len(s)
  PROVE  /\ SubSeq(s, 1, n) \in Seq(S) /\ Len(SubSeq(s, 1, n)) = n
         /\ SubSeq(s, n + 1, Len(s)) \in Seq(S)
         /\ SubSeq(s, n + 1, Len(s)) = <<>> <=> n = Len(s)
<1>1. /\ SubSeq(s, 1, n) \in Seq(S) /\ Len(SubSeq(s, 1, n)) = n
      /\ SubSeq(s, n + 1, Len(s)) \in Seq(S)
      /\ Len(SubSeq(s, n + 1, Len(s))) = Len(s) - n
  OBVIOUS
<1>2. SubSeq(s, n + 1, Len(s)) = <<>> <=> Len(SubSeq(s, n + 1, Len(s))) = 0
  BY <1>1, EmptySeq
<1> QED BY <1>1, <1>2

LEMMA EventOutChanges ==
  ASSUME IInv, EventOut
  PROVE  LET c == fdConn[net.fd]
             s == conn[c]
             msg == m_sendMsgList[net.fd]
         IN  /\ net.fd \in Fd
             /\ \/ msg = <<>> /\ UNCHANGED <<conn, m_sendMsgList, mask, ready>>
                \/ \E n \in 0..Len(msg) :
                     LET rest == SubSeq(msg, n + 1, Len(msg)) IN
                     /\ msg # <<>>
                     /\ \/ /\ c \in Conn
                           /\ LET tx == s.tx \o SubSeq(msg, 1, n)
                              IN  /\ Changed(c, s.st, s.sent, s.read, s.peer, tx)
                                  /\ tx \in Seq(Conn) /\ Len(tx) <= TxCap
                                  /\ Len(tx) = Len(s.tx) + n
                                  /\ n = Len(msg) \/ s.peer = "rst" \/ Len(tx) = TxCap
                        \/ c = NULL /\ UNCHANGED conn
                     /\ m_sendMsgList' = [m_sendMsgList EXCEPT ![net.fd] = rest]
                     /\ rest \in Seq(Conn)
                     /\ rest = <<>> <=> n = Len(msg)
                     /\ IF rest = <<>> THEN CtlMod(net.fd, {"IN"})
                                       ELSE UNCHANGED <<mask, ready>>
<1> DEFINE c == fdConn[net.fd]
           msg == m_sendMsgList[net.fd]
           room == IF c = NULL \/ conn[c].peer = "rst" THEN 0 ELSE TxCap - Len(conn[c].tx)
           n == Min({room, Len(msg)})
           rest == SubSeq(msg, n + 1, Len(msg))
<1>1. net.fd \in Fd
  BY DEF IInv, NetPhase, EventOut
<1>2. /\ conn \in [Conn -> ConnState]
      /\ \A x \in Conn : Len(conn[x].tx) <= TxCap
      /\ c \in Conn \cup {NULL}
      /\ msg \in Seq(Conn)
  BY <1>1, TypeParts DEF IInv, ConnOK
<1>3. \A x \in Conn : conn[x].tx \in Seq(Conn) /\ Len(conn[x].tx) \in Nat
  BY <1>2 DEF ConnState
<1>4. room \in Nat /\ Len(msg) \in Nat /\ TxCap \in Nat
  BY <1>2, <1>3, Constants
<1>5. n \in Nat /\ n <= room /\ n <= Len(msg) /\ (n = room \/ n = Len(msg))
  <2>1. \E x \in {room, Len(msg)} : \A y \in {room, Len(msg)} : x <= y
    BY <1>4
  <2> HIDE DEF room
  <2> QED BY <1>4, <2>1 DEF Min
<1>6. /\ rest \in Seq(Conn) /\ SubSeq(msg, 1, n) \in Seq(Conn)
      /\ Len(SubSeq(msg, 1, n)) = n
      /\ rest = <<>> <=> n = Len(msg)
  <2> HIDE DEF n, msg
  <2> QED BY <1>2, <1>4, <1>5, Cut
<1>7. ASSUME msg # <<>>
      PROVE  /\ conn' = [x \in Conn |-> IF x = c THEN [conn[x] EXCEPT !.tx = @ \o SubSeq(msg, 1, n)]
                                         ELSE conn[x]]
             /\ m_sendMsgList' = [m_sendMsgList EXCEPT ![net.fd] = rest]
             /\ AfterSend(net.fd, rest)
  BY <1>7 DEF EventOut
<1>8. ASSUME msg # <<>>, c \in Conn
      PROVE  LET tx == conn[c].tx \o SubSeq(msg, 1, n)
             IN  /\ Changed(c, conn[c].st, conn[c].sent, conn[c].read, conn[c].peer, tx)
                 /\ tx \in Seq(Conn) /\ Len(tx) = Len(conn[c].tx) + n
                 /\ Len(tx) <= TxCap
                 /\ n = Len(msg) \/ conn[c].peer = "rst" \/ Len(tx) = TxCap
  <2>1. \A d : conn' = [x \in Conn |-> IF x = c THEN [conn[x] EXCEPT !.tx = @ \o d] ELSE conn[x]]
          => Changed(c, conn[c].st, conn[c].sent, conn[c].read, conn[c].peer, conn[c].tx \o d)
    <3>1. \A d : [x \in Conn |-> IF x = c THEN [conn[x] EXCEPT !.tx = @ \o d] ELSE conn[x]]
              = [x \in Conn |-> IF x = c THEN [conn[x] EXCEPT !.tx = conn[c].tx \o d] ELSE conn[x]]
      OBVIOUS
    <3> HIDE DEF c
    <3> QED BY <1>8, <3>1, FieldChanges, TypeParts DEF IInv
  <2>2. /\ conn[c].tx \o SubSeq(msg, 1, n) \in Seq(Conn)
        /\ Len(conn[c].tx \o SubSeq(msg, 1, n)) = Len(conn[c].tx) + n
    <3> HIDE DEF n
    <3> QED BY <1>3, <1>6, <1>8
  <2>3. room <= TxCap - Len(conn[c].tx)
    <3>1. Len(conn[c].tx) \in Nat /\ Len(conn[c].tx) <= TxCap
      BY <1>2, <1>3, <1>8
    <3>2. ASSUME NEW x \in Nat, x <= TxCap, NEW b \in BOOLEAN
          PROVE  (IF b THEN 0 ELSE TxCap - x) <= TxCap - x
      BY <1>4, <3>2
    <3> HIDE DEF c
    <3> QED BY <3>1, <3>2
  <2>4. n = Len(msg) \/ conn[c].peer = "rst" \/ n = TxCap - Len(conn[c].tx)
    <3>1. c # NULL
      BY <1>8, Constants
    <3>2. conn[c].peer = "rst" \/ room = TxCap - Len(conn[c].tx)
      BY <3>1
    <3> HIDE DEF n, room
    <3> QED BY <1>5, <3>2
  <2>5. Changed(c, conn[c].st, conn[c].sent, conn[c].read, conn[c].peer, conn[c].tx \o SubSeq(msg, 1, n))
    BY <1>7, <1>8, <2>1
  <2>6. Len(conn[c].tx) \in Nat
    BY <1>3, <1>8
  <2>7. \A a, b, m \in Nat : b = a + m /\ m <= room /\ room <= TxCap - a => b <= TxCap
    <3> HIDE DEF room
    <3> QED BY <1>4
  <2>8. \A a, b, m \in Nat : b = a + m /\ m = TxCap - a => b = TxCap
    BY <1>4
  <2>9. Len(conn[c].tx \o SubSeq(msg, 1, n)) \in Nat
    BY <2>2
  <2>10. /\ Len(conn[c].tx \o SubSeq(msg, 1, n)) <= TxCap
         /\ n = Len(msg) \/ conn[c].peer = "rst" \/ Len(conn[c].tx \o SubSeq(msg, 1, n)) = TxCap
    <3> HIDE DEF n, room
    <3> QED BY <1>5, <2>2, <2>3, <2>4, <2>6, <2>7, <2>8, <2>9
  <2> HIDE DEF n, room
  <2> QED BY <2>2, <2>5, <2>10
<1>9. ASSUME msg # <<>>, c = NULL PROVE UNCHANGED conn
  <2>1. c \notin Conn
    BY <1>9, Constants
  <2>2. conn' = [x \in Conn |-> conn[x]]
    BY <1>7, <1>9, <2>1
  <2> QED BY <1>2, <2>2
<1>10. CASE msg = <<>>
  BY <1>1, <1>10 DEF EventOut
<1>11. CASE msg # <<>>
  <2>1. n \in 0..Len(msg)
    BY <1>4, <1>5
  <2>2. IF rest = <<>> THEN CtlMod(net.fd, {"IN"}) ELSE UNCHANGED <<mask, ready>>
    BY <1>7, <1>11 DEF AfterSend
  <2> HIDE DEF n
  <2> QED BY <1>1, <1>2, <1>6, <1>7, <1>8, <1>9, <1>11, <2>1, <2>2
<1> QED BY <1>10, <1>11

\* The three outcomes of PTL_Test's SendMsg up to its epoll_ctl, and nothing sent.
LEMMA DespatchTestChanges ==
  ASSUME IInv, DespatchTest
  PROVE  LET fd == deal.sock
             c == fdConn[fd]
             s == conn[c]
         IN  /\ fd \in Fd /\ Sender \in Conn
             /\ \/ /\ m_sendMsgList[fd] # <<>>
                   /\ m_sendMsgList' = [m_sendMsgList EXCEPT ![fd] = Append(@, Sender)]
                   /\ List!Done /\ UNCHANGED conn
                \/ /\ c \in Conn /\ Len(Append(s.tx, Sender)) <= TxCap
                   /\ Append(s.tx, Sender) \in Seq(Conn)
                   /\ Changed(c, s.st, s.sent, s.read, s.peer, Append(s.tx, Sender))
                   /\ List!Done /\ UNCHANGED m_sendMsgList
                \/ /\ c \in Conn
                   /\ s.peer # "rst" /\ Len(s.tx) = TxCap
                   /\ m_sendMsgList' = [m_sendMsgList EXCEPT ![fd] = <<Sender>>]
                   /\ deal' = [deal EXCEPT !.pc = "arm"]
                   /\ UNCHANGED <<conn, queue>>
                \/ List!Done /\ UNCHANGED <<conn, m_sendMsgList>>
<1> DEFINE fd == deal.sock
           c == fdConn[fd]
<1>1. fd \in Fd /\ Sender \in Conn
  BY SenderIs DEF IInv, Hand, DespatchTest
<1>2. conn \in [Conn -> ConnState] /\ c \in Conn \cup {NULL}
  BY <1>1, TypeParts DEF IInv, ConnOK
<1>3. ASSUME c \in Conn, Len(conn[c].tx) < TxCap,
             conn' = [conn EXCEPT ![c].tx = Append(@, Sender)]
      PROVE  /\ Len(Append(conn[c].tx, Sender)) <= TxCap
             /\ Append(conn[c].tx, Sender) \in Seq(Conn)
             /\ Changed(c, conn[c].st, conn[c].sent, conn[c].read, conn[c].peer,
                        Append(conn[c].tx, Sender))
  <2>1. Changed(c, conn[c].st, conn[c].sent, conn[c].read, conn[c].peer,
                Append(conn[c].tx, Sender))
    <3> HIDE DEF c
    <3> QED BY <1>3, FieldChanges, TypeParts DEF IInv
  <2>2. conn[c].tx \in Seq(Conn)
    BY <1>2, <1>3 DEF ConnState
  <2> QED BY <1>1, <1>3, <2>1, <2>2, Constants
<1> QED BY <1>1, <1>2, <1>3 DEF DespatchTest

LEMMA ChangedIs ==
  ASSUME NEW c \in Conn, NEW st, NEW sent, NEW read, NEW peer, NEW tx,
         Changed(c, st, sent, read, peer, tx)
  PROVE  /\ conn'[c].st = st /\ conn'[c].sent = sent /\ conn'[c].read = read
         /\ conn'[c].peer = peer /\ conn'[c].tx = tx
         /\ \A x \in Conn : x # c => conn'[x] = conn[x]
BY DEF Changed

LEMMA CtlType ==
  ASSUME mask \in [Fd -> SUBSET {"IN", "OUT"}], ready \subseteq Fd \cup {Listener},
         NEW fd \in Fd, NEW c, NEW events \in SUBSET {"IN", "OUT"},
         CtlMod(fd, events) \/ Ctl(fd, c, events)
  PROVE  mask' \in [Fd -> SUBSET {"IN", "OUT"}] /\ ready' \subseteq Fd \cup {Listener}
BY DEF CtlMod, Ctl

LEMMA DoneType ==
  ASSUME deal \in DealState, List!Done PROVE deal' \in DealState /\ queue' = queue
BY DEF List!Done, DealState

LEMMA ConnOf ==
  ASSUME ConnOK(conn), NEW c \in Conn
  PROVE  /\ conn[c].st \in {"new", "backlog", "open", "closed"}
         /\ conn[c].sent \in 0..2 * NumMsg
         /\ conn[c].read \in 0..2 * NumMsg
         /\ conn[c].peer \in {"up", "fin", "rst"}
         /\ conn[c].tx \in Seq(Conn)
         /\ Len(conn[c].tx) <= TxCap
         /\ conn[c].read <= conn[c].sent
BY DEF ConnOK, ConnState

LEMMA ClientType ==
  ASSUME ConnOK(conn), NEW c \in Conn, Client(c)
  PROVE  ConnOK(conn')
<1>1. CASE ClientConnect(c)
  BY <1>1, ClientChanges, ConnOf, ChangedOK
<1>2. CASE ClientSend(c)
  <2>1. conn[c].sent + 1 \in 0..2 * NumMsg /\ conn[c].read <= conn[c].sent + 1
    BY <1>2, ConnOf, Constants DEF ClientSend
  <2> QED BY <1>2, <2>1, ClientChanges, ConnOf, ChangedOK
<1>3. CASE ClientFin(c)
  BY <1>3, ClientChanges, ConnOf, ChangedOK
<1>4. CASE ClientRst(c)
  BY <1>4, ClientChanges, ConnOf, ChangedOK
<1>5. CASE ClientRead(c)
  <2>1. Tail(conn[c].tx) \in Seq(Conn) /\ Len(Tail(conn[c].tx)) <= TxCap
    <3>1. conn[c].tx \in Seq(Conn) /\ conn[c].tx # <<>> /\ Len(conn[c].tx) <= TxCap
      BY <1>5, ConnOf DEF ClientRead
    <3>2. /\ Tail(conn[c].tx) \in Seq(Conn)
          /\ Len(Tail(conn[c].tx)) = Len(conn[c].tx) - 1
          /\ Len(conn[c].tx) \in Nat
      BY <3>1
    <3> QED BY <3>1, <3>2, Constants
  <2> DEFINE tx == Tail(conn[c].tx)
  <2>2. Changed(c, conn[c].st, conn[c].sent, conn[c].read, conn[c].peer, tx)
    BY <1>5, ClientChanges
  <2>3. tx \in Seq(Conn) /\ Len(tx) <= TxCap
    BY <2>1
  <2> HIDE DEF tx
  <2> QED BY <2>2, <2>3, ConnOf, ChangedOK
<1> QED BY <1>1, <1>2, <1>3, <1>4, <1>5 DEF Client, ClientReads

\* What the two threads do to the clients leaves them well-typed.
LEMMA ConnNext ==
  ASSUME IInv, [Next]_vars
  PROVE  ConnOK(conn')
<1>1. ConnOK(conn)
  BY TypeParts DEF IInv
<1>2. ASSUME NEW c \in Conn, Client(c) PROVE ConnOK(conn')
  BY <1>1, <1>2, ClientType
<1>3. CASE RecvUnit
  <2> DEFINE c == fdConn[net.fd]
             n == conn[c].read + 1
  <2>1. /\ Changed(c, conn[c].st, conn[c].sent, n, conn[c].peer, conn[c].tx)
        /\ n \in 1..2 * NumMsg /\ n <= conn[c].sent
        /\ c \in Conn
    BY <1>3, RecvUnitChanges, ReadsUnit DEF RecvUnit
  <2> HIDE DEF c, n
  <2>2. n \in 0..2 * NumMsg
    BY <2>1, Constants
  <2>3. /\ conn[c].st \in {"new", "backlog", "open", "closed"}
        /\ conn[c].sent \in 0..2 * NumMsg
        /\ conn[c].peer \in {"up", "fin", "rst"}
        /\ conn[c].tx \in Seq(Conn) /\ Len(conn[c].tx) <= TxCap
    BY <1>1, <2>1, ConnOf
  <2> QED BY <1>1, <2>1, <2>2, <2>3, ChangedOK
<1>4. CASE CloseFd
  <2> DEFINE c == fdConn[net.fd]
  <2>1. /\ c \in Conn => Changed(c, "closed", conn[c].sent, conn[c].read, conn[c].peer, <<>>)
        /\ c \notin Conn => UNCHANGED conn
    BY <1>4, CloseFdChanges
  <2>2. <<>> \in Seq(Conn) /\ Len(<<>>) <= TxCap
    BY Constants
  <2> HIDE DEF c
  <2> QED BY <1>1, <2>1, <2>2, ConnOf, ChangedOK, Unchanged
<1>5. CASE Accept
  <2> DEFINE c == Head(backlog)
  <2>1. /\ c \in Conn
        /\ \/ Changed(c, "open", conn[c].sent, conn[c].read, conn[c].peer, conn[c].tx)
           \/ Changed(c, "closed", conn[c].sent, conn[c].read, conn[c].peer, conn[c].tx)
    BY <1>5, AcceptChanges
  <2> HIDE DEF c
  <2> QED BY <1>1, <2>1, ConnOf, ChangedOK
<1>6. CASE EventOut
  <2> DEFINE c == fdConn[net.fd]
  <2>1. \/ UNCHANGED conn
        \/ /\ c \in Conn
           /\ \E tx \in Seq(Conn) :
                /\ Len(tx) <= TxCap
                /\ Changed(c, conn[c].st, conn[c].sent, conn[c].read, conn[c].peer, tx)
    BY <1>6, EventOutChanges
  <2> HIDE DEF c
  <2> QED BY <1>1, <2>1, ConnOf, ChangedOK, Unchanged
<1>7. CASE DespatchTest
  <2> DEFINE c == fdConn[deal.sock]
  <2>1. \/ UNCHANGED conn
        \/ /\ c \in Conn
           /\ \E tx \in Seq(Conn) :
                /\ Len(tx) <= TxCap
                /\ Changed(c, conn[c].st, conn[c].sent, conn[c].read, conn[c].peer, tx)
    BY <1>7, DespatchTestChanges
  <2> HIDE DEF c
  <2> QED BY <1>1, <2>1, ConnOf, ChangedOK, Unchanged
<1>8. CASE UNCHANGED conn
  BY <1>1, <1>8, Unchanged
<1>9. NetStep \/ DealStep \/ UNCHANGED vars =>
        \/ RecvUnit \/ CloseFd \/ Accept \/ EventOut \/ DespatchTest \/ UNCHANGED conn
  BY DEF NetStep, DealStep, EpollWait, NextEvent, BatchDone, EventIn, RecvAgain, RecvEnd,
     EventErr, ClosePurge, CloseErase, AcceptEnd, GetPackage, GotNull, DespatchUnknown,
     SendArm, vars, kernel
<1> QED BY <1>2, <1>3, <1>4, <1>5, <1>6, <1>7, <1>8, <1>9 DEF Next

\* The kernel's view of the descriptors and m_sendMsgList.
LEMMA KernelTypeNext ==
  ASSUME IInv, [Next]_vars
  PROVE  /\ backlog' \in Seq(Conn)
         /\ fdConn' \in [Fd -> Conn \cup {NULL}]
         /\ mask' \in [Fd -> SUBSET {"IN", "OUT"}]
         /\ ready' \subseteq Fd \cup {Listener}
         /\ m_sendMsgList' \in [Fd -> Seq(Conn)]
<1>1. /\ backlog \in Seq(Conn)
      /\ fdConn \in [Fd -> Conn \cup {NULL}]
      /\ mask \in [Fd -> SUBSET {"IN", "OUT"}]
      /\ ready \subseteq Fd \cup {Listener}
      /\ m_sendMsgList \in [Fd -> Seq(Conn)]
  BY TypeParts DEF IInv
<1>2. ASSUME NEW c \in Conn, Client(c)
      PROVE  /\ backlog' \in Seq(Conn) /\ ready' \subseteq Fd \cup {Listener}
             /\ UNCHANGED <<fdConn, mask, m_sendMsgList>>
  <2>1. CASE ClientConnect(c)
    <3>1. UNCHANGED server
      BY <1>2, <2>1 DEF Client, ClientReads
    <3> QED BY <1>1, <2>1, <3>1 DEF ClientConnect, server
  <2>2. ~ClientConnect(c) => ready' \subseteq Fd \cup {Listener}
    BY <1>1, <1>2 DEF Client, ClientSend, ClientFin, ClientRst, ClientReads, ClientRead, Wake
  <2>3. ~ClientConnect(c) => UNCHANGED <<backlog, fdConn, mask, m_sendMsgList>>
    BY <1>2 DEF Client, ClientSend, ClientFin, ClientRst, ClientReads, ClientRead, server
  <2> QED BY <1>1, <2>1, <2>2, <2>3
<1>3. CASE EpollWait
  BY <1>1, <1>3 DEF EpollWait
<1>4. CASE ClosePurge
  BY <1>1, <1>4 DEF ClosePurge
<1>5. CASE CloseFd
  BY <1>1, <1>5 DEF CloseFd
<1>6. CASE CloseErase
  <2>1. <<>> \in Seq(Conn)
    OBVIOUS
  <2> QED BY <1>1, <1>6, <2>1 DEF CloseErase, kernel
<1>7. CASE EventOut
  <2>1. UNCHANGED <<backlog, fdConn>>
    BY <1>7 DEF EventOut
  <2>2. net.fd \in Fd
    BY <1>7, EventOutChanges
  <2>3. \/ UNCHANGED <<m_sendMsgList, mask, ready>>
        \/ \E rest \in Seq(Conn) :
             /\ m_sendMsgList' = [m_sendMsgList EXCEPT ![net.fd] = rest]
             /\ CtlMod(net.fd, {"IN"}) \/ UNCHANGED <<mask, ready>>
    BY <1>7, EventOutChanges
  <2>4. mask' \in [Fd -> SUBSET {"IN", "OUT"}] /\ ready' \subseteq Fd \cup {Listener}
    BY <1>1, <2>2, <2>3, CtlType
  <2>5. m_sendMsgList' \in [Fd -> Seq(Conn)]
    BY <1>1, <2>2, <2>3
  <2> QED BY <1>1, <2>1, <2>4, <2>5
<1>8. CASE Accept
  <2> DEFINE fd == Min(FreeFds)
             c == Head(backlog)
  <2>1. backlog' \in Seq(Conn) /\ UNCHANGED m_sendMsgList
    BY <1>1, <1>8 DEF Accept
  <2>2. fd \in Fd /\ c \in Conn
    BY <1>8, AcceptChanges
  <2>3. \/ fdConn' = [fdConn EXCEPT ![fd] = c] /\ Ctl(fd, c, {"IN"})
        \/ UNCHANGED <<fdConn, mask, ready>>
    BY <1>8, AcceptChanges
  <2> HIDE DEF fd, c
  <2>4. mask' \in [Fd -> SUBSET {"IN", "OUT"}] /\ ready' \subseteq Fd \cup {Listener}
    BY <1>1, <2>2, <2>3, CtlType
  <2> QED BY <1>1, <2>1, <2>2, <2>3, <2>4
<1>9. CASE DespatchTest
  <2>1. UNCHANGED <<backlog, fdConn, mask, ready>>
    BY <1>9 DEF DespatchTest
  <2>2. /\ deal.sock \in Fd /\ Sender \in Conn
        /\ \/ m_sendMsgList' = [m_sendMsgList EXCEPT ![deal.sock] = Append(@, Sender)]
           \/ m_sendMsgList' = [m_sendMsgList EXCEPT ![deal.sock] = <<Sender>>]
           \/ UNCHANGED m_sendMsgList
    BY <1>9, DespatchTestChanges
  <2>3. m_sendMsgList' \in [Fd -> Seq(Conn)]
    <3>1. m_sendMsgList[deal.sock] \in Seq(Conn)
      BY <1>1, <2>2
    <3>2. Append(m_sendMsgList[deal.sock], Sender) \in Seq(Conn) /\ <<Sender>> \in Seq(Conn)
      BY <2>2, <3>1
    <3> QED BY <1>1, <2>2, <3>2
  <2> QED BY <1>1, <2>1, <2>3
<1>10. CASE SendArm
  <2>1. deal.sock \in Fd
    BY <1>10 DEF IInv, Hand, SendArm
  <2>2. CtlMod(deal.sock, {"IN", "OUT"}) /\ UNCHANGED <<backlog, fdConn, m_sendMsgList>>
    BY <1>10 DEF SendArm, SendMask
  <2> QED BY <1>1, <2>1, <2>2, CtlType
<1>11. NetStep \/ DealStep \/ UNCHANGED vars =>
        \/ EpollWait \/ ClosePurge \/ CloseFd \/ CloseErase \/ EventOut \/ Accept
        \/ DespatchTest \/ SendArm
        \/ UNCHANGED <<backlog, fdConn, mask, ready, m_sendMsgList>>
  BY DEF NetStep, DealStep, NextEvent, BatchDone, EventIn, RecvUnit, RecvAgain, RecvEnd,
     EventErr, AcceptEnd, GetPackage, GotNull, DespatchUnknown, vars, kernel
<1> QED BY <1>1, <1>2, <1>3, <1>4, <1>5, <1>6, <1>7, <1>8, <1>9, <1>10, <1>11 DEF Next

-----------------------------------------------------------------------------
(* Sequences without the elements of a set: Keep.                          *)

LEMMA RankOrder ==
  ASSUME NEW n \in Nat, NEW D \in SUBSET (1..n)
  PROVE  /\ IsFiniteSet(D)
         /\ Cardinality(D) \in Nat
         /\ \A i \in D : Rank(D, i) \in 1..Cardinality(D)
         /\ \A i, j \in D : i < j => Rank(D, i) < Rank(D, j)
<1> DEFINE Upto(i) == {j \in D : j <= i}
<1>1. IsFiniteSet(D) /\ Cardinality(D) \in Nat
  <2>1. IsFiniteSet(1..n)
    BY FS_Interval
  <2>2. IsFiniteSet(D)
    BY <2>1, FS_Subset
  <2> QED BY <2>2, FS_CardinalityType
<1>2. ASSUME NEW i \in D
      PROVE  /\ IsFiniteSet(Upto(i))
             /\ Cardinality(Upto(i)) \in Nat
             /\ Cardinality(Upto(i)) <= Cardinality(D)
             /\ Cardinality(Upto(i)) # 0
  <2>1. Upto(i) \in SUBSET D /\ i \in Upto(i)
    OBVIOUS
  <2> HIDE DEF Upto
  <2> QED BY <1>1, <2>1, FS_Subset, FS_CardinalityType, FS_EmptySet
<1>3. \A i \in D : Rank(D, i) \in 1..Cardinality(D)
  BY <1>1, <1>2 DEF Rank
<1>4. ASSUME NEW i \in D, NEW j \in D, i < j PROVE Rank(D, i) < Rank(D, j)
  <2>1. Upto(i) \in SUBSET Upto(j) /\ j \in Upto(j) /\ j \notin Upto(i)
    <3>1. \A k \in D : k \in Int
      OBVIOUS
    <3>2. i \in Int /\ j \in Int
      BY <3>1
    <3>3. \A k \in D : k <= i => k <= j
      BY <1>4, <3>1, <3>2
    <3>4. j <= j /\ ~ (j <= i)
      BY <1>4, <3>2
    <3> QED BY <3>3, <3>4
  <2>2. /\ IsFiniteSet(Upto(j))
        /\ Cardinality(Upto(i)) \in Nat /\ Cardinality(Upto(j)) \in Nat
    BY <1>2
  <2>3. Cardinality(Upto(i)) < Cardinality(Upto(j))
    <3> HIDE DEF Upto
    <3> QED BY <2>1, <2>2, FS_Subset
  <2> QED BY <2>3 DEF Rank
<1> QED BY <1>1, <1>3, <1>4

\* Positions and ranks are one to one.
LEMMA NthPosition ==
  ASSUME NEW n \in Nat, NEW D \in SUBSET (1..n)
  PROVE  /\ \A k \in 1..Cardinality(D) : Nth(D, k) \in D /\ Rank(D, Nth(D, k)) = k
         /\ \A i \in D : Nth(D, Rank(D, i)) = i
<1> DEFINE r == [i \in D |-> Rank(D, i)]
<1>1. /\ IsFiniteSet(D)
      /\ Cardinality(D) \in Nat
      /\ \A i \in D : Rank(D, i) \in 1..Cardinality(D)
      /\ \A i, j \in D : Rank(D, i) = Rank(D, j) => i = j
  <2>1. /\ IsFiniteSet(D)
        /\ Cardinality(D) \in Nat
        /\ \A i \in D : Rank(D, i) \in 1..Cardinality(D)
        /\ \A i, j \in D : i < j => Rank(D, i) < Rank(D, j)
    BY RankOrder
  <2>2. \A i, j \in D : i < j \/ j < i \/ i = j
    OBVIOUS
  <2>3. \A i \in D : ~ (Rank(D, i) < Rank(D, i))
    BY <2>1
  <2> QED BY <2>1, <2>2, <2>3
<1>2. r \in Injection(D, 1..Cardinality(D))
  BY <1>1 DEF Injection, IsInjective
<1>3. IsFiniteSet(1..Cardinality(D)) /\ Cardinality(1..Cardinality(D)) = Cardinality(D)
  BY <1>1, FS_Interval
<1>4. r \in Surjection(D, 1..Cardinality(D))
  BY <1>2, <1>3, FS_Injection
<1>5. \A k \in 1..Cardinality(D) : \E i \in D : Rank(D, i) = k
  BY <1>4 DEF Surjection
<1>6. \A k \in 1..Cardinality(D) : Nth(D, k) \in D /\ Rank(D, Nth(D, k)) = k
  BY <1>5 DEF Nth
<1> QED BY <1>1, <1>6

\* The nodes kept are those at D, in the order they had.
LEMMA Kept ==
  ASSUME NEW S, NEW s \in Seq(S), NEW D \in SUBSET (DOMAIN s)
  PROVE  LET t == Keep(s, D)
         IN  /\ t \in Seq(S)
             /\ Len(t) = Cardinality(D)
             /\ DOMAIN t = 1..Cardinality(D)
             /\ \A k \in DOMAIN t : Nth(D, k) \in D /\ t[k] = s[Nth(D, k)]
             /\ \A j, k \in DOMAIN t : j < k => Nth(D, j) < Nth(D, k)
             /\ \A i \in D : \E k \in DOMAIN t : Nth(D, k) = i
<1> DEFINE t == Keep(s, D)
           n == Cardinality(D)
<1>1. D \in SUBSET (1..Len(s)) /\ Len(s) \in Nat
  OBVIOUS
<1>2. n \in Nat /\ \A i \in D : Rank(D, i) \in 1..n
  BY <1>1, RankOrder
<1>3. /\ \A k \in 1..n : Nth(D, k) \in D /\ Rank(D, Nth(D, k)) = k
      /\ \A i \in D : Nth(D, Rank(D, i)) = i
  BY <1>1, NthPosition
<1>4. t = [k \in 1..n |-> s[Nth(D, k)]]
  BY DEF Keep
<1>5. \A k \in 1..n : s[Nth(D, k)] \in S
  BY <1>3
<1>6. t \in Seq(S) /\ Len(t) = n /\ DOMAIN t = 1..n
  BY <1>2, <1>4, <1>5
<1>7. ASSUME NEW j \in 1..n, NEW k \in 1..n, j < k PROVE Nth(D, j) < Nth(D, k)
  <2>1. Rank(D, Nth(D, j)) < Rank(D, Nth(D, k))
    BY <1>3, <1>7
  <2>2. Nth(D, j) \in D /\ Nth(D, k) \in D /\ Nth(D, j) \in Nat /\ Nth(D, k) \in Nat
    BY <1>1, <1>3
  <2>3. CASE Nth(D, j) > Nth(D, k)
    <3>1. Rank(D, Nth(D, k)) < Rank(D, Nth(D, j))
      BY <1>1, <2>2, <2>3, RankOrder
    <3> QED BY <1>2, <2>1, <2>2, <3>1
  <2> QED BY <1>2, <2>1, <2>2, <2>3
<1>8. \A i \in D : \E k \in 1..n : Nth(D, k) = i
  BY <1>2, <1>3
<1> HIDE DEF n
<1> QED BY <1>3, <1>4, <1>6, <1>7, <1>8 DEF n
-----------------------------------------------------------------------------
(* What the steps do to the messages.                                      *)

Node == [sock : Fd, pMsg : Message]

\* The positions of the queue that DelMsg keeps.
Others(fd) == {i \in DOMAIN queue : queue[i].sock # fd}

LEMMA PurgeIs ==
  ASSUME NEW fd, List!Purge(fd)
  PROVE  queue' = Keep(queue, Others(fd))
BY DEF List!Purge, List!Without, List!Keep, List!Nth, List!Rank, List!Cardinality,
  Keep, Nth, Rank, Others, Cardinality

\* What is left keeps its order, and everything else is left.
LEMMA PurgeKeeps ==
  ASSUME IInv, NEW fd, List!Purge(fd)
  PROVE  /\ queue' \in Seq(Node)
         /\ \A k \in DOMAIN queue' : /\ Nth(Others(fd), k) \in Others(fd)
                                     /\ queue'[k] = queue[Nth(Others(fd), k)]
         /\ \A j, k \in DOMAIN queue' : j < k => Nth(Others(fd), j) < Nth(Others(fd), k)
         /\ \A i \in Others(fd) : \E k \in DOMAIN queue' : Nth(Others(fd), k) = i
<1> DEFINE D == Others(fd)
<1>1. queue \in Seq(Node) /\ D \in SUBSET (DOMAIN queue)
  BY TypeParts DEF IInv, Node, Others
<1>2. queue' = Keep(queue, D)
  BY PurgeIs
<1> HIDE DEF D
<1>3. LET t == Keep(queue, D)
      IN  /\ t \in Seq(Node)
          /\ \A k \in DOMAIN t : Nth(D, k) \in D /\ t[k] = queue[Nth(D, k)]
          /\ \A j, k \in DOMAIN t : j < k => Nth(D, j) < Nth(D, k)
          /\ \A i \in D : \E k \in DOMAIN t : Nth(D, k) = i
  BY <1>1, Kept
<1> QED BY <1>2, <1>3 DEF D

LEMMA EndingAtIs ==
  ASSUME NEW c, NEW n
  PROVE  /\ EndingAt(c, n)[1] = <<c, n - 1>> /\ EndingAt(c, n)[2] = <<c, n>>
         /\ EndingAt(c, n)[1][1] = c /\ EndingAt(c, n)[2][1] = c
         /\ End(EndingAt(c, n)) = n
BY DEF EndingAt, End

LEMMA AppendToOne ==
  ASSUME NEW u, NEW v
  PROVE  Append(<<u>>, v) = <<u, v>> /\ Len(<<u, v>>) = 2
<1> DEFINE S == {u, v}
           a == Append(<<u>>, v)
           b == <<u, v>>
<1>1. <<u>> \in Seq(S) /\ Len(<<u>>) = 1 /\ v \in S /\ u \in S
  OBVIOUS
<1>2. a \in Seq(S) /\ Len(a) = 2 /\ a[2] = v /\ a[1] = u
  <2> HIDE DEF S
  <2> QED BY <1>1
<1>3. b \in Seq(S) /\ Len(b) = 2 /\ b[1] = u /\ b[2] = v
  <2> HIDE DEF S
  <2> QED BY <1>1
<1> HIDE DEF a, b, S
<1>4. \A i \in 1..2 : i = 1 \/ i = 2
  OBVIOUS
<1>5. a = b
  BY <1>2, <1>3, <1>4, SeqEqual
<1> QED BY <1>3, <1>5 DEF a, b

\* OnRecv reads the first or the second unit of a message; a message that is
\* complete is queued, or its client is disconnected.
LEMMA RecvUnitDoes ==
  ASSUME IInv, RecvUnit
  PROVE  LET fd == net.fd
             c == fdConn[fd]
             n == conn[c].read + 1
         IN  /\ fd \in Fd /\ c \in Conn /\ n \in 1..2 * NumMsg
             /\ \/ /\ m_recvMsgList[fd] = <<>>
                   /\ m_recvMsgList' = [m_recvMsgList EXCEPT ![fd] = << <<c, n>> >>]
                   /\ UNCHANGED <<queue, net>>
                \/ /\ m_recvMsgList[fd] = << <<c, n - 1>> >>
                   /\ m_recvMsgList' = [m_recvMsgList EXCEPT ![fd] = <<>>]
                   /\ EndingAt(c, n) \in Message
                   /\ \/ /\ queue' = Append(queue, [sock |-> fd, pMsg |-> EndingAt(c, n)])
                         /\ UNCHANGED net
                      \/ /\ UNCHANGED queue
                         /\ net' = [net EXCEPT !.pc = "purge"]
<1> DEFINE fd == net.fd
           c == fdConn[fd]
           n == conn[c].read + 1
           pMsg == Append(m_recvMsgList[fd], <<c, n>>)
<1>1. /\ fd \in Fd /\ c \in Conn
      /\ n \in 1..2 * NumMsg /\ <<c, n>> \in Unit
      /\ m_recvMsgList \in [Fd -> Seq(Unit)]
  BY ReadsUnit, RecvUnitChanges, TypeParts DEF RecvUnit, IInv
<1>2. m_recvMsgList[fd] \in {<<>>, << <<c, conn[c].read>> >>}
  <2>1. c # NULL
    BY <1>1, Constants
  <2> QED BY <1>1, <2>1 DEF IInv, InOrder, RunIsRead
<1>3. conn[c].read = n - 1
  <2>1. conn[c].read \in Nat
    BY <1>1, ConnOf, TypeParts, Constants DEF IInv
  <2> QED BY <2>1
<1>4. \/ /\ Len(pMsg) < 2
         /\ m_recvMsgList' = [m_recvMsgList EXCEPT ![fd] = pMsg]
         /\ UNCHANGED <<queue, net>>
      \/ /\ Len(pMsg) = 2
         /\ m_recvMsgList' = [m_recvMsgList EXCEPT ![fd] = <<>>]
         /\ \/ queue' = Append(queue, [sock |-> fd, pMsg |-> pMsg]) /\ UNCHANGED net
            \/ UNCHANGED queue /\ net' = [net EXCEPT !.pc = "purge"]
  BY DEF RecvUnit, EraseRecv, AfterMessage, List!Put, Goto
<1> HIDE DEF c, n, fd
<1>5. CASE m_recvMsgList[fd] = <<>>
  <2>1. pMsg = << <<c, n>> >> /\ Len(pMsg) = 1
    BY <1>5
  <2> QED BY <1>1, <1>4, <1>5, <2>1 DEF c, n, fd
<1>6. CASE m_recvMsgList[fd] = << <<c, n - 1>> >>
  <2>1. pMsg = EndingAt(c, n) /\ Len(pMsg) = 2
    <3> DEFINE u == <<c, n - 1>>
               v == <<c, n>>
    <3>1. pMsg = <<u, v>> /\ Len(pMsg) = 2
      <4> HIDE DEF u, v
      <4>1. pMsg = Append(<<u>>, v)
        BY <1>6 DEF u, v
      <4> QED BY <4>1, AppendToOne
    <3> QED BY <3>1 DEF EndingAt
  <2>2. <<c, n - 1>> \in Unit
    <3>1. m_recvMsgList[fd] \in Seq(Unit)
      BY <1>1 DEF fd
    <3>2. \A u : << u >> \in Seq(Unit) => u \in Unit
      <4>1. \A u : 1 \in DOMAIN << u >> /\ << u >>[1] = u
        OBVIOUS
      <4>2. \A s \in Seq(Unit) : \A i \in DOMAIN s : s[i] \in Unit
        OBVIOUS
      <4> QED BY <4>1, <4>2
    <3> QED BY <1>6, <3>1, <3>2
  <2>3. EndingAt(c, n) \in Message
    BY <1>1, <2>2 DEF EndingAt, Message
  <2> HIDE DEF pMsg
  <2> QED BY <1>1, <1>4, <1>6, <2>1, <2>3 DEF c, n, fd
<1> QED BY <1>2, <1>3, <1>5, <1>6

\* What the message thread has in hand ends with the units it will have taken.
LEMMA HandledNext ==
  ASSUME IInv, DespatchUnknown \/ DespatchTest
  PROVE  /\ Sender \in Conn
         /\ handled' = [handled EXCEPT ![Sender] = @ + 1]
         /\ handled[Sender] + 1 \in 0..NumMsg
<1>1. deal.pMsg # NULL /\ deal.pc = "ret"
  BY DEF DespatchUnknown, DespatchTest
<1>2. Sender \in Conn /\ deal.pMsg \in Message
  BY <1>1, SenderIs DEF IInv
<1>3. deal.pMsg = EndingAt(Sender, 2 * handled[Sender] + 2)
  BY <1>1, <1>2 DEF IInv, InOrder, RunInQueue, InHand, TakenUnits
<1>4. 2 * handled[Sender] + 2 \in 1..2 * NumMsg
  <2>1. deal.pMsg[2][2] = 2 * handled[Sender] + 2
    BY <1>3, EndingAtIs
  <2> QED BY <1>2, <2>1, MessageParts
<1>5. handled[Sender] \in 0..NumMsg
  BY <1>2, TypeParts DEF IInv
<1>6. handled[Sender] + 1 \in 0..NumMsg
  <2> DEFINE h == handled[Sender]
  <2> HIDE DEF h
  <2>1. h \in 0..NumMsg /\ 2 * h + 2 \in 1..2 * NumMsg
    BY <1>4, <1>5 DEF h
  <2>2. NumMsg \in Nat
    BY Constants
  <2>3. h + 1 \in 0..NumMsg
    BY <2>1, <2>2
  <2> QED BY <2>3 DEF h
<1> QED BY <1>2, <1>6 DEF DespatchUnknown, DespatchTest

\* GetMsg takes the oldest node.
LEMMA GetPackageDoes ==
  ASSUME IInv, GetPackage
  PROVE  /\ deal.pc = "call"
         /\ \/ /\ UNCHANGED queue
               /\ deal' = [deal EXCEPT !.pc = "ret", !.pMsg = NULL]
            \/ /\ queue # <<>>
               /\ queue' = Tail(queue)
               /\ 1 \in DOMAIN queue /\ queue[1] \in Node
               /\ deal' = [pc |-> "ret", sock |-> queue[1].sock, pMsg |-> queue[1].pMsg]
<1>1. queue \in Seq(Node)
  BY TypeParts DEF IInv, Node
<1>2. queue # <<>> => 1 \in DOMAIN queue /\ Head(queue) = queue[1] /\ queue[1] \in Node
  BY <1>1
<1> HIDE DEF Node
<1> QED BY <1>2 DEF GetPackage, GetMsg, List!Get

LEMMA MessageTypeNext ==
  ASSUME IInv, [Next]_vars
  PROVE  /\ m_recvMsgList' \in [Fd -> Seq(Unit)]
         /\ queue' \in Seq(Node)
         /\ deal' \in DealState
         /\ handled' \in [Conn -> 0..NumMsg]
<1>1. /\ m_recvMsgList \in [Fd -> Seq(Unit)]
      /\ queue \in Seq(Node)
      /\ deal \in DealState
      /\ handled \in [Conn -> 0..NumMsg]
  BY TypeParts DEF IInv, Node
<1>2. CASE RecvUnit
  <2>1. UNCHANGED <<deal, handled>>
    BY <1>2 DEF RecvUnit
  <2>2. /\ net.fd \in Fd
        /\ \/ UNCHANGED queue
           \/ \E pMsg \in Message : queue' = Append(queue, [sock |-> net.fd, pMsg |-> pMsg])
    BY <1>2, RecvUnitDoes
  <2>3. queue' \in Seq(Node)
    <3>1. \A pMsg \in Message : [sock |-> net.fd, pMsg |-> pMsg] \in Node
      BY <2>2 DEF Node
    <3>2. UNCHANGED queue \/ \E e \in Node : queue' = Append(queue, e)
      BY <2>2, <3>1
    <3> HIDE DEF Node
    <3> QED BY <1>1, <3>2
  <2>4. m_recvMsgList' \in [Fd -> Seq(Unit)]
    <3>1. \A u \in Unit : <<u>> \in Seq(Unit)
      OBVIOUS
    <3>2. <<>> \in Seq(Unit)
      OBVIOUS
    <3>3. \E s \in Seq(Unit) : m_recvMsgList' = [m_recvMsgList EXCEPT ![net.fd] = s]
      <4>1. <<fdConn[net.fd], conn[fdConn[net.fd]].read + 1>> \in Unit
        BY <1>2, RecvUnitChanges
      <4> QED BY <1>2, <3>1, <3>2, <4>1, RecvUnitDoes
    <3> QED BY <1>1, <2>2, <3>3
  <2> QED BY <1>1, <2>1, <2>3, <2>4
<1>3. CASE RecvEnd \/ EventErr
  <2>1. <<>> \in Seq(Unit)
    OBVIOUS
  <2> QED BY <1>1, <1>3, <2>1 DEF RecvEnd, EventErr, EraseRecv
<1>4. CASE ClosePurge
  <2>1. queue' \in Seq(Node)
    BY <1>4, PurgeKeeps DEF ClosePurge, DelMsg
  <2> QED BY <1>1, <1>4, <2>1 DEF ClosePurge
<1>5. CASE GetPackage
  <2>1. queue' \in Seq(Node)
    <3>1. queue' = queue \/ (queue # <<>> /\ queue' = Tail(queue))
      BY <1>5, GetPackageDoes
    <3>2. queue # <<>> => Tail(queue) \in Seq(Node)
      BY <1>1, HeadTailProperties
    <3> QED BY <1>1, <3>1, <3>2
  <2>2. deal' \in DealState
    <3>1. \/ deal' = [deal EXCEPT !.pc = "ret", !.pMsg = NULL]
          \/ \E e \in Node : deal' = [pc |-> "ret", sock |-> e.sock, pMsg |-> e.pMsg]
      BY <1>5, GetPackageDoes
    <3>2. \A e \in Node : [pc |-> "ret", sock |-> e.sock, pMsg |-> e.pMsg] \in DealState
      BY DEF DealState, Node
    <3>3. [deal EXCEPT !.pc = "ret", !.pMsg = NULL] \in DealState
      BY <1>1 DEF DealState
    <3> QED BY <3>1, <3>2, <3>3
  <2> QED BY <1>1, <1>5, <2>1, <2>2 DEF GetPackage
<1>6. CASE DespatchUnknown \/ DespatchTest
  <2>1. handled' \in [Conn -> 0..NumMsg]
    BY <1>1, <1>6, HandledNext
  <2>2. UNCHANGED m_recvMsgList
    BY <1>6 DEF DespatchUnknown, DespatchTest
  <2>3. deal' \in DealState /\ UNCHANGED queue
    <3>1. List!Done \/ (deal' = [deal EXCEPT !.pc = "arm"] /\ UNCHANGED queue)
      BY <1>6 DEF DespatchUnknown, DespatchTest
    <3>2. (deal' = [deal EXCEPT !.pc = "arm"] => deal' \in DealState)
      BY <1>1 DEF DealState
    <3> QED BY <1>1, <3>1, <3>2, DoneType
  <2> QED BY <1>1, <2>1, <2>2, <2>3
<1>7. CASE GotNull \/ SendArm
  BY <1>1, <1>7 DEF GotNull, SendArm, List!Done, DealState, kernel
<1>8. \/ RecvUnit \/ RecvEnd \/ EventErr \/ ClosePurge \/ DealStep
      \/ UNCHANGED <<m_recvMsgList, queue, deal, handled>>
  BY DEF Next, Client, ClientReads, server, vars, NetStep, EpollWait, NextEvent, BatchDone,
     EventIn, RecvAgain, EventOut, CloseFd, CloseErase, Accept, AcceptEnd
<1> QED BY <1>1, <1>2, <1>3, <1>4, <1>5, <1>6, <1>7, <1>8 DEF DealStep

NetPc == {"wait", "event", "recv", "purge", "close", "erase", "accept"}

LEMMA NetWith ==
  ASSUME NEW n \in NetState, NEW pc \in NetPc, NEW ev \in SUBSET Events
  PROVE  /\ [n EXCEPT !.pc = pc] \in NetState
         /\ [n EXCEPT !.ev = ev] \in NetState
         /\ [n EXCEPT !.pc = pc, !.ev = ev] \in NetState
<1>1. NetState = [pc : NetPc, fd : Fd \cup {Listener}, ev : SUBSET Events]
  BY DEF NetState, NetPc
<1> QED BY <1>1

LEMMA NetTypeNext ==
  ASSUME IInv, [Next]_vars
  PROVE  /\ net' \in NetState
         /\ batch' \in [Fd \cup {Listener} -> SUBSET Events]
<1>1. net \in NetState /\ batch \in [Fd \cup {Listener} -> SUBSET Events]
  BY TypeParts DEF IInv
<1>2. CASE EpollWait
  <2>1. \A fd \in Fd \cup {Listener} : Pending(fd) \subseteq Events
    BY DEF Pending, Poll, Events
  <2>2. batch' \in [Fd \cup {Listener} -> SUBSET Events]
    BY <1>2, <2>1 DEF EpollWait
  <2>3. net' \in NetState
    BY <1>1, <1>2 DEF EpollWait, Goto, NetState
  <2> QED BY <2>2, <2>3
<1>3. ASSUME NEW fd \in Fd \cup {Listener}, NextEvent(fd)
      PROVE  net' \in NetState /\ batch' \in [Fd \cup {Listener} -> SUBSET Events]
  <2>1. batch' = [batch EXCEPT ![fd] = {}] /\ {} \in SUBSET Events
    BY <1>3 DEF NextEvent
  <2>2. net' \in NetState
    BY <1>1, <1>3 DEF NextEvent, NetState
  <2> QED BY <1>1, <2>1, <2>2
<1>4. CASE RecvUnit
  <2>1. UNCHANGED net \/ net' = [net EXCEPT !.pc = "purge"]
    BY <1>4, RecvUnitDoes
  <2> QED BY <1>1, <1>4, <2>1 DEF RecvUnit, NetState
<1>5. CASE BatchDone \/ EventIn \/ RecvAgain \/ RecvEnd \/ EventOut \/ EventErr
           \/ ClosePurge \/ CloseFd \/ CloseErase \/ AcceptEnd
  <2>1. UNCHANGED batch
    BY <1>5 DEF BatchDone, EventIn, RecvAgain, RecvEnd, EventOut, EventErr, ClosePurge,
       CloseFd, CloseErase, AcceptEnd
  <2>3. net.ev \ {"IN"} \in SUBSET Events /\ net.ev \ {"OUT"} \in SUBSET Events
    BY <1>1 DEF NetState
  <2>4. CASE ~ (EventIn \/ EventOut \/ EventErr)
    <3>1. \E pc \in NetPc : net' = [net EXCEPT !.pc = pc]
      BY <1>5, <2>4 DEF BatchDone, RecvAgain, RecvEnd, AcceptEnd, ClosePurge, CloseFd, CloseErase,
         Goto, CloseNext, NetPc
    <3> QED BY <1>1, <2>1, <3>1, NetWith
  <2>6. CASE EventIn \/ EventOut \/ EventErr
    <3>1. "recv" \in NetPc /\ "purge" \in NetPc /\ {} \in SUBSET Events
      BY DEF NetPc
    <3>2. CASE EventIn
      <4>1. net' = [net EXCEPT !.pc = "recv", !.ev = net.ev \ {"IN"}]
        BY <3>2 DEF EventIn
      <4> QED BY <1>1, <2>1, <2>3, <3>1, <4>1, NetWith
    <3>3. CASE EventOut
      <4>1. net' = [net EXCEPT !.ev = net.ev \ {"OUT"}]
        BY <3>3 DEF EventOut
      <4> QED BY <1>1, <2>1, <2>3, <3>1, <4>1, NetWith
    <3>4. CASE EventErr
      <4>1. net' = [net EXCEPT !.pc = "purge", !.ev = {}]
        BY <3>4 DEF EventErr
      <4> QED BY <1>1, <2>1, <2>3, <3>1, <4>1, NetWith
    <3> QED BY <2>6, <3>2, <3>3, <3>4
  <2> QED BY <1>1, <2>1, <2>4, <2>6
<1>6. CASE UNCHANGED <<net, batch>>
  BY <1>1, <1>6
<1>7. (\E c \in Conn : Client(c)) \/ DealStep \/ Accept \/ UNCHANGED vars => UNCHANGED <<net, batch>>
  BY DEF Client, ClientReads, server, vars, DealStep, GetPackage, GotNull, DespatchUnknown,
     DespatchTest, SendArm, Accept
<1> QED BY <1>2, <1>3, <1>4, <1>5, <1>6, <1>7 DEF Next, NetStep

LEMMA TypeNext ==
  ASSUME IInv, [Next]_vars
  PROVE  TypeOK'
<1>1. /\ ConnOK(conn')
      /\ backlog' \in Seq(Conn)
      /\ fdConn' \in [Fd -> Conn \cup {NULL}]
      /\ mask' \in [Fd -> SUBSET {"IN", "OUT"}]
      /\ ready' \subseteq Fd \cup {Listener}
      /\ m_recvMsgList' \in [Fd -> Seq(Unit)]
      /\ m_sendMsgList' \in [Fd -> Seq(Conn)]
      /\ queue' \in Seq(Node)
      /\ net' \in NetState
      /\ batch' \in [Fd \cup {Listener} -> SUBSET Events]
      /\ deal' \in DealState
      /\ handled' \in [Conn -> 0..NumMsg]
  BY ConnNext, KernelTypeNext, MessageTypeNext, NetTypeNext
<1> QED BY <1>1 DEF TypeOK, ConnOK, ConnState, Node, NetState, DealState

-----------------------------------------------------------------------------
(* Where the threads go, and what happens to the masks.                    *)

Moves(pc, ev) == net'.pc = pc /\ net'.fd = net.fd /\ net'.ev = ev

LEMMA NetMoves ==
  ASSUME IInv
  PROVE  /\ EpollWait => net.pc = "wait" /\ net.ev = {} /\ Moves("event", {})
         /\ \A fd \in Fd \cup {Listener} : NextEvent(fd) =>
              /\ net.pc = "event" /\ net.ev = {} /\ net'.fd = fd
              /\ \/ fd = Listener /\ net'.pc = "accept" /\ net'.ev = {}
                 \/ fd \in Fd /\ net'.pc = "event" /\ net'.ev = batch[fd]
         /\ BatchDone => net.pc = "event" /\ net.ev = {} /\ Moves("wait", {})
         /\ EventIn => net.fd \in Fd /\ Moves("recv", net.ev \ {"IN"})
         /\ RecvUnit => Moves("recv", net.ev) \/ Moves("purge", net.ev)
         /\ RecvAgain => Moves("event", net.ev)
         /\ RecvEnd => Moves("purge", net.ev)
         /\ EventOut => /\ net.pc = "event" /\ net.fd \in Fd /\ "IN" \notin net.ev
                        /\ Moves("event", net.ev \ {"OUT"})
         /\ EventErr => net.pc = "event" /\ net.fd \in Fd /\ Moves("purge", {})
         /\ ClosePurge => Moves("close", net.ev)
         /\ CloseFd => Moves("erase", net.ev)
         /\ CloseErase => Moves("event", net.ev)
         /\ AcceptEnd => net.ev = {} /\ Moves("event", {})
<1>1. /\ net \in NetState
      /\ \A pc : Goto(pc) => Moves(pc, net.ev)
  <2>1. net \in NetState
    BY TypeParts DEF IInv
  <2> QED BY <2>1 DEF NetState, Goto, Moves
<1>2. /\ net.pc \in InEntry \/ net.ev # {} => net.fd \in Fd
      /\ net.pc \in {"wait", "accept"} => net.ev = {}
  BY DEF IInv, NetPhase
<1>3. EpollWait => net.pc = "wait" /\ net.ev = {} /\ Moves("event", {})
  BY <1>1, <1>2 DEF EpollWait
<1>4. ASSUME NEW fd \in Fd \cup {Listener}, NextEvent(fd)
      PROVE  /\ net.pc = "event" /\ net.ev = {} /\ net'.fd = fd
             /\ \/ fd = Listener /\ net'.pc = "accept" /\ net'.ev = {}
                \/ fd \in Fd /\ net'.pc = "event" /\ net'.ev = batch[fd]
  BY <1>4 DEF NextEvent
<1>5. BatchDone => net.pc = "event" /\ net.ev = {} /\ Moves("wait", {})
  BY <1>1 DEF BatchDone
<1>6. EventIn => net.fd \in Fd /\ Moves("recv", net.ev \ {"IN"})
  BY <1>1, <1>2 DEF EventIn, Moves, NetState
<1>7. RecvUnit => Moves("recv", net.ev) \/ Moves("purge", net.ev)
  BY <1>1 DEF RecvUnit, AfterMessage, Moves, Goto
<1>8. /\ RecvAgain => Moves("event", net.ev)
      /\ RecvEnd => Moves("purge", net.ev)
  BY <1>1 DEF RecvAgain, RecvEnd
<1>9. EventOut => /\ net.pc = "event" /\ net.fd \in Fd /\ "IN" \notin net.ev
                  /\ Moves("event", net.ev \ {"OUT"})
  <2> SUFFICES ASSUME EventOut
               PROVE  /\ net.pc = "event" /\ net.fd \in Fd /\ "IN" \notin net.ev
                      /\ Moves("event", net.ev \ {"OUT"})
    OBVIOUS
  <2>1. net.pc = "event" /\ "OUT" \in net.ev /\ "IN" \notin net.ev
        /\ net' = [net EXCEPT !.ev = @ \ {"OUT"}]
    BY DEF EventOut
  <2> QED BY <1>1, <1>2, <2>1 DEF Moves, NetState
<1>10. EventErr => net.pc = "event" /\ net.fd \in Fd /\ Moves("purge", {})
  BY <1>1, <1>2 DEF EventErr, Moves, NetState
<1>11. /\ ClosePurge => Moves("close", net.ev)
       /\ CloseFd => Moves("erase", net.ev)
       /\ CloseErase => Moves("event", net.ev)
  BY <1>1 DEF ClosePurge, CloseFd, CloseErase, CloseNext
<1>12. AcceptEnd => net.ev = {} /\ Moves("event", {})
  BY <1>1, <1>2 DEF AcceptEnd
<1> QED BY <1>3, <1>4, <1>5, <1>6, <1>7, <1>8, <1>9, <1>10, <1>11, <1>12

LEMMA MaskChanges ==
  ASSUME IInv, [Next]_vars
  PROVE  \/ UNCHANGED mask
         \/ /\ ClosePurge /\ net.fd \in Fd
            /\ mask' = [mask EXCEPT ![net.fd] = {}]
         \/ /\ Accept
            /\ \E fd \in Fd : /\ fdConn[fd] = NULL
                              /\ fdConn' = [fdConn EXCEPT ![fd] = Head(backlog)]
                              /\ mask' = [mask EXCEPT ![fd] = {"IN"}]
         \/ /\ EventOut /\ mask[net.fd] # {}
            /\ mask' = [mask EXCEPT ![net.fd] = {"IN"}]
         \/ /\ SendArm /\ mask[deal.sock] # {}
            /\ mask' = [mask EXCEPT ![deal.sock] = {"IN", "OUT"}]
<1>1. CASE ClosePurge
  BY <1>1 DEF ClosePurge, IInv, NetPhase, InEntry
<1>2. CASE Accept
  BY <1>2, AcceptChanges DEF Ctl
<1>3. CASE EventOut
  <2>1. CtlMod(net.fd, {"IN"}) \/ UNCHANGED mask
    BY <1>3, EventOutChanges
  <2> QED BY <1>3, <2>1 DEF CtlMod, Ctl
<1>4. CASE SendArm
  BY <1>4 DEF SendArm, SendMask, CtlMod, Ctl
<1>5. ClosePurge \/ Accept \/ EventOut \/ SendArm \/ UNCHANGED mask
  BY DEF Next, NetStep, DealStep, Client, ClientReads, ClientConnect, ClientSend, ClientFin,
     ClientRst, ClientRead, EpollWait, NextEvent, BatchDone, EventIn, RecvUnit, RecvAgain,
     RecvEnd, EventErr, CloseFd, CloseErase, AcceptEnd, GetPackage, GotNull, DespatchUnknown,
     DespatchTest, vars, kernel
<1> QED BY <1>1, <1>2, <1>3, <1>4, <1>5

\* Only a new connection is registered, and only CloseConnect ends that.
LEMMA StillRegistered ==
  ASSUME IInv, [Next]_vars, NEW fd \in Fd
  PROVE  /\ mask[fd] # {} /\ mask'[fd] = {} => ClosePurge /\ fd = net.fd
         /\ mask[fd] = {} /\ mask'[fd] # {} => Accept /\ fdConn[fd] = NULL
<1>1. mask \in [Fd -> SUBSET {"IN", "OUT"}]
  BY TypeParts DEF IInv
<1> QED BY <1>1, MaskChanges

\* Only EpollWait and NextEvent change the batch.
LEMMA BatchChanges ==
  ASSUME IInv, [Next]_vars
  PROVE  \/ UNCHANGED batch
         \/ EpollWait
         \/ \E fd \in Fd \cup {Listener} :
              NextEvent(fd) /\ batch' = [batch EXCEPT ![fd] = {}] /\ batch[fd] # {}
BY DEF Next, NetStep, DealStep, Client, ClientReads, server, BatchDone, EventIn, RecvUnit,
  RecvAgain, RecvEnd, EventOut, EventErr, ClosePurge, CloseFd, CloseErase, Accept, AcceptEnd,
  NextEvent, GetPackage, GotNull, DespatchUnknown, DespatchTest, SendArm, vars

\* Steps that leave the network thread where it is.
LEMMA NetStays ==
  (\E c \in Conn : Client(c)) \/ DealStep \/ Accept \/ UNCHANGED vars => UNCHANGED <<net, batch>>
BY DEF Client, ClientReads, server, vars, DealStep, GetPackage, GotNull, DespatchUnknown,
   DespatchTest, SendArm, Accept

LEMMA NetPhaseNext ==
  ASSUME IInv, [Next]_vars
  PROVE  NetPhase'
<1>1. NetPhase
  BY DEF IInv
<1>2. CASE UNCHANGED <<net, batch>>
  BY <1>1, <1>2 DEF NetPhase
<1>3. CASE EpollWait
  BY <1>3, NetMoves DEF NetPhase, Moves, InEntry
<1>4. ASSUME NEW fd \in Fd \cup {Listener}, NextEvent(fd) PROVE NetPhase'
  BY <1>4, NetMoves DEF NetPhase, InEntry
<1>5. CASE BatchDone
  <2>1. \A fd \in Fd \cup {Listener} : batch'[fd] = {}
    <3>1. DOMAIN batch = Fd \cup {Listener}
      BY TypeParts DEF IInv
    <3> QED BY <1>5, <3>1 DEF BatchDone
  <2> QED BY <1>5, <2>1, NetMoves DEF NetPhase, Moves, InEntry
<1>6. CASE EventIn
  BY <1>1, <1>6, NetMoves DEF NetPhase, Moves, InEntry
<1>7. CASE RecvUnit \/ RecvAgain \/ RecvEnd
  <2>1. net.pc = "recv"
    BY <1>7 DEF RecvUnit, RecvAgain, RecvEnd
  <2>2. Moves("recv", net.ev) \/ Moves("event", net.ev) \/ Moves("purge", net.ev)
    BY <1>7, NetMoves
  <2> QED BY <1>1, <2>1, <2>2 DEF NetPhase, Moves, InEntry
<1>8. CASE EventOut
  BY <1>8, NetMoves DEF NetPhase, Moves, InEntry
<1>9. CASE EventErr
  BY <1>9, NetMoves DEF NetPhase, Moves, InEntry
<1>10. CASE ClosePurge \/ CloseFd \/ CloseErase
  <2>1. net.pc \in {"purge", "close", "erase"}
    BY <1>10 DEF ClosePurge, CloseFd, CloseErase
  <2>2. Moves("close", net.ev) \/ Moves("erase", net.ev) \/ Moves("event", net.ev)
    BY <1>10, NetMoves
  <2> QED BY <1>1, <2>1, <2>2 DEF NetPhase, Moves, InEntry
<1>11. CASE AcceptEnd
  BY <1>11, NetMoves DEF NetPhase, Moves, InEntry
<1> QED BY <1>2, <1>3, <1>4, <1>5, <1>6, <1>7, <1>8, <1>9, <1>10, <1>11, NetStays
     DEF Next, NetStep

LEMMA WorkingNext ==
  ASSUME IInv, [Next]_vars
  PROVE  Working'
<1>1. /\ \A fd \in Fd : batch[fd] # {} => mask[fd] # {}
      /\ net.pc \in InEntry \/ net.ev # {} => batch[net.fd] = {}
      /\ net.pc = "recv" \/ "IN" \in net.ev => mask[net.fd] # {}
      /\ net.pc \in {"close", "erase"} => mask[net.fd] = {}
  BY DEF IInv, Working
<1>2. /\ net.pc \in InEntry \/ net.ev # {} => net.fd \in Fd
      /\ net.pc \in InEntry => "IN" \notin net.ev
  BY DEF IInv, NetPhase
<1>3. mask \in [Fd -> SUBSET {"IN", "OUT"}] /\ batch \in [Fd \cup {Listener} -> SUBSET Events]
  BY TypeParts DEF IInv
<1>4. CASE EpollWait
  <2>1. \A fd \in Fd : batch'[fd] # {} => mask[fd] # {}
    BY <1>4, Constants DEF EpollWait, Pending
  <2>2. UNCHANGED mask
    BY <1>4 DEF EpollWait
  <2> QED BY <1>4, <2>1, <2>2, NetMoves DEF Working, Moves, InEntry
<1>5. ASSUME NEW fd \in Fd \cup {Listener}, NextEvent(fd) PROVE Working'
  <2>1. UNCHANGED mask /\ batch' = [batch EXCEPT ![fd] = {}] /\ batch[fd] # {}
    BY <1>5 DEF NextEvent, kernel
  <2>2. batch'[fd] = {} /\ \A x \in Fd : batch'[x] # {} => batch[x] # {}
    BY <1>3, <2>1
  <2> QED BY <1>1, <1>5, <2>1, <2>2, NetMoves DEF Working, InEntry
<1>6. CASE ClosePurge
  <2>1. /\ UNCHANGED batch /\ net.pc = "purge" /\ Moves("close", net.ev)
        /\ mask' = [mask EXCEPT ![net.fd] = {}]
    BY <1>6, NetMoves DEF ClosePurge
  <2>2. net.fd \in Fd
    BY <1>2, <2>1 DEF InEntry
  <2>3. mask'[net.fd] = {} /\ \A x \in Fd : x # net.fd => mask'[x] = mask[x]
    BY <1>3, <2>1, <2>2
  <2> QED BY <1>1, <1>2, <2>1, <2>2, <2>3 DEF Working, Moves, InEntry
<1>7. ASSUME UNCHANGED batch, ~ClosePurge, ~Accept,
             net'.pc = "recv" \/ "IN" \in net'.ev => net.pc = "recv" \/ "IN" \in net.ev,
             net'.pc \in {"close", "erase"} => net.pc \in {"close", "erase"},
             net'.fd = net.fd,
             net'.pc \in InEntry \/ net'.ev # {} => net.pc \in InEntry \/ net.ev # {}
      PROVE  Working'
  <2>1. \A x \in Fd : mask'[x] = {} <=> mask[x] = {}
    BY <1>7, StillRegistered
  <2>2. net.pc \in {"recv", "close", "erase"} \/ "IN" \in net.ev => net.fd \in Fd
    BY <1>2 DEF InEntry
  <2> QED BY <1>1, <1>7, <2>1, <2>2 DEF Working
<1>8. CASE BatchDone \/ EventIn \/ RecvUnit \/ RecvAgain \/ RecvEnd \/ EventOut \/ EventErr
           \/ CloseFd \/ CloseErase \/ AcceptEnd
  <2>1. UNCHANGED batch /\ ~ClosePurge /\ ~Accept
    BY <1>8 DEF BatchDone, EventIn, RecvUnit, RecvAgain, RecvEnd, EventOut, EventErr,
       CloseFd, CloseErase, AcceptEnd, ClosePurge, Accept
  <2>2. /\ EventIn => "IN" \in net.ev
        /\ EventErr => net.ev = {"ERR"}
        /\ RecvUnit \/ RecvAgain \/ RecvEnd => net.pc = "recv"
        /\ CloseFd => net.pc = "close"
        /\ CloseErase => net.pc = "erase"
    BY DEF EventIn, EventErr, RecvUnit, RecvAgain, RecvEnd, CloseFd, CloseErase
  <2> QED BY <1>2, <1>7, <1>8, <2>1, <2>2, NetMoves DEF Moves, InEntry
<1>9. CASE UNCHANGED <<net, batch>>
  <2>1. CASE Accept
    <3>1. net.pc = "accept" /\ net.ev = {}
      BY <2>1 DEF IInv, NetPhase, Accept
    <3>2. ~ClosePurge
      BY <3>1 DEF ClosePurge
    <3>3. \A fd \in Fd : mask[fd] # {} => mask'[fd] # {}
      BY <3>2, StillRegistered
    <3> QED BY <1>1, <1>9, <3>1, <3>3 DEF Working, InEntry
  <2>2. CASE ~Accept /\ ~ClosePurge
    BY <1>7, <1>9, <2>2
  <2> QED BY <1>6, <2>1, <2>2
<1> QED BY <1>4, <1>5, <1>6, <1>8, <1>9, NetStays DEF Next, NetStep

-----------------------------------------------------------------------------
(* Descriptors and the clients behind them.                                *)

\* Which steps change what of a client.
LEMMA ClientFields ==
  ASSUME IInv, [Next]_vars, NEW x \in Conn
  PROVE  /\ \/ conn'[x].st = conn[x].st
            \/ ClientConnect(x) /\ conn'[x].st = "backlog"
            \/ CloseFd /\ x = fdConn[net.fd] /\ conn'[x].st = "closed"
            \/ Accept /\ x = Head(backlog) /\ conn'[x].st \in {"open", "closed"}
         /\ \/ conn'[x].read = conn[x].read
            \/ RecvUnit /\ x = fdConn[net.fd] /\ conn'[x].read = conn[x].read + 1
         /\ \/ conn'[x].sent = conn[x].sent
            \/ ClientSend(x)
         /\ \/ conn'[x].peer = conn[x].peer
            \/ ClientFin(x) /\ conn'[x].peer = "fin"
            \/ ClientRst(x)
         /\ \/ conn'[x].tx = conn[x].tx
            \/ ClientRead(x)
            \/ CloseFd /\ x = fdConn[net.fd]
            \/ Len(conn'[x].tx) >= Len(conn[x].tx)
<1> DEFINE P ==
         /\ \/ conn'[x].st = conn[x].st
            \/ ClientConnect(x) /\ conn'[x].st = "backlog"
            \/ CloseFd /\ x = fdConn[net.fd] /\ conn'[x].st = "closed"
            \/ Accept /\ x = Head(backlog) /\ conn'[x].st \in {"open", "closed"}
         /\ \/ conn'[x].read = conn[x].read
            \/ RecvUnit /\ x = fdConn[net.fd] /\ conn'[x].read = conn[x].read + 1
         /\ \/ conn'[x].sent = conn[x].sent
            \/ ClientSend(x)
         /\ \/ conn'[x].peer = conn[x].peer
            \/ ClientFin(x) /\ conn'[x].peer = "fin"
            \/ ClientRst(x)
         /\ \/ conn'[x].tx = conn[x].tx
            \/ ClientRead(x)
            \/ CloseFd /\ x = fdConn[net.fd]
            \/ Len(conn'[x].tx) >= Len(conn[x].tx)
<1>1. ConnOK(conn)
  BY TypeParts DEF IInv
<1>2. ASSUME NEW c \in Conn, Client(c) PROVE P
  <2>1. ClientConnect(c) \/ ClientSend(c) \/ ClientFin(c) \/ ClientRst(c) \/ ClientRead(c)
    BY <1>2 DEF Client, ClientReads
  <2>2. CASE ClientConnect(c)
    <3>1. Changed(c, "backlog", conn[c].sent, conn[c].read, conn[c].peer, conn[c].tx)
      BY <1>1, <2>2, ClientChanges
    <3> QED BY <2>2, <3>1, ChangedIs
  <2>3. CASE ClientSend(c)
    <3>1. Changed(c, conn[c].st, conn[c].sent + 1, conn[c].read, conn[c].peer, conn[c].tx)
      BY <1>1, <2>3, ClientChanges
    <3> QED BY <2>3, <3>1, ChangedIs
  <2>4. CASE ClientFin(c)
    <3>1. Changed(c, conn[c].st, conn[c].sent, conn[c].read, "fin", conn[c].tx)
      BY <1>1, <2>4, ClientChanges
    <3> QED BY <2>4, <3>1, ChangedIs
  <2>5. CASE ClientRst(c)
    <3>1. Changed(c, conn[c].st, conn[c].sent, conn[c].read, "rst", conn[c].tx)
      BY <1>1, <2>5, ClientChanges
    <3> QED BY <2>5, <3>1, ChangedIs
  <2>6. CASE ClientRead(c)
    <3>1. Changed(c, conn[c].st, conn[c].sent, conn[c].read, conn[c].peer, Tail(conn[c].tx))
      BY <1>1, <2>6, ClientChanges
    <3> QED BY <2>6, <3>1, ChangedIs
  <2> QED BY <2>1, <2>2, <2>3, <2>4, <2>5, <2>6
<1>3. CASE RecvUnit
  <2> DEFINE c == fdConn[net.fd]
  <2>1. /\ c \in Conn
        /\ Changed(c, conn[c].st, conn[c].sent, conn[c].read + 1, conn[c].peer, conn[c].tx)
    BY <1>3, RecvUnitDoes, RecvUnitChanges
  <2>2. /\ conn'[c].st = conn[c].st /\ conn'[c].sent = conn[c].sent
        /\ conn'[c].read = conn[c].read + 1
        /\ conn'[c].peer = conn[c].peer /\ conn'[c].tx = conn[c].tx
        /\ x # c => conn'[x] = conn[x]
    <3> HIDE DEF c
    <3> QED BY <2>1, ChangedIs
  <2> QED BY <1>3, <2>2
<1>4. CASE CloseFd
  <2> DEFINE c == fdConn[net.fd]
  <2>1. CASE c \in Conn
    <3>1. Changed(c, "closed", conn[c].sent, conn[c].read, conn[c].peer, <<>>)
      BY <1>4, <2>1, CloseFdChanges
    <3>2. /\ conn'[c].st = "closed" /\ conn'[c].sent = conn[c].sent
          /\ conn'[c].read = conn[c].read /\ conn'[c].peer = conn[c].peer
          /\ x # c => conn'[x] = conn[x]
      <4> HIDE DEF c
      <4> QED BY <2>1, <3>1, ChangedIs
    <3> QED BY <1>4, <3>2
  <2>2. CASE c \notin Conn
    BY <1>4, <2>2, CloseFdChanges
  <2> QED BY <2>1, <2>2
<1>5. CASE Accept
  <2> DEFINE c == Head(backlog)
  <2>1. /\ c \in Conn
        /\ \/ Changed(c, "open", conn[c].sent, conn[c].read, conn[c].peer, conn[c].tx)
           \/ Changed(c, "closed", conn[c].sent, conn[c].read, conn[c].peer, conn[c].tx)
    BY <1>5, AcceptChanges
  <2>2. /\ conn'[c].st \in {"open", "closed"} /\ conn'[c].sent = conn[c].sent
        /\ conn'[c].read = conn[c].read /\ conn'[c].peer = conn[c].peer
        /\ conn'[c].tx = conn[c].tx
        /\ x # c => conn'[x] = conn[x]
    <3> HIDE DEF c
    <3> QED BY <2>1, ChangedIs
  <2> QED BY <1>5, <2>2
<1>6. ASSUME NEW c \in Conn, NEW tx, Len(tx) >= Len(conn[c].tx),
             Changed(c, conn[c].st, conn[c].sent, conn[c].read, conn[c].peer, tx)
      PROVE  P
  BY <1>6, ChangedIs
<1>7. CASE EventOut
  <2> DEFINE c == fdConn[net.fd]
             msg == m_sendMsgList[net.fd]
  <2>1. msg \in Seq(Conn)
    BY <1>7, EventOutChanges, TypeParts DEF IInv
  <2>2. Len(msg) \in Nat
    BY <2>1
  <2>3. CASE ~ UNCHANGED conn
    <3>1. PICK n \in 0..Len(msg) :
            /\ c \in Conn
            /\ LET tx == conn[c].tx \o SubSeq(msg, 1, n)
               IN  /\ Changed(c, conn[c].st, conn[c].sent, conn[c].read, conn[c].peer, tx)
                   /\ Len(tx) = Len(conn[c].tx) + n
      BY <1>7, <2>3, EventOutChanges
    <3> DEFINE tx == conn[c].tx \o SubSeq(msg, 1, n)
    <3>2. Len(conn[c].tx) \in Nat /\ Len(tx) = Len(conn[c].tx) + n
      <4>1. c \in Conn /\ Len(tx) = Len(conn[c].tx) + n
        BY <3>1
      <4>2. conn[c].tx \in Seq(Conn)
        BY <1>1, <4>1, ConnOf
      <4>3. Len(conn[c].tx) \in Nat
        <5> HIDE DEF c
        <5> QED BY <4>2
      <4> QED BY <4>1, <4>3
    <3>3. Changed(c, conn[c].st, conn[c].sent, conn[c].read, conn[c].peer, tx)
      BY <3>1
    <3> HIDE DEF tx, P, c, msg
    <3>4. n \in Nat
      BY <2>2
    <3>5. \A a, b : b \in Nat /\ a = b + n => a >= b
      BY <3>4
    <3>6. Len(tx) >= Len(conn[c].tx)
      BY <3>2, <3>5
    <3>7. P
      BY <1>6, <3>1, <3>3, <3>6
    <3> QED BY <3>7 DEF P
  <2>4. CASE UNCHANGED conn
    BY <2>4
  <2> QED BY <2>3, <2>4
<1>8. CASE DespatchTest
  <2> DEFINE c == fdConn[deal.sock]
             tx == Append(conn[c].tx, Sender)
  <2>1. \/ UNCHANGED conn
        \/ /\ c \in Conn /\ Sender \in Conn
           /\ Changed(c, conn[c].st, conn[c].sent, conn[c].read, conn[c].peer, tx)
    BY <1>8, DespatchTestChanges
  <2>2. c \in Conn /\ Sender \in Conn => Len(tx) >= Len(conn[c].tx)
    <3>1. c \in Conn => conn[c].tx \in Seq(Conn)
      BY <1>1, ConnOf
    <3> HIDE DEF c
    <3> QED BY <3>1
  <2>3. CASE UNCHANGED conn
    BY <2>3
  <2> HIDE DEF c, tx, P
  <2> QED BY <1>6, <2>1, <2>2, <2>3 DEF P
<1>9. CASE UNCHANGED conn
  BY <1>9
<1>10. NetStep \/ DealStep \/ UNCHANGED vars =>
        \/ RecvUnit \/ CloseFd \/ Accept \/ EventOut \/ DespatchTest \/ UNCHANGED conn
  BY DEF NetStep, DealStep, EpollWait, NextEvent, BatchDone, EventIn, RecvAgain, RecvEnd,
     EventErr, ClosePurge, CloseErase, AcceptEnd, GetPackage, GotNull, DespatchUnknown,
     SendArm, vars, kernel
<1>11. RecvUnit \/ CloseFd \/ Accept \/ EventOut \/ DespatchTest \/ UNCHANGED conn => P
  BY <1>3, <1>4, <1>5, <1>7, <1>8, <1>9
<1> HIDE DEF P
<1>12. P
  BY <1>2, <1>10, <1>11 DEF Next
<1> QED BY <1>12 DEF P

LEMMA FdConnChanges ==
  ASSUME IInv, [Next]_vars
  PROVE  \/ UNCHANGED fdConn
         \/ /\ CloseFd /\ net.fd \in Fd /\ mask[net.fd] = {}
            /\ fdConn' = [fdConn EXCEPT ![net.fd] = NULL]
         \/ /\ Accept
            /\ \E fd \in Fd : /\ fdConn[fd] = NULL /\ fd < MAX_CONN
                              /\ fdConn' = [fdConn EXCEPT ![fd] = Head(backlog)]
                              /\ Ctl(fd, Head(backlog), {"IN"})
                              /\ conn'[Head(backlog)].st = "open"
<1>1. CASE CloseFd
  BY <1>1 DEF CloseFd, IInv, NetPhase, Working, InEntry
<1>2. CASE Accept
  <2> DEFINE c == Head(backlog)
             fd == Min(FreeFds)
  <2>1. /\ c \in Conn /\ fd \in Fd /\ fdConn[fd] = NULL
        /\ \/ /\ Changed(c, "open", conn[c].sent, conn[c].read, conn[c].peer, conn[c].tx)
              /\ fd < MAX_CONN
              /\ fdConn' = [fdConn EXCEPT ![fd] = c]
              /\ Ctl(fd, c, {"IN"})
           \/ UNCHANGED fdConn
    BY <1>2, AcceptChanges
  <2> HIDE DEF c, fd
  <2>2. UNCHANGED fdConn \/ conn'[c].st = "open"
    BY <2>1, ChangedIs
  <2> QED BY <1>2, <2>1, <2>2 DEF c
<1>3. CloseFd \/ Accept \/ UNCHANGED fdConn
  BY DEF Next, NetStep, DealStep, Client, ClientReads, ClientConnect, ClientSend, ClientFin,
     ClientRst, ClientRead, EpollWait, NextEvent, BatchDone, EventIn, RecvUnit, RecvAgain,
     RecvEnd, EventErr, EventOut, ClosePurge, CloseErase, AcceptEnd, GetPackage, GotNull,
     DespatchUnknown, DespatchTest, SendArm, vars, kernel
<1> QED BY <1>1, <1>2, <1>3

LEMMA BacklogChanges ==
  ASSUME IInv, [Next]_vars
  PROVE  \/ UNCHANGED backlog
         \/ \E c \in Conn : /\ ClientConnect(c) /\ conn[c].st = "new"
                            /\ backlog' = Append(backlog, c)
         \/ Accept /\ backlog # <<>> /\ backlog' = Tail(backlog)
BY DEF Next, NetStep, DealStep, Client, ClientReads, ClientConnect, ClientSend, ClientFin,
  ClientRst, ClientRead, EpollWait, NextEvent, BatchDone, EventIn, RecvUnit, RecvAgain,
  RecvEnd, EventErr, EventOut, ClosePurge, CloseFd, CloseErase, Accept, AcceptEnd, GetPackage,
  GotNull, DespatchUnknown, DespatchTest, SendArm, vars, kernel

LEMMA AppendIs ==
  ASSUME NEW S, NEW s \in Seq(S), NEW e \in S
  PROVE  /\ Append(s, e) \in Seq(S)
         /\ Len(s) \in Nat
         /\ DOMAIN s = 1..Len(s)
         /\ DOMAIN Append(s, e) = DOMAIN s \cup {Len(s) + 1}
         /\ Len(s) + 1 \notin DOMAIN s
         /\ \A i \in DOMAIN s : Append(s, e)[i] = s[i]
         /\ Append(s, e)[Len(s) + 1] = e
<1>1. /\ Append(s, e) \in Seq(S)
      /\ Len(s) \in Nat
      /\ Len(Append(s, e)) = Len(s) + 1
      /\ \A i \in 1..Len(s) : Append(s, e)[i] = s[i]
      /\ Append(s, e)[Len(s) + 1] = e
  OBVIOUS
<1>2. DOMAIN s = 1..Len(s) /\ DOMAIN Append(s, e) = 1..Len(s) + 1
  BY <1>1
<1>3. \A n \in Nat : 1..n + 1 = (1..n) \cup {n + 1} /\ n + 1 \notin 1..n
  OBVIOUS
<1> QED BY <1>1, <1>2, <1>3

LEMMA TailIs ==
  ASSUME NEW S, NEW s \in Seq(S), s # <<>>
  PROVE  /\ Tail(s) \in Seq(S) /\ Head(s) = s[1] /\ 1 \in DOMAIN s
         /\ \A i \in DOMAIN Tail(s) : /\ i \in Nat \ {0} /\ i + 1 \in DOMAIN s
                                      /\ Tail(s)[i] = s[i + 1]
         /\ \A i \in DOMAIN s : i = 1 \/ i - 1 \in DOMAIN Tail(s)
         /\ DOMAIN s \subseteq Nat
<1>1. /\ Tail(s) \in Seq(S) /\ Head(s) = s[1]
      /\ Len(s) \in Nat \ {0}
      /\ Len(Tail(s)) = Len(s) - 1
      /\ \A i \in 1..Len(Tail(s)) : Tail(s)[i] = s[i + 1]
      /\ DOMAIN s = 1..Len(s)
      /\ DOMAIN Tail(s) = 1..Len(Tail(s))
  BY HeadTailProperties, EmptySeq, LenProperties
<1>2. ASSUME NEW n \in Nat \ {0}
      PROVE  /\ 1 \in 1..n
             /\ \A i \in 1..n - 1 : i \in Nat \ {0} /\ i + 1 \in 1..n
             /\ \A i \in 1..n : i = 1 \/ i - 1 \in 1..n - 1
             /\ 1..n \subseteq Nat
  OBVIOUS
<1> QED BY <1>1, <1>2

LEMMA BacklogNext ==
  ASSUME IInv, [Next]_vars
  PROVE  /\ \A i \in DOMAIN backlog' : conn'[backlog'[i]].st = "backlog"
         /\ \A i, j \in DOMAIN backlog' : backlog'[i] = backlog'[j] => i = j
<1>1. /\ backlog \in Seq(Conn)
      /\ \A i \in DOMAIN backlog : conn[backlog[i]].st = "backlog"
      /\ \A i, j \in DOMAIN backlog : backlog[i] = backlog[j] => i = j
      /\ \A fd \in Fd : fdConn[fd] # NULL => conn[fdConn[fd]].st = "open"
  BY TypeParts DEF IInv, Descriptors
<1>2. \A i \in DOMAIN backlog : backlog[i] \in Conn
  BY <1>1
<1>3. ASSUME NEW x \in Conn, conn[x].st = "backlog", Accept => x # Head(backlog)
      PROVE  conn'[x].st = "backlog"
  <2>1. CloseFd => x # fdConn[net.fd]
    <3>1. CloseFd => net.fd \in Fd
      BY CloseFdChanges
    <3>2. x # NULL
      BY Constants
    <3> QED BY <1>1, <1>3, <3>1, <3>2
  <2> QED BY <1>3, <2>1, ClientFields
<1>4. CASE Accept /\ backlog' = Tail(backlog) /\ backlog # <<>>
  <2>1. /\ Head(backlog) = backlog[1] /\ 1 \in DOMAIN backlog
        /\ \A i \in DOMAIN backlog' : /\ i \in Nat \ {0} /\ i + 1 \in DOMAIN backlog
                                      /\ backlog'[i] = backlog[i + 1]
    BY <1>1, <1>4, TailIs
  <2>2. ASSUME NEW i \in DOMAIN backlog' PROVE conn'[backlog'[i]].st = "backlog"
    <3>1. i + 1 \in DOMAIN backlog /\ i + 1 # 1 /\ backlog'[i] = backlog[i + 1]
      BY <2>1
    <3>2. backlog'[i] # Head(backlog)
      BY <1>1, <2>1, <3>1
    <3> QED BY <1>1, <1>2, <1>3, <3>1, <3>2
  <2>3. ASSUME NEW i \in DOMAIN backlog', NEW j \in DOMAIN backlog', backlog'[i] = backlog'[j]
        PROVE  i = j
    <3>1. i + 1 = j + 1
      BY <1>1, <2>1, <2>3
    <3> QED BY <2>1, <3>1
  <2> QED BY <2>2, <2>3
<1>5. ASSUME ~Accept, UNCHANGED backlog
      PROVE  \A i \in DOMAIN backlog' : conn'[backlog'[i]].st = "backlog"
  BY <1>1, <1>2, <1>3, <1>5
<1>6. CASE Accept /\ UNCHANGED backlog
  <2>1. backlog # <<>> /\ backlog' = Tail(backlog)
    BY <1>6 DEF Accept
  <2> QED BY <1>4, <1>6, <2>1
<1>7. ASSUME NEW c \in Conn, ClientConnect(c), conn[c].st = "new", backlog' = Append(backlog, c)
      PROVE  /\ \A i \in DOMAIN backlog' : conn'[backlog'[i]].st = "backlog"
             /\ \A i, j \in DOMAIN backlog' : backlog'[i] = backlog'[j] => i = j
  <2>1. Len(backlog') # Len(backlog) - 1
    BY <1>1, <1>7
  <2>2. ~Accept
    <3>1. Accept => Len(backlog') = Len(backlog) - 1
      <4>1. Accept => backlog # <<>> /\ backlog' = Tail(backlog)
        BY DEF Accept
      <4> QED BY <1>1, <4>1, HeadTailProperties
    <3> QED BY <2>1, <3>1
  <2>3. conn'[c].st = "backlog"
    <3>1. ConnOK(conn)
      BY TypeParts DEF IInv
    <3>2. Changed(c, "backlog", conn[c].sent, conn[c].read, conn[c].peer, conn[c].tx)
      BY <1>7, <3>1, ClientChanges
    <3> QED BY <3>2, ChangedIs
  <2>4. /\ DOMAIN backlog' = DOMAIN backlog \cup {Len(backlog) + 1}
        /\ \A i \in DOMAIN backlog : backlog'[i] = backlog[i]
        /\ backlog'[Len(backlog) + 1] = c
    BY <1>1, <1>7, AppendIs
  <2>5. \A i \in DOMAIN backlog : backlog[i] # c /\ conn'[backlog[i]].st = "backlog"
    BY <1>1, <1>2, <1>3, <1>7, <2>2
  <2> QED BY <1>1, <2>3, <2>4, <2>5
<1> QED BY <1>1, <1>4, <1>5, <1>6, <1>7, BacklogChanges

LEMMA DescriptorsNext ==
  ASSUME IInv, [Next]_vars
  PROVE  Descriptors'
<1>1. /\ \A fd \in Fd : mask[fd] # {} => fdConn[fd] # NULL /\ "IN" \in mask[fd]
      /\ \A fd \in Fd : fdConn[fd] # NULL => fd < MAX_CONN /\ conn[fdConn[fd]].st = "open"
      /\ \A a, b \in Fd : fdConn[a] = fdConn[b] /\ fdConn[a] # NULL => a = b
  BY DEF IInv, Descriptors
<1>2. /\ mask \in [Fd -> SUBSET {"IN", "OUT"}]
      /\ fdConn \in [Fd -> Conn \cup {NULL}]
      /\ NULL \notin Conn
  BY TypeParts, Constants DEF IInv
<1>3. Accept => Head(backlog) \in Conn /\ conn[Head(backlog)].st = "backlog"
  BY AcceptChanges
<1>4. ASSUME NEW fd \in Fd, fdConn'[fd] # NULL, fdConn'[fd] = fdConn[fd]
      PROVE  fd < MAX_CONN /\ conn'[fdConn[fd]].st = "open"
  <2>1. fdConn[fd] \in Conn /\ conn[fdConn[fd]].st = "open" /\ fd < MAX_CONN
    BY <1>1, <1>2, <1>4
  <2>2. ~ ClientConnect(fdConn[fd])
    BY <2>1 DEF ClientConnect
  <2>3. ~ (CloseFd /\ fdConn[fd] = fdConn[net.fd])
    <3>1. CloseFd => net.fd \in Fd /\ fdConn'[net.fd] = NULL
      BY <1>2, CloseFdChanges DEF CloseFd
    <3> QED BY <1>1, <1>4, <3>1
  <2>4. ~ (Accept /\ fdConn[fd] = Head(backlog))
    BY <1>3, <2>1
  <2> QED BY <2>1, <2>2, <2>3, <2>4, ClientFields
<1>5. ASSUME NEW fd \in Fd, mask'[fd] # {}
      PROVE  fdConn'[fd] # NULL /\ "IN" \in mask'[fd]
  <2>1. "IN" \in mask'[fd]
    BY <1>1, <1>2, <1>5, MaskChanges
  <2>2. CASE mask[fd] = {}
    <3>1. Accept /\ fdConn[fd] = NULL
      BY <1>5, <2>2, StillRegistered
    <3>2. PICK x \in Fd : /\ fdConn' = [fdConn EXCEPT ![x] = Head(backlog)]
                          /\ mask' = [mask EXCEPT ![x] = {"IN"}]
      <4>1. ~ClosePurge /\ ~EventOut
        BY <3>1 DEF Accept, ClosePurge, EventOut
      <4>2. SendArm => UNCHANGED fdConn /\ UNCHANGED backlog
        BY DEF SendArm
      <4>3. ~SendArm
        <5>1. backlog \in Seq(Conn) /\ backlog # <<>> /\ backlog' = Tail(backlog)
          BY <3>1, TypeParts DEF Accept, IInv
        <5>2. Len(backlog') # Len(backlog)
          BY <5>1
        <5> QED BY <4>2, <5>2
      <4> QED BY <1>5, <2>2, <4>1, <4>3, MaskChanges
    <3>3. x = fd
      BY <1>2, <1>5, <2>2, <3>2
    <3> QED BY <1>2, <1>3, <2>1, <3>1, <3>2, <3>3
  <2>3. CASE mask[fd] # {}
    <3>1. fdConn[fd] # NULL
      BY <1>1, <2>3
    <3> QED BY <1>2, <1>3, <2>1, <2>3, <3>1, FdConnChanges
  <2> QED BY <2>2, <2>3
<1>6. ASSUME NEW fd \in Fd, fdConn'[fd] # NULL
      PROVE  fd < MAX_CONN /\ conn'[fdConn'[fd]].st = "open"
  BY <1>2, <1>4, <1>6, FdConnChanges
<1>7. ASSUME NEW a \in Fd, NEW b \in Fd, fdConn'[a] = fdConn'[b], fdConn'[a] # NULL
      PROVE  a = b
  <2>1. CASE UNCHANGED fdConn \/ CloseFd
    BY <1>1, <1>2, <1>7, <2>1, FdConnChanges DEF CloseFd
  <2>2. ASSUME Accept, NEW fd \in Fd, fdConn' = [fdConn EXCEPT ![fd] = Head(backlog)]
        PROVE  a = b
    <3>1. \A x \in Fd : fdConn[x] # Head(backlog)
      BY <1>1, <1>2, <1>3, <2>2
    <3> QED BY <1>1, <1>2, <1>7, <2>2, <3>1
  <2> QED BY <2>1, <2>2, FdConnChanges
<1> QED BY <1>5, <1>6, <1>7, BacklogNext DEF Descriptors

-----------------------------------------------------------------------------
(* What is received, queued and in hand.                                   *)

\* Steps of others while the network thread stands still.
NotNet == (\E c \in Conn : Client(c)) \/ DealStep \/ UNCHANGED vars

LEMMA NotNetIs ==
  NotNet => UNCHANGED <<net, batch, m_recvMsgList, fdConn>>
BY DEF NotNet, Client, ClientReads, ClientConnect, ClientSend, ClientFin, ClientRst, ClientRead,
  server, vars, DealStep, GetPackage, GotNull, DespatchUnknown, DespatchTest, SendArm, kernel

LEMMA NetAt ==
  ASSUME IInv, [Next]_vars
  PROVE  /\ net.pc = "recv" => NotNet \/ RecvUnit \/ RecvAgain \/ RecvEnd
         /\ net.pc = "purge" => NotNet \/ ClosePurge
         /\ net.pc = "close" => NotNet \/ CloseFd
         /\ net.pc = "erase" => NotNet \/ CloseErase
BY DEF Next, NetStep, NotNet, EpollWait, NextEvent, BatchDone, EventIn, RecvUnit, RecvAgain,
  RecvEnd, EventOut, EventErr, ClosePurge, CloseFd, CloseErase, Accept, AcceptEnd

LEMMA RecvListChanges ==
  ASSUME IInv, [Next]_vars
  PROVE  \/ UNCHANGED m_recvMsgList
         \/ RecvUnit
         \/ /\ RecvEnd \/ EventErr
            /\ m_recvMsgList' = [m_recvMsgList EXCEPT ![net.fd] = <<>>]
BY NotNetIs DEF Next, NetStep, NotNet, EpollWait, NextEvent, BatchDone, EventIn, RecvAgain,
  RecvEnd, EventOut, EventErr, EraseRecv, ClosePurge, CloseFd, CloseErase, Accept, AcceptEnd

LEMMA QueueChanges ==
  ASSUME IInv, [Next]_vars
  PROVE  \/ UNCHANGED queue
         \/ RecvUnit
         \/ ClosePurge
         \/ GetPackage /\ queue # <<>> /\ queue' = Tail(queue)
<1>1. GetPackage => UNCHANGED queue \/ (queue # <<>> /\ queue' = Tail(queue))
  BY GetPackageDoes
<1> QED BY <1>1
  DEF Next, Client, ClientReads, server, NetStep, EpollWait, NextEvent, BatchDone, EventIn,
  RecvAgain, RecvEnd, EventOut, EventErr, CloseFd, CloseErase, Accept, AcceptEnd, DealStep,
  GotNull, DespatchUnknown, DespatchTest, SendArm, List!Done, vars

\* A node of the queue was there before, or OnRecv has just put it there.
LEMMA QueueFrom ==
  ASSUME IInv, [Next]_vars
  PROVE  \A k \in DOMAIN queue' :
           \/ \E i \in DOMAIN queue : queue'[k] = queue[i]
           \/ /\ RecvUnit
              /\ LET c == fdConn[net.fd]
                 IN  queue'[k] = [sock |-> net.fd, pMsg |-> EndingAt(c, conn[c].read + 1)]
<1>1. queue \in Seq(Node)
  BY TypeParts DEF IInv, Node
<1>2. CASE RecvUnit
  <2> DEFINE c == fdConn[net.fd]
             e == [sock |-> net.fd, pMsg |-> EndingAt(c, conn[c].read + 1)]
  <2>1. UNCHANGED queue \/ (queue' = Append(queue, e) /\ e \in Node)
    BY <1>2, RecvUnitDoes DEF Node
  <2> HIDE DEF e
  <2>2. UNCHANGED queue \/ \A k \in DOMAIN queue' :
            (k \in DOMAIN queue /\ queue'[k] = queue[k]) \/ queue'[k] = e
    BY <1>1, <2>1, AppendIs
  <2> QED BY <1>2, <2>2 DEF e
<1>3. CASE ClosePurge
  <2>1. \A k \in DOMAIN queue' : /\ Nth(Others(net.fd), k) \in Others(net.fd)
                                 /\ queue'[k] = queue[Nth(Others(net.fd), k)]
    BY <1>3, PurgeKeeps DEF ClosePurge, DelMsg
  <2> QED BY <2>1 DEF Others
<1>4. CASE queue # <<>> /\ queue' = Tail(queue)
  BY <1>1, <1>4, TailIs
<1> QED BY <1>2, <1>3, <1>4, QueueChanges

LEMMA ClearedNext ==
  ASSUME IInv, [Next]_vars
  PROVE  Cleared'
<1>1. /\ net.pc \in {"purge", "close"} => m_recvMsgList[net.fd] = <<>>
      /\ net.pc = "close" => \A i \in DOMAIN queue : queue[i].sock # net.fd
      /\ m_recvMsgList \in [Fd -> Seq(Unit)]
  BY TypeParts DEF IInv, Cleared
<1>2. ASSUME net'.pc \in {"purge", "close"}
      PROVE  m_recvMsgList'[net'.fd] = <<>>
  <2>1. CASE NotNet
    BY <1>1, <1>2, <2>1, NotNetIs
  <2>2. CASE RecvUnit
    <3>1. net'.pc # net.pc
      BY <1>2, <2>2 DEF RecvUnit
    <3>2. m_recvMsgList' = [m_recvMsgList EXCEPT ![net.fd] = <<>>] /\ net.fd \in Fd
      BY <2>2, <3>1, RecvUnitDoes
    <3>3. net'.fd = net.fd
      BY <2>2, NetMoves DEF Moves
    <3> QED BY <1>1, <3>2, <3>3
  <2>3. CASE RecvEnd \/ EventErr
    <3>1. m_recvMsgList' = [m_recvMsgList EXCEPT ![net.fd] = <<>>]
      BY <2>3 DEF RecvEnd, EventErr, EraseRecv
    <3>2. net.fd \in Fd /\ net'.fd = net.fd
      BY <2>3, NetMoves DEF RecvEnd, EventErr, Moves, IInv, NetPhase, InEntry
    <3> QED BY <1>1, <3>1, <3>2
  <2>4. CASE ClosePurge
    BY <1>1, <2>4, NetMoves DEF ClosePurge, Moves
  <2>5. CASE ~NotNet /\ ~RecvUnit /\ ~RecvEnd /\ ~EventErr /\ ~ClosePurge
    <3>1. /\ ~CloseFd /\ ~CloseErase /\ ~EpollWait /\ ~BatchDone /\ ~EventIn /\ ~RecvAgain
          /\ ~EventOut /\ ~AcceptEnd
          /\ \A fd \in Fd \cup {Listener} : ~NextEvent(fd)
      BY <1>2, NetMoves DEF Moves
    <3>2. Accept => UNCHANGED net /\ net.pc = "accept"
      BY DEF Accept
    <3> QED BY <1>2, <2>5, <3>1, <3>2 DEF Next, NetStep, NotNet
  <2> QED BY <2>1, <2>2, <2>3, <2>4, <2>5
<1>3. ASSUME net'.pc = "close", NEW k \in DOMAIN queue'
      PROVE  queue'[k].sock # net'.fd
  <2>1. CASE ClosePurge
    <3>1. /\ Nth(Others(net.fd), k) \in Others(net.fd)
          /\ queue'[k] = queue[Nth(Others(net.fd), k)]
      BY <1>3, <2>1, PurgeKeeps DEF ClosePurge, DelMsg
    <3>2. net'.fd = net.fd
      BY <2>1, NetMoves DEF Moves
    <3> QED BY <3>1, <3>2 DEF Others
  <2>2. CASE NotNet
    <3>1. ~RecvUnit
      BY <1>3, <2>2, NotNetIs DEF RecvUnit
    <3>2. \E i \in DOMAIN queue : queue'[k] = queue[i]
      BY <1>3, <3>1, QueueFrom
    <3> QED BY <1>1, <1>3, <2>2, <3>2, NotNetIs
  <2>3. CASE ~NotNet /\ ~ClosePurge
    <3>1. /\ ~CloseFd /\ ~CloseErase /\ ~EpollWait /\ ~BatchDone /\ ~EventIn /\ ~RecvAgain
          /\ ~EventOut /\ ~AcceptEnd /\ ~RecvUnit /\ ~RecvEnd /\ ~EventErr
          /\ \A fd \in Fd \cup {Listener} : ~NextEvent(fd)
      BY <1>3, NetMoves DEF Moves
    <3>2. Accept => UNCHANGED net /\ net.pc = "accept"
      BY DEF Accept
    <3> QED BY <1>3, <2>3, <3>1, <3>2 DEF Next, NetStep, NotNet
  <2> QED BY <2>1, <2>2, <2>3
<1> QED BY <1>2, <1>3 DEF Cleared

LEMMA DealChanges ==
  ASSUME IInv, [Next]_vars
  PROVE  \/ UNCHANGED deal
         \/ /\ GetPackage /\ deal.pc = "call" /\ deal'.pc = "ret" /\ deal'.pMsg = NULL
            /\ UNCHANGED queue
         \/ /\ GetPackage /\ deal.pc = "call" /\ deal'.pc = "ret"
            /\ 1 \in DOMAIN queue /\ queue[1] \in Node
            /\ queue # <<>> /\ queue' = Tail(queue)
            /\ deal'.pMsg = queue[1].pMsg /\ deal'.sock = queue[1].sock
         \/ /\ GotNull \/ DespatchUnknown \/ DespatchTest \/ SendArm
            /\ deal.pc \in {"ret", "arm"} /\ deal'.pc = "call" /\ deal'.pMsg = NULL
         \/ /\ DespatchTest /\ deal.pc = "ret" /\ deal.pMsg # NULL
            /\ deal'.pc = "arm" /\ deal'.pMsg = deal.pMsg /\ deal'.sock = deal.sock
<1>1. deal \in DealState
  BY TypeParts DEF IInv
<1>2. List!Done => deal.pc = "ret" /\ deal'.pc = "call" /\ deal'.pMsg = NULL
  BY <1>1 DEF List!Done, DealState
<1>3. CASE GetPackage
  <2>1. [deal EXCEPT !.pc = "ret", !.pMsg = NULL].pc = "ret"
        /\ [deal EXCEPT !.pc = "ret", !.pMsg = NULL].pMsg = NULL
    BY <1>1 DEF DealState
  <2>2. deal.pc = "call"
    BY <1>3, GetPackageDoes
  <2>3. CASE UNCHANGED queue /\ deal' = [deal EXCEPT !.pc = "ret", !.pMsg = NULL]
    BY <1>3, <2>1, <2>2, <2>3
  <2>4. CASE /\ queue # <<>>
             /\ queue' = Tail(queue)
             /\ 1 \in DOMAIN queue /\ queue[1] \in Node
             /\ deal' = [pc |-> "ret", sock |-> queue[1].sock, pMsg |-> queue[1].pMsg]
    BY <1>3, <2>2, <2>4
  <2> QED BY <1>3, <2>3, <2>4, GetPackageDoes
<1>4. CASE GotNull \/ DespatchUnknown
  BY <1>2, <1>4 DEF GotNull, DespatchUnknown
<1>5. CASE DespatchTest
  <2>1. deal' = [deal EXCEPT !.pc = "arm"] \/ List!Done
    BY <1>5 DEF DespatchTest
  <2>2. deal.pc = "ret" /\ deal.pMsg # NULL
    BY <1>5 DEF DespatchTest
  <2> QED BY <1>1, <1>2, <1>5, <2>1, <2>2 DEF DealState
<1>6. CASE SendArm
  BY <1>1, <1>6 DEF SendArm, DealState
<1>7. DealStep \/ UNCHANGED deal
  BY DEF Next, Client, ClientReads, server, NetStep, EpollWait, NextEvent, BatchDone, EventIn,
  RecvUnit, RecvAgain, RecvEnd, EventOut, EventErr, ClosePurge, CloseFd, CloseErase, Accept,
  AcceptEnd, vars
<1> QED BY <1>3, <1>4, <1>5, <1>6, <1>7 DEF DealStep

LEMMA HandNext ==
  ASSUME IInv, [Next]_vars
  PROVE  Hand'
<1>1. Hand
  BY DEF IInv
<1>2. \A e \in Node : e.sock \in Fd /\ e.pMsg \in Message
  BY DEF Node
<1> QED BY <1>1, <1>2, DealChanges DEF Hand

\* A client is heard and answered only once it has a descriptor.
LEMMA UnheardNext ==
  ASSUME IInv, [Next]_vars
  PROVE  Unheard'
<1> SUFFICES ASSUME NEW c \in Conn, conn'[c].st \in {"new", "backlog"}
             PROVE  conn'[c].read = 0 /\ handled'[c] = 0 /\ (deal'.pMsg # NULL => Sender' # c)
  BY DEF Unheard
<1>1. conn[c].st \in {"new", "backlog"}
  BY ClientFields DEF ClientConnect
<1>2. conn[c].read = 0 /\ handled[c] = 0 /\ (deal.pMsg # NULL => Sender # c)
  BY <1>1 DEF IInv, Unheard
<1>3. \A fd \in Fd : fdConn[fd] # c
  BY <1>1, Constants DEF IInv, Descriptors
<1>4. conn'[c].read = 0
  <2>1. RecvUnit => c # fdConn[net.fd]
    BY <1>3, RecvUnitDoes
  <2> QED BY <1>2, <2>1, ClientFields
<1>5. handled'[c] = 0
  <2>1. CASE DespatchUnknown \/ DespatchTest
    <3>1. Sender # c
      BY <1>2, <2>1 DEF DespatchUnknown, DespatchTest
    <3>2. handled \in [Conn -> 0..NumMsg]
      BY TypeParts DEF IInv
    <3> QED BY <1>2, <2>1, <3>1, <3>2, HandledNext
  <2>2. CASE ~DespatchUnknown /\ ~DespatchTest
    <3>1. UNCHANGED handled
      BY <2>2 DEF Next, Client, ClientReads, server, NetStep, EpollWait, NextEvent, BatchDone,
         EventIn, RecvUnit, RecvAgain, RecvEnd, EventOut, EventErr, ClosePurge, CloseFd,
         CloseErase, Accept, AcceptEnd, DealStep, GetPackage, GotNull, SendArm, vars
    <3> QED BY <1>2, <3>1
  <2> QED BY <2>1, <2>2
<1>6. ASSUME deal'.pMsg # NULL PROVE Sender' # c
  <2>1. deal'.pMsg = deal.pMsg \/ (1 \in DOMAIN queue /\ queue[1] \in Node /\ deal'.pMsg = queue[1].pMsg)
    BY <1>6, DealChanges
  <2>2. ASSUME 1 \in DOMAIN queue, queue[1] \in Node PROVE queue[1].pMsg[1][1] # c
    <3>1. queue[1].pMsg[1][1] = fdConn[queue[1].sock] /\ queue[1].sock \in Fd
      BY <2>2 DEF IInv, BytesBelongToFd, Node
    <3> QED BY <1>3, <3>1
  <2> QED BY <1>2, <1>6, <2>1, <2>2 DEF Sender
<1> QED BY <1>4, <1>5, <1>6

\* What is half received or queued under a number, and whose it is.
LEMMA UnderFd ==
  ASSUME IInv
  PROVE  /\ \A fd \in Fd : \A i \in DOMAIN m_recvMsgList[fd] :
              m_recvMsgList[fd][i][1] = fdConn[fd] /\ m_recvMsgList[fd][i][1] \in Conn
         /\ \A i \in DOMAIN queue :
              /\ queue[i].sock \in Fd
              /\ queue[i].pMsg \in Message
              /\ queue[i].pMsg[1][1] \in Conn
              /\ \A k \in 1..2 : queue[i].pMsg[k][1] = fdConn[queue[i].sock]
         /\ m_recvMsgList \in [Fd -> Seq(Unit)]
         /\ queue \in Seq(Node)
         /\ fdConn \in [Fd -> Conn \cup {NULL}]
         /\ NULL \notin Conn
<1>1. /\ \A fd \in Fd : \A i \in DOMAIN m_recvMsgList[fd] : m_recvMsgList[fd][i][1] = fdConn[fd]
      /\ \A i \in DOMAIN queue : \A k \in 1..2 : queue[i].pMsg[k][1] = fdConn[queue[i].sock]
  BY DEF IInv, BytesBelongToFd
<1>2. /\ m_recvMsgList \in [Fd -> Seq(Unit)]
      /\ queue \in Seq(Node)
      /\ fdConn \in [Fd -> Conn \cup {NULL}]
      /\ NULL \notin Conn
  BY TypeParts, Constants DEF IInv, Node
<1>3. \A i \in DOMAIN queue : /\ queue[i].sock \in Fd
                              /\ queue[i].pMsg \in Message
                              /\ queue[i].pMsg[1][1] \in Conn
  <2>1. \A i \in DOMAIN queue : queue[i] \in Node
    BY <1>2
  <2> QED BY <2>1, MessageParts DEF Node
<1>4. \A fd \in Fd : \A i \in DOMAIN m_recvMsgList[fd] : m_recvMsgList[fd][i][1] \in Conn
  <2>1. ASSUME NEW fd \in Fd, NEW i \in DOMAIN m_recvMsgList[fd]
        PROVE  m_recvMsgList[fd][i] \in Unit
    <3>1. m_recvMsgList[fd] \in Seq(Unit)
      BY <1>2
    <3> QED BY <2>1, <3>1
  <2> QED BY <2>1 DEF Unit
<1> QED BY <1>1, <1>2, <1>3, <1>4

\* A number that gets another client, or none, has nothing under it.
LEMMA NewFdIsEmpty ==
  ASSUME IInv, [Next]_vars, NEW fd \in Fd, fdConn'[fd] # fdConn[fd]
  PROVE  /\ m_recvMsgList'[fd] = <<>>
         /\ \A k \in DOMAIN queue' : queue'[k].sock # fd
<1>1. UNCHANGED <<m_recvMsgList, queue>>
  BY FdConnChanges DEF CloseFd, Accept
<1>2. fdConn \in [Fd -> Conn \cup {NULL}]
  BY UnderFd
<1>3. CASE CloseFd
  <2>1. fd = net.fd
    BY <1>2, <1>3 DEF CloseFd
  <2> QED BY <1>1, <1>3, <2>1 DEF CloseFd, IInv, Cleared
<1>4. CASE Accept
  <2>1. fdConn[fd] = NULL
    BY <1>2, <1>4, FdConnChanges DEF Accept, CloseFd
  <2>2. m_recvMsgList[fd] \in Seq(Unit) /\ DOMAIN m_recvMsgList[fd] = {}
    BY <2>1, UnderFd
  <2>3. m_recvMsgList[fd] = <<>>
    <3>1. \A s \in Seq(Unit) : s # <<>> => 1 \in DOMAIN s
      OBVIOUS
    <3> QED BY <2>2, <3>1
  <2>4. \A k \in DOMAIN queue : queue[k].sock # fd
    <3>1. 1 \in 1..2
      OBVIOUS
    <3>2. \A k \in DOMAIN queue : fdConn[queue[k].sock] \in Conn
      BY <3>1, UnderFd
    <3> QED BY <2>1, <3>2, UnderFd
  <2> QED BY <1>1, <2>3, <2>4
<1> QED BY <1>3, <1>4, FdConnChanges

\* What is queued or half received under a number belongs to its client.
LEMMA BelongsNext ==
  ASSUME IInv, [Next]_vars
  PROVE  BytesBelongToFd'
<1>1. /\ \A fd \in Fd : \A i \in DOMAIN m_recvMsgList[fd] : m_recvMsgList[fd][i][1] = fdConn[fd]
      /\ \A i \in DOMAIN queue :
           /\ queue[i].sock \in Fd
           /\ \A k \in 1..2 : queue[i].pMsg[k][1] = fdConn[queue[i].sock]
      /\ m_recvMsgList \in [Fd -> Seq(Unit)]
      /\ fdConn \in [Fd -> Conn \cup {NULL}]
      /\ NULL \notin Conn
  BY UnderFd
<1>2. ASSUME NEW fd \in Fd, NEW i \in DOMAIN m_recvMsgList'[fd]
      PROVE  m_recvMsgList'[fd][i][1] = fdConn'[fd]
  <2>1. fdConn'[fd] = fdConn[fd]
    <3>1. DOMAIN <<>> = {}
      OBVIOUS
    <3> QED BY NewFdIsEmpty, <1>2, <3>1
  <2>2. CASE m_recvMsgList'[fd] = m_recvMsgList[fd]
    BY <1>1, <1>2, <2>1, <2>2
  <2>3. CASE m_recvMsgList'[fd] # m_recvMsgList[fd]
    <3>1. RecvUnit
      <4>1. ~ (m_recvMsgList' = [m_recvMsgList EXCEPT ![net.fd] = <<>>])
        <5>1. DOMAIN <<>> = {}
          OBVIOUS
        <5> QED BY <1>1, <1>2, <2>3, <5>1
      <4> QED BY <2>3, <4>1, RecvListChanges
    <3> DEFINE n == conn[fdConn[net.fd]].read + 1
               c == fdConn[net.fd]
    <3>2. \/ m_recvMsgList' = [m_recvMsgList EXCEPT ![net.fd] = << <<c, n>> >>]
          \/ m_recvMsgList' = [m_recvMsgList EXCEPT ![net.fd] = <<>>]
      BY <3>1, RecvUnitDoes
    <3>3. fd = net.fd /\ m_recvMsgList'[fd] \in {<< <<c, n>> >>, <<>>}
      BY <1>1, <2>3, <3>2
    <3>4. m_recvMsgList'[fd] = << <<c, n>> >> /\ i = 1
      <4>1. DOMAIN <<>> = {} /\ \A u : DOMAIN <<u>> = {1}
        OBVIOUS
      <4> HIDE DEF n, c
      <4> QED BY <1>2, <3>3, <4>1
    <3> QED BY <2>1, <3>3, <3>4
  <2> QED BY <2>2, <2>3
<1>3. ASSUME NEW k \in DOMAIN queue', NEW j \in 1..2
      PROVE  queue'[k].pMsg[j][1] = fdConn'[queue'[k].sock]
  <2>1. CASE \E i \in DOMAIN queue : queue'[k] = queue[i]
    <3>1. queue'[k].sock \in Fd /\ queue'[k].pMsg[j][1] = fdConn[queue'[k].sock]
      BY <1>1, <1>3, <2>1
    <3> QED BY NewFdIsEmpty, <1>3, <3>1
  <2>2. CASE /\ RecvUnit
             /\ LET c == fdConn[net.fd]
                IN  queue'[k] = [sock |-> net.fd, pMsg |-> EndingAt(c, conn[c].read + 1)]
    <3> DEFINE c == fdConn[net.fd]
    <3>1. queue'[k].sock = net.fd /\ queue'[k].pMsg = EndingAt(c, conn[c].read + 1)
      BY <2>2
    <3>2. UNCHANGED fdConn
      BY <2>2 DEF RecvUnit
    <3>3. j = 1 \/ j = 2
      OBVIOUS
    <3> HIDE DEF c
    <3>4. queue'[k].pMsg[j][1] = c
      BY <3>1, <3>3, EndingAtIs
    <3> QED BY <3>1, <3>2, <3>4 DEF c
  <2> QED BY <2>1, <2>2, QueueFrom
<1> QED BY <1>2, <1>3 DEF BytesBelongToFd

-----------------------------------------------------------------------------
(* Replies that wait for room.                                             *)

\* SendMsg starts a list of waiting replies when the socket is full.
LEMMA SendListStarts ==
  ASSUME IInv, [Next]_vars, NEW fd \in Fd, m_sendMsgList[fd] = <<>>, m_sendMsgList'[fd] # <<>>
  PROVE  /\ DespatchTest /\ fd = deal.sock
         /\ fdConn[fd] \in Conn
         /\ conn[fdConn[fd]].peer # "rst" /\ Len(conn[fdConn[fd]].tx) = TxCap
         /\ deal'.pc = "arm" /\ deal'.sock = fd
         /\ UNCHANGED conn
<1>1. m_sendMsgList \in [Fd -> Seq(Conn)] /\ deal \in DealState
  BY TypeParts DEF IInv
<1>2. CASE DespatchTest
  <2> DEFINE c == fdConn[deal.sock]
  <2>1. /\ c \in Conn
        /\ conn[c].peer # "rst" /\ Len(conn[c].tx) = TxCap
        /\ m_sendMsgList' = [m_sendMsgList EXCEPT ![deal.sock] = <<Sender>>]
        /\ deal' = [deal EXCEPT !.pc = "arm"]
        /\ UNCHANGED <<conn, queue>>
    <3>1. ~ UNCHANGED m_sendMsgList
      OBVIOUS
    <3>2. ~ (m_sendMsgList[deal.sock] # <<>>
             /\ m_sendMsgList' = [m_sendMsgList EXCEPT ![deal.sock] = Append(@, Sender)])
      BY <1>1
    <3> HIDE DEF c
    <3> QED BY <1>2, <3>1, <3>2, DespatchTestChanges DEF c
  <2>2. fd = deal.sock
    BY <1>1, <2>1
  <2> QED BY <1>1, <1>2, <2>1, <2>2 DEF DealState
<1>3. CASE EventOut
  <2>1. PICK rest : m_sendMsgList[net.fd] # <<>>
                    /\ m_sendMsgList' = [m_sendMsgList EXCEPT ![net.fd] = rest]
    <3>1. ~ UNCHANGED m_sendMsgList
      OBVIOUS
    <3> QED BY <1>3, <3>1, EventOutChanges
  <2>2. FALSE
    BY <1>1, <2>1
  <2> QED BY <2>2
<1>4. CASE CloseErase
  BY <1>1, <1>4 DEF CloseErase
<1>5. DespatchTest \/ EventOut \/ CloseErase \/ UNCHANGED m_sendMsgList
  BY DEF Next, Client, ClientReads, server, NetStep, EpollWait, NextEvent, BatchDone, EventIn,
  RecvUnit, RecvAgain, RecvEnd, EventErr, ClosePurge, CloseFd, Accept, AcceptEnd, DealStep,
  GetPackage, GotNull, DespatchUnknown, SendArm, vars
<1> QED BY <1>2, <1>3, <1>4, <1>5

LEMMA NoLeftoverReplyNext ==
  ASSUME IInv, [Next]_vars
  PROVE  NoLeftoverReply'
<1> SUFFICES ASSUME NEW fd \in Fd, m_sendMsgList'[fd] # <<>>, fdConn'[fd] = NULL
             PROVE  net'.fd = fd /\ net'.pc = "erase"
  BY DEF NoLeftoverReply
<1>1. /\ fdConn \in [Fd -> Conn \cup {NULL}]
      /\ m_sendMsgList \in [Fd -> Seq(Conn)]
      /\ NULL \notin Conn
  BY TypeParts, Constants DEF IInv
<1>2. CASE CloseFd
  <2>1. UNCHANGED m_sendMsgList /\ net.pc = "close"
    BY <1>2 DEF CloseFd
  <2>2. fdConn[fd] # NULL
    BY <2>1 DEF IInv, NoLeftoverReply
  <2>3. fd = net.fd
    BY <1>1, <1>2, <2>2 DEF CloseFd
  <2> QED BY <1>2, <2>3, NetMoves DEF Moves
<1>3. CASE ~CloseFd
  <2>1. fdConn[fd] = NULL
    <3>1. Accept => Head(backlog) \in Conn
      BY AcceptChanges
    <3> QED BY <1>1, <1>3, <3>1, FdConnChanges
  <2>2. m_sendMsgList[fd] # <<>>
    BY <1>1, <2>1, SendListStarts
  <2>3. net.fd = fd /\ net.pc = "erase"
    BY <2>1, <2>2 DEF IInv, NoLeftoverReply
  <2>4. ~CloseErase
    BY <1>1, <2>3 DEF CloseErase
  <2> QED BY <2>3, <2>4, NetAt, NotNetIs
<1> QED BY <1>2, <1>3

\* EPOLLOUT is given up only when no reply is left.
LEMMA KeepsOut ==
  ASSUME IInv, [Next]_vars, NEW fd \in Fd, m_sendMsgList[fd] # <<>>, m_sendMsgList'[fd] # <<>>,
         mask'[fd] # {}, "OUT" \in mask[fd]
  PROVE  "OUT" \in mask'[fd]
<1>1. /\ mask \in [Fd -> SUBSET {"IN", "OUT"}]
      /\ m_sendMsgList \in [Fd -> Seq(Conn)]
  BY TypeParts DEF IInv
<1>2. CASE EventOut
  <2>1. fd # net.fd \/ UNCHANGED mask
    BY <1>1, <1>2, EventOutChanges
  <2>2. ~SendArm
    <3>1. EventOut => net' = [net EXCEPT !.ev = @ \ {"OUT"}] /\ "OUT" \in net.ev
      BY DEF EventOut
    <3>2. SendArm => UNCHANGED net
      BY DEF SendArm
    <3>3. net \in NetState
      BY TypeParts DEF IInv
    <3> QED BY <1>2, <3>1, <3>2, <3>3 DEF NetState
  <2> QED BY <1>1, <1>2, <2>1, <2>2, MaskChanges DEF EventOut, ClosePurge, Accept
<1>3. CASE Accept
  <2>1. fdConn[fd] # NULL
    BY DEF IInv, Descriptors
  <2>2. ~ClosePurge /\ ~EventOut
    BY <1>3 DEF Accept, ClosePurge, EventOut
  <2> QED BY <1>1, <2>1, <2>2, MaskChanges
<1>4. CASE ~EventOut /\ ~Accept
  BY <1>1, <1>4, MaskChanges
<1> QED BY <1>2, <1>3, <1>4

LEMMA ArmedNext ==
  ASSUME IInv, [Next]_vars
  PROVE  Armed'
<1> SUFFICES ASSUME NEW fd \in Fd, m_sendMsgList'[fd] # <<>>, mask'[fd] # {}
             PROVE  "OUT" \in mask'[fd] \/ (deal'.pc = "arm" /\ deal'.sock = fd)
  BY DEF Armed
<1>1. /\ mask \in [Fd -> SUBSET {"IN", "OUT"}]
      /\ m_sendMsgList \in [Fd -> Seq(Conn)]
  BY TypeParts DEF IInv
<1>2. CASE m_sendMsgList[fd] = <<>>
  BY <1>2, SendListStarts
<1>3. CASE m_sendMsgList[fd] # <<>>
  <2>1. mask[fd] # {}
    <3>1. mask[fd] = {} => Accept /\ fdConn[fd] = NULL
      BY StillRegistered
    <3>2. Accept => net.pc = "accept"
      BY DEF Accept
    <3> QED BY <1>3, <3>1, <3>2 DEF IInv, NoLeftoverReply
  <2>2. "OUT" \in mask[fd] \/ (deal.pc = "arm" /\ deal.sock = fd)
    BY <1>3, <2>1 DEF IInv, Armed
  <2>3. CASE SendArm
    <3>1. deal.sock \in Fd
      BY <2>3 DEF IInv, Hand, SendArm
    <3>2. mask[deal.sock] = {} \/ mask' = [mask EXCEPT ![deal.sock] = {"IN", "OUT"}]
      BY <2>3 DEF SendArm, SendMask, CtlMod, Ctl
    <3>3. mask[deal.sock] = {} => UNCHANGED mask
      BY <2>3 DEF SendArm, SendMask, CtlMod
    <3> QED BY <1>1, <2>1, <2>2, <3>1, <3>2, <3>3
  <2>4. CASE ~SendArm
    <3>1. deal.pc = "arm" /\ deal.sock = fd => deal'.pc = "arm" /\ deal'.sock = fd
      <4>1. deal.pc = "arm" => UNCHANGED deal \/ SendArm
        BY DealChanges DEF GotNull, DespatchUnknown, DespatchTest, List!Done
      <4> QED BY <2>4, <4>1
    <3> QED BY <1>3, <2>2, <3>1, KeepsOut
  <2> QED BY <2>3, <2>4
<1> QED BY <1>2, <1>3

-----------------------------------------------------------------------------
(* The order of a client's messages.                                       *)

LEMMA Queued ==
  ASSUME IInv, NEW c
  PROVE  /\ \A i \in From(c) : /\ i \in DOMAIN queue /\ i \in Nat
                               /\ queue[i].pMsg \in Message /\ End(queue[i].pMsg) \in Nat
                               /\ queue[i].sock \in Fd /\ fdConn[queue[i].sock] = c
         /\ From(c) # {} => c \in Conn
<1>1. queue \in Seq(Node) /\ NumMsg \in Nat
  BY TypeParts, Constants DEF IInv, Node
<1>2. ASSUME NEW i \in From(c)
      PROVE  /\ i \in DOMAIN queue /\ i \in Nat
             /\ queue[i].pMsg \in Message /\ End(queue[i].pMsg) \in Nat
             /\ queue[i].sock \in Fd /\ fdConn[queue[i].sock] = c /\ c \in Conn
  <2>1. i \in DOMAIN queue /\ queue[i] \in Node /\ i \in Nat /\ queue[i].pMsg[1][1] = c
    BY <1>1 DEF From
  <2>2. queue[i].pMsg \in Message /\ queue[i].sock \in Fd
    BY <2>1 DEF Node
  <2>3. End(queue[i].pMsg) \in 1..2 * NumMsg /\ c \in Conn
    BY <2>1, <2>2, MessageParts DEF End
  <2>4. fdConn[queue[i].sock] = c
    <3>1. 1 \in 1..2
      OBVIOUS
    <3> QED BY <2>1, <3>1 DEF IInv, BytesBelongToFd
  <2>5. End(queue[i].pMsg) \in Nat
    BY <1>1, <2>3
  <2> QED BY <2>1, <2>2, <2>3, <2>4, <2>5
<1> QED BY <1>2

LEMMA TakenType ==
  ASSUME IInv, NEW c \in Conn
  PROVE  TakenUnits(c) \in Nat
<1>1. handled[c] \in Nat
  BY TypeParts, Constants DEF IInv
<1> QED BY <1>1 DEF TakenUnits

LEMMA GetMoves ==
  ASSUME IInv, GetPackage
  PROVE  deal.pc = "call" /\ deal'.pc = "ret"
<1>1. deal \in DealState
  BY TypeParts DEF IInv
<1>2. [deal EXCEPT !.pc = "ret", !.pMsg = NULL].pc = "ret"
  BY <1>1 DEF DealState
<1>3. \A sock, pMsg : [pc |-> "ret", sock |-> sock, pMsg |-> pMsg].pc = "ret"
  OBVIOUS
<1>4. \/ deal' = [deal EXCEPT !.pc = "ret", !.pMsg = NULL]
      \/ \E sock, pMsg : deal' = [pc |-> "ret", sock |-> sock, pMsg |-> pMsg]
  BY GetPackageDoes
<1>5. deal'.pc = "ret"
  BY <1>2, <1>3, <1>4
<1> QED BY <1>5, GetPackageDoes

\* The message thread takes messages from the front of the queue.
LEMMA TakenChanges ==
  ASSUME IInv, [Next]_vars, NEW c \in Conn
  PROVE  \/ /\ ~ GetPackage \/ UNCHANGED queue
            /\ TakenUnits(c)' = TakenUnits(c)
            /\ InHand(c)' => InHand(c) /\ deal'.pMsg = deal.pMsg
         \/ /\ GetPackage /\ queue # <<>> /\ queue' = Tail(queue)
            /\ queue[1].pMsg[1][1] = c /\ deal'.pMsg = queue[1].pMsg
            /\ ~ InHand(c)
            /\ TakenUnits(c)' = TakenUnits(c) + 2
         \/ /\ GetPackage /\ queue # <<>> /\ queue' = Tail(queue)
            /\ queue[1].pMsg[1][1] # c
            /\ ~ InHand(c) /\ ~ InHand(c)'
            /\ TakenUnits(c)' = TakenUnits(c)
<1>1. CASE DespatchUnknown \/ DespatchTest
  <2>1. deal.pc = "ret" /\ deal.pMsg # NULL
    BY <1>1 DEF DespatchUnknown, DespatchTest
  <2>2. deal'.pc # "ret"
    <3>1. UNCHANGED deal => FALSE
      <4>1. deal \in DealState
        BY TypeParts DEF IInv
      <4>2. List!Done \/ deal' = [deal EXCEPT !.pc = "arm"]
        BY <1>1 DEF DespatchUnknown, DespatchTest
      <4>3. deal'.pc # "ret"
        BY <4>1, <4>2 DEF List!Done, DealState
      <4> QED BY <2>1, <4>3
    <3> QED BY <2>1, <3>1, DealChanges
  <2>3. handled' = [handled EXCEPT ![Sender] = @ + 1] /\ Sender \in Conn
    BY <1>1, HandledNext
  <2>4. handled \in [Conn -> 0..NumMsg] /\ handled[c] \in Nat
    BY TypeParts, Constants DEF IInv
  <2>5. ~ GetPackage
    BY <2>1, GetMoves
  <2>6. CASE c = Sender
    <3>1. handled'[c] = handled[c] + 1
      BY <2>3, <2>4, <2>6
    <3>2. InHand(c) /\ ~ InHand(c)'
      BY <2>1, <2>2, <2>6 DEF InHand
    <3>3. 2 * (handled[c] + 1) + 0 = 2 * handled[c] + 2
      BY <2>4
    <3> QED BY <2>5, <3>1, <3>2, <3>3 DEF TakenUnits
  <2>7. CASE c # Sender
    <3>1. handled'[c] = handled[c]
      BY <2>3, <2>4, <2>7
    <3>2. ~ InHand(c) /\ ~ InHand(c)'
      BY <2>2, <2>7 DEF InHand
    <3> QED BY <2>5, <3>1, <3>2 DEF TakenUnits
  <2> QED BY <2>6, <2>7
<1>2. CASE ~DespatchUnknown /\ ~DespatchTest
  <2>1. UNCHANGED handled
    BY <1>2 DEF Next, Client, ClientReads, server, NetStep, EpollWait, NextEvent, BatchDone,
       EventIn, RecvUnit, RecvAgain, RecvEnd, EventOut, EventErr, ClosePurge, CloseFd,
       CloseErase, Accept, AcceptEnd, DealStep, GetPackage, GotNull, SendArm, vars
  <2>2. CASE UNCHANGED deal
    <3>1. ~ GetPackage
      BY <2>2, GetMoves
    <3> QED BY <2>1, <2>2, <3>1 DEF TakenUnits, InHand, Sender
  <2>3. CASE deal.pc = "call" /\ deal'.pc = "ret" /\ deal'.pMsg = NULL /\ UNCHANGED queue
    BY <2>1, <2>3 DEF TakenUnits, InHand
  <2>4. CASE GotNull \/ SendArm
    <3>1. ~ InHand(c)
      BY <2>4 DEF GotNull, SendArm, InHand
    <3>2. ~ InHand(c)'
      <4>1. deal \in DealState
        BY TypeParts DEF IInv
      <4>2. deal'.pc = "call"
        BY <2>4, <4>1 DEF GotNull, SendArm, List!Done, DealState
      <4> QED BY <4>2 DEF InHand
    <3>3. ~ GetPackage
      BY <2>4, GetMoves DEF GotNull, List!Done, SendArm
    <3> QED BY <2>1, <3>1, <3>2, <3>3 DEF TakenUnits
  <2>5. CASE /\ GetPackage /\ deal.pc = "call" /\ deal'.pc = "ret"
             /\ 1 \in DOMAIN queue /\ queue[1] \in Node
             /\ queue # <<>> /\ queue' = Tail(queue)
             /\ deal'.pMsg = queue[1].pMsg
    <3>1. ~ InHand(c)
      BY <2>5 DEF InHand
    <3>2. InHand(c)' <=> queue[1].pMsg[1][1] = c
      <4>1. queue[1].pMsg # NULL
        BY <2>5, Constants DEF Node
      <4> QED BY <2>5, <4>1 DEF InHand, Sender
    <3>3. handled[c] \in Nat
      BY TypeParts, Constants DEF IInv
    <3>4. TakenUnits(c) = 2 * handled[c]
      BY <3>1, <3>3 DEF TakenUnits
    <3>5. TakenUnits(c)' = 2 * handled[c] + (IF queue[1].pMsg[1][1] = c THEN 2 ELSE 0)
      BY <2>1, <3>2 DEF TakenUnits
    <3> QED BY <2>5, <3>1, <3>2, <3>3, <3>4, <3>5
  <2> QED BY <1>2, <2>2, <2>3, <2>4, <2>5, DealChanges
<1> QED BY <1>1, <1>2

\* The oldest node is the next message of its client.
LEMMA FirstIsNext ==
  ASSUME IInv, NEW c \in Conn, queue # <<>>, queue[1].pMsg[1][1] = c
  PROVE  /\ 1 \in From(c)
         /\ queue[1].pMsg = EndingAt(c, TakenUnits(c) + 2)
         /\ End(queue[1].pMsg) = TakenUnits(c) + 2
<1>1. 1 \in From(c) /\ \A i \in From(c) : i = 1 \/ 1 < i
  <2>1. queue \in Seq(Node)
    BY TypeParts DEF IInv, Node
  <2>2. 1 \in DOMAIN queue /\ \A i \in DOMAIN queue : i = 1 \/ 1 < i
    BY <2>1
  <2> QED BY <2>2 DEF From
<1>2. RunInQueue(c)
  BY DEF IInv, InOrder
<1> DEFINE n == End(queue[1].pMsg)
<1>3. n \in Nat /\ \A j \in From(c) : End(queue[j].pMsg) \in Nat
  BY <1>1, Queued
<1>4. /\ queue[1].pMsg = EndingAt(c, n)
      /\ n = TakenUnits(c) + 2 \/ \E j \in From(c) : End(queue[j].pMsg) = n - 2
  BY <1>1, <1>2 DEF RunInQueue
<1>5. \A j \in From(c) : j = 1 \/ n < End(queue[j].pMsg)
  BY <1>1, <1>2 DEF RunInQueue
<1>6. \A j \in From(c) : End(queue[j].pMsg) # n - 2
  BY <1>3, <1>5
<1> QED BY <1>1, <1>4, <1>6

Ends(c) == {End(queue[i].pMsg) : i \in From(c)}

\* RunInQueue and RunIsRead read with Ends.
LEMMA RunEnds ==
  ASSUME NEW c
  PROVE  RunInQueue(c) <=>
           /\ InHand(c) => deal.pMsg = EndingAt(c, TakenUnits(c))
           /\ \A i \in From(c) : queue[i].pMsg = EndingAt(c, End(queue[i].pMsg))
           /\ \A n \in Ends(c) : n > TakenUnits(c) /\ (n = TakenUnits(c) + 2 \/ n - 2 \in Ends(c))
           /\ \A i, j \in From(c) : i < j => End(queue[i].pMsg) < End(queue[j].pMsg)
BY DEF RunInQueue, Ends

\* The messages of a client stay as they are when the others' come and go.
LEMMA SameRun ==
  ASSUME IInv, NEW c \in Conn, NEW p,
         \A k \in From(c)' : p[k] \in From(c) /\ queue'[k].pMsg = queue[p[k]].pMsg,
         \A j, k \in From(c)' : j < k => p[j] < p[k],
         \A i \in From(c) : \E k \in From(c)' : p[k] = i,
         TakenUnits(c)' = TakenUnits(c),
         InHand(c)' => InHand(c) /\ deal'.pMsg = deal.pMsg
  PROVE  RunInQueue(c)' /\ Ends(c)' = Ends(c)
<1>1. RunInQueue(c)
  BY DEF IInv, InOrder
<1>2. Ends(c)' = Ends(c)
  BY DEF Ends
<1>3. \A i \in From(c)' : queue'[i].pMsg = EndingAt(c, End(queue'[i].pMsg))
  BY <1>1, RunEnds
<1>4. \A i, j \in From(c)' : i < j => End(queue'[i].pMsg) < End(queue'[j].pMsg)
  BY <1>1, RunEnds
<1>5. InHand(c)' => deal'.pMsg = EndingAt(c, TakenUnits(c)')
  BY <1>1, RunEnds
<1>6. \A n \in Ends(c)' : n > TakenUnits(c)' /\ (n = TakenUnits(c)' + 2 \/ n - 2 \in Ends(c)')
  BY <1>1, <1>2, RunEnds
<1>7. RunInQueue(c)'
  BY <1>3, <1>4, <1>5, <1>6 DEF RunInQueue, Ends
<1> QED BY <1>2, <1>7

\* OnRecv puts the message that follows the last one of its client.
LEMMA RunPut ==
  ASSUME IInv, RecvUnit, NEW c, c = fdConn[net.fd],
         m_recvMsgList[net.fd] = << <<c, conn[c].read>> >>,
         queue' = Append(queue, [sock |-> net.fd, pMsg |-> EndingAt(c, conn[c].read + 1)]),
         EndingAt(c, conn[c].read + 1) \in Message,
         [Next]_vars
  PROVE  /\ RunInQueue(c)'
         /\ Ends(c)' = Ends(c) \cup {conn[c].read + 1}
         /\ TakenUnits(c)' = TakenUnits(c)
         /\ TakenUnits(c) < conn[c].read + 1
         /\ \A m \in Ends(c) : m < conn[c].read + 1
<1> DEFINE n == conn[c].read + 1
           fd == net.fd
           e == [sock |-> fd, pMsg |-> EndingAt(c, n)]
           last == Len(queue) + 1
<1>1. c \in Conn /\ fd \in Fd /\ n \in Nat \ {0} /\ conn[c].read \in Nat
  <2>1. c \in Conn /\ fd \in Fd
    BY RecvUnitDoes
  <2>2. conn[c].read \in Nat
    BY <2>1, ConnOf, TypeParts, Constants DEF IInv
  <2> QED BY <2>1, <2>2
<1>2. /\ RunInQueue(c)
      /\ \A m \in Ends(c) : m <= n - 2
      /\ n - 2 = TakenUnits(c) \/ n - 2 \in Ends(c)
  <2>1. RunInQueue(c) /\ RunIsRead(fd)
    BY <1>1, Constants DEF IInv, InOrder
  <2>2. net.pc = "recv"
    BY DEF RecvUnit
  <2>3. conn[c].read - Len(m_recvMsgList[fd]) = n - 2
    <3>1. \A u : Len(<<u>>) = 1
      OBVIOUS
    <3> QED BY <1>1, <3>1
  <2>4. /\ \A i \in From(c) : End(queue[i].pMsg) <= n - 2
        /\ n - 2 = TakenUnits(c) \/ \E i \in From(c) : End(queue[i].pMsg) = n - 2
    <3> HIDE DEF n
    <3> QED BY <2>1, <2>2, <2>3 DEF RunIsRead
  <2> QED BY <2>1, <2>4 DEF Ends
<1>3. /\ TakenUnits(c)' = TakenUnits(c)
      /\ InHand(c)' => InHand(c) /\ deal'.pMsg = deal.pMsg
  <2>1. UNCHANGED deal
    BY DEF RecvUnit
  <2>2. ~ GetPackage
    BY <2>1, GetMoves
  <2> QED BY <1>1, <2>2, TakenChanges
<1>4. TakenUnits(c) \in Nat /\ \A m \in Ends(c) : m \in Nat
  BY <1>1, TakenType, Queued DEF Ends
<1>5. e \in Node
  BY <1>1 DEF Node
<1>6. /\ DOMAIN queue' = DOMAIN queue \cup {last}
      /\ \A i \in DOMAIN queue : queue'[i] = queue[i] /\ i < last
      /\ last \notin DOMAIN queue
      /\ queue'[last] = e
  <2>1. queue \in Seq(Node) /\ queue' = Append(queue, e)
    BY TypeParts DEF IInv, Node
  <2>2. Len(queue) \in Nat /\ DOMAIN queue = 1..Len(queue)
    BY <2>1
  <2>3. \A i \in DOMAIN queue : i < last
    BY <2>2
  <2> HIDE DEF e
  <2> QED BY <1>5, <2>1, <2>3, AppendIs
<1>7. e.pMsg = EndingAt(c, n) /\ e.pMsg[1][1] = c /\ End(e.pMsg) = n
  BY EndingAtIs
<1>8. /\ From(c)' = From(c) \cup {last}
      /\ \A i \in From(c) : i # last /\ i < last /\ queue'[i] = queue[i]
      /\ queue'[last] = e
  <2> HIDE DEF e, last
  <2> QED BY <1>6, <1>7 DEF From
<1>9. Ends(c)' = Ends(c) \cup {n}
  <2> HIDE DEF e, last, n
  <2> QED BY <1>7, <1>8 DEF Ends
<1>10. TakenUnits(c) < n /\ \A m \in Ends(c) : m < n
  <2>1. \A m \in Ends(c) : TakenUnits(c) < m
    BY <1>2, RunEnds
  <2> HIDE DEF n
  <2> QED BY <1>1, <1>2, <1>4, <2>1
<1>11. \A i \in From(c)' : queue'[i].pMsg = EndingAt(c, End(queue'[i].pMsg))
  <2> HIDE DEF e, last, n
  <2> QED BY <1>2, <1>7, <1>8, RunEnds
<1>12. \A i, j \in From(c)' : i < j => End(queue'[i].pMsg) < End(queue'[j].pMsg)
  <2>1. \A i \in From(c) : i \in Nat /\ End(queue[i].pMsg) \in Ends(c)
    BY Queued DEF Ends
  <2>2. \A i \in From(c) : ~ (last < i)
    <3>1. last \in Nat
      BY TypeParts DEF IInv
    <3> HIDE DEF last
    <3> QED BY <1>8, <2>1, <3>1
  <2>3. ~ (last < last)
    <3>1. last \in Nat
      BY TypeParts DEF IInv
    <3> HIDE DEF last
    <3> QED BY <3>1
  <2>4. \A i, j \in From(c) : i < j => End(queue[i].pMsg) < End(queue[j].pMsg)
    BY <1>2, RunEnds
  <2> HIDE DEF e, last, n
  <2> QED BY <1>7, <1>8, <1>10, <2>1, <2>2, <2>3, <2>4
<1>13. \A m \in Ends(c)' : m > TakenUnits(c)' /\ (m = TakenUnits(c)' + 2 \/ m - 2 \in Ends(c)')
  <2>1. \A m \in Ends(c) : m > TakenUnits(c) /\ (m = TakenUnits(c) + 2 \/ m - 2 \in Ends(c))
    BY <1>2, RunEnds
  <2>2. n > TakenUnits(c) /\ (n = TakenUnits(c) + 2 \/ n - 2 \in Ends(c))
    BY <1>1, <1>2, <1>4, <1>10
  <2> HIDE DEF n
  <2> QED BY <1>3, <1>9, <2>1, <2>2
<1>14. InHand(c)' => deal'.pMsg = EndingAt(c, TakenUnits(c)')
  BY <1>2, <1>3, RunEnds
<1>15. RunInQueue(c)'
  BY <1>11, <1>12, <1>13, <1>14 DEF RunInQueue, Ends
<1> QED BY <1>3, <1>9, <1>10, <1>15

\* GetMsg takes the first message of the run, and the run starts after it.
LEMMA RunGot ==
  ASSUME IInv, NEW c \in Conn, queue # <<>>, queue' = Tail(queue),
         queue[1].pMsg[1][1] = c, deal'.pMsg = queue[1].pMsg,
         TakenUnits(c)' = TakenUnits(c) + 2
  PROVE  /\ RunInQueue(c)'
         /\ TakenUnits(c) + 2 \in Ends(c)
         /\ Ends(c)' = Ends(c) \ {TakenUnits(c) + 2}
<1> DEFINE t == TakenUnits(c)
<1>1. 1 \in From(c) /\ queue[1].pMsg = EndingAt(c, t + 2) /\ End(queue[1].pMsg) = t + 2
  BY FirstIsNext
<1>2. t \in Nat /\ \A m \in Ends(c) : m \in Nat
  BY TakenType, Queued DEF Ends
<1>3. RunInQueue(c)
  BY DEF IInv, InOrder
<1>4. /\ \A i \in From(c)' : i \in Nat \ {0} /\ i + 1 \in From(c) /\ queue'[i] = queue[i + 1]
      /\ \A i \in From(c) : i = 1 \/ (i - 1 \in From(c)' /\ queue'[i - 1] = queue[i])
  <2>1. queue \in Seq(Node)
    BY TypeParts DEF IInv, Node
  <2>2. /\ \A i \in DOMAIN queue' : /\ i \in Nat \ {0} /\ i + 1 \in DOMAIN queue
                                    /\ queue'[i] = queue[i + 1]
        /\ \A i \in DOMAIN queue : i = 1 \/ i - 1 \in DOMAIN queue'
        /\ DOMAIN queue \subseteq Nat
    BY <2>1, TailIs
  <2>3. \A i \in DOMAIN queue : i = 1 \/ (i - 1 \in DOMAIN queue' /\ queue'[i - 1] = queue[i])
    <3>1. \A i \in Nat : (i - 1) + 1 = i
      OBVIOUS
    <3> QED BY <2>2, <3>1
  <2> QED BY <2>2, <2>3 DEF From
<1>5. \A i \in From(c) : i \in Nat
  BY Queued
<1>6. \A i, j \in From(c) : i < j => End(queue[i].pMsg) < End(queue[j].pMsg)
  BY <1>3, RunEnds
<1>7. \A i \in From(c) : i # 1 => t + 2 < End(queue[i].pMsg)
  <2>1. \A i \in From(c) : i # 1 => 1 < i
    <3>1. queue \in Seq(Node)
      BY TypeParts DEF IInv, Node
    <3>2. \A i \in DOMAIN queue : i # 1 => 1 < i
      BY <3>1
    <3> QED BY <3>2 DEF From
  <2> QED BY <1>1, <1>6, <2>1
<1>8. Ends(c)' = Ends(c) \ {t + 2} /\ t + 2 \in Ends(c)
  <2>1. t + 2 \in Ends(c)
    BY <1>1 DEF Ends
  <2>2. ASSUME NEW m \in Ends(c)' PROVE m \in Ends(c) /\ m # t + 2
    <3>1. PICK i \in From(c)' : m = End(queue'[i].pMsg)
      BY DEF Ends
    <3>2. i + 1 \in From(c) /\ i + 1 # 1 /\ m = End(queue[i + 1].pMsg)
      <4>1. i \in Nat \ {0} /\ i + 1 \in From(c) /\ queue'[i] = queue[i + 1]
        BY <1>4
      <4>2. i + 1 # 1
        BY <4>1
      <4> QED BY <3>1, <4>1, <4>2
    <3>3. m \in Ends(c) /\ t + 2 < m
      BY <1>7, <3>2 DEF Ends
    <3> QED BY <1>2, <3>3
  <2>3. ASSUME NEW m \in Ends(c), m # t + 2 PROVE m \in Ends(c)'
    <3>1. PICK i \in From(c) : m = End(queue[i].pMsg)
      BY DEF Ends
    <3>2. i - 1 \in From(c)' /\ queue'[i - 1] = queue[i]
      BY <1>1, <1>4, <2>3, <3>1
    <3> QED BY <3>1, <3>2 DEF Ends
  <2> QED BY <2>1, <2>2, <2>3
<1>9. \A i \in From(c)' : queue'[i].pMsg = EndingAt(c, End(queue'[i].pMsg))
  BY <1>3, <1>4, RunEnds
<1>10. \A i, j \in From(c)' : i < j => End(queue'[i].pMsg) < End(queue'[j].pMsg)
  <2>1. \A i, j \in Nat : i < j => i + 1 < j + 1
    OBVIOUS
  <2> QED BY <1>4, <1>6, <2>1
<1>11. \A m \in Ends(c)' : m > t + 2 /\ (m = (t + 2) + 2 \/ m - 2 \in Ends(c)')
  <2> SUFFICES ASSUME NEW m \in Ends(c)'
               PROVE  m > t + 2 /\ (m = (t + 2) + 2 \/ m - 2 \in Ends(c)')
    OBVIOUS
  <2>1. m \in Ends(c) /\ m # t + 2
    BY <1>8
  <2>2. m > t + 2
    <3>1. PICK i \in From(c) : m = End(queue[i].pMsg)
      BY <2>1 DEF Ends
    <3>2. t + 2 < m
      BY <1>1, <1>7, <2>1, <3>1
    <3> QED BY <1>2, <2>1, <3>2
  <2>3. m = t + 2 \/ m - 2 \in Ends(c)
    BY <1>3, <2>1, RunEnds
  <2>4. m - 2 = t + 2 => m = (t + 2) + 2
    <3>1. m \in Nat
      BY <1>2, <2>1
    <3> HIDE DEF t
    <3> QED BY <1>2, <3>1
  <2> QED BY <1>8, <2>1, <2>2, <2>3, <2>4
<1>12. deal'.pMsg = EndingAt(c, TakenUnits(c)')
  BY <1>1
<1>13. RunInQueue(c)'
  <2>1. \A m \in Ends(c)' : m > TakenUnits(c)' /\ (m = TakenUnits(c)' + 2 \/ m - 2 \in Ends(c)')
    BY <1>11
  <2> QED BY <1>9, <1>10, <1>12, <2>1 DEF RunInQueue, Ends
<1> QED BY <1>8, <1>13

LEMMA RunNext ==
  ASSUME IInv, [Next]_vars, NEW c \in Conn
  PROVE  /\ RunInQueue(c)'
         /\ \/ ClosePurge /\ fdConn[net.fd] = c
            \/ Ends(c)' = Ends(c) /\ TakenUnits(c)' = TakenUnits(c)
            \/ /\ RecvUnit /\ c = fdConn[net.fd]
               /\ m_recvMsgList' = [m_recvMsgList EXCEPT ![net.fd] = <<>>]
               /\ UNCHANGED net
               /\ Ends(c)' = Ends(c) \cup {conn[c].read + 1}
               /\ TakenUnits(c)' = TakenUnits(c)
               /\ \A m \in Ends(c) : m < conn[c].read + 1
            \/ /\ GetPackage
               /\ TakenUnits(c)' = TakenUnits(c) + 2
               /\ TakenUnits(c) + 2 \in Ends(c)
               /\ Ends(c)' = Ends(c) \ {TakenUnits(c) + 2}
<1>1. queue \in Seq(Node)
  BY TypeParts DEF IInv, Node
<1>2. queue # <<>> /\ queue' = Tail(queue) => ~ UNCHANGED queue
  <2>1. queue # <<>> => Len(queue) \in Nat /\ Len(Tail(queue)) = Len(queue) - 1
    BY <1>1, HeadTailProperties
  <2>2. \A n \in Nat : n - 1 # n
    OBVIOUS
  <2> QED BY <2>1, <2>2
<1>3. ASSUME ~ GetPackage \/ UNCHANGED queue
      PROVE  /\ TakenUnits(c)' = TakenUnits(c)
             /\ InHand(c)' => InHand(c) /\ deal'.pMsg = deal.pMsg
  BY <1>2, <1>3, TakenChanges
<1>4. ASSUME TakenUnits(c)' = TakenUnits(c),
             InHand(c)' => InHand(c) /\ deal'.pMsg = deal.pMsg,
             From(c)' = From(c), \A i \in From(c) : queue'[i] = queue[i]
      PROVE  RunInQueue(c)' /\ Ends(c)' = Ends(c)
  <2> DEFINE p == [k \in From(c) |-> k]
  <2>1. /\ \A k \in From(c)' : p[k] \in From(c) /\ queue'[k].pMsg = queue[p[k]].pMsg
        /\ \A j, k \in From(c)' : j < k => p[j] < p[k]
        /\ \A i \in From(c) : \E k \in From(c)' : p[k] = i
    BY <1>4
  <2> HIDE DEF p
  <2> QED BY <1>4, <2>1, SameRun
<1>5. CASE UNCHANGED queue
  <2>1. From(c)' = From(c) /\ \A i \in From(c) : queue'[i] = queue[i]
    BY <1>5 DEF From
  <2> QED BY <1>3, <1>4, <1>5, <2>1
<1>6. CASE RecvUnit /\ ~ UNCHANGED queue
  <2> DEFINE d == fdConn[net.fd]
             e == [sock |-> net.fd, pMsg |-> EndingAt(d, conn[d].read + 1)]
  <2>1. /\ net.fd \in Fd /\ d \in Conn
        /\ m_recvMsgList[net.fd] = << <<d, (conn[d].read + 1) - 1>> >>
        /\ m_recvMsgList' = [m_recvMsgList EXCEPT ![net.fd] = <<>>]
        /\ EndingAt(d, conn[d].read + 1) \in Message
        /\ queue' = Append(queue, e)
        /\ UNCHANGED net
    BY <1>6, RecvUnitDoes
  <2>2. ~ GetPackage
    BY <1>6, GetMoves DEF RecvUnit
  <2>3. CASE c = d
    <3>1. (conn[d].read + 1) - 1 = conn[d].read
      <4>1. conn[d].read \in Int
        BY <2>1, ConnOf, TypeParts, Constants DEF IInv
      <4> QED BY <4>1
    <3>2. m_recvMsgList[net.fd] = << <<d, conn[d].read>> >>
      BY <2>1, <3>1
    <3> HIDE DEF d
    <3> QED BY <1>6, <2>1, <2>3, <3>2, RunPut DEF d
  <2>4. CASE c # d
    <3>1. e \in Node /\ e.pMsg[1][1] # c
      BY <2>1, <2>4, EndingAtIs DEF Node
    <3> HIDE DEF e
    <3>2. From(c)' = From(c) /\ \A i \in From(c) : queue'[i] = queue[i]
      <4>1. /\ DOMAIN queue' = DOMAIN queue \cup {Len(queue) + 1}
            /\ \A i \in DOMAIN queue : queue'[i] = queue[i]
            /\ queue'[Len(queue) + 1] = e
        BY <1>1, <2>1, <3>1, AppendIs
      <4> QED BY <3>1, <4>1 DEF From
    <3> QED BY <1>3, <1>4, <2>2, <3>2
  <2> QED BY <2>3, <2>4
<1>7. CASE ClosePurge
  <2> DEFINE fd == net.fd
             D == Others(fd)
  <2>1. ~ GetPackage /\ net.fd \in Fd
    BY <1>7, GetMoves DEF ClosePurge, IInv, NetPhase, InEntry
  <2>2. /\ \A k \in DOMAIN queue' : Nth(D, k) \in D /\ queue'[k] = queue[Nth(D, k)]
        /\ \A j, k \in DOMAIN queue' : j < k => Nth(D, j) < Nth(D, k)
        /\ \A i \in D : \E k \in DOMAIN queue' : Nth(D, k) = i
    BY <1>7, PurgeKeeps DEF ClosePurge, DelMsg
  <2>3. \A i \in From(c) : queue[i].sock \in Fd /\ fdConn[queue[i].sock] = c
    BY Queued
  <2>4. /\ TakenUnits(c)' = TakenUnits(c)
        /\ InHand(c)' => InHand(c) /\ deal'.pMsg = deal.pMsg
    BY <1>3, <2>1
  <2>5. CASE fdConn[fd] = c
    <3>1. From(c) \cap D = {}
      <4>1. \A i \in From(c) : queue[i].sock = fd
        BY <2>1, <2>3, <2>5, Constants DEF IInv, Descriptors
      <4> QED BY <4>1 DEF Others
    <3>2. From(c)' = {}
      <4>1. ASSUME NEW k \in From(c)' PROVE FALSE
        <5>1. k \in DOMAIN queue' /\ queue'[k].pMsg[1][1] = c
          BY DEF From
        <5>2. Nth(D, k) \in D /\ queue[Nth(D, k)].pMsg[1][1] = c
          BY <2>2, <5>1
        <5>3. Nth(D, k) \in From(c)
          BY <5>2 DEF Others, From
        <5> QED BY <3>1, <5>2, <5>3
      <4> QED BY <4>1
    <3>3. RunInQueue(c)
      BY DEF IInv, InOrder
    <3>4. InHand(c)' => deal'.pMsg = EndingAt(c, TakenUnits(c)')
      BY <2>4, <3>3, RunEnds
    <3> QED BY <1>7, <2>5, <3>2, <3>4 DEF RunInQueue
  <2>6. CASE fdConn[fd] # c
    <3>1. From(c) \subseteq D
      BY <2>3, <2>6 DEF Others, From
    <3> DEFINE p == [k \in DOMAIN queue' |-> Nth(D, k)]
    <3>2. /\ \A k \in From(c)' : p[k] \in From(c) /\ queue'[k].pMsg = queue[p[k]].pMsg
          /\ \A j, k \in From(c)' : j < k => p[j] < p[k]
      BY <2>2 DEF From, Others
    <3>3. \A i \in From(c) : \E k \in From(c)' : p[k] = i
      BY <2>2, <3>1 DEF From
    <3> HIDE DEF p
    <3> QED BY <2>4, <3>2, <3>3, SameRun
  <2> QED BY <2>5, <2>6
<1>8. CASE GetPackage /\ queue # <<>> /\ queue' = Tail(queue)
  <2>1. CASE queue[1].pMsg[1][1] = c
    BY <1>2, <1>8, <2>1, TakenChanges, RunGot
  <2>2. CASE queue[1].pMsg[1][1] # c
    <3>1. TakenUnits(c)' = TakenUnits(c) /\ ~ InHand(c)'
      BY <1>2, <1>8, <2>2, TakenChanges
    <3> DEFINE p == [k \in DOMAIN queue' |-> k + 1]
    <3>2. /\ \A i \in DOMAIN queue' : /\ i \in Nat \ {0} /\ i + 1 \in DOMAIN queue
                                      /\ queue'[i] = queue[i + 1]
          /\ \A i \in DOMAIN queue : i = 1 \/ i - 1 \in DOMAIN queue'
          /\ DOMAIN queue \subseteq Nat
      BY <1>1, <1>8, TailIs
    <3>3. \A k \in From(c)' : p[k] \in From(c) /\ queue'[k].pMsg = queue[p[k]].pMsg
      BY <3>2 DEF From
    <3>4. \A j, k \in From(c)' : j < k => p[j] < p[k]
      <4>1. \A j, k \in Nat : j < k => j + 1 < k + 1
        OBVIOUS
      <4> QED BY <3>2, <4>1 DEF From
    <3>5. \A i \in From(c) : \E k \in From(c)' : p[k] = i
      <4>1. ASSUME NEW i \in From(c) PROVE i - 1 \in From(c)' /\ p[i - 1] = i
        <5>1. i # 1 /\ i \in DOMAIN queue /\ queue[i].pMsg[1][1] = c
          BY <2>2 DEF From
        <5>2. i - 1 \in DOMAIN queue' /\ (i - 1) + 1 = i
          BY <3>2, <5>1
        <5> QED BY <3>2, <5>1, <5>2 DEF From
      <4> QED BY <4>1
    <3> HIDE DEF p
    <3> QED BY <3>1, <3>3, <3>4, <3>5, SameRun
  <2> QED BY <2>1, <2>2
<1> QED BY <1>5, <1>6, <1>7, <1>8, QueueChanges

\* The descriptor is on its way from OnRecv's decision to close() to the close.
Closing(fd) == net.fd = fd /\ net.pc \in {"purge", "close"}
Whole(fd) == conn[fdConn[fd]].read - Len(m_recvMsgList[fd])

LEMMA ReadEnds ==
  ASSUME NEW fd
  PROVE  RunIsRead(fd) <=>
           LET c == fdConn[fd]
           IN  /\ m_recvMsgList[fd] \in {<<>>, << <<c, conn[c].read>> >>}
               /\ ~ Closing(fd) =>
                    /\ \A m \in Ends(c) : m <= Whole(fd)
                    /\ Whole(fd) = TakenUnits(c) \/ Whole(fd) \in Ends(c)
BY DEF RunIsRead, Ends, Whole, Closing

LEMMA ReadEndsNext ==
  ASSUME NEW fd, NEW c, c = fdConn'[fd],
         m_recvMsgList'[fd] \in {<<>>, << <<c, conn'[c].read>> >>},
         ~ Closing(fd)' =>
           /\ \A m \in Ends(c)' : m <= Whole(fd)'
           /\ Whole(fd)' = TakenUnits(c)' \/ Whole(fd)' \in Ends(c)'
  PROVE  RunIsRead(fd)'
BY DEF RunIsRead, Ends, Whole, Closing

\* A client that has just got a descriptor has sent nothing that was read.
LEMMA NewIsRead ==
  ASSUME IInv, [Next]_vars, NEW fd \in Fd, fdConn'[fd] # fdConn[fd], fdConn'[fd] # NULL
  PROVE  RunIsRead(fd)'
<1> PICK c : c = fdConn'[fd]
  OBVIOUS
<1>1. Accept /\ c = Head(backlog) /\ c \in Conn /\ conn[c].st = "backlog"
  <2>1. fdConn \in [Fd -> Conn \cup {NULL}]
    BY UnderFd
  <2>2. Accept
    BY <2>1, FdConnChanges
  <2>3. PICK x \in Fd : fdConn' = [fdConn EXCEPT ![x] = Head(backlog)]
    BY <2>2, FdConnChanges DEF Accept, CloseFd
  <2>4. c = Head(backlog)
    BY <2>1, <2>3
  <2> QED BY <2>2, <2>4, AcceptChanges
<1>2. m_recvMsgList'[fd] = <<>>
  BY NewFdIsEmpty
<1>3. conn[c].read = 0 /\ handled[c] = 0 /\ ~ InHand(c)
  BY <1>1 DEF IInv, Unheard, InHand
<1>4. UNCHANGED <<queue, deal, handled>> /\ conn'[c].read = 0
  <2>1. UNCHANGED <<queue, deal, handled>>
    BY <1>1 DEF Accept
  <2>2. ~ RecvUnit
    BY <1>1 DEF Accept, RecvUnit
  <2> QED BY <1>1, <1>3, <2>1, <2>2, ClientFields
<1>5. TakenUnits(c)' = 0
  <2>1. TakenUnits(c) = 0
    BY <1>3 DEF TakenUnits
  <2> QED BY <1>4, <2>1 DEF TakenUnits, InHand, Sender
<1>6. Ends(c)' = {}
  <2>1. \A i \in From(c) : FALSE
    <3>1. \A i \in From(c) : queue[i].sock \in Fd /\ fdConn[queue[i].sock] = c
      BY Queued
    <3>2. \A x \in Fd : fdConn[x] # c
      BY <1>1, Constants DEF IInv, Descriptors
    <3> QED BY <3>1, <3>2
  <2> QED BY <1>4, <2>1 DEF Ends, From
<1>7. Whole(fd)' = 0
  <2>1. Len(<<>>) = 0
    OBVIOUS
  <2>2. Whole(fd)' = 0 - 0
    BY <1>2, <1>4, <2>1 DEF Whole
  <2> QED BY <2>2
<1> QED BY <1>2, <1>5, <1>6, <1>7, ReadEndsNext

\* OnRecv at this descriptor.
LEMMA ReadingIsRead ==
  ASSUME IInv, [Next]_vars, NEW fd \in Fd, RecvUnit, net.fd = fd
  PROVE  RunIsRead(fd)'
<1> PICK c : c = fdConn[fd]
  OBVIOUS
<1> DEFINE n == conn[c].read
<1>1. c \in Conn /\ n \in Nat /\ UNCHANGED <<fdConn, deal>> /\ conn'[c].read = n + 1
  <2>1. c \in Conn /\ UNCHANGED <<fdConn, deal>>
    BY RecvUnitDoes DEF RecvUnit
  <2>2. n \in Nat
    BY <2>1, ConnOf, TypeParts, Constants DEF IInv
  <2>3. Changed(c, conn[c].st, conn[c].sent, n + 1, conn[c].peer, conn[c].tx)
    BY RecvUnitChanges
  <2>4. conn'[c].read = n + 1
    <3> HIDE DEF n
    <3> QED BY <2>1, <2>3, ChangedIs
  <2> QED BY <2>1, <2>2, <2>4
<1>2. ~ GetPackage
  BY <1>1, GetMoves
<1>3. net.pc = "recv" /\ ~ Closing(fd)
  BY DEF RecvUnit, Closing
<1>4. /\ \A m \in Ends(c) : m <= Whole(fd)
      /\ Whole(fd) = TakenUnits(c) \/ Whole(fd) \in Ends(c)
  <2>1. RunIsRead(fd)
    BY <1>1, Constants DEF IInv, InOrder
  <2> QED BY <1>3, <2>1, ReadEnds
<1>5. TakenUnits(c)' = TakenUnits(c)
  BY <1>1, <1>2, TakenChanges
<1>6. m_recvMsgList \in [Fd -> Seq(Unit)]
  BY UnderFd
<1>7. CASE /\ m_recvMsgList[fd] = <<>>
           /\ m_recvMsgList' = [m_recvMsgList EXCEPT ![fd] = << <<c, n + 1>> >>]
           /\ UNCHANGED <<queue, net>>
  <2>1. m_recvMsgList'[fd] = << <<c, n + 1>> >>
    BY <1>6, <1>7
  <2>2. Ends(c)' = Ends(c)
    BY <1>7 DEF Ends, From
  <2>3. Whole(fd)' = Whole(fd)
    <3>1. Len(<<>>) = 0 /\ \A u : Len(<<u>>) = 1
      OBVIOUS
    <3>2. Len(m_recvMsgList'[fd]) = 1 /\ Len(m_recvMsgList[fd]) = 0
      <4> HIDE DEF n
      <4> QED BY <1>7, <2>1, <3>1
    <3>3. Whole(fd) = n - 0
      BY <3>2 DEF Whole
    <3>4. Whole(fd)' = (n + 1) - 1
      BY <1>1, <3>2 DEF Whole
    <3>5. (n + 1) - 1 = n - 0
      BY <1>1
    <3> QED BY <3>3, <3>4, <3>5
  <2> QED BY <1>1, <1>4, <1>5, <2>1, <2>2, <2>3, ReadEndsNext
<1>8. ASSUME m_recvMsgList[fd] = << <<c, (n + 1) - 1>> >>,
             m_recvMsgList' = [m_recvMsgList EXCEPT ![fd] = <<>>],
             EndingAt(c, n + 1) \in Message,
             queue' = Append(queue, [sock |-> fd, pMsg |-> EndingAt(c, n + 1)])
      PROVE  RunIsRead(fd)'
  <2>1. (n + 1) - 1 = n
    BY <1>1
  <2>2. m_recvMsgList[net.fd] = << <<c, n>> >>
    BY <1>8, <2>1
  <2>3. /\ Ends(c)' = Ends(c) \cup {n + 1}
        /\ \A m \in Ends(c) : m < n + 1
    BY <1>8, <2>2, RunPut
  <2>4. m_recvMsgList'[fd] = <<>>
    BY <1>6, <1>8
  <2>5. Whole(fd)' = n + 1
    <3>1. Len(<<>>) = 0
      OBVIOUS
    <3>2. (n + 1) - 0 = n + 1
      BY <1>1
    <3> QED BY <1>1, <2>4, <3>1, <3>2 DEF Whole
  <2>6. \A m \in Ends(c)' : m <= n + 1
    <3>1. \A m \in Ends(c) : m \in Nat
      BY Queued DEF Ends
    <3>2. n + 1 \in Nat
      BY <1>1
    <3> HIDE DEF n
    <3> QED BY <2>3, <3>1, <3>2
  <2> QED BY <1>1, <2>3, <2>4, <2>5, <2>6, ReadEndsNext
<1>9. ASSUME m_recvMsgList' = [m_recvMsgList EXCEPT ![fd] = <<>>],
             net' = [net EXCEPT !.pc = "purge"]
      PROVE  RunIsRead(fd)'
  <2>1. Closing(fd)'
    <3>1. net \in NetState
      BY TypeParts DEF IInv
    <3> QED BY <1>9, <3>1 DEF Closing, NetState
  <2>2. m_recvMsgList'[fd] = <<>>
    BY <1>6, <1>9
  <2> QED BY <1>1, <2>1, <2>2, ReadEndsNext
<1> QED BY <1>7, <1>8, <1>9, RecvUnitDoes

LEMMA InOrderNext ==
  ASSUME IInv, [Next]_vars
  PROVE  InOrder'
<1>1. \A c \in Conn : RunInQueue(c)'
  BY RunNext
<1>2. ASSUME NEW fd \in Fd, fdConn'[fd] # NULL, fdConn'[fd] = fdConn[fd], ~ (RecvUnit /\ net.fd = fd)
      PROVE  RunIsRead(fd)'
  <2> PICK c : c = fdConn[fd]
    OBVIOUS
  <2>1. c \in Conn /\ \A x \in Fd : fdConn[x] = c => x = fd
    BY <1>2, UnderFd DEF IInv, Descriptors
  <2>2. RecvUnit => fdConn[net.fd] # c
    BY <1>2, <2>1, RecvUnitDoes
  <2>3. conn'[c].read = conn[c].read
    BY <2>1, <2>2, ClientFields
  <2>4. RunIsRead(fd)
    BY <1>2 DEF IInv, InOrder
  <2>5. m_recvMsgList \in [Fd -> Seq(Unit)]
    BY UnderFd
  <2>6. \/ m_recvMsgList'[fd] = m_recvMsgList[fd]
        \/ m_recvMsgList'[fd] = <<>> /\ Closing(fd)'
    <3>1. RecvUnit => m_recvMsgList'[fd] = m_recvMsgList[fd]
      BY <1>2, <2>5, RecvUnitDoes
    <3>2. RecvEnd \/ EventErr => net'.fd = net.fd /\ net'.pc = "purge"
      BY NetMoves DEF Moves
    <3>3. m_recvMsgList' = [m_recvMsgList EXCEPT ![net.fd] = <<>>]
             => m_recvMsgList'[fd] = m_recvMsgList[fd] \/ (fd = net.fd /\ m_recvMsgList'[fd] = <<>>)
      BY <2>5
    <3> QED BY <3>1, <3>2, <3>3, RecvListChanges DEF Closing
  <2>7. m_recvMsgList'[fd] \in {<<>>, << <<c, conn'[c].read>> >>}
    BY <2>3, <2>4, <2>6, ReadEnds
  <2>8. Closing(fd) => Closing(fd)'
    <3> SUFFICES ASSUME net.fd = fd, net.pc \in {"purge", "close"}
                 PROVE  net'.fd = fd /\ net'.pc \in {"purge", "close"}
      BY DEF Closing
    <3>1. ~ CloseFd
      BY <1>2, UnderFd DEF CloseFd
    <3>2. NotNet \/ ClosePurge
      BY <3>1, NetAt
    <3> QED BY <3>2, NotNetIs, NetMoves DEF Moves
  <2>9. ASSUME ~ Closing(fd)'
        PROVE  /\ \A m \in Ends(c)' : m <= Whole(fd)'
               /\ Whole(fd)' = TakenUnits(c)' \/ Whole(fd)' \in Ends(c)'
    <3>1. Whole(fd)' = Whole(fd)
      BY <1>2, <2>3, <2>6, <2>9 DEF Whole
    <3>2. /\ \A m \in Ends(c) : m <= Whole(fd)
          /\ Whole(fd) = TakenUnits(c) \/ Whole(fd) \in Ends(c)
      BY <2>4, <2>8, <2>9, ReadEnds
    <3>3. ~ (ClosePurge /\ fdConn[net.fd] = c)
      <4>1. ClosePurge => net.fd \in Fd /\ net'.fd = net.fd /\ net'.pc = "close"
        BY NetMoves DEF Moves, ClosePurge, IInv, NetPhase, InEntry
      <4> QED BY <2>1, <2>9, <4>1 DEF Closing
    <3>4. CASE Ends(c)' = Ends(c) /\ TakenUnits(c)' = TakenUnits(c)
      BY <3>1, <3>2, <3>4
    <3>5. CASE /\ TakenUnits(c)' = TakenUnits(c) + 2
               /\ TakenUnits(c) + 2 \in Ends(c)
               /\ Ends(c)' = Ends(c) \ {TakenUnits(c) + 2}
      <4>1. TakenUnits(c) \in Nat
        BY <2>1, TakenType
      <4>2. Whole(fd) # TakenUnits(c)
        <5>1. TakenUnits(c) + 2 <= Whole(fd)
          BY <3>2, <3>5
        <5> QED BY <4>1, <5>1
      <4> QED BY <3>1, <3>2, <3>5, <4>2
    <3> QED BY <2>1, <2>2, <3>3, <3>4, <3>5, RunNext
  <2> QED BY <1>2, <2>7, <2>9, ReadEndsNext
<1>3. ASSUME NEW fd \in Fd, fdConn'[fd] # NULL PROVE RunIsRead(fd)'
  <2>1. RecvUnit => UNCHANGED fdConn
    BY DEF RecvUnit
  <2> QED BY <1>2, <1>3, <2>1, NewIsRead, ReadingIsRead
<1> QED BY <1>1, <1>3 DEF InOrder

-----------------------------------------------------------------------------
(* Edges that epoll reports once.                                          *)

\* Where news of a client's socket come from.
LEMMA PollNews ==
  ASSUME IInv, [Next]_vars, NEW c \in Conn
  PROVE  /\ "IN" \in Poll(c)' /\ "IN" \notin Poll(c)
              => ClientSend(c) \/ ClientFin(c) \/ ClientRst(c)
         /\ "OUT" \in Poll(c)' /\ "OUT" \notin Poll(c)
              => ClientRead(c) \/ ClientRst(c) \/ (CloseFd /\ c = fdConn[net.fd])
<1>1. /\ "IN" \in Poll(c) <=> conn[c].sent - conn[c].read > 0 \/ conn[c].peer # "up"
      /\ "OUT" \in Poll(c) <=> Len(conn[c].tx) < TxCap \/ conn[c].peer = "rst"
      /\ "IN" \in Poll(c)' <=> conn'[c].sent - conn'[c].read > 0 \/ conn'[c].peer # "up"
      /\ "OUT" \in Poll(c)' <=> Len(conn'[c].tx) < TxCap \/ conn'[c].peer = "rst"
  BY DEF Poll, Events, Rx
<1>2. conn[c].sent \in Nat /\ conn[c].read \in Nat /\ Len(conn[c].tx) \in Nat
      /\ Len(conn'[c].tx) \in Nat
  <2>1. conn[c].tx \in Seq(Conn) /\ conn'[c].tx \in Seq(Conn)
        /\ conn[c].sent \in Nat /\ conn[c].read \in Nat
    BY ConnOf, ConnNext, TypeParts, Constants DEF IInv, ConnOK, ConnState
  <2> QED BY <2>1
<1>3. \A s, r \in Nat : s - r > 0 \/ ~ (s - (r + 1) > 0)
  OBVIOUS
<1>4. \A a, b \in Nat : b >= a => (b < TxCap => a < TxCap)
  BY Constants
<1>5. /\ conn'[c].read = conn[c].read \/ conn'[c].read = conn[c].read + 1
      /\ conn'[c].sent = conn[c].sent \/ ClientSend(c)
      /\ conn'[c].peer = conn[c].peer \/ (ClientFin(c) /\ conn'[c].peer = "fin") \/ ClientRst(c)
      /\ \/ conn'[c].tx = conn[c].tx \/ ClientRead(c) \/ (CloseFd /\ c = fdConn[net.fd])
         \/ Len(conn'[c].tx) >= Len(conn[c].tx)
  BY ClientFields
<1>6. ASSUME "IN" \in Poll(c)', "IN" \notin Poll(c)
      PROVE  ClientSend(c) \/ ClientFin(c) \/ ClientRst(c)
  BY <1>1, <1>2, <1>3, <1>5, <1>6
<1>7. ASSUME "OUT" \in Poll(c)', "OUT" \notin Poll(c)
      PROVE  ClientRead(c) \/ ClientRst(c) \/ (CloseFd /\ c = fdConn[net.fd])
  BY <1>1, <1>2, <1>4, <1>5, <1>7
<1> QED BY <1>6, <1>7

LEMMA ReadyLoses ==
  ASSUME IInv, [Next]_vars, NEW fd \in Fd, fd \in ready, fd \notin ready'
  PROVE  EpollWait \/ (ClosePurge /\ fd = net.fd)
<1>1. ASSUME NEW sock, NEW events, CtlMod(sock, events) PROVE fd \in ready'
  BY <1>1 DEF CtlMod, Ctl
<1>2. ~EventOut
  <2>1. ASSUME EventOut PROVE UNCHANGED ready \/ CtlMod(net.fd, {"IN"})
    BY <2>1, EventOutChanges
  <2> QED BY <1>1, <2>1
<1>3. ~SendArm
  BY <1>1 DEF SendArm
<1>4. ~Accept
  BY DEF Accept, Ctl
<1> QED BY <1>2, <1>3, <1>4 DEF Next, NetStep, DealStep, Client, ClientReads, ClientConnect,
  ClientSend, ClientFin, ClientRst, ClientRead, Wake, NextEvent, BatchDone, EventIn, RecvUnit,
  RecvAgain, RecvEnd, EventErr, ClosePurge, CloseFd, CloseErase, AcceptEnd, GetPackage, GotNull,
  DespatchUnknown, DespatchTest, vars, kernel

\* A registered descriptor keeps its client.
LEMMA StaysOpen ==
  ASSUME IInv, [Next]_vars, NEW fd \in Fd, mask[fd] # {}
  PROVE  /\ fdConn[fd] \in Conn /\ fdConn'[fd] = fdConn[fd]
         /\ "IN" \in mask[fd] /\ fd < MAX_CONN
         /\ ~ (CloseFd /\ fdConn[fd] = fdConn[net.fd])
<1>1. fdConn[fd] \in Conn /\ fdConn \in [Fd -> Conn \cup {NULL}]
  BY UnderFd DEF IInv, Descriptors
<1>2. fdConn'[fd] = fdConn[fd]
  BY <1>1, Constants, FdConnChanges
<1>3. ~ (CloseFd /\ fdConn[fd] = fdConn[net.fd])
  <2>1. CloseFd => net.fd \in Fd /\ mask[net.fd] = {}
    BY DEF CloseFd, IInv, NetPhase, Working, InEntry
  <2> QED BY <1>1, <2>1, Constants DEF IInv, Descriptors
<1> QED BY <1>1, <1>2, <1>3, Constants DEF IInv, Descriptors

\* What is ready or in the batch stays there or is worked on.
LEMMA EdgeMoves ==
  ASSUME IInv, [Next]_vars, NEW fd \in Fd, NEW e \in {"IN", "OUT"}, mask'[fd] # {}
  PROVE  /\ fd \in ready /\ e \in mask[fd] /\ e \in Poll(fdConn[fd])
              => fd \in ready' \/ e \in batch'[fd]
         /\ e \in batch[fd] => e \in batch'[fd] \/ (net'.fd = fd /\ e \in net'.ev)
<1>1. batch \in [Fd \cup {Listener} -> SUBSET Events] /\ fd # Listener
  BY TypeParts, Constants DEF IInv
<1>2. ASSUME fd \in ready, e \in mask[fd], e \in Poll(fdConn[fd])
      PROVE  fd \in ready' \/ e \in batch'[fd]
  <2>1. EpollWait => e \in batch'[fd]
    BY <1>1, <1>2 DEF EpollWait, Pending
  <2>2. ~ (ClosePurge /\ fd = net.fd)
    <3>1. mask \in [Fd -> SUBSET {"IN", "OUT"}]
      BY TypeParts DEF IInv
    <3> QED BY <3>1 DEF ClosePurge
  <2> QED BY <1>2, <2>1, <2>2, ReadyLoses
<1>3. ASSUME e \in batch[fd]
      PROVE  e \in batch'[fd] \/ (net'.fd = fd /\ e \in net'.ev)
  <2>1. ~EpollWait
    BY <1>3 DEF EpollWait, IInv, NetPhase
  <2>2. ASSUME NEW x \in Fd \cup {Listener}, NextEvent(x), batch' = [batch EXCEPT ![x] = {}]
        PROVE  e \in batch'[fd] \/ (net'.fd = fd /\ e \in net'.ev)
    <3>1. CASE x = fd
      BY <1>1, <1>3, <2>2, <3>1, NetMoves
    <3>2. CASE x # fd
      BY <1>1, <1>3, <2>2, <3>2
    <3> QED BY <3>1, <3>2
  <2> QED BY <1>3, <2>1, <2>2, BatchChanges
<1> QED BY <1>2, <1>3

LEMMA ReadEdgeNext ==
  ASSUME IInv, [Next]_vars
  PROVE  NoLostReadEdge'
<1> SUFFICES ASSUME NEW fd \in Fd, mask'[fd] # {}, NEW c, c = fdConn'[fd], "IN" \in Poll(c)'
             PROVE  \/ fd \in ready'
                    \/ "IN" \in batch'[fd]
                    \/ net'.fd = fd /\ (net'.pc \in {"recv", "purge"} \/ "IN" \in net'.ev)
  BY DEF NoLostReadEdge, Poll, Rx
<1>1. CASE mask[fd] = {}
  <2>1. Accept /\ fdConn[fd] = NULL
    BY <1>1, StillRegistered
  <2>2. mask \in [Fd -> SUBSET {"IN", "OUT"}] /\ fdConn \in [Fd -> Conn \cup {NULL}]
    BY TypeParts DEF IInv
  <2>3. fdConn'[fd] # NULL
    BY DescriptorsNext DEF Descriptors
  <2>4. ~CloseFd
    BY <2>1 DEF Accept, CloseFd
  <2>5. PICK x \in Fd : /\ fdConn' = [fdConn EXCEPT ![x] = Head(backlog)]
                        /\ Ctl(x, Head(backlog), {"IN"})
    BY <2>1, <2>3, <2>4, FdConnChanges
  <2>6. x = fd /\ c = Head(backlog) /\ c \in Conn
    BY <2>1, <2>2, <2>3, <2>5, AcceptChanges
  <2>7. "IN" \in Poll(c)
    <3>1. ~ ClientSend(c) /\ ~ ClientFin(c) /\ ~ ClientRst(c)
      <4>1. backlog \in Seq(Conn) /\ backlog # <<>> /\ backlog' = Tail(backlog)
        BY <2>1, TypeParts DEF IInv, Accept
      <4>2. ~ UNCHANGED backlog
        <5>1. Len(backlog) \in Nat /\ Len(backlog') = Len(backlog) - 1
          BY <4>1
        <5>2. \A n \in Nat : n - 1 # n
          OBVIOUS
        <5>3. Len(backlog') # Len(backlog)
          BY <5>1, <5>2
        <5> QED BY <5>3
      <4> QED BY <4>2 DEF ClientSend, ClientFin, ClientRst
    <3> QED BY <2>6, <3>1, PollNews
  <2> QED BY <2>5, <2>6, <2>7 DEF Ctl
<1>2. CASE mask[fd] # {}
  <2>1. c \in Conn /\ fdConn[fd] = c /\ "IN" \in mask[fd] /\ fd < MAX_CONN
    BY <1>2, StaysOpen
  <2>2. CASE "IN" \notin Poll(c)
    <3>1. ClientSend(c) \/ ClientFin(c) \/ ClientRst(c)
      BY <2>1, <2>2, PollNews
    <3> QED BY <1>2, <2>1, <3>1 DEF ClientSend, ClientFin, ClientRst, Wake, Events
  <2>3. CASE "IN" \in Poll(c)
    <3>1. \/ fd \in ready
          \/ "IN" \in batch[fd]
          \/ net.fd = fd /\ (net.pc \in {"recv", "purge"} \/ "IN" \in net.ev)
      BY <1>2, <2>1, <2>3 DEF IInv, NoLostReadEdge
    <3>2. CASE fd \in ready \/ "IN" \in batch[fd]
      BY <2>1, <2>3, <3>2, EdgeMoves
    <3>3. CASE net.fd = fd /\ net.pc = "recv"
      <4>1. ~RecvAgain
        BY <2>1, <2>3, <3>3 DEF RecvAgain, Poll
      <4> QED BY <3>3, <4>1, NetAt, NotNetIs, NetMoves DEF Moves
    <3>4. CASE net.fd = fd /\ net.pc = "purge"
      <4>1. ~ClosePurge
        <5>1. mask \in [Fd -> SUBSET {"IN", "OUT"}]
          BY TypeParts DEF IInv
        <5> QED BY <3>4, <5>1 DEF ClosePurge
      <4> QED BY <3>4, <4>1, NetAt, NotNetIs
    <3>5. CASE net.fd = fd /\ "IN" \in net.ev
      <4>1. net.pc = "event"
        <5>1. net \in NetState
          BY TypeParts DEF IInv
        <5>2. net.pc \in {"wait", "event", "recv", "purge", "close", "erase", "accept"}
          BY <5>1 DEF NetState
        <5> QED BY <3>5, <5>2 DEF IInv, NetPhase, InEntry
      <4>2. EventIn \/ NotNet
        BY <3>5, <4>1 DEF Next, NetStep, NotNet, EpollWait, NextEvent, BatchDone, RecvUnit,
           RecvAgain, RecvEnd, EventOut, EventErr, ClosePurge, CloseFd, CloseErase, Accept,
           AcceptEnd
      <4> QED BY <3>5, <4>2, NotNetIs, NetMoves DEF Moves
    <3> QED BY <3>1, <3>2, <3>3, <3>4, <3>5
  <2> QED BY <2>2, <2>3
<1> QED BY <1>1, <1>2

LEMMA OutPoll ==
  ASSUME NEW c
  PROVE  /\ "OUT" \in Poll(c) <=> Len(conn[c].tx) < TxCap \/ conn[c].peer = "rst"
         /\ "OUT" \in Poll(c)' <=> Len(conn'[c].tx) < TxCap \/ conn'[c].peer = "rst"
         /\ conn[c].peer = "rst" => "IN" \in Poll(c)
BY DEF Poll, Events

\* A reply that OnSend cannot send in full fills the socket, unless the client
\* has reset; then the descriptor is on the ready list for that.
LEMMA SentRest ==
  ASSUME IInv, [Next]_vars, EventOut, NEW fd \in Fd, fd = net.fd, mask[fd] # {},
         m_sendMsgList[fd] # <<>>, m_sendMsgList'[fd] # <<>>,
         NEW c, c = fdConn[fd], "OUT" \in Poll(c)'
  PROVE  fd \in ready' /\ "OUT" \in mask'[fd]
<1>1. m_sendMsgList \in [Fd -> Seq(Conn)] /\ net \in NetState
  BY TypeParts DEF IInv
<1>2. c \in Conn
  BY StaysOpen
<1>3. PICK n \in 0..Len(m_sendMsgList[fd]) :
        LET rest == SubSeq(m_sendMsgList[fd], n + 1, Len(m_sendMsgList[fd]))
            tx == conn[c].tx \o SubSeq(m_sendMsgList[fd], 1, n)
        IN  /\ Changed(c, conn[c].st, conn[c].sent, conn[c].read, conn[c].peer, tx)
            /\ n = Len(m_sendMsgList[fd]) \/ conn[c].peer = "rst" \/ Len(tx) = TxCap
            /\ m_sendMsgList' = [m_sendMsgList EXCEPT ![fd] = rest]
            /\ rest = <<>> <=> n = Len(m_sendMsgList[fd])
            /\ IF rest = <<>> THEN CtlMod(net.fd, {"IN"}) ELSE UNCHANGED <<mask, ready>>
  BY <1>2, EventOutChanges, Constants
<1> DEFINE rest == SubSeq(m_sendMsgList[fd], n + 1, Len(m_sendMsgList[fd]))
           tx == conn[c].tx \o SubSeq(m_sendMsgList[fd], 1, n)
<1>4. /\ m_sendMsgList' = [m_sendMsgList EXCEPT ![fd] = rest]
      /\ rest = <<>> <=> n = Len(m_sendMsgList[fd])
      /\ n = Len(m_sendMsgList[fd]) \/ conn[c].peer = "rst" \/ Len(tx) = TxCap
      /\ IF rest = <<>> THEN CtlMod(net.fd, {"IN"}) ELSE UNCHANGED <<mask, ready>>
  BY <1>3
<1>5. conn'[c].peer = conn[c].peer /\ conn'[c].tx = tx
  <2>1. Changed(c, conn[c].st, conn[c].sent, conn[c].read, conn[c].peer, tx)
    BY <1>3
  <2> HIDE DEF tx
  <2> QED BY <1>2, <2>1, ChangedIs
<1> HIDE DEF rest, tx
<1>6. rest # <<>>
  BY <1>1, <1>4
<1>7. UNCHANGED <<mask, ready>>
  BY <1>4, <1>6
<1>8. conn[c].peer = "rst"
  <2>1. Len(tx) # TxCap \/ ~ (Len(tx) < TxCap)
    BY Constants
  <2> QED BY <1>4, <1>5, <1>6, <2>1, OutPoll
<1>9. net.pc = "event" /\ "IN" \notin net.ev /\ "OUT" \in net.ev /\ deal.pc # "arm"
  BY DEF EventOut, SendListFree
<1>10. batch[fd] = {}
  BY <1>9 DEF IInv, Working
<1>11. fd \in ready
  BY <1>8, <1>9, <1>10, OutPoll DEF IInv, NoLostReadEdge
<1>12. "OUT" \in mask[fd]
  BY <1>9 DEF IInv, Armed
<1> QED BY <1>7, <1>11, <1>12

\* The message thread keeps its place until epoll_ctl has armed EPOLLOUT.
LEMMA ArmMoves ==
  ASSUME IInv, [Next]_vars, NEW fd \in Fd, deal.pc = "arm", deal.sock = fd,
         mask[fd] # {}, mask'[fd] # {}, "OUT" \in Poll(fdConn[fd])'
  PROVE  \/ fd \in ready' /\ "OUT" \in mask'[fd]
         \/ deal'.pc = "arm" /\ deal'.sock = fd
<1>1. UNCHANGED deal \/ SendArm
  BY DealChanges DEF GotNull, DespatchUnknown, DespatchTest, List!Done
<1>2. CASE UNCHANGED deal
  BY <1>2
<1>3. CASE SendArm
  <2> DEFINE c == fdConn[fd]
  <2>1. UNCHANGED <<conn, fdConn>> /\ Ctl(fd, c, {"IN", "OUT"})
    BY <1>3 DEF SendArm, SendMask, CtlMod
  <2>2. "OUT" \in Poll(c)
    BY <2>1 DEF Poll, Rx
  <2>3. mask \in [Fd -> SUBSET {"IN", "OUT"}]
    BY TypeParts DEF IInv
  <2> HIDE DEF c
  <2> QED BY <2>1, <2>2, <2>3 DEF Ctl
<1> QED BY <1>1, <1>2, <1>3

\* The network thread under an entry that still has EPOLLOUT to do.
LEMMA OutFlagMoves ==
  ASSUME IInv, [Next]_vars, NEW fd \in Fd, net.fd = fd, net.pc = "purge" \/ "OUT" \in net.ev,
         mask[fd] # {}, mask'[fd] # {}, m_sendMsgList[fd] # <<>>, m_sendMsgList'[fd] # <<>>,
         NEW c, c = fdConn[fd], "OUT" \in Poll(c)'
  PROVE  \/ fd \in ready' /\ "OUT" \in mask'[fd]
         \/ net'.fd = fd /\ (net'.pc = "purge" \/ "OUT" \in net'.ev)
<1>1. mask \in [Fd -> SUBSET {"IN", "OUT"}] /\ net \in NetState
      /\ m_sendMsgList \in [Fd -> Seq(Conn)]
  BY TypeParts DEF IInv
<1>2. ~ClosePurge /\ ~CloseFd /\ ~CloseErase
  <2>1. ~ClosePurge
    BY <1>1 DEF ClosePurge
  <2>2. ~CloseFd
    BY DEF CloseFd, IInv, Working
  <2>3. ~CloseErase
    BY DEF CloseErase, IInv, Working
  <2> QED BY <2>1, <2>2, <2>3
<1>3. CASE net.pc = "purge"
  BY <1>2, <1>3, NetAt, NotNetIs
<1>4. CASE net.pc # "purge"
  <2>1. "OUT" \in net.ev
    BY <1>4
  <2>2. CASE EventOut
    BY <2>2, SentRest
  <2>3. CASE NotNet \/ Accept
    BY <2>1, <2>3, NotNetIs DEF Accept
  <2>4. CASE EventIn \/ RecvUnit \/ RecvAgain \/ RecvEnd
    BY <2>1, <2>4, NetMoves DEF Moves
  <2>5. ~EventErr
    BY <2>1 DEF EventErr
  <2>6. ~EpollWait /\ ~BatchDone /\ ~AcceptEnd
    BY <2>1, NetMoves
  <2>7. \A x \in Fd \cup {Listener} : ~NextEvent(x)
    BY <2>1, NetMoves
  <2> QED BY <1>2, <2>2, <2>3, <2>4, <2>5, <2>6, <2>7 DEF Next, NetStep, NotNet
<1> QED BY <1>3, <1>4

LEMMA WriteEdgeNext ==
  ASSUME IInv, [Next]_vars
  PROVE  NoLostWriteEdge'
<1> SUFFICES ASSUME NEW fd \in Fd, m_sendMsgList'[fd] # <<>>, mask'[fd] # {},
                    NEW c, c = fdConn'[fd], "OUT" \in Poll(c)'
             PROVE  \/ fd \in ready' /\ "OUT" \in mask'[fd]
                    \/ "OUT" \in batch'[fd]
                    \/ net'.fd = fd /\ (net'.pc = "purge" \/ "OUT" \in net'.ev)
                    \/ deal'.pc = "arm" /\ deal'.sock = fd
  BY DEF NoLostWriteEdge, Poll, Rx
<1>1. CASE m_sendMsgList[fd] = <<>>
  BY <1>1, SendListStarts
<1>2. CASE m_sendMsgList[fd] # <<>>
  <2>1. mask[fd] # {}
    <3>1. mask[fd] = {} => Accept /\ fdConn[fd] = NULL
      BY StillRegistered
    <3>2. Accept => net.pc = "accept"
      BY DEF Accept
    <3> QED BY <1>2, <3>1, <3>2 DEF IInv, NoLeftoverReply
  <2>2. c \in Conn /\ fdConn[fd] = c /\ ~ (CloseFd /\ c = fdConn[net.fd])
    BY <2>1, StaysOpen
  <2>3. CASE deal.pc = "arm" /\ deal.sock = fd
    BY <2>1, <2>2, <2>3, ArmMoves
  <2>4. CASE "OUT" \notin Poll(c) /\ ~ (deal.pc = "arm" /\ deal.sock = fd)
    <3>1. ClientRead(c) \/ ClientRst(c)
      BY <2>2, <2>4, PollNews
    <3>2. "OUT" \in mask[fd]
      BY <1>2, <2>1, <2>4 DEF IInv, Armed
    <3> QED BY <2>1, <2>2, <3>1, <3>2 DEF ClientRead, ClientRst, Wake, Events
  <2>5. CASE "OUT" \in Poll(c) /\ ~ (deal.pc = "arm" /\ deal.sock = fd)
    <3>1. \/ fd \in ready /\ "OUT" \in mask[fd]
          \/ "OUT" \in batch[fd]
          \/ net.fd = fd /\ (net.pc = "purge" \/ "OUT" \in net.ev)
      BY <1>2, <2>1, <2>2, <2>5 DEF IInv, NoLostWriteEdge
    <3>2. CASE fd \in ready /\ "OUT" \in mask[fd]
      BY <1>2, <2>2, <2>5, <3>2, EdgeMoves, KeepsOut
    <3>3. CASE "OUT" \in batch[fd]
      BY <3>3, EdgeMoves
    <3>4. CASE net.fd = fd /\ (net.pc = "purge" \/ "OUT" \in net.ev)
      BY <1>2, <2>1, <2>2, <3>4, OutFlagMoves
    <3> QED BY <3>1, <3>2, <3>3, <3>4
  <2> QED BY <2>3, <2>4, <2>5
<1> QED BY <1>1, <1>2

-----------------------------------------------------------------------------
(* The theorems.                                                           *)

LEMMA InvInit == Init => IInv
<1> SUFFICES ASSUME Init PROVE IInv
  OBVIOUS
<1>1. /\ conn = [c \in Conn |-> [st |-> "new", sent |-> 0, read |-> 0,
                                 peer |-> "up", tx |-> <<>>]]
      /\ backlog = <<>> /\ queue = <<>> /\ ready = {}
      /\ fdConn = [fd \in Fd |-> NULL] /\ mask = [fd \in Fd |-> {}]
      /\ m_recvMsgList = [fd \in Fd |-> <<>>] /\ m_sendMsgList = [fd \in Fd |-> <<>>]
      /\ net = [pc |-> "wait", fd |-> Listener, ev |-> {}]
      /\ batch = [fd \in Fd \cup {Listener} |-> {}]
      /\ deal = [pc |-> "call", sock |-> NULL, pMsg |-> NULL]
      /\ handled = [c \in Conn |-> 0]
  BY DEF Init, List!Init
<1>2. ConnOK(conn)
  <2>1. 0 \in 0..2 * NumMsg /\ Len(<<>>) <= TxCap /\ <<>> \in Seq(Conn)
    BY Constants
  <2> QED BY <1>1, <2>1 DEF ConnOK, ConnState
<1>3. TypeOK
  <2>1. net \in NetState /\ deal \in DealState
    BY <1>1 DEF NetState, DealState
  <2>2. handled \in [Conn -> 0..NumMsg]
    BY <1>1, Constants
  <2>3. /\ backlog \in Seq(Conn) /\ queue \in Seq([sock : Fd, pMsg : Message])
        /\ m_recvMsgList \in [Fd -> Seq(Unit)] /\ m_sendMsgList \in [Fd -> Seq(Conn)]
    BY <1>1
  <2>4. /\ fdConn \in [Fd -> Conn \cup {NULL}] /\ mask \in [Fd -> SUBSET {"IN", "OUT"}]
        /\ ready \subseteq Fd \cup {Listener}
        /\ batch \in [Fd \cup {Listener} -> SUBSET Events]
    BY <1>1
  <2> QED BY <1>2, <2>1, <2>2, <2>3, <2>4, TypeParts
<1>4. NetPhase /\ Working /\ Cleared /\ Hand
  BY <1>1 DEF NetPhase, Working, Cleared, Hand, InEntry
<1>5. Descriptors
  BY <1>1 DEF Descriptors
<1>6. Unheard
  BY <1>1 DEF Unheard
<1>7. BytesBelongToFd
  BY <1>1 DEF BytesBelongToFd
<1>8. InOrder
  BY <1>1 DEF InOrder, RunInQueue, InHand, From
<1>9. Armed /\ NoLostReadEdge /\ NoLostWriteEdge /\ NoLeftoverReply
  BY <1>1 DEF Armed, NoLostReadEdge, NoLostWriteEdge, NoLeftoverReply
<1> QED BY <1>3, <1>4, <1>5, <1>6, <1>7, <1>8, <1>9 DEF IInv

LEMMA InvNext == IInv /\ [Next]_vars => IInv'
<1> SUFFICES ASSUME IInv, [Next]_vars PROVE IInv'
  OBVIOUS
<1>1. TypeOK' /\ NetPhase' /\ Descriptors' /\ Working'
  BY TypeNext, NetPhaseNext, DescriptorsNext, WorkingNext
<1>2. Cleared' /\ Hand' /\ Unheard' /\ BytesBelongToFd'
  BY ClearedNext, HandNext, UnheardNext, BelongsNext
<1>3. InOrder'
  BY InOrderNext
<1>4. Armed' /\ NoLostReadEdge' /\ NoLostWriteEdge' /\ NoLeftoverReply'
  BY ArmedNext, ReadEdgeNext, WriteEdgeNext, NoLeftoverReplyNext
<1> QED BY <1>1, <1>2, <1>3, <1>4 DEF IInv

\* The inductive invariant.
THEOREM Invariant == Spec => []IInv
<1>1. Init => IInv
  BY InvInit
<1>2. IInv /\ [Next]_vars => IInv'
  BY InvNext
<1> QED BY <1>1, <1>2, PTL DEF Spec

\* Every variable of SocketServer and of the message thread keeps its type, and
\* no socket holds more than its send buffer.
THEOREM TypeCorrect == Spec => []TypeOK
<1>1. IInv => TypeOK
  BY DEF IInv
<1> QED BY <1>1, Invariant, PTL

\* What OnRecv has half received under a descriptor, and what waits for the
\* message thread under it, came from the client that has the number now:
\* CloseConnect clears both before it closes.
THEOREM BytesStayWithTheirClient == Spec => []BytesBelongToFd
<1>1. IInv => BytesBelongToFd
  BY DEF IInv
<1> QED BY <1>1, Invariant, PTL

\* Whatever the threads and clients do, readable data and writable room that
\* edge-triggered epoll reports once are still to be reported or worked on:
\* DespatchEvent with OnRecv, and SendMsg with OnSend, lose no edge.
THEOREM EdgesAreKept == Spec => []NoLostEdge
<1>1. IInv => NoLostEdge
  BY DEF IInv, NoLostEdge
<1> QED BY <1>1, Invariant, PTL

\* When CloseConnect is done no reply is kept under the number: the client
\* that gets the number next is sent none of them from m_sendMsgList.
THEOREM RepliesEndWithTheirClient == Spec => []NoLeftoverReply
<1>1. IInv => NoLeftoverReply
  BY DEF IInv
<1> QED BY <1>1, Invariant, PTL

\* PackDeal takes the messages of a client whole, in the order sent, each once
\* and none skipped, for as long as the client is connected.
THEOREM TakenInOrder == Spec => HandledInOrder
<1> DEFINE Taken ==
      deal.pMsg = NULL /\ deal'.pMsg # NULL =>
        LET c == deal'.pMsg[1][1]
        IN  deal'.pMsg = << <<c, 2 * handled[c] + 1>>, <<c, 2 * handled[c] + 2>> >>
<1>1. IInv /\ [Next]_vars => Taken
  <2> SUFFICES ASSUME IInv, [Next]_vars, deal.pMsg = NULL, deal'.pMsg # NULL,
                      NEW c, c = deal'.pMsg[1][1]
               PROVE  deal'.pMsg = << <<c, 2 * handled[c] + 1>>, <<c, 2 * handled[c] + 2>> >>
    OBVIOUS
  <2>1. /\ queue # <<>> /\ 1 \in DOMAIN queue /\ queue[1] \in Node
        /\ deal'.pMsg = queue[1].pMsg
    BY DealChanges
  <2>2. c \in Conn
    BY <2>1, MessageParts DEF Node
  <2>3. ~InHand(c)
    BY DEF InHand
  <2>4. handled[c] \in Nat
    BY <2>2, TypeParts, Constants DEF IInv
  <2>5. TakenUnits(c) = 2 * handled[c]
    BY <2>3, <2>4 DEF TakenUnits
  <2>6. deal'.pMsg = EndingAt(c, 2 * handled[c] + 2)
    BY <2>1, <2>2, <2>5, FirstIsNext
  <2>7. \A h \in Nat : 2 * h + 2 - 1 = 2 * h + 1
    OBVIOUS
  <2> QED BY <2>4, <2>6, <2>7 DEF EndingAt
<1>2. []IInv /\ [][Next]_vars => [][Taken]_vars
  BY <1>1, PTL
<1> QED BY <1>2, Invariant, PTL DEF Spec, HandledInOrder
=============================================================================
