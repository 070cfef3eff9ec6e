----------------------------- MODULE SocketServer -----------------------------
(***************************************************************************)
(* SocketServer (net_server.cpp), the clients and sockets around it, and   *)
(* the message thread (PServer::PackDeal with PackageDeal::PTL_Test) that  *)
(* takes its messages and answers them.                                    *)
(*                                                                         *)
(* The network thread waits on an edge-triggered epoll and works through   *)
(* the returned batch: accept, OnRecv, OnSend, CloseConnect.  The message  *)
(* thread knows a client only by the number of its descriptor, which the   *)
(* kernel gives to the next client as soon as CloseConnect has closed it.  *)
(*                                                                         *)
(* Data: a message of a client is two units, its head and its body, read   *)
(* by one Recv each; a unit is <<client, position in its stream>>.  A      *)
(* reply is one unit that names the client it answers.  CPackageList is    *)
(* used as the FIFO of MsgQueue.tla, which PackageList.tla implements.     *)
(***************************************************************************)
EXTENDS Integers, Sequences, FiniteSets, FiniteSetsExt, Functions

CONSTANTS
  Conn,        \* clients, each connects at most once
  MaxFd,       \* descriptors the process may hold: RLIMIT_NOFILE
  MAX_CONN,    \* OnRecv and accept refuse descriptors from here on
  NumMsg,      \* bound: messages a client sends
  MaxPerSock,  \* the 200 of AddMsg
  TxCap,       \* replies a socket's send buffer holds
  NULL         \* the null pointer, and an unused descriptor

Fd == 1..MaxFd
Listener == 0                  \* m_listerSock
Events == {"IN", "OUT", "ERR"} \* EPOLLIN, EPOLLOUT, EPOLLERR or EPOLLHUP
Unit == Conn \X (1..2 * NumMsg)
Message == Unit \X Unit

ASSUME ConstantsAssumption ==
  /\ MaxFd \in Nat \ {0} /\ MAX_CONN \in Nat /\ NumMsg \in Nat
  /\ MaxPerSock \in Nat /\ TxCap \in Nat \ {0}
  /\ NULL \notin Conn \cup Message

VARIABLES
  \* kernel and clients
  conn,     \* per client: [st, sent, read, peer, tx]
  backlog,  \* clients connected and not yet accepted
  fdConn,   \* the client behind each descriptor, NULL when it is closed
  mask,     \* events each descriptor is registered for, {} if it is not
  ready,    \* epoll's ready list
  \* SocketServer
  m_recvMsgList,  \* the units of the message being received, per descriptor
  m_sendMsgList,  \* the replies waiting for EPOLLOUT, per descriptor
  queue,          \* m_packageList
  net,            \* network thread: [pc, fd, ev], ev the flags still to do
  batch,          \* m_epollEvent, entries still to do
  \* PServer::PackDeal
  deal,     \* message thread: [pc, sock, pMsg]
  handled   \* history: messages of each client the thread has taken

kernel == <<conn, backlog, fdConn, mask, ready>>
server == <<m_recvMsgList, m_sendMsgList, queue, net, batch, deal, handled>>
vars == <<conn, backlog, fdConn, mask, ready, m_recvMsgList, m_sendMsgList,
          queue, net, batch, deal, handled>>

List == INSTANCE MsgQueue WITH Sock <- Fd, Msg <- Message

-----------------------------------------------------------------------------
(* The kernel: readiness of a descriptor and the epoll calls.              *)

Rx(c) == conn[c].sent - conn[c].read

\* What poll reports of a client's socket.
Poll(c) ==
  {e \in Events :
     \/ e = "IN" /\ (Rx(c) > 0 \/ conn[c].peer # "up")
     \/ e = "OUT" /\ (Len(conn[c].tx) < TxCap \/ conn[c].peer = "rst")
     \/ e = "ERR" /\ conn[c].peer = "rst"}

\* What epoll_wait would return for a descriptor.  Errors need no mask.
Pending(fd) ==
  IF fd = Listener THEN IF backlog = <<>> THEN {} ELSE {"IN"}
  ELSE IF mask[fd] = {} THEN {}
  ELSE Poll(fdConn[fd]) \cap (mask[fd] \cup {"ERR"})

\* Something happened to a client's socket: its descriptor joins the ready
\* list when it is registered for one of the events.
Wake(c, events) ==
  ready' = ready \cup {fd \in Fd : /\ fdConn[fd] = c
                                   /\ mask[fd] # {}
                                   /\ events \cap (mask[fd] \cup {"ERR"}) # {}}

\* epoll_ctl ADD and MOD look at the present state as well.
Ctl(fd, c, events) ==
  /\ mask' = [mask EXCEPT ![fd] = events]
  /\ ready' = IF Poll(c) \cap (events \cup {"ERR"}) # {} THEN ready \cup {fd}
              ELSE ready

\* epoll_ctl MOD fails on a descriptor that is not registered.
CtlMod(fd, events) ==
  IF mask[fd] = {} THEN UNCHANGED <<mask, ready>> ELSE Ctl(fd, fdConn[fd], events)

-----------------------------------------------------------------------------
(* The clients.                                                            *)

Alive(c) == conn[c].st \in {"backlog", "open"} /\ conn[c].peer # "rst"

ClientConnect(c) ==
  /\ conn[c].st = "new"
  /\ conn' = [conn EXCEPT ![c].st = "backlog"]
  /\ backlog' = Append(backlog, c)
  /\ ready' = ready \cup {Listener}
  /\ UNCHANGED <<fdConn, mask>>

ClientSend(c) ==
  /\ Alive(c) /\ conn[c].peer = "up" /\ conn[c].sent < 2 * NumMsg
  /\ conn' = [conn EXCEPT ![c].sent = @ + 1]
  /\ Wake(c, {"IN"})
  /\ UNCHANGED <<backlog, fdConn, mask>>

\* shutdown: nothing more to send, replies are still read.
ClientFin(c) ==
  /\ Alive(c) /\ conn[c].peer = "up"
  /\ conn' = [conn EXCEPT ![c].peer = "fin"]
  /\ Wake(c, {"IN"})
  /\ UNCHANGED <<backlog, fdConn, mask>>

\* A reset: what arrived before it can still be read.
ClientRst(c) ==
  /\ Alive(c)
  /\ conn' = [conn EXCEPT ![c].peer = "rst"]
  /\ Wake(c, Events)
  /\ UNCHANGED <<backlog, fdConn, mask>>

ClientRead(c) ==
  /\ Alive(c) /\ conn[c].tx # <<>>
  /\ conn' = [conn EXCEPT ![c].tx = Tail(@)]
  /\ Wake(c, {"OUT"})
  /\ UNCHANGED <<backlog, fdConn, mask>>

ClientReads(c) == ClientRead(c) /\ UNCHANGED server

Client(c) ==
  \/ /\ ClientConnect(c) \/ ClientSend(c) \/ ClientFin(c) \/ ClientRst(c)
     /\ UNCHANGED server
  \/ ClientReads(c)

-----------------------------------------------------------------------------
(* Network thread: DespatchEvent.                                          *)

Goto(pc) == net' = [net EXCEPT !.pc = pc]

\* epoll_wait returns everything on the ready list that is still ready.
EpollWait ==
  /\ net.pc = "wait"
  /\ \E fd \in ready : Pending(fd) # {}
  /\ batch' = [fd \in Fd \cup {Listener} |->
                 IF fd \in ready THEN Pending(fd) ELSE {}]
  /\ ready' = {}
  /\ Goto("event")
  /\ UNCHANGED <<conn, backlog, fdConn, mask, m_recvMsgList, m_sendMsgList,
                 queue, deal, handled>>

\* The next entry of m_epollEvent, in any order.
NextEvent(fd) ==
  /\ net.pc = "event" /\ net.ev = {}
  /\ batch[fd] # {}
  /\ batch' = [batch EXCEPT ![fd] = {}]
  /\ net' = IF fd = Listener THEN [pc |-> "accept", fd |-> fd, ev |-> {}]
            ELSE [pc |-> "event", fd |-> fd, ev |-> batch[fd]]
  /\ UNCHANGED <<kernel, m_recvMsgList, m_sendMsgList, queue, deal, handled>>

BatchDone ==
  /\ net.pc = "event" /\ net.ev = {}
  /\ \A fd \in DOMAIN batch : batch[fd] = {}
  /\ Goto("wait")
  /\ UNCHANGED <<kernel, m_recvMsgList, m_sendMsgList, queue, batch, deal, handled>>

\* The flags of an entry, tested in the order EPOLLIN, EPOLLOUT, EPOLLERR.
EventIn ==
  /\ net.pc = "event" /\ "IN" \in net.ev
  /\ net' = [net EXCEPT !.pc = "recv", !.ev = @ \ {"IN"}]
  /\ UNCHANGED <<kernel, m_recvMsgList, m_sendMsgList, queue, batch, deal, handled>>

EventErr ==
  /\ net.pc = "event" /\ net.ev = {"ERR"}
  /\ m_recvMsgList' = [m_recvMsgList EXCEPT ![net.fd] = <<>>]
  /\ net' = [net EXCEPT !.pc = "purge", !.ev = {}]
  /\ UNCHANGED <<kernel, m_sendMsgList, queue, batch, deal, handled>>

-----------------------------------------------------------------------------
(* Network thread: OnRecv, one NetMessage::Recv per step.                  *)

\* The rest of the loop body after a message is complete: read on.
AfterMessage_Return == Goto("event")
AfterMessage == UNCHANGED net

\* m_recvMsgList.Erase on the way to CloseConnect.
EraseRecv == m_recvMsgList' = [m_recvMsgList EXCEPT ![net.fd] = <<>>]

\* A unit was read.  A complete message goes to m_packageList; above the
\* quota it is deleted and the client is disconnected.
RecvUnit ==
  /\ net.pc = "recv" /\ net.fd < MAX_CONN
  /\ LET c    == fdConn[net.fd]
         pMsg == Append(m_recvMsgList[net.fd], <<c, conn[c].read + 1>>)
     IN  /\ Rx(c) > 0
         /\ conn' = [conn EXCEPT ![c].read = @ + 1]
         /\ \/ /\ Len(pMsg) < 2
               /\ m_recvMsgList' = [m_recvMsgList EXCEPT ![net.fd] = pMsg]
               /\ UNCHANGED <<queue, net>>
            \/ /\ Len(pMsg) = 2
               /\ EraseRecv
               /\ \/ List!Put(net.fd, pMsg) /\ AfterMessage
                  \/ /\ List!CountOf(queue, net.fd) > MaxPerSock
                     /\ UNCHANGED queue
                     /\ Goto("purge")
  /\ UNCHANGED <<backlog, fdConn, mask, ready, m_sendMsgList, batch, deal, handled>>

\* EAGAIN: everything has been read.  (Or a number OnRecv refuses.)
RecvAgain ==
  /\ net.pc = "recv"
  /\ net.fd < MAX_CONN => /\ Rx(fdConn[net.fd]) = 0
                          /\ conn[fdConn[net.fd]].peer = "up"
  /\ Goto("event")
  /\ UNCHANGED <<kernel, m_recvMsgList, m_sendMsgList, queue, batch, deal, handled>>

\* End of stream, or an error other than EAGAIN.
RecvEnd ==
  /\ net.pc = "recv" /\ net.fd < MAX_CONN
  /\ Rx(fdConn[net.fd]) = 0 /\ conn[fdConn[net.fd]].peer # "up"
  /\ EraseRecv
  /\ Goto("purge")
  /\ UNCHANGED <<kernel, m_sendMsgList, queue, batch, deal, handled>>

-----------------------------------------------------------------------------
(* Network thread: CloseConnect, in the three parts that other threads can *)
(* come between.  m_sendListMutex is held by the message thread exactly    *)
(* while it is about to call epoll_ctl in SendMsg.                         *)

SendListFree == deal.pc # "arm"

\* Which part follows which.
CloseNext_EraseFirst == [purge |-> "erase", erase |-> "close", close |-> "event"]
CloseNext == [purge |-> "close", close |-> "erase", erase |-> "event"]

\* m_packageList.DelMsg(sock)
DelMsg_Forgotten(sock) == UNCHANGED queue
DelMsg(sock) == List!Purge(sock)

\* epoll_ctl DEL, m_onClose and DelMsg.
ClosePurge ==
  /\ net.pc = "purge"
  /\ mask' = [mask EXCEPT ![net.fd] = {}]
  /\ ready' = ready \ {net.fd}
  /\ DelMsg(net.fd)
  /\ Goto(CloseNext["purge"])
  /\ UNCHANGED <<conn, backlog, fdConn, m_recvMsgList, m_sendMsgList, batch,
                 deal, handled>>

\* close(sock), without effect (EBADF) when it is not open.
CloseFd ==
  /\ net.pc = "close"
  /\ fdConn' = [fdConn EXCEPT ![net.fd] = NULL]
  /\ conn' = [c \in Conn |-> IF c = fdConn[net.fd]
                             THEN [conn[c] EXCEPT !.st = "closed", !.tx = <<>>]
                             ELSE conn[c]]
  /\ Goto(CloseNext["close"])
  /\ UNCHANGED <<backlog, mask, ready, m_recvMsgList, m_sendMsgList, queue,
                 batch, deal, handled>>

\* Lock, erase and delete what was still to be sent.
CloseErase ==
  /\ net.pc = "erase"
  /\ SendListFree
  /\ m_sendMsgList' = [m_sendMsgList EXCEPT ![net.fd] = <<>>]
  /\ Goto(CloseNext["erase"])
  /\ UNCHANGED <<kernel, m_recvMsgList, queue, batch, deal, handled>>

-----------------------------------------------------------------------------
(* Network thread: OnSend and accept.                                      *)

\* What OnSend does after Send, with what is left of the entry: when nothing
\* is, it erases the entry and gives EPOLLOUT up; otherwise it stays armed.
AfterSend_AlwaysUnarm(fd, rest) == CtlMod(fd, {"IN"})
AfterSend(fd, rest) ==
  IF rest = <<>> THEN CtlMod(fd, {"IN"}) ELSE UNCHANGED <<mask, ready>>

\* Send as much of the entry as the socket takes.
EventOut ==
  /\ net.pc = "event" /\ "OUT" \in net.ev /\ "IN" \notin net.ev
  /\ SendListFree
  /\ LET c    == fdConn[net.fd]
         msg  == m_sendMsgList[net.fd]
         room == IF c = NULL \/ conn[c].peer = "rst" THEN 0
                 ELSE TxCap - Len(conn[c].tx)
         n    == Min({room, Len(msg)})
         rest == SubSeq(msg, n + 1, Len(msg))
     IN  IF msg = <<>> THEN UNCHANGED <<conn, m_sendMsgList, mask, ready>>
         ELSE /\ conn' = [x \in Conn |->
                            IF x = c THEN [conn[x] EXCEPT !.tx = @ \o SubSeq(msg, 1, n)]
                            ELSE conn[x]]
              /\ m_sendMsgList' = [m_sendMsgList EXCEPT ![net.fd] = rest]
              /\ AfterSend(net.fd, rest)
  /\ net' = [net EXCEPT !.ev = @ \ {"OUT"}]
  /\ UNCHANGED <<backlog, fdConn, m_recvMsgList, queue, batch, deal, handled>>

FreeFds == {fd \in Fd : fdConn[fd] = NULL}

\* One accept: the lowest free descriptor, at once non-blocking and added to
\* epoll.  It is closed when its number is too high or AddEvent fails.
Accept ==
  /\ net.pc = "accept"
  /\ backlog # <<>> /\ FreeFds # {}
  /\ LET fd == Min(FreeFds)
         c  == Head(backlog)
     IN  \/ /\ fd < MAX_CONN
            /\ fdConn' = [fdConn EXCEPT ![fd] = c]
            /\ conn' = [conn EXCEPT ![c].st = "open"]
            /\ Ctl(fd, c, {"IN"})
         \/ /\ conn' = [conn EXCEPT ![c].st = "closed"]
            /\ UNCHANGED <<fdConn, mask, ready>>
  /\ backlog' = Tail(backlog)
  /\ UNCHANGED <<m_recvMsgList, m_sendMsgList, queue, net, batch, deal, handled>>

\* accept fails: nobody is waiting (EAGAIN), or no descriptor is left (EMFILE).
AcceptEnd ==
  /\ net.pc = "accept"
  /\ backlog = <<>> \/ FreeFds = {}
  /\ Goto("event")
  /\ UNCHANGED <<kernel, m_recvMsgList, m_sendMsgList, queue, batch, deal, handled>>

-----------------------------------------------------------------------------
(* Message thread: PackDeal.                                               *)

\* The client that sent the message in hand.
Sender == deal.pMsg[1][1]

GetMsg_NoPop ==
  /\ deal.pc = "call" /\ queue # <<>>
  /\ deal' = [pc |-> "ret", sock |-> queue[1].sock, pMsg |-> queue[1].pMsg]
  /\ UNCHANGED queue
GetMsg_Newest ==
  /\ deal.pc = "call" /\ queue # <<>>
  /\ LET n == Len(queue)
     IN  /\ deal' = [pc |-> "ret", sock |-> queue[n].sock, pMsg |-> queue[n].pMsg]
         /\ queue' = SubSeq(queue, 1, n - 1)
GetMsg == List!Get

GetPackage ==
  /\ GetMsg
  /\ UNCHANGED <<kernel, m_recvMsgList, m_sendMsgList, net, batch, handled>>

GotNull ==
  /\ deal.pMsg = NULL
  /\ List!Done
  /\ UNCHANGED <<kernel, m_recvMsgList, m_sendMsgList, net, batch, handled>>

\* Despatch finds no command for the type; the message is deleted.
DespatchUnknown ==
  /\ deal.pc = "ret" /\ deal.pMsg # NULL
  /\ handled' = [handled EXCEPT ![Sender] = @ + 1]
  /\ List!Done
  /\ UNCHANGED <<kernel, m_recvMsgList, m_sendMsgList, net, batch>>

\* EAGAIN in SendMsg: the events asked for while replies wait.
SendMask == {"IN", "OUT"}

\* PTL_Test and SendMsg up to its epoll_ctl: behind an entry the reply is
\* appended; otherwise it is sent, or kept on EAGAIN, or dropped on any other
\* error (the socket is closed or reset).
DespatchTest ==
  /\ deal.pc = "ret" /\ deal.pMsg # NULL
  /\ handled' = [handled EXCEPT ![Sender] = @ + 1]
  /\ LET fd == deal.sock
         c  == fdConn[fd]
     IN  \/ /\ m_sendMsgList[fd] # <<>>
            /\ m_sendMsgList' = [m_sendMsgList EXCEPT ![fd] = Append(@, Sender)]
            /\ List!Done
            /\ UNCHANGED conn
         \/ /\ m_sendMsgList[fd] = <<>>
            /\ c # NULL /\ conn[c].peer # "rst" /\ Len(conn[c].tx) < TxCap
            /\ conn' = [conn EXCEPT ![c].tx = Append(@, Sender)]
            /\ List!Done
            /\ UNCHANGED m_sendMsgList
         \/ /\ m_sendMsgList[fd] = <<>>
            /\ c # NULL /\ conn[c].peer # "rst" /\ Len(conn[c].tx) = TxCap
            /\ m_sendMsgList' = [m_sendMsgList EXCEPT ![fd] = <<Sender>>]
            /\ deal' = [deal EXCEPT !.pc = "arm"]
            /\ UNCHANGED <<conn, queue>>
         \/ /\ m_sendMsgList[fd] = <<>>
            /\ c = NULL \/ (c # NULL /\ conn[c].peer = "rst")
            /\ List!Done
            /\ UNCHANGED <<conn, m_sendMsgList>>
  /\ UNCHANGED <<backlog, fdConn, mask, ready, m_recvMsgList, net, batch>>

\* SendMsg's epoll_ctl; the lock ends, and PackDeal deletes the message.
SendArm ==
  /\ deal.pc = "arm"
  /\ CtlMod(deal.sock, SendMask)
  /\ deal' = [deal EXCEPT !.pc = "call", !.pMsg = NULL]
  /\ UNCHANGED <<conn, backlog, fdConn, m_recvMsgList, m_sendMsgList, queue,
                 net, batch, handled>>

-----------------------------------------------------------------------------
Init ==
  /\ conn = [c \in Conn |-> [st |-> "new", sent |-> 0, read |-> 0,
                             peer |-> "up", tx |-> <<>>]]
  /\ backlog = <<>>
  /\ fdConn = [fd \in Fd |-> NULL]
  /\ mask = [fd \in Fd |-> {}]
  /\ ready = {}
  /\ m_recvMsgList = [fd \in Fd |-> <<>>]
  /\ m_sendMsgList = [fd \in Fd |-> <<>>]
  /\ net = [pc |-> "wait", fd |-> Listener, ev |-> {}]
  /\ batch = [fd \in Fd \cup {Listener} |-> {}]
  /\ List!Init
  /\ handled = [c \in Conn |-> 0]

NetStep ==
  \/ EpollWait
  \/ \E fd \in Fd \cup {Listener} : NextEvent(fd)
  \/ BatchDone
  \/ EventIn \/ RecvUnit \/ RecvAgain \/ RecvEnd
  \/ EventOut
  \/ EventErr
  \/ ClosePurge \/ CloseFd \/ CloseErase
  \/ Accept \/ AcceptEnd

DealStep == GetPackage \/ GotNull \/ DespatchUnknown \/ DespatchTest \/ SendArm

Next == (\E c \in Conn : Client(c)) \/ NetStep \/ DealStep

Spec == Init /\ [][Next]_vars

\* Both threads loop for as long as the server runs, and a client that stays
\* connected reads what it is sent.  Nothing makes a client do anything else.
FairSpec ==
  /\ Spec
  /\ WF_vars(NetStep)
  /\ WF_vars(DealStep)
  /\ \A c \in Conn : WF_vars(ClientReads(c))

-----------------------------------------------------------------------------
TypeOK ==
  /\ conn \in [Conn -> [st : {"new", "backlog", "open", "closed"},
                        sent : 0..2 * NumMsg, read : 0..2 * NumMsg,
                        peer : {"up", "fin", "rst"}, tx : Seq(Conn)]]
  /\ \A c \in Conn : Len(conn[c].tx) <= TxCap /\ conn[c].read <= conn[c].sent
  /\ backlog \in Seq(Conn)
  /\ fdConn \in [Fd -> Conn \cup {NULL}]
  /\ mask \in [Fd -> SUBSET {"IN", "OUT"}]
  /\ ready \subseteq Fd \cup {Listener}
  /\ m_recvMsgList \in [Fd -> Seq(Unit)]
  /\ m_sendMsgList \in [Fd -> Seq(Conn)]
  /\ queue \in Seq([sock : Fd, pMsg : Message])
  /\ net \in [pc : {"wait", "event", "recv", "purge", "close", "erase", "accept"},
              fd : Fd \cup {Listener}, ev : SUBSET Events]
  /\ batch \in [Fd \cup {Listener} -> SUBSET Events]
  /\ deal \in [pc : {"call", "ret", "arm"}, sock : Fd \cup {NULL},
               pMsg : Message \cup {NULL}]
  /\ handled \in [Conn -> 0..NumMsg]

\* A descriptor number never carries bytes over from one client to the next:
\* what is half received under a number, or queued under it, came from the
\* client that has the number now.
BytesBelongToFd ==
  /\ \A fd \in Fd : \A i \in DOMAIN m_recvMsgList[fd] :
       m_recvMsgList[fd][i][1] = fdConn[fd]
  /\ \A i \in DOMAIN queue :
       \A k \in 1..2 : queue[i].pMsg[k][1] = fdConn[queue[i].sock]

\* A client's messages are framed right and taken in the order sent, each
\* once and none skipped, across any number of read events.
HandledInOrder ==
  [][deal.pMsg = NULL /\ deal'.pMsg # NULL =>
       LET c == deal'.pMsg[1][1]
       IN  deal'.pMsg = << <<c, 2 * handled[c] + 1>>, <<c, 2 * handled[c] + 2>> >>]_vars

\* Edge-triggered epoll reports readable data once: data that OnRecv has not
\* read yet is on the ready list, in the batch, or under OnRecv's loop.
NoLostReadEdge ==
  \A fd \in Fd :
    mask[fd] # {} /\ "IN" \in Poll(fdConn[fd]) =>
      \/ fd \in ready
      \/ "IN" \in batch[fd]
      \/ net.fd = fd /\ (net.pc \in {"recv", "purge"} \/ "IN" \in net.ev)

\* A reply that waits for room in the socket is woken when there is room:
\* EPOLLOUT is pending, in the batch, or about to be armed.
NoLostWriteEdge ==
  \A fd \in Fd :
    m_sendMsgList[fd] # <<>> /\ mask[fd] # {} /\ "OUT" \in Poll(fdConn[fd]) =>
      \/ fd \in ready /\ "OUT" \in mask[fd]
      \/ "OUT" \in batch[fd]
      \/ net.fd = fd /\ (net.pc = "purge" \/ "OUT" \in net.ev)
      \/ deal.pc = "arm" /\ deal.sock = fd

\* No edge that epoll reports once is lost while there is work for it: bytes
\* to read (DespatchEvent, OnRecv) or a reply to write (SendMsg, OnSend).
NoLostEdge == NoLostReadEdge /\ NoLostWriteEdge

\* Replies are kept only for a descriptor that is open, or that CloseConnect
\* is just about to clear: the next client with the number finds none.
NoLeftoverReply ==
  \A fd \in Fd :
    m_sendMsgList[fd] # <<>> =>
      fdConn[fd] # NULL \/ (net.fd = fd /\ net.pc = "erase")

\* A message that has arrived in full is taken by the message thread, unless
\* its client is disconnected.
MessageWaiting(c) == conn[c].st = "open" /\ conn[c].sent >= 2 * (handled[c] + 1)
MessageTaken == \A c \in Conn : MessageWaiting(c) ~> ~MessageWaiting(c)

\* A reply kept for EPOLLOUT leaves, unless its descriptor is closed.
ReplyLeaves == \A fd \in Fd : m_sendMsgList[fd] # <<>> ~> m_sendMsgList[fd] = <<>>

-----------------------------------------------------------------------------
(* What the program's comments say and the code does not do.               *)

\* const_define.h:18: the message thread is also responsible for returning
\* the reply of the message it handles - to the client that sent it.
ReplyReachesRequester ==
  \A c \in Conn : \A i \in DOMAIN conn[c].tx : conn[c].tx[i] = c

\* net_packdeal.h:16: OnSockClose is "connection closed".  CloseConnect, and
\* with it OnSockClose, is called for a connection that is open.
ClosesAnOpenSocket == net.pc = "purge" => fdConn[net.fd] # NULL
=============================================================================
