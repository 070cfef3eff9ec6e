------------------------------ MODULE MsgQueue ------------------------------
(***************************************************************************)
(* What CPackageList (net_packlist.h, net_packlist.cpp) promises to the    *)
(* two threads that share it, with no semaphore, lock or iterator: one     *)
(* FIFO of (socket, message) nodes.                                        *)
(*                                                                         *)
(* The network thread Puts a received message and Purges a closed socket;  *)
(* the message thread Gets the oldest node, and gets NULL exactly when the *)
(* queue is empty.  PackageList.tla is the thread-level code and is        *)
(* checked to implement this module; SocketServer.tla builds on it.        *)
(***************************************************************************)
EXTENDS Subsequence

CONSTANTS
  Sock,        \* socket numbers
  Msg,         \* message objects (NetMessage*)
  MaxPerSock,  \* the 200 of AddMsg
  NULL         \* the null pointer

VARIABLES
  queue,  \* m_msgList as its users see it
  deal    \* the message thread inside PackDeal: [pc, sock, pMsg]

absVars == <<queue, deal>>

MsgNode == [sock : Sock, pMsg : Msg]

\* The number of queued nodes of a socket (count_if with MsgEqual).
CountOf(list, sock) == Cardinality({i \in DOMAIN list : list[i].sock = sock})

\* The nodes that are left once those of a socket are gone.
Without(list, sock) == Keep(list, {i \in DOMAIN list : list[i].sock # sock})

-----------------------------------------------------------------------------
Init == /\ queue = <<>>
        /\ deal = [pc |-> "call", sock |-> NULL, pMsg |-> NULL]

\* A socket that already has more than MaxPerSock nodes is refused.
Put(sock, pMsg) ==
  /\ CountOf(queue, sock) <= MaxPerSock
  /\ queue' = Append(queue, [sock |-> sock, pMsg |-> pMsg])

Purge(sock) == queue' = Without(queue, sock)

\* GetMsg leaves the caller's sock alone when it returns NULL.
Get ==
  /\ deal.pc = "call"
  /\ IF queue = <<>>
     THEN /\ deal' = [deal EXCEPT !.pc = "ret", !.pMsg = NULL]
          /\ UNCHANGED queue
     ELSE /\ deal' = [pc |-> "ret", sock |-> Head(queue).sock,
                      pMsg |-> Head(queue).pMsg]
          /\ queue' = Tail(queue)

\* PackDeal has dispatched and deleted the message and asks for the next.
Done ==
  /\ deal.pc = "ret"
  /\ deal' = [deal EXCEPT !.pc = "call", !.pMsg = NULL]
  /\ UNCHANGED queue

Next ==
  \/ \E sock \in Sock, pMsg \in Msg : Put(sock, pMsg) /\ UNCHANGED deal
  \/ \E sock \in Sock : Purge(sock) /\ UNCHANGED deal
  \/ Get
  \/ Done

Spec == Init /\ [][Next]_absVars
=============================================================================
