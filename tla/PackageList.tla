----------------------------- MODULE PackageList -----------------------------
(***************************************************************************)
(* CPackageList (net_packlist.h, net_packlist.cpp), the list of received   *)
(* messages between the network thread and the message thread, at the      *)
(* level of its semaphore, its mutex and its list iterator.                *)
(*                                                                         *)
(* The network thread calls AddMsg (SocketServer::OnRecv) and DelMsg       *)
(* (SocketServer::CloseConnect), the message thread calls GetMsg           *)
(* (PServer::PackDeal).  GetMsg takes a permit of m_semphone WITHOUT the   *)
(* lock and only then locks and pops, AddMsg posts its permit after the    *)
(* push, and DelMsg erases nodes but leaves their permits behind, so the   *)
(* number of permits and the number of nodes go apart.                     *)
(***************************************************************************)
EXTENDS Subsequence, SequencesExt

CONSTANTS
  Sock,        \* socket numbers
  Msg,         \* message objects, each received once
  MaxPerSock,  \* the 200 of "num > 200"
  MaxClose,    \* bound: calls of DelMsg in a behaviour
  NULL         \* the null pointer

ASSUME ConstantsAssumption ==
  /\ MaxPerSock \in Nat
  /\ MaxClose \in Nat
  /\ NULL \notin Sock \cup Msg

VARIABLES
  m_msgList,    \* std::list<MsgNode>
  m_semphone,   \* interprocess_semaphore
  m_listMutex,  \* who holds the mutex
  net,          \* network thread: [pc, sock, i], i is DelMsg's iterator
  deal,         \* message thread: [pc, sock, pMsg]
  heap,         \* each message object: not yet received, live or deleted
  closes        \* calls of DelMsg so far

vars == <<m_msgList, m_semphone, m_listMutex, net, deal, heap, closes>>

MsgNode == [sock : Sock, pMsg : Msg]

CountOf(list, sock) == Cardinality({i \in DOMAIN list : list[i].sock = sock})

(***************************************************************************)
(* The expressions of the code the actions below are made of.  The         *)
(* operators named X_Mistake are not part of the model: each is X with a   *)
(* plausible mistake, to show that the properties notice it.               *)
(***************************************************************************)
\* num > 200
OverQuota_OneMore(sock) == CountOf(m_msgList, sock) > MaxPerSock + 1
OverQuota(sock) == CountOf(m_msgList, sock) > MaxPerSock

\* push_back
Pushed_Front(node) == <<node>> \o m_msgList
Pushed(node) == Append(m_msgList, node)

\* m_semphone.post()
Post_Forgotten == UNCHANGED m_semphone
Post == m_semphone' = m_semphone + 1

\* m_semphone.try_wait() finds a permit
HasPermit_AtZero == m_semphone >= 0
HasPermit == m_semphone > 0

\* m_msgList.erase(i)
Erased_Kept(i) == m_msgList
Erased(i) == RemoveAt(m_msgList, i)

\* i == m_msgList.end()
AtEnd_Early == net.i >= Len(m_msgList)
AtEnd == net.i > Len(m_msgList)

\* delete pMsg
Deleted(m) == [heap EXCEPT ![m] = "deleted"]

-----------------------------------------------------------------------------
Init ==
  /\ m_msgList = <<>>
  /\ m_semphone = 0
  /\ m_listMutex = "free"
  /\ net = [pc |-> "idle", sock |-> NULL, i |-> 1]
  /\ deal = [pc |-> "call", sock |-> NULL, pMsg |-> NULL]
  /\ heap = [m \in Msg |-> "new"]
  /\ closes = 0

(***************************************************************************)
(* Network thread.                                                         *)
(***************************************************************************)

\* Lock, count; above the quota the message is deleted and AddMsg is false,
\* otherwise it is pushed and the lock is kept until the post.
AddMsg(sock, pMsg) ==
  /\ net.pc = "idle"
  /\ m_listMutex = "free"
  /\ heap[pMsg] = "new"
  /\ IF OverQuota(sock)
     THEN /\ heap' = Deleted(pMsg)
          /\ UNCHANGED <<m_msgList, m_listMutex, net>>
     ELSE /\ heap' = [heap EXCEPT ![pMsg] = "live"]
          /\ m_msgList' = Pushed([sock |-> sock, pMsg |-> pMsg])
          /\ m_listMutex' = "net"
          /\ net' = [net EXCEPT !.pc = "post"]
  /\ UNCHANGED <<m_semphone, deal, closes>>

\* m_semphone.post(), then the scoped lock ends.
AddMsgPost ==
  /\ net.pc = "post"
  /\ Post
  /\ m_listMutex' = "free"
  /\ net' = [net EXCEPT !.pc = "idle"]
  /\ UNCHANGED <<m_msgList, deal, heap, closes>>

\* Lock and set the iterator to begin().
DelMsg(sock) ==
  /\ net.pc = "idle"
  /\ m_listMutex = "free"
  /\ closes < MaxClose
  /\ closes' = closes + 1
  /\ m_listMutex' = "net"
  /\ net' = [pc |-> "del", sock |-> sock, i |-> 1]
  /\ UNCHANGED <<m_msgList, m_semphone, deal, heap>>

\* One turn of the loop: delete and erase a node of the socket, or pass it.
DelMsgStep ==
  /\ net.pc = "del"
  /\ ~AtEnd
  /\ IF m_msgList[net.i].sock = net.sock
     THEN /\ heap' = Deleted(m_msgList[net.i].pMsg)
          /\ m_msgList' = Erased(net.i)
          /\ UNCHANGED net
     ELSE /\ net' = [net EXCEPT !.i = @ + 1]
          /\ UNCHANGED <<heap, m_msgList>>
  /\ UNCHANGED <<m_semphone, m_listMutex, deal, closes>>

\* i == end(): the lock ends.  No permit is taken back.
DelMsgEnd ==
  /\ net.pc = "del"
  /\ AtEnd
  /\ m_listMutex' = "free"
  /\ net' = [net EXCEPT !.pc = "idle"]
  /\ UNCHANGED <<m_msgList, m_semphone, deal, heap, closes>>

(***************************************************************************)
(* Message thread.                                                         *)
(***************************************************************************)

\* m_semphone.try_wait(): a permit, or usleep and return NULL.
GetMsgTryWait ==
  /\ deal.pc = "call"
  /\ IF HasPermit
     THEN /\ m_semphone' = m_semphone - 1
          /\ deal' = [deal EXCEPT !.pc = "permit"]
     ELSE /\ deal' = [deal EXCEPT !.pc = "ret"]
          /\ UNCHANGED m_semphone
  /\ UNCHANGED <<m_msgList, m_listMutex, net, heap, closes>>

\* Lock, pop the first node if there is one, unlock and return.
GetMsgPop ==
  /\ deal.pc = "permit"
  /\ m_listMutex = "free"
  /\ IF Len(m_msgList) > 0
     THEN /\ deal' = [pc |-> "ret", sock |-> Head(m_msgList).sock,
                      pMsg |-> Head(m_msgList).pMsg]
          /\ m_msgList' = Tail(m_msgList)
     ELSE /\ deal' = [deal EXCEPT !.pc = "ret"]
          /\ UNCHANGED m_msgList
  /\ UNCHANGED <<m_semphone, m_listMutex, net, heap, closes>>

\* PackDeal: dispatch and delete a message, do nothing with NULL; loop.
PackDeal ==
  /\ deal.pc = "ret"
  /\ heap' = IF deal.pMsg = NULL THEN heap ELSE Deleted(deal.pMsg)
  /\ deal' = [deal EXCEPT !.pc = "call", !.pMsg = NULL]
  /\ UNCHANGED <<m_msgList, m_semphone, m_listMutex, net, closes>>

-----------------------------------------------------------------------------
NetStep == AddMsgPost \/ DelMsgStep \/ DelMsgEnd
DealStep == GetMsgTryWait \/ GetMsgPop \/ PackDeal

Next ==
  \/ \E sock \in Sock, pMsg \in Msg : AddMsg(sock, pMsg)
  \/ \E sock \in Sock : DelMsg(sock)
  \/ NetStep
  \/ DealStep

Spec == Init /\ [][Next]_vars

\* A call that has begun ends, and PackDeal polls for as long as the server
\* runs.  Nothing makes the network thread call AddMsg or DelMsg.
FairSpec == Spec /\ WF_vars(NetStep) /\ WF_vars(DealStep)

-----------------------------------------------------------------------------
TypeOK ==
  /\ m_msgList \in Seq(MsgNode)
  /\ m_semphone \in Nat
  /\ m_listMutex \in {"free", "net"}
  /\ net \in [pc : {"idle", "post", "del"}, sock : Sock \cup {NULL},
              i : Nat \ {0}]
  /\ deal \in [pc : {"call", "permit", "ret"}, sock : Sock \cup {NULL},
               pMsg : Msg \cup {NULL}]
  /\ heap \in [Msg -> {"new", "live", "deleted"}]
  /\ closes \in 0..MaxClose

\* Every queued node can be reached by GetMsg: the nodes never outnumber the
\* permits, counting the one GetMsg holds between try_wait and the lock and
\* the one AddMsg is about to post.  (A push without a permit would strand a
\* message for good: GetMsg looks at the list only after a permit.)
PermitCoversQueue ==
  Len(m_msgList) <= m_semphone + (IF deal.pc = "permit" THEN 1 ELSE 0)
                               + (IF net.pc = "post" THEN 1 ELSE 0)

\* AddMsg's quota: no socket ever has more than MaxPerSock + 1 nodes queued
\* (the test is "num > 200" before the push), whatever GetMsg and DelMsg do.
QuotaPerSock == \A sock \in Sock : CountOf(m_msgList, sock) <= MaxPerSock + 1

\* Every message object is deleted by exactly one of AddMsg, DelMsg and
\* PackDeal: a queued message is live, queued once and not also in the hands
\* of the message thread, and the message thread's is live.
OneOwner ==
  /\ \A i \in DOMAIN m_msgList :
       /\ heap[m_msgList[i].pMsg] = "live"
       /\ m_msgList[i].pMsg # deal.pMsg
       /\ \A j \in DOMAIN m_msgList :
            m_msgList[i].pMsg = m_msgList[j].pMsg => i = j
  /\ deal.pMsg # NULL => heap[deal.pMsg] = "live"

\* No live message is forgotten (leaked): it is queued or being dealt with.
NoLeak ==
  \A m \in Msg :
    heap[m] = "live" => \/ m = deal.pMsg
                        \/ \E i \in DOMAIN m_msgList : m_msgList[i].pMsg = m

\* From AddMsg to its delete every message has exactly one owner: the list or
\* the message thread.
OwnedOnce == OneOwner /\ NoLeak

\* When CloseConnect's DelMsg unlocks, no node of the closed socket is left:
\* the next connection with that number does not find them.
PurgeIsComplete ==
  [][net.pc = "del" /\ net'.pc # "del" => CountOf(m_msgList', net.sock) = 0]_vars

\* GetMsg returns NULL only when there is nothing to return: the list is
\* empty, or its only node belongs to an AddMsg that has not returned yet.
NullMeansEmpty ==
  [][deal.pc # "ret" /\ deal'.pc = "ret" /\ deal'.pMsg = NULL
       => Len(m_msgList) <= (IF net.pc = "post" THEN 1 ELSE 0)]_vars

\* A queued message is eventually taken or purged, stale permits or not.
QueuedIsServed ==
  \A m \in Msg : (\E i \in DOMAIN m_msgList : m_msgList[i].pMsg = m)
                   ~> ~(\E i \in DOMAIN m_msgList : m_msgList[i].pMsg = m)

-----------------------------------------------------------------------------
(***************************************************************************)
(* The list as its users see it: a push counts from its post on, a purge   *)
(* as soon as DelMsg has the lock, and a permit is invisible.              *)
(***************************************************************************)
SeenQueue ==
  CASE net.pc = "post" -> Front(m_msgList)
    [] net.pc = "del"  -> Keep(m_msgList, {i \in DOMAIN m_msgList :
                                             m_msgList[i].sock # net.sock})
    [] OTHER           -> m_msgList

SeenDeal == [deal EXCEPT !.pc = IF @ = "permit" THEN "call" ELSE @]

Abs == INSTANCE MsgQueue WITH queue <- SeenQueue, deal <- SeenDeal

\* With its semaphore, lock and loop CPackageList behaves as one FIFO.
ImplementsMsgQueue == Abs!Spec
=============================================================================
