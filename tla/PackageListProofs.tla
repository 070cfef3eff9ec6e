-------------------------- MODULE PackageListProofs --------------------------
(***************************************************************************)
(* Proofs about PackageList.tla, for any sets of sockets and messages and  *)
(* any quota: its typing, its invariants, its two action properties, and   *)
(* that it implements MsgQueue.                                            *)
(*                                                                         *)
(* The invariants are not inductive alone.  IInv adds what the lock and    *)
(* the two program counters guarantee: the network thread holds the mutex  *)
(* exactly while a call is in progress, GetMsg holds no message before it  *)
(* returns, and DelMsg's iterator has only passed nodes of other sockets.  *)
(***************************************************************************)
EXTENDS PackageList, SequenceTheorems, FiniteSetTheorems, TLAPS

\* The mutex belongs to the network thread exactly during AddMsg and DelMsg.
LockHeld == m_listMutex = "net" <=> net.pc # "idle"

\* The message thread holds a message only between GetMsg and its deletion.
EmptyHanded == deal.pc # "ret" => deal.pMsg = NULL

\* DelMsg's loop invariant: nothing of the socket is left behind its iterator.
LoopPassed ==
  net.pc = "del" =>
    /\ net.i <= Len(m_msgList) + 1
    /\ \A k \in 1..Len(m_msgList) : k < net.i => m_msgList[k].sock # net.sock

IInv == /\ TypeOK
        /\ LockHeld
        /\ EmptyHanded
        /\ LoopPassed
        /\ PermitCoversQueue
        /\ OneOwner
        /\ NoLeak

-----------------------------------------------------------------------------
(* What std::list::erase and pop_front leave.                              *)

\* Erasing position i keeps the nodes before it and moves up those after it.
LEMMA RemoveAtProperties ==
  ASSUME NEW S, NEW s \in Seq(S), NEW i \in 1..Len(s)
  PROVE  /\ RemoveAt(s, i) \in Seq(S)
         /\ Len(RemoveAt(s, i)) = Len(s) - 1
         /\ \A k \in 1..(Len(s) - 1) :
              RemoveAt(s, i)[k] = IF k < i THEN s[k] ELSE s[k + 1]
<1> DEFINE a == SubSeq(s, 1, i - 1)
           b == SubSeq(s, i + 1, Len(s))
<1>0. Len(s) \in Nat /\ i \in Int /\ \A k \in 1..Len(s) : s[k] \in S
  BY ElementOfSeq, LenProperties
<1>1. /\ a \in Seq(S)
      /\ Len(a) = i - 1
      /\ \A k \in 1..(i - 1) : a[k] = s[k]
  BY <1>0, SubSeqProperties
<1>2. /\ b \in Seq(S)
      /\ Len(b) = Len(s) - i
      /\ \A k \in 1..(Len(s) - i) : b[k] = s[k + i]
  BY <1>0, SubSeqProperties
<1>3. /\ a \o b \in Seq(S)
      /\ Len(a \o b) = Len(s) - 1
      /\ \A k \in 1..(Len(s) - 1) :
           (a \o b)[k] = IF k <= i - 1 THEN a[k] ELSE b[k - (i - 1)]
  <2> HIDE DEF a, b
  <2>1. /\ a \o b \in Seq(S)
        /\ Len(a \o b) = Len(a) + Len(b)
        /\ \A k \in 1..(Len(a) + Len(b)) :
             (a \o b)[k] = IF k <= Len(a) THEN a[k] ELSE b[k - Len(a)]
    BY <1>1, <1>2, ConcatProperties
  <2>2. Len(a) + Len(b) = Len(s) - 1
    BY <1>0, <1>1, <1>2
  <2> QED BY <2>1, <2>2, <1>1
<1>4. \A k \in 1..(Len(s) - 1) : (a \o b)[k] = IF k < i THEN s[k] ELSE s[k + 1]
  <2> HIDE DEF a, b
  <2> SUFFICES ASSUME NEW k \in 1..(Len(s) - 1)
               PROVE  (a \o b)[k] = IF k < i THEN s[k] ELSE s[k + 1]
    OBVIOUS
  <2>1. CASE k < i
    BY <2>1, <1>0, <1>1, <1>3
  <2>2. CASE ~(k < i)
    <3>1. k - (i - 1) \in 1..(Len(s) - i) /\ (k - (i - 1)) + i = k + 1
      BY <2>2, <1>0
    <3> QED BY <3>1, <2>2, <1>0, <1>2, <1>3
  <2> QED BY <2>1, <2>2
<1> QED BY <1>3, <1>4 DEF RemoveAt

-----------------------------------------------------------------------------
\* The state keeps its shape: every queued node is a socket and a message,
\* and the semaphore never goes below zero.
LEMMA TypeInit == Init => TypeOK
<1> SUFFICES ASSUME Init PROVE TypeOK
  OBVIOUS
<1>1. m_msgList \in Seq(MsgNode)
  BY EmptySeq DEF Init
<1> QED BY <1>1, ConstantsAssumption DEF Init, TypeOK

LEMMA TypeNext == TypeOK /\ [Next]_vars => TypeOK'
<1> SUFFICES ASSUME TypeOK, [Next]_vars PROVE TypeOK'
  OBVIOUS
<1> USE DEF TypeOK
<1>1. ASSUME NEW sock \in Sock, NEW pMsg \in Msg, AddMsg(sock, pMsg)
      PROVE  TypeOK'
  <2>1. [sock |-> sock, pMsg |-> pMsg] \in MsgNode
    BY DEF MsgNode
  <2>2. m_msgList' \in Seq(MsgNode)
    <3>1. \/ m_msgList' = m_msgList
          \/ m_msgList' = Append(m_msgList, [sock |-> sock, pMsg |-> pMsg])
      BY <1>1 DEF AddMsg, Pushed
    <3>2. Append(m_msgList, [sock |-> sock, pMsg |-> pMsg]) \in Seq(MsgNode)
      BY <2>1, AppendProperties
    <3> QED BY <3>1, <3>2
  <2>3. heap' \in [Msg -> {"new", "live", "deleted"}]
    BY <1>1 DEF AddMsg, Deleted
  <2>4. net' \in [pc : {"idle", "post", "del"}, sock : Sock \cup {NULL}, i : Nat \ {0}]
    BY <1>1 DEF AddMsg
  <2>5. /\ m_listMutex' \in {"free", "net"}
        /\ UNCHANGED <<m_semphone, deal, closes>>
    BY <1>1 DEF AddMsg
  <2> QED BY <2>2, <2>3, <2>4, <2>5
<1>2. CASE AddMsgPost
  BY <1>2 DEF AddMsgPost, Post
<1>3. ASSUME NEW sock \in Sock, DelMsg(sock)
      PROVE  TypeOK'
  BY <1>3, ConstantsAssumption DEF DelMsg
<1>4. CASE DelMsgStep
  <2>1. net.i \in 1..Len(m_msgList)
    BY <1>4, LenProperties DEF DelMsgStep, AtEnd
  <2>2. m_msgList' \in Seq(MsgNode)
    BY <1>4, <2>1, RemoveAtProperties DEF DelMsgStep, Erased
  <2> QED BY <1>4, <2>1, <2>2 DEF DelMsgStep, Deleted
<1>5. CASE DelMsgEnd
  BY <1>5 DEF DelMsgEnd
<1>6. CASE GetMsgTryWait
  BY <1>6 DEF GetMsgTryWait, HasPermit
<1>7. CASE GetMsgPop
  <2>1. CASE Len(m_msgList) > 0
    <3>1. m_msgList # <<>>
      BY <2>1, EmptySeq
    <3>2. Head(m_msgList) \in MsgNode /\ Tail(m_msgList) \in Seq(MsgNode)
      BY <3>1, HeadTailProperties
    <3>3. Head(m_msgList).sock \in Sock /\ Head(m_msgList).pMsg \in Msg
      BY <3>2 DEF MsgNode
    <3>4. /\ deal' = [pc |-> "ret", sock |-> Head(m_msgList).sock,
                      pMsg |-> Head(m_msgList).pMsg]
          /\ m_msgList' = Tail(m_msgList)
          /\ UNCHANGED <<m_semphone, m_listMutex, net, heap, closes>>
      BY <1>7, <2>1 DEF GetMsgPop
    <3> HIDE DEF MsgNode
    <3> QED BY <3>2, <3>3, <3>4
  <2>2. CASE ~(Len(m_msgList) > 0)
    BY <1>7, <2>2 DEF GetMsgPop
  <2> QED BY <2>1, <2>2
<1>8. CASE PackDeal
  BY <1>8 DEF PackDeal, Deleted
<1>9. CASE UNCHANGED vars
  BY <1>9 DEF vars
<1> QED BY <1>1, <1>2, <1>3, <1>4, <1>5, <1>6, <1>7, <1>8, <1>9
        DEF Next, NetStep, DealStep

\* PackageList is well typed.
THEOREM TypeCorrect == Spec => []TypeOK
BY TypeInit, TypeNext, PTL DEF Spec

-----------------------------------------------------------------------------
(* The strengthened invariant.                                             *)

LEMMA IInvInit == Init => IInv
<1> SUFFICES ASSUME Init PROVE IInv
  OBVIOUS
<1>1. TypeOK
  BY TypeInit
<1>2. Len(m_msgList) = 0 /\ DOMAIN m_msgList = {}
  BY DEF Init
<1>3. LockHeld /\ EmptyHanded /\ LoopPassed /\ PermitCoversQueue
  BY <1>2 DEF Init, LockHeld, EmptyHanded, LoopPassed, PermitCoversQueue
<1>4. OneOwner /\ NoLeak
  BY <1>2 DEF Init, OneOwner, NoLeak
<1> QED BY <1>1, <1>3, <1>4 DEF IInv

LEMMA LockHeldNext == IInv /\ [Next]_vars => LockHeld'
<1> SUFFICES ASSUME IInv, [Next]_vars PROVE LockHeld'
  OBVIOUS
<1> USE DEF IInv, TypeOK, LockHeld
<1>1. ASSUME NEW sock \in Sock, NEW pMsg \in Msg, AddMsg(sock, pMsg)
      PROVE  LockHeld'
  BY <1>1 DEF AddMsg
<1>2. CASE AddMsgPost
  BY <1>2 DEF AddMsgPost
<1>3. ASSUME NEW sock \in Sock, DelMsg(sock)
      PROVE  LockHeld'
  BY <1>3 DEF DelMsg
<1>4. CASE DelMsgStep
  BY <1>4 DEF DelMsgStep
<1>5. CASE DelMsgEnd
  BY <1>5 DEF DelMsgEnd
<1>6. CASE DealStep
  BY <1>6 DEF DealStep, GetMsgTryWait, GetMsgPop, PackDeal
<1>7. CASE UNCHANGED vars
  BY <1>7 DEF vars
<1> QED BY <1>1, <1>2, <1>3, <1>4, <1>5, <1>6, <1>7 DEF Next, NetStep

LEMMA EmptyHandedNext == IInv /\ [Next]_vars => EmptyHanded'
<1> SUFFICES ASSUME IInv, [Next]_vars PROVE EmptyHanded'
  OBVIOUS
<1> USE DEF IInv, TypeOK, EmptyHanded
<1>1. CASE UNCHANGED deal
  BY <1>1
<1>2. CASE GetMsgTryWait
  BY <1>2 DEF GetMsgTryWait
<1>3. CASE GetMsgPop
  BY <1>3 DEF GetMsgPop
<1>4. CASE PackDeal
  BY <1>4 DEF PackDeal
<1> QED BY <1>1, <1>2, <1>3, <1>4
        DEF Next, NetStep, DealStep, vars, AddMsg, AddMsgPost, DelMsg,
            DelMsgStep, DelMsgEnd

LEMMA LoopPassedNext == IInv /\ [Next]_vars => LoopPassed'
<1> SUFFICES ASSUME IInv, [Next]_vars PROVE LoopPassed'
  OBVIOUS
<1> USE DEF IInv, TypeOK
<1>0. Len(m_msgList) \in Nat
  BY LenProperties
<1>1. ASSUME NEW sock \in Sock, NEW pMsg \in Msg, AddMsg(sock, pMsg)
      PROVE  LoopPassed'
  BY <1>1 DEF AddMsg, LoopPassed
<1>2. CASE AddMsgPost
  BY <1>2 DEF AddMsgPost, LoopPassed
<1>3. ASSUME NEW sock \in Sock, DelMsg(sock)
      PROVE  LoopPassed'
  BY <1>0, <1>3 DEF DelMsg, LoopPassed
<1>4. CASE DelMsgStep
  <2>0. net.i \in 1..Len(m_msgList)
    BY <1>0, <1>4 DEF DelMsgStep, AtEnd
  <2>1. CASE m_msgList[net.i].sock = net.sock
    <3>1. /\ Len(m_msgList') = Len(m_msgList) - 1
          /\ \A k \in 1..(Len(m_msgList) - 1) :
               k < net.i => m_msgList'[k] = m_msgList[k]
          /\ UNCHANGED net
      BY <2>0, <2>1, <1>4, RemoveAtProperties DEF DelMsgStep, Erased
    <3> QED BY <3>1, <2>0, <1>0 DEF LoopPassed
  <2>2. CASE m_msgList[net.i].sock # net.sock
    <3>1. UNCHANGED m_msgList /\ net' = [net EXCEPT !.i = @ + 1]
      BY <2>2, <1>4 DEF DelMsgStep
    <3> QED BY <3>1, <2>0, <2>2, <1>0 DEF LoopPassed
  <2> QED BY <2>1, <2>2
<1>5. CASE DelMsgEnd
  BY <1>5 DEF DelMsgEnd, LoopPassed
<1>6. CASE GetMsgPop
  BY <1>6 DEF GetMsgPop, LoopPassed, LockHeld
<1>7. CASE GetMsgTryWait \/ PackDeal \/ UNCHANGED vars
  BY <1>7 DEF GetMsgTryWait, PackDeal, vars, LoopPassed
<1> QED BY <1>1, <1>2, <1>3, <1>4, <1>5, <1>6, <1>7
        DEF Next, NetStep, DealStep

LEMMA PermitNext == IInv /\ [Next]_vars => PermitCoversQueue'
<1> SUFFICES ASSUME IInv, [Next]_vars PROVE PermitCoversQueue'
  OBVIOUS
<1> USE DEF IInv, TypeOK, PermitCoversQueue
<1>0. Len(m_msgList) \in Nat
  BY LenProperties
<1>1. ASSUME NEW sock \in Sock, NEW pMsg \in Msg, AddMsg(sock, pMsg)
      PROVE  PermitCoversQueue'
  <2>1. [sock |-> sock, pMsg |-> pMsg] \in MsgNode
    BY DEF MsgNode
  <2>2. Len(Pushed([sock |-> sock, pMsg |-> pMsg])) = Len(m_msgList) + 1
    BY <2>1, AppendProperties DEF Pushed
  <2>3. CASE OverQuota(sock)
    BY <2>3, <1>1, <1>0 DEF AddMsg
  <2>4. CASE ~OverQuota(sock)
    BY <2>2, <2>4, <1>1, <1>0 DEF AddMsg
  <2> QED BY <2>3, <2>4
<1>2. CASE AddMsgPost
  BY <1>0, <1>2 DEF AddMsgPost, Post
<1>3. ASSUME NEW sock \in Sock, DelMsg(sock)
      PROVE  PermitCoversQueue'
  BY <1>0, <1>3 DEF DelMsg
<1>4. CASE DelMsgStep
  <2>0. net.i \in 1..Len(m_msgList)
    BY <1>0, <1>4 DEF DelMsgStep, AtEnd
  <2>1. Len(Erased(net.i)) = Len(m_msgList) - 1
    BY <2>0, RemoveAtProperties DEF Erased
  <2> QED BY <2>1, <1>0, <1>4 DEF DelMsgStep
<1>5. CASE DelMsgEnd
  BY <1>0, <1>5 DEF DelMsgEnd
<1>6. CASE GetMsgTryWait
  BY <1>0, <1>6 DEF GetMsgTryWait, HasPermit
<1>7. CASE GetMsgPop
  <2>1. CASE Len(m_msgList) > 0
    <3>1. Len(Tail(m_msgList)) = Len(m_msgList) - 1
      BY <2>1, EmptySeq, HeadTailProperties
    <3> QED BY <3>1, <2>1, <1>0, <1>7 DEF GetMsgPop
  <2>2. CASE ~(Len(m_msgList) > 0)
    BY <2>2, <1>0, <1>7 DEF GetMsgPop
  <2> QED BY <2>1, <2>2
<1>8. CASE PackDeal
  BY <1>0, <1>8 DEF PackDeal
<1>9. CASE UNCHANGED vars
  BY <1>0, <1>9 DEF vars
<1> QED BY <1>1, <1>2, <1>3, <1>4, <1>5, <1>6, <1>7, <1>8, <1>9
        DEF Next, NetStep, DealStep

\* A new message goes to the back, an erased or popped one leaves the others
\* in the queue, each once: what the next two lemmas need of the three lists.
LEMMA PushedQueue ==
  ASSUME TypeOK, NEW sock \in Sock, NEW pMsg \in Msg,
         m_msgList' = Pushed([sock |-> sock, pMsg |-> pMsg])
  PROVE  /\ DOMAIN m_msgList = 1..Len(m_msgList)
         /\ DOMAIN m_msgList' = 1..(Len(m_msgList) + 1)
         /\ \A i \in DOMAIN m_msgList : m_msgList'[i] = m_msgList[i]
         /\ m_msgList'[Len(m_msgList) + 1].pMsg = pMsg
<1> DEFINE node == [sock |-> sock, pMsg |-> pMsg]
<1>1. node \in MsgNode /\ node.pMsg = pMsg
  BY DEF MsgNode
<1>2. m_msgList \in Seq(MsgNode)
  BY DEF TypeOK
<1>3. m_msgList' = Append(m_msgList, node)
  BY DEF Pushed
<1> HIDE DEF node
<1>4. /\ m_msgList' \in Seq(MsgNode)
      /\ Len(m_msgList') = Len(m_msgList) + 1
      /\ \A i \in 1..Len(m_msgList) : m_msgList'[i] = m_msgList[i]
      /\ m_msgList'[Len(m_msgList) + 1] = node
  BY <1>1, <1>2, <1>3, AppendProperties
<1> QED BY <1>1, <1>2, <1>4, LenProperties

LEMMA ErasedQueue ==
  ASSUME TypeOK, NEW e \in 1..Len(m_msgList), m_msgList' = Erased(e)
  PROVE  /\ Len(m_msgList) \in Nat
         /\ DOMAIN m_msgList = 1..Len(m_msgList)
         /\ DOMAIN m_msgList' = 1..(Len(m_msgList) - 1)
         /\ \A k \in DOMAIN m_msgList' :
              m_msgList'[k] = IF k < e THEN m_msgList[k] ELSE m_msgList[k + 1]
<1>1. m_msgList \in Seq(MsgNode)
  BY DEF TypeOK
<1>2. /\ m_msgList' \in Seq(MsgNode)
      /\ Len(m_msgList') = Len(m_msgList) - 1
      /\ \A k \in 1..(Len(m_msgList) - 1) :
           m_msgList'[k] = IF k < e THEN m_msgList[k] ELSE m_msgList[k + 1]
  BY <1>1, RemoveAtProperties DEF Erased
<1> QED BY <1>1, <1>2, LenProperties

LEMMA PoppedQueue ==
  ASSUME TypeOK, Len(m_msgList) > 0, m_msgList' = Tail(m_msgList)
  PROVE  /\ Len(m_msgList) \in Nat
         /\ DOMAIN m_msgList = 1..Len(m_msgList)
         /\ DOMAIN m_msgList' = 1..(Len(m_msgList) - 1)
         /\ \A k \in DOMAIN m_msgList' : m_msgList'[k] = m_msgList[k + 1]
         /\ Head(m_msgList) = m_msgList[1]
         /\ m_msgList[1].pMsg \in Msg
<1>1. m_msgList \in Seq(MsgNode) /\ m_msgList # <<>>
  BY EmptySeq DEF TypeOK
<1>2. /\ m_msgList' \in Seq(MsgNode)
      /\ Len(m_msgList') = Len(m_msgList) - 1
      /\ \A k \in 1..Len(m_msgList') : m_msgList'[k] = m_msgList[k + 1]
  BY <1>1, HeadTailProperties
<1>3. Len(m_msgList) \in Nat /\ m_msgList[1] \in MsgNode
  BY <1>1, LenProperties, ElementOfSeq
<1>4. m_msgList[1].pMsg \in Msg
  BY <1>3 DEF MsgNode
<1>5. Head(m_msgList) = m_msgList[1]
  BY <1>1
<1> QED BY <1>1, <1>2, <1>3, <1>4, <1>5, LenProperties

\* A queued node's message is a message.
LEMMA QueuedIsMsg ==
  ASSUME TypeOK, NEW i \in DOMAIN m_msgList
  PROVE  m_msgList[i].pMsg \in Msg
<1>1. m_msgList[i] \in MsgNode
  BY LenProperties, ElementOfSeq DEF TypeOK
<1> QED BY <1>1 DEF MsgNode

LEMMA OneOwnerNext == IInv /\ [Next]_vars => OneOwner'
<1> SUFFICES ASSUME IInv, [Next]_vars PROVE OneOwner'
  OBVIOUS
<1>0. /\ TypeOK
      /\ OneOwner
      /\ heap \in [Msg -> {"new", "live", "deleted"}]
      /\ deal.pMsg \in Msg \cup {NULL}
      /\ NULL \notin Msg
      /\ Len(m_msgList) \in Nat
      /\ DOMAIN m_msgList = 1..Len(m_msgList)
  BY LenProperties, ConstantsAssumption DEF IInv, TypeOK
<1>1. ASSUME NEW sock \in Sock, NEW pMsg \in Msg, AddMsg(sock, pMsg)
      PROVE  OneOwner'
  <2>1. heap[pMsg] = "new" /\ UNCHANGED deal
    BY <1>1 DEF AddMsg
  <2>2. pMsg # deal.pMsg
    BY <2>1, <1>0 DEF OneOwner
  <2>3. \A i \in DOMAIN m_msgList : m_msgList[i].pMsg # pMsg
    BY <2>1, <1>0 DEF OneOwner
  <2>4. CASE OverQuota(sock)
    <3>1. UNCHANGED m_msgList /\ heap' = [heap EXCEPT ![pMsg] = "deleted"]
      BY <2>4, <1>1 DEF AddMsg, Deleted
    <3> QED BY <3>1, <2>1, <2>2, <2>3, <1>0, QueuedIsMsg DEF OneOwner
  <2>5. CASE ~OverQuota(sock)
    <3>1. /\ heap' = [heap EXCEPT ![pMsg] = "live"]
          /\ m_msgList' = Pushed([sock |-> sock, pMsg |-> pMsg])
      BY <2>5, <1>1 DEF AddMsg
    <3>2. /\ DOMAIN m_msgList' = 1..(Len(m_msgList) + 1)
          /\ \A i \in DOMAIN m_msgList : m_msgList'[i] = m_msgList[i]
          /\ m_msgList'[Len(m_msgList) + 1].pMsg = pMsg
      BY <3>1, <1>0, PushedQueue
    <3>3. \A i \in DOMAIN m_msgList' : i = Len(m_msgList) + 1 \/ i \in DOMAIN m_msgList
      BY <3>2, <1>0
    <3>4. \A i \in DOMAIN m_msgList' : /\ heap'[m_msgList'[i].pMsg] = "live"
                                       /\ m_msgList'[i].pMsg # deal'.pMsg
      BY <3>1, <3>2, <3>3, <2>1, <2>2, <2>3, <1>0, QueuedIsMsg DEF OneOwner
    <3>5. \A i, j \in DOMAIN m_msgList' :
            m_msgList'[i].pMsg = m_msgList'[j].pMsg => i = j
      BY <3>2, <3>3, <2>3, <1>0 DEF OneOwner
    <3>6. deal'.pMsg # NULL => heap'[deal'.pMsg] = "live"
      BY <3>1, <2>1, <2>2, <1>0 DEF OneOwner
    <3> QED BY <3>4, <3>5, <3>6 DEF OneOwner
  <2> QED BY <2>4, <2>5
<1>2. CASE DelMsgStep
  <2>0. net.i \in 1..Len(m_msgList) /\ UNCHANGED deal
    BY <1>0, <1>2 DEF DelMsgStep, AtEnd, TypeOK
  <2>1. CASE m_msgList[net.i].sock = net.sock
    <3>1. /\ heap' = [heap EXCEPT ![m_msgList[net.i].pMsg] = "deleted"]
          /\ m_msgList' = Erased(net.i)
      BY <2>1, <1>2 DEF DelMsgStep, Deleted
    <3>2. /\ DOMAIN m_msgList' = 1..(Len(m_msgList) - 1)
          /\ \A k \in DOMAIN m_msgList' :
               m_msgList'[k] = IF k < net.i THEN m_msgList[k] ELSE m_msgList[k + 1]
      BY <3>1, <2>0, <1>0, ErasedQueue
    <3>3. \A k \in DOMAIN m_msgList' :
            \E i \in DOMAIN m_msgList :
              /\ i # net.i
              /\ i = (IF k < net.i THEN k ELSE k + 1)
              /\ m_msgList'[k] = m_msgList[i]
      BY <3>2, <2>0, <1>0
    <3>4. \A i \in DOMAIN m_msgList : i # net.i =>
            m_msgList[i].pMsg # m_msgList[net.i].pMsg
      BY <2>0, <1>0 DEF OneOwner
    <3>5. \A k \in DOMAIN m_msgList' : /\ heap'[m_msgList'[k].pMsg] = "live"
                                       /\ m_msgList'[k].pMsg # deal'.pMsg
      BY <3>1, <3>3, <3>4, <2>0, <1>0, QueuedIsMsg DEF OneOwner
    <3>6. \A k, l \in DOMAIN m_msgList' :
            m_msgList'[k].pMsg = m_msgList'[l].pMsg => k = l
      <4> SUFFICES ASSUME NEW k \in DOMAIN m_msgList', NEW l \in DOMAIN m_msgList',
                          m_msgList'[k].pMsg = m_msgList'[l].pMsg
                   PROVE  k = l
        OBVIOUS
      <4>1. PICK i \in DOMAIN m_msgList : /\ i = (IF k < net.i THEN k ELSE k + 1)
                                          /\ m_msgList'[k] = m_msgList[i]
        BY <3>3
      <4>2. PICK j \in DOMAIN m_msgList : /\ j = (IF l < net.i THEN l ELSE l + 1)
                                          /\ m_msgList'[l] = m_msgList[j]
        BY <3>3
      <4>3. i = j
        BY <4>1, <4>2, <1>0 DEF OneOwner
      <4> QED BY <4>1, <4>2, <4>3, <3>2, <2>0, <1>0
    <3>7. deal'.pMsg # NULL => heap'[deal'.pMsg] = "live"
      BY <3>1, <2>0, <1>0, QueuedIsMsg DEF OneOwner
    <3> QED BY <3>5, <3>6, <3>7 DEF OneOwner
  <2>2. CASE m_msgList[net.i].sock # net.sock
    BY <2>0, <2>2, <1>0, <1>2 DEF DelMsgStep, OneOwner
  <2> QED BY <2>1, <2>2
<1>3. CASE GetMsgPop
  <2>1. UNCHANGED heap
    BY <1>3 DEF GetMsgPop
  <2>2. CASE Len(m_msgList) > 0
    <3>1. /\ m_msgList' = Tail(m_msgList)
          /\ deal'.pMsg = Head(m_msgList).pMsg
      BY <2>2, <1>3 DEF GetMsgPop
    <3>2. /\ DOMAIN m_msgList' = 1..(Len(m_msgList) - 1)
          /\ \A k \in DOMAIN m_msgList' : m_msgList'[k] = m_msgList[k + 1]
          /\ deal'.pMsg = m_msgList[1].pMsg
      BY <3>1, <2>2, <1>0, PoppedQueue
    <3>3. \A k \in DOMAIN m_msgList' : /\ k + 1 \in DOMAIN m_msgList
                                       /\ k + 1 # 1
      BY <3>2, <1>0
    <3>4. 1 \in DOMAIN m_msgList
      BY <2>2, <1>0
    <3>5. \A k, l \in DOMAIN m_msgList' : k + 1 = l + 1 => k = l
      BY <3>2, <1>0
    <3> QED BY <3>2, <3>3, <3>4, <3>5, <2>1, <1>0 DEF OneOwner
  <2>3. CASE ~(Len(m_msgList) > 0)
    BY <2>1, <2>3, <1>0, <1>3 DEF GetMsgPop, OneOwner, TypeOK
  <2> QED BY <2>2, <2>3
<1>4. CASE PackDeal
  <2>1. UNCHANGED m_msgList /\ deal'.pMsg = NULL
    BY <1>4, <1>0 DEF PackDeal, TypeOK
  <2>2. \A i \in DOMAIN m_msgList : heap'[m_msgList[i].pMsg] = "live"
    BY <1>4, <1>0, QueuedIsMsg DEF PackDeal, Deleted, OneOwner
  <2>3. \A i \in DOMAIN m_msgList : m_msgList[i].pMsg # NULL
    BY <1>0, QueuedIsMsg
  <2> QED BY <2>1, <2>2, <2>3, <1>0 DEF OneOwner
<1>5. CASE GetMsgTryWait
  BY <1>5, <1>0 DEF GetMsgTryWait, OneOwner, TypeOK
<1>6. CASE UNCHANGED <<m_msgList, deal, heap>>
  BY <1>6, <1>0 DEF OneOwner
<1> QED BY <1>1, <1>2, <1>3, <1>4, <1>5, <1>6
        DEF Next, NetStep, DealStep, vars, AddMsgPost, DelMsg, DelMsgEnd

LEMMA NoLeakNext == IInv /\ [Next]_vars => NoLeak'
<1> SUFFICES ASSUME IInv, [Next]_vars, NEW m \in Msg, heap'[m] = "live"
             PROVE  \/ m = deal'.pMsg
                    \/ \E i \in DOMAIN m_msgList' : m_msgList'[i].pMsg = m
  BY DEF NoLeak
<1>0. /\ TypeOK
      /\ heap \in [Msg -> {"new", "live", "deleted"}]
      /\ NULL \notin Msg
      /\ Len(m_msgList) \in Nat
      /\ DOMAIN m_msgList = 1..Len(m_msgList)
      /\ heap[m] = "live" =>
           \/ m = deal.pMsg
           \/ \E i \in DOMAIN m_msgList : m_msgList[i].pMsg = m
  BY LenProperties, ConstantsAssumption DEF IInv, TypeOK, NoLeak
<1>1. ASSUME NEW sock \in Sock, NEW pMsg \in Msg, AddMsg(sock, pMsg)
      PROVE  \/ m = deal'.pMsg
             \/ \E i \in DOMAIN m_msgList' : m_msgList'[i].pMsg = m
  <2>1. CASE OverQuota(sock)
    <3>1. UNCHANGED <<m_msgList, deal>> /\ heap' = [heap EXCEPT ![pMsg] = "deleted"]
      BY <2>1, <1>1 DEF AddMsg, Deleted
    <3> QED BY <3>1, <1>0
  <2>2. CASE ~OverQuota(sock)
    <3>1. /\ UNCHANGED deal
          /\ heap' = [heap EXCEPT ![pMsg] = "live"]
          /\ m_msgList' = Pushed([sock |-> sock, pMsg |-> pMsg])
      BY <2>2, <1>1 DEF AddMsg
    <3>2. /\ DOMAIN m_msgList' = 1..(Len(m_msgList) + 1)
          /\ \A i \in DOMAIN m_msgList : m_msgList'[i] = m_msgList[i]
          /\ m_msgList'[Len(m_msgList) + 1].pMsg = pMsg
      BY <3>1, <1>0, PushedQueue
    <3>3. DOMAIN m_msgList \subseteq DOMAIN m_msgList' /\ Len(m_msgList) + 1 \in DOMAIN m_msgList'
      BY <3>2, <1>0
    <3> QED BY <3>1, <3>2, <3>3, <1>0
  <2> QED BY <2>1, <2>2
<1>2. CASE DelMsgStep
  <2>0. net.i \in 1..Len(m_msgList) /\ UNCHANGED deal
    BY <1>0, <1>2 DEF DelMsgStep, AtEnd, TypeOK
  <2>1. CASE m_msgList[net.i].sock = net.sock
    <3>1. /\ heap' = [heap EXCEPT ![m_msgList[net.i].pMsg] = "deleted"]
          /\ m_msgList' = Erased(net.i)
      BY <2>1, <1>2 DEF DelMsgStep, Deleted
    <3>2. /\ DOMAIN m_msgList' = 1..(Len(m_msgList) - 1)
          /\ \A k \in DOMAIN m_msgList' :
               m_msgList'[k] = IF k < net.i THEN m_msgList[k] ELSE m_msgList[k + 1]
      BY <3>1, <2>0, <1>0, ErasedQueue
    <3>3. heap[m] = "live" /\ m # m_msgList[net.i].pMsg
      BY <3>1, <1>0
    <3>4. \A i \in DOMAIN m_msgList : i # net.i =>
            \E k \in DOMAIN m_msgList' : m_msgList'[k] = m_msgList[i]
      <4> SUFFICES ASSUME NEW i \in DOMAIN m_msgList, i # net.i
                   PROVE  \E k \in DOMAIN m_msgList' : m_msgList'[k] = m_msgList[i]
        OBVIOUS
      <4>1. CASE i < net.i
        <5>1. i \in DOMAIN m_msgList' /\ m_msgList'[i] = m_msgList[i]
          BY <4>1, <3>2, <2>0, <1>0
        <5> QED BY <5>1
      <4>2. CASE ~(i < net.i)
        <5>1. /\ i - 1 \in DOMAIN m_msgList'
              /\ ~(i - 1 < net.i)
              /\ (i - 1) + 1 = i
          BY <4>2, <3>2, <2>0, <1>0
        <5>2. m_msgList'[i - 1] = m_msgList[i]
          BY <5>1, <3>2
        <5> QED BY <5>1, <5>2
      <4> QED BY <4>1, <4>2
    <3> QED BY <3>3, <3>4, <2>0, <1>0
  <2>2. CASE m_msgList[net.i].sock # net.sock
    BY <2>0, <2>2, <1>0, <1>2 DEF DelMsgStep
  <2> QED BY <2>1, <2>2
<1>3. CASE GetMsgPop
  <2>1. heap[m] = "live" /\ deal.pMsg = NULL
    BY <1>3 DEF GetMsgPop, IInv, EmptyHanded
  <2>2. CASE Len(m_msgList) > 0
    <3>1. /\ m_msgList' = Tail(m_msgList)
          /\ deal'.pMsg = Head(m_msgList).pMsg
      BY <2>2, <1>3 DEF GetMsgPop
    <3>2. /\ DOMAIN m_msgList' = 1..(Len(m_msgList) - 1)
          /\ \A k \in DOMAIN m_msgList' : m_msgList'[k] = m_msgList[k + 1]
          /\ deal'.pMsg = m_msgList[1].pMsg
      BY <3>1, <2>2, <1>0, PoppedQueue
    <3>3. PICK i \in DOMAIN m_msgList : m_msgList[i].pMsg = m
      BY <2>1, <1>0
    <3>4. CASE i = 1
      BY <3>2, <3>3, <3>4
    <3>5. CASE i # 1
      <4>1. i - 1 \in DOMAIN m_msgList' /\ (i - 1) + 1 = i
        BY <3>2, <3>5, <1>0
      <4>2. m_msgList'[i - 1].pMsg = m
        BY <4>1, <3>2, <3>3
      <4> QED BY <4>1, <4>2
    <3> QED BY <3>4, <3>5
  <2>3. CASE ~(Len(m_msgList) > 0)
    BY <2>1, <2>3, <1>0, <1>3 DEF GetMsgPop
  <2> QED BY <2>2, <2>3
<1>4. CASE PackDeal
  BY <1>4, <1>0 DEF PackDeal, Deleted
<1>5. CASE GetMsgTryWait
  BY <1>5, <1>0 DEF GetMsgTryWait, TypeOK
<1>6. CASE UNCHANGED <<m_msgList, deal, heap>>
  BY <1>6, <1>0
<1> QED BY <1>1, <1>2, <1>3, <1>4, <1>5, <1>6
        DEF Next, NetStep, DealStep, vars, AddMsgPost, DelMsg, DelMsgEnd

LEMMA IInvNext == IInv /\ [Next]_vars => IInv'
BY TypeNext, LockHeldNext, EmptyHandedNext, LoopPassedNext, PermitNext,
   OneOwnerNext, NoLeakNext DEF IInv

LEMMA Invariance == Spec => []IInv
BY IInvInit, IInvNext, PTL DEF Spec

-----------------------------------------------------------------------------
(* The results.                                                            *)

\* No push is ever left without a permit that makes GetMsg look at it,
\* however GetMsg, AddMsg and DelMsg interleave (net_packlist.cpp).
THEOREM PermitsCover == Spec => []PermitCoversQueue
<1>1. IInv => PermitCoversQueue
  BY DEF IInv
<1> QED BY <1>1, Invariance, PTL

\* AddMsg, DelMsg and PackDeal never delete the same NetMessage twice, and
\* none is used after its deletion.
THEOREM SingleOwner == Spec => []OneOwner
<1>1. IInv => OneOwner
  BY DEF IInv
<1> QED BY <1>1, Invariance, PTL

\* No received NetMessage is lost without being deleted.
THEOREM NothingLeaks == Spec => []NoLeak
<1>1. IInv => NoLeak
  BY DEF IInv
<1> QED BY <1>1, Invariance, PTL

\* A message is owned by the list or by the message thread, and deleted once.
THEOREM EveryMessageOwnedOnce == Spec => []OwnedOnce
<1>1. IInv => OwnedOnce
  BY DEF IInv, OwnedOnce
<1> QED BY <1>1, Invariance, PTL

\* DelMsg erases every node of its socket: when it returns none is left.
THEOREM PurgeCompletes == Spec => PurgeIsComplete
<1>1. IInv /\ [Next]_vars =>
        [net.pc = "del" /\ net'.pc # "del" => CountOf(m_msgList', net.sock) = 0]_vars
  <2> SUFFICES ASSUME IInv, [Next]_vars, net.pc = "del", net'.pc # "del"
               PROVE  CountOf(m_msgList', net.sock) = 0
    OBVIOUS
  <2>0. /\ net \in [pc : {"idle", "post", "del"}, sock : Sock \cup {NULL}, i : Nat \ {0}]
        /\ Len(m_msgList) \in Nat
        /\ DOMAIN m_msgList = 1..Len(m_msgList)
    BY LenProperties DEF IInv, TypeOK
  <2>1. DelMsgEnd
    BY <2>0 DEF Next, NetStep, DealStep, vars, AddMsg, AddMsgPost, DelMsg, DelMsgStep,
                GetMsgTryWait, GetMsgPop, PackDeal
  <2>2. UNCHANGED m_msgList /\ net.i > Len(m_msgList)
    BY <2>1 DEF DelMsgEnd, AtEnd
  <2>3. \A k \in DOMAIN m_msgList : m_msgList[k].sock # net.sock
    BY <2>0, <2>2 DEF IInv, LoopPassed
  <2>4. {k \in DOMAIN m_msgList' : m_msgList'[k].sock = net.sock} = {}
    BY <2>2, <2>3
  <2> QED BY <2>4, FS_EmptySet DEF CountOf
<1> QED BY <1>1, Invariance, PTL DEF Spec, PurgeIsComplete

\* A NULL from GetMsg means that no complete AddMsg is waiting to be served,
\* although stale permits make it pop from an empty list.
THEOREM NullIsEmpty == Spec => NullMeansEmpty
<1>1. IInv /\ [Next]_vars =>
        [deal.pc # "ret" /\ deal'.pc = "ret" /\ deal'.pMsg = NULL
           => Len(m_msgList) <= (IF net.pc = "post" THEN 1 ELSE 0)]_vars
  <2> SUFFICES ASSUME IInv, [Next]_vars,
                      deal.pc # "ret", deal'.pc = "ret", deal'.pMsg = NULL
               PROVE  Len(m_msgList) <= (IF net.pc = "post" THEN 1 ELSE 0)
    OBVIOUS
  <2>0. /\ TypeOK /\ NULL \notin Msg
        /\ deal \in [pc : {"call", "permit", "ret"}, sock : Sock \cup {NULL},
                     pMsg : Msg \cup {NULL}]
        /\ Len(m_msgList) \in Nat /\ m_semphone \in Nat
    BY LenProperties, ConstantsAssumption DEF IInv, TypeOK
  <2>1. GetMsgTryWait \/ GetMsgPop
    BY <2>0 DEF Next, NetStep, DealStep, vars, AddMsg, AddMsgPost, DelMsg, DelMsgStep,
                DelMsgEnd, PackDeal
  <2>2. CASE GetMsgTryWait
    <3>1. deal.pc = "call" /\ m_semphone = 0
      BY <2>0, <2>2 DEF GetMsgTryWait, HasPermit
    <3> QED BY <3>1, <2>0 DEF IInv, PermitCoversQueue
  <2>3. CASE GetMsgPop
    <3>1. ASSUME Len(m_msgList) > 0
          PROVE  FALSE
      <4>1. m_msgList' = Tail(m_msgList) /\ deal'.pMsg = Head(m_msgList).pMsg
        BY <3>1, <2>3 DEF GetMsgPop
      <4> QED BY <4>1, <3>1, <2>0, PoppedQueue
    <3> QED BY <3>1, <2>0
  <2> QED BY <2>1, <2>2, <2>3
<1> QED BY <1>1, Invariance, PTL DEF Spec, NullMeansEmpty

-----------------------------------------------------------------------------
(* The quota: the nodes of one socket are counted through the changes of   *)
(* the list.                                                               *)

Positions(list, sock) == {i \in DOMAIN list : list[i].sock = sock}

LEMMA PositionsFinite ==
  ASSUME NEW list \in Seq(MsgNode), NEW sock
  PROVE  /\ IsFiniteSet(Positions(list, sock))
         /\ CountOf(list, sock) = Cardinality(Positions(list, sock))
         /\ CountOf(list, sock) \in Nat
<1>1. Len(list) \in Nat /\ DOMAIN list = 1..Len(list)
  BY LenProperties
<1>2. IsFiniteSet(DOMAIN list)
  BY <1>1, FS_Interval
<1>3. Positions(list, sock) \in SUBSET DOMAIN list
  BY DEF Positions
<1>4. IsFiniteSet(Positions(list, sock))
  BY <1>2, <1>3, FS_Subset
<1> QED BY <1>4, FS_CardinalityType DEF CountOf, Positions

\* Taking nodes away adds none of any socket: the remaining positions map
\* one to one to the old ones.
LEMMA FewerNodes ==
  ASSUME NEW list \in Seq(MsgNode), NEW rest \in Seq(MsgNode), NEW sock,
         NEW f \in [DOMAIN rest -> DOMAIN list],
         \A k \in DOMAIN rest : rest[k] = list[f[k]],
         \A k, l \in DOMAIN rest : f[k] = f[l] => k = l
  PROVE  CountOf(rest, sock) <= CountOf(list, sock)
<1> DEFINE g == [k \in Positions(rest, sock) |-> f[k]]
<1>1. g \in [Positions(rest, sock) -> Positions(list, sock)]
  BY DEF Positions
<1>2. \A k, l \in Positions(rest, sock) : g[k] = g[l] => k = l
  BY DEF Positions
<1>3. g \in Injection(Positions(rest, sock), Positions(list, sock))
  BY <1>1, <1>2 DEF Injection, IsInjective
<1>4. Cardinality(Positions(rest, sock)) <= Cardinality(Positions(list, sock))
  BY <1>3, PositionsFinite, FS_Injection
<1> QED BY <1>4, PositionsFinite

LEMMA QuotaNext == IInv /\ QuotaPerSock /\ [Next]_vars => QuotaPerSock'
<1> SUFFICES ASSUME IInv, QuotaPerSock, [Next]_vars, NEW s \in Sock
             PROVE  CountOf(m_msgList', s) <= MaxPerSock + 1
  BY DEF QuotaPerSock
<1>0. /\ TypeOK
      /\ m_msgList \in Seq(MsgNode) /\ m_msgList' \in Seq(MsgNode)
      /\ MaxPerSock \in Nat
      /\ Len(m_msgList) \in Nat
      /\ DOMAIN m_msgList = 1..Len(m_msgList)
      /\ CountOf(m_msgList, s) <= MaxPerSock + 1
      /\ CountOf(m_msgList, s) \in Nat /\ CountOf(m_msgList', s) \in Nat
  <2>1. TypeOK /\ TypeOK'
    BY TypeNext DEF IInv
  <2>2. m_msgList \in Seq(MsgNode) /\ m_msgList' \in Seq(MsgNode)
    BY <2>1 DEF TypeOK
  <2> QED BY <2>1, <2>2, LenProperties, ConstantsAssumption, PositionsFinite
          DEF QuotaPerSock
<1>1. ASSUME NEW sock \in Sock, NEW pMsg \in Msg, AddMsg(sock, pMsg), ~OverQuota(sock)
      PROVE  CountOf(m_msgList', s) <= MaxPerSock + 1
  <2> DEFINE node == [sock |-> sock, pMsg |-> pMsg]
  <2>1. m_msgList' = Append(m_msgList, node) /\ node.sock = sock
    BY <1>1 DEF AddMsg, Pushed
  <2>2. /\ DOMAIN m_msgList' = 1..(Len(m_msgList) + 1)
        /\ \A i \in DOMAIN m_msgList : m_msgList'[i] = m_msgList[i]
        /\ m_msgList'[Len(m_msgList) + 1].sock = sock
    <3>1. node \in MsgNode
      BY <1>0 DEF MsgNode
    <3> HIDE DEF node
    <3>2. /\ m_msgList' \in Seq(MsgNode)
          /\ Len(m_msgList') = Len(m_msgList) + 1
          /\ \A i \in 1..Len(m_msgList) : m_msgList'[i] = m_msgList[i]
          /\ m_msgList'[Len(m_msgList) + 1] = node
      BY <3>1, <2>1, <1>0, AppendProperties
    <3> QED BY <3>2, <2>1, <1>0, LenProperties
  <2>3. CASE s = sock
    <3>1. Positions(m_msgList', s) = Positions(m_msgList, s) \cup {Len(m_msgList) + 1}
      BY <2>2, <2>3, <1>0 DEF Positions
    <3>2. Len(m_msgList) + 1 \notin Positions(m_msgList, s)
      BY <1>0 DEF Positions
    <3>3. Cardinality(Positions(m_msgList', s)) = CountOf(m_msgList, s) + 1
      BY <3>1, <3>2, <1>0, PositionsFinite, FS_AddElement
    <3>4. CountOf(m_msgList', s) = CountOf(m_msgList, s) + 1
      BY <3>3 DEF CountOf, Positions
    <3> QED BY <3>4, <2>3, <1>0, <1>1 DEF OverQuota
  <2>4. CASE s # sock
    <3>1. Positions(m_msgList', s) = Positions(m_msgList, s)
      BY <2>2, <2>4, <1>0 DEF Positions
    <3> QED BY <3>1, <1>0 DEF CountOf, Positions
  <2> QED BY <2>3, <2>4
<1>2. CASE DelMsgStep /\ m_msgList[net.i].sock = net.sock
  <2>1. net.i \in 1..Len(m_msgList) /\ m_msgList' = Erased(net.i)
    BY <1>0, <1>2 DEF DelMsgStep, AtEnd, TypeOK
  <2>2. /\ DOMAIN m_msgList' = 1..(Len(m_msgList) - 1)
        /\ \A k \in DOMAIN m_msgList' :
             m_msgList'[k] = IF k < net.i THEN m_msgList[k] ELSE m_msgList[k + 1]
    BY <2>1, <1>0, ErasedQueue
  <2> DEFINE f == [k \in DOMAIN m_msgList' |-> IF k < net.i THEN k ELSE k + 1]
  <2>3. f \in [DOMAIN m_msgList' -> DOMAIN m_msgList]
    BY <2>1, <2>2, <1>0
  <2>4. \A k \in DOMAIN m_msgList' : m_msgList'[k] = m_msgList[f[k]]
    BY <2>2
  <2>5. \A k, l \in DOMAIN m_msgList' : f[k] = f[l] => k = l
    BY <2>1, <2>2, <1>0
  <2> HIDE DEF f
  <2>6. CountOf(m_msgList', s) <= CountOf(m_msgList, s)
    BY <2>3, <2>4, <2>5, <1>0, FewerNodes
  <2> QED BY <2>6, <1>0
<1>3. CASE GetMsgPop /\ Len(m_msgList) > 0
  <2>1. m_msgList' = Tail(m_msgList)
    BY <1>3 DEF GetMsgPop
  <2>2. /\ DOMAIN m_msgList' = 1..(Len(m_msgList) - 1)
        /\ \A k \in DOMAIN m_msgList' : m_msgList'[k] = m_msgList[k + 1]
    BY <2>1, <1>3, <1>0, PoppedQueue
  <2> DEFINE f == [k \in DOMAIN m_msgList' |-> k + 1]
  <2>3. f \in [DOMAIN m_msgList' -> DOMAIN m_msgList]
    BY <2>2, <1>0
  <2>4. \A k \in DOMAIN m_msgList' : m_msgList'[k] = m_msgList[f[k]]
    BY <2>2
  <2>5. \A k, l \in DOMAIN m_msgList' : f[k] = f[l] => k = l
    BY <2>2
  <2> HIDE DEF f
  <2>6. CountOf(m_msgList', s) <= CountOf(m_msgList, s)
    BY <2>3, <2>4, <2>5, <1>0, FewerNodes
  <2> QED BY <2>6, <1>0
<1>4. CASE UNCHANGED m_msgList
  BY <1>4, <1>0
<1>5. \A sock \in Sock, pMsg \in Msg :
        AddMsg(sock, pMsg) => ~OverQuota(sock) \/ UNCHANGED m_msgList
  BY DEF AddMsg
<1>6. DelMsgStep => \/ m_msgList[net.i].sock = net.sock
                    \/ UNCHANGED m_msgList
  BY DEF DelMsgStep
<1>7. GetMsgPop => Len(m_msgList) > 0 \/ UNCHANGED m_msgList
  BY DEF GetMsgPop
<1>8. AddMsgPost \/ DelMsgEnd \/ GetMsgTryWait \/ PackDeal => UNCHANGED m_msgList
  BY DEF AddMsgPost, DelMsgEnd, GetMsgTryWait, PackDeal
<1>9. \A sock \in Sock : DelMsg(sock) => UNCHANGED m_msgList
  BY DEF DelMsg
<1> QED BY <1>1, <1>2, <1>3, <1>4, <1>5, <1>6, <1>7, <1>8, <1>9
        DEF Next, NetStep, DealStep, vars

\* One socket never holds more than MaxPerSock + 1 nodes of the queue: with
\* the code's "num > 200" that is 201.
THEOREM QuotaHolds == Spec => []QuotaPerSock
<1>1. Init => QuotaPerSock
  <2> SUFFICES ASSUME Init, NEW s \in Sock PROVE CountOf(m_msgList, s) <= MaxPerSock + 1
    BY DEF QuotaPerSock
  <2>1. {i \in DOMAIN m_msgList : m_msgList[i].sock = s} = {}
    BY DEF Init
  <2>2. CountOf(m_msgList, s) = 0
    BY <2>1, FS_EmptySet DEF CountOf
  <2> QED BY <2>2, ConstantsAssumption
<1> QED BY <1>1, QuotaNext, Invariance, PTL DEF Spec
-----------------------------------------------------------------------------
(* Keep, the sequence of the nodes at a set of positions: its order, and   *)
(* what it is when nothing or only one node is left out.                   *)

LEMMA RankOrder ==
  ASSUME NEW n \in Nat, NEW D \in SUBSET (1..n)
  PROVE  /\ IsFiniteSet(D)
         /\ Cardinality(D) \in Nat
         /\ \A i \in D : Rank(D, i) \in 1..Cardinality(D)
         /\ \A i, j \in D : i < j => Rank(D, i) < Rank(D, j)
<1> DEFINE Upto(i) == {j \in D : j <= i}
<1>1. IsFiniteSet(D) /\ Cardinality(D) \in Nat
  <2>1. IsFiniteSet(1..n)
    BY FS_Interval
  <2>2. IsFiniteSet(D)
    BY <2>1, FS_Subset
  <2> QED BY <2>2, FS_CardinalityType
<1>2. ASSUME NEW i \in D
      PROVE  /\ IsFiniteSet(Upto(i))
             /\ Cardinality(Upto(i)) \in Nat
             /\ Cardinality(Upto(i)) <= Cardinality(D)
             /\ Cardinality(Upto(i)) # 0
  <2>1. Upto(i) \in SUBSET D /\ i \in Upto(i)
    OBVIOUS
  <2> HIDE DEF Upto
  <2> QED BY <1>1, <2>1, FS_Subset, FS_CardinalityType, FS_EmptySet
<1>3. \A i \in D : Rank(D, i) \in 1..Cardinality(D)
  BY <1>1, <1>2 DEF Rank
<1>4. ASSUME NEW i \in D, NEW j \in D, i < j PROVE Rank(D, i) < Rank(D, j)
  <2>1. Upto(i) \in SUBSET Upto(j) /\ j \in Upto(j) /\ j \notin Upto(i)
    <3>1. \A k \in D : k \in Int
      OBVIOUS
    <3>2. i \in Int /\ j \in Int
      BY <3>1
    <3>3. \A k \in D : k <= i => k <= j
      BY <1>4, <3>1, <3>2
    <3>4. j <= j /\ ~ (j <= i)
      BY <1>4, <3>2
    <3> QED BY <3>3, <3>4
  <2>2. /\ IsFiniteSet(Upto(j))
        /\ Cardinality(Upto(i)) \in Nat /\ Cardinality(Upto(j)) \in Nat
    BY <1>2
  <2>3. Cardinality(Upto(i)) < Cardinality(Upto(j))
    <3> HIDE DEF Upto
    <3> QED BY <2>1, <2>2, FS_Subset
  <2> QED BY <2>3 DEF Rank
<1> QED BY <1>1, <1>3, <1>4

\* Positions and ranks are one to one.
LEMMA NthPosition ==
  ASSUME NEW n \in Nat, NEW D \in SUBSET (1..n)
  PROVE  /\ \A k \in 1..Cardinality(D) : Nth(D, k) \in D /\ Rank(D, Nth(D, k)) = k
         /\ \A i \in D : Nth(D, Rank(D, i)) = i
<1> DEFINE r == [i \in D |-> Rank(D, i)]
<1>1. /\ IsFiniteSet(D)
      /\ Cardinality(D) \in Nat
      /\ \A i \in D : Rank(D, i) \in 1..Cardinality(D)
      /\ \A i, j \in D : Rank(D, i) = Rank(D, j) => i = j
  <2>1. /\ IsFiniteSet(D)
        /\ Cardinality(D) \in Nat
        /\ \A i \in D : Rank(D, i) \in 1..Cardinality(D)
        /\ \A i, j \in D : i < j => Rank(D, i) < Rank(D, j)
    BY RankOrder
  <2>2. \A i, j \in D : i < j \/ j < i \/ i = j
    OBVIOUS
  <2>3. \A i \in D : ~ (Rank(D, i) < Rank(D, i))
    BY <2>1
  <2> QED BY <2>1, <2>2, <2>3
<1>2. r \in Injection(D, 1..Cardinality(D))
  BY <1>1 DEF Injection, IsInjective
<1>3. IsFiniteSet(1..Cardinality(D)) /\ Cardinality(1..Cardinality(D)) = Cardinality(D)
  BY <1>1, FS_Interval
<1>4. r \in Surjection(D, 1..Cardinality(D))
  BY <1>2, <1>3, FS_Injection
<1>5. \A k \in 1..Cardinality(D) : \E i \in D : Rank(D, i) = k
  BY <1>4 DEF Surjection
<1>6. \A k \in 1..Cardinality(D) : Nth(D, k) \in D /\ Rank(D, Nth(D, k)) = k
  BY <1>5 DEF Nth
<1> QED BY <1>1, <1>6

\* An order-preserving map of the positions E onto the positions D preserves ranks.
Embeds(f, E, D) ==
  /\ f \in [E -> D]
  /\ \A i \in D : \E j \in E : f[j] = i
  /\ \A j, k \in E : j < k => f[j] < f[k]

SameOrder(f, E, D) ==
  /\ Cardinality(D) = Cardinality(E)
  /\ \A k \in 1..Cardinality(E) : Nth(E, k) \in E /\ Nth(D, k) = f[Nth(E, k)]

LEMMA SameRanks ==
  ASSUME NEW n \in Nat, NEW D \in SUBSET (1..n), NEW m \in Nat, NEW E \in SUBSET (1..m),
         NEW f, Embeds(f, E, D)
  PROVE  SameOrder(f, E, D)
<1> USE DEF Embeds
<1>1. /\ \A i \in D : i \in Int
      /\ \A j \in E : j \in Int
  OBVIOUS
<1>2. \A j, k \in E : f[j] = f[k] => j = k
  <2>1. \A j, k \in E : j < k \/ k < j \/ j = k
    BY <1>1
  <2>2. \A i \in D : ~ (i < i)
    BY <1>1
  <2> QED BY <2>1, <2>2
<1>3. \A j, k \in E : j <= k <=> f[j] <= f[k]
  <2> SUFFICES ASSUME NEW j \in E, NEW k \in E PROVE j <= k <=> f[j] <= f[k]
    OBVIOUS
  <2>1. f[j] \in Int /\ f[k] \in Int /\ j \in Int /\ k \in Int
    BY <1>1
  <2> QED BY <1>2, <2>1
<1>4. /\ IsFiniteSet(E) /\ IsFiniteSet(D)
      /\ Cardinality(E) \in Nat
  BY RankOrder
<1>5. Cardinality(D) = Cardinality(E)
  <2>1. f \in Bijection(E, D)
    BY <1>2 DEF Bijection, Injection, IsInjective, Surjection
  <2> QED BY <1>4, <2>1, FS_Bijection DEF ExistsBijection
<1>6. ASSUME NEW k \in E PROVE Rank(D, f[k]) = Rank(E, k)
  <2> DEFINE S == {j \in E : j <= k}
             T == {i \in D : i <= f[k]}
             g == [j \in S |-> f[j]]
  <2>1. IsFiniteSet(S)
    <3>1. S \in SUBSET E
      OBVIOUS
    <3> HIDE DEF S
    <3> QED BY <1>4, <3>1, FS_Subset
  <2>2. \A j \in S : j \in E /\ f[j] \in T
    BY <1>3
  <2>3. \A i \in T : \E j \in S : f[j] = i
    BY <1>3
  <2>4. \A j, l \in S : f[j] = f[l] => j = l
    BY <1>2
  <2> HIDE DEF S, T
  <2>5. g \in Bijection(S, T)
    BY <2>2, <2>3, <2>4 DEF Bijection, Injection, IsInjective, Surjection
  <2>6. Cardinality(T) = Cardinality(S)
    <3> HIDE DEF g
    <3> QED BY <2>1, <2>5, FS_Bijection DEF ExistsBijection
  <2> QED BY <2>6 DEF Rank, S, T
<1>7. /\ \A k \in 1..Cardinality(E) : Nth(E, k) \in E /\ Rank(E, Nth(E, k)) = k
      /\ \A i \in D : Nth(D, Rank(D, i)) = i
  BY NthPosition
<1>8. ASSUME NEW k \in 1..Cardinality(E) PROVE Nth(D, k) = f[Nth(E, k)]
  <2>1. Nth(E, k) \in E /\ f[Nth(E, k)] \in D /\ Rank(D, f[Nth(E, k)]) = k
    BY <1>6, <1>7
  <2> QED BY <1>7, <2>1
<1> QED BY <1>5, <1>7, <1>8 DEF SameOrder

LEMMA KeptAll ==
  ASSUME NEW S, NEW s \in Seq(S)
  PROVE  Keep(s, DOMAIN s) = s
<1> DEFINE n == Len(s)
<1>1. n \in Nat /\ DOMAIN s = 1..n /\ s = [k \in 1..n |-> s[k]]
  OBVIOUS
<1> HIDE DEF n
<1>2. Cardinality(1..n) = n
  <2>1. 1 \in Int /\ n \in Int
    BY <1>1
  <2>2. Cardinality(1..n) = IF 1 > n THEN 0 ELSE n - 1 + 1
    BY <2>1, FS_Interval, Zenon
  <2> QED BY <1>1, <2>2
<1>3. ASSUME NEW k \in 1..n PROVE Nth(1..n, k) = k
  <2>1. {j \in 1..n : j <= k} = 1..k
    BY <1>1
  <2>2. Cardinality(1..k) = k
    BY <1>1, FS_Interval
  <2>3. Rank(1..n, k) = k
    BY <2>1, <2>2 DEF Rank
  <2>4. \A i \in 1..n : Nth(1..n, Rank(1..n, i)) = i
    BY <1>1, NthPosition
  <2> QED BY <2>3, <2>4
<1> QED BY <1>1, <1>2, <1>3 DEF Keep

\* What is kept of a list does not change when a node is erased that is not kept.
LEMMA KeptErased ==
  ASSUME NEW S, NEW s \in Seq(S), NEW D \in SUBSET (DOMAIN s), NEW p \in DOMAIN s, p \notin D,
         NEW t \in Seq(S), Len(t) = Len(s) - 1,
         \A k \in 1..(Len(s) - 1) : t[k] = IF k < p THEN s[k] ELSE s[k + 1]
  PROVE  Keep(t, {k \in DOMAIN t : (IF k < p THEN k ELSE k + 1) \in D}) = Keep(s, D)
<1> DEFINE n == Len(s)
           up(k) == IF k < p THEN k ELSE k + 1
           E == {k \in DOMAIN t : up(k) \in D}
           f == [k \in E |-> up(k)]
<1>1. /\ n \in Nat /\ DOMAIN s = 1..n /\ n - 1 \in Nat /\ DOMAIN t = 1..(n - 1)
      /\ p \in 1..n /\ D \in SUBSET (1..n)
  OBVIOUS
<1> HIDE DEF n
<1>2. E \in SUBSET (1..(n - 1)) /\ f \in [E -> D]
  BY <1>1
<1>3. \A i \in D : \E k \in E : f[k] = i
  <2> SUFFICES ASSUME NEW i \in D PROVE \E k \in E : f[k] = i
    OBVIOUS
  <2>1. CASE i < p
    <3>1. i \in 1..(n - 1) /\ up(i) = i
      BY <1>1, <2>1
    <3>2. i \in E /\ f[i] = i
      BY <1>1, <3>1
    <3> QED BY <3>2
  <2>2. CASE ~ (i < p)
    <3>1. i - 1 \in 1..(n - 1) /\ ~ (i - 1 < p) /\ (i - 1) + 1 = i
      BY <1>1, <2>2
    <3>2. i - 1 \in E /\ f[i - 1] = i
      BY <1>1, <3>1
    <3> QED BY <3>2
  <2> QED BY <2>1, <2>2
<1>4. \A j, k \in E : j < k => f[j] < f[k]
  BY <1>1
<1>5. \A k \in E : t[k] = s[f[k]]
  <2> SUFFICES ASSUME NEW k \in E PROVE t[k] = s[f[k]]
    OBVIOUS
  <2>1. k \in 1..(Len(s) - 1) /\ f[k] = up(k)
    BY <1>1 DEF n
  <2>2. t[k] = IF k < p THEN s[k] ELSE s[k + 1]
    BY <2>1
  <2> QED BY <2>1, <2>2
<1> HIDE DEF E, f
<1>6. SameOrder(f, E, D)
  <2> DEFINE m == n - 1
  <2>1. m \in Nat /\ E \in SUBSET (1..m)
    BY <1>1, <1>2
  <2> HIDE DEF m
  <2>2. Embeds(f, E, D)
    BY <1>2, <1>3, <1>4 DEF Embeds
  <2> QED BY <1>1, <2>1, <2>2, SameRanks
<1>7. Keep(t, E) = Keep(s, D)
  BY <1>5, <1>6 DEF Keep, SameOrder
<1> QED BY <1>7 DEF E

-----------------------------------------------------------------------------
(* CPackageList implements MsgQueue.                                       *)

\* AddMsg posts for a node it pushed while its socket was within the quota.
PostFits ==
  net.pc = "post" =>
    \E q \in Seq(MsgNode), node \in MsgNode :
      m_msgList = Append(q, node) /\ CountOf(q, node.sock) <= MaxPerSock

LEMMA PostFitsInit == Init => PostFits
BY DEF Init, PostFits

LEMMA PostFitsNext == IInv /\ PostFits /\ [Next]_vars => PostFits'
<1> SUFFICES ASSUME IInv, PostFits, [Next]_vars PROVE PostFits'
  OBVIOUS
<1>0. /\ m_msgList \in Seq(MsgNode)
      /\ net \in [pc : {"idle", "post", "del"}, sock : Sock \cup {NULL}, i : Nat \ {0}]
      /\ LockHeld
  BY DEF IInv, TypeOK
<1>1. ASSUME NEW sock \in Sock, NEW pMsg \in Msg, AddMsg(sock, pMsg)
      PROVE  PostFits'
  <2> DEFINE node == [sock |-> sock, pMsg |-> pMsg]
  <2>1. node \in MsgNode /\ node.sock = sock
    BY DEF MsgNode
  <2>2. CASE OverQuota(sock)
    BY <1>0, <1>1, <2>2 DEF AddMsg, PostFits
  <2>3. CASE ~ OverQuota(sock)
    <3>1. m_msgList' = Append(m_msgList, node)
      BY <1>1, <2>3 DEF AddMsg, Pushed
    <3>2. CountOf(m_msgList, sock) <= MaxPerSock
      BY <1>0, <2>3, PositionsFinite, ConstantsAssumption DEF OverQuota
    <3> HIDE DEF node
    <3> QED BY <1>0, <2>1, <3>1, <3>2 DEF PostFits
  <2> QED BY <2>2, <2>3
<1>2. CASE AddMsgPost \/ DelMsgEnd
  BY <1>0, <1>2 DEF AddMsgPost, DelMsgEnd, PostFits
<1>3. ASSUME NEW sock \in Sock, DelMsg(sock)
      PROVE  PostFits'
  BY <1>3 DEF DelMsg, PostFits
<1>4. CASE DelMsgStep
  BY <1>0, <1>4 DEF DelMsgStep, PostFits
<1>5. CASE GetMsgPop
  BY <1>0, <1>5 DEF GetMsgPop, LockHeld, PostFits
<1>6. CASE GetMsgTryWait \/ PackDeal \/ UNCHANGED vars
  <2>1. UNCHANGED <<net, m_msgList>>
    BY <1>6 DEF GetMsgTryWait, PackDeal, vars
  <2> QED BY <2>1 DEF PostFits
<1> QED BY <1>1, <1>2, <1>3, <1>4, <1>5, <1>6 DEF Next, NetStep, DealStep

\* Taking back what was appended.
LEMMA FrontOfAppend ==
  ASSUME NEW S, NEW s \in Seq(S), NEW e \in S
  PROVE  Front(Append(s, e)) = s
<1> DEFINE t == Append(s, e)
<1>1. t \in Seq(S) /\ Len(t) = Len(s) + 1 /\ \A i \in 1..Len(s) : t[i] = s[i]
  BY AppendProperties
<1>2. Len(s) \in Nat /\ \A i \in 1..Len(s) : s[i] \in S
  BY LenProperties, ElementOfSeq
<1> HIDE DEF t
<1>3. Front(t) = SubSeq(t, 1, Len(s))
  BY <1>1, <1>2 DEF Front
<1>4. /\ SubSeq(t, 1, Len(s)) \in Seq(S)
      /\ Len(SubSeq(t, 1, Len(s))) = Len(s)
      /\ \A i \in 1..Len(s) : SubSeq(t, 1, Len(s))[i] = t[i]
  <2>1. \A i \in 1..Len(s) : t[i] \in S
    BY <1>1, <1>2
  <2> QED BY <1>2, <2>1, SubSeqProperties
<1>5. SubSeq(t, 1, Len(s)) = s
  BY <1>1, <1>4, SeqEqual
<1> QED BY <1>3, <1>5 DEF t

\* What users see in the middle of a call, and between calls.
OthersOf(list, sock) == {i \in DOMAIN list : list[i].sock # sock}

LEMMA SeenIs ==
  ASSUME TypeOK
  PROVE  /\ net.pc = "idle" => SeenQueue = m_msgList
         /\ net.pc = "post" => SeenQueue = Front(m_msgList)
         /\ net.pc = "del" => SeenQueue = Keep(m_msgList, OthersOf(m_msgList, net.sock))
         /\ deal.pc # "permit" => SeenDeal = deal
         /\ deal.pc = "permit" => SeenDeal = [deal EXCEPT !.pc = "call"]
<1>1. net.pc \in {"idle", "post", "del"}
  BY DEF TypeOK
<1>2. deal = [deal EXCEPT !.pc = deal.pc]
  BY DEF TypeOK
<1> QED BY <1>1, <1>2 DEF SeenQueue, SeenDeal, OthersOf

\* DelMsg passes or erases one node: its users have seen it go already.
LEMMA LoopUnseen ==
  ASSUME IInv, DelMsgStep
  PROVE  SeenQueue' = SeenQueue
<1> DEFINE D == OthersOf(m_msgList, net.sock)
<1>0. /\ TypeOK /\ TypeOK' /\ net.pc = "del" /\ net'.pc = "del" /\ net'.sock = net.sock
      /\ m_msgList \in Seq(MsgNode) /\ m_msgList' \in Seq(MsgNode)
      /\ net.i \in 1..Len(m_msgList)
  <2>1. TypeOK /\ TypeOK'
    BY TypeNext DEF IInv, Next, NetStep
  <2> QED BY <2>1, LenProperties DEF DelMsgStep, AtEnd, TypeOK
<1>1. /\ SeenQueue = Keep(m_msgList, D)
      /\ SeenQueue' = Keep(m_msgList', OthersOf(m_msgList', net.sock))
  <2>1. SeenQueue = Keep(m_msgList, D)
    BY <1>0, SeenIs
  <2>2. SeenQueue' = Keep(m_msgList', OthersOf(m_msgList', net.sock))
    BY <1>0 DEF SeenQueue, OthersOf
  <2> QED BY <2>1, <2>2
<1>2. CASE m_msgList[net.i].sock # net.sock
  <2>1. m_msgList' = m_msgList
    BY <1>2 DEF DelMsgStep
  <2> QED BY <1>1, <2>1
<1>3. CASE m_msgList[net.i].sock = net.sock
  <2> DEFINE p == net.i
             E == {k \in DOMAIN m_msgList' : (IF k < p THEN k ELSE k + 1) \in D}
  <2>1. m_msgList' = Erased(p)
    BY <1>3 DEF DelMsgStep
  <2>2. /\ DOMAIN m_msgList = 1..Len(m_msgList) /\ Len(m_msgList) \in Nat
        /\ DOMAIN m_msgList' = 1..(Len(m_msgList) - 1)
        /\ Len(m_msgList') = Len(m_msgList) - 1
        /\ \A k \in 1..(Len(m_msgList) - 1) :
             m_msgList'[k] = IF k < p THEN m_msgList[k] ELSE m_msgList[k + 1]
    BY <1>0, <2>1, RemoveAtProperties, LenProperties DEF Erased
  <2>3. p \in DOMAIN m_msgList /\ p \notin D /\ D \in SUBSET (DOMAIN m_msgList)
    BY <1>0, <1>3, <2>2 DEF OthersOf
  <2>4. Keep(m_msgList', E) = Keep(m_msgList, D)
    <3> HIDE DEF D
    <3> QED BY <1>0, <2>2, <2>3, KeptErased
  <2>5. E = OthersOf(m_msgList', net.sock)
    BY <1>0, <2>2 DEF OthersOf
  <2> QED BY <1>1, <2>4, <2>5
<1> QED BY <1>2, <1>3

\* When the loop ends nothing is left to be purged.
LEMMA EndUnseen ==
  ASSUME IInv, DelMsgEnd
  PROVE  SeenQueue' = SeenQueue
<1>1. /\ TypeOK /\ LoopPassed /\ net.pc = "del" /\ net'.pc = "idle"
      /\ m_msgList \in Seq(MsgNode) /\ m_msgList' = m_msgList
      /\ net.i \in Nat /\ net.i > Len(m_msgList)
  BY DEF IInv, TypeOK, DelMsgEnd, AtEnd
<1>2. DOMAIN m_msgList = 1..Len(m_msgList) /\ Len(m_msgList) \in Nat
  BY <1>1, LenProperties
<1>3. OthersOf(m_msgList, net.sock) = DOMAIN m_msgList
  BY <1>1, <1>2 DEF LoopPassed, OthersOf
<1>4. SeenQueue = m_msgList
  BY <1>1, <1>3, SeenIs, KeptAll
<1>5. SeenQueue' = m_msgList'
  BY <1>1 DEF SeenQueue
<1> QED BY <1>1, <1>4, <1>5

\* Without a permit there is nothing to be seen.
LEMMA NoPermitSeesNothing ==
  ASSUME IInv, PostFits, deal.pc = "call", ~ HasPermit
  PROVE  SeenQueue = <<>>
<1>1. /\ TypeOK /\ PermitCoversQueue /\ m_msgList \in Seq(MsgNode)
      /\ m_semphone \in Nat /\ ~ (m_semphone > 0)
  BY DEF IInv, TypeOK, HasPermit
<1>2. /\ Len(m_msgList) \in Nat
      /\ Len(m_msgList) <= (IF net.pc = "post" THEN 1 ELSE 0)
  BY <1>1, LenProperties DEF PermitCoversQueue
<1>3. CASE net.pc = "post"
  <2>1. PICK q \in Seq(MsgNode), node \in MsgNode : m_msgList = Append(q, node)
    BY <1>3 DEF PostFits
  <2>2. Len(q) = 0
    BY <1>2, <1>3, <2>1, AppendProperties, LenProperties
  <2>3. q = <<>>
    BY <2>2, EmptySeq
  <2> QED BY <1>1, <1>3, <2>1, <2>3, SeenIs, FrontOfAppend
<1>4. CASE net.pc # "post"
  <2>1. m_msgList = <<>>
    BY <1>1, <1>2, <1>4, EmptySeq
  <2>2. OthersOf(m_msgList, net.sock) = DOMAIN m_msgList
    BY <2>1 DEF OthersOf
  <2>3. Keep(m_msgList, OthersOf(m_msgList, net.sock)) = m_msgList
    BY <1>1, <2>2, KeptAll
  <2> QED BY <1>1, <1>4, <2>1, <2>3, SeenIs DEF TypeOK
<1> QED BY <1>3, <1>4

LEMMA PurgeIs ==
  ASSUME NEW sock, SeenQueue' = Keep(SeenQueue, OthersOf(SeenQueue, sock))
  PROVE  Abs!Purge(sock)
BY DEF Abs!Purge, Abs!Without, Abs!Keep, Abs!Nth, Abs!Rank, Abs!Cardinality,
  Keep, Nth, Rank, OthersOf, Cardinality

LEMMA SeenInit == Init => Abs!Init
BY DEF Init, Abs!Init, SeenQueue, SeenDeal

\* Every step of the threads is one of the queue, or none.
LEMMA SeenNext == IInv /\ PostFits /\ [Next]_vars => [Abs!Next]_<<SeenQueue, SeenDeal>>
<1> SUFFICES ASSUME IInv, PostFits, [Next]_vars
             PROVE  \/ Abs!Next
                    \/ SeenQueue' = SeenQueue /\ SeenDeal' = SeenDeal
  OBVIOUS
<1>0. /\ TypeOK /\ TypeOK' /\ m_msgList \in Seq(MsgNode)
      /\ net \in [pc : {"idle", "post", "del"}, sock : Sock \cup {NULL}, i : Nat \ {0}]
      /\ deal \in [pc : {"call", "permit", "ret"}, sock : Sock \cup {NULL},
                   pMsg : Msg \cup {NULL}]
      /\ LockHeld /\ EmptyHanded
  BY TypeNext DEF IInv, TypeOK
<1>a. /\ net'.pc = "idle" => SeenQueue' = m_msgList'
      /\ net'.pc = "post" => SeenQueue' = Front(m_msgList')
      /\ net'.pc = "del" => SeenQueue' = Keep(m_msgList', OthersOf(m_msgList', net'.sock))
  BY <1>0 DEF SeenQueue, OthersOf
<1>b. deal' = deal => SeenDeal' = SeenDeal
  BY DEF SeenDeal
<1>c. m_msgList' = m_msgList /\ net' = net => SeenQueue' = SeenQueue
  BY DEF SeenQueue
<1>1. ASSUME NEW sock \in Sock, NEW pMsg \in Msg, AddMsg(sock, pMsg)
      PROVE  SeenQueue' = SeenQueue /\ SeenDeal' = SeenDeal
  <2> DEFINE node == [sock |-> sock, pMsg |-> pMsg]
  <2>1. deal' = deal /\ net.pc = "idle"
    BY <1>1 DEF AddMsg
  <2>2. CASE OverQuota(sock)
    BY <1>1, <1>b, <1>c, <2>1, <2>2 DEF AddMsg
  <2>3. CASE ~ OverQuota(sock)
    <3>1. m_msgList' = Append(m_msgList, node) /\ net'.pc = "post"
      BY <1>0, <1>1, <2>3 DEF AddMsg, Pushed
    <3>2. node \in MsgNode
      BY DEF MsgNode
    <3> HIDE DEF node
    <3>3. Front(m_msgList') = m_msgList
      BY <1>0, <3>1, <3>2, FrontOfAppend
    <3> QED BY <1>0, <1>a, <1>b, <2>1, <3>1, <3>3, SeenIs
  <2> QED BY <2>2, <2>3
<1>2. CASE AddMsgPost
  <2>1. PICK q \in Seq(MsgNode), node \in MsgNode :
          m_msgList = Append(q, node) /\ CountOf(q, node.sock) <= MaxPerSock
    BY <1>2 DEF AddMsgPost, PostFits
  <2>2. /\ node.sock \in Sock /\ node.pMsg \in Msg
        /\ node = [sock |-> node.sock, pMsg |-> node.pMsg]
    BY DEF MsgNode
  <2>3. SeenQueue = q
    BY <1>0, <1>2, <2>1, SeenIs, FrontOfAppend DEF AddMsgPost
  <2>4. SeenQueue' = Append(q, node) /\ SeenDeal' = SeenDeal
    BY <1>0, <1>2, <1>a, <1>b, <2>1 DEF AddMsgPost
  <2>5. Abs!CountOf(q, node.sock) = CountOf(q, node.sock)
    BY DEF Abs!CountOf, CountOf, Abs!Cardinality, Cardinality
  <2>6. Abs!Put(node.sock, node.pMsg)
    BY <2>1, <2>2, <2>3, <2>4, <2>5 DEF Abs!Put
  <2> QED BY <2>2, <2>4, <2>6 DEF Abs!Next
<1>3. ASSUME NEW sock \in Sock, DelMsg(sock)
      PROVE  Abs!Purge(sock) /\ SeenDeal' = SeenDeal
  <2>1. /\ net.pc = "idle" /\ net'.pc = "del" /\ net'.sock = sock
        /\ m_msgList' = m_msgList /\ deal' = deal
    BY <1>3 DEF DelMsg
  <2>2. SeenQueue = m_msgList /\ SeenQueue' = Keep(m_msgList, OthersOf(m_msgList, sock))
    BY <1>0, <1>a, <2>1, SeenIs
  <2> QED BY <1>b, <2>1, <2>2, PurgeIs
<1>4. CASE DelMsgStep
  BY <1>4, <1>b, LoopUnseen DEF DelMsgStep
<1>5. CASE DelMsgEnd
  BY <1>5, <1>b, EndUnseen DEF DelMsgEnd
<1>6. CASE GetMsgTryWait
  <2>1. deal.pc = "call" /\ SeenDeal = deal /\ SeenQueue' = SeenQueue
    BY <1>0, <1>6, <1>c, SeenIs DEF GetMsgTryWait
  <2>2. CASE HasPermit
    <3>1. deal' = [deal EXCEPT !.pc = "permit"]
      BY <1>6, <2>2 DEF GetMsgTryWait
    <3>2. SeenDeal' = [deal EXCEPT !.pc = "call"]
      BY <1>0, <3>1 DEF SeenDeal
    <3>3. [deal EXCEPT !.pc = "call"] = deal
      BY <1>0, <2>1
    <3> QED BY <2>1, <3>2, <3>3
  <2>3. CASE ~ HasPermit
    <3>1. deal' = [deal EXCEPT !.pc = "ret"]
      BY <1>6, <2>3 DEF GetMsgTryWait
    <3>2. SeenDeal' = [deal EXCEPT !.pc = "ret"]
      BY <1>0, <3>1 DEF SeenDeal
    <3>3. deal.pMsg = NULL
      BY <1>0, <2>1 DEF EmptyHanded
    <3>4. [deal EXCEPT !.pc = "ret"] = [deal EXCEPT !.pc = "ret", !.pMsg = NULL]
      BY <1>0, <3>3
    <3>5. SeenQueue = <<>>
      BY <2>1, <2>3, NoPermitSeesNothing
    <3>6. Abs!Get
      BY <2>1, <3>2, <3>4, <3>5 DEF Abs!Get
    <3> QED BY <3>6 DEF Abs!Next
  <2> QED BY <2>2, <2>3
<1>7. CASE GetMsgPop
  <2>1. /\ deal.pc = "permit" /\ net.pc = "idle" /\ net' = net
        /\ SeenQueue = m_msgList /\ SeenQueue' = m_msgList'
        /\ SeenDeal = [deal EXCEPT !.pc = "call"]
    BY <1>0, <1>7, <1>a, SeenIs DEF GetMsgPop, LockHeld
  <2>2. CASE Len(m_msgList) > 0
    <3>1. m_msgList # <<>>
      BY <2>2, EmptySeq
    <3>2. /\ deal' = [pc |-> "ret", sock |-> Head(m_msgList).sock,
                      pMsg |-> Head(m_msgList).pMsg]
          /\ m_msgList' = Tail(m_msgList)
      BY <1>7, <2>2 DEF GetMsgPop
    <3>3. SeenDeal' = deal'
      BY <3>2 DEF SeenDeal
    <3>4. SeenDeal.pc = "call"
      BY <1>0, <2>1
    <3>5. Abs!Get
      BY <2>1, <3>1, <3>2, <3>3, <3>4 DEF Abs!Get
    <3> QED BY <3>5 DEF Abs!Next
  <2>3. CASE ~ (Len(m_msgList) > 0)
    <3>1. m_msgList = <<>>
      BY <1>0, <2>3, EmptySeq
    <3>2. deal' = [deal EXCEPT !.pc = "ret"] /\ m_msgList' = m_msgList
      BY <1>7, <2>3 DEF GetMsgPop
    <3>3. SeenDeal' = [deal EXCEPT !.pc = "ret"]
      BY <1>0, <3>2 DEF SeenDeal
    <3>4. deal.pMsg = NULL
      BY <1>0, <2>1 DEF EmptyHanded
    <3>5. SeenDeal' = [SeenDeal EXCEPT !.pc = "ret", !.pMsg = NULL]
      BY <1>0, <2>1, <3>3, <3>4
    <3>6. SeenDeal.pc = "call"
      BY <1>0, <2>1
    <3>7. Abs!Get
      BY <2>1, <3>1, <3>2, <3>5, <3>6 DEF Abs!Get
    <3> QED BY <3>7 DEF Abs!Next
  <2> QED BY <2>2, <2>3
<1>8. CASE PackDeal
  <2>1. /\ deal.pc = "ret" /\ SeenQueue' = SeenQueue /\ SeenDeal = deal
        /\ deal' = [deal EXCEPT !.pc = "call", !.pMsg = NULL]
    BY <1>0, <1>8, <1>c, SeenIs DEF PackDeal
  <2>2. SeenDeal' = deal'
    BY <1>0, <2>1 DEF SeenDeal
  <2>3. Abs!Done
    BY <2>1, <2>2 DEF Abs!Done
  <2> QED BY <2>3 DEF Abs!Next
<1>9. CASE UNCHANGED vars
  BY <1>9, <1>b, <1>c DEF vars
<1>10. \A sock \in Sock : Abs!Purge(sock) /\ SeenDeal' = SeenDeal => Abs!Next
  BY DEF Abs!Next
<1> QED BY <1>1, <1>2, <1>3, <1>4, <1>5, <1>6, <1>7, <1>8, <1>9, <1>10
        DEF Next, NetStep, DealStep

\* With its semaphore, its lock and its loop over an iterator CPackageList is
\* one FIFO: a push happens at its post, a purge when DelMsg has the lock, and
\* a permit that finds no node is an empty queue.
THEOREM ListImplementsQueue == Spec => ImplementsMsgQueue
<1>1. Spec => [](IInv /\ PostFits)
  <2>1. Init => IInv /\ PostFits
    BY IInvInit, PostFitsInit
  <2>2. IInv /\ PostFits /\ [Next]_vars => (IInv /\ PostFits)'
    BY IInvNext, PostFitsNext
  <2> QED BY <2>1, <2>2, PTL DEF Spec
<1>2. Init => Abs!Init
  BY SeenInit
<1>3. IInv /\ PostFits /\ [Next]_vars => [Abs!Next]_<<SeenQueue, SeenDeal>>
  BY SeenNext
<1> QED BY <1>1, <1>2, <1>3, PTL DEF Spec, ImplementsMsgQueue, Abs!Spec, Abs!absVars
=============================================================================
