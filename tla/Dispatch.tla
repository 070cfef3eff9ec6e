------------------------------ MODULE Dispatch ------------------------------
(***************************************************************************)
(* The way of a message from the first byte received to its handler: the   *)
(* table of partial messages by descriptor (SocketServer::m_recvMsgList),  *)
(* the list to the message thread, the table of functions by message type  *)
(* (DespatchCommand::m_funMap), the fields PTL_Test reads, and who owns    *)
(* each NetMessage meanwhile.                                              *)
(*                                                                         *)
(* Receiving byte by byte is RecvFraming, the steps of the list are        *)
(* PackageList: here a message is complete in one step and the list is one *)
(* sequence.                                                               *)
(***************************************************************************)
EXTENDS HashTable, MessageFields, Subsequence, FiniteSets

CONSTANTS
  Sock,        \* descriptors
  Commands,    \* the SCommand array of PackageDeal: [comType, comFun]
  Fun,         \* functions to register; "PTL_Test" is one
  Obj,         \* addresses of NetMessage objects
  Request,     \* what clients send: [type, fields, kept], see Body
  MaxPerSock,  \* the 200 of AddMsg's "num > 200"
  NULL

Type == {Commands[i].comType : i \in DOMAIN Commands} \cup {r.type : r \in Request}

Entry == [sock : Sock, pMsg : Obj, request : Request]

ASSUME ConstantsAssumption ==
  /\ Commands \in Seq([comType : Nat, comFun : Fun])
  /\ Sock \subseteq Nat
  /\ MaxPerSock \in Nat
  /\ NULL \notin Obj \cup Fun \cup Entry

(* The bytes of a request: the fields as a client writes them for PTL_Test, *)
(* of which only the first kept bytes are sent.                             *)
Fields(f) ==
  WriteString(Write(Write(Write(Write(NewMessage, f.u8), f.u16), f.u32), f.u64), f.str)
Body(r) == SetType(SetLength(SubSeq(Fields(r.fields), 1, HeadLen + r.kept)), r.type)

\* A type is a uint16, and the head's length can hold that of the message.
ASSUME RequestAssumption ==
  \A r \in Request :
    /\ r \in [type : 0..B * B - 1, kept : Nat,
              fields : [u8 : Bytes(1), u16 : Bytes(2), u32 : Bytes(4), u64 : Bytes(8),
                        str : Seq(Byte)]]
    /\ r.kept <= Len(Fields(r.fields)) - HeadLen
    /\ 17 + Len(r.fields.str) < B * B

VARIABLES
  m_funMap,       \* CHashTable<int, CommandFun>
  m_recvMsgList,  \* CHashTable<int, NetMessage*>
  registered,     \* commands added so far
  queue,          \* the messages received: [sock, pMsg, request]
  deal,           \* the message the message thread holds, or NULL
  heap,           \* the NetMessage objects that exist
  called,         \* the type and function of the last message handled
  read            \* what PTL_Test last read: [request, fields, pos], or NULL

vars == <<m_funMap, m_recvMsgList, registered, queue, deal, heap, called, read>>

TypeOK ==
  /\ WellFormed(m_funMap, Type, Fun)
  /\ WellFormed(m_recvMsgList, Sock, Obj)
  /\ registered \in 0..Len(Commands)
  /\ queue \in Seq(Entry)
  /\ deal \in Entry \cup {NULL}
  /\ heap \subseteq Obj
  /\ called \in SUBSET (Type \X Fun)

Init ==
  /\ m_funMap = EmptyTable
  /\ m_recvMsgList = EmptyTable
  /\ registered = 0
  /\ queue = <<>>
  /\ deal = NULL
  /\ heap = {}
  /\ called = {}
  /\ read = NULL

(* AddCommandDeal and AddCommand, from the constructor of PackageDeal *)
AddCommand ==
  /\ registered < Len(Commands)
  /\ LET c == Commands[registered + 1]
     IN m_funMap' = Insert(m_funMap, c.comType, c.comFun)
  /\ registered' = registered + 1
  /\ UNCHANGED <<m_recvMsgList, queue, deal, heap, called, read>>

Serving == registered = Len(Commands)

(***************************************************************************)
(* The network thread.                                                     *)
(***************************************************************************)
(* OnRecv with less than a message: a descriptor without one gets one *)
OnRecvPart(sock) ==
  /\ Serving
  /\ ~ Has(m_recvMsgList, sock)
  /\ \E o \in Obj \ heap :
       /\ heap' = heap \cup {o}
       /\ m_recvMsgList' = Insert(m_recvMsgList, sock, o)
  /\ UNCHANGED <<m_funMap, registered, queue, deal, called, read>>

CountOf(sock) == Cardinality({i \in DOMAIN queue : queue[i].sock = sock})

\* DelMsg: the messages of the descriptor are deleted
NotOf(sock) == Keep(queue, {i \in DOMAIN queue : queue[i].sock # sock})
Queued(sock) == {queue[i].pMsg : i \in {j \in DOMAIN queue : queue[j].sock = sock}}

(* OnRecv, the rest of a message: erased from the table and put into the    *)
(* list, and the descriptor gets a new one; or, over the quota, deleted by  *)
(* AddMsg, and the connection is closed                                     *)
OnRecvDone(sock, request) ==
  /\ Serving
  /\ Has(m_recvMsgList, sock)
  /\ LET pMsg == Find(m_recvMsgList, sock, NULL)
         erased == Erase(m_recvMsgList, sock)
     IN IF CountOf(sock) > MaxPerSock
        THEN /\ m_recvMsgList' = erased
             /\ queue' = NotOf(sock)
             /\ heap' = heap \ ({pMsg} \cup Queued(sock))
        ELSE \E o \in Obj \ heap :
             /\ m_recvMsgList' = Insert(erased, sock, o)
             /\ queue' = Append(queue, [sock |-> sock, pMsg |-> pMsg, request |-> request])
             /\ heap' = heap \cup {o}
  /\ UNCHANGED <<m_funMap, registered, deal, called, read>>

\* the pointer Erase gives OnRecv to delete: NULL when there is none
Gone_Forgotten(sock) == {}
Gone(sock) == {Find(m_recvMsgList, sock, NULL)} \ {NULL}

(* OnRecv, the end of the stream or an error; CloseConnect *)
OnRecvClosed(sock) ==
  /\ Serving
  /\ m_recvMsgList' = Erase(m_recvMsgList, sock)
  /\ queue' = NotOf(sock)
  /\ heap' = heap \ (Gone(sock) \cup Queued(sock))
  /\ UNCHANGED <<m_funMap, registered, deal, called, read>>

(***************************************************************************)
(* The message thread.                                                     *)
(***************************************************************************)
GetPackage ==
  /\ Serving
  /\ deal = NULL
  /\ queue # <<>>
  /\ deal' = Head(queue)
  /\ queue' = Tail(queue)
  /\ UNCHANGED <<m_funMap, m_recvMsgList, registered, heap, called, read>>

Zeros == [u8 |-> <<0>>, u16 |-> Uint16(0), u32 |-> <<0, 0, 0, 0>>,
          u64 |-> <<0, 0, 0, 0, 0, 0, 0, 0>>, str |-> <<>>]

(* PackageDeal::PTL_Test: m_readPos is at the head's end *)
PTL_Test(request) ==
  LET m == Body(request)
      a == Read(m, HeadLen, 1, Zeros.u8)
      b == Read(m, a.pos, 2, Zeros.u16)
      c == Read(m, b.pos, 4, Zeros.u32)
      d == Read(m, c.pos, 8, Zeros.u64)
      e == ReadString(m, d.pos, Zeros.str)
  IN [request |-> request,
      fields |-> [u8 |-> a.val, u16 |-> b.val, u32 |-> c.val, u64 |-> d.val, str |-> e.val],
      pos |-> e.pos]

(* Despatch and the delete of PServer::PackDeal; a message of a type without *)
(* function is logged                                                        *)
Despatch ==
  /\ deal # NULL
  /\ LET m == Body(deal.request)
         fun == Find(m_funMap, GetType(m), NULL)
     IN /\ called' = IF fun = NULL THEN {} ELSE {<<GetType(m), fun>>}
        /\ read' = IF fun = "PTL_Test" THEN PTL_Test(deal.request) ELSE NULL
  /\ heap' = heap \ {deal.pMsg}
  /\ deal' = NULL
  /\ UNCHANGED <<m_funMap, m_recvMsgList, registered, queue>>

Next ==
  \/ AddCommand
  \/ \E sock \in Sock : OnRecvPart(sock) \/ OnRecvClosed(sock)
  \/ \E sock \in Sock, request \in Request : OnRecvDone(sock, request)
  \/ GetPackage
  \/ Despatch

Spec == Init /\ [][Next]_vars

-----------------------------------------------------------------------------
(* Every NetMessage that exists has one owner: the partial message of one   *)
(* descriptor, one node of the list, or the message thread.  It would break *)
(* if the table kept an erased pointer, lost one of two descriptors of a    *)
(* bucket, or Insert met an entry and dropped the new pointer               *)
(* (net_server.cpp:128-163).                                                *)
Owners ==
  {<<"partial", s>> : s \in Keys(m_recvMsgList, Sock)}
    \cup {<<"queue", i>> : i \in DOMAIN queue}
    \cup {<<"deal", 0>> : x \in {deal} \ {NULL}}
Owned(w) ==
  CASE w[1] = "partial" -> Find(m_recvMsgList, w[2], NULL)
    [] w[1] = "queue" -> queue[w[2]].pMsg
    [] OTHER -> deal.pMsg

MessageOwnedOnce ==
  /\ heap = {Owned(w) : w \in Owners}
  /\ \A v, w \in Owners : Owned(v) = Owned(w) => v = w

(* The two hash tables behave as maps, across collisions and erasures, and  *)
(* every message is given to the first function registered for its type     *)
(* (hash_table.h:73-144, net_despatch.cpp:17-44).                           *)
Router == INSTANCE MessageRouter WITH
            funs <- AsMap(m_funMap, Type, NULL),
            partial <- AsMap(m_recvMsgList, Sock, NULL)

ImplementsRouter == Router!Spec

(* PTL_Test reads what the client wrote: every field of a complete request; *)
(* of a request cut short no number that the client did not write, and a    *)
(* string of bytes that stand together in the message behind its head, the  *)
(* last one just before m_readPos; these may be the bytes of another field, *)
(* for ReadString goes on where a number did not fit.  m_readPos stays      *)
(* inside of the message (net_message.cpp:161-188, net_packdeal.cpp:32-38). *)
FieldsReadAsWritten ==
  read # NULL =>
    LET f == read.request.fields
        m == Body(read.request)
        str == read.fields.str
    IN /\ read.pos <= Len(m)
       /\ Len(Fields(f)) = HeadLen + read.request.kept => read.fields = f
       /\ \A x \in {"u8", "u16", "u32", "u64"} : read.fields[x] \in {f[x], Zeros[x]}
       /\ HeadLen + Len(str) <= read.pos
       /\ \A k \in 1..Len(str) : str[k] = m[read.pos - Len(str) + k]
=============================================================================
