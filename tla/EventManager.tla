---------------------------- MODULE EventManager ----------------------------
(***************************************************************************)
(* EventManager (event_manager.h): Push, Pop and Launch of several threads,*)
(* with the iterators of their loops.                                      *)
(*                                                                         *)
(* A handler is a method bound to an object; Pop compares the methods only *)
(* (functor.obj_ptr).  Its loop moves on twice after an erase, and after   *)
(* the erase of the last node it increments end(), which in libstdc++'s    *)
(* circular list is begin() again.                                         *)
(***************************************************************************)
EXTENDS Subsequence, SequencesExt

CONSTANTS
  Thread,
  EventType,
  Handler,    \* bound methods: records [method, object]
  MaxLen,     \* bound: handlers of a type
  NULL

ASSUME ConstantsAssumption ==
  /\ \A h \in Handler : DOMAIN h = {"method", "object"}
  /\ MaxLen \in Nat
  /\ NULL \notin Thread

VARIABLES
  m_eveMap,   \* std::map<EventType, eveList_t>
  m_mutex,    \* the thread inside, or NULL
  op,         \* per thread: the loop it is in, its event type and handler, its iterator
  found       \* history: the list that the Pop in progress found

vars == <<m_eveMap, m_mutex, op, found>>

Idle == [pc |-> "idle"]
Pops(e, h, it) == [pc |-> "pop", type |-> e, eveFunc |-> h, it |-> it]
Launches(e, it) == [pc |-> "launch", type |-> e, it |-> it]

\* the iterator is a position, end() the one after the last node
Position == 1 .. MaxLen + 1

Ops == {Idle} \cup {Pops(e, h, it) : e \in EventType, h \in Handler, it \in Position}
              \cup {Launches(e, it) : e \in EventType, it \in Position}

TypeOK ==
  /\ found \in Seq(Handler) /\ Len(found) <= MaxLen
  /\ DOMAIN m_eveMap \subseteq EventType
  /\ \A e \in DOMAIN m_eveMap :
       m_eveMap[e] \in Seq(Handler) /\ Len(m_eveMap[e]) <= MaxLen
  /\ m_mutex \in Thread \cup {NULL}
  /\ op \in [Thread -> Ops]
  /\ \A t \in Thread : op[t] # Idle => /\ m_mutex = t
                                      /\ op[t].type \in DOMAIN m_eveMap
                                      /\ op[t].it <= Len(m_eveMap[op[t].type]) + 1

Init ==
  /\ m_eveMap = [e \in {} |-> <<>>]
  /\ m_mutex = NULL
  /\ op = [t \in Thread |-> Idle]
  /\ found = <<>>

GetList(e) == IF e \in DOMAIN m_eveMap THEN m_eveMap[e] ELSE <<>>

WithList(e, list) ==
  [x \in DOMAIN m_eveMap \cup {e} |-> IF x = e THEN list ELSE m_eveMap[x]]

(***************************************************************************)
(* Operators named X_Mistake are X with a plausible mistake; no action     *)
(* uses them.                                                              *)
(***************************************************************************)
\* scoped_lock
Free_NotTaken == TRUE
Free == m_mutex = NULL

\* ++it on a list with n nodes
Succ_AtLast(it, n) == IF it >= n THEN 1 ELSE it + 1
Succ(it, n) == IF it = n + 1 THEN 1 ELSE it + 1

\* the comparison of Pop: the method alone
SameFunc_Object(h, g) == h.object = g.object
SameFunc(h, g) == h.method = g.method

(* Push: the whole call is under the lock *)
Push(t, e, h) ==
  /\ Free
  /\ op[t] = Idle
  /\ Len(GetList(e)) < MaxLen
  /\ m_eveMap' = WithList(e, Append(GetList(e), h))
  /\ UNCHANGED <<m_mutex, op, found>>

(* Pop without a function: the list of the type goes *)
PopType(t, e) ==
  /\ Free
  /\ op[t] = Idle
  /\ m_eveMap' = [x \in DOMAIN m_eveMap \ {e} |-> m_eveMap[x]]
  /\ UNCHANGED <<m_mutex, op, found>>

(* Pop with a function, up to the loop; a type without a list returns *)
PopBegin(t, e, h) ==
  /\ Free
  /\ op[t] = Idle
  /\ e \in DOMAIN m_eveMap
  /\ m_mutex' = t
  /\ op' = [op EXCEPT ![t] = Pops(e, h, 1)]
  /\ found' = m_eveMap[e]
  /\ UNCHANGED m_eveMap

(* one turn of the loop: compare, perhaps erase, ++listIt *)
PopStep(t) ==
  /\ op[t].pc = "pop"
  /\ LET e == op[t].type
         it == op[t].it
         list == m_eveMap[e]
         rest == IF SameFunc(list[it], op[t].eveFunc) THEN RemoveAt(list, it) ELSE list
     IN /\ it <= Len(list)
        /\ m_eveMap' = WithList(e, rest)
        /\ op' = [op EXCEPT ![t].it = Succ(it, Len(rest))]
  /\ UNCHANGED <<m_mutex, found>>

PopEnd(t) ==
  /\ op[t].pc = "pop"
  /\ op[t].it = Len(m_eveMap[op[t].type]) + 1
  /\ op' = [op EXCEPT ![t] = Idle]
  /\ m_mutex' = NULL
  /\ found' = <<>>
  /\ UNCHANGED m_eveMap

(* Launch, up to the loop; a type without a list returns *)
LaunchBegin(t, e) ==
  /\ Free
  /\ op[t] = Idle
  /\ e \in DOMAIN m_eveMap
  /\ m_mutex' = t
  /\ op' = [op EXCEPT ![t] = Launches(e, 1)]
  /\ UNCHANGED <<m_eveMap, found>>

(* the handler at the iterator runs, under the lock, and returns *)
LaunchCall(t) ==
  /\ op[t].pc = "launch"
  /\ op[t].it <= Len(m_eveMap[op[t].type])
  /\ op' = [op EXCEPT ![t].it = Succ(@, Len(m_eveMap[op[t].type]))]
  /\ UNCHANGED <<m_eveMap, m_mutex, found>>

LaunchEnd(t) ==
  /\ op[t].pc = "launch"
  /\ op[t].it = Len(m_eveMap[op[t].type]) + 1
  /\ op' = [op EXCEPT ![t] = Idle]
  /\ m_mutex' = NULL
  /\ UNCHANGED <<m_eveMap, found>>

Continue(t) == PopStep(t) \/ PopEnd(t) \/ LaunchCall(t) \/ LaunchEnd(t)

Next ==
  \E t \in Thread :
    \/ \E e \in EventType, h \in Handler : Push(t, e, h) \/ PopBegin(t, e, h)
    \/ \E e \in EventType : PopType(t, e) \/ LaunchBegin(t, e)
    \/ Continue(t)

Spec == Init /\ [][Next]_vars

(* A thread inside goes on: the scheduler runs it and its handlers return. *)
FairSpec == Spec /\ \A t \in Thread : WF_vars(Continue(t))

-----------------------------------------------------------------------------
(* The loops behave as EventHub's atomic operations: a Pop has its effect   *)
(* when it leaves, an event in the middle of Launch is still due to the     *)
(* handlers from the iterator on.                                           *)
Popping(e) == \E t \in Thread : op[t].pc = "pop" /\ op[t].type = e

Handlers(e) == IF Popping(e) THEN found ELSE GetList(e)

Due(t) == IF op[t].pc # "launch" THEN <<>>
          ELSE SubSeq(GetList(op[t].type), op[t].it, Len(GetList(op[t].type)))

Method(h) == h.method

Hub == INSTANCE EventHub WITH
         handlers <- [e \in EventType |-> Handlers(e)],
         due <- [t \in Thread |-> Due(t)],
         MethodOf <- Method

ImplementsHub == Hub!Spec

(* Every Pop and Launch that has the lock returns, Pop's walk around the    *)
(* end included (event_manager.h:71-76): otherwise no thread ever again     *)
(* registers or launches anything.                                          *)
OperationsReturn == \A t \in Thread : m_mutex = t ~> m_mutex # t

Registered(e, h) == \E i \in DOMAIN GetList(e) : SameFunc(GetList(e)[i], h)

(* "Handlers of several objects are removed together, by class and method"  *)
(* (the comment at event_manager.h:73): when Pop returns, none is left.     *)
PopRemovesMethod ==
  [][\A t \in Thread : op[t].pc = "pop" /\ op'[t] = Idle =>
       ~ Registered(op[t].type, op[t].eveFunc)]_vars
=============================================================================
