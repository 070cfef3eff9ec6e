------------------------------ MODULE EventHub ------------------------------
(***************************************************************************)
(* What the event system does, one step per call: handlers registered per  *)
(* event type, in the order of their registration, a method as often as it *)
(* is registered; removing a method leaves the handlers of every other     *)
(* method in order; launching an event calls each handler registered at    *)
(* that moment, once and in order, and nothing changes the registrations   *)
(* of any type meanwhile.                                                  *)
(***************************************************************************)
EXTENDS Subsequence

CONSTANTS Thread, EventType, Handler, MethodOf(_), MaxLen

VARIABLES
  handlers,  \* per event type: the registered handlers
  due        \* per thread: the handlers its event has yet to be given to

Quiet == \A t \in Thread : due[t] = <<>>

Init ==
  /\ handlers = [e \in EventType |-> <<>>]
  /\ due = [t \in Thread |-> <<>>]

\* Removing method m may leave the positions K: every handler of another
\* method, and of neighbours with m neither the first nor two in a row.
Spares(list, m, K) ==
  /\ \A k \in DOMAIN list : MethodOf(list[k]) # m => k \in K
  /\ \A k \in K : MethodOf(list[k]) = m => k - 1 \in DOMAIN list \ K

Push(e, h) ==
  /\ Quiet
  /\ Len(handlers[e]) < MaxLen
  /\ handlers' = [handlers EXCEPT ![e] = Append(@, h)]
  /\ UNCHANGED due

PopMethod(e, m) ==
  /\ Quiet
  /\ \E K \in SUBSET DOMAIN handlers[e] :
       /\ Spares(handlers[e], m, K)
       /\ handlers' = [handlers EXCEPT ![e] = Keep(@, K)]
  /\ UNCHANGED due

PopType(e) ==
  /\ Quiet
  /\ handlers' = [handlers EXCEPT ![e] = <<>>]
  /\ UNCHANGED due

Launch(t, e) ==
  /\ Quiet
  /\ due' = [due EXCEPT ![t] = handlers[e]]
  /\ UNCHANGED handlers

Call(t) ==
  /\ due[t] # <<>>
  /\ due' = [due EXCEPT ![t] = Tail(@)]
  /\ UNCHANGED handlers

Next ==
  \/ \E e \in EventType, h \in Handler : Push(e, h)
  \/ \E e \in EventType, h \in Handler : PopMethod(e, MethodOf(h))
  \/ \E e \in EventType : PopType(e)
  \/ \E t \in Thread, e \in EventType : Launch(t, e)
  \/ \E t \in Thread : Call(t)

Spec == Init /\ [][Next]_<<handlers, due>>
=============================================================================
