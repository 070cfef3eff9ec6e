--------------------------- MODULE MessageRouter ---------------------------
(***************************************************************************)
(* What the tables of the server promise together: one partial message per *)
(* descriptor, one function per message type, the first one registered,    *)
(* and every message handled by the function of its type.                  *)
(***************************************************************************)
CONSTANTS Sock, Type, Fun, Obj

VARIABLES
  funs,     \* type -> function, for the types registered
  partial,  \* descriptor -> message being received, for those that have one
  called    \* the last message handled: its type and the function called

Init ==
  /\ funs = [x \in {} |-> x]
  /\ partial = [x \in {} |-> x]
  /\ called = {}

Register(type, fun) ==
  /\ type \notin DOMAIN funs
  /\ funs' = [x \in DOMAIN funs \cup {type} |-> IF x = type THEN fun ELSE funs[x]]
  /\ UNCHANGED <<partial, called>>

Receive(sock, pMsg) ==
  /\ pMsg \notin {partial[s] : s \in DOMAIN partial}
  /\ partial' = [s \in DOMAIN partial \cup {sock} |-> IF s = sock THEN pMsg ELSE partial[s]]
  /\ UNCHANGED <<funs, called>>

Drop(sock) ==
  /\ partial' = [s \in DOMAIN partial \ {sock} |-> partial[s]]
  /\ UNCHANGED <<funs, called>>

Handle(type) ==
  /\ called' = {<<type, fun>> : fun \in {funs[x] : x \in DOMAIN funs \cap {type}}}
  /\ UNCHANGED <<funs, partial>>

Next ==
  \/ \E type \in Type, fun \in Fun : Register(type, fun)
  \/ \E sock \in Sock, pMsg \in Obj : Receive(sock, pMsg)
  \/ \E sock \in Sock : Drop(sock)
  \/ \E type \in Type : Handle(type)

Spec == Init /\ [][Next]_<<funs, partial, called>>
=============================================================================
