--------------------------- MODULE MCEventManager ---------------------------
(* Two threads and two event types; handlers of two methods, in lists that  *)
(* take Pop around the end more than once, or two objects with one method.   *)
EXTENDS EventManager

CONSTANTS t1, t2, Eve_Test, Eve_Test1

MCThread == {t1, t2}
MCEventType == {Eve_Test, Eve_Test1}
H(m, o) == [method |-> m, object |-> o]
MCHandler == {H("OnA", 1), H("OnA", 2), H("OnB", 1)}
TwoMethods == {H("OnA", 1), H("OnB", 1)}
=============================================================================
