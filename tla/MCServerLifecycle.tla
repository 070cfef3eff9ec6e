-------------------------- MODULE MCServerLifecycle --------------------------
(* Three signals: one that is lost, one that stops the server, one that     *)
(* comes while it stops.                                                    *)
EXTENDS ServerLifecycle
=============================================================================
