--------------------------- MODULE MCSocketServer ---------------------------
(* Two clients, up to three messages each and two of them queued at once,  *)
(* one or two descriptors, a send buffer of one reply: a descriptor is      *)
(* reused, the third message meets the quota, replies wait for EPOLLOUT,    *)
(* and accept runs out of descriptors.                                      *)
EXTENDS SocketServer, TLC

CONSTANTS c1, c2

Sym == Permutations({c1, c2})

MCConn == {c1, c2}
=============================================================================
