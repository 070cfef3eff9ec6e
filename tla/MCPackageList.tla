---------------------------- MODULE MCPackageList ----------------------------
(* Two sockets, four messages, a quota of 1 + 1 nodes: one socket can reach *)
(* its quota and be refused, and both can be purged while a permit is held. *)
EXTENDS PackageList

CONSTANTS s1, s2, m1, m2, m3, m4

MCSock == {s1, s2}
MCMsg == {m1, m2, m3, m4}
=============================================================================
