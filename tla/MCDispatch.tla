----------------------------- MODULE MCDispatch -----------------------------
(* Tables of two buckets, two descriptors of the same bucket and one of the *)
(* other, two types of the same bucket registered, one of them twice, and   *)
(* one unknown; a complete request of PTL_Test and one cut in each of its   *)
(* last fields.                                                             *)
EXTENDS Dispatch, TLC

CONSTANTS o1, o2, o3, o4

MCBuckets == Rounded(2)
MCSock == {5, 6, 7}
MCFun == {"PTL_Test", "PTL_Other"}
Command(type, fun) == [comType |-> type, comFun |-> fun]
MCCommands == <<Command(1, "PTL_Test"), Command(3, "PTL_Other"), Command(1, "PTL_Other")>>
MCObj == {o1, o2, o3, o4}
Sent == [u8 |-> <<7>>, u16 |-> <<1, 2>>, u32 |-> <<1, 0, 3, 4>>,
         u64 |-> <<9, 8, 7, 6, 5, 4, 3, 2>>, str |-> <<97, 98>>]
Req(type, kept) == [type |-> type, fields |-> Sent, kept |-> kept]
MCRequest == {Req(1, 19), Req(1, 6), Req(1, 18), Req(3, 19), Req(5, 0)}
Symmetry == Permutations(MCObj)
=============================================================================
