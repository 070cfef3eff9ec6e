---------------------------- MODULE MCRecvFraming ----------------------------
(* A uint16 of four bits, so that its bytes have two.                      *)
EXTENDS RecvFraming

MCLowByte == [f \in 0..15 |-> f % 4]

\* No body, a body within one byte, the longest message that is allowed.
MCFields == {0, 3, 11}

\* The lengths from the longest allowed to the longest that can be written.
MCLongFields == {0, 11, 14}
=============================================================================
