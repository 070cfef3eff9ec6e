---------------------------- MODULE MCSendStream -----------------------------
(* A uint16 of four bits.  Replies are a head only, or longer than half of  *)
(* the maximum, so that two of them do not fit together.                    *)
EXTENDS SendStream

MCLens == {4, 9}
=============================================================================
