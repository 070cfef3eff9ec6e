------------------------------ MODULE MCDbPool ------------------------------
(* Three threads and one address more than they can use.  Statements give   *)
(* rows, no rows, an error, or (a stored procedure) two results, of which   *)
(* the second may be an error.                                              *)
EXTENDS DbPool, TLC

CONSTANTS u1, u2, u3, d1, d2, d3, d4

MCUser == {u1, u2, u3}
MCDB == {d1, d2, d3, d4}
MCReply == {<<"rows">>, <<"error">>, <<"none", "rows">>, <<"rows", "none">>,
            <<"rows", "error">>}
Symmetry == Permutations(MCUser) \cup Permutations(MCDB)
=============================================================================
