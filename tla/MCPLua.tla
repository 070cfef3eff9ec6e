------------------------------- MODULE MCPLua -------------------------------
(* Small instances of PLua: one for what scripts do with objects, and calls  *)
(* and reads meanwhile; one with more formats and paths.                    *)
EXTENDS PLua

CONSTANTS L1, L2, o1, o2, h1, h2

Str1(t) == [kind |-> "string", text |-> t]
Fn == [kind |-> "function", text |-> ""]
Fmt(args, sep, res) == [args |-> args, sep |-> sep, res |-> res]

\* The script of readme.txt with a table one level deeper, and one that
\* replaces the table and, loaded first, has no function.
MCFiles ==
  { [ok |-> TRUE, leaves |-> (<<"f">> :> Fn @@ <<"t", "a">> :> Str1("20")
       @@ <<"t", "b", "c">> :> Str1("30") @@ <<"t", "b", "d", "e">> :> Str1("40"))],
    [ok |-> TRUE, leaves |-> (<<"t">> :> Str1("60"))] }

\* Formats that the program may write: with an object and a 'd' behind it, with
\* an object behind the 'd', with an option of no type, with a result.
MCCalls ==
  [func : {"f"}, fmt : { Fmt(<<"t", "s", "d">>, FALSE, <<>>), Fmt(<<"d", "t">>, FALSE, <<>>),
                         Fmt(<<"t", "u">>, FALSE, <<>>), Fmt(<<"i">>, TRUE, <<"i">>) }]
MCKeys == {<<"t">>, <<"t", "a">>, <<"t", "b", "c">>, <<"t", "b", "d", "e">>, <<"f", "b", "c">>}

\* More of them: a number, which is a string too, a path of five keys, and a
\* file that does not compile.
MCCallFiles ==
  { [ok |-> TRUE, leaves |-> (<<"f">> :> Fn @@ <<"n">> :> [kind |-> "number", text |-> "10"]
       @@ <<"t", "a">> :> Str1("20") @@ <<"t", "b", "c">> :> Str1("30")
       @@ <<"t", "b", "d", "e">> :> Str1("40") @@ <<"t", "b", "d", "g", "e">> :> Str1("50"))],
    [ok |-> TRUE, leaves |-> (<<"t">> :> Str1("60"))], [ok |-> FALSE, leaves |-> <<>>] }

MCCallCalls ==
  [func : {"f"},
   fmt : { Fmt(<<>>, FALSE, <<>>), Fmt(<<"i", "t", "s">>, FALSE, <<>>), Fmt(<<"t", "t">>, FALSE, <<>>),
           Fmt(<<"t", "d", "i">>, FALSE, <<>>), Fmt(<<"d", "s">>, FALSE, <<>>), Fmt(<<"d", "u">>, FALSE, <<>>),
           Fmt(<<"t", "u">>, FALSE, <<>>), Fmt(<<"u", "u">>, FALSE, <<>>), Fmt(<<"x", "i">>, FALSE, <<>>),
           Fmt(<<"i">>, TRUE, <<"i">>), Fmt(<<"t", "s">>, TRUE, <<"i", "s">>) }]
MCCallKeys == { <<>>, <<"n">>, <<"t">>, <<"t", "a">>, <<"m", "a">>, <<"t", "b", "c">>, <<"n", "b", "c">>,
                <<"t", "b", "d", "e">>, <<"t", "b", "d", "g", "e">> }

MCSymmetry == Permutations(Interp) \cup Permutations(Obj) \cup Permutations(Handle)
=============================================================================
