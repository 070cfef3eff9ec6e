-------------------------------- MODULE PLua --------------------------------
(***************************************************************************)
(* PLua (plua.cpp, plua.h): a Lua interpreter with one script file, from    *)
(* which C++ reads values and whose functions it calls.  What the functions *)
(* do with the C++ objects they are given is ScriptObjects.                 *)
(*                                                                          *)
(* An interpreter is used by one thread at a time: GetVal and Reload take   *)
(* its mutex, Call does not.                                                *)
(*                                                                          *)
(* The globals of an interpreter are a function from the paths of its       *)
(* leaves to their values: <<"t", "t2", "t3">> is t.t2.t3, and t and t.t2   *)
(* are tables.                                                              *)
(***************************************************************************)
EXTENDS ScriptObjects, SequencesExt

CONSTANTS Files,    \* what a script file can be: [leaves, ok]
          Calls,    \* the calls the program makes: [func, fmt]
          Keys,     \* the paths the program reads
          Other     \* what the caller's string holds before GetVal

VARIABLES globals,  \* the global variables of each interpreter
          state,    \* "none", or "idle", or "running" a call, or "dropped"
          call      \* the call each one runs

luaVars == <<globals, state, call>>
allVars == <<objVars, luaVars>>

\* A format as the program writes it: the options of the arguments, whether
\* there is a '>', and the options of the results after it.
Format == [args : Seq(STRING), sep : BOOLEAN, res : Seq(STRING)]

ASSUME FormatAssumption ==
  \A c \in Calls : c.func \in STRING /\ c.fmt \in Format /\ (~c.fmt.sep => c.fmt.res = <<>>)

\* The leaves of a file: what is under one is not a leaf, and no table has the
\* empty key, which GetValRest looks up.
ASSUME FilesAssumption ==
  \A file \in Files :
    /\ file.ok \in BOOLEAN
    /\ DOMAIN file.leaves \subseteq Seq(STRING) \ {<<>>}
    /\ \A p \in DOMAIN file.leaves :
         /\ "" \notin Range(p)
         /\ file.leaves[p].kind \in {"string", "number", "function"}
         /\ \A q \in DOMAIN file.leaves : ~IsStrictPrefix(p, q)

\* What a function can get; "junk" is a number, but not the one that was passed.
Values == {"number", "junk", "string", Nil} \cup Handle

\* A call that was made: the objects it was given, each where its option is,
\* and the values the function got.
Made == [event : {"call"}, in : Interp, runs : BOOLEAN, func : STRING, fmt : Format,
         objs : Seq(Obj \cup {Null}), called : STRING, args : Seq(Values)]

ASSUME CallAssumption == Keys \subseteq Seq(STRING) /\ Null \notin Made

LuaInit ==
  /\ ObjInit
  /\ globals = [L \in Interp |-> <<>>]
  /\ state = [L \in Interp |-> "none"]
  /\ call = [L \in Interp |-> Null]

LuaTypeOK ==
  /\ ObjTypeOK
  /\ DOMAIN globals = Interp
  /\ state \in [Interp -> {"none", "idle", "running", "dropped"}]
  /\ \A L \in Interp : state[L] = "none" <=> L \notin module
  /\ call \in [Interp -> Made \cup {Null}]
  /\ \A L \in Interp : call[L] = Null <=> state[L] # "running"

----------------------------------------------------------------------------
(* The script file.                                                         *)

\* What the file assigns replaces the globals of these names; the others stay.
Loaded(old, file) ==
  LET names == {p[1] : p \in DOMAIN file.leaves}
      kept  == {p \in DOMAIN old : p[1] \notin names}
  IN  [p \in kept \cup DOMAIN file.leaves |-> IF p \in kept THEN old[p] ELSE file.leaves[p]]

\* A file that does not compile assigns nothing.
Reloaded(L, file) == globals' = IF file.ok THEN [globals EXCEPT ![L] = Loaded(@, file)] ELSE globals

\* PLua's constructor.
Open(L) ==
  /\ state[L] = "none"
  /\ OpenModule(L)
  /\ \E file \in Files : Reloaded(L, file)
  /\ state' = [state EXCEPT ![L] = "idle"]
  /\ UNCHANGED call

Reload(L) ==
  /\ state[L] = "idle"
  /\ \E file \in Files : Reloaded(L, file)
  /\ seen' = Null
  /\ UNCHANGED <<objData, aborted, state, call>>

\* The destructor does not close the interpreter: the userdata and their
\* objects stay.  Nobody reads its globals again.
Destroy(L) ==
  /\ state[L] = "idle"
  /\ state' = [state EXCEPT ![L] = "dropped"]
  /\ globals' = [globals EXCEPT ![L] = <<>>]
  /\ seen' = Null
  /\ UNCHANGED <<objData, aborted, call>>

----------------------------------------------------------------------------
(* GetVal.                                                                  *)

\* The kind of the value at a path; a number is a string too.
Kind(L, p) ==
  IF p \in DOMAIN globals[L] THEN globals[L][p].kind
  ELSE IF \E q \in DOMAIN globals[L] : IsStrictPrefix(p, q) THEN "table" ELSE "nil"
IsTable(L, p) == Kind(L, p) = "table"
IsFunction(L, f) == Kind(L, <<f>>) = "function"
IsString(L, p) == Kind(L, p) \in {"string", "number"}

\* The value of the string after reading the key after a table, or the
\* global; anything but a string or a number leaves it alone.
Leaf(L, p, old) == IF IsString(L, p) THEN globals[L][p].text ELSE old

\* The later rounds of GetValList: the table at p is on the stack and argn keys
\* are left in ks.  With three or more of them the next key is not taken from
\* the arguments: the empty key is looked up, and no table has it.
GetValRest(L, p, argn, ks, old) ==
  CASE argn = 1 -> Leaf(L, p \o <<ks[1]>>, old)
    [] argn = 2 -> IF IsTable(L, p \o <<ks[1]>>) THEN Leaf(L, p \o <<ks[1], ks[2]>>, old) ELSE old
    [] OTHER    -> old

\* A slip: the second key is read again after it has been used.
GetValList_Twice(L, argn, ks, old) ==
  CASE argn = 0 -> ""
    [] argn = 1 -> Leaf(L, <<ks[1]>>, old)
    [] argn = 2 -> IF IsTable(L, <<ks[1]>>) THEN Leaf(L, <<ks[1], ks[2]>>, old) ELSE old
    [] OTHER    -> IF IsTable(L, <<ks[1], ks[2]>>)
                   THEN GetValRest(L, <<ks[1], ks[2]>>, argn - 2, SubSeq(ks, 2, argn), old) ELSE old
\* The first round.
GetValList(L, argn, ks, old) ==
  CASE argn = 0 -> ""
    [] argn = 1 -> Leaf(L, <<ks[1]>>, old)
    [] argn = 2 -> IF IsTable(L, <<ks[1]>>) THEN Leaf(L, <<ks[1], ks[2]>>, old) ELSE old
    [] OTHER    -> IF IsTable(L, <<ks[1], ks[2]>>)
                   THEN GetValRest(L, <<ks[1], ks[2]>>, argn - 2, SubSeq(ks, 3, argn), old) ELSE old

\* With three keys or more the first one is not tested: indexing what is not a
\* table is a Lua error outside any pcall, and Lua ends the process.
Panics(L, argn, ks) == argn >= 3 /\ Kind(L, <<ks[1]>>) \in {"nil", "number", "function"}

GetVal(L) ==
  /\ state[L] = "idle"
  /\ \E ks \in Keys :
       /\ aborted' = Panics(L, Len(ks), ks)
       /\ seen' = IF aborted' THEN Null
                  ELSE [event |-> "get", in |-> L, keys |-> ks, value |-> GetValList(L, Len(ks), ks, Other)]
  /\ UNCHANGED <<objData, globals, state, call>>

----------------------------------------------------------------------------
(* Call.                                                                    *)

TypeOf == [t |-> <<"CScriptTest", "*">>, u |-> <<"CUser", "*">>]

\* Whether an option puts a value on the Lua stack: not when the type is not
\* known or the option is none.
Puts(L, opt) == opt \in {"d", "i", "s"} \/ (opt \in DOMAIN TypeOf /\ TypeQuery(L, TypeOf[opt]) # {})

\* Behind the first 'd', itself included: the double that is passed for it is
\* read as an int, so from there on va_arg reads what was not passed for it.
Misread(opts, i) == \E k \in 1 .. i : opts[k] = "d"

\* The value; h is the userdata of the object.
ValueOf(opts, i, h) ==
  CASE opts[i] \in {"d", "i"} -> IF Misread(opts, i) THEN "junk" ELSE "number"
    [] opts[i] = "s"          -> "string"
    [] OTHER                  -> Pushed(h)
ValuesOf(opts, hs) == [i \in DOMAIN opts |-> ValueOf(opts, i, hs[i])]

\* The stack before lua_pcall: the global and the values.
Putting(L, opts) == {i \in DOMAIN opts : Puts(L, opts[i])}
Stack(L, f, opts, hs) == <<Kind(L, <<f>>)>> \o Keep(ValuesOf(opts, hs), Putting(L, opts))

\* The objects os of the options "t" get the userdata hs, NULL gets none.
PushPointers(L, opts, os, hs) ==
  LET new == {i \in DOMAIN opts : opts[i] = "t" /\ os[i] # Null} IN
  /\ \A i \in DOMAIN opts : IF i \in new THEN hs[i] \in Handle /\ ud[hs[i]] = Null ELSE hs[i] = Null
  /\ \A i \in DOMAIN opts : opts[i] # "t" => os[i] = Null
  /\ \A i, k \in new : hs[i] = hs[k] => i = k
  /\ ud' = [h \in Handle |-> IF \E i \in new : hs[i] = h
                            THEN UserDatum(L, os[CHOOSE i \in new : hs[i] = h], "CScriptTest", FALSE) ELSE ud[h]]
  /\ held' = held \cup {hs[i] : i \in new}

\* A slip: an object is pushed but not counted.
ArgCount_NoObject(fmt) == Cardinality({i \in DOMAIN fmt.args : fmt.args[i] # "t"}) + (IF fmt.sep THEN 1 ELSE 0)
\* Each option counts as an argument, pushed or not; the '>' runs into the
\* default case and counts as well.
ArgCount(fmt) == Len(fmt.args) + (IF fmt.sep THEN 1 ELSE 0)

\* The results a call takes: one that is not of the type its option asks for
\* ends the reading, an option that is none takes nothing.
Fits(opt, v) == \/ opt \in {"d", "i"} /\ v = "number"
                \/ opt = "s" /\ v \in {"number", "string"}
                \/ opt \notin {"d", "i", "s"}
Taken(res, vs) ==
  LET fit == {n \in 0 .. Len(res) : \A i \in 1 .. n : Fits(res[i], vs[i])}
      n == CHOOSE m \in fit : \A k \in fit : k <= m
  IN  SubSeq(vs, 1, n)

\* A call whose behaviour is undefined: a pointer is read that was not passed,
\* or lua_pcall takes a value from two or more below the stack.
Astray(L, fmt) ==
  \/ \E i \in DOMAIN fmt.args : fmt.args[i] \in {"s", "t"} /\ Misread(fmt.args, i)
  \/ 1 + Cardinality(Putting(L, fmt.args)) < ArgCount(fmt)
CallAstray(L, fmt) ==
  /\ state[L] = "idle" /\ Astray(L, fmt)
  /\ aborted' = TRUE
  /\ seen' = Null
  /\ UNCHANGED <<objData, luaVars>>

\* lua_pcall calls the value below the last ArgCount(fmt) of them.  The slot
\* just below the stack holds no function: the call is refused and logged.
Call(L, f, fmt, os, hs) ==
  /\ state[L] = "idle" /\ ~Astray(L, fmt)
  /\ PushPointers(L, fmt.args, os, hs)
  /\ LET stack == Stack(L, f, fmt.args, hs)
         slot  == Len(stack) - ArgCount(fmt)
         runs  == slot > 0 /\ stack[slot] = "function"
         made  == [event |-> "call", in |-> L, runs |-> runs, func |-> f, fmt |-> fmt, objs |-> os,
                   called |-> IF runs /\ slot = 1 THEN f ELSE "",
                   args |-> IF runs THEN SubSeq(stack, slot + 1, Len(stack)) ELSE <<>>]
     IN  /\ seen' = made
         /\ state' = [state EXCEPT ![L] = IF runs THEN "running" ELSE "idle"]
         /\ call' = [call EXCEPT ![L] = IF runs THEN made ELSE Null]
  /\ UNCHANGED <<initialized, casts, module, registry, obj, finalized, byHand, ended, aborted, globals>>

\* The function returns; Lua gives the call as many results as it asked for.
Return(L) ==
  /\ state[L] = "running"
  /\ state' = [state EXCEPT ![L] = "idle"]
  /\ call' = [call EXCEPT ![L] = Null]
  /\ \E vs \in [DOMAIN call[L].fmt.res -> {"number", "string", "nil"}] :
       seen' = [event |-> "return", out |-> Taken(call[L].fmt.res, vs)]
  /\ UNCHANGED <<objData, aborted, globals>>

\* The function ends with an error, which pcall returns and Call logs.
Raise(L) ==
  /\ state[L] = "running"
  /\ state' = [state EXCEPT ![L] = "idle"]
  /\ call' = [call EXCEPT ![L] = Null]
  /\ seen' = Null
  /\ UNCHANGED <<objData, aborted, globals>>

----------------------------------------------------------------------------

Script(L) ==
  /\ state[L] = "running"
  /\ \E h \in Handle : \/ \E v \in Handle \cup {Nil} : ScriptUse(L, h, v) \/ ScriptGc(L, h, v)
                       \/ ScriptForeign(L, h)
                       \/ \E o \in Obj, t \in Types : ScriptNew(L, h, o, t)
                       \/ h \notin Range(call[L].args) /\ ScriptDrop(L, h)
  /\ UNCHANGED <<globals, state, call>>

\* The stack of an idle interpreter refers to nothing that is of use later,
\* and its collector may run at the next call.
Unheld(L) ==
  /\ state[L] \in {"idle", "running"}
  /\ \E h \in Handle : Collect(L, h) \/ (state[L] = "idle" /\ ScriptDrop(L, h))
  /\ UNCHANGED <<globals, state, call>>

\* C++ keeps an object at least as long as a call that was given it.
Program ==
  /\ \E o \in Obj : \/ CppNew(o)
                    \/ (\A L \in Interp : state[L] = "running" => o \notin Range(call[L].objs)) /\ CppDelete(o)
  /\ UNCHANGED <<globals, state, call>>

CppObject == {p \in Obj : Live(p) /\ obj[p].by = "cpp"}
\* The sequences with one of S at these options, and NULL at the others.
Given(args, at, S) == {[i \in DOMAIN args |-> IF i \in at THEN f[i] ELSE Null] : f \in [at -> S]}
\* A call with whatever objects C++ has, for its options "t".
Calling(L) ==
  /\ state[L] = "idle"
  /\ \E c \in Calls :
       \/ CallAstray(L, c.fmt)
       \/ \E os \in Given(c.fmt.args, {i \in DOMAIN c.fmt.args : c.fmt.args[i] = "t"}, CppObject \cup {Null}) :
            \E hs \in Given(c.fmt.args, {i \in DOMAIN os : os[i] # Null}, Handle) : Call(L, c.func, c.fmt, os, hs)

LuaNext ==
  /\ ~aborted
  /\ \/ Program
     \/ \E L \in Interp :
          \/ Open(L) \/ Reload(L) \/ Destroy(L) \/ GetVal(L)
          \/ Calling(L) \/ Return(L) \/ Raise(L) \/ Script(L) \/ Unheld(L)

LuaSpec == LuaInit /\ [][LuaNext]_allVars

----------------------------------------------------------------------------
(* Properties.                                                              *)

\* An object a script made (own = 1, SWIG_Lua_NewPointerObj) is owned by one
\* userdata until __gc deletes it, and by none afterwards: it is neither
\* leaked nor deleted twice, through however many userdata and interpreters.
\* Of an object whose __gc a script has called itself the property says only
\* that it was the script's.  An object of C++ (PushPointer, own = 0) is never
\* owned by a script, and no script deletes it.
Owners(o) == {h \in Handle : ud[h] # Null /\ ud[h].own /\ ud[h].ptr = o}
ScriptsOwnOnlyTheirs ==
  /\ \A o \in Obj \ byHand : obj[o] # Null =>
       finalized[o] + Cardinality(Owners(o)) = IF obj[o].by = "script" THEN 1 ELSE 0
  /\ \A o \in byHand : obj[o].by = "script"

\* The C++ code of a wrapper works on an object of its own class, whatever
\* value of whatever class the script hands to it (SWIG_Lua_ConvertPtr), and
\* on one that still exists if a script made it and has not called its __gc.
WrappersAreSafe ==
  seen # Null /\ seen.event = "use" =>
    /\ obj[seen.obj].type = seen.type
    /\ obj[seen.obj].by = "script" /\ seen.obj \notin byHand => Live(seen.obj)

\* Unless a script itself calls __gc, each object is deleted once, by the side
\* that made it, and no wrapper touches one that the collector has deleted; a
\* script that does call it reaches only objects of its own, and no wrapper
\* takes an object of the other class for its own (swig_wrap.cpp:1314-1357).
ObjectsAreSafe == ScriptsOwnOnlyTheirs /\ WrappersAreSafe

\* What own says of a userdata (swig_wrap.cpp:802, "1 if owned & must be
\* destroyed"): its object still has to be deleted.
OwnedMustBeDestroyed == \A h \in Handle : ud[h] # Null /\ ud[h].own => Live(ud[h].ptr)

\* The arguments a format describes, each of its kind up to the first 'd'; an
\* object arrives as a userdata of the object, of its class, or as nil for
\* NULL.
Matches(c) ==
  /\ c.called = c.func /\ Len(c.args) = Len(c.fmt.args)
  /\ \A i \in DOMAIN c.args : ~Misread(c.fmt.args, i) =>
       CASE c.fmt.args[i] = "i" -> c.args[i] = "number"
         [] c.fmt.args[i] = "s" -> c.args[i] = "string"
         [] OTHER -> IF c.objs[i] = Null THEN c.args[i] = Nil
                     ELSE /\ c.args[i] \in Handle
                          /\ ud[c.args[i]].ptr = c.objs[i] /\ ud[c.args[i]].meta = obj[c.objs[i]].type

Plain(fmt) == \A i \in DOMAIN fmt.args : fmt.args[i] \in {"d", "i", "s", "t"}

\* PLua::Call with known options and no results runs the named function,
\* provided it is a function, with as many arguments as there are options and
\* each of them the one that was passed, up to the first 'd'; with any other
\* format it runs either that or nothing.  A call whose behaviour is undefined
\* (a pointer after a 'd', two options or more that put nothing) is no "call"
\* here, and nothing is said of it.
CallReachesFunction ==
  seen # Null /\ seen.event = "call" =>
    IF seen.runs THEN Matches(seen)
    ELSE ~(IsFunction(seen.in, seen.func) /\ Plain(seen.fmt) /\ ~seen.fmt.sep)

\* The function gets the numbers that were passed, a double for a 'd' among
\* them (plua.cpp:76, "double").
NumbersArrive ==
  seen # Null /\ seen.event = "call" => "junk" \notin Range(seen.args)

\* A call that asks for results is made like one that does not (plua.cpp:98,
\* the '>' separates the arguments from the results).
ResultsReturned ==
  seen # Null /\ seen.event = "call" /\ ~seen.runs => ~(IsFunction(seen.in, seen.func) /\ Plain(seen.fmt))

\* GetVal with one to four keys, what readme.txt:199 shows, reads the string
\* at the end of the path, and leaves the caller's string alone if there is
\* none.
ReadsLeaf == seen.value = Leaf(seen.in, seen.keys, Other)
GetValFollowsPath == seen # Null /\ seen.event = "get" /\ Len(seen.keys) \in 1 .. 4 => ReadsLeaf

\* So does GetVal with more of them (plua.h:20, readme.txt:195).
GetValFollowsAnyPath == seen # Null /\ seen.event = "get" /\ seen.keys # <<>> => ReadsLeaf
=============================================================================
