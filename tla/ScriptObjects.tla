--------------------------- MODULE ScriptObjects ---------------------------
(***************************************************************************)
(* C++ objects as Lua scripts reach them: the type table, the class         *)
(* metatables, the userdata and the wrapper functions that SWIG generated   *)
(* for PLua (swig_wrap.cpp, swig_wrap.h).                                   *)
(*                                                                          *)
(* A userdata is a pointer to an object, its type and whether the script    *)
(* owns the object, i.e. whether __gc deletes it.  The contents of the      *)
(* objects are not modelled, only which object a wrapper touches and as     *)
(* what.  A wrapper that raises a Lua error changes nothing here; one that  *)
(* dereferences NULL ends the process, and so does undefined behaviour,     *)
(* after which the model says nothing.                                      *)
(***************************************************************************)
EXTENDS Subsequence, Functions

CONSTANTS Interp,   \* the Lua interpreters, one for each PLua
          Obj,      \* the addresses objects are created at (not reused)
          Handle,   \* the userdata that can exist
          Null,     \* the NULL pointer, and no userdata
          Nil       \* the Lua value nil

VARIABLES initialized,  \* swig_module.next: the type table has been filled
          casts,        \* the list of types each type can be cast from
          module,       \* the interpreters whose registry points to swig_module
          registry,     \* the class metatables in the registry of each one
          obj,          \* the objects: their type and who made them
          finalized,    \* how often __gc deleted each object
          byHand,       \* those of them that a script's own call of __gc deleted
          ended,        \* the objects C++ deleted
          ud,           \* the userdata
          held,         \* the userdata the script still refers to
          seen,         \* what the last step did that can be seen: an event, or Null
          aborted       \* whether the process has crashed, or its behaviour is undefined

objData == <<initialized, casts, module, registry, obj, finalized, byHand, ended, ud, held>>
objVars == <<objData, seen, aborted>>

Types == {"CScriptTest", "string"}
Str == [CScriptTest |-> <<"CScriptTest", " ", "*">>, string |-> <<"std::string", " ", "*">>]

Object == [type : Types, by : {"cpp", "script"}]
Userdata == [in : Interp, ptr : Obj, type : Types, own : BOOLEAN, meta : Types \cup {Null}]

ASSUME ObjectsAssumption == /\ Null \notin Obj \cup Handle \cup Types \cup Object \cup Userdata
                            /\ Nil \notin Handle

Live(o) == obj[o] # Null /\ finalized[o] = 0 /\ o \notin ended
UserData(L) == {h \in Handle : ud[h] # Null /\ ud[h].in = L}

ObjInit ==
  /\ initialized = FALSE /\ casts = [t \in Types |-> <<>>]
  /\ module = {} /\ registry = [L \in Interp |-> {}]
  /\ obj = [o \in Obj |-> Null] /\ finalized = [o \in Obj |-> 0] /\ byHand = {} /\ ended = {}
  /\ ud = [h \in Handle |-> Null] /\ held = {}
  /\ seen = Null /\ aborted = FALSE

ObjTypeOK ==
  /\ initialized \in BOOLEAN
  /\ casts = [t \in Types |-> IF initialized THEN <<t>> ELSE <<>>]
  /\ module \subseteq Interp
  /\ registry = [L \in Interp |-> IF L \in module THEN Types ELSE {}]
  /\ obj \in [Obj -> Object \cup {Null}]
  /\ finalized \in [Obj -> 0 .. 2]
  /\ ~aborted => \A o \in Obj : finalized[o] <= 1
  /\ byHand \subseteq Obj
  /\ ended \subseteq Obj
  /\ ud \in [Handle -> Userdata \cup {Null}]
  /\ held \subseteq {h \in Handle : ud[h] # Null}
  /\ seen # Null => seen.event \in {"use", "get", "call", "return"}
  /\ aborted \in BOOLEAN

----------------------------------------------------------------------------
(* SWIG_init: the type table is filled for the first interpreter only, the  *)
(* metatables of the classes are made in every one.                         *)

\* A slip: the types of an initialized table are added again.
InitializeModule_Again(L) ==
  /\ initialized' = TRUE
  /\ module' = module \cup {L}
  /\ casts' = [t \in Types |-> <<t>> \o casts[t]]
InitializeModule(L) ==
  /\ initialized' = TRUE
  /\ module' = module \cup {L}
  /\ casts' = IF initialized THEN casts ELSE [t \in Types |-> <<t>> \o casts[t]]

ClassRegister(L) == registry' = [registry EXCEPT ![L] = @ \cup Types]

OpenModule(L) ==
  /\ InitializeModule(L)
  /\ ClassRegister(L)
  /\ seen' = Null
  /\ UNCHANGED <<obj, finalized, byHand, ended, ud, held, aborted>>

NoSpaces(name) == Keep(name, {i \in DOMAIN name : name[i] # " "})

Mangled == [t \in Types |-> NoSpaces(Str[t])]

\* The types known to the interpreter under this name: one, or none.
TypeQuery(L, name) ==
  LET n == NoSpaces(name) IN {t \in Types : L \in module /\ Mangled[t] = n}

----------------------------------------------------------------------------
(* Userdata.                                                                *)

\* "meta" is the class whose metatable it gets, if the interpreter has that.
UserDatum(L, o, t, own) ==
  [in |-> L, ptr |-> o, type |-> t, own |-> own, meta |-> IF t \in registry[L] THEN t ELSE Null]

\* h becomes a userdata for o; for NULL the value pushed is nil instead.
NewPointerObj(L, h, o, t, own) ==
  IF o = Null THEN h = Null /\ UNCHANGED <<ud, held>>
  ELSE /\ h \in Handle /\ ud[h] = Null
       /\ ud' = [ud EXCEPT ![h] = UserDatum(L, o, t, own)]
       /\ held' = held \cup {h}
Pushed(h) == IF h = Null THEN Nil ELSE h

\* A slip: any userdata will do.
TypeCheckStruct_Any(from, t) == TRUE
TypeCheckStruct(from, t) == from \in Range(casts[t])

\* The pointers the Lua value v converts to as a t: at most one, NULL for nil.
ConvertPtr(v, t) ==
  IF v = Nil THEN {Null}
  ELSE {ud[h].ptr : h \in {g \in Handle : g = v /\ ud[g] # Null /\ TypeCheckStruct(ud[g].type, t)}}

\* __gc: the object of a userdata that owns it is deleted; own stays set.  A
\* second delete of an object is undefined behaviour.
Deletes(h, o) == ud[h].meta # Null /\ ud[h].own /\ ud[h].ptr = o
ClassDestruct(h) ==
  /\ finalized' = [o \in Obj |-> finalized[o] + (IF Deletes(h, o) THEN 1 ELSE 0)]
  /\ aborted' = \E o \in Obj : finalized'[o] > 1

----------------------------------------------------------------------------
(* The wrappers: the Lua types of the value each one takes beside the       *)
(* object ("none" for no value), and whether it tests the pointer.          *)

Takes(args, null) == [args |-> args, null |-> null]

StringFn ==
  [size   |-> Takes({"none"}, FALSE), length |-> Takes({"none"}, FALSE),
   empty  |-> Takes({"none"}, FALSE), c_str  |-> Takes({"none"}, FALSE),
   data   |-> Takes({"none"}, FALSE), assign |-> Takes({"string", "number", "nil"}, FALSE)]

ScriptTestSet == [m_id |-> Takes({"number"}, TRUE), m_name |-> Takes({"string", "number"}, TRUE)]
ScriptTestGet == [m_id |-> Takes({"none"}, FALSE), m_name |-> Takes({"none"}, FALSE)]
ScriptTestFn  == [ScriptTest |-> Takes({"none"}, FALSE), Change |-> Takes({"none"}, FALSE)]

ClassGet(c) == IF c = "string" THEN Range(StringFn) ELSE Range(ScriptTestGet) \cup Range(ScriptTestFn)
ClassSet(c) == IF c = "string" THEN {} ELSE Range(ScriptTestSet)

\* The script takes a wrapper from a userdata h, or from the metatable of h,
\* and calls it with a value v, usually h, and an argument a.  On an object
\* that was deleted it may end the process.
ScriptUse(L, h, v) ==
  /\ h \in UserData(L) \cap held /\ ud[h].meta # Null
  /\ v \in (UserData(L) \cap held) \cup {Nil}
  /\ LET c == ud[h].meta IN
     \E w \in ClassGet(c) \cup ClassSet(c) : \E a \in w.args, p \in ConvertPtr(v, c) :
       LET crash == (p = Null /\ ~w.null) \/ (p # Null /\ a = "nil") IN
       /\ aborted' \in {crash, crash \/ (p # Null /\ ~Live(p))}
       /\ seen' = IF p = Null \/ crash THEN Null ELSE [event |-> "use", obj |-> p, type |-> c]
  /\ UNCHANGED objData

\* The script calls the __gc of the same metatable itself; on nil that
\* dereferences NULL.
ScriptGc(L, h, v) ==
  /\ h \in UserData(L) \cap held /\ ud[h].meta # Null
  /\ \/ /\ v = Nil
        /\ aborted' = TRUE
        /\ UNCHANGED <<finalized, byHand>>
     \/ /\ v \in UserData(L) \cap held
        /\ ClassDestruct(v)
        /\ byHand' = byHand \cup {o \in Obj : Deletes(v, o)}
  /\ seen' = Null
  /\ UNCHANGED <<initialized, casts, module, registry, obj, ended, ud, held>>

\* The script hands a wrapper, or __gc, the userdata of another library
\* (luaL_openlibs: io.stdout).  None of the casts is from its type, which both
\* read all the same: the wrapper for its error message, __gc for the
\* destructor.  The process ends or nothing happens.
ScriptForeign(L, h) ==
  /\ h \in UserData(L) \cap held /\ ud[h].meta # Null
  /\ aborted' \in BOOLEAN
  /\ seen' = Null
  /\ UNCHANGED objData

\* c.string(...) and c.CScriptTest(): the script owns the new object.
ScriptNew(L, h, o, t) ==
  /\ t \in registry[L]
  /\ obj[o] = Null
  /\ obj' = [obj EXCEPT ![o] = [type |-> t, by |-> "script"]]
  /\ NewPointerObj(L, h, o, t, TRUE)
  /\ seen' = Null
  /\ UNCHANGED <<initialized, casts, module, registry, finalized, byHand, ended, aborted>>

\* The script lets go of a userdata, and the collector finalizes one nothing
\* refers to.
ScriptDrop(L, h) ==
  /\ h \in UserData(L) \cap held
  /\ held' = held \ {h}
  /\ seen' = Null
  /\ UNCHANGED <<initialized, casts, module, registry, obj, finalized, byHand, ended, ud, aborted>>
Collect(L, h) ==
  /\ h \in UserData(L) \ held
  /\ ClassDestruct(h)
  /\ ud' = [ud EXCEPT ![h] = Null]
  /\ seen' = Null
  /\ UNCHANGED <<initialized, casts, module, registry, obj, byHand, ended, held>>

----------------------------------------------------------------------------
(* The C++ side: objects of its own.                                        *)

CppNew(o) ==
  /\ obj[o] = Null
  /\ obj' = [obj EXCEPT ![o] = [type |-> "CScriptTest", by |-> "cpp"]]
  /\ seen' = Null
  /\ UNCHANGED <<initialized, casts, module, registry, finalized, byHand, ended, ud, held, aborted>>
CppDelete(o) ==
  /\ Live(o) /\ obj[o].by = "cpp"
  /\ ended' = ended \cup {o}
  /\ seen' = Null
  /\ UNCHANGED <<initialized, casts, module, registry, obj, finalized, byHand, ud, held, aborted>>
=============================================================================
