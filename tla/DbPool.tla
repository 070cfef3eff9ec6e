------------------------------- MODULE DbPool -------------------------------
(***************************************************************************)
(* The database layer (db.h, db.cpp): DbConnection scopes of several       *)
(* threads that take a DB from the pool's stack, run statements on it and  *)
(* give it back, and the result sets of libmysql.                          *)
(*                                                                         *)
(* GetDbConnection pops twice: when the first pop finds the stack empty it *)
(* adds a connection and pops again, and the mutex is free in between.     *)
(* ClearResult asks for the next result after freeing the stored set, and  *)
(* frees the same set again when the answer is an error.  What a process   *)
(* does after that is undefined: the behaviour ends there.                 *)
(***************************************************************************)
EXTENDS Integers, Sequences, FiniteSets, Functions

CONSTANTS
  User,    \* threads that open a DbConnection scope (GETDB)
  DB,      \* addresses of DB objects
  Reply,   \* what the server answers to a statement: one result or several,
           \* "rows" or "none", the last one perhaps "error" (or a lost connection)
  NULL

ASSUME ConstantsAssumption ==
  /\ IsFiniteSet(User) /\ User # {}
  /\ Reply \subseteq Seq({"rows", "none", "error"})
  /\ \A reply \in Reply :
       reply # <<>> /\ \A i \in 1..Len(reply) - 1 : reply[i] # "error"
  /\ NULL \notin DB \cup User

VARIABLES
  m_sDb,   \* the stack of free connections, its top first
  scope,   \* per thread: where it is in its DbConnection scope, and m_pDb
  conn,    \* per DB: m_pResult (the thread whose result set it points to), the
           \* result sets allocated, what the server has yet to send, and
           \* (history) whether ClearResult met an error
  row      \* per thread: whose result set it last read a row of

vars == <<m_sDb, scope, conn, row>>

Out == [pc |-> "out", m_pDb |-> NULL]
Held(u) == scope[u].m_pDb
At(u, pc) == scope[u].pc = pc
Goto(u, pc, pDb) == scope' = [scope EXCEPT ![u] = [pc |-> pc, m_pDb |-> pDb]]
Adding == {u \in User : At(u, "add")}

Live == Range(m_sDb) \cup ({Held(u) : u \in User} \ {NULL})

Conn == [m_pResult : User \cup {NULL}, sets : Int,
         more : Seq({"rows", "none", "error"}), unread : BOOLEAN,
         failed : BOOLEAN]

\* DB::DB
NewConn == [m_pResult |-> NULL, sets |-> 0, more |-> <<>>, unread |-> FALSE,
            failed |-> FALSE]

TypeOK ==
  /\ m_sDb \in Seq(DB)
  /\ scope \in [User -> [pc : {"out", "add", "push", "pop", "has", "row"},
                         m_pDb : DB \cup {NULL}]]
  /\ \A u \in User : Held(u) = NULL <=> scope[u].pc \in {"out", "add", "pop"}
  /\ conn \in [DB -> Conn]
  /\ row \in [User -> User \cup {NULL}]

(* Config::initDb has made the first connection and given it back *)
Init ==
  /\ \E d \in DB : m_sDb = <<d>>
  /\ scope = [u \in User |-> Out]
  /\ conn = [d \in DB |-> NewConn]
  /\ row = [u \in User |-> NULL]

(***************************************************************************)
(* The pool.  Operators named X_Mistake are X with a plausible mistake; no *)
(* action uses them.                                                       *)
(***************************************************************************)
\* PopConnection: m_sDb.size() <= 0
Empty_AtOne == Len(m_sDb) <= 1
Empty == Len(m_sDb) <= 0

\* PopConnection: top and pop
Popped_TopOnly == m_sDb
Popped == Tail(m_sDb)

PopConnection(u) == Goto(u, "has", Head(m_sDb)) /\ m_sDb' = Popped

PushConnection(u) == m_sDb' = <<Held(u)>> \o m_sDb

(* GetDbConnection: the first PopConnection *)
PopFirst(u) ==
  /\ At(u, "out")
  /\ \/ Empty /\ Goto(u, "add", NULL) /\ UNCHANGED m_sDb
     \/ ~ Empty /\ PopConnection(u)
  /\ UNCHANGED <<conn, row>>

(* AddConnection: new DB and Connect, without the lock; a DB that does not  *)
(* connect is deleted                                                       *)
Connect(u) ==
  /\ At(u, "add")
  /\ \/ \E d \in DB \ Live :
          Goto(u, "push", d) /\ conn' = [conn EXCEPT ![d] = NewConn]
     \/ Goto(u, "pop", NULL) /\ UNCHANGED conn
  /\ UNCHANGED <<m_sDb, row>>

(* AddConnection: PushConnection of the new DB *)
PushNew(u) ==
  /\ At(u, "push")
  /\ PushConnection(u)
  /\ Goto(u, "pop", NULL)
  /\ UNCHANGED <<conn, row>>

(* GetDbConnection: the second PopConnection; on NULL GETDB gives up, even  *)
(* when the connection this thread added has gone to another one            *)
PopSecond(u) ==
  /\ At(u, "pop")
  /\ \/ Empty /\ Goto(u, "out", NULL) /\ UNCHANGED m_sDb
     \/ ~ Empty /\ PopConnection(u)
  /\ UNCHANGED <<conn, row>>

(* ~DbConnection *)
Return_Kept(u) ==
  /\ scope[u].pc \in {"has", "row"}
  /\ PushConnection(u)
  /\ Goto(u, "out", Held(u))
  /\ UNCHANGED <<conn, row>>
Return(u) ==
  /\ scope[u].pc \in {"has", "row"}
  /\ PushConnection(u)
  /\ Goto(u, "out", NULL)
  /\ UNCHANGED <<conn, row>>

(***************************************************************************)
(* Statements                                                              *)
(***************************************************************************)
(* DB::ClearResult: free the stored result set and go on as long as         *)
(* mysql_next_result FAILS.  When it does not, it has taken the next result  *)
(* off the wire and leaves the rows of it unread; when there is none the     *)
(* loop ends as well.  On an error it frees the same set once more.  Without *)
(* a stored set it returns at once, whatever the server has yet to send.     *)
Cleared_Kept(c) == [c EXCEPT !.m_pResult = NULL]
Cleared(c) ==
  LET next == IF c.more = <<>> THEN "end" ELSE Head(c.more) IN
  IF c.m_pResult = NULL THEN c
  ELSE [m_pResult |-> NULL,
        sets |-> IF next = "error" THEN c.sets - 2 ELSE c.sets - 1,
        more |-> IF c.more = <<>> THEN <<>> ELSE Tail(c.more),
        unread |-> c.unread \/ next = "rows",
        failed |-> c.failed \/ next = "error"]

(* mysql_query: "commands out of sync" while results are due *)
Accepted(c, reply) == c.more = <<>> /\ ~ c.unread /\ Head(reply) # "error"

(* mysql_store_result: NULL for a statement without rows *)
Stored(c, u, reply) ==
  LET rows == Head(reply) = "rows" IN
  [c EXCEPT !.m_pResult = IF rows THEN u ELSE NULL,
            !.sets = IF rows THEN @ + 1 ELSE @,
            !.more = Tail(reply)]

(* DB::Query *)
Query(u, reply) ==
  /\ scope[u].pc \in {"has", "row"}
  /\ LET d == Held(u)
         c == Cleared(conn[d])
     IN IF ~ c.failed /\ Accepted(c, reply)
        THEN Goto(u, "row", d) /\ conn' = [conn EXCEPT ![d] = Stored(c, u, reply)]
        ELSE Goto(u, "has", d) /\ conn' = [conn EXCEPT ![d] = c]
  /\ UNCHANGED <<m_sDb, row>>

(* DB::GetRow, which DbManager::Test calls only after a Query that succeeded *)
GetRow(u) ==
  /\ At(u, "row")
  /\ row' = [row EXCEPT ![u] = conn[Held(u)].m_pResult]
  /\ UNCHANGED <<m_sDb, scope, conn>>

UserStep(u) ==
  \/ PopFirst(u) \/ Connect(u) \/ PushNew(u) \/ PopSecond(u) \/ Return(u)
  \/ \E reply \in Reply : Query(u, reply)
  \/ GetRow(u)

Undefined == \E d \in DB : conn[d].failed

Next == ~ Undefined /\ \E u \in User : UserStep(u)

Spec == Init /\ [][Next]_vars

-----------------------------------------------------------------------------
(* A connection has one user: it is on the stack once or in the hands of    *)
(* one thread, in every interleaving of the two pops and two pushes of      *)
(* GetDbConnection and ~DbConnection (db.cpp:89-127).                       *)
OneUser ==
  /\ IsInjective(m_sDb)
  /\ \A u \in User : Held(u) # NULL =>
       /\ Held(u) \notin Range(m_sDb)
       /\ \A v \in User : Held(v) = Held(u) => u = v

(* The pool never holds more connections than threads use it at a time: a   *)
(* thread adds one only when every other one is in use, although another    *)
(* thread may add or give one back between the test and the new connection  *)
(* (db.cpp:102-107).                                                        *)
PoolBounded == Cardinality(Live) + Cardinality(Adding) <= Cardinality(User)

(* Every result set libmysql allocated is the one m_pResult points to: none *)
(* is lost and none freed twice, however statements succeed, are refused or *)
(* answer with several results, and whoever has the connection next, unless *)
(* an error followed the stored result (db.cpp:40-87).                      *)
OneSet(c) == c.sets = IF c.m_pResult = NULL THEN 0 ELSE 1
ResultsKept == \A d \in DB : conn[d].failed \/ OneSet(conn[d])

(* A row a thread reads is of its own statement, never of one that an       *)
(* earlier user of the connection left stored or unread (db.cpp:40-61).     *)
RowsAreOwn == \A u \in User : row[u] \in {NULL, u}

(* A pooled connection hands no result on: what one DbConnection scope left  *)
(* stored, pending or unread on it is neither lost nor read by the next one  *)
(* (db.cpp:40-94).                                                           *)
ResultsAreOwn == ResultsKept /\ RowsAreOwn

(* What the program's comments say and the code does not do.  db.h:36:      *)
(* ClearResult empties and frees the result set - once.                     *)
ResultsFreedOnce == \A d \in DB : OneSet(conn[d])
=============================================================================
