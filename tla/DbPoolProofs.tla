----------------------------- MODULE DbPoolProofs -----------------------------
(***************************************************************************)
(* Theorems about DbPool, for any set of threads, addresses and replies:   *)
(* types, one user per connection, the bound of the pool, and that results *)
(* stay with the scope that asked for them.                                *)
(*                                                                         *)
(* OneUser and PoolBounded are inductive with the types: when the stack is *)
(* empty every connection is held, and neither a holder nor a thread that  *)
(* is adding one is the thread that looks.  ResultsAreOwn needs OneUser    *)
(* and RowFresh, which says why GetRow finds its own rows.                 *)
(***************************************************************************)
EXTENDS DbPool, FiniteSetTheorems, SequenceTheorems, TLAPS

\* After a Query that succeeded, the stored result is this thread's.
RowFresh ==
  \A u \in User : At(u, "row") => conn[Held(u)].m_pResult \in {NULL, u}

-----------------------------------------------------------------------------
(* The stack.                                                              *)

LEMMA PushedStack ==
  ASSUME NEW S, NEW s \in Seq(S), NEW d \in S
  PROVE  /\ <<d>> \o s \in Seq(S)
         /\ Range(<<d>> \o s) = Range(s) \cup {d}
         /\ IsInjective(s) /\ d \notin Range(s) => IsInjective(<<d>> \o s)
<1> DEFINE t == <<d>> \o s
<1>1. /\ t \in Seq(S)
      /\ Len(t) = Len(s) + 1
      /\ Len(s) \in Nat
  OBVIOUS
<1>2. /\ t[1] = d
      /\ \A k \in 1..Len(s) : t[k + 1] = s[k]
  OBVIOUS
<1>3. /\ DOMAIN t = 1..(Len(s) + 1)
      /\ DOMAIN s = 1..Len(s)
  BY <1>1
<1>4. \A k \in DOMAIN t : k = 1 \/ (k - 1 \in DOMAIN s /\ t[k] = s[k - 1])
  BY <1>1, <1>2, <1>3
<1>5. Range(t) = Range(s) \cup {d}
  <2>1. Range(t) \subseteq Range(s) \cup {d}
    BY <1>2, <1>4 DEF Range
  <2>2. d \in Range(t)
    BY <1>1, <1>2, <1>3 DEF Range
  <2>3. ASSUME NEW k \in DOMAIN s PROVE s[k] \in Range(t)
    <3>1. k + 1 \in DOMAIN t /\ t[k + 1] = s[k]
      BY <1>1, <1>2, <1>3
    <3> QED BY <3>1 DEF Range
  <2> HIDE DEF t
  <2> QED BY <2>1, <2>2, <2>3 DEF Range
<1>6. ASSUME IsInjective(s), d \notin Range(s) PROVE IsInjective(t)
  <2> SUFFICES ASSUME NEW a \in DOMAIN t, NEW b \in DOMAIN t, t[a] = t[b] PROVE a = b
    BY DEF IsInjective
  <2>1. a \in Int /\ b \in Int
    BY <1>1, <1>3
  <2>2. \A k \in DOMAIN s : s[k] # d
    BY <1>6 DEF Range
  <2>3. \A j, k \in DOMAIN s : s[j] = s[k] => j = k
    BY <1>6 DEF IsInjective
  <2> HIDE DEF t
  <2>4. a = 1 <=> b = 1
    BY <1>2, <1>4, <2>2
  <2>5. a # 1 /\ b # 1 => a - 1 = b - 1
    BY <1>4, <2>3
  <2> QED BY <2>1, <2>4, <2>5
<1> QED BY <1>1, <1>5, <1>6

LEMMA PoppedStack ==
  ASSUME NEW S, NEW s \in Seq(S), ~ (Len(s) <= 0)
  PROVE  /\ Head(s) \in S
         /\ Tail(s) \in Seq(S)
         /\ Range(s) = Range(Tail(s)) \cup {Head(s)}
         /\ IsInjective(s) => IsInjective(Tail(s)) /\ Head(s) \notin Range(Tail(s))
<1> DEFINE t == Tail(s)
<1>1. /\ s # <<>>
      /\ Len(s) \in Nat
      /\ Head(s) = s[1]
      /\ t \in Seq(S)
      /\ Len(t) = Len(s) - 1
      /\ \A k \in 1..Len(t) : t[k] = s[k + 1]
  OBVIOUS
<1>2. /\ DOMAIN t = 1..(Len(s) - 1)
      /\ DOMAIN s = 1..Len(s)
  BY <1>1
<1>3. Head(s) \in S
  BY <1>1
<1>4. \A k \in DOMAIN s : k = 1 \/ (k - 1 \in DOMAIN t /\ s[k] = t[k - 1])
  BY <1>1, <1>2
<1>5. \A k \in DOMAIN t : k + 1 \in DOMAIN s /\ k + 1 # 1 /\ t[k] = s[k + 1]
  BY <1>1, <1>2
<1>6. 1 \in DOMAIN s
  BY <1>1, <1>2
<1> HIDE DEF t
<1>7. Range(s) = Range(t) \cup {Head(s)}
  <2>1. Range(s) \subseteq Range(t) \cup {Head(s)}
    BY <1>1, <1>4 DEF Range
  <2>2. Range(t) \subseteq Range(s)
    BY <1>5 DEF Range
  <2>3. Head(s) \in Range(s)
    BY <1>1, <1>6 DEF Range
  <2> QED BY <2>1, <2>2, <2>3
<1>8. ASSUME IsInjective(s) PROVE IsInjective(t) /\ s[1] \notin Range(t)
  <2>1. \A a, b \in DOMAIN s : s[a] = s[b] => a = b
    BY <1>8 DEF IsInjective
  <2>2. s[1] \notin Range(t)
    BY <1>5, <1>6, <2>1 DEF Range
  <2>3. ASSUME NEW a \in DOMAIN t, NEW b \in DOMAIN t, t[a] = t[b] PROVE a = b
    <3>1. a + 1 = b + 1
      BY <1>5, <2>1, <2>3
    <3>2. a \in Int /\ b \in Int
      BY <1>1, <1>2
    <3> QED BY <3>1, <3>2
  <2> QED BY <2>2, <2>3 DEF IsInjective
<1> QED BY <1>1, <1>3, <1>7, <1>8 DEF t

-----------------------------------------------------------------------------
(* Types.                                                                  *)

PCs == {"out", "add", "push", "pop", "has", "row"}
Scopes == [pc : PCs, m_pDb : DB \cup {NULL}]

\* What a step of a scope leaves: the others stay, and the pool's connections
\* are those of the stack and of the scopes.
LEMMA GotoStep ==
  ASSUME scope \in [User -> Scopes], NEW u \in User, NEW pc \in PCs,
         NEW d \in DB \cup {NULL}, Goto(u, pc, d)
  PROVE  /\ scope' \in [User -> Scopes]
         /\ scope'[u].pc = pc /\ Held(u)' = d
         /\ \A v \in User \ {u} : scope'[v] = scope[v] /\ Held(v)' = Held(v)
<1>1. [pc |-> pc, m_pDb |-> d] \in Scopes
  BY DEF Scopes
<1> QED BY <1>1 DEF Goto, Held

Vals == {"rows", "none", "error"}

LEMMA ClearedType ==
  ASSUME NEW c \in Conn
  PROVE  Cleared(c) \in Conn
<1>1. c.more \in Seq(Vals) /\ (c.more # <<>> => Tail(c.more) \in Seq(Vals))
  BY DEF Conn, Vals
<1>2. /\ c.sets - 1 \in Int /\ c.sets - 2 \in Int
      /\ c.unread \in BOOLEAN /\ c.failed \in BOOLEAN
  BY DEF Conn
<1> QED BY <1>1, <1>2 DEF Cleared, Conn, Vals

LEMMA StoredType ==
  ASSUME NEW c \in Conn, NEW u \in User, NEW reply \in Reply, Accepted(c, reply)
  PROVE  Stored(c, u, reply) \in Conn
<1>1. reply \in Seq(Vals) /\ reply # <<>>
  BY ConstantsAssumption DEF Vals
<1>2. Tail(reply) \in Seq(Vals)
  BY <1>1
<1>3. c.sets + 1 \in Int
  BY DEF Conn
<1> QED BY <1>2, <1>3 DEF Stored, Conn, Vals

LEMMA TypeInit == Init => TypeOK
<1> SUFFICES ASSUME Init PROVE TypeOK
  OBVIOUS
<1>1. PICK d \in DB : m_sDb = <<d>>
  BY DEF Init
<1>2. m_sDb \in Seq(DB)
  BY <1>1
<1>3. NewConn \in Conn
  BY DEF NewConn, Conn
<1> QED BY <1>2, <1>3 DEF Init, TypeOK, Out, Held

\* The types of the scopes after a step of one thread.
LEMMA ScopeType ==
  ASSUME TypeOK, NEW u \in User, NEW pc \in PCs, NEW d \in DB \cup {NULL},
         Goto(u, pc, d), d = NULL <=> pc \in {"out", "add", "pop"}
  PROVE  /\ scope' \in [User -> Scopes]
         /\ \A v \in User : Held(v)' = NULL <=> scope'[v].pc \in {"out", "add", "pop"}
<1>1. scope \in [User -> Scopes]
  BY DEF TypeOK, Scopes, PCs
<1>2. \A v \in User : Held(v) = NULL <=> scope[v].pc \in {"out", "add", "pop"}
  BY DEF TypeOK
<1>3. /\ scope' \in [User -> Scopes]
      /\ scope'[u].pc = pc /\ Held(u)' = d
      /\ \A v \in User \ {u} : scope'[v] = scope[v] /\ Held(v)' = Held(v)
  BY <1>1, GotoStep
<1> QED BY <1>2, <1>3

\* A thread that has a connection has one of the pool's.
LEMMA HeldType ==
  ASSUME TypeOK, NEW u \in User
  PROVE  /\ Held(u) \in DB \cup {NULL}
         /\ scope[u].pc \notin {"out", "add", "pop"} => Held(u) \in DB
BY DEF TypeOK, Held

\* A pop: the top of the stack goes to the thread.
LEMMA PopStep ==
  ASSUME TypeOK, NEW u \in User, ~ Empty, PopConnection(u)
  PROVE  /\ Head(m_sDb) \in DB
         /\ m_sDb' \in Seq(DB)
         /\ Range(m_sDb) = Range(m_sDb') \cup {Head(m_sDb)}
         /\ IsInjective(m_sDb) => IsInjective(m_sDb') /\ Head(m_sDb) \notin Range(m_sDb')
         /\ Goto(u, "has", Head(m_sDb))
<1>1. m_sDb' = Tail(m_sDb) /\ Goto(u, "has", Head(m_sDb))
  BY DEF PopConnection, Popped
<1>2. m_sDb \in Seq(DB) /\ ~ (Len(m_sDb) <= 0)
  BY DEF TypeOK, Empty
<1> QED BY <1>1, <1>2, PoppedStack

\* A push: the thread's connection goes to the top of the stack.
LEMMA PushStep ==
  ASSUME TypeOK, NEW u \in User, Held(u) \in DB, PushConnection(u)
  PROVE  /\ m_sDb' \in Seq(DB)
         /\ Range(m_sDb') = Range(m_sDb) \cup {Held(u)}
         /\ IsInjective(m_sDb) /\ Held(u) \notin Range(m_sDb) => IsInjective(m_sDb')
<1>1. m_sDb \in Seq(DB)
  BY DEF TypeOK
<1> QED BY <1>1, PushedStack DEF PushConnection

(* Every step moves one thread and the stack in one of five ways:          *)
(* to "add" with an empty stack, to a new connection, out of them with     *)
(* nothing, by a pop, or by a push; or it leaves the stack and what        *)
(* everybody holds.                                                        *)
Starts(u) == At(u, "out") /\ Empty /\ Goto(u, "add", NULL) /\ UNCHANGED <<m_sDb, conn>>
Adds(u, d) == /\ At(u, "add") /\ d \in DB \ Live /\ Goto(u, "push", d)
              /\ UNCHANGED m_sDb /\ conn' = [conn EXCEPT ![d] = NewConn]
GivesUp(u, pc) == /\ scope[u].pc \in {"add", "pop"} /\ pc \in {"pop", "out"}
                  /\ Goto(u, pc, NULL) /\ UNCHANGED <<m_sDb, conn>>
Pops(u) == /\ scope[u].pc \in {"out", "pop"} /\ ~ Empty /\ PopConnection(u)
           /\ UNCHANGED conn
Pushes(u, pc) == /\ scope[u].pc \in {"push", "has", "row"} /\ pc \in {"pop", "out"}
                 /\ PushConnection(u) /\ Goto(u, pc, NULL) /\ UNCHANGED conn
Works(u, pc) == /\ scope[u].pc \in {"has", "row"} /\ pc \in {"has", "row"}
                /\ Goto(u, pc, Held(u)) /\ UNCHANGED m_sDb

LEMMA StepCases ==
  ASSUME [Next]_vars
  PROVE  \/ UNCHANGED <<m_sDb, scope>>
         \/ \E u \in User :
              \/ Starts(u)
              \/ \E d \in DB : Adds(u, d)
              \/ \E pc \in PCs : GivesUp(u, pc) \/ Pushes(u, pc) \/ Works(u, pc)
              \/ Pops(u)
<1> DEFINE Cases(u) == \/ Starts(u)
                       \/ \E d \in DB : Adds(u, d)
                       \/ \E pc \in PCs : GivesUp(u, pc) \/ Pushes(u, pc) \/ Works(u, pc)
                       \/ Pops(u)
<1>1. CASE UNCHANGED vars
  BY <1>1 DEF vars
<1>2. ASSUME NEW u \in User, UserStep(u)
      PROVE  UNCHANGED <<m_sDb, scope>> \/ Cases(u)
  <2>0. "pop" \in PCs /\ "out" \in PCs /\ "has" \in PCs /\ "row" \in PCs
    BY DEF PCs
  <2>1. CASE PopFirst(u)
    BY <2>1 DEF PopFirst, Starts, Pops, At
  <2>2. CASE Connect(u)
    <3>1. CASE \E d \in DB \ Live : Goto(u, "push", d) /\ conn' = [conn EXCEPT ![d] = NewConn]
      BY <2>2, <3>1 DEF Connect, Adds
    <3>2. CASE Goto(u, "pop", NULL) /\ UNCHANGED conn
      BY <2>0, <2>2, <3>2 DEF Connect, GivesUp, At
    <3> QED BY <2>2, <3>1, <3>2 DEF Connect
  <2>3. CASE PushNew(u)
    BY <2>0, <2>3 DEF PushNew, Pushes, At
  <2>4. CASE PopSecond(u)
    BY <2>0, <2>4 DEF PopSecond, Pops, GivesUp, At
  <2>5. CASE Return(u)
    BY <2>0, <2>5 DEF Return, Pushes
  <2>6. ASSUME NEW reply \in Reply, Query(u, reply) PROVE Cases(u)
    <3>1. \/ Goto(u, "row", Held(u))
          \/ Goto(u, "has", Held(u))
      BY <2>6 DEF Query
    <3> QED BY <2>0, <2>6, <3>1 DEF Query, Works
  <2>7. CASE GetRow(u)
    BY <2>7 DEF GetRow
  <2> QED BY <1>2, <2>1, <2>2, <2>3, <2>4, <2>5, <2>6, <2>7 DEF UserStep
<1> QED BY <1>1, <1>2 DEF Next

LEMMA TypeNext ==
  ASSUME TypeOK, [Next]_vars
  PROVE  TypeOK'
<1>1. m_sDb' \in Seq(DB) /\ scope' \in [User -> Scopes]
      /\ \A v \in User : Held(v)' = NULL <=> scope'[v].pc \in {"out", "add", "pop"}
  <2> DEFINE Goal == /\ m_sDb' \in Seq(DB) /\ scope' \in [User -> Scopes]
                     /\ \A v \in User : Held(v)' = NULL
                                         <=> scope'[v].pc \in {"out", "add", "pop"}
  <2>0. m_sDb \in Seq(DB) /\ NULL \notin DB
    BY ConstantsAssumption DEF TypeOK
  <2>1. CASE UNCHANGED <<m_sDb, scope>>
    BY <2>1 DEF TypeOK, Scopes, PCs, Held
  <2>2. ASSUME NEW u \in User, Starts(u) PROVE Goal
    BY <2>0, <2>2, ScopeType DEF Starts, PCs
  <2>3. ASSUME NEW u \in User, NEW d \in DB, Adds(u, d) PROVE Goal
    <3>1. Goto(u, "push", d) /\ d # NULL /\ m_sDb' = m_sDb
      BY <2>0, <2>3 DEF Adds
    <3> QED BY <2>0, <3>1, ScopeType DEF PCs
  <2>4. ASSUME NEW u \in User, NEW pc \in PCs, GivesUp(u, pc) PROVE Goal
    <3>1. Goto(u, pc, NULL) /\ pc \in {"out", "add", "pop"} /\ m_sDb' = m_sDb
      BY <2>4 DEF GivesUp
    <3> QED BY <2>0, <3>1, ScopeType
  <2>5. ASSUME NEW u \in User, Pops(u) PROVE Goal
    <3>1. Head(m_sDb) \in DB /\ m_sDb' \in Seq(DB) /\ Goto(u, "has", Head(m_sDb))
      BY <2>5, PopStep DEF Pops
    <3> QED BY <2>0, <3>1, ScopeType DEF PCs
  <2>6. ASSUME NEW u \in User, NEW pc \in PCs, Pushes(u, pc) PROVE Goal
    <3>1. Held(u) \in DB
      BY <2>6, HeldType DEF Pushes
    <3>2. m_sDb' \in Seq(DB) /\ Goto(u, pc, NULL) /\ pc \in {"out", "add", "pop"}
      BY <2>6, <3>1, PushStep DEF Pushes
    <3> QED BY <2>0, <3>2, ScopeType
  <2>7. ASSUME NEW u \in User, NEW pc \in PCs, Works(u, pc) PROVE Goal
    <3>1. Held(u) \in DB
      BY <2>7, HeldType DEF Works
    <3>2. Goto(u, pc, Held(u)) /\ pc \notin {"out", "add", "pop"} /\ m_sDb' = m_sDb
      BY <2>7 DEF Works
    <3> QED BY <2>0, <3>1, <3>2, ScopeType
  <2> QED BY <2>1, <2>2, <2>3, <2>4, <2>5, <2>6, <2>7, StepCases
<1>2. conn' \in [DB -> Conn]
  <2>0. conn \in [DB -> Conn] /\ NewConn \in Conn
    BY DEF TypeOK, NewConn, Conn
  <2>1. CASE UNCHANGED conn
    BY <2>0, <2>1
  <2>2. ASSUME NEW u \in User, Connect(u) PROVE conn' \in [DB -> Conn]
    BY <2>0, <2>2 DEF Connect
  <2>3. ASSUME NEW u \in User, NEW reply \in Reply, Query(u, reply)
        PROVE  conn' \in [DB -> Conn]
    <3>1. Held(u) \in DB
      BY <2>3, HeldType DEF Query
    <3>2. Cleared(conn[Held(u)]) \in Conn
      BY <2>0, <3>1, ClearedType
    <3>3. CASE /\ ~ Cleared(conn[Held(u)]).failed
               /\ Accepted(Cleared(conn[Held(u)]), reply)
      <4>1. Stored(Cleared(conn[Held(u)]), u, reply) \in Conn
        BY <3>2, <3>3, StoredType
      <4> QED BY <2>0, <2>3, <3>3, <4>1 DEF Query
    <3>4. CASE ~ (/\ ~ Cleared(conn[Held(u)]).failed
                  /\ Accepted(Cleared(conn[Held(u)]), reply))
      BY <2>0, <2>3, <3>2, <3>4 DEF Query
    <3> QED BY <3>3, <3>4
  <2> QED BY <2>1, <2>2, <2>3 DEF Next, UserStep, vars, PopFirst, PushNew,
             PopSecond, Return, GetRow
<1>3. row' \in [User -> User \cup {NULL}]
  <2>0. row \in [User -> User \cup {NULL}]
    BY DEF TypeOK
  <2>1. CASE UNCHANGED row
    BY <2>0, <2>1
  <2>2. ASSUME NEW u \in User, GetRow(u) PROVE row' \in [User -> User \cup {NULL}]
    <3>1. Held(u) \in DB
      BY <2>2, HeldType DEF GetRow, At
    <3>2. conn[Held(u)].m_pResult \in User \cup {NULL}
      BY <3>1 DEF TypeOK, Conn
    <3> QED BY <2>0, <2>2, <3>2 DEF GetRow
  <2> QED BY <2>1, <2>2 DEF Next, UserStep, vars, PopFirst, Connect, PushNew,
             PopSecond, Return, Query
<1> QED BY <1>1, <1>2, <1>3 DEF TypeOK, Scopes, PCs, Held

(* Every reachable state is well typed; in particular a thread holds a      *)
(* connection exactly between the pop or the connect that gave it one and   *)
(* the push that takes it away.                                             *)
THEOREM TypeCorrect == Spec => []TypeOK
<1>1. TypeOK /\ [Next]_vars => TypeOK'
  BY TypeNext
<1> QED BY <1>1, TypeInit, PTL DEF Spec

-----------------------------------------------------------------------------
(* One user.                                                               *)

\* The pool's connections are those on the stack and those threads hold.
LEMMA LiveIs ==
  ASSUME TypeOK
  PROVE  /\ \A d : d \in Live <=>
               \/ d \in Range(m_sDb)
               \/ d # NULL /\ \E v \in User : Held(v) = d
         /\ Live \subseteq DB
<1>1. \A d : d \in Live <=>
        \/ d \in Range(m_sDb)
        \/ d # NULL /\ \E v \in User : Held(v) = d
  <2> DEFINE H == {Held(v) : v \in User}
  <2>1. \A d : d \in H <=> \E v \in User : Held(v) = d
    OBVIOUS
  <2>2. Live = Range(m_sDb) \cup (H \ {NULL})
    BY DEF Live
  <2> HIDE DEF H
  <2> QED BY <2>1, <2>2
<1>2. Range(m_sDb) \subseteq DB
  BY DEF TypeOK, Range
<1>3. \A v \in User : Held(v) \in DB \cup {NULL}
  BY HeldType
<1> QED BY <1>1, <1>2, <1>3

LEMMA OneUserNext ==
  ASSUME TypeOK, OneUser, [Next]_vars
  PROVE  OneUser'
<1>0. /\ scope \in [User -> Scopes]
      /\ m_sDb \in Seq(DB) /\ NULL \notin DB
  BY ConstantsAssumption DEF TypeOK, Scopes, PCs
<1>1. /\ IsInjective(m_sDb)
      /\ \A v \in User : Held(v) # NULL => Held(v) \notin Range(m_sDb)
      /\ \A v, w \in User : Held(v) # NULL /\ Held(w) = Held(v) => v = w
  BY DEF OneUser
<1> DEFINE Goal == /\ IsInjective(m_sDb')
                   /\ \A v \in User : Held(v)' # NULL => Held(v)' \notin Range(m_sDb')
                   /\ \A v, w \in User : Held(v)' # NULL /\ Held(w)' = Held(v)' => v = w
\* The thread that moves keeps what it has or has nothing, and the stack stays.
<1>2. ASSUME NEW u \in User, NEW pc \in PCs, NEW d \in {Held(u), NULL},
             Goto(u, pc, d), m_sDb' = m_sDb
      PROVE  Goal
  <2>1. d \in DB \cup {NULL}
    BY HeldType
  <2>2. Held(u)' = d /\ \A v \in User \ {u} : Held(v)' = Held(v)
    BY <1>0, <1>2, <2>1, GotoStep
  <2> QED BY <1>1, <1>2, <2>2
<1>3. CASE UNCHANGED <<m_sDb, scope>>
  <2>1. m_sDb' = m_sDb /\ \A v \in User : Held(v)' = Held(v)
    BY <1>3 DEF Held
  <2> QED BY <1>1, <2>1 DEF OneUser
<1>4. ASSUME NEW u \in User, Starts(u) PROVE Goal
  BY <1>2, <1>4 DEF Starts, PCs
<1>5. ASSUME NEW u \in User, NEW d \in DB, Adds(u, d) PROVE Goal
  <2>1. Held(u)' = d /\ \A v \in User \ {u} : Held(v)' = Held(v)
    BY <1>0, <1>5, GotoStep DEF Adds, PCs
  <2>2. d # NULL /\ d \notin Range(m_sDb) /\ \A v \in User : Held(v) # d
    <3>1. d \in DB \ Live
      BY <1>5 DEF Adds
    <3> QED BY <1>0, <3>1, LiveIs
  <2> QED BY <1>1, <1>5, <2>1, <2>2 DEF Adds
<1>6. ASSUME NEW u \in User, NEW pc \in PCs, GivesUp(u, pc) PROVE Goal
  BY <1>2, <1>6 DEF GivesUp
<1>7. ASSUME NEW u \in User, Pops(u) PROVE Goal
  <2>1. /\ Head(m_sDb) \in DB
        /\ Range(m_sDb) = Range(m_sDb') \cup {Head(m_sDb)}
        /\ IsInjective(m_sDb') /\ Head(m_sDb) \notin Range(m_sDb')
        /\ Goto(u, "has", Head(m_sDb))
    BY <1>1, <1>7, PopStep DEF Pops
  <2>2. /\ Held(u)' = Head(m_sDb)
        /\ \A v \in User \ {u} : Held(v)' = Held(v)
    BY <1>0, <2>1, GotoStep DEF PCs
  <2>3. \A v \in User : Held(v) # Head(m_sDb)
    BY <1>0, <1>1, <2>1
  <2> QED BY <1>1, <2>1, <2>2, <2>3
<1>8. ASSUME NEW u \in User, NEW pc \in PCs, Pushes(u, pc) PROVE Goal
  <2>1. Held(u) \in DB
    BY <1>8, HeldType DEF Pushes
  <2>2. Held(u) # NULL /\ Held(u) \notin Range(m_sDb)
    BY <1>0, <1>1, <2>1
  <2>3. Range(m_sDb') = Range(m_sDb) \cup {Held(u)} /\ IsInjective(m_sDb')
    BY <1>1, <1>8, <2>1, <2>2, PushStep DEF Pushes
  <2>4. Held(u)' = NULL /\ \A v \in User \ {u} : Held(v)' = Held(v)
    BY <1>0, <1>8, GotoStep DEF Pushes
  <2> QED BY <1>1, <2>2, <2>3, <2>4
<1>9. ASSUME NEW u \in User, NEW pc \in PCs, Works(u, pc) PROVE Goal
  BY <1>2, <1>9 DEF Works
<1> QED BY <1>3, <1>4, <1>5, <1>6, <1>7, <1>8, <1>9, StepCases DEF OneUser

(* In every interleaving of the two pops and two pushes of GetDbConnection  *)
(* and ~DbConnection a connection is on the stack once or in the hands of   *)
(* one thread (db.cpp:89-127).                                              *)
THEOREM OneUserAlways == Spec => []OneUser
<1>1. Init => TypeOK /\ OneUser
  <2> SUFFICES ASSUME Init PROVE OneUser
    BY TypeInit
  <2>1. PICK d \in DB : m_sDb = <<d>>
    BY DEF Init
  <2>2. IsInjective(m_sDb)
    BY <2>1 DEF IsInjective
  <2>3. \A v \in User : Held(v) = NULL
    BY DEF Init, Held, Out
  <2> QED BY <2>2, <2>3 DEF OneUser
<1>2. TypeOK /\ OneUser /\ [Next]_vars => (TypeOK /\ OneUser)'
  BY TypeNext, OneUserNext
<1> QED BY <1>1, <1>2, PTL DEF Spec

-----------------------------------------------------------------------------
(* The bound of the pool.                                                  *)

LEMMA ImageBound ==
  ASSUME NEW S, IsFiniteSet(S), NEW f, f = [x \in S |-> f[x]]
  PROVE  /\ IsFiniteSet(Range(f))
         /\ Cardinality(Range(f)) <= Cardinality(S)
<1>1. DOMAIN f = S
  OBVIOUS
<1>2. f \in [S -> Range(f)] /\ \A y \in Range(f) : \E x \in S : f[x] = y
  BY <1>1 DEF Range
<1>3. f \in Surjection(S, Range(f))
  BY <1>2 DEF Surjection
<1> QED BY <1>3, FS_Surjection

LEMMA FiniteLive ==
  ASSUME TypeOK
  PROVE  /\ IsFiniteSet(Live) /\ Cardinality(Live) \in Nat
         /\ IsFiniteSet(Adding) /\ Cardinality(Adding) \in Nat
<1>1. IsFiniteSet(User) /\ Adding \subseteq User
  BY ConstantsAssumption DEF Adding
<1>2. IsFiniteSet(Range(m_sDb))
  <2>1. m_sDb = [k \in 1..Len(m_sDb) |-> m_sDb[k]] /\ Len(m_sDb) \in Nat
    BY DEF TypeOK
  <2>2. IsFiniteSet(1..Len(m_sDb))
    BY <2>1, FS_Interval
  <2> QED BY <2>1, <2>2, ImageBound
<1>3. IsFiniteSet({Held(u) : u \in User})
  <2> DEFINE f == [u \in User |-> Held(u)]
  <2>1. IsFiniteSet(Range(f))
    BY <1>1, ImageBound
  <2>2. Range(f) = {Held(u) : u \in User}
    BY DEF Range
  <2> QED BY <2>1, <2>2
<1>4. IsFiniteSet({Held(u) : u \in User} \ {NULL})
  BY <1>3, FS_RemoveElement
<1>5. IsFiniteSet(Live)
  BY <1>2, <1>4, FS_Union DEF Live
<1> QED BY <1>1, <1>5, FS_Subset, FS_CardinalityType

\* With an empty stack every connection is held, by threads that are not adding.
LEMMA AllHeld ==
  ASSUME TypeOK, Empty, NEW u \in User, Held(u) = NULL, u \notin Adding
  PROVE  Cardinality(Live) + Cardinality(Adding) + 1 <= Cardinality(User)
<1> DEFINE Holders == {v \in User : Held(v) # NULL}
           f == [v \in Holders |-> Held(v)]
<1>1. IsFiniteSet(User) /\ Holders \subseteq User /\ Adding \subseteq User
  BY ConstantsAssumption DEF Adding
<1>2. IsFiniteSet(Holders) /\ IsFiniteSet(Adding)
  BY <1>1, FS_Subset
<1>3. Live = Range(f)
  <2>1. m_sDb = <<>>
    BY DEF TypeOK, Empty
  <2>2. Range(m_sDb) = {}
    BY <2>1 DEF Range
  <2>3. \A d : d \in Live <=> d # NULL /\ \E v \in User : Held(v) = d
    BY <2>2, LiveIs
  <2>4. \A d : d \in Range(f) <=> \E v \in Holders : Held(v) = d
    BY DEF Range
  <2> QED BY <2>3, <2>4
<1>4. Cardinality(Live) <= Cardinality(Holders)
  BY <1>2, <1>3, ImageBound
<1>5. Holders \cap Adding = {}
  BY DEF Adding, At, TypeOK
<1>6. /\ IsFiniteSet(Holders \cup Adding)
      /\ Cardinality(Holders \cup Adding) = Cardinality(Holders) + Cardinality(Adding)
  <2>1. Cardinality(Holders \cap Adding) = 0
    BY <1>5, FS_EmptySet
  <2>2. Cardinality(Holders) \in Nat /\ Cardinality(Adding) \in Nat
    BY <1>2, FS_CardinalityType
  <2> HIDE DEF Holders
  <2>3. /\ IsFiniteSet(Holders \cup Adding)
        /\ Cardinality(Holders \cup Adding)
             = Cardinality(Holders) + Cardinality(Adding) - Cardinality(Holders \cap Adding)
    BY <1>2, FS_Union
  <2> QED BY <2>1, <2>2, <2>3
<1>7. Holders \cup Adding \subseteq User \ {u}
  BY <1>1
<1>8. /\ IsFiniteSet(User \ {u})
      /\ Cardinality(User \ {u}) = Cardinality(User) - 1
  BY <1>1, FS_RemoveElement
<1>9. Cardinality(Holders \cup Adding) <= Cardinality(User \ {u})
  BY <1>7, <1>8, FS_Subset
<1>10. /\ Cardinality(Live) \in Nat /\ Cardinality(Adding) \in Nat
       /\ Cardinality(Holders) \in Nat /\ Cardinality(User) \in Nat
  BY <1>1, <1>2, FiniteLive, FS_CardinalityType
<1> HIDE DEF Holders
<1> QED BY <1>4, <1>6, <1>8, <1>9, <1>10

\* A step that makes no connection and starts no thread adding keeps the bound.
LEMMA NoneMade ==
  ASSUME TypeOK, PoolBounded, Live' \subseteq Live, Adding' \subseteq Adding
  PROVE  PoolBounded'
<1>1. /\ IsFiniteSet(Live) /\ Cardinality(Live) \in Nat
      /\ IsFiniteSet(Adding) /\ Cardinality(Adding) \in Nat
      /\ Cardinality(User) \in Nat
  BY FiniteLive, ConstantsAssumption, FS_CardinalityType
<1>2. /\ IsFiniteSet(Live') /\ Cardinality(Live') <= Cardinality(Live)
      /\ IsFiniteSet(Adding') /\ Cardinality(Adding') <= Cardinality(Adding)
  BY <1>1, FS_Subset
<1>3. Cardinality(Live') \in Nat /\ Cardinality(Adding') \in Nat
  BY <1>2, FS_CardinalityType
<1>4. Cardinality(Live') + Cardinality(Adding') <= Cardinality(User)
  BY <1>1, <1>2, <1>3 DEF PoolBounded
<1> QED BY <1>4 DEF PoolBounded

\* Where the threads that add are after a step of one thread.
LEMMA AddingStep ==
  ASSUME TypeOK, NEW u \in User, NEW pc \in PCs, NEW d \in DB \cup {NULL},
         Goto(u, pc, d)
  PROVE  /\ pc # "add" => Adding' = Adding \ {u}
         /\ pc = "add" => Adding' = Adding \cup {u}
         /\ \A v \in User \ {u} : Held(v)' = Held(v)
         /\ Held(u)' = d
<1>1. scope \in [User -> Scopes]
  BY DEF TypeOK, Scopes, PCs
<1>2. /\ scope'[u].pc = pc /\ Held(u)' = d
      /\ \A v \in User \ {u} : scope'[v] = scope[v] /\ Held(v)' = Held(v)
  BY <1>1, GotoStep
<1>3. Adding' = {v \in User : scope'[v].pc = "add"}
  BY DEF Adding, At
<1>4. Adding = {v \in User : scope[v].pc = "add"}
  BY DEF Adding, At
<1>5. pc # "add" => Adding' = Adding \ {u}
  BY <1>2, <1>3, <1>4
<1>6. pc = "add" => Adding' = Adding \cup {u}
  BY <1>2, <1>3, <1>4
<1> QED BY <1>2, <1>5, <1>6

LEMMA PoolBoundedNext ==
  ASSUME TypeOK, PoolBounded, [Next]_vars
  PROVE  PoolBounded'
<1>0. NULL \notin DB
  BY ConstantsAssumption
<1>a. TypeOK'
  BY TypeNext
<1>b. \A d : d \in Live <=>
        \/ d \in Range(m_sDb)
        \/ d # NULL /\ \E v \in User : Held(v) = d
  BY LiveIs
<1>c. \A d : d \in Live' <=>
        \/ d \in Range(m_sDb')
        \/ d # NULL /\ \E v \in User : Held(v)' = d
  <2> DEFINE H == {Held(v)' : v \in User}
  <2>1. \A d : d \in H <=> \E v \in User : Held(v)' = d
    OBVIOUS
  <2>2. Live' = Range(m_sDb') \cup (H \ {NULL})
    BY DEF Live
  <2> HIDE DEF H
  <2> QED BY <2>1, <2>2
<1>1. CASE UNCHANGED <<m_sDb, scope>>
  <2>1. Live' = Live /\ Adding' = Adding
    BY <1>1 DEF Live, Adding, At, Held
  <2> QED BY <2>1, NoneMade
<1>2. ASSUME NEW u \in User, Starts(u) PROVE PoolBounded'
  <2>1. u \notin Adding /\ Held(u) = NULL /\ Empty /\ m_sDb' = m_sDb
    BY <1>2 DEF Starts, Adding, At, TypeOK
  <2>2. Adding' = Adding \cup {u} /\ \A v \in User : Held(v)' = Held(v)
    BY <1>2, <2>1, AddingStep DEF Starts, PCs
  <2>3. Live' = Live
    BY <1>b, <1>c, <2>1, <2>2
  <2>4. Cardinality(Live) + Cardinality(Adding) + 1 <= Cardinality(User)
    BY <2>1, AllHeld
  <2>5. Cardinality(Adding') = Cardinality(Adding) + 1
    BY <2>1, <2>2, FiniteLive, FS_AddElement
  <2>6. Cardinality(Live) \in Nat /\ Cardinality(Adding) \in Nat
        /\ Cardinality(User) \in Nat
    BY FiniteLive, ConstantsAssumption, FS_CardinalityType
  <2>7. Cardinality(Live') + Cardinality(Adding') <= Cardinality(User)
    BY <2>3, <2>4, <2>5, <2>6
  <2> QED BY <2>7 DEF PoolBounded
<1>3. ASSUME NEW u \in User, NEW d \in DB, Adds(u, d) PROVE PoolBounded'
  <2>1. u \in Adding /\ Held(u) = NULL /\ m_sDb' = m_sDb /\ Goto(u, "push", d)
    BY <1>3 DEF Adds, Adding, At, TypeOK
  <2>2. /\ Adding' = Adding \ {u}
        /\ \A v \in User \ {u} : Held(v)' = Held(v)
        /\ Held(u)' = d
    BY <2>1, AddingStep DEF PCs
  <2>3. Live' \subseteq Live \cup {d}
    BY <1>b, <1>c, <2>1, <2>2
  <2>4. IsFiniteSet(Live \cup {d}) /\ Cardinality(Live \cup {d}) <= Cardinality(Live) + 1
    <3>1. IsFiniteSet(Live) /\ Cardinality(Live) \in Nat
      BY FiniteLive
    <3>2. /\ IsFiniteSet(Live \cup {d})
          /\ Cardinality(Live \cup {d}) = IF d \in Live THEN Cardinality(Live)
                                                     ELSE Cardinality(Live) + 1
      BY <3>1, FS_AddElement
    <3> QED BY <3>1, <3>2
  <2>5. IsFiniteSet(Live') /\ Cardinality(Live') <= Cardinality(Live \cup {d})
    BY <2>3, <2>4, FS_Subset
  <2>6. Cardinality(Adding') = Cardinality(Adding) - 1
    BY <2>1, <2>2, FiniteLive, FS_RemoveElement
  <2>7. /\ Cardinality(Live) \in Nat /\ Cardinality(Adding) \in Nat
        /\ Cardinality(User) \in Nat /\ Cardinality(Live') \in Nat
        /\ Cardinality(Live \cup {d}) \in Nat
    BY <2>4, <2>5, FiniteLive, ConstantsAssumption, FS_CardinalityType
  <2>8. Cardinality(Live') + Cardinality(Adding') <= Cardinality(User)
    BY <2>4, <2>5, <2>6, <2>7 DEF PoolBounded
  <2> QED BY <2>8 DEF PoolBounded
<1>4. ASSUME NEW u \in User, NEW pc \in PCs, GivesUp(u, pc) PROVE PoolBounded'
  <2>1. Goto(u, pc, NULL) /\ pc # "add" /\ m_sDb' = m_sDb
    BY <1>4 DEF GivesUp
  <2>2. /\ Adding' = Adding \ {u}
        /\ \A v \in User \ {u} : Held(v)' = Held(v)
        /\ Held(u)' = NULL
    BY <2>1, AddingStep
  <2>3. Live' \subseteq Live
    BY <1>b, <1>c, <2>1, <2>2
  <2> QED BY <2>2, <2>3, NoneMade
<1>5. ASSUME NEW u \in User, Pops(u) PROVE PoolBounded'
  <2>1. /\ Head(m_sDb) \in DB
        /\ Range(m_sDb) = Range(m_sDb') \cup {Head(m_sDb)}
        /\ Goto(u, "has", Head(m_sDb))
    BY <1>5, PopStep DEF Pops
  <2>2. /\ Adding' = Adding \ {u}
        /\ \A v \in User \ {u} : Held(v)' = Held(v)
        /\ Held(u)' = Head(m_sDb)
    BY <2>1, AddingStep DEF PCs
  <2>3. Live' \subseteq Live
    BY <1>b, <1>c, <2>1, <2>2
  <2> QED BY <2>2, <2>3, NoneMade
<1>6. ASSUME NEW u \in User, NEW pc \in PCs, Pushes(u, pc) PROVE PoolBounded'
  <2>1. Held(u) \in DB /\ Goto(u, pc, NULL) /\ pc # "add"
    BY <1>6, HeldType DEF Pushes
  <2>2. Range(m_sDb') = Range(m_sDb) \cup {Held(u)}
    BY <1>6, <2>1, PushStep DEF Pushes
  <2>3. /\ Adding' = Adding \ {u}
        /\ \A v \in User \ {u} : Held(v)' = Held(v)
        /\ Held(u)' = NULL
    BY <2>1, AddingStep
  <2>4. Live' \subseteq Live
    BY <1>0, <1>b, <1>c, <2>1, <2>2, <2>3
  <2> QED BY <2>3, <2>4, NoneMade
<1>7. ASSUME NEW u \in User, NEW pc \in PCs, Works(u, pc) PROVE PoolBounded'
  <2>1. Held(u) \in DB /\ Goto(u, pc, Held(u)) /\ pc # "add" /\ m_sDb' = m_sDb
    BY <1>7, HeldType DEF Works
  <2>2. /\ Adding' = Adding \ {u}
        /\ \A v \in User \ {u} : Held(v)' = Held(v)
        /\ Held(u)' = Held(u)
    BY <2>1, AddingStep
  <2>3. Live' \subseteq Live
    BY <1>b, <1>c, <2>1, <2>2
  <2> QED BY <2>2, <2>3, NoneMade
<1> QED BY <1>1, <1>2, <1>3, <1>4, <1>5, <1>6, <1>7, StepCases

(* However the threads interleave between finding the stack empty and       *)
(* putting a new connection on it, the pool never has more connections than *)
(* there are threads (db.cpp:102-107).                                      *)
THEOREM PoolBoundedAlways == Spec => []PoolBounded
<1>1. Init => TypeOK /\ PoolBounded
  <2> SUFFICES ASSUME Init PROVE PoolBounded
    BY TypeInit
  <2>1. PICK d \in DB : m_sDb = <<d>>
    BY DEF Init
  <2>2. Range(m_sDb) = {d} /\ \A v \in User : Held(v) = NULL
    BY <2>1 DEF Init, Held, Out, Range
  <2>3. Live \subseteq {d}
    BY <2>2 DEF Live
  <2>4. Adding = {}
    BY DEF Init, Adding, At, Out
  <2>5. Cardinality(Live) <= 1 /\ Cardinality(Live) \in Nat
    <3>1. IsFiniteSet({d}) /\ Cardinality({d}) = 1
      BY FS_Singleton
    <3>2. IsFiniteSet(Live) /\ Cardinality(Live) <= Cardinality({d})
      BY <2>3, <3>1, FS_Subset
    <3> QED BY <3>1, <3>2, FS_CardinalityType
  <2>6. Cardinality(Adding) = 0
    BY <2>4, FS_EmptySet
  <2>7. Cardinality(User) \in Nat /\ Cardinality(User) # 0
    BY ConstantsAssumption, FS_CardinalityType, FS_EmptySet
  <2> QED BY <2>5, <2>6, <2>7 DEF PoolBounded
<1>2. TypeOK /\ PoolBounded /\ [Next]_vars => (TypeOK /\ PoolBounded)'
  BY TypeNext, PoolBoundedNext
<1> QED BY <1>1, <1>2, PTL DEF Spec

-----------------------------------------------------------------------------
(* Results.                                                                *)

\* The statements a thread runs concern its own connection only.
LEMMA OthersConn ==
  ASSUME TypeOK, OneUser, NEW u \in User, Held(u) \in DB,
         NEW v \in User \ {u}
  PROVE  Held(v) # Held(u)
BY ConstantsAssumption DEF OneUser

\* The result sets of a connection are counted, unless freed twice.
Kept(c) == c.failed \/ OneSet(c)

\* DB::Query leaves the result sets of its connection counted.
LEMMA QueryFrees ==
  ASSUME NEW c \in Conn, NEW u \in User, NEW reply \in Reply, Kept(c)
  PROVE  /\ Cleared(c).m_pResult = NULL /\ Kept(Cleared(c))
         /\ Stored(Cleared(c), u, reply).m_pResult \in {NULL, u}
         /\ Kept(Stored(Cleared(c), u, reply))
<1>1. u # NULL
  BY ConstantsAssumption
<1>2. Cleared(c) \in Conn
  BY ClearedType
<1>3. Cleared(c).m_pResult = NULL /\ Kept(Cleared(c))
  <2>1. CASE c.m_pResult = NULL
    BY <2>1 DEF Cleared
  <2>2. CASE c.m_pResult # NULL
    <3>1. c.sets \in Int /\ (c.failed \/ c.sets = 1)
      BY <2>2 DEF Kept, OneSet, Conn
    <3>2. Cleared(c).m_pResult = NULL
      BY <2>2 DEF Cleared
    <3>3. CASE Cleared(c).failed
      BY <3>2, <3>3 DEF Kept
    <3>4. CASE ~ Cleared(c).failed
      <4>1. ~ c.failed /\ Cleared(c).sets = c.sets - 1
        BY <2>2, <3>4 DEF Cleared
      <4> QED BY <3>1, <3>2, <4>1 DEF Kept, OneSet
    <3> QED BY <3>2, <3>3, <3>4
  <2> QED BY <2>1, <2>2
<1> DEFINE b == Cleared(c)
           s == Stored(b, u, reply)
<1> HIDE DEF b
<1>4. b \in Conn /\ b.m_pResult = NULL /\ Kept(b)
  BY <1>2, <1>3 DEF b
<1>5. s.m_pResult \in {NULL, u} /\ s.failed = b.failed
  BY <1>4 DEF Stored, Conn
<1>6. Kept(s)
  <2>1. b.failed \/ b.sets = 0
    BY <1>4 DEF Kept, OneSet
  <2>2. CASE b.failed
    BY <1>5, <2>2 DEF Kept
  <2>3. CASE b.sets = 0
    <3>1. Head(reply) = "rows" => s.m_pResult = u /\ s.sets = 1
      BY <1>4, <2>3 DEF Stored, Conn
    <3>2. Head(reply) # "rows" => s.m_pResult = NULL /\ s.sets = 0
      BY <1>4, <2>3 DEF Stored, Conn
    <3> HIDE DEF s
    <3> QED BY <1>1, <3>1, <3>2 DEF Kept, OneSet
  <2> QED BY <2>1, <2>2, <2>3
<1> QED BY <1>3, <1>5, <1>6 DEF b

LEMMA ResultsNext ==
  ASSUME TypeOK, OneUser, ResultsAreOwn, RowFresh, [Next]_vars
  PROVE  ResultsAreOwn' /\ RowFresh'
<1>0. /\ scope \in [User -> Scopes] /\ NULL \notin DB
      /\ conn \in [DB -> Conn] /\ row \in [User -> User \cup {NULL}]
  BY ConstantsAssumption DEF TypeOK, Scopes, PCs
<1>a. /\ \A d \in DB : Kept(conn[d])
      /\ \A v \in User : row[v] \in {NULL, v}
      /\ \A v \in User : scope[v].pc = "row" => conn[Held(v)].m_pResult \in {NULL, v}
  BY DEF ResultsAreOwn, ResultsKept, RowsAreOwn, RowFresh, At, Kept
<1> DEFINE Freed == \A d \in DB : Kept(conn'[d])
           Own == \A v \in User : row'[v] \in {NULL, v}
           Fresh == \A v \in User : scope'[v].pc = "row"
                                    => conn'[Held(v)'].m_pResult \in {NULL, v}
           Goal == Freed /\ Own /\ Fresh
\* A step that touches no connection and brings no thread to "row".
<1>1. ASSUME NEW u \in User, NEW pc \in PCs \ {"row"}, NEW d \in DB \cup {NULL},
             Goto(u, pc, d), UNCHANGED <<conn, row>>
      PROVE  Goal
  <2>1. /\ scope'[u].pc = pc
        /\ \A v \in User \ {u} : scope'[v] = scope[v] /\ Held(v)' = Held(v)
    BY <1>0, <1>1, GotoStep
  <2> QED BY <1>1, <1>a, <2>1
<1>2. ASSUME UNCHANGED vars PROVE Goal
  <2>1. /\ scope' = scope /\ conn' = conn /\ row' = row
        /\ \A v \in User : Held(v)' = Held(v)
    BY <1>2 DEF vars, Held
  <2> QED BY <1>a, <2>1
<1>3. ASSUME NEW u \in User, PopFirst(u) \/ PopSecond(u) PROVE Goal
  <2>1. CASE Empty /\ (Goto(u, "add", NULL) \/ Goto(u, "out", NULL))
    BY <1>1, <1>3, <2>1 DEF PopFirst, PopSecond, PCs
  <2>2. CASE ~ Empty /\ PopConnection(u)
    BY <1>1, <1>3, <2>2, PopStep DEF PopFirst, PopSecond, PCs
  <2> QED BY <1>3, <2>1, <2>2 DEF PopFirst, PopSecond
<1>4. ASSUME NEW u \in User, Connect(u) PROVE Goal
  <2>1. CASE Goto(u, "pop", NULL) /\ UNCHANGED conn
    BY <1>1, <1>4, <2>1 DEF Connect, PCs
  <2>2. ASSUME NEW d \in DB \ Live, Goto(u, "push", d), conn' = [conn EXCEPT ![d] = NewConn]
        PROVE  Goal
    <3>1. /\ scope'[u].pc = "push"
          /\ \A v \in User \ {u} : scope'[v] = scope[v] /\ Held(v)' = Held(v)
      BY <1>0, <2>2, GotoStep DEF PCs
    <3>2. \A v \in User : Held(v) # d
      BY <1>0, LiveIs
    <3>3. conn'[d].sets = 0 /\ conn'[d].m_pResult = NULL
          /\ \A e \in DB \ {d} : conn'[e] = conn[e]
      BY <1>0, <2>2 DEF NewConn
    <3>4. \A v \in User : scope[v].pc = "row" => Held(v) \in DB
      BY HeldType
    <3>5. row' = row
      BY <1>4 DEF Connect
    <3>6. Freed
      BY <1>a, <3>3 DEF Kept, OneSet
    <3>7. Fresh
      BY <1>a, <3>1, <3>2, <3>3, <3>4
    <3> QED BY <1>a, <3>5, <3>6, <3>7
  <2> QED BY <1>4, <2>1, <2>2 DEF Connect
<1>5. ASSUME NEW u \in User, PushNew(u) PROVE Goal
  BY <1>1, <1>5 DEF PushNew, PCs
<1>6. ASSUME NEW u \in User, Return(u) PROVE Goal
  BY <1>1, <1>6 DEF Return, PCs
<1>7. ASSUME NEW u \in User, NEW reply \in Reply, Query(u, reply) PROVE Goal
  <2> DEFINE c == Cleared(conn[Held(u)])
  <2>1. Held(u) \in DB
    BY <1>7, HeldType DEF Query
  <2>2. /\ c.m_pResult = NULL /\ Kept(c)
        /\ Stored(c, u, reply).m_pResult \in {NULL, u} /\ Kept(Stored(c, u, reply))
    BY <1>0, <1>a, <2>1, QueryFrees
  <2>3. \/ Goto(u, "row", Held(u)) /\ conn' = [conn EXCEPT ![Held(u)] = Stored(c, u, reply)]
        \/ Goto(u, "has", Held(u)) /\ conn' = [conn EXCEPT ![Held(u)] = c]
    BY <1>7 DEF Query
  <2> HIDE DEF c
  <2>4. /\ Held(u)' = Held(u)
        /\ \A v \in User \ {u} : scope'[v] = scope[v] /\ Held(v)' = Held(v)
    BY <1>0, <2>1, <2>3, GotoStep DEF PCs
  <2>5. \A e \in DB \ {Held(u)} : conn'[e] = conn[e]
    BY <1>0, <2>1, <2>3
  <2>6. conn'[Held(u)] = Stored(c, u, reply) \/ conn'[Held(u)] = c
    BY <1>0, <2>1, <2>3
  <2>7. Freed
    BY <1>a, <2>2, <2>5, <2>6
  <2>8. \A v \in User \ {u} : scope[v].pc = "row" => Held(v) \in DB /\ Held(v) # Held(u)
    BY <2>1, HeldType, OthersConn
  <2>9. Fresh
    BY <1>a, <2>2, <2>4, <2>5, <2>6, <2>8
  <2> QED BY <1>7, <1>a, <2>7, <2>9 DEF Query
<1>8. ASSUME NEW u \in User, GetRow(u) PROVE Goal
  <2>1. scope' = scope /\ conn' = conn /\ At(u, "row")
        /\ row' = [row EXCEPT ![u] = conn[Held(u)].m_pResult]
    BY <1>8 DEF GetRow
  <2>2. conn[Held(u)].m_pResult \in {NULL, u}
    BY <1>a, <2>1 DEF At
  <2>3. \A v \in User : Held(v)' = Held(v)
    BY <2>1 DEF Held
  <2>4. Own
    BY <1>0, <1>a, <2>1, <2>2
  <2> QED BY <1>a, <2>1, <2>3, <2>4
<1>9. Goal
  <2> HIDE DEF Goal
  <2> QED BY <1>2, <1>3, <1>4, <1>5, <1>6, <1>7, <1>8 DEF Next, UserStep
<1> QED BY <1>9 DEF ResultsAreOwn, ResultsKept, RowsAreOwn, RowFresh, At, Kept

LEMMA ResultsInit == Init => ResultsAreOwn /\ RowFresh
BY DEF Init, ResultsAreOwn, ResultsKept, OneSet, RowsAreOwn, RowFresh, At, Out, NewConn

(* Every result set is kept until it is freed, and freed once unless an      *)
(* error follows it, and every row read is the reader's own, whatever       *)
(* statements succeed, are refused or answer several results, and whoever   *)
(* has the connection next (db.cpp:40-94).                                  *)
THEOREM ResultsAlwaysOwn == Spec => []ResultsAreOwn
<1>1. Init => ResultsAreOwn /\ RowFresh
  BY ResultsInit
<1>2. TypeOK /\ OneUser /\ (ResultsAreOwn /\ RowFresh) /\ [Next]_vars
        => (ResultsAreOwn /\ RowFresh)'
  BY ResultsNext
<1>3. Spec => [](TypeOK /\ OneUser)
  BY TypeCorrect, OneUserAlways, PTL
<1> QED BY <1>1, <1>2, <1>3, PTL DEF Spec

=============================================================================
