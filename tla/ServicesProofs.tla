--------------------------- MODULE ServicesProofs ---------------------------
(***************************************************************************)
(* Theorems about the two services that the server's own code calls,       *)
(* EventManager and PLua; one module, because both are about what is kept  *)
(* of a sequence (Keep).                                                   *)
(*                                                                         *)
(* EventManager, for any threads, types and handlers: only the thread that *)
(* has the lock is in a loop, the list it walks stays in the map, and its  *)
(* iterator stays on the list or at its end; and EventManager implements   *)
(* EventHub, also when a method is registered many times over.             *)
(*                                                                         *)
(* PLua and ScriptObjects, for any interpreters, objects, userdata, files, *)
(* calls and paths: each object is deleted once, by the side that made it, *)
(* unless a script calls __gc itself; Call runs the function with the      *)
(* arguments of the format, up to the first 'd'; and GetVal reads the end  *)
(* of a path of four keys or fewer.                                        *)
(***************************************************************************)
EXTENDS EventManager, PLua, SequenceTheorems, FiniteSetTheorems, TLAPS

Lists == {s \in Seq(Handler) : Len(s) <= MaxLen}

MapOK(map) == DOMAIN map \subseteq EventType /\ \A e \in DOMAIN map : map[e] \in Lists

LEMMA TypeParts ==
  TypeOK <=> /\ MapOK(m_eveMap)
             /\ found \in Lists
             /\ m_mutex \in Thread \cup {NULL}
             /\ op \in [Thread -> Ops]
             /\ \A t \in Thread : op[t] # Idle =>
                  /\ m_mutex = t
                  /\ op[t].type \in DOMAIN m_eveMap
                  /\ op[t].it <= Len(m_eveMap[op[t].type]) + 1
BY DEF TypeOK, MapOK, Lists

\* What a thread in a loop is at.
LEMMA OpKinds ==
  ASSUME NEW x \in Ops
  PROVE  /\ x.pc = "idle" => x = Idle
         /\ x.pc = "pop" => \E e \in EventType, h \in Handler, it \in Position : x = Pops(e, h, it)
         /\ x.pc = "launch" => \E e \in EventType, it \in Position : x = Launches(e, it)
BY DEF Ops, Idle, Pops, Launches

LEMMA KindsDiffer ==
  ASSUME NEW e, NEW h, NEW it
  PROVE  Pops(e, h, it) # Idle /\ Launches(e, it) # Idle
BY DEF Idle, Pops, Launches

\* ++it from a node or from the end of a list stays on it or at its end.
LEMMA SuccStays ==
  ASSUME NEW n \in Nat, NEW m \in Nat, n <= m, m <= n + 1, n <= MaxLen,
         NEW it \in Nat \ {0}, it <= m
  PROVE  Succ(it, n) \in Position /\ Succ(it, n) <= n + 1
BY ConstantsAssumption DEF Succ, Position

LEMMA RemoveType ==
  ASSUME NEW s \in Lists, NEW it \in 1..Len(s)
  PROVE  /\ RemoveAt(s, it) \in Lists
         /\ Len(RemoveAt(s, it)) = Len(s) - 1
<1>1. /\ SubSeq(s, 1, it - 1) \in Seq(Handler)
      /\ Len(SubSeq(s, 1, it - 1)) = it - 1
      /\ SubSeq(s, it + 1, Len(s)) \in Seq(Handler)
      /\ Len(SubSeq(s, it + 1, Len(s))) = Len(s) - it
  BY DEF Lists
<1>2. RemoveAt(s, it) = SubSeq(s, 1, it - 1) \o SubSeq(s, it + 1, Len(s))
  BY DEF RemoveAt
<1>3. Len(s) \in Nat /\ Len(s) <= MaxLen /\ MaxLen \in Nat
  BY ConstantsAssumption DEF Lists
<1> DEFINE a == SubSeq(s, 1, it - 1)
           b == SubSeq(s, it + 1, Len(s))
<1> HIDE DEF a, b
<1>4. a \o b \in Seq(Handler) /\ Len(a \o b) = Len(a) + Len(b)
  BY <1>1 DEF a, b
<1>5. Len(a) = it - 1 /\ Len(b) = Len(s) - it /\ it \in Int
  BY <1>1 DEF a, b
<1>6. RemoveAt(s, it) = a \o b
  BY <1>2 DEF a, b
<1>7. Len(a \o b) = Len(s) - 1
  BY <1>3, <1>4, <1>5
<1>8. a \o b \in Lists
  BY <1>3, <1>4, <1>7 DEF Lists
<1> QED BY <1>6, <1>7, <1>8

LEMMA WithListOK ==
  ASSUME MapOK(m_eveMap), NEW e \in EventType, NEW list \in Lists
  PROVE  /\ MapOK(WithList(e, list))
         /\ e \in DOMAIN WithList(e, list) /\ WithList(e, list)[e] = list
BY DEF MapOK, WithList

\* A thread that enters, leaves or goes on, under the lock: the others are idle.
LEMMA OneInside ==
  ASSUME TypeOK, NEW t \in Thread, m_mutex \in {NULL, t},
         MapOK(m_eveMap'), found' \in Lists, m_mutex' \in {NULL, t},
         NEW x \in Ops, op' = [op EXCEPT ![t] = x],
         x # Idle => /\ m_mutex' = t
                     /\ x.type \in DOMAIN m_eveMap'
                     /\ x.it <= Len(m_eveMap'[x.type]) + 1
  PROVE  TypeOK'
<1>1. /\ op \in [Thread -> Ops]
      /\ \A u \in Thread \ {t} : op[u] = Idle
  BY TypeParts, ConstantsAssumption
<1>2. op' \in [Thread -> Ops] /\ op'[t] = x /\ \A u \in Thread \ {t} : op'[u] = Idle
  BY <1>1
<1>3. /\ MapOK(m_eveMap')
      /\ m_mutex' \in Thread \cup {NULL}
      /\ \A u \in Thread : op'[u] # Idle =>
           /\ m_mutex' = u
           /\ op'[u].type \in DOMAIN m_eveMap'
           /\ op'[u].it <= Len(m_eveMap'[op'[u].type]) + 1
  BY <1>2
<1> QED BY <1>2, <1>3 DEF TypeOK, MapOK, Lists

\* A call that is over before the lock is free again.
LEMMA NobodyInside ==
  ASSUME TypeOK, Free, MapOK(m_eveMap'), UNCHANGED <<m_mutex, op, found>>
  PROVE  TypeOK'
<1>1. m_mutex = NULL /\ op \in [Thread -> Ops] /\ \A u \in Thread : op[u] = Idle
  BY TypeParts, ConstantsAssumption DEF Free
<1>2. found' \in Lists
  BY TypeParts
<1> QED BY <1>1, <1>2 DEF TypeOK, MapOK, Lists

LEMMA IdleOp == Idle \in Ops
BY DEF Ops

LEMMA NoneFound == <<>> \in Lists
BY ConstantsAssumption DEF Lists

LEMMA TypeNext ==
  ASSUME TypeOK, [Next]_vars
  PROVE  TypeOK'
<1>0. /\ MapOK(m_eveMap) /\ found \in Lists /\ op \in [Thread -> Ops]
      /\ \A t \in Thread : op[t] # Idle =>
           /\ m_mutex = t
           /\ op[t].type \in DOMAIN m_eveMap
           /\ op[t].it <= Len(m_eveMap[op[t].type]) + 1
  BY TypeParts
<1>m. MaxLen \in Nat
  BY ConstantsAssumption
<1>1. CASE UNCHANGED vars
  BY <1>1, TypeParts DEF TypeOK, vars
<1>2. ASSUME NEW t \in Thread, NEW e \in EventType, NEW h \in Handler, Push(t, e, h)
      PROVE  TypeOK'
  <2>1. GetList(e) \in Lists
    BY <1>0, <1>m DEF GetList, MapOK, Lists
  <2>2. Append(GetList(e), h) \in Lists
    BY <1>m, <1>2, <2>1 DEF Push, Lists
  <2>3. MapOK(m_eveMap')
    BY <1>0, <1>2, <2>2, WithListOK DEF Push
  <2> QED BY <1>2, <2>3, NobodyInside DEF Push
<1>3. ASSUME NEW t \in Thread, NEW e \in EventType, PopType(t, e) PROVE TypeOK'
  <2>1. MapOK(m_eveMap')
    BY <1>0, <1>3 DEF PopType, MapOK
  <2> QED BY <1>3, <2>1, NobodyInside DEF PopType
<1>4. ASSUME NEW t \in Thread, NEW e \in EventType, NEW h \in Handler, PopBegin(t, e, h)
      PROVE  TypeOK'
  <2> DEFINE x == Pops(e, h, 1)
  <2>1. x \in Ops /\ x.type = e /\ x.it = 1
    BY <1>m DEF Ops, Pops, Position
  <2>2. Len(m_eveMap[e]) \in Nat
    BY <1>0, <1>4 DEF PopBegin, MapOK, Lists
  <2>3. /\ m_mutex = NULL /\ m_mutex' = t /\ m_eveMap' = m_eveMap
        /\ op' = [op EXCEPT ![t] = x] /\ e \in DOMAIN m_eveMap /\ found' = m_eveMap[e]
    BY <1>4 DEF PopBegin, Free
  <2> HIDE DEF x
  <2>4. x.type \in DOMAIN m_eveMap' /\ x.it <= Len(m_eveMap'[x.type]) + 1
    BY <2>1, <2>2, <2>3
  <2>5. found' \in Lists
    BY <1>0, <2>3 DEF MapOK
  <2> QED BY <1>0, <2>1, <2>3, <2>4, <2>5, OneInside
<1>5. ASSUME NEW t \in Thread, NEW e \in EventType, LaunchBegin(t, e) PROVE TypeOK'
  <2> DEFINE x == Launches(e, 1)
  <2>1. x \in Ops /\ x.type = e /\ x.it = 1
    BY <1>m DEF Ops, Launches, Position
  <2>2. Len(m_eveMap[e]) \in Nat
    BY <1>0, <1>5 DEF LaunchBegin, MapOK, Lists
  <2>3. /\ m_mutex = NULL /\ m_mutex' = t /\ m_eveMap' = m_eveMap
        /\ op' = [op EXCEPT ![t] = x] /\ e \in DOMAIN m_eveMap /\ found' = found
    BY <1>5 DEF LaunchBegin, Free
  <2> HIDE DEF x
  <2>4. x.type \in DOMAIN m_eveMap' /\ x.it <= Len(m_eveMap'[x.type]) + 1
    BY <2>1, <2>2, <2>3
  <2> QED BY <1>0, <2>1, <2>3, <2>4, OneInside
<1>6. ASSUME NEW t \in Thread, PopEnd(t) \/ LaunchEnd(t) PROVE TypeOK'
  <2>1. op[t] # Idle /\ op' = [op EXCEPT ![t] = Idle] /\ m_mutex' = NULL /\ m_eveMap' = m_eveMap
    BY <1>6 DEF PopEnd, LaunchEnd, Idle
  <2>2. found' \in Lists
    BY <1>0, <1>6, NoneFound DEF PopEnd, LaunchEnd
  <2> QED BY <1>0, <2>1, <2>2, IdleOp, OneInside
<1>7. ASSUME NEW t \in Thread, PopStep(t) PROVE TypeOK'
  <2>1. PICK e \in EventType, h \in Handler, it \in Position : op[t] = Pops(e, h, it)
    BY <1>0, <1>7, OpKinds DEF PopStep
  <2>2. op[t] # Idle /\ op[t].type = e /\ op[t].it = it
    BY <2>1, KindsDiffer DEF Pops
  <2>3. /\ m_mutex = t /\ e \in DOMAIN m_eveMap /\ m_eveMap[e] \in Lists
        /\ it \in 1..Len(m_eveMap[e])
    BY <1>0, <1>7, <2>2 DEF PopStep, MapOK, Position, Lists
  <2> DEFINE list == m_eveMap[e]
             rest == IF SameFunc(list[it], op[t].eveFunc) THEN RemoveAt(list, it) ELSE list
             x == Pops(e, h, Succ(it, Len(rest)))
  <2>4. /\ m_eveMap' = WithList(e, rest) /\ m_mutex' = m_mutex /\ found' = found
        /\ op' = [op EXCEPT ![t].it = Succ(it, Len(rest))]
    BY <1>7, <2>2 DEF PopStep
  <2>5. rest \in Lists /\ Len(rest) \in {Len(list), Len(list) - 1}
    BY <2>3, RemoveType
  <2> HIDE DEF rest
  <2>6. Succ(it, Len(rest)) \in Position /\ Succ(it, Len(rest)) <= Len(rest) + 1
    <3>1. /\ Len(rest) \in Nat /\ Len(rest) <= MaxLen /\ Len(list) \in Nat
          /\ it \in Nat \ {0} /\ it <= Len(list)
      BY <2>3, <2>5 DEF Lists
    <3>2. Len(rest) <= Len(list) /\ Len(list) <= Len(rest) + 1
      BY <2>5, <3>1
    <3> QED BY <3>1, <3>2, SuccStays
  <2>7. op' = [op EXCEPT ![t] = x]
    <3>1. [Pops(e, h, it) EXCEPT !.it = Succ(it, Len(rest))] = x
      BY DEF Pops
    <3> QED BY <2>1, <2>4, <3>1
  <2>8. x \in Ops /\ x.type = e /\ x.it = Succ(it, Len(rest))
    BY <2>6 DEF Ops, Pops
  <2> HIDE DEF x
  <2>9. MapOK(m_eveMap') /\ e \in DOMAIN m_eveMap' /\ m_eveMap'[e] = rest
    BY <1>0, <2>4, <2>5, WithListOK
  <2> QED BY <1>0, <2>3, <2>4, <2>6, <2>7, <2>8, <2>9, OneInside
<1>8. ASSUME NEW t \in Thread, LaunchCall(t) PROVE TypeOK'
  <2>1. PICK e \in EventType, it \in Position : op[t] = Launches(e, it)
    BY <1>0, <1>8, OpKinds DEF LaunchCall
  <2>2. op[t] # Idle /\ op[t].type = e /\ op[t].it = it
    BY <2>1, KindsDiffer DEF Launches
  <2>3. /\ m_mutex = t /\ e \in DOMAIN m_eveMap /\ m_eveMap[e] \in Lists
        /\ it \in Nat \ {0} /\ it <= Len(m_eveMap[e])
    BY <1>0, <1>8, <2>2 DEF LaunchCall, MapOK, Position, Lists
  <2> DEFINE n == Len(m_eveMap[e])
             x == Launches(e, Succ(it, n))
  <2>4. /\ m_eveMap' = m_eveMap /\ m_mutex' = m_mutex /\ found' = found
        /\ op' = [op EXCEPT ![t].it = Succ(it, n)]
    BY <1>8, <2>2 DEF LaunchCall
  <2>5. n \in Nat /\ n <= MaxLen /\ it <= n
    BY <2>3 DEF Lists
  <2> HIDE DEF n
  <2>6. Succ(it, n) \in Position /\ Succ(it, n) <= n + 1
    BY <2>3, <2>5, SuccStays
  <2>7. op' = [op EXCEPT ![t] = x]
    <3>1. [Launches(e, it) EXCEPT !.it = Succ(it, n)] = x
      BY DEF Launches
    <3> QED BY <2>1, <2>4, <3>1
  <2>8. x \in Ops /\ x.type = e /\ x.it = Succ(it, n)
    BY <2>6 DEF Ops, Launches
  <2> HIDE DEF x
  <2> QED BY <1>0, <2>3, <2>4, <2>6, <2>7, <2>8, OneInside DEF n
<1> QED BY <1>1, <1>2, <1>3, <1>4, <1>5, <1>6, <1>7, <1>8 DEF Next, Continue

(* Whatever threads register, remove and launch, the thread in a loop has   *)
(* the lock, nobody takes its list out of the map under it, and its iterator*)
(* is on the list or at its end, also after the erase of the last node has  *)
(* moved it past the end (event_manager.h:54-88).                          *)
THEOREM TypeCorrect == Spec => []TypeOK
<1>1. Init => TypeOK
  BY ConstantsAssumption, IdleOp, NoneFound DEF Init, TypeOK, Lists
<1>2. TypeOK /\ [Next]_vars => TypeOK'
  BY TypeNext
<1> QED BY <1>1, <1>2, PTL DEF Spec
-----------------------------------------------------------------------------
(* Keep, the sequence of the nodes at a set of positions: its order, and   *)
(* what it is when nothing or only one node is left out.                   *)

LEMMA RankOrder ==
  ASSUME NEW n \in Nat, NEW D \in SUBSET (1..n)
  PROVE  /\ IsFiniteSet(D)
         /\ Cardinality(D) \in Nat
         /\ \A i \in D : Rank(D, i) \in 1..Cardinality(D)
         /\ \A i, j \in D : i < j => Rank(D, i) < Rank(D, j)
<1> DEFINE Upto(i) == {j \in D : j <= i}
<1>1. IsFiniteSet(D) /\ Cardinality(D) \in Nat
  <2>1. IsFiniteSet(1..n)
    BY FS_Interval
  <2>2. IsFiniteSet(D)
    BY <2>1, FS_Subset
  <2> QED BY <2>2, FS_CardinalityType
<1>2. ASSUME NEW i \in D
      PROVE  /\ IsFiniteSet(Upto(i))
             /\ Cardinality(Upto(i)) \in Nat
             /\ Cardinality(Upto(i)) <= Cardinality(D)
             /\ Cardinality(Upto(i)) # 0
  <2>1. Upto(i) \in SUBSET D /\ i \in Upto(i)
    OBVIOUS
  <2> HIDE DEF Upto
  <2> QED BY <1>1, <2>1, FS_Subset, FS_CardinalityType, FS_EmptySet
<1>3. \A i \in D : Rank(D, i) \in 1..Cardinality(D)
  BY <1>1, <1>2 DEF Rank
<1>4. ASSUME NEW i \in D, NEW j \in D, i < j PROVE Rank(D, i) < Rank(D, j)
  <2>1. Upto(i) \in SUBSET Upto(j) /\ j \in Upto(j) /\ j \notin Upto(i)
    <3>1. \A k \in D : k \in Int
      OBVIOUS
    <3>2. i \in Int /\ j \in Int
      BY <3>1
    <3>3. \A k \in D : k <= i => k <= j
      BY <1>4, <3>1, <3>2
    <3>4. j <= j /\ ~ (j <= i)
      BY <1>4, <3>2
    <3> QED BY <3>3, <3>4
  <2>2. /\ IsFiniteSet(Upto(j))
        /\ Cardinality(Upto(i)) \in Nat /\ Cardinality(Upto(j)) \in Nat
    BY <1>2
  <2>3. Cardinality(Upto(i)) < Cardinality(Upto(j))
    <3> HIDE DEF Upto
    <3> QED BY <2>1, <2>2, FS_Subset
  <2> QED BY <2>3 DEF Rank
<1> QED BY <1>1, <1>3, <1>4

\* Positions and ranks are one to one.
LEMMA NthPosition ==
  ASSUME NEW n \in Nat, NEW D \in SUBSET (1..n)
  PROVE  /\ \A k \in 1..Cardinality(D) : Nth(D, k) \in D /\ Rank(D, Nth(D, k)) = k
         /\ \A i \in D : Nth(D, Rank(D, i)) = i
<1> DEFINE r == [i \in D |-> Rank(D, i)]
<1>1. /\ IsFiniteSet(D)
      /\ Cardinality(D) \in Nat
      /\ \A i \in D : Rank(D, i) \in 1..Cardinality(D)
      /\ \A i, j \in D : Rank(D, i) = Rank(D, j) => i = j
  <2>1. /\ IsFiniteSet(D)
        /\ Cardinality(D) \in Nat
        /\ \A i \in D : Rank(D, i) \in 1..Cardinality(D)
        /\ \A i, j \in D : i < j => Rank(D, i) < Rank(D, j)
    BY RankOrder
  <2>2. \A i, j \in D : i < j \/ j < i \/ i = j
    OBVIOUS
  <2>3. \A i \in D : ~ (Rank(D, i) < Rank(D, i))
    BY <2>1
  <2> QED BY <2>1, <2>2, <2>3
<1>2. r \in Injection(D, 1..Cardinality(D))
  BY <1>1 DEF Injection, IsInjective
<1>3. IsFiniteSet(1..Cardinality(D)) /\ Cardinality(1..Cardinality(D)) = Cardinality(D)
  BY <1>1, FS_Interval
<1>4. r \in Surjection(D, 1..Cardinality(D))
  BY <1>2, <1>3, FS_Injection
<1>5. \A k \in 1..Cardinality(D) : \E i \in D : Rank(D, i) = k
  BY <1>4 DEF Surjection
<1>6. \A k \in 1..Cardinality(D) : Nth(D, k) \in D /\ Rank(D, Nth(D, k)) = k
  BY <1>5 DEF Nth
<1> QED BY <1>1, <1>6

\* An order-preserving map of the positions E onto the positions D preserves ranks.
Embeds(f, E, D) ==
  /\ f \in [E -> D]
  /\ \A i \in D : \E j \in E : f[j] = i
  /\ \A j, k \in E : j < k => f[j] < f[k]

SameOrder(f, E, D) ==
  /\ Cardinality(D) = Cardinality(E)
  /\ \A k \in 1..Cardinality(E) : Nth(E, k) \in E /\ Nth(D, k) = f[Nth(E, k)]

LEMMA SameRanks ==
  ASSUME NEW n \in Nat, NEW D \in SUBSET (1..n), NEW m \in Nat, NEW E \in SUBSET (1..m),
         NEW f, Embeds(f, E, D)
  PROVE  SameOrder(f, E, D)
<1> USE DEF Embeds
<1>1. /\ \A i \in D : i \in Int
      /\ \A j \in E : j \in Int
  OBVIOUS
<1>2. \A j, k \in E : f[j] = f[k] => j = k
  <2>1. \A j, k \in E : j < k \/ k < j \/ j = k
    BY <1>1
  <2>2. \A i \in D : ~ (i < i)
    BY <1>1
  <2> QED BY <2>1, <2>2
<1>3. \A j, k \in E : j <= k <=> f[j] <= f[k]
  <2> SUFFICES ASSUME NEW j \in E, NEW k \in E PROVE j <= k <=> f[j] <= f[k]
    OBVIOUS
  <2>1. f[j] \in Int /\ f[k] \in Int /\ j \in Int /\ k \in Int
    BY <1>1
  <2> QED BY <1>2, <2>1
<1>4. /\ IsFiniteSet(E) /\ IsFiniteSet(D)
      /\ Cardinality(E) \in Nat
  BY RankOrder
<1>5. Cardinality(D) = Cardinality(E)
  <2>1. f \in Bijection(E, D)
    BY <1>2 DEF Bijection, Injection, IsInjective, Surjection
  <2> QED BY <1>4, <2>1, FS_Bijection DEF ExistsBijection
<1>6. ASSUME NEW k \in E PROVE Rank(D, f[k]) = Rank(E, k)
  <2> DEFINE S == {j \in E : j <= k}
             T == {i \in D : i <= f[k]}
             g == [j \in S |-> f[j]]
  <2>1. IsFiniteSet(S)
    <3>1. S \in SUBSET E
      OBVIOUS
    <3> HIDE DEF S
    <3> QED BY <1>4, <3>1, FS_Subset
  <2>2. \A j \in S : j \in E /\ f[j] \in T
    BY <1>3
  <2>3. \A i \in T : \E j \in S : f[j] = i
    BY <1>3
  <2>4. \A j, l \in S : f[j] = f[l] => j = l
    BY <1>2
  <2> HIDE DEF S, T
  <2>5. g \in Bijection(S, T)
    BY <2>2, <2>3, <2>4 DEF Bijection, Injection, IsInjective, Surjection
  <2>6. Cardinality(T) = Cardinality(S)
    <3> HIDE DEF g
    <3> QED BY <2>1, <2>5, FS_Bijection DEF ExistsBijection
  <2> QED BY <2>6 DEF Rank, S, T
<1>7. /\ \A k \in 1..Cardinality(E) : Nth(E, k) \in E /\ Rank(E, Nth(E, k)) = k
      /\ \A i \in D : Nth(D, Rank(D, i)) = i
  BY NthPosition
<1>8. ASSUME NEW k \in 1..Cardinality(E) PROVE Nth(D, k) = f[Nth(E, k)]
  <2>1. Nth(E, k) \in E /\ f[Nth(E, k)] \in D /\ Rank(D, f[Nth(E, k)]) = k
    BY <1>6, <1>7
  <2> QED BY <1>7, <2>1
<1> QED BY <1>5, <1>7, <1>8 DEF SameOrder

LEMMA NthAll ==
  ASSUME NEW n \in Nat
  PROVE  Cardinality(1..n) = n /\ \A k \in 1..n : Nth(1..n, k) = k
<1>1. Cardinality(1..n) = n
  <2>1. Cardinality(1..n) = IF 1 > n THEN 0 ELSE n - 1 + 1
    BY FS_Interval
  <2> QED BY <2>1
<1>2. ASSUME NEW k \in 1..n PROVE Nth(1..n, k) = k
  <2>1. {j \in 1..n : j <= k} = 1..k
    OBVIOUS
  <2>2. Cardinality(1..k) = k
    BY FS_Interval
  <2>3. Rank(1..n, k) = k
    BY <2>1, <2>2 DEF Rank
  <2>4. \A i \in 1..n : Nth(1..n, Rank(1..n, i)) = i
    BY NthPosition
  <2> QED BY <2>3, <2>4
<1> QED BY <1>1, <1>2

LEMMA KeptAll ==
  ASSUME NEW S, NEW s \in Seq(S)
  PROVE  Keep(s, DOMAIN s) = s
<1>1. Len(s) \in Nat /\ DOMAIN s = 1..Len(s) /\ s = [k \in 1..Len(s) |-> s[k]]
  OBVIOUS
<1> QED BY <1>1, NthAll DEF Keep

\* Erasing position i keeps the nodes before it and moves up those after it.
LEMMA RemoveAtProperties ==
  ASSUME NEW S, NEW s \in Seq(S), NEW i \in 1..Len(s)
  PROVE  /\ RemoveAt(s, i) \in Seq(S)
         /\ Len(RemoveAt(s, i)) = Len(s) - 1
         /\ \A k \in 1..(Len(s) - 1) :
              RemoveAt(s, i)[k] = IF k < i THEN s[k] ELSE s[k + 1]
<1> DEFINE a == SubSeq(s, 1, i - 1)
           b == SubSeq(s, i + 1, Len(s))
<1>0. Len(s) \in Nat /\ i \in Int /\ \A k \in 1..Len(s) : s[k] \in S
  BY ElementOfSeq, LenProperties
<1>1. /\ a \in Seq(S)
      /\ Len(a) = i - 1
      /\ \A k \in 1..(i - 1) : a[k] = s[k]
  BY <1>0, SubSeqProperties
<1>2. /\ b \in Seq(S)
      /\ Len(b) = Len(s) - i
      /\ \A k \in 1..(Len(s) - i) : b[k] = s[k + i]
  BY <1>0, SubSeqProperties
<1>3. /\ a \o b \in Seq(S)
      /\ Len(a \o b) = Len(s) - 1
      /\ \A k \in 1..(Len(s) - 1) :
           (a \o b)[k] = IF k <= i - 1 THEN a[k] ELSE b[k - (i - 1)]
  <2> HIDE DEF a, b
  <2>1. /\ a \o b \in Seq(S)
        /\ Len(a \o b) = Len(a) + Len(b)
        /\ \A k \in 1..(Len(a) + Len(b)) :
             (a \o b)[k] = IF k <= Len(a) THEN a[k] ELSE b[k - Len(a)]
    BY <1>1, <1>2, ConcatProperties
  <2>2. Len(a) + Len(b) = Len(s) - 1
    BY <1>0, <1>1, <1>2
  <2> QED BY <2>1, <2>2, <1>1
<1>4. \A k \in 1..(Len(s) - 1) : (a \o b)[k] = IF k < i THEN s[k] ELSE s[k + 1]
  <2> HIDE DEF a, b
  <2> SUFFICES ASSUME NEW k \in 1..(Len(s) - 1)
               PROVE  (a \o b)[k] = IF k < i THEN s[k] ELSE s[k + 1]
    OBVIOUS
  <2>1. CASE k < i
    BY <2>1, <1>0, <1>1, <1>3
  <2>2. CASE ~(k < i)
    <3>1. k - (i - 1) \in 1..(Len(s) - i) /\ (k - (i - 1)) + i = k + 1
      BY <2>2, <1>0
    <3> QED BY <3>1, <2>2, <1>0, <1>2, <1>3
  <2> QED BY <2>1, <2>2
<1> QED BY <1>3, <1>4 DEF RemoveAt

-----------------------------------------------------------------------------
(* The invariant of Pop's loop: the list is what is left, at positions L,   *)
(* of the list it found.                                                    *)

\* With all positions after p left, p's rank among those left.
LEMMA OnlyBefore ==
  ASSUME NEW n \in Nat, NEW L \in SUBSET (1..n), NEW p \in 1..n, p..n \subseteq L
  PROVE  Rank(L, p) = Cardinality(L) - (n - p)
<1> DEFINE A == {j \in L : j <= p}
           B == (p + 1)..n
<1>1. L = A \cup B /\ A \cap B = {}
  <2>1. \A j \in L : j \in Int /\ (j <= p \/ (p + 1 <= j /\ j <= n))
    OBVIOUS
  <2>2. \A j \in B : j \in L /\ ~ (j <= p)
    OBVIOUS
  <2>3. \A j \in L : j \in A \/ j \in B
    BY <2>1
  <2>4. A \subseteq L /\ B \subseteq L
    BY <2>2
  <2> QED BY <2>2, <2>3, <2>4
<1>2. IsFiniteSet(L) /\ Cardinality(L) \in Nat
  BY RankOrder
<1>3. IsFiniteSet(B) /\ Cardinality(B) = n - p
  <2>1. IsFiniteSet(B) /\ Cardinality(B) = IF p + 1 > n THEN 0 ELSE n - (p + 1) + 1
    BY FS_Interval
  <2> QED BY <2>1
<1>4. IsFiniteSet(A) /\ Cardinality(A) \in Nat
  <2>1. A \in SUBSET L
    OBVIOUS
  <2> QED BY <1>2, <2>1, FS_Subset, FS_CardinalityType
<1> HIDE DEF A, B
<1>5. Cardinality(L) = Cardinality(A) + Cardinality(B)
  <2>1. Cardinality(A \cup B) = Cardinality(A) + Cardinality(B) - Cardinality(A \cap B)
    BY <1>3, <1>4, FS_Union
  <2>2. Cardinality(A \cap B) = 0
    BY <1>1, FS_EmptySet
  <2>3. Cardinality(B) \in Int /\ Cardinality(A) \in Int
    BY <1>3, <1>4
  <2> QED BY <1>1, <2>1, <2>2, <2>3
<1> QED BY <1>3, <1>4, <1>5 DEF Rank, A

\* Erasing a node of what is kept is keeping one node less.
LEMMA KeptErased ==
  ASSUME NEW S, NEW w \in Seq(S), NEW L \in SUBSET (1..Len(w)), NEW it \in 1..Cardinality(L),
         Keep(w, L) \in Seq(S)
  PROVE  /\ RemoveAt(Keep(w, L), it) = Keep(w, L \ {Nth(L, it)})
         /\ Cardinality(L \ {Nth(L, it)}) = Cardinality(L) - 1
<1> DEFINE n == Len(w)
           c == Cardinality(L)
           q == Nth(L, it)
           M == L \ {q}
           up(k) == IF k < it THEN k ELSE k + 1
           E == 1..(c - 1)
           f == [k \in E |-> Nth(L, up(k))]
<1>1. /\ n \in Nat /\ c \in Nat /\ c - 1 \in Nat /\ it \in 1..c
      /\ \A k \in 1..c : Nth(L, k) \in L /\ Rank(L, Nth(L, k)) = k
      /\ \A i \in L : Rank(L, i) \in 1..c /\ Nth(L, Rank(L, i)) = i
  <2>1. n \in Nat
    BY LenProperties
  <2>2. /\ c \in Nat
        /\ \A i \in L : Rank(L, i) \in 1..c
    BY <2>1, RankOrder
  <2>3. /\ \A k \in 1..c : Nth(L, k) \in L /\ Rank(L, Nth(L, k)) = k
        /\ \A i \in L : Nth(L, Rank(L, i)) = i
    BY <2>1, NthPosition
  <2>4. c - 1 \in Nat
    BY <2>2
  <2> HIDE DEF c
  <2> QED BY <2>1, <2>2, <2>3, <2>4 DEF c
<1>2. \A j, k \in 1..c : j < k => Nth(L, j) < Nth(L, k)
  <2> SUFFICES ASSUME NEW j \in 1..c, NEW k \in 1..c, j < k PROVE Nth(L, j) < Nth(L, k)
    OBVIOUS
  <2>1. \A a, b \in L : a < b => Rank(L, a) < Rank(L, b)
    BY <1>1, RankOrder
  <2>2. /\ Nth(L, j) \in L /\ Rank(L, Nth(L, j)) = j
        /\ Nth(L, k) \in L /\ Rank(L, Nth(L, k)) = k
    BY <1>1
  <2>3. Nth(L, j) \in Int /\ Nth(L, k) \in Int
    <3>1. \A a \in L : a \in Int
      OBVIOUS
    <3> QED BY <2>2, <3>1
  <2>4. ~ (Nth(L, k) < Nth(L, j)) /\ Nth(L, k) # Nth(L, j)
    <3>1. j \in Int /\ k \in Int /\ ~ (k < j) /\ j # k
      BY <1>1
    <3> QED BY <2>1, <2>2, <3>1
  <2> QED BY <2>3, <2>4
<1> HIDE DEF c, n
<1>3. \A k \in E : up(k) \in 1..c /\ up(k) # it
  BY <1>1
<1>4. f \in [E -> M]
  <2>1. ASSUME NEW k \in E PROVE Nth(L, up(k)) \in M
    <3>1. Nth(L, up(k)) \in L /\ Rank(L, Nth(L, up(k))) = up(k) /\ Rank(L, q) = it
      BY <1>1, <1>3
    <3> QED BY <1>3, <3>1
  <2> QED BY <2>1
<1>5. \A i \in M : \E k \in E : f[k] = i
  <2> SUFFICES ASSUME NEW i \in M PROVE \E k \in E : f[k] = i
    OBVIOUS
  <2> DEFINE r == Rank(L, i)
  <2>1. r \in 1..c /\ Nth(L, r) = i /\ r # it
    BY <1>1
  <2> HIDE DEF r
  <2>2. CASE r < it
    <3>1. r \in E /\ up(r) = r
      BY <1>1, <2>1, <2>2
    <3> QED BY <2>1, <3>1
  <2>3. CASE ~ (r < it)
    <3>1. r - 1 \in E /\ up(r - 1) = r
      BY <1>1, <2>1, <2>3
    <3> QED BY <2>1, <3>1
  <2> QED BY <2>2, <2>3
<1>6. \A j, k \in E : j < k => f[j] < f[k]
  <2> SUFFICES ASSUME NEW j \in E, NEW k \in E, j < k PROVE f[j] < f[k]
    OBVIOUS
  <2>1. up(j) < up(k)
    BY <1>1
  <2>2. up(j) \in 1..c /\ up(k) \in 1..c
    BY <1>3
  <2> HIDE DEF up
  <2> QED BY <1>2, <2>1, <2>2
<1> DEFINE d == c - 1
<1>7. /\ E = 1..d /\ d \in Nat
      /\ E \in SUBSET (1..d) /\ M \in SUBSET (1..n)
  BY <1>1 DEF n
<1> HIDE DEF f, d, M, E
<1>8. SameOrder(f, E, M)
  <2>1. Embeds(f, E, M)
    BY <1>4, <1>5, <1>6 DEF Embeds
  <2> QED BY <1>1, <1>7, <2>1, SameRanks
<1>9. Cardinality(E) = d /\ \A k \in 1..d : Nth(E, k) = k
  BY <1>7, NthAll
<1>10. Cardinality(M) = d /\ \A k \in 1..d : Nth(M, k) = Nth(L, up(k))
  <2>1. Cardinality(M) = d /\ \A k \in 1..d : Nth(M, k) = f[Nth(E, k)]
    BY <1>8, <1>9 DEF SameOrder
  <2>2. \A k \in E : f[k] = Nth(L, up(k))
    BY DEF f
  <2> HIDE DEF up
  <2> QED BY <1>7, <1>9, <2>1, <2>2
<1> DEFINE s == Keep(w, L)
<1>11. s = [k \in 1..c |-> w[Nth(L, k)]]
  BY DEF Keep, c
<1>12. s \in Seq(S) /\ Len(s) = c
  <2>1. s \in Seq(S)
    OBVIOUS
  <2>2. DOMAIN s = 1..c
    BY <1>11
  <2> HIDE DEF s
  <2>3. DOMAIN s = 1..Len(s) /\ Len(s) \in Nat
    BY <2>1, LenProperties
  <2> QED BY <1>1, <2>1, <2>2, <2>3
<1> HIDE DEF s
<1>13. /\ RemoveAt(s, it) \in Seq(S)
       /\ Len(RemoveAt(s, it)) = d
       /\ \A k \in 1..d : RemoveAt(s, it)[k] = s[up(k)]
  <2>1. /\ RemoveAt(s, it) \in Seq(S)
        /\ Len(RemoveAt(s, it)) = Len(s) - 1
        /\ \A k \in 1..(Len(s) - 1) :
              RemoveAt(s, it)[k] = IF k < it THEN s[k] ELSE s[k + 1]
    BY <1>1, <1>12, RemoveAtProperties
  <2> QED BY <1>12, <2>1 DEF d
<1>14. \A k \in 1..d : RemoveAt(s, it)[k] = w[Nth(M, k)]
  <2> SUFFICES ASSUME NEW k \in 1..d PROVE RemoveAt(s, it)[k] = w[Nth(M, k)]
    OBVIOUS
  <2>1. up(k) \in 1..c
    BY <1>3, <1>7
  <2> HIDE DEF up
  <2> QED BY <1>10, <1>11, <1>13, <2>1
<1>15. RemoveAt(s, it) = Keep(w, M)
  <2> DEFINE g == RemoveAt(s, it)
  <2>1. g = [k \in 1..d |-> g[k]]
    <3>1. g \in Seq(S) /\ Len(g) = d
      BY <1>13
    <3> HIDE DEF g
    <3> QED BY <3>1
  <2>2. \A k \in 1..d : g[k] = w[Nth(M, k)]
    BY <1>14
  <2> HIDE DEF g
  <2>3. g = [k \in 1..d |-> w[Nth(M, k)]]
    BY <2>1, <2>2
  <2> QED BY <1>10, <2>3 DEF Keep, g
<1> QED BY <1>10, <1>15 DEF M, s, d, c

NotSame(list, h) == {i \in DOMAIN list : ~ SameFunc(list[i], h)}

\* Of neighbours with the method of h, position k is not the first left.
Spared(w, L, h, k) == SameFunc(w[k], h) => k - 1 \in DOMAIN w \ L

\* The iterator on its first way along the list: at position p, all from p on
\* left and the nodes before it done.
FirstWay(w, L, it, h) ==
  LET p == Len(w) - Cardinality(L) + it
  IN  /\ \A k \in DOMAIN w : p <= k => k \in L
      /\ \A k \in L : k < p => Spared(w, L, h, k)

Left(w, L, it, h) ==
  /\ NotSame(w, h) \subseteq L
  /\ (\A k \in L : Spared(w, L, h, k)) \/ FirstWay(w, L, it, h)

PopInv ==
  \A t \in Thread : op[t].pc = "pop" =>
    \E L \in SUBSET DOMAIN found :
      /\ m_eveMap[op[t].type] = Keep(found, L)
      /\ Left(found, L, op[t].it, op[t].eveFunc)

HubInv == TypeOK /\ PopInv

\* What one turn of Pop's loop leaves of the list.
Turn(list, it, h) == IF SameFunc(list[it], h) THEN RemoveAt(list, it) ELSE list

\* A turn removes the node at the iterator or passes it.
LEMMA TurnLeaves ==
  ASSUME NEW w \in Lists, NEW L \in SUBSET (DOMAIN w), NEW h \in Handler,
         NEW it \in 1..Cardinality(L), Left(w, L, it, h), Keep(w, L) \in Lists
  PROVE  LET rest == Turn(Keep(w, L), it, h)
         IN  \E M \in SUBSET DOMAIN w :
               rest = Keep(w, M) /\ Left(w, M, Succ(it, Len(rest)), h)
<1> DEFINE n == Len(w)
           c == Cardinality(L)
           q == Nth(L, it)
           p == n - c + it
<1>1. /\ w \in Seq(Handler) /\ n \in Nat /\ DOMAIN w = 1..n /\ L \in SUBSET (1..n)
      /\ Keep(w, L) \in Seq(Handler)
  BY LenProperties DEF Lists
<1>2. c \in Nat /\ c <= n /\ q \in L
  <2>1. c \in Nat /\ \A k \in 1..c : Nth(L, k) \in L
    BY <1>1, RankOrder, NthPosition
  <2>2. c <= n
    <3>1. IsFiniteSet(1..n) /\ Cardinality(1..n) = n
      <4>1. Cardinality(1..n) = n
        BY <1>1, NthAll
      <4>2. IsFiniteSet(1..n)
        BY <1>1, FS_Interval
      <4> QED BY <4>1, <4>2
    <3>2. Cardinality(L) <= Cardinality(1..n)
      BY ONLY <1>1, <3>1, FS_Subset
    <3> QED BY <3>1, <3>2
  <2> QED BY <2>1, <2>2
<1>3. Keep(w, L)[it] = w[q]
  BY DEF Keep
<1>4. Len(Keep(w, L)) = c
  <2>1. DOMAIN Keep(w, L) = 1..c
    BY DEF Keep
  <2>2. DOMAIN Keep(w, L) = 1..Len(Keep(w, L)) /\ Len(Keep(w, L)) \in Nat
    BY <1>1, LenProperties
  <2> HIDE DEF c
  <2> QED BY <1>2, <2>1, <2>2
<1>5. ASSUME FirstWay(w, L, it, h) PROVE q = p
  <2>1. p \in 1..n /\ n - p = c - it
    BY <1>1, <1>2
  <2>2. p..n \subseteq L
    BY <1>1, <1>5, <2>1 DEF FirstWay
  <2> HIDE DEF p
  <2>3. Rank(L, p) = c - (n - p)
    BY ONLY <1>1, <2>1, <2>2, OnlyBefore DEF c
  <2>4. p \in L
    BY <2>1, <2>2
  <2>5. Nth(L, Rank(L, p)) = p
    BY <1>1, <2>4, NthPosition
  <2>6. c - (n - p) = it
    BY <1>2, <2>1
  <2> QED BY <2>3, <2>5, <2>6
<1> HIDE DEF p, q
<1>6. CASE ~ SameFunc(w[q], h)
  <2>1. Turn(Keep(w, L), it, h) = Keep(w, L)
    BY <1>3, <1>6 DEF Turn
  <2>2. Succ(it, c) = it + 1
    BY <1>2 DEF Succ
  <2>3. ASSUME FirstWay(w, L, it, h) PROVE FirstWay(w, L, it + 1, h)
    <3>1. q = p /\ n - c + (it + 1) = p + 1 /\ p \in Int
      BY <1>1, <1>2, <1>5, <2>3 DEF p
    <3>2. /\ \A k \in 1..n : p <= k => k \in L
          /\ \A k \in L : k < p => Spared(w, L, h, k)
      BY <1>1, <2>3 DEF FirstWay, p
    <3>3. Spared(w, L, h, p)
      BY <1>6, <3>1 DEF Spared
    <3>4. ASSUME NEW k \in L, k < p + 1 PROVE Spared(w, L, h, k)
      <4>1. k \in Int
        BY <1>1
      <4>2. k < p \/ k = p
        BY <3>1, <3>4, <4>1
      <4> QED BY <3>2, <3>3, <4>2
    <3>5. \A k \in 1..n : p + 1 <= k => k \in L
      BY <3>1, <3>2
    <3> QED BY <1>1, <3>1, <3>4, <3>5 DEF FirstWay
  <2>4. Left(w, L, it + 1, h)
    BY <2>3 DEF Left
  <2> QED BY <1>1, <1>4, <2>1, <2>2, <2>4
<1>7. CASE SameFunc(w[q], h)
  <2> DEFINE M == L \ {q}
  <2>1. /\ Turn(Keep(w, L), it, h) = RemoveAt(Keep(w, L), it)
        /\ RemoveAt(Keep(w, L), it) = Keep(w, M)
        /\ Cardinality(M) = c - 1
    <3>1. L \in SUBSET (1..Len(w)) /\ it \in 1..Cardinality(L)
      BY <1>1
    <3>2. /\ RemoveAt(Keep(w, L), it) = Keep(w, L \ {Nth(L, it)})
          /\ Cardinality(L \ {Nth(L, it)}) = Cardinality(L) - 1
      BY ONLY <1>1, <3>1, KeptErased
    <3> QED BY <1>3, <1>7, <3>2 DEF Turn, q
  <2>2. Len(Keep(w, M)) = c - 1
    <3>1. Len(RemoveAt(Keep(w, L), it)) = Len(Keep(w, L)) - 1
      <4>1. it \in 1..Len(Keep(w, L))
        BY <1>4
      <4> QED BY ONLY <1>1, <4>1, RemoveAtProperties
    <3> QED BY <1>4, <2>1, <3>1
  <2>3. NotSame(w, h) \subseteq M
    BY <1>7 DEF Left, NotSame
  <2>4. \A k \in M : Spared(w, L, h, k) => Spared(w, M, h, k)
    BY DEF Spared
  <2>5. ASSUME FirstWay(w, L, it, h), it = c PROVE \A k \in M : Spared(w, M, h, k)
    <3>1. q = p /\ p = n
      BY <1>1, <1>2, <1>5, <2>5 DEF p
    <3>2. \A k \in L : k < n => Spared(w, L, h, k)
      BY <3>1, <2>5 DEF FirstWay, p
    <3>3. \A k \in M : k < n
      BY <1>1, <3>1
    <3> QED BY <2>4, <3>2, <3>3
  <2>6. ASSUME FirstWay(w, L, it, h), it # c PROVE FirstWay(w, M, it + 1, h)
    <3>1. q = p /\ p \in Int /\ n - (c - 1) + (it + 1) = p + 2
      BY <1>1, <1>2, <1>5, <2>6 DEF p
    <3>2. /\ \A k \in 1..n : p <= k => k \in L
          /\ \A k \in L : k < p => Spared(w, L, h, k)
      BY <1>1, <2>6 DEF FirstWay, p
    <3>3. \A k \in 1..n : p + 2 <= k => k \in M
      BY <3>1, <3>2
    <3>4. ASSUME NEW k \in M, k < p + 2 PROVE Spared(w, M, h, k)
      <4>1. k \in 1..n /\ k # p
        BY <1>1, <3>1
      <4>2. k < p \/ k = p + 1
        BY <3>1, <3>4, <4>1
      <4>3. CASE k = p + 1
        <5>1. k - 1 = p /\ p \in 1..n /\ p \notin M
          BY <1>1, <1>2, <3>1, <4>3
        <5> QED BY <1>1, <5>1 DEF Spared
      <4> QED BY <2>4, <3>2, <4>2, <4>3
    <3> QED BY <1>1, <2>1, <3>1, <3>3, <3>4 DEF FirstWay
  <2>7. Left(w, M, Succ(it, c - 1), h)
    <3>1. CASE \A k \in L : Spared(w, L, h, k)
      BY <2>3, <2>4, <3>1 DEF Left
    <3>2. CASE FirstWay(w, L, it, h) /\ it = c
      BY <2>3, <2>5, <3>2 DEF Left
    <3>3. CASE FirstWay(w, L, it, h) /\ it # c
      <4>1. Succ(it, c - 1) = it + 1
        BY <1>2, <3>3 DEF Succ
      <4> QED BY <2>3, <2>6, <3>3, <4>1 DEF Left
    <3> QED BY <3>1, <3>2, <3>3 DEF Left
  <2>8. M \in SUBSET DOMAIN w
    OBVIOUS
  <2> HIDE DEF M
  <2> QED BY <2>1, <2>2, <2>7, <2>8
<1> QED BY <1>6, <1>7

\* Pop finds the whole list and starts at its first node.
LEMMA AllLeft ==
  ASSUME NEW w \in Lists, NEW h \in Handler
  PROVE  w = Keep(w, DOMAIN w) /\ Left(w, DOMAIN w, 1, h)
<1>1. w \in Seq(Handler) /\ Len(w) \in Nat /\ DOMAIN w = 1..Len(w)
  BY LenProperties DEF Lists
<1>2. Cardinality(1..Len(w)) = Len(w)
  BY <1>1, NthAll
<1>3. FirstWay(w, DOMAIN w, 1, h)
  BY <1>1, <1>2 DEF FirstWay
<1>4. NotSame(w, h) \subseteq DOMAIN w
  BY DEF NotSame
<1>5. w = Keep(w, DOMAIN w)
  BY <1>1, KeptAll
<1> QED BY <1>3, <1>4, <1>5 DEF Left

\* At the end of the list every node that is left is spared.
LEMMA AllSpared ==
  ASSUME NEW w \in Lists, NEW L \in SUBSET (DOMAIN w), NEW h \in Handler,
         Left(w, L, Cardinality(L) + 1, h)
  PROVE  NotSame(w, h) \subseteq L /\ \A k \in L : Spared(w, L, h, k)
<1>1. Len(w) \in Nat /\ DOMAIN w = 1..Len(w) /\ Cardinality(L) \in Nat
  BY LenProperties, RankOrder DEF Lists
<1>2. CASE FirstWay(w, L, Cardinality(L) + 1, h)
  <2>1. Len(w) - Cardinality(L) + (Cardinality(L) + 1) = Len(w) + 1
    BY <1>1
  <2>2. \A k \in L : k < Len(w) + 1
    BY <1>1
  <2>3. \A k \in L : k < Len(w) + 1 => Spared(w, L, h, k)
    BY <1>2, <2>1 DEF FirstWay
  <2> QED BY <2>2, <2>3 DEF Left
<1> QED BY <1>2 DEF Left

-----------------------------------------------------------------------------
(* Who is inside, and what the actions do.                                 *)

\* Only thread t may be inside, doing x.
Alone(ops, t, x) == ops = [u \in Thread |-> IF u = t THEN x ELSE Idle]

LEMMA NobodyIn ==
  ASSUME TypeOK, Free, NEW t \in Thread
  PROVE  Alone(op, t, Idle)
<1>1. m_mutex = NULL /\ op \in [Thread -> Ops] /\ \A u \in Thread : op[u] = Idle
  BY TypeParts, ConstantsAssumption DEF Free
<1> QED BY <1>1 DEF Alone

LEMMA Enters ==
  ASSUME TypeOK, Free, NEW t \in Thread, NEW x, op' = [op EXCEPT ![t] = x]
  PROVE  Alone(op', t, x)
BY NobodyIn DEF Alone

LEMMA InsideIs ==
  ASSUME TypeOK, NEW t \in Thread, op[t] # Idle
  PROVE  /\ Alone(op, t, op[t])
         /\ \A x : op' = [op EXCEPT ![t] = x] => Alone(op', t, x)
         /\ op[t].type \in DOMAIN m_eveMap
         /\ m_eveMap[op[t].type] \in Lists
<1>1. /\ op \in [Thread -> Ops]
      /\ \A u \in Thread \ {t} : op[u] = Idle
      /\ op[t].type \in DOMAIN m_eveMap
      /\ m_eveMap[op[t].type] \in Lists
  BY TypeParts, ConstantsAssumption DEF MapOK
<1> QED BY <1>1 DEF Alone

LEMMA PopIs ==
  ASSUME TypeOK, NEW t \in Thread, op[t].pc = "pop"
  PROVE  \E e \in EventType, h \in Handler, it \in Position :
           /\ op[t] = Pops(e, h, it)
           /\ Alone(op, t, Pops(e, h, it))
           /\ \A x : op' = [op EXCEPT ![t] = x] => Alone(op', t, x)
           /\ e \in DOMAIN m_eveMap
           /\ m_eveMap[e] \in Lists
<1>1. PICK e \in EventType, h \in Handler, it \in Position : op[t] = Pops(e, h, it)
  BY TypeParts, OpKinds
<1>2. op[t] # Idle /\ op[t].type = e
  BY <1>1, KindsDiffer DEF Pops
<1> QED BY <1>1, <1>2, InsideIs

LEMMA LaunchIs ==
  ASSUME TypeOK, NEW t \in Thread, op[t].pc = "launch"
  PROVE  \E e \in EventType, it \in Position :
           /\ op[t] = Launches(e, it)
           /\ Alone(op, t, Launches(e, it))
           /\ \A x : op' = [op EXCEPT ![t] = x] => Alone(op', t, x)
           /\ e \in DOMAIN m_eveMap
           /\ m_eveMap[e] \in Lists
<1>1. PICK e \in EventType, it \in Position : op[t] = Launches(e, it)
  BY TypeParts, OpKinds
<1>2. op[t] # Idle /\ op[t].type = e
  BY <1>1, KindsDiffer DEF Launches
<1> QED BY <1>1, <1>2, InsideIs

LEMMA PopStepDoes ==
  ASSUME TypeOK, NEW t \in Thread, PopStep(t)
  PROVE  \E e \in EventType, h \in Handler, it \in Position :
           /\ op[t] = Pops(e, h, it)
           /\ Alone(op, t, Pops(e, h, it))
           /\ Alone(op', t, Pops(e, h, Succ(it, Len(Turn(m_eveMap[e], it, h)))))
           /\ e \in DOMAIN m_eveMap
           /\ m_eveMap[e] \in Lists
           /\ it \in 1..Len(m_eveMap[e])
           /\ m_eveMap' = WithList(e, Turn(m_eveMap[e], it, h))
<1>1. PICK e \in EventType, h \in Handler, it \in Position :
        /\ op[t] = Pops(e, h, it)
        /\ Alone(op, t, Pops(e, h, it))
        /\ \A x : op' = [op EXCEPT ![t] = x] => Alone(op', t, x)
        /\ e \in DOMAIN m_eveMap
        /\ m_eveMap[e] \in Lists
  BY PopIs DEF PopStep
<1> DEFINE next == Succ(it, Len(Turn(m_eveMap[e], it, h)))
<1>2. op[t].type = e /\ op[t].it = it /\ op[t].eveFunc = h
  BY <1>1 DEF Pops
<1>3. /\ it <= Len(m_eveMap[e])
      /\ m_eveMap' = WithList(e, Turn(m_eveMap[e], it, h))
      /\ op' = [op EXCEPT ![t].it = next]
  BY <1>2 DEF PopStep, Turn
<1> HIDE DEF next
<1>4. op' = [op EXCEPT ![t] = Pops(e, h, next)]
  <2>1. [Pops(e, h, it) EXCEPT !.it = next] = Pops(e, h, next)
    BY DEF Pops
  <2> QED BY <1>1, <1>3, <2>1
<1>5. it \in 1..Len(m_eveMap[e])
  BY <1>1, <1>3 DEF Position, Lists
<1> QED BY <1>1, <1>3, <1>4, <1>5 DEF next

-----------------------------------------------------------------------------
\* What the invariant says of one thread that is at x.
PopAt(map, w, x) ==
  x.pc = "pop" =>
    \E L \in SUBSET DOMAIN w :
      /\ map[x.type] = Keep(w, L)
      /\ Left(w, L, x.it, x.eveFunc)

LEMMA InvAt == PopInv <=> \A t \in Thread : PopAt(m_eveMap, found, op[t])
BY DEF PopInv, PopAt

LEMMA InvAtNext == PopInv' <=> \A t \in Thread : PopAt(m_eveMap', found', op'[t])
BY DEF PopInv, PopAt

LEMMA InvAlone ==
  ASSUME NEW t \in Thread, NEW x, Alone(op', t, x), PopAt(m_eveMap', found', x)
  PROVE  PopInv'
<1>1. \A u \in Thread : op'[u] = x \/ op'[u] = Idle
  BY DEF Alone
<1>2. PopAt(m_eveMap', found', Idle)
  BY DEF PopAt, Idle
<1> QED BY <1>1, <1>2, InvAtNext

\* At any moment the list is what is left of the one that Pop found.
LEMMA HubInvNext ==
  ASSUME HubInv, [Next]_vars
  PROVE  HubInv'
<1>0. TypeOK /\ TypeOK' /\ PopInv /\ MapOK(m_eveMap) /\ found \in Lists
  BY TypeNext, TypeParts DEF HubInv
<1>i. \A map, w : PopAt(map, w, Idle)
  BY DEF Idle, PopAt
<1>1. CASE UNCHANGED vars
  BY <1>1, <1>0 DEF HubInv, PopInv, vars
<1>2. ASSUME NEW t \in Thread, Free, op' = op PROVE HubInv'
  <2>1. Alone(op', t, Idle)
    BY <1>0, <1>2, NobodyIn
  <2> QED BY <1>0, <1>i, <2>1, InvAlone DEF HubInv
<1>3. ASSUME NEW t \in Thread, NEW e \in EventType, NEW h \in Handler, PopBegin(t, e, h)
      PROVE  HubInv'
  <2> DEFINE x == Pops(e, h, 1)
             w == m_eveMap[e]
  <2>1. /\ m_eveMap' = m_eveMap /\ found' = w /\ Alone(op', t, x) /\ w \in Lists
    BY <1>0, <1>3, Enters DEF PopBegin, MapOK
  <2>2. x.type = e /\ x.it = 1 /\ x.eveFunc = h
    BY DEF Pops
  <2> HIDE DEF x, w
  <2>3. w = Keep(w, DOMAIN w) /\ Left(w, DOMAIN w, 1, h)
    BY <2>1, AllLeft
  <2>4. m_eveMap'[x.type] = w /\ DOMAIN w \in SUBSET DOMAIN w
    BY <2>1, <2>2 DEF w
  <2>5. PopAt(m_eveMap', found', x)
    BY <2>1, <2>2, <2>3, <2>4 DEF PopAt
  <2> QED BY <1>0, <2>1, <2>5, InvAlone DEF HubInv
<1>4. ASSUME NEW t \in Thread, NEW e \in EventType, LaunchBegin(t, e) PROVE HubInv'
  <2>1. Alone(op', t, Launches(e, 1))
    BY <1>0, <1>4, Enters DEF LaunchBegin
  <2>2. PopAt(m_eveMap', found', Launches(e, 1))
    BY DEF PopAt, Launches
  <2> QED BY <1>0, <2>1, <2>2, InvAlone DEF HubInv
<1>5. ASSUME NEW t \in Thread, PopEnd(t) \/ LaunchEnd(t) PROVE HubInv'
  <2>1. op[t] # Idle /\ op' = [op EXCEPT ![t] = Idle]
    BY <1>5 DEF PopEnd, LaunchEnd, Idle
  <2>2. Alone(op', t, Idle)
    BY <1>0, <2>1, InsideIs
  <2> QED BY <1>0, <1>i, <2>2, InvAlone DEF HubInv
<1>6. ASSUME NEW t \in Thread, PopStep(t) PROVE HubInv'
  <2>1. PICK e \in EventType, h \in Handler, it \in Position :
           /\ op[t] = Pops(e, h, it)
           /\ Alone(op', t, Pops(e, h, Succ(it, Len(Turn(m_eveMap[e], it, h)))))
           /\ e \in DOMAIN m_eveMap
           /\ m_eveMap[e] \in Lists
           /\ it \in 1..Len(m_eveMap[e])
           /\ m_eveMap' = WithList(e, Turn(m_eveMap[e], it, h))
    BY <1>0, <1>6, PopStepDoes
  <2> DEFINE list == m_eveMap[e]
             rest == Turn(list, it, h)
             x == Pops(e, h, Succ(it, Len(rest)))
  <2>2. op[t].pc = "pop" /\ op[t].type = e /\ op[t].it = it /\ op[t].eveFunc = h
    BY <2>1 DEF Pops
  <2>3. PICK L \in SUBSET DOMAIN found : list = Keep(found, L) /\ Left(found, L, it, h)
    BY <1>0, <2>2 DEF PopInv
  <2>4. it \in 1..Cardinality(L)
    <3>1. DOMAIN list = 1..Cardinality(L)
      BY <2>3 DEF Keep
    <3>2. DOMAIN list = 1..Len(list)
      BY <2>1 DEF Lists
    <3> QED BY <2>1, <3>1, <3>2
  <2>5. PICK M \in SUBSET DOMAIN found :
          rest = Keep(found, M) /\ Left(found, M, Succ(it, Len(rest)), h)
    BY <1>0, <2>1, <2>3, <2>4, TurnLeaves
  <2>6. x.type = e /\ x.it = Succ(it, Len(rest)) /\ x.eveFunc = h
    BY DEF Pops
  <2>7. Alone(op', t, x) /\ m_eveMap' = WithList(e, rest) /\ found' = found
    BY <1>6, <2>1 DEF PopStep
  <2> HIDE DEF x, rest
  <2>8. m_eveMap'[e] = rest
    BY <2>7 DEF WithList
  <2>9. PopAt(m_eveMap', found', x)
    BY <2>5, <2>6, <2>7, <2>8 DEF PopAt
  <2> QED BY <1>0, <2>7, <2>9, InvAlone DEF HubInv
<1>7. ASSUME NEW t \in Thread, LaunchCall(t) PROVE HubInv'
  <2>1. PICK e \in EventType, it \in Position :
           /\ op[t] = Launches(e, it)
           /\ \A x : op' = [op EXCEPT ![t] = x] => Alone(op', t, x)
    BY <1>0, <1>7, LaunchIs DEF LaunchCall
  <2>2. PICK n : op' = [op EXCEPT ![t].it = n]
    BY <1>7 DEF LaunchCall
  <2>3. op' = [op EXCEPT ![t] = Launches(e, n)]
    <3>1. [Launches(e, it) EXCEPT !.it = n] = Launches(e, n)
      BY DEF Launches
    <3> QED BY <2>1, <2>2, <3>1
  <2>4. Alone(op', t, Launches(e, n))
    BY <2>1, <2>3
  <2>5. PopAt(m_eveMap', found', Launches(e, n))
    BY DEF PopAt, Launches
  <2> QED BY <1>0, <2>4, <2>5, InvAlone DEF HubInv
<1>8. \A t \in Thread, e \in EventType, h \in Handler :
        (Push(t, e, h) => Free /\ op' = op) /\ (PopType(t, e) => Free /\ op' = op)
  BY DEF Push, PopType
<1>9. ASSUME NEW t \in Thread, NEW e \in EventType, PopType(t, e) PROVE HubInv'
  BY <1>2, <1>9 DEF PopType
<1> QED BY <1>1, <1>2, <1>3, <1>4, <1>5, <1>6, <1>7, <1>8, <1>9 DEF Next, Continue
-----------------------------------------------------------------------------
(* EventManager implements EventHub.                                       *)

GetIn(map, e) == IF e \in DOMAIN map THEN map[e] ELSE <<>>

\* What is registered for a type: inside Pop still what it found.
SeenIn(map, w, ops, e) ==
  IF \E u \in Thread : ops[u].pc = "pop" /\ ops[u].type = e THEN w ELSE GetIn(map, e)

DueIn(map, ops, u) ==
  IF ops[u].pc # "launch" THEN <<>>
  ELSE SubSeq(GetIn(map, ops[u].type), ops[u].it, Len(GetIn(map, ops[u].type)))

LEMMA SeenIs ==
  /\ \A e : Handlers(e) = SeenIn(m_eveMap, found, op, e)
  /\ \A e : Handlers(e)' = SeenIn(m_eveMap', found', op', e)
  /\ \A u : Due(u) = DueIn(m_eveMap, op, u)
  /\ \A u : Due(u)' = DueIn(m_eveMap', op', u)
  /\ \A e : GetList(e) = GetIn(m_eveMap, e)
BY DEF Handlers, Popping, SeenIn, Due, DueIn, GetIn, GetList

LEMMA GetInType ==
  ASSUME NEW map, MapOK(map), NEW e
  PROVE  /\ GetIn(map, e) \in Lists
         /\ GetIn(map, e) \in Seq(Handler)
         /\ Len(GetIn(map, e)) \in Nat
BY ConstantsAssumption DEF GetIn, MapOK, Lists

\* Nobody in Pop: the lists are what is registered.
LEMMA SeenQuiet ==
  ASSUME NEW map, NEW w, NEW ops, NEW t \in Thread, NEW x, Alone(ops, t, x), x.pc # "pop",
         NEW e
  PROVE  SeenIn(map, w, ops, e) = GetIn(map, e)
BY DEF Alone, Idle, SeenIn

\* A thread in Pop: what it is after is still registered.
LEMMA SeenPopping ==
  ASSUME NEW map, NEW w, NEW ops, NEW t \in Thread, NEW d, NEW h, NEW it,
         Alone(ops, t, Pops(d, h, it)), NEW e
  PROVE  SeenIn(map, w, ops, e) = IF e = d THEN w ELSE GetIn(map, e)
<1>1. /\ ops[t].pc = "pop" /\ ops[t].type = d
      /\ \A u \in Thread : u # t => ops[u].pc # "pop"
  BY DEF Alone, Idle, Pops
<1> QED BY <1>1 DEF SeenIn

LEMMA NoneDue ==
  ASSUME NEW map, NEW ops, NEW t \in Thread, NEW x, Alone(ops, t, x), x.pc # "launch",
         NEW u \in Thread
  PROVE  DueIn(map, ops, u) = <<>>
BY DEF DueIn, Alone, Idle

LEMMA DueLaunched ==
  ASSUME NEW map, NEW ops, NEW t \in Thread, NEW e, NEW it, Alone(ops, t, Launches(e, it)),
         NEW u \in Thread
  PROVE  DueIn(map, ops, u) = IF u = t THEN SubSeq(GetIn(map, e), it, Len(GetIn(map, e))) ELSE <<>>
BY DEF DueIn, Alone, Idle, Launches

\* The hub's state as functions of types and threads.
Seen == [e \in EventType |-> Handlers(e)]
DueOf == [t \in Thread |-> Due(t)]

\* A step that changes neither what is registered nor what is due.
LEMMA Stutters ==
  ASSUME \A e \in EventType : SeenIn(m_eveMap', found', op', e) = SeenIn(m_eveMap, found, op, e),
         \A u \in Thread : DueIn(m_eveMap', op', u) = DueIn(m_eveMap, op, u)
  PROVE  Seen' = Seen /\ DueOf' = DueOf
BY SeenIs DEF Seen, DueOf

LEMMA KindOf ==
  /\ Idle.pc = "idle"
  /\ \A e, h, it : Pops(e, h, it).pc = "pop" /\ Launches(e, it).pc = "launch"
BY DEF Idle, Pops, Launches

LEMMA HubPush ==
  ASSUME TypeOK, TypeOK', NEW t \in Thread, NEW e \in EventType, NEW h \in Handler, Push(t, e, h)
  PROVE  Hub!Push(e, h)
<1>1. /\ Alone(op, t, Idle) /\ Alone(op', t, Idle) /\ MapOK(m_eveMap) /\ MapOK(m_eveMap')
      /\ m_eveMap' = WithList(e, Append(GetIn(m_eveMap, e), h))
      /\ Len(GetIn(m_eveMap, e)) < MaxLen
  <2>1. MapOK(m_eveMap) /\ MapOK(m_eveMap')
    BY TypeParts DEF TypeOK, MapOK, Lists
  <2> QED BY <2>1, NobodyIn, SeenIs DEF Push
<1>2. /\ \A d \in EventType : Handlers(d) = GetIn(m_eveMap, d)
      /\ \A d \in EventType : Handlers(d)' = GetIn(m_eveMap', d)
      /\ \A u \in Thread : Due(u) = <<>> /\ Due(u)' = <<>>
  BY <1>1, KindOf, SeenIs, SeenQuiet, NoneDue
<1>3. \A d \in EventType : GetIn(m_eveMap', d) =
        IF d = e THEN Append(GetIn(m_eveMap, e), h) ELSE GetIn(m_eveMap, d)
  BY <1>1 DEF GetIn, WithList
<1> QED BY <1>1, <1>2, <1>3 DEF Hub!Push, Hub!Quiet

LEMMA HubPopType ==
  ASSUME TypeOK, TypeOK', NEW t \in Thread, NEW e \in EventType, PopType(t, e)
  PROVE  Hub!PopType(e)
<1>1. /\ Alone(op, t, Idle) /\ Alone(op', t, Idle) /\ MapOK(m_eveMap) /\ MapOK(m_eveMap')
      /\ m_eveMap' = [x \in DOMAIN m_eveMap \ {e} |-> m_eveMap[x]]
  <2>1. MapOK(m_eveMap) /\ MapOK(m_eveMap')
    BY TypeParts DEF TypeOK, MapOK, Lists
  <2> QED BY <2>1, NobodyIn DEF PopType
<1>2. /\ \A d \in EventType : Handlers(d) = GetIn(m_eveMap, d)
      /\ \A d \in EventType : Handlers(d)' = GetIn(m_eveMap', d)
      /\ \A u \in Thread : Due(u) = <<>> /\ Due(u)' = <<>>
  BY <1>1, KindOf, SeenIs, SeenQuiet, NoneDue
<1>3. \A d \in EventType : GetIn(m_eveMap', d) = IF d = e THEN <<>> ELSE GetIn(m_eveMap, d)
  BY <1>1 DEF GetIn
<1> QED BY <1>2, <1>3 DEF Hub!PopType, Hub!Quiet

\* Pop enters: still registered is what it finds.
LEMMA PopEnters ==
  ASSUME TypeOK, NEW t \in Thread, NEW e \in EventType, NEW h \in Handler, PopBegin(t, e, h)
  PROVE  Seen' = Seen /\ DueOf' = DueOf
<1>1. /\ Alone(op, t, Idle) /\ Alone(op', t, Pops(e, h, 1))
      /\ m_eveMap' = m_eveMap /\ found' = GetIn(m_eveMap, e)
  BY NobodyIn, Enters DEF PopBegin, GetIn
<1>2. \A d \in EventType : SeenIn(m_eveMap, found, op, d) = GetIn(m_eveMap, d)
  BY <1>1, KindOf, SeenQuiet
<1>3. \A d \in EventType : SeenIn(m_eveMap', found', op', d) =
        IF d = e THEN found' ELSE GetIn(m_eveMap', d)
  BY <1>1, SeenPopping
<1>4. \A u \in Thread : DueIn(m_eveMap', op', u) = DueIn(m_eveMap, op, u)
  BY <1>1, KindOf, NoneDue
<1> QED BY <1>1, <1>2, <1>3, <1>4, Stutters

LEMMA HubLaunch ==
  ASSUME TypeOK, TypeOK', NEW t \in Thread, NEW e \in EventType, LaunchBegin(t, e)
  PROVE  Hub!Launch(t, e)
<1>1. /\ Alone(op, t, Idle) /\ Alone(op', t, Launches(e, 1)) /\ MapOK(m_eveMap)
      /\ m_eveMap' = m_eveMap
  BY NobodyIn, Enters, TypeParts DEF LaunchBegin
<1>2. /\ \A d \in EventType : Handlers(d) = GetIn(m_eveMap, d)
      /\ \A d \in EventType : Handlers(d)' = GetIn(m_eveMap, d)
      /\ \A u \in Thread : Due(u) = <<>>
  BY <1>1, KindOf, SeenIs, SeenQuiet, NoneDue
<1>3. \A u \in Thread : Due(u)' = IF u = t THEN GetIn(m_eveMap, e) ELSE <<>>
  <2>1. SubSeq(GetIn(m_eveMap, e), 1, Len(GetIn(m_eveMap, e))) = GetIn(m_eveMap, e)
    BY <1>1, GetInType, SubSeqFull
  <2>2. \A u \in Thread : DueIn(m_eveMap', op', u) =
          IF u = t THEN SubSeq(GetIn(m_eveMap, e), 1, Len(GetIn(m_eveMap, e))) ELSE <<>>
    BY <1>1, DueLaunched
  <2> QED BY <2>1, <2>2, SeenIs
<1> QED BY <1>2, <1>3 DEF Hub!Launch, Hub!Quiet

LEMMA HubCall ==
  ASSUME TypeOK, TypeOK', NEW t \in Thread, LaunchCall(t)
  PROVE  Hub!Call(t)
<1>1. PICK e \in EventType, it \in Position :
           /\ op[t] = Launches(e, it)
           /\ Alone(op, t, Launches(e, it))
           /\ \A x : op' = [op EXCEPT ![t] = x] => Alone(op', t, x)
           /\ e \in DOMAIN m_eveMap
           /\ m_eveMap[e] \in Lists
  BY LaunchIs DEF LaunchCall
<1> DEFINE list == GetIn(m_eveMap, e)
           n == Len(list)
<1>2. list = m_eveMap[e] /\ list \in Seq(Handler) /\ n \in Nat
  BY <1>1 DEF GetIn, Lists
<1>3. /\ m_eveMap' = m_eveMap /\ it \in 1..n
      /\ op' = [op EXCEPT ![t].it = it + 1]
  <2>1. op[t].type = e /\ op[t].it = it
    BY <1>1 DEF Launches
  <2>2. m_eveMap' = m_eveMap /\ it <= n /\ op' = [op EXCEPT ![t].it = Succ(@, n)]
    BY <1>2, <2>1 DEF LaunchCall
  <2>3. it \in 1..n /\ Succ(it, n) = it + 1
    BY <1>2, <2>2 DEF Succ, Position
  <2> QED BY <2>1, <2>2, <2>3
<1>4. Alone(op', t, Launches(e, it + 1))
  <2>1. [Launches(e, it) EXCEPT !.it = it + 1] = Launches(e, it + 1)
    BY DEF Launches
  <2>2. op' = [op EXCEPT ![t] = Launches(e, it + 1)]
    BY <1>1, <1>3, <2>1
  <2> QED BY <1>1, <2>2
<1>5. MapOK(m_eveMap)
  BY TypeParts
<1>6. /\ \A d \in EventType : Handlers(d) = GetIn(m_eveMap, d)
      /\ \A d \in EventType : Handlers(d)' = GetIn(m_eveMap, d)
  BY <1>1, <1>3, <1>4, <1>5, KindOf, SeenIs, SeenQuiet
<1>7. /\ \A u \in Thread : Due(u) = IF u = t THEN SubSeq(list, it, n) ELSE <<>>
      /\ \A u \in Thread : Due(u)' = IF u = t THEN SubSeq(list, it + 1, n) ELSE <<>>
  BY <1>1, <1>3, <1>4, SeenIs, DueLaunched
<1> HIDE DEF n, list
<1>8. Tail(SubSeq(list, it, n)) = SubSeq(list, it + 1, n) /\ SubSeq(list, it, n) # <<>>
  <2>1. n \in it..n /\ it \in Int /\ n \in Int /\ n = Len(list)
    BY <1>2, <1>3 DEF n
  <2>2. Tail(SubSeq(list, it, n)) = SubSeq(list, it + 1, n)
    BY <1>2, <1>3, <2>1, HeadTailOfSubSeq
  <2>3. Len(SubSeq(list, it, n)) = n - it + 1
    <3>1. \A i \in it..n : list[i] \in Handler
      BY <1>2, <1>3, <2>1, ElementOfSeq
    <3> QED BY <1>3, <2>1, <3>1, SubSeqProperties
  <2>4. n - it + 1 # 0
    BY <1>3, <2>1
  <2>5. SubSeq(list, it, n) = <<>> => Len(SubSeq(list, it, n)) = 0
    OBVIOUS
  <2> QED BY <2>2, <2>3, <2>4, <2>5
<1> QED BY <1>6, <1>7, <1>8 DEF Hub!Call

LEMMA LaunchEnds ==
  ASSUME TypeOK, TypeOK', NEW t \in Thread, LaunchEnd(t)
  PROVE  Seen' = Seen /\ DueOf' = DueOf
<1>1. PICK e \in EventType, it \in Position :
           /\ op[t] = Launches(e, it)
           /\ Alone(op, t, Launches(e, it))
           /\ \A x : op' = [op EXCEPT ![t] = x] => Alone(op', t, x)
           /\ e \in DOMAIN m_eveMap
           /\ m_eveMap[e] \in Lists
  BY LaunchIs DEF LaunchEnd
<1>2. m_eveMap' = m_eveMap /\ Alone(op', t, Idle) /\ it = Len(m_eveMap[e]) + 1
  <2>1. op[t].type = e /\ op[t].it = it
    BY <1>1 DEF Launches
  <2>2. /\ m_eveMap' = m_eveMap /\ op' = [op EXCEPT ![t] = Idle]
        /\ op[t].it = Len(m_eveMap[op[t].type]) + 1
    BY DEF LaunchEnd
  <2> QED BY <1>1, <2>1, <2>2
<1>3. MapOK(m_eveMap)
  BY TypeParts
<1>4. \A d \in EventType : SeenIn(m_eveMap', found', op', d) = SeenIn(m_eveMap, found, op, d)
  BY <1>1, <1>2, KindOf, SeenQuiet
<1>5. \A u \in Thread : DueIn(m_eveMap', op', u) = <<>>
  BY <1>2, KindOf, NoneDue
<1>6. \A u \in Thread : DueIn(m_eveMap, op, u) = <<>>
  <2> DEFINE n == Len(m_eveMap[e])
  <2>1. n \in Nat /\ n + 1 \in Int /\ n \in Int /\ n < n + 1
    BY <1>1 DEF Lists
  <2> HIDE DEF n
  <2>2. SubSeq(m_eveMap[e], n + 1, n) = <<>>
    BY <2>1, SubSeqEmpty
  <2>3. GetIn(m_eveMap, e) = m_eveMap[e]
    BY <1>1 DEF GetIn
  <2>4. it = n + 1
    BY <1>2 DEF n
  <2>5. \A u \in Thread : DueIn(m_eveMap, op, u) =
          IF u = t THEN SubSeq(GetIn(m_eveMap, e), it, Len(GetIn(m_eveMap, e))) ELSE <<>>
    BY <1>1, DueLaunched
  <2> QED BY <2>2, <2>3, <2>4, <2>5 DEF n
<1> QED BY <1>4, <1>5, <1>6, Stutters

LEMMA PopTurns ==
  ASSUME TypeOK, NEW t \in Thread, PopStep(t)
  PROVE  Seen' = Seen /\ DueOf' = DueOf
<1>1. PICK e \in EventType, h \in Handler, it \in Position :
           /\ op[t] = Pops(e, h, it)
           /\ Alone(op, t, Pops(e, h, it))
           /\ Alone(op', t, Pops(e, h, Succ(it, Len(Turn(m_eveMap[e], it, h)))))
           /\ e \in DOMAIN m_eveMap
           /\ m_eveMap[e] \in Lists
           /\ it \in 1..Len(m_eveMap[e])
           /\ m_eveMap' = WithList(e, Turn(m_eveMap[e], it, h))
  BY PopStepDoes
<1> DEFINE next == Succ(it, Len(Turn(m_eveMap[e], it, h)))
<1>2. Alone(op', t, Pops(e, h, next)) /\ found' = found
  BY <1>1 DEF PopStep
<1>3. \A d \in EventType : d # e => GetIn(m_eveMap', d) = GetIn(m_eveMap, d)
  BY <1>1 DEF GetIn, WithList
<1> HIDE DEF next
<1>4. \A d \in EventType : SeenIn(m_eveMap', found', op', d) = SeenIn(m_eveMap, found, op, d)
  <2>1. /\ \A d \in EventType : SeenIn(m_eveMap, found, op, d) =
             IF d = e THEN found ELSE GetIn(m_eveMap, d)
        /\ \A d \in EventType : SeenIn(m_eveMap', found', op', d) =
             IF d = e THEN found' ELSE GetIn(m_eveMap', d)
    BY <1>1, <1>2, SeenPopping
  <2> QED BY <1>2, <1>3, <2>1
<1>5. \A u \in Thread : DueIn(m_eveMap', op', u) = DueIn(m_eveMap, op, u)
  BY <1>1, <1>2, KindOf, NoneDue
<1> QED BY <1>4, <1>5, Stutters

\* Pop leaves: the nodes left of what it found are the hub's choice.
LEMMA HubPop ==
  ASSUME HubInv, NEW t \in Thread, PopEnd(t)
  PROVE  \E e \in EventType, h \in Handler : Hub!PopMethod(e, Method(h))
<1>0. TypeOK /\ PopInv /\ found \in Lists /\ MapOK(m_eveMap)
  BY TypeParts DEF HubInv
<1>1. PICK e \in EventType, h \in Handler, it \in Position :
           /\ op[t] = Pops(e, h, it)
           /\ Alone(op, t, Pops(e, h, it))
           /\ \A x : op' = [op EXCEPT ![t] = x] => Alone(op', t, x)
           /\ e \in DOMAIN m_eveMap
           /\ m_eveMap[e] \in Lists
  BY <1>0, PopIs DEF PopEnd
<1> DEFINE list == m_eveMap[e]
<1>2. /\ op[t].pc = "pop" /\ op[t].type = e /\ op[t].it = it /\ op[t].eveFunc = h
  BY <1>1 DEF Pops
<1>3. m_eveMap' = m_eveMap /\ Alone(op', t, Idle) /\ it = Len(list) + 1
  BY <1>1, <1>2 DEF PopEnd
<1>4. PICK L \in SUBSET DOMAIN found : list = Keep(found, L) /\ Left(found, L, it, h)
  BY <1>0, <1>2 DEF PopInv
<1>5. Len(list) = Cardinality(L)
  <2>1. DOMAIN list = 1..Cardinality(L)
    BY <1>4 DEF Keep
  <2>2. DOMAIN list = 1..Len(list) /\ Len(list) \in Nat
    BY <1>1, LenProperties DEF Lists
  <2>3. Cardinality(L) \in Nat
    <3>1. Len(found) \in Nat /\ DOMAIN found = 1..Len(found)
      BY <1>0, LenProperties DEF Lists
    <3> QED BY <3>1, RankOrder
  <2> HIDE DEF list
  <2> QED BY <2>1, <2>2, <2>3
<1>6. NotSame(found, h) \subseteq L /\ \A k \in L : Spared(found, L, h, k)
  BY <1>0, <1>3, <1>4, <1>5, AllSpared
<1>7. Hub!Spares(found, Method(h), L) /\ Hub!Keep(found, L) = list
  <2>1. Hub!Keep(found, L) = Keep(found, L)
    BY DEF Hub!Keep, Hub!Nth, Hub!Rank, Hub!Cardinality, Keep, Nth, Rank, Cardinality
  <2> QED BY <1>4, <1>6, <2>1 DEF Hub!Spares, NotSame, Spared, SameFunc, Method
<1>8. /\ \A d \in EventType : Handlers(d) = IF d = e THEN found ELSE GetIn(m_eveMap, d)
      /\ \A d \in EventType : Handlers(d)' = GetIn(m_eveMap, d)
  BY <1>1, <1>3, KindOf, SeenIs, SeenPopping, SeenQuiet
<1>9. \A u \in Thread : Due(u) = <<>> /\ Due(u)' = <<>>
  BY <1>1, <1>3, KindOf, SeenIs, NoneDue
<1>10. GetIn(m_eveMap, e) = list
  BY <1>1 DEF GetIn
<1> HIDE DEF list
<1>11. Hub!PopMethod(e, Method(h))
  <2> DEFINE was == [d \in EventType |-> Handlers(d)]
             now == [d \in EventType |-> Handlers(d)']
  <2>1. was[e] = found /\ now = [was EXCEPT ![e] = list]
    BY <1>8, <1>10
  <2>2. now = [was EXCEPT ![e] = Hub!Keep(@, L)]
    BY <1>7, <2>1
  <2>3. L \in SUBSET DOMAIN was[e] /\ Hub!Spares(was[e], Method(h), L)
    BY <1>7, <2>1
  <2>4. \A u \in Thread : [v \in Thread |-> Due(v)][u] = <<>>
    BY <1>9
  <2>5. [v \in Thread |-> Due(v)'] = [v \in Thread |-> Due(v)]
    BY <1>9
  <2> QED BY <2>2, <2>3, <2>4, <2>5 DEF Hub!PopMethod, Hub!Quiet
<1> QED BY <1>11

LEMMA HubInit == Init => Hub!Init
<1> SUFFICES ASSUME Init PROVE Hub!Init
  OBVIOUS
<1>1. /\ \A e : GetIn(m_eveMap, e) = <<>>
      /\ \A u \in Thread : op[u].pc = "idle"
  BY DEF Init, GetIn, Idle
<1>2. \A e : Handlers(e) = <<>>
  BY <1>1, SeenIs DEF SeenIn
<1>3. \A u \in Thread : Due(u) = <<>>
  BY <1>1 DEF Due
<1> QED BY <1>2, <1>3 DEF Hub!Init

LEMMA HubNext ==
  ASSUME HubInv, TypeOK', [Next]_vars
  PROVE  Hub!Next \/ (Seen' = Seen /\ DueOf' = DueOf)
<1>0. TypeOK
  BY DEF HubInv
<1>1. CASE UNCHANGED vars
  <2>1. \A e : Handlers(e)' = Handlers(e)
    BY <1>1 DEF vars, Handlers, Popping, GetList
  <2>2. \A u : Due(u)' = Due(u)
    BY <1>1 DEF vars, Due, GetList
  <2> QED BY <2>1, <2>2 DEF Seen, DueOf
<1>2. ASSUME NEW t \in Thread, NEW e \in EventType, NEW h \in Handler, Push(t, e, h)
      PROVE  Hub!Next
  BY <1>0, <1>2, HubPush DEF Hub!Next
<1>3. ASSUME NEW t \in Thread, NEW e \in EventType, PopType(t, e) PROVE Hub!Next
  BY <1>0, <1>3, HubPopType DEF Hub!Next
<1>4. ASSUME NEW t \in Thread, PopEnd(t) PROVE Hub!Next
  BY <1>4, HubPop DEF Hub!Next
<1>5. ASSUME NEW t \in Thread, NEW e \in EventType, LaunchBegin(t, e) PROVE Hub!Next
  BY <1>0, <1>5, HubLaunch DEF Hub!Next
<1>6. ASSUME NEW t \in Thread, LaunchCall(t) PROVE Hub!Next
  BY <1>0, <1>6, HubCall DEF Hub!Next
<1>7. ASSUME NEW t \in Thread, PopStep(t) \/ LaunchEnd(t)
      PROVE  Seen' = Seen /\ DueOf' = DueOf
  BY <1>0, <1>7, PopTurns, LaunchEnds
<1>8. ASSUME NEW t \in Thread, NEW e \in EventType, NEW h \in Handler, PopBegin(t, e, h)
      PROVE  Seen' = Seen /\ DueOf' = DueOf
  BY <1>0, <1>8, PopEnters
<1> QED BY <1>1, <1>2, <1>3, <1>4, <1>5, <1>6, <1>7, <1>8 DEF Next, Continue

(* Whatever is registered, also one method many times over, the loops of    *)
(* Pop and Launch act as EventHub's atomic operations: a Pop, whose iterator*)
(* skips a node after an erase and may go around the list, leaves every     *)
(* other method's handlers as they are and of neighbours with the method    *)
(* removed no two and not the first; a launched event reaches each handler  *)
(* once and in order (event_manager.h:38-88).                               *)
THEOREM HubImplemented == Spec => ImplementsHub
<1>1. Spec => []HubInv
  <2>1. Init => HubInv
    BY ConstantsAssumption, IdleOp, NoneFound DEF Init, HubInv, TypeOK, Lists, PopInv, Idle
  <2>2. HubInv /\ [Next]_vars => HubInv'
    BY HubInvNext
  <2> QED BY <2>1, <2>2, PTL DEF Spec
<1>2. Init => Hub!Init
  BY HubInit
<1>3. HubInv /\ HubInv' /\ [Next]_vars =>
        [Hub!Next]_<<[e \in EventType |-> Handlers(e)], [t \in Thread |-> Due(t)]>>
  BY HubNext DEF HubInv, Seen, DueOf
<1> QED BY <1>1, <1>2, <1>3, PTL DEF Spec, ImplementsHub, Hub!Spec
-----------------------------------------------------------------------------
(* The invariant.                                                          *)

Owns(h, o) == ud[h] # Null /\ ud[h].own /\ ud[h].ptr = o

\* A userdata is of the class of its object, in an interpreter that has the
\* classes, and owns the object just if a script made it.
UserdataFit ==
  \A h \in Handle : ud[h] # Null =>
    /\ ud[h].in \in module
    /\ ud[h].meta = ud[h].type
    /\ obj[ud[h].ptr] # Null
    /\ obj[ud[h].ptr].type = ud[h].type
    /\ ud[h].own <=> obj[ud[h].ptr].by = "script"

\* What a script made has one owner until __gc deletes it, and after that only
\* if the script called __gc itself.
OwnedOnce ==
  /\ \A o \in Obj : \A g, h \in Handle : Owns(g, o) /\ Owns(h, o) => g = h
  /\ \A o \in Obj \ byHand : \A h \in Handle : Owns(h, o) => finalized[o] = 0
  /\ \A o \in Obj \ byHand : finalized[o] <= 1
  /\ \A o \in byHand : finalized[o] # 0
  /\ \A o \in Obj : obj[o] # Null /\ obj[o].by = "script" /\ finalized[o] = 0 =>
       \E h \in Handle : Owns(h, o)

\* What C++ made is a CScriptTest, and only C++ deletes it.
CppKeepsItsOwn ==
  /\ \A o \in Obj : finalized[o] # 0 => obj[o] # Null /\ obj[o].by = "script"
  /\ \A o \in ended : obj[o] # Null /\ obj[o].by = "cpp"
  /\ \A o \in Obj : obj[o] # Null /\ obj[o].by = "cpp" => obj[o].type = "CScriptTest"

Owned == UserdataFit /\ OwnedOnce /\ CppKeepsItsOwn

ObjectVars == <<module, obj, finalized, byHand, ended, ud>>

LEMMA SameObjects ==
  ASSUME Owned, UNCHANGED ObjectVars
  PROVE  Owned'
BY DEF Owned, UserdataFit, OwnedOnce, CppKeepsItsOwn, Owns, ObjectVars

LEMMA LuaTypeParts ==
  ASSUME LuaTypeOK
  PROVE  /\ module \subseteq Interp
         /\ registry = [L \in Interp |-> IF L \in module THEN Types ELSE {}]
         /\ obj \in [Obj -> Object \cup {Null}]
         /\ finalized \in [Obj -> 0 .. 2]
         /\ ~ aborted => \A o \in Obj : finalized[o] <= 1
         /\ byHand \subseteq Obj
         /\ ended \subseteq Obj
         /\ ud \in [Handle -> Userdata \cup {Null}]
         /\ \A L \in Interp : L \notin module <=> state[L] = "none"
BY DEF LuaTypeOK, ObjTypeOK

LEMMA NotNull ==
  /\ \A x \in Obj : x # Null
  /\ \A x \in Handle : x # Null /\ x # Nil
  /\ \A x \in Object : x # Null
  /\ \A x \in Userdata : x # Null
BY ObjectsAssumption

LEMMA OwnedOpen ==
  ASSUME LuaTypeOK, Owned, NEW L \in Interp, OpenModule(L)
  PROVE  Owned'
BY DEF OpenModule, InitializeModule, Owned, UserdataFit, OwnedOnce, CppKeepsItsOwn, Owns

LEMMA OwnedCppNew ==
  ASSUME LuaTypeOK, Owned, NEW o \in Obj, CppNew(o)
  PROVE  Owned'
<1> DEFINE new == [type |-> "CScriptTest", by |-> "cpp"]
<1>1. new \in Object /\ new # Null /\ new.by = "cpp" /\ new.type = "CScriptTest"
  BY NotNull DEF Object, Types
<1>2. /\ obj[o] = Null /\ obj' = [obj EXCEPT ![o] = new]
      /\ UNCHANGED <<module, finalized, byHand, ended, ud>>
  BY DEF CppNew
<1> HIDE DEF new
<1>3. \A p \in Obj : obj'[p] = IF p = o THEN new ELSE obj[p]
  BY <1>2, LuaTypeParts
<1>4. \A h \in Handle : ud[h] # Null => ud[h].ptr \in Obj /\ ud[h].ptr # o
  BY <1>2, LuaTypeParts DEF Owned, UserdataFit, Userdata
<1>5. UserdataFit'
  BY <1>2, <1>3, <1>4 DEF Owned, UserdataFit
<1>6. OwnedOnce'
  BY <1>1, <1>2, <1>3 DEF Owned, OwnedOnce, Owns
<1>7. CppKeepsItsOwn'
  BY <1>1, <1>2, <1>3, LuaTypeParts DEF Owned, CppKeepsItsOwn
<1> QED BY <1>5, <1>6, <1>7 DEF Owned

LEMMA OwnedCppDelete ==
  ASSUME LuaTypeOK, Owned, NEW o \in Obj, CppDelete(o)
  PROVE  Owned'
BY DEF CppDelete, Live, Owned, UserdataFit, OwnedOnce, CppKeepsItsOwn, Owns

\* The userdata that a script makes with an object owns it.
LEMMA OwnedNew ==
  ASSUME LuaTypeOK, Owned, NEW L \in Interp, NEW h \in Handle, NEW o \in Obj, NEW t \in Types,
         ScriptNew(L, h, o, t)
  PROVE  /\ Owned'
         /\ obj' \in [Obj -> Object \cup {Null}]
         /\ ud' \in [Handle -> Userdata \cup {Null}]
         /\ held \subseteq {g \in Handle : ud[g] # Null} => held' \subseteq {g \in Handle : ud'[g] # Null}
<1> DEFINE new == [type |-> t, by |-> "script"]
           datum == [in |-> L, ptr |-> o, type |-> t, own |-> TRUE, meta |-> t]
<1>1. new \in Object /\ new # Null /\ new.by = "script" /\ new.type = t
  BY NotNull DEF Object
<1>2. /\ datum \in Userdata /\ datum # Null
      /\ datum.in = L /\ datum.ptr = o /\ datum.type = t /\ datum.own /\ datum.meta = t
  BY NotNull DEF Userdata
<1>3. t \in registry[L] /\ L \in module
  BY LuaTypeParts DEF ScriptNew
<1>4. o # Null
  BY NotNull
<1>5. ud[h] = Null /\ ud' = [ud EXCEPT ![h] = datum] /\ held' = held \cup {h}
  BY <1>3, <1>4 DEF ScriptNew, NewPointerObj, UserDatum
<1>6. /\ obj[o] = Null /\ obj' = [obj EXCEPT ![o] = new]
      /\ UNCHANGED <<module, finalized, byHand, ended>>
  BY DEF ScriptNew
<1> HIDE DEF new, datum
<1>7. \A p \in Obj : obj'[p] = IF p = o THEN new ELSE obj[p]
  BY <1>6, LuaTypeParts
<1>8. \A g \in Handle : ud'[g] = IF g = h THEN datum ELSE ud[g]
  BY <1>5, LuaTypeParts
<1>9. \A g \in Handle : ud[g] # Null => ud[g].ptr \in Obj /\ ud[g].ptr # o
  BY <1>6, LuaTypeParts DEF Owned, UserdataFit, Userdata
<1>10. UserdataFit'
  BY <1>1, <1>2, <1>3, <1>6, <1>7, <1>8, <1>9 DEF Owned, UserdataFit
<1>11. finalized[o] = 0
  BY <1>6 DEF Owned, CppKeepsItsOwn
<1>12. \A g \in Handle, p \in Obj : Owns(g, p)' <=> (g = h /\ p = o) \/ (g # h /\ p # o /\ Owns(g, p))
  BY <1>2, <1>8, <1>9 DEF Owns
<1>13. \A p \in Obj : p # o => \A g \in Handle : Owns(g, p) => g # h
  BY <1>5 DEF Owns
<1>14. OwnedOnce'
  BY <1>1, <1>6, <1>7, <1>11, <1>12, <1>13 DEF Owned, OwnedOnce
<1>15. CppKeepsItsOwn'
  BY <1>1, <1>6, <1>7, <1>11, LuaTypeParts DEF Owned, CppKeepsItsOwn
<1>16. obj' \in [Obj -> Object \cup {Null}] /\ ud' \in [Handle -> Userdata \cup {Null}]
  BY <1>1, <1>2, <1>5, <1>6, LuaTypeParts
<1>17. held \subseteq {g \in Handle : ud[g] # Null} => held' \subseteq {g \in Handle : ud'[g] # Null}
  BY <1>2, <1>5, <1>8
<1> QED BY <1>10, <1>14, <1>15, <1>16, <1>17 DEF Owned

\* __gc deletes the object of a userdata if that owns it.
LEMMA Destructs ==
  ASSUME LuaTypeOK, Owned, ~ aborted, NEW h \in Handle, ud[h] # Null, ClassDestruct(h)
  PROVE  /\ \A o \in Obj : /\ Deletes(h, o) <=> Owns(h, o)
                           /\ Owns(h, o) => obj[o] # Null /\ obj[o].by = "script"
                           /\ finalized[o] \in 0 .. 1
                           /\ finalized'[o] = finalized[o] + (IF Owns(h, o) THEN 1 ELSE 0)
         /\ finalized' \in [Obj -> 0 .. 2]
         /\ ~ aborted' => \A o \in Obj : finalized'[o] <= 1
         /\ aborted' \in BOOLEAN
<1>1. /\ ud[h] \in Userdata /\ ud[h].meta = ud[h].type /\ ud[h].type \in Types
  BY LuaTypeParts DEF Owned, UserdataFit, Userdata
<1>2. ud[h].meta # Null
  BY <1>1, ObjectsAssumption
<1>3. \A o \in Obj : Deletes(h, o) <=> Owns(h, o)
  BY <1>2 DEF Deletes, Owns
<1>4. \A o \in Obj : finalized'[o] = finalized[o] + (IF Owns(h, o) THEN 1 ELSE 0)
  BY <1>3 DEF ClassDestruct
<1>5. \A o \in Obj : finalized[o] \in 0 .. 1
  BY LuaTypeParts
<1>6. \A o \in Obj : Owns(h, o) => obj[o] # Null /\ obj[o].by = "script"
  BY DEF Owned, UserdataFit, Owns
<1>7. finalized' \in [Obj -> 0 .. 2]
  <2>1. \A o \in Obj : finalized'[o] \in 0 .. 2
    BY <1>4, <1>5
  <2>2. finalized' = [o \in Obj |-> finalized'[o]]
    BY DEF ClassDestruct
  <2> QED BY <2>1, <2>2
<1>8. aborted' = \E o \in Obj : finalized'[o] > 1
  BY DEF ClassDestruct
<1>9. ~ aborted' => \A o \in Obj : finalized'[o] <= 1
  BY <1>7, <1>8
<1> QED BY <1>3, <1>4, <1>5, <1>6, <1>7, <1>8, <1>9

\* The collector does so with a userdata that it takes away.
LEMMA OwnedCollect ==
  ASSUME LuaTypeOK, Owned, ~ aborted, NEW L \in Interp, NEW h \in Handle, Collect(L, h)
  PROVE  /\ Owned'
         /\ finalized' \in [Obj -> 0 .. 2]
         /\ ~ aborted' => \A o \in Obj : finalized'[o] <= 1
         /\ aborted' \in BOOLEAN
         /\ ud' \in [Handle -> Userdata \cup {Null}]
         /\ held' \subseteq {g \in Handle : ud'[g] # Null}
<1>1. /\ h \in Handle /\ ud[h] # Null /\ h \notin held
      /\ ClassDestruct(h)
      /\ ud' = [ud EXCEPT ![h] = Null]
      /\ UNCHANGED <<module, obj, byHand, ended, held>>
  BY DEF Collect, UserData
<1>2. /\ \A o \in Obj : /\ Owns(h, o) => obj[o] # Null /\ obj[o].by = "script"
                        /\ finalized[o] \in 0 .. 1
                        /\ finalized'[o] = finalized[o] + (IF Owns(h, o) THEN 1 ELSE 0)
      /\ finalized' \in [Obj -> 0 .. 2]
      /\ ~ aborted' => \A o \in Obj : finalized'[o] <= 1
      /\ aborted' \in BOOLEAN
  BY <1>1, Destructs
<1>3. \A g \in Handle : ud'[g] = IF g = h THEN Null ELSE ud[g]
  BY <1>1, LuaTypeParts
<1>4. \A g \in Handle, o \in Obj : Owns(g, o)' <=> g # h /\ Owns(g, o)
  BY <1>3 DEF Owns
<1>5. UserdataFit'
  BY <1>1, <1>3 DEF Owned, UserdataFit
<1>6. OwnedOnce'
  <2>1. \A o \in Obj : \A g, k \in Handle : Owns(g, o)' /\ Owns(k, o)' => g = k
    BY <1>4 DEF Owned, OwnedOnce
  <2>2. ASSUME NEW o \in Obj \ byHand', NEW g \in Handle, Owns(g, o)'
        PROVE  finalized'[o] = 0
    <3>1. g # h /\ Owns(g, o) /\ ~ Owns(h, o) /\ finalized[o] = 0
      BY <1>1, <1>4, <2>2 DEF Owned, OwnedOnce
    <3> QED BY <1>2, <3>1
  <2>3. ASSUME NEW o \in Obj, obj'[o] # Null, obj'[o].by = "script", finalized'[o] = 0
        PROVE  \E g \in Handle : Owns(g, o)'
    <3>1. ~ Owns(h, o) /\ finalized[o] = 0
      BY <1>2, <2>3
    <3>2. PICK g \in Handle : Owns(g, o)
      BY <1>1, <2>3, <3>1 DEF Owned, OwnedOnce
    <3> QED BY <1>4, <3>1, <3>2
  <2>4. \A o \in byHand' : finalized'[o] # 0
    BY <1>1, <1>2, LuaTypeParts DEF Owned, OwnedOnce
  <2>5. \A o \in Obj \ byHand' : finalized'[o] <= 1
    BY <1>1, <1>2 DEF Owned, OwnedOnce
  <2> QED BY <2>1, <2>2, <2>3, <2>4, <2>5 DEF OwnedOnce
<1>7. CppKeepsItsOwn'
  BY <1>1, <1>2 DEF Owned, CppKeepsItsOwn
<1>8. ud' \in [Handle -> Userdata \cup {Null}] /\ held' \subseteq {g \in Handle : ud'[g] # Null}
  BY <1>1, <1>3, LuaTypeParts DEF LuaTypeOK, ObjTypeOK
<1> QED BY <1>2, <1>5, <1>6, <1>7, <1>8 DEF Owned

\* A script's own call of __gc leaves the owner an owner.
LEMMA OwnedGc ==
  ASSUME LuaTypeOK, Owned, ~ aborted, NEW L \in Interp, NEW h \in Handle, NEW v \in Handle \cup {Nil},
         ScriptGc(L, h, v)
  PROVE  /\ Owned'
         /\ finalized' \in [Obj -> 0 .. 2]
         /\ ~ aborted' => \A o \in Obj : finalized'[o] <= 1
         /\ aborted' \in BOOLEAN
         /\ byHand' \subseteq Obj
<1>1. UNCHANGED <<module, obj, ended, ud>>
  BY DEF ScriptGc
<1>2. CASE v = Nil
  <2>1. aborted' = TRUE /\ UNCHANGED <<finalized, byHand>>
    BY <1>2, NotNull DEF ScriptGc, UserData
  <2>2. Owned'
    BY <1>1, <2>1, SameObjects DEF ObjectVars
  <2> QED BY <2>1, <2>2, LuaTypeParts
<1>3. CASE v # Nil
  <2>1. /\ v \in Handle /\ ud[v] # Null
        /\ ClassDestruct(v)
        /\ byHand' = byHand \cup {o \in Obj : Deletes(v, o)}
    BY <1>3 DEF ScriptGc, UserData
  <2>2. /\ \A o \in Obj : /\ Deletes(v, o) <=> Owns(v, o)
                          /\ Owns(v, o) => obj[o] # Null /\ obj[o].by = "script"
                          /\ finalized[o] \in 0 .. 1
                          /\ finalized'[o] = finalized[o] + (IF Owns(v, o) THEN 1 ELSE 0)
        /\ finalized' \in [Obj -> 0 .. 2]
        /\ ~ aborted' => \A o \in Obj : finalized'[o] <= 1
        /\ aborted' \in BOOLEAN
    BY <2>1, Destructs
  <2>3. byHand \subseteq Obj /\ byHand' \subseteq Obj
    BY <2>1, LuaTypeParts
  <2>4. \A o \in Obj : o \in byHand' <=> o \in byHand \/ Owns(v, o)
    BY <2>1, <2>2, <2>3
  <2>5. \A g \in Handle, o \in Obj : Owns(g, o)' <=> Owns(g, o)
    BY <1>1 DEF Owns
  <2>6. UserdataFit'
    BY <1>1 DEF Owned, UserdataFit
  <2>7. OwnedOnce'
    <3>1. \A o \in Obj : \A g, k \in Handle : Owns(g, o)' /\ Owns(k, o)' => g = k
      BY <2>5 DEF Owned, OwnedOnce
    <3>2. ASSUME NEW o \in Obj \ byHand', NEW g \in Handle, Owns(g, o)'
          PROVE  finalized'[o] = 0
      <4>1. o \notin byHand /\ ~ Owns(v, o) /\ Owns(g, o)
        BY <2>4, <2>5, <3>2
      <4>2. finalized[o] = 0
        BY <4>1 DEF Owned, OwnedOnce
      <4> QED BY <2>2, <4>1, <4>2
    <3>3. ASSUME NEW o \in Obj, obj'[o] # Null, obj'[o].by = "script", finalized'[o] = 0
          PROVE  \E g \in Handle : Owns(g, o)'
      <4>1. finalized[o] = 0
        BY <2>2, <3>3
      <4> QED BY <1>1, <2>5, <3>3, <4>1 DEF Owned, OwnedOnce
    <3>4. ASSUME NEW o \in byHand' PROVE finalized'[o] # 0
      <4>1. o \in Obj
        BY <2>3
      <4>2. CASE Owns(v, o)
        BY <2>2, <4>1, <4>2
      <4>3. CASE ~ Owns(v, o)
        <5>1. finalized[o] # 0
          BY <2>4, <4>1, <4>3 DEF Owned, OwnedOnce
        <5> QED BY <2>2, <4>1, <4>3, <5>1
      <4> QED BY <4>2, <4>3
    <3>5. \A o \in Obj \ byHand' : finalized'[o] <= 1
      BY <2>2, <2>4
    <3> QED BY <3>1, <3>2, <3>3, <3>4, <3>5 DEF OwnedOnce
  <2>8. CppKeepsItsOwn'
    BY <1>1, <2>2 DEF Owned, CppKeepsItsOwn
  <2> QED BY <2>2, <2>3, <2>6, <2>7, <2>8 DEF Owned
<1> QED BY <1>2, <1>3

\* What the options of a call push for the objects it was given.
GivenAs(opts, os, hs) ==
  \A i \in DOMAIN opts : opts[i] = "t" =>
    IF os[i] = Null THEN hs[i] = Null
    ELSE hs[i] \in Handle /\ ud[hs[i]].ptr = os[i] /\ ud[hs[i]].meta = obj[os[i]].type

\* Call gives the script userdata that do not own the objects.
LEMMA OwnedPushed ==
  ASSUME LuaTypeOK, Owned, NEW L \in Interp, L \in module, NEW opts,
         NEW os \in [DOMAIN opts -> CppObject \cup {Null}], NEW hs \in [DOMAIN opts -> Handle \cup {Null}],
         PushPointers(L, opts, os, hs), UNCHANGED <<module, obj, finalized, byHand, ended>>
  PROVE  /\ Owned'
         /\ ud' \in [Handle -> Userdata \cup {Null}]
         /\ held' \subseteq {g \in Handle : ud'[g] # Null}
         /\ GivenAs(opts, os, hs)'
<1> DEFINE datum(o) == [in |-> L, ptr |-> o, type |-> "CScriptTest", own |-> FALSE, meta |-> "CScriptTest"]
           new == {i \in DOMAIN opts : opts[i] = "t" /\ os[i] # Null}
<1>1. \A o \in Obj : /\ datum(o) \in Userdata /\ datum(o) # Null
                     /\ datum(o).in = L /\ datum(o).ptr = o /\ datum(o).type = "CScriptTest" /\ ~ datum(o).own
                     /\ datum(o).meta = "CScriptTest"
  BY NotNull DEF Userdata, Types
<1>2. \A o \in Obj : UserDatum(L, o, "CScriptTest", FALSE) = datum(o)
  <2>1. "CScriptTest" \in registry[L]
    BY LuaTypeParts DEF Types
  <2> QED BY <2>1 DEF UserDatum
<1>3. \A i \in new : os[i] \in Obj /\ obj[os[i]] # Null /\ obj[os[i]].type = "CScriptTest" /\ obj[os[i]].by = "cpp"
  BY DEF CppObject, Live, Owned, CppKeepsItsOwn
<1>4. /\ \A i \in DOMAIN opts : IF i \in new THEN hs[i] \in Handle /\ ud[hs[i]] = Null ELSE hs[i] = Null
      /\ \A i, k \in new : hs[i] = hs[k] => i = k
      /\ ud' = [h \in Handle |-> IF \E i \in new : hs[i] = h
                                 THEN UserDatum(L, os[CHOOSE i \in new : hs[i] = h], "CScriptTest", FALSE) ELSE ud[h]]
      /\ held' = held \cup {hs[i] : i \in new}
  BY DEF PushPointers
<1> HIDE DEF datum
<1>5. ASSUME NEW i \in new
      PROVE  hs[i] \in Handle /\ ud[hs[i]] = Null /\ ud'[hs[i]] = datum(os[i])
  <2>1. hs[i] \in Handle /\ ud[hs[i]] = Null
    BY <1>4
  <2>2. (CHOOSE k \in new : hs[k] = hs[i]) = i
    BY <1>4
  <2>3. ud'[hs[i]] = UserDatum(L, os[CHOOSE k \in new : hs[k] = hs[i]], "CScriptTest", FALSE)
    BY <1>4, <2>1
  <2> QED BY <1>2, <1>3, <2>1, <2>2, <2>3
<1>6. \A g \in Handle : (\A i \in new : hs[i] # g) => ud'[g] = ud[g]
  BY <1>4
<1>7. \A i \in DOMAIN opts : opts[i] = "t" /\ os[i] = Null => hs[i] = Null
  BY <1>4
<1>8. \A i \in DOMAIN opts : opts[i] = "t" /\ os[i] # Null => i \in new
  OBVIOUS
<1> HIDE DEF new
<1>9. \A g \in Handle, p \in Obj : Owns(g, p)' <=> Owns(g, p)
  <2> TAKE g \in Handle, p \in Obj
  <2>1. CASE \E i \in new : hs[i] = g
    BY <1>1, <1>3, <1>5, <2>1 DEF Owns
  <2>2. CASE \A i \in new : hs[i] # g
    BY <1>6, <2>2 DEF Owns
  <2> QED BY <2>1, <2>2
<1>10. UserdataFit'
  <2> SUFFICES ASSUME NEW g \in Handle, ud'[g] # Null
               PROVE  /\ ud'[g].in \in module
                      /\ ud'[g].meta = ud'[g].type
                      /\ obj[ud'[g].ptr] # Null
                      /\ obj[ud'[g].ptr].type = ud'[g].type
                      /\ ud'[g].own <=> obj[ud'[g].ptr].by = "script"
    BY DEF UserdataFit
  <2>1. CASE \E i \in new : hs[i] = g
    <3>1. PICK i \in new : hs[i] = g
      BY <2>1
    <3>2. ud'[g] = datum(os[i]) /\ os[i] \in Obj
      BY <1>3, <1>5, <3>1
    <3> QED BY <1>1, <1>3, <3>2
  <2>2. CASE \A i \in new : hs[i] # g
    BY <1>6, <2>2 DEF Owned, UserdataFit
  <2> QED BY <2>1, <2>2
<1>11. OwnedOnce' /\ CppKeepsItsOwn'
  BY <1>9 DEF Owned, OwnedOnce, CppKeepsItsOwn
<1>12. ASSUME NEW g \in Handle PROVE ud'[g] \in Userdata \cup {Null}
  <2>1. CASE \E i \in new : hs[i] = g
    BY <1>1, <1>3, <1>5, <2>1
  <2>2. CASE \A i \in new : hs[i] # g
    BY <1>6, <2>2, LuaTypeParts
  <2> QED BY <2>1, <2>2
<1>13. ud' \in [Handle -> Userdata \cup {Null}]
  <2>1. ud' = [g \in Handle |-> ud'[g]]
    BY <1>4
  <2> QED BY <1>12, <2>1
<1>14. ASSUME NEW g \in held' PROVE g \in Handle /\ ud'[g] # Null
  <2>1. CASE \E i \in new : hs[i] = g
    BY <1>1, <1>3, <1>5, <2>1
  <2>2. CASE \A i \in new : hs[i] # g
    <3>1. g \in held
      BY <1>4, <2>2
    <3>2. g \in Handle /\ ud[g] # Null
      BY <3>1 DEF LuaTypeOK, ObjTypeOK
    <3> QED BY <1>6, <2>2, <3>2
  <2> QED BY <2>1, <2>2
<1>15. GivenAs(opts, os, hs)'
  <2> SUFFICES ASSUME NEW i \in DOMAIN opts, opts[i] = "t"
               PROVE  IF os[i] = Null THEN hs[i] = Null
                      ELSE hs[i] \in Handle /\ ud'[hs[i]].ptr = os[i] /\ ud'[hs[i]].meta = obj[os[i]].type
    BY DEF GivenAs
  <2>1. CASE os[i] = Null
    BY <1>7, <2>1
  <2>2. CASE os[i] # Null
    <3>1. i \in new
      BY <1>8, <2>2
    <3>2. hs[i] \in Handle /\ ud'[hs[i]] = datum(os[i]) /\ os[i] \in Obj /\ obj[os[i]].type = "CScriptTest"
      BY <1>3, <1>5, <3>1
    <3> QED BY <1>1, <2>2, <3>2
  <2> QED BY <2>1, <2>2
<1> QED BY <1>10, <1>11, <1>13, <1>14, <1>15 DEF Owned

-----------------------------------------------------------------------------
(* ObjectsAreSafe.                                                         *)

LEMMA OwnedByScripts ==
  ASSUME LuaTypeOK, Owned
  PROVE  ScriptsOwnOnlyTheirs
<1>0. \A o \in byHand : obj[o].by = "script"
  BY LuaTypeParts DEF Owned, OwnedOnce, CppKeepsItsOwn
<1> SUFFICES ASSUME NEW o \in Obj \ byHand, obj[o] # Null
             PROVE  finalized[o] + Cardinality(Owners(o)) = IF obj[o].by = "script" THEN 1 ELSE 0
  BY <1>0 DEF ScriptsOwnOnlyTheirs
<1>1. Owners(o) = {h \in Handle : Owns(h, o)}
  BY DEF Owners, Owns
<1>2. finalized[o] \in 0 .. 1
  BY LuaTypeParts DEF Owned, OwnedOnce
<1>3. Cardinality({}) = 0
  BY FS_EmptySet
<1>4. CASE obj[o].by # "script"
  <2>1. finalized[o] = 0 /\ \A h \in Handle : ~ Owns(h, o)
    BY <1>4 DEF Owned, UserdataFit, CppKeepsItsOwn, Owns
  <2>2. Owners(o) = {}
    BY <1>1, <2>1
  <2> QED BY <1>3, <1>4, <2>1, <2>2
<1>5. CASE obj[o].by = "script" /\ finalized[o] # 0
  <2>1. \A h \in Handle : ~ Owns(h, o)
    BY <1>5 DEF Owned, OwnedOnce
  <2>2. Owners(o) = {}
    BY <1>1, <2>1
  <2> QED BY <1>2, <1>3, <1>5, <2>2
<1>6. CASE obj[o].by = "script" /\ finalized[o] = 0
  <2>1. PICK h \in Handle : Owns(h, o)
    BY <1>6 DEF Owned, OwnedOnce
  <2>2. \A g \in Handle : Owns(g, o) => g = h
    BY <2>1 DEF Owned, OwnedOnce
  <2>3. Owners(o) = {h}
    BY <1>1, <2>1, <2>2
  <2>4. Cardinality({h}) = 1
    BY FS_Singleton
  <2> QED BY <1>6, <2>3, <2>4
<1> QED BY <1>4, <1>5, <1>6

\* A value converts to a pointer of a class only if it is of that class.
LEMMA Converted ==
  ASSUME LuaTypeOK, Owned, NEW v \in Handle \cup {Nil}, NEW t \in Types, NEW p \in ConvertPtr(v, t),
         p # Null
  PROVE  /\ p \in Obj /\ obj[p] # Null /\ obj[p].type = t
         /\ obj[p].by = "script" /\ p \notin byHand => Live(p)
<1>1. v # Nil
  BY DEF ConvertPtr
<1>2. v \in Handle /\ ud[v] # Null /\ p = ud[v].ptr /\ TypeCheckStruct(ud[v].type, t)
  BY <1>1 DEF ConvertPtr
<1>3. ud[v] \in Userdata /\ p \in Obj
  BY <1>2, LuaTypeParts DEF Userdata
<1>4. ud[v].type = t
  <2>1. casts[t] \in {<<t>>, <<>>}
    BY DEF LuaTypeOK, ObjTypeOK
  <2>2. Range(<<t>>) = {t} /\ Range(<<>>) = {}
    BY DEF Range
  <2> QED BY <1>2, <2>1, <2>2 DEF TypeCheckStruct
<1>5. obj[p] # Null /\ obj[p].type = t /\ (ud[v].own <=> obj[p].by = "script")
  BY <1>2, <1>4 DEF Owned, UserdataFit
<1>6. ASSUME obj[p].by = "script", p \notin byHand PROVE Live(p)
  <2>1. Owns(v, p)
    BY <1>2, <1>5, <1>6 DEF Owns
  <2>2. finalized[p] = 0
    BY <1>2, <1>3, <1>6, <2>1 DEF Owned, OwnedOnce
  <2>3. p \notin ended
    BY <1>6 DEF Owned, CppKeepsItsOwn
  <2> QED BY <1>5, <2>2, <2>3 DEF Live
<1> QED BY <1>3, <1>5, <1>6

\* A wrapper works on what the value converted to.
LEMMA UseIsSafe ==
  ASSUME LuaTypeOK, Owned, NEW L \in Interp, NEW h \in Handle, NEW v \in Handle \cup {Nil},
         ScriptUse(L, h, v)
  PROVE  /\ WrappersAreSafe'
         /\ UNCHANGED objData
         /\ aborted' \in BOOLEAN
         /\ seen' # Null => seen'.event = "use"
<1>0. UNCHANGED objData
  BY DEF ScriptUse
<1>1. ud[h] # Null /\ ud[h].meta # Null
  BY DEF ScriptUse, UserData
<1>2. ud[h].meta \in Types
  <2>1. ud[h] \in Userdata
    BY <1>1, LuaTypeParts
  <2>2. ud[h].meta \in Types \cup {Null}
    BY <2>1 DEF Userdata
  <2> QED BY <1>1, <2>2
<1> DEFINE crash(w, a, p) == (p = Null /\ ~w.null) \/ (p # Null /\ a = "nil")
<1>3. PICK w \in ClassGet(ud[h].meta) \cup ClassSet(ud[h].meta) :
        \E a \in w.args, p \in ConvertPtr(v, ud[h].meta) :
          /\ aborted' \in {crash(w, a, p), crash(w, a, p) \/ (p # Null /\ ~Live(p))}
          /\ seen' = IF p = Null \/ crash(w, a, p) THEN Null ELSE [event |-> "use", obj |-> p, type |-> ud[h].meta]
  BY DEF ScriptUse
<1>9. PICK a \in w.args, p \in ConvertPtr(v, ud[h].meta) :
        /\ aborted' \in {crash(w, a, p), crash(w, a, p) \/ (p # Null /\ ~Live(p))}
        /\ seen' = IF p = Null \/ crash(w, a, p) THEN Null ELSE [event |-> "use", obj |-> p, type |-> ud[h].meta]
  BY <1>3
<1>4. aborted' \in BOOLEAN /\ (seen' # Null => seen'.event = "use")
  BY <1>9
<1>5. ASSUME seen' # Null
      PROVE  /\ p # Null
             /\ seen' = [event |-> "use", obj |-> p, type |-> ud[h].meta]
  BY <1>9, <1>5
<1>6. ASSUME seen' # Null
      PROVE  /\ seen'.obj = p /\ seen'.type = ud[h].meta
             /\ obj[p].type = ud[h].meta
             /\ obj[p].by = "script" /\ p \notin byHand => Live(p)
  BY <1>2, <1>5, <1>6, Converted
<1>7. UNCHANGED <<obj, finalized, byHand, ended>>
  BY <1>0 DEF objData
<1>8. WrappersAreSafe'
  BY <1>6, <1>7 DEF WrappersAreSafe, Live
<1> QED BY <1>0, <1>4, <1>8

-----------------------------------------------------------------------------
(* Short sequences.                                                        *)

LEMMA Tuples ==
  ASSUME NEW S, NEW s \in Seq(S)
  PROVE  /\ Len(s) = 1 => s = <<s[1]>>
         /\ Len(s) = 2 => s = <<s[1], s[2]>>
         /\ Len(s) = 3 => s = <<s[1], s[2], s[3]>>
<1>1. Len(s) = 1 => s = <<s[1]>>
  OBVIOUS
<1>2. Len(s) = 2 => s = <<s[1], s[2]>>
  OBVIOUS
<1>3. Len(s) = 3 => s = <<s[1], s[2], s[3]>>
  OBVIOUS
<1> QED BY <1>1, <1>2, <1>3

LEMMA Starts ==
  ASSUME NEW S, NEW s \in Seq(S), NEW n \in Nat, n <= Len(s)
  PROVE  /\ n = 1 => SubSeq(s, 1, n) = <<s[1]>>
         /\ n = 2 => SubSeq(s, 1, n) = <<s[1], s[2]>>
         /\ n = 3 => SubSeq(s, 1, n) = <<s[1], s[2], s[3]>>
<1> DEFINE p == SubSeq(s, 1, n)
<1>1. /\ p \in Seq(S) /\ Len(p) = n
      /\ \A i \in 1..n : p[i] = s[i]
  OBVIOUS
<1> HIDE DEF p
<1>2. n = 1 => p = <<s[1]>>
  <2>1. SUFFICES ASSUME n = 1 PROVE p = <<s[1]>>
    OBVIOUS
  <2>2. p = <<p[1]>>
    BY <1>1, <2>1, Tuples
  <2> QED BY <1>1, <2>1, <2>2
<1>3. n = 2 => p = <<s[1], s[2]>>
  <2>1. SUFFICES ASSUME n = 2 PROVE p = <<s[1], s[2]>>
    OBVIOUS
  <2>2. p = <<p[1], p[2]>>
    BY <1>1, <2>1, Tuples
  <2> QED BY <1>1, <2>1, <2>2
<1>4. n = 3 => p = <<s[1], s[2], s[3]>>
  <2>1. SUFFICES ASSUME n = 3 PROVE p = <<s[1], s[2], s[3]>>
    OBVIOUS
  <2>2. p = <<p[1], p[2], p[3]>>
    BY <1>1, <2>1, Tuples
  <2> QED BY <1>1, <2>1, <2>2
<1> QED BY <1>2, <1>3, <1>4 DEF p

LEMMA Joined ==
  ASSUME NEW S, NEW s \in Seq(S), NEW k \in Nat, k <= Len(s)
  PROVE  SubSeq(s, 1, k) \o SubSeq(s, k + 1, Len(s)) = s
<1>1. Len(s) \in Nat /\ \A i \in 1..Len(s) : s[i] \in S
  BY ElementOfSeq
<1> DEFINE a == SubSeq(s, 1, k)
           b == SubSeq(s, k + 1, Len(s))
<1>2. a \in Seq(S) /\ Len(a) = k /\ \A i \in 1..k : a[i] = s[i]
  BY <1>1
<1>3. b \in Seq(S) /\ Len(b) = Len(s) - k /\ \A i \in 1..(Len(s) - k) : b[i] = s[k + i]
  BY <1>1
<1> HIDE DEF a, b
<1>4. /\ a \o b \in Seq(S) /\ Len(a \o b) = Len(s)
      /\ \A i \in 1..Len(s) : (a \o b)[i] = IF i <= k THEN a[i] ELSE b[i - k]
  BY <1>1, <1>2, <1>3
<1>5. \A i \in 1..Len(s) : (a \o b)[i] = s[i]
  BY <1>1, <1>2, <1>3, <1>4
<1>6. a \o b = s
  BY <1>1, <1>4, <1>5, SeqEqual
<1> QED BY <1>6 DEF a, b

LEMMA TupleTypes ==
  ASSUME NEW S, NEW a \in S, NEW b \in S, NEW c \in S
  PROVE  /\ <<a, b, c>> \in Seq(S) /\ Len(<<a, b, c>>) = 3
         /\ <<a, b>> \in Seq(S) /\ Len(<<a, b>>) = 2
OBVIOUS

LEMMA JoinedThree ==
  ASSUME NEW S, NEW a \in S, NEW b \in S, NEW c \in S
  PROVE  <<a,b>> \o <<c>> = <<a,b,c>>
<1> DEFINE s == <<a, b>> \o <<c>>
<1>1. <<a, b>> \in Seq(S) /\ <<c>> \in Seq(S)
  OBVIOUS
<1>2. s \in Seq(S) /\ Len(s) = 3 /\ s[1] = a /\ s[2] = b /\ s[3] = c
  BY <1>1
<1> QED BY <1>2, Tuples

-----------------------------------------------------------------------------
(* GetVal.                                                                 *)

\* The leaves of a tree of tables.
IsTree(g) ==
  /\ DOMAIN g \subseteq Seq(STRING) \ {<<>>}
  /\ \A p \in DOMAIN g : /\ g[p].kind \in {"string", "number", "function"}
                         /\ \A q \in DOMAIN g : ~ IsStrictPrefix(p, q)

Trees == \A L \in Interp : IsTree(globals[L])

LEMMA SameHead ==
  ASSUME NEW p \in Seq(STRING), NEW q \in Seq(STRING), p # <<>>, IsStrictPrefix(p, q)
  PROVE  p[1] = q[1]
<1>1. Len(p) \in Nat /\ Len(q) \in Nat /\ Len(p) <= Len(q) /\ 1 <= Len(p)
  BY EmptySeq DEF IsStrictPrefix, IsPrefix
<1>2. SubSeq(p, 1, Len(p)) = SubSeq(q, 1, Len(p))
  BY DEF IsStrictPrefix, IsPrefix
<1>3. SubSeq(p, 1, Len(p))[1] = p[1] /\ SubSeq(q, 1, Len(p))[1] = q[1]
  BY <1>1
<1> QED BY <1>2, <1>3

\* What a file assigns replaces whole trees, those of the names it assigns.
LEMMA LoadedTree ==
  ASSUME NEW old, IsTree(old), NEW file \in Files
  PROVE  IsTree(Loaded(old, file))
<1> DEFINE leaves == DOMAIN file.leaves
           names == {p[1] : p \in leaves}
           kept == {p \in DOMAIN old : p[1] \notin names}
           new == Loaded(old, file)
<1>1. /\ leaves \subseteq Seq(STRING) \ {<<>>}
      /\ \A p \in leaves : /\ file.leaves[p].kind \in {"string", "number", "function"}
                           /\ \A q \in leaves : ~ IsStrictPrefix(p, q)
  BY FilesAssumption
<1>2. /\ DOMAIN new = kept \cup leaves
      /\ \A p \in kept \cup leaves : new[p] = IF p \in kept THEN old[p] ELSE file.leaves[p]
  BY DEF Loaded
<1>3. \A p \in leaves : p[1] \in names
  OBVIOUS
<1>4. /\ kept \subseteq Seq(STRING) \ {<<>>}
      /\ \A p \in kept : /\ p[1] \notin names
                         /\ old[p].kind \in {"string", "number", "function"}
                         /\ \A q \in kept : ~ IsStrictPrefix(p, q)
  BY DEF IsTree
<1> HIDE DEF leaves, names, kept, new
<1>5. ASSUME NEW p \in kept \cup leaves, NEW q \in kept \cup leaves, IsStrictPrefix(p, q)
      PROVE  FALSE
  <2>1. p[1] = q[1]
    BY <1>1, <1>4, <1>5, SameHead
  <2> QED BY <1>1, <1>3, <1>4, <1>5, <2>1
<1>6. IsTree(new)
  BY <1>1, <1>2, <1>4, <1>5 DEF IsTree
<1> QED BY <1>6 DEF new

LEMMA TreesReloaded ==
  ASSUME DOMAIN globals = Interp, Trees, NEW L \in Interp, NEW file \in Files, Reloaded(L, file)
  PROVE  Trees' /\ DOMAIN globals' = Interp
<1>1. globals' = globals \/ globals' = [globals EXCEPT ![L] = Loaded(globals[L], file)]
  BY DEF Reloaded
<1>2. IsTree(Loaded(globals[L], file))
  BY LoadedTree DEF Trees
<1> QED BY <1>1, <1>2 DEF Trees

LEMMA EmptyTree == IsTree(<<>>)
<1>1. DOMAIN <<>> = {}
  OBVIOUS
<1> QED BY <1>1 DEF IsTree

\* A path is followed from table to table: a leaf has tables before it only.
LEMMA TablesBefore ==
  ASSUME Trees, NEW L \in Interp, NEW p, NEW q, IsStrictPrefix(p, q), ~ IsTable(L, p)
  PROVE  Leaf(L, q, Other) = Other
<1>1. IsTree(globals[L])
  BY DEF Trees
<1>2. q \notin DOMAIN globals[L]
  <2>1. SUFFICES ASSUME q \in DOMAIN globals[L] PROVE FALSE
    OBVIOUS
  <2>2. p \notin DOMAIN globals[L]
    BY <1>1, <2>1 DEF IsTree
  <2> QED BY <2>1, <2>2 DEF IsTable, Kind
<1> QED BY <1>2 DEF Leaf, IsString, Kind

\* The path before the last key is that of a strict prefix.
LEMMA StrictPrefixes ==
  ASSUME NEW S, NEW ks \in Seq(S), NEW n \in 1 .. Len(ks) - 1
  PROVE  IsStrictPrefix(SubSeq(ks, 1, n), ks)
<1> DEFINE p == SubSeq(ks, 1, n)
<1>1. /\ Len(ks) \in Nat /\ n \in Nat /\ n < Len(ks) /\ 1 <= n
      /\ p \in Seq(S) /\ Len(p) = n
  OBVIOUS
<1>2. SubSeq(p, 1, n) = p
  BY <1>1
<1>3. p # <<>> /\ p # ks
  BY <1>1
<1> QED BY <1>1, <1>2, <1>3 DEF IsStrictPrefix, IsPrefix

LEMMA GetValIs ==
  ASSUME Trees, NEW L \in Interp, NEW S, NEW ks \in Seq(S), Len(ks) \in 1 .. 4
  PROVE  GetValList(L, Len(ks), ks, Other) = Leaf(L, ks, Other)
<1> DEFINE leaf == Leaf(L, ks, Other)
<1>1. /\ Len(ks) = 1 => ks = <<ks[1]>>
      /\ Len(ks) = 2 => ks = <<ks[1], ks[2]>>
  BY Tuples
<1>2. /\ Len(ks) >= 1 => SubSeq(ks, 1, 1) = <<ks[1]>>
      /\ Len(ks) >= 2 => SubSeq(ks, 1, 2) = <<ks[1], ks[2]>>
      /\ Len(ks) >= 3 => SubSeq(ks, 1, 3) = <<ks[1], ks[2], ks[3]>>
  BY Starts
<1>3. \A n \in 1 .. Len(ks) - 1 : ~ IsTable(L, SubSeq(ks, 1, n)) => leaf = Other
  BY StrictPrefixes, TablesBefore
<1>4. Len(ks) >= 2 => <<ks[1], ks[2]>> \o SubSeq(ks, 3, Len(ks)) = ks
  BY <1>2, Joined
<1> DEFINE rest == SubSeq(ks, 3, Len(ks))
<1>5. /\ Len(ks) = 3 => rest = <<ks[3]>>
      /\ Len(ks) = 4 => rest = <<ks[3], ks[4]>>
  <2>1. Len(ks) \in Int /\ 3 \in Int /\ \A i \in 3 .. Len(ks) : ks[i] \in S
    BY ElementOfSeq
  <2>2. /\ rest \in Seq(S)
        /\ Len(rest) = IF 3 <= Len(ks) THEN Len(ks) - 3 + 1 ELSE 0
        /\ \A i \in 1 .. Len(ks) - 3 + 1 : rest[i] = ks[3 + i - 1]
    BY <2>1, SubSeqProperties
  <2> HIDE DEF rest
  <2>3. ASSUME Len(ks) = 3 PROVE rest = <<ks[3]>>
    <3>1. Len(rest) = 1 /\ rest[1] = ks[3]
      BY <2>2, <2>3
    <3>2. rest = <<rest[1]>>
      BY <2>2, <3>1, Tuples
    <3> QED BY <3>1, <3>2
  <2>4. ASSUME Len(ks) = 4 PROVE rest = <<ks[3], ks[4]>>
    <3>1. Len(rest) = 2 /\ rest[1] = ks[3] /\ rest[2] = ks[4]
      BY <2>2, <2>4
    <3>2. rest = <<rest[1], rest[2]>>
      BY <2>2, <3>1, Tuples
    <3> QED BY <3>1, <3>2
  <2> QED BY <2>3, <2>4
<1>6. CASE Len(ks) = 1
  BY <1>1, <1>6 DEF GetValList
<1>7. CASE Len(ks) = 2
  <2>1. GetValList(L, 2, ks, Other) = IF IsTable(L, <<ks[1]>>) THEN leaf ELSE Other
    BY <1>1, <1>7 DEF GetValList
  <2>2. 1 \in 1 .. Len(ks) - 1 /\ <<ks[1]>> = SubSeq(ks, 1, 1)
    BY <1>2, <1>7
  <2> QED BY <1>3, <1>7, <2>1, <2>2
<1>8. ASSUME Len(ks) \in {3, 4}
      PROVE  /\ GetValList(L, Len(ks), ks, Other) =
                  IF IsTable(L, <<ks[1], ks[2]>>)
                  THEN GetValRest(L, <<ks[1], ks[2]>>, Len(ks) - 2, rest, Other) ELSE Other
             /\ ~ IsTable(L, <<ks[1], ks[2]>>) => leaf = Other
  <2>1. <<ks[1], ks[2]>> = SubSeq(ks, 1, 2)
    BY <1>2, <1>8
  <2>2. 2 \in 1 .. Len(ks) - 1
    BY <1>8
  <2> HIDE DEF leaf, rest
  <2>3. ~ IsTable(L, <<ks[1], ks[2]>>) => leaf = Other
    BY <1>3, <2>1, <2>2
  <2>4. Len(ks) # 0 /\ Len(ks) # 1 /\ Len(ks) # 2
    BY <1>8
  <2>5. GetValList(L, Len(ks), ks, Other) =
          IF IsTable(L, <<ks[1], ks[2]>>)
          THEN GetValRest(L, <<ks[1], ks[2]>>, Len(ks) - 2, rest, Other) ELSE Other
    BY <2>4 DEF GetValList, rest
  <2> QED BY <2>3, <2>5
<1>9. CASE Len(ks) = 3
  <2>1. GetValRest(L, <<ks[1], ks[2]>>, 1, <<ks[3]>>, Other) = leaf
    <3> DEFINE p == <<ks[1], ks[2]>>
               q == <<ks[3]>>
    <3>1. q[1] = ks[3] /\ p \o <<ks[3]>> = ks
      BY <1>4, <1>5, <1>9
    <3> HIDE DEF p, q
    <3>2. GetValRest(L, p, 1, q, Other) = Leaf(L, p \o <<q[1]>>, Other)
      BY DEF GetValRest
    <3> QED BY <3>1, <3>2 DEF p, q
  <2>2. rest = <<ks[3]>> /\ Len(ks) - 2 = 1
    BY <1>5, <1>9
  <2> HIDE DEF leaf, rest
  <2>3. GetValRest(L, <<ks[1], ks[2]>>, Len(ks) - 2, rest, Other) = leaf
    BY <2>1, <2>2
  <2> QED BY <1>8, <1>9, <2>3 DEF leaf
<1>10. CASE Len(ks) = 4
  <2>1. <<ks[1], ks[2]>> \o <<ks[3]>> = <<ks[1], ks[2], ks[3]>>
    <3>1. /\ 1 \in 1 .. Len(ks) /\ 2 \in 1 .. Len(ks) /\ 3 \in 1 .. Len(ks)
      BY <1>10
    <3>2. ks[1] \in S /\ ks[2] \in S /\ ks[3] \in S
      BY <3>1, ElementOfSeq
    <3> QED BY <3>2, JoinedThree
  <2>2. GetValRest(L, <<ks[1], ks[2]>>, 2, <<ks[3], ks[4]>>, Other) =
          IF IsTable(L, <<ks[1], ks[2], ks[3]>>) THEN leaf ELSE Other
    <3> DEFINE p == <<ks[1], ks[2]>>
               q == <<ks[3], ks[4]>>
    <3>1. q[1] = ks[3] /\ q[2] = ks[4]
      OBVIOUS
    <3>2. p \o <<q[1]>> = <<ks[1], ks[2], ks[3]>> /\ p \o <<q[1], q[2]>> = ks
      BY <1>4, <1>5, <1>10, <2>1, <3>1
    <3> HIDE DEF p, q
    <3>3. GetValRest(L, p, 2, q, Other) =
            IF IsTable(L, p \o <<q[1]>>) THEN Leaf(L, p \o <<q[1], q[2]>>, Other) ELSE Other
      BY DEF GetValRest
    <3> QED BY <3>2, <3>3 DEF p, q
  <2>3. 3 \in 1 .. Len(ks) - 1 /\ <<ks[1], ks[2], ks[3]>> = SubSeq(ks, 1, 3)
    BY <1>2, <1>10
  <2>4. ~ IsTable(L, <<ks[1], ks[2], ks[3]>>) => leaf = Other
    BY <1>3, <2>3
  <2>5. rest = <<ks[3], ks[4]>> /\ Len(ks) - 2 = 2
    BY <1>5, <1>10
  <2> HIDE DEF leaf, rest
  <2>6. GetValRest(L, <<ks[1], ks[2]>>, Len(ks) - 2, rest, Other) = leaf
    BY <2>2, <2>4, <2>5
  <2> QED BY <1>8, <1>10, <2>6 DEF leaf
<1> QED BY <1>6, <1>7, <1>9, <1>10

LEMMA GetValFollows ==
  ASSUME Trees, NEW L \in Interp, GetVal(L)
  PROVE  GetValFollowsPath'
<1>1. PICK ks \in Keys :
        /\ aborted' = Panics(L, Len(ks), ks)
        /\ seen' = IF aborted' THEN Null
                   ELSE [event |-> "get", in |-> L, keys |-> ks, value |-> GetValList(L, Len(ks), ks, Other)]
  BY DEF GetVal
<1>2. ks \in Seq(STRING)
  BY CallAssumption
<1>3. globals' = globals
  BY DEF GetVal
<1>4. ASSUME seen' # Null, Len(seen'.keys) \in 1 .. 4
      PROVE  (seen.value = Leaf(seen.in, seen.keys, Other))'
  <2>1. seen'.in = L /\ seen'.keys = ks /\ seen'.value = GetValList(L, Len(ks), ks, Other)
    BY <1>1, <1>4
  <2>2. seen'.value = Leaf(L, ks, Other)
    BY <1>2, <1>4, <2>1, GetValIs
  <2>3. Leaf(seen.in, seen.keys, Other)' = Leaf(L, ks, Other)
    BY <1>3, <2>1 DEF Leaf, IsString, Kind
  <2> QED BY <2>2, <2>3
<1> QED BY <1>4 DEF GetValFollowsPath, ReadsLeaf

-----------------------------------------------------------------------------
(* Call.                                                                   *)

LEMMA OneLess ==
  ASSUME NEW a, NEW b, NEW c, a # c, b # c
  PROVE  LET s == <<a, c, b>>
             t == <<a, b>>
         IN /\ Keep(s, {i \in DOMAIN s : s[i] # c}) = t
            /\ Keep(t, {i \in DOMAIN t : t[i] # c}) = t
<1> DEFINE S == {a, b, c}
           s == <<a, c, b>>
           t == <<a, b>>
           D == {i \in DOMAIN s : s[i] # c}
<1>1. /\ s \in Seq(S) /\ t \in Seq(S) /\ Len(s) = 3 /\ Len(t) = 2
      /\ s[1] = a /\ s[2] = c /\ s[3] = b /\ t[1] = a /\ t[2] = b
  BY TupleTypes
<1> HIDE DEF s, t, S
<1>2. DOMAIN s = 1..3 /\ DOMAIN t = 1..2
  BY <1>1, LenProperties
<1> DEFINE A == DOMAIN s
<1>3. D = A \ {2}
  BY <1>1, <1>2
<1>4. Keep(s, A) = s /\ Cardinality(A) = 3 /\ Nth(A, 2) = 2
  <2>1. Keep(s, A) = s
    BY <1>1, KeptAll
  <2>2. 3 \in Nat /\ 2 \in 1..3 /\ A = 1..3
    BY <1>2
  <2>3. \A n \in Nat : Cardinality(1..n) = n /\ \A k \in 1..n : Nth(1..n, k) = k
    BY NthAll
  <2> HIDE DEF A
  <2> QED BY <2>1, <2>2, <2>3
<1>5. RemoveAt(s, 2) = Keep(s, D)
  <2> SUFFICES ASSUME NEW q, q = 2 PROVE RemoveAt(s, q) = Keep(s, D)
    OBVIOUS
  <2>1. /\ s \in Seq(S) /\ A \in SUBSET (1..Len(s)) /\ q \in 1..Cardinality(A)
        /\ Keep(s, A) \in Seq(S)
    BY <1>1, <1>2, <1>4
  <2> HIDE DEF A, D
  <2>2. RemoveAt(Keep(s, A), q) = Keep(s, A \ {Nth(A, q)})
    BY ONLY <2>1, KeptErased
  <2> QED BY <1>3, <1>4, <2>2
<1>6. {i \in DOMAIN t : t[i] # c} = DOMAIN t
  BY <1>1, <1>2
<1> HIDE DEF D
<1>7. RemoveAt(s, 2) = t
  <2> DEFINE u == RemoveAt(s, 2)
  <2>1. u \in Seq(S) /\ Len(u) = 2 /\ u[1] = s[1] /\ u[2] = s[3]
    <3>1. 2 \in 1..Len(s)
      BY <1>1
    <3>2. /\ u \in Seq(S) /\ Len(u) = Len(s) - 1
          /\ \A k \in 1..(Len(s) - 1) : u[k] = IF k < 2 THEN s[k] ELSE s[k + 1]
      BY ONLY <1>1, <3>1, RemoveAtProperties
    <3> QED BY <1>1, <3>2
  <2> HIDE DEF u
  <2>2. \A k \in 1..2 : u[k] = t[k]
    BY <1>1, <2>1
  <2>3. u = t
    BY <1>1, <2>1, <2>2, SeqEqual
  <2> QED BY <2>3 DEF u
<1>8. Keep(t, DOMAIN t) = t
  BY <1>1, KeptAll
<1> QED BY <1>5, <1>6, <1>7, <1>8 DEF s, t, D

LEMMA Spaceless ==
  ASSUME NEW a, NEW b, a # " ", b # " "
  PROVE  NoSpaces(<<a, " ", b>>) = <<a, b>> /\ NoSpaces(<<a, b>>) = <<a, b>>
BY OneLess DEF NoSpaces

\* Of the two types that a format names the module has one.
LEMMA KnownTypes ==
  ASSUME NEW L \in Interp, L \in module
  PROVE  TypeQuery(L, TypeOf["t"]) # {} /\ TypeQuery(L, TypeOf["u"]) = {}
<1>0. "CScriptTest" # " " /\ "std::string" # " " /\ "CUser" # " " /\ "*" # " "
  OBVIOUS
<1>1. /\ NoSpaces(<<"CScriptTest", " ", "*">>) = <<"CScriptTest", "*">>
      /\ NoSpaces(<<"CScriptTest", "*">>) = <<"CScriptTest", "*">>
  BY <1>0, Spaceless
<1>2. NoSpaces(<<"std::string", " ", "*">>) = <<"std::string", "*">>
  BY <1>0, Spaceless
<1>3. NoSpaces(<<"CUser", "*">>) = <<"CUser", "*">>
  BY <1>0, Spaceless
<1>4. /\ TypeOf["t"] = <<"CScriptTest", "*">> /\ TypeOf["u"] = <<"CUser", "*">>
      /\ Str["CScriptTest"] = <<"CScriptTest", " ", "*">> /\ Str["string"] = <<"std::string", " ", "*">>
  BY DEF TypeOf, Str
<1>5. "CScriptTest" \in TypeQuery(L, TypeOf["t"])
  BY <1>1, <1>4 DEF TypeQuery, Mangled, Types
<1>6. <<"CScriptTest", "*">> # <<"CUser", "*">> /\ <<"std::string", "*">> # <<"CUser", "*">>
  OBVIOUS
<1>7. TypeQuery(L, TypeOf["u"]) = {}
  BY <1>1, <1>2, <1>3, <1>4, <1>6 DEF TypeQuery, Mangled, Types
<1> QED BY <1>5, <1>7

LEMMA ValueType ==
  ASSUME NEW opts, NEW i, NEW h \in Handle \cup {Null}
  PROVE  ValueOf(opts, i, h) \in Values
BY DEF ValueOf, Pushed, Values

\* Where each option has put a value, the stack is the global and the values;
\* otherwise there are fewer values than options.
LEMMA StackIs ==
  ASSUME NEW L, NEW f, NEW opts \in Seq(STRING), NEW hs \in [DOMAIN opts -> Handle \cup {Null}]
  PROVE  /\ Len(Stack(L, f, opts, hs)) \in Nat
         /\ Len(Stack(L, f, opts, hs)) <= 1 + Len(opts)
         /\ Len(Stack(L, f, opts, hs)) = 1 + Len(opts) =>
              /\ Putting(L, opts) = DOMAIN opts
              /\ Stack(L, f, opts, hs) = <<Kind(L, <<f>>)>> \o ValuesOf(opts, hs)
         /\ Putting(L, opts) = DOMAIN opts => Len(Stack(L, f, opts, hs)) = 1 + Len(opts)
         /\ ValuesOf(opts, hs) \in Seq(Values) /\ Len(ValuesOf(opts, hs)) = Len(opts)
<1> DEFINE vals == ValuesOf(opts, hs)
           D == Putting(L, opts)
           n == Len(opts)
           k == Kind(L, <<f>>)
           kept == Keep(vals, D)
           R == {k} \cup {kept[i] : i \in 1..Cardinality(D)}
<1>1. n \in Nat /\ DOMAIN opts = 1..n
  BY LenProperties
<1>2. vals \in Seq(Values) /\ Len(vals) = n /\ DOMAIN vals = 1..n
  BY <1>1, ValueType DEF ValuesOf
<1>3. D \in SUBSET (1..n)
  BY <1>1 DEF Putting
<1>4. Stack(L, f, opts, hs) = <<k>> \o kept
  BY DEF Stack
<1> HIDE DEF vals, D, k, n, kept
<1>5. IsFiniteSet(1..n) /\ Cardinality(1..n) = n
  <2>1. 1 \in Int /\ n \in Int
    BY <1>1
  <2> QED BY <1>1, <2>1, FS_Interval
<1>6. /\ Cardinality(D) \in Nat /\ Cardinality(D) <= n
      /\ Cardinality(D) = n => D = 1..n
  BY <1>3, <1>5, FS_Subset, FS_CardinalityType
<1>7. kept = [i \in 1..Cardinality(D) |-> kept[i]]
  BY DEF kept, Keep
<1>8. <<k>> \in Seq(R) /\ kept \in Seq(R) /\ Len(<<k>>) = 1 /\ Len(kept) = Cardinality(D)
  <2>1. Cardinality(D) \in Nat /\ \A i \in 1..Cardinality(D) : kept[i] \in R
    BY <1>6
  <2> HIDE DEF R
  <2>2. [i \in 1..Cardinality(D) |-> kept[i]] \in Seq(R)
    BY <2>1
  <2>3. <<k>> \in Seq(R)
    BY DEF R
  <2>4. Len(kept) = Cardinality(D)
    BY <1>7, <2>1
  <2> QED BY <1>7, <2>2, <2>3, <2>4
<1>9. Len(<<k>> \o kept) = 1 + Cardinality(D)
  BY <1>8, ConcatProperties
<1>10. D = 1..n => kept = vals
  BY <1>2, KeptAll DEF kept
<1>11. D = 1..n => Cardinality(D) = n
  BY <1>5
<1> HIDE DEF R
<1>12. n \in Nat /\ DOMAIN opts = 1..n
  BY <1>1
<1>13. 1 + Cardinality(D) = 1 + n => D = 1..n /\ kept = vals
  BY <1>6, <1>10, <1>12
<1>14. LET st == Stack(L, f, opts, hs)
       IN /\ Len(st) \in Nat /\ Len(st) <= 1 + n
          /\ Len(st) = 1 + n => D = DOMAIN opts /\ st = <<k>> \o vals
          /\ D = DOMAIN opts => Len(st) = 1 + n
  BY <1>4, <1>6, <1>9, <1>11, <1>12, <1>13
<1>15. vals \in Seq(Values) /\ Len(vals) = n
  BY <1>2
<1> QED BY <1>14, <1>15 DEF vals, D, n, k

LEMMA Prefixed ==
  ASSUME NEW S, NEW s \in Seq(S), NEW k
  PROVE  (<<k>> \o s)[1] = k /\ SubSeq(<<k>> \o s, 2, 1 + Len(s)) = s
<1> DEFINE R == S \cup {k}
           t == <<k>> \o s
<1>1. s \in Seq(R) /\ <<k>> \in Seq(R) /\ Len(<<k>>) = 1 /\ <<k>>[1] = k /\ Len(s) \in Nat
  OBVIOUS
<1>2. /\ t \in Seq(R) /\ Len(t) = 1 + Len(s)
      /\ \A i \in 1 .. 1 + Len(s) : t[i] = IF i <= 1 THEN <<k>>[i] ELSE s[i - 1]
  BY <1>1, ConcatProperties
<1> HIDE DEF t, R
<1>3. t[1] = k
  BY <1>1, <1>2
<1>4. /\ SubSeq(t, 2, 1 + Len(s)) \in Seq(R)
      /\ Len(SubSeq(t, 2, 1 + Len(s))) = Len(s)
      /\ \A i \in 1 .. Len(s) : SubSeq(t, 2, 1 + Len(s))[i] = t[i + 1]
  BY <1>1, <1>2
<1>5. SubSeq(t, 2, 1 + Len(s)) = s
  <2>1. \A i \in 1 .. Len(s) : t[i + 1] = s[i]
    BY <1>1, <1>2
  <2> QED BY <1>1, <1>4, <2>1, SeqEqual
<1> QED BY <1>3, <1>5 DEF t

LEMMA CallPushes ==
  ASSUME LuaTypeOK, Owned, NEW L \in Interp, NEW f, NEW fmt, NEW os \in [DOMAIN fmt.args -> CppObject \cup {Null}],
         NEW hs \in [DOMAIN fmt.args -> Handle \cup {Null}], Call(L, f, fmt, os, hs)
  PROVE  /\ Owned'
         /\ ud' \in [Handle -> Userdata \cup {Null}]
         /\ held' \subseteq {g \in Handle : ud'[g] # Null}
         /\ GivenAs(fmt.args, os, hs)'
<1>1. UNCHANGED <<module, obj, finalized, byHand, ended>> /\ L \in module /\ PushPointers(L, fmt.args, os, hs)
  BY DEF Call, LuaTypeOK
<1> QED BY <1>1, OwnedPushed

\* What a call that was made and one that was refused leave to be seen.
MadeCall(L, f, fmt, os, hs) ==
  [event |-> "call", in |-> L, runs |-> TRUE, func |-> f, fmt |-> fmt, objs |-> os,
   called |-> f, args |-> ValuesOf(fmt.args, hs)]
RefusedCall(L, f, fmt, os) ==
  [event |-> "call", in |-> L, runs |-> FALSE, func |-> f, fmt |-> fmt, objs |-> os,
   called |-> "", args |-> <<>>]

Runnable(L, f, fmt) ==
  Putting(L, fmt.args) = DOMAIN fmt.args /\ ~ fmt.sep /\ IsFunction(L, f)

\* A call runs the global just if that is a function, each option has put a
\* value and none asks for results; the values are the arguments then.
LEMMA CallRuns ==
  ASSUME LuaTypeOK, NEW L \in Interp, NEW f, NEW fmt \in Format, NEW os,
         NEW hs \in [DOMAIN fmt.args -> Handle \cup {Null}],
         Call(L, f, fmt, os, hs)
  PROVE  /\ Runnable(L, f, fmt) => /\ seen' = MadeCall(L, f, fmt, os, hs)
                                   /\ state' = [state EXCEPT ![L] = "running"]
                                   /\ call' = [call EXCEPT ![L] = MadeCall(L, f, fmt, os, hs)]
         /\ ~ Runnable(L, f, fmt) => /\ seen' = RefusedCall(L, f, fmt, os)
                                     /\ state' = [state EXCEPT ![L] = "idle"]
                                     /\ call' = [call EXCEPT ![L] = Null]
<1> DEFINE opts == fmt.args
           vals == ValuesOf(opts, hs)
           D == Putting(L, opts)
           stack == Stack(L, f, opts, hs)
           slot == Len(stack) - ArgCount(fmt)
           runs == slot > 0 /\ stack[slot] = "function"
           k == Kind(L, <<f>>)
           made == [event |-> "call", in |-> L, runs |-> runs, func |-> f, fmt |-> fmt, objs |-> os,
                    called |-> IF runs /\ slot = 1 THEN f ELSE "",
                    args |-> IF runs THEN SubSeq(stack, slot + 1, Len(stack)) ELSE <<>>]
<1>1. opts \in Seq(STRING) /\ fmt.sep \in BOOLEAN
  BY DEF Format
<1>2. /\ Len(stack) \in Nat /\ Len(stack) <= 1 + Len(opts)
      /\ Len(stack) = 1 + Len(opts) => D = DOMAIN opts /\ stack = <<k>> \o vals
      /\ D = DOMAIN opts => Len(stack) = 1 + Len(opts)
      /\ vals \in Seq(Values) /\ Len(vals) = Len(opts)
  BY <1>1, StackIs
<1>3. Len(opts) \in Nat /\ ArgCount(fmt) = Len(opts) + (IF fmt.sep THEN 1 ELSE 0)
  BY <1>1, LenProperties DEF ArgCount
<1>4. /\ seen' = made
      /\ state' = [state EXCEPT ![L] = IF runs THEN "running" ELSE "idle"]
      /\ call' = [call EXCEPT ![L] = IF runs THEN made ELSE Null]
  BY DEF Call
<1> HIDE DEF opts, vals, D, stack, k
<1>5. slot > 0 <=> slot = 1
  BY <1>2, <1>3
<1>6. slot = 1 <=> D = DOMAIN opts /\ ~ fmt.sep
  BY <1>1, <1>2, <1>3
<1>7. ASSUME slot = 1
      PROVE  stack[slot] = k /\ SubSeq(stack, slot + 1, Len(stack)) = vals
  <2>1. stack = <<k>> \o vals
    BY <1>2, <1>3, <1>6, <1>7
  <2>2. Len(stack) = 1 + Len(vals)
    BY <1>2, <1>3, <1>6, <1>7
  <2>3. (<<k>> \o vals)[1] = k /\ SubSeq(<<k>> \o vals, 2, 1 + Len(vals)) = vals
    BY <1>2, Prefixed
  <2> HIDE DEF slot
  <2> QED BY <1>7, <2>1, <2>2, <2>3
<1>8. runs <=> Runnable(L, f, fmt)
  BY <1>5, <1>6, <1>7 DEF k, IsFunction, Runnable, D, opts
<1> HIDE DEF slot
<1>0. runs \in BOOLEAN
  OBVIOUS
<1> HIDE DEF runs
<1>9. ASSUME Runnable(L, f, fmt)
      PROVE  made = MadeCall(L, f, fmt, os, hs)
  <2>1. runs /\ slot = 1
    BY <1>5, <1>8, <1>9 DEF runs
  <2>2. SubSeq(stack, slot + 1, Len(stack)) = vals
    BY <1>7, <2>1
  <2> QED BY <1>8, <1>9, <2>1, <2>2 DEF MadeCall, vals, opts
<1>10. ASSUME ~ Runnable(L, f, fmt)
       PROVE  made = RefusedCall(L, f, fmt, os)
  <2>1. runs = FALSE
    BY <1>0, <1>8, <1>10
  <2> QED BY <2>1 DEF RefusedCall
<1> HIDE DEF made
<1> QED BY <1>4, <1>8, <1>9, <1>10

LEMMA PutPlain ==
  ASSUME LuaTypeOK, NEW L \in Interp, L \in module, NEW opt
  PROVE  Puts(L, opt) <=> opt \in {"d", "i", "s", "t"}
<1>1. DOMAIN TypeOf = {"t", "u"}
  BY DEF TypeOf
<1>2. TypeQuery(L, TypeOf["t"]) # {} /\ TypeQuery(L, TypeOf["u"]) = {}
  BY KnownTypes
<1> QED BY <1>1, <1>2 DEF Puts

LEMMA CallMatches ==
  ASSUME LuaTypeOK, Owned, NEW L \in Interp, NEW f, NEW fmt \in Format,
         NEW os \in [DOMAIN fmt.args -> CppObject \cup {Null}], NEW hs \in [DOMAIN fmt.args -> Handle \cup {Null}],
         Call(L, f, fmt, os, hs)
  PROVE  CallReachesFunction'
<1>1. L \in module /\ fmt.args \in Seq(STRING) /\ UNCHANGED globals
  BY DEF Call, LuaTypeOK, Format
<1>2. \A i \in DOMAIN fmt.args : Puts(L, fmt.args[i]) <=> fmt.args[i] \in {"d", "i", "s", "t"}
  BY <1>1, PutPlain
<1>3. GivenAs(fmt.args, os, hs)'
  BY CallPushes
<1>4. ASSUME Runnable(L, f, fmt) PROVE Matches(seen)' /\ seen'.runs
  <2>1. /\ seen'.called = f /\ seen'.func = f /\ seen'.fmt = fmt /\ seen'.objs = os
        /\ seen'.args = ValuesOf(fmt.args, hs) /\ seen'.runs
    BY <1>4, CallRuns DEF MadeCall
  <2>2. /\ Len(ValuesOf(fmt.args, hs)) = Len(fmt.args)
        /\ DOMAIN ValuesOf(fmt.args, hs) = DOMAIN fmt.args
    BY <1>1, StackIs DEF ValuesOf
  <2>3. ASSUME NEW i \in DOMAIN fmt.args, ~ Misread(fmt.args, i)
        PROVE  (CASE fmt.args[i] = "i" -> ValuesOf(fmt.args, hs)[i] = "number"
                  [] fmt.args[i] = "s" -> ValuesOf(fmt.args, hs)[i] = "string"
                  [] OTHER -> IF os[i] = Null THEN ValuesOf(fmt.args, hs)[i] = Nil
                              ELSE /\ ValuesOf(fmt.args, hs)[i] \in Handle
                                   /\ ud[ValuesOf(fmt.args, hs)[i]].ptr = os[i]
                                   /\ ud[ValuesOf(fmt.args, hs)[i]].meta = obj[os[i]].type)'
    <3>1. fmt.args[i] \in {"i", "s", "t"}
      <4>1. i \in 1 .. i
        BY <1>1
      <4>2. fmt.args[i] # "d"
        BY <2>3, <4>1 DEF Misread
      <4> QED BY <1>2, <1>4, <4>2 DEF Runnable, Putting
    <3>2. ValuesOf(fmt.args, hs)[i] = ValueOf(fmt.args, i, hs[i])
      BY DEF ValuesOf
    <3>3. CASE fmt.args[i] \in {"i", "s"}
      BY <2>3, <3>2, <3>3 DEF ValueOf
    <3>4. CASE fmt.args[i] = "t"
      <4>1. ValuesOf(fmt.args, hs)[i] = Pushed(hs[i])
        BY <3>2, <3>4 DEF ValueOf
      <4>2. IF os[i] = Null THEN hs[i] = Null
            ELSE hs[i] \in Handle /\ ud'[hs[i]].ptr = os[i] /\ ud'[hs[i]].meta = obj'[os[i]].type
        BY <1>3, <3>4 DEF GivenAs
      <4>3. IF os[i] = Null THEN Pushed(hs[i]) = Nil
            ELSE /\ Pushed(hs[i]) \in Handle
                 /\ ud'[Pushed(hs[i])].ptr = os[i] /\ ud'[Pushed(hs[i])].meta = obj'[os[i]].type
        BY <4>2, NotNull DEF Pushed
      <4> QED BY <3>4, <4>1, <4>3
    <3> QED BY <3>1, <3>3, <3>4
  <2> QED BY <2>1, <2>2, <2>3 DEF Matches
<1>5. ASSUME ~ Runnable(L, f, fmt)
      PROVE  /\ ~ seen'.runs
             /\ (~ (IsFunction(seen.in, seen.func) /\ Plain(seen.fmt) /\ ~ seen.fmt.sep))'
  <2>0. seen' = RefusedCall(L, f, fmt, os)
    BY <1>5, CallRuns
  <2>1. ~ seen'.runs /\ seen'.in = L /\ seen'.func = f /\ seen'.fmt = fmt
    BY <2>0 DEF RefusedCall
  <2>2. IsFunction(L, f)' <=> IsFunction(L, f)
    BY <1>1 DEF IsFunction, Kind
  <2>3. Plain(fmt) => Putting(L, fmt.args) = DOMAIN fmt.args
    BY <1>2 DEF Plain, Putting
  <2>4. ~ (IsFunction(L, f)' /\ Plain(fmt) /\ ~ fmt.sep)
    BY <1>5, <2>2, <2>3 DEF Runnable
  <2> QED BY <2>1, <2>4 DEF IsFunction, Kind, Plain
<1> QED BY <1>4, <1>5 DEF CallReachesFunction

LEMMA CallTypes ==
  ASSUME LuaTypeOK, Owned, NEW L \in Interp, NEW f \in STRING, NEW fmt \in Format,
         NEW os \in [DOMAIN fmt.args -> CppObject \cup {Null}], NEW hs \in [DOMAIN fmt.args -> Handle \cup {Null}],
         Call(L, f, fmt, os, hs)
  PROVE  /\ state' \in [Interp -> {"none", "idle", "running", "dropped"}]
         /\ \A M \in Interp : state'[M] = "none" <=> M \notin module'
         /\ call' \in [Interp -> Made \cup {Null}]
         /\ \A M \in Interp : call'[M] = Null <=> state'[M] # "running"
         /\ seen' # Null => seen'.event \in {"use", "get", "call", "return"}
<1>1. /\ state \in [Interp -> {"none", "idle", "running", "dropped"}]
      /\ \A M \in Interp : state[M] = "none" <=> M \notin module
      /\ call \in [Interp -> Made \cup {Null}]
      /\ \A M \in Interp : call[M] = Null <=> state[M] # "running"
      /\ module' = module /\ state[L] = "idle"
  BY DEF LuaTypeOK, Call
<1>2. MadeCall(L, f, fmt, os, hs) \in Made
  <2>1. fmt.args \in Seq(STRING)
    BY DEF Format
  <2>2. ValuesOf(fmt.args, hs) \in Seq(Values)
    BY <2>1, StackIs
  <2>3. os \in Seq(Obj \cup {Null})
    <3>1. DOMAIN fmt.args = 1 .. Len(fmt.args) /\ Len(fmt.args) \in Nat
      BY <2>1, LenProperties
    <3>2. os \in [1 .. Len(fmt.args) -> Obj \cup {Null}]
      BY <3>1 DEF CppObject
    <3> QED BY <3>1, <3>2
  <2> QED BY <2>2, <2>3 DEF MadeCall, Made, Values
<1>3. MadeCall(L, f, fmt, os, hs) # Null
  BY <1>2, CallAssumption
<1>4. CASE Runnable(L, f, fmt)
  <2>1. /\ seen' = MadeCall(L, f, fmt, os, hs)
        /\ state' = [state EXCEPT ![L] = "running"]
        /\ call' = [call EXCEPT ![L] = MadeCall(L, f, fmt, os, hs)]
    BY <1>4, CallRuns
  <2>2. seen'.event = "call"
    BY <2>1 DEF MadeCall
  <2> QED BY <1>1, <1>2, <1>3, <2>1, <2>2
<1>5. CASE ~ Runnable(L, f, fmt)
  <2>1. /\ seen' = RefusedCall(L, f, fmt, os)
        /\ state' = [state EXCEPT ![L] = "idle"]
        /\ call' = [call EXCEPT ![L] = Null]
    BY <1>5, CallRuns
  <2>2. seen'.event = "call"
    BY <2>1 DEF RefusedCall
  <2> QED BY <1>1, <2>1, <2>2
<1> QED BY <1>4, <1>5

-----------------------------------------------------------------------------
(* The invariant is inductive.                                             *)

\* Of what a step left to be seen.
SeenRight == WrappersAreSafe /\ CallReachesFunction /\ GetValFollowsPath

Invariant == LuaTypeOK /\ Owned /\ Trees /\ SeenRight

LEMMA NothingSeen ==
  ASSUME seen' = Null
  PROVE  SeenRight'
BY DEF SeenRight, WrappersAreSafe, CallReachesFunction, GetValFollowsPath

LEMMA InvariantInit == LuaInit => Invariant
<1> SUFFICES ASSUME LuaInit PROVE Invariant
  OBVIOUS
<1>1. LuaTypeOK
  <2>1. ObjTypeOK
    <3>1. /\ initialized = FALSE /\ casts = [t \in Types |-> <<>>]
          /\ module = {} /\ registry = [L \in Interp |-> {}]
          /\ obj = [o \in Obj |-> Null] /\ finalized = [o \in Obj |-> 0]
          /\ byHand = {} /\ ended = {}
          /\ ud = [h \in Handle |-> Null] /\ held = {} /\ seen = Null /\ aborted = FALSE
      BY DEF LuaInit, ObjInit
    <3>2. casts = [t \in Types |-> IF initialized THEN <<t>> ELSE <<>>]
      BY <3>1
    <3>3. registry = [L \in Interp |-> IF L \in module THEN Types ELSE {}]
      BY <3>1
    <3>4. /\ obj \in [Obj -> Object \cup {Null}] /\ finalized \in [Obj -> 0 .. 2]
          /\ ud \in [Handle -> Userdata \cup {Null}]
      BY <3>1
    <3>5. (~ aborted => \A o \in Obj : finalized[o] <= 1) /\ byHand \subseteq Obj /\ ended \subseteq Obj
      BY <3>1
    <3> QED BY <3>1, <3>2, <3>3, <3>4, <3>5 DEF ObjTypeOK
  <2>2. state \in [Interp -> {"none", "idle", "running", "dropped"}] /\ call \in [Interp -> Made \cup {Null}]
    BY DEF LuaInit
  <2>3. /\ DOMAIN globals = Interp
        /\ \A L \in Interp : state[L] = "none" /\ L \notin module
        /\ \A L \in Interp : call[L] = Null /\ state[L] # "running"
    BY DEF LuaInit, ObjInit
  <2> QED BY <2>1, <2>2, <2>3 DEF LuaTypeOK
<1>2. Owned
  BY DEF LuaInit, ObjInit, Owned, UserdataFit, OwnedOnce, CppKeepsItsOwn, Owns
<1>3. Trees
  BY EmptyTree DEF LuaInit, Trees
<1>4. SeenRight
  BY DEF LuaInit, ObjInit, SeenRight, WrappersAreSafe, CallReachesFunction, GetValFollowsPath
<1> QED BY <1>1, <1>2, <1>3, <1>4 DEF Invariant

LEMMA ProgramStep ==
  ASSUME Invariant, Program
  PROVE  Invariant'
<1>1. PICK o \in Obj : CppNew(o) \/ CppDelete(o)
  BY DEF Program
<1>2. UNCHANGED <<globals, state, call>> /\ seen' = Null
  BY <1>1 DEF Program, CppNew, CppDelete
<1>3. Owned'
  BY <1>1, OwnedCppNew, OwnedCppDelete DEF Invariant
<1>4. Trees'
  BY <1>2 DEF Invariant, Trees
<1>5. LuaTypeOK'
  <2>1. CASE CppNew(o)
    <3>1. [type |-> "CScriptTest", by |-> "cpp"] \in Object
      BY DEF Object, Types
    <3>2. obj' \in [Obj -> Object \cup {Null}]
      BY <2>1, <3>1, LuaTypeParts DEF CppNew, Invariant
    <3> QED BY <1>2, <2>1, <3>2 DEF CppNew, Invariant, LuaTypeOK, ObjTypeOK
  <2>2. CASE CppDelete(o)
    BY <1>2, <2>2 DEF CppDelete, Invariant, LuaTypeOK, ObjTypeOK
  <2> QED BY <1>1, <2>1, <2>2
<1> QED BY <1>2, <1>3, <1>4, <1>5, NothingSeen DEF Invariant

\* The type table is filled once, whichever interpreter is the first.
LEMMA OpenStep ==
  ASSUME Invariant, NEW L \in Interp, Open(L)
  PROVE  Invariant'
<1>1. LuaTypeOK /\ Owned /\ Trees
  BY DEF Invariant
<1>2. /\ initialized' = TRUE /\ module' = module \cup {L}
      /\ casts' = IF initialized THEN casts ELSE [t \in Types |-> <<t>> \o casts[t]]
      /\ registry' = [registry EXCEPT ![L] = @ \cup Types]
      /\ seen' = Null
      /\ UNCHANGED <<obj, finalized, byHand, ended, ud, held, aborted>>
      /\ state[L] = "none" /\ state' = [state EXCEPT ![L] = "idle"] /\ call' = call
  BY DEF Open, OpenModule, InitializeModule, ClassRegister
<1>3. casts' = [t \in Types |-> IF initialized' THEN <<t>> ELSE <<>>]
  <2>1. \A t \in Types : <<t>> \o <<>> = <<t>>
    OBVIOUS
  <2>2. casts = [t \in Types |-> IF initialized THEN <<t>> ELSE <<>>] /\ initialized \in BOOLEAN
    BY <1>1 DEF LuaTypeOK, ObjTypeOK
  <2>3. casts' = [t \in Types |-> <<t>>]
    <3>1. CASE initialized
      BY <1>2, <2>2, <3>1
    <3>2. CASE ~ initialized
      <4>1. \A t \in Types : <<t>> \o casts[t] = <<t>>
        BY <2>1, <2>2, <3>2
      <4> QED BY <1>2, <3>2, <4>1
    <3> QED BY <3>1, <3>2
  <2> QED BY <1>2, <2>3
<1>4. registry' = [M \in Interp |-> IF M \in module' THEN Types ELSE {}]
  BY <1>1, <1>2, LuaTypeParts
<1>5. Owned'
  BY <1>1, OwnedOpen DEF Open
<1>6. Trees' /\ DOMAIN globals' = Interp
  BY <1>1, TreesReloaded DEF Open, LuaTypeOK
<1>7. ObjTypeOK'
  BY <1>1, <1>2, <1>3, <1>4 DEF LuaTypeOK, ObjTypeOK
<1>8. LuaTypeOK'
  BY <1>1, <1>2, <1>6, <1>7 DEF LuaTypeOK
<1> QED BY <1>2, <1>5, <1>6, <1>8, NothingSeen DEF Invariant

LEMMA ReloadStep ==
  ASSUME Invariant, NEW L \in Interp, Reload(L)
  PROVE  Invariant'
<1>1. LuaTypeOK /\ Owned /\ Trees
  BY DEF Invariant
<1>2. seen' = Null /\ UNCHANGED <<objData, aborted, state, call>>
  BY DEF Reload
<1>3. Trees' /\ DOMAIN globals' = Interp
  BY <1>1, TreesReloaded DEF Reload, LuaTypeOK
<1>4. Owned'
  BY <1>1, <1>2, SameObjects DEF ObjectVars, objData
<1>5. LuaTypeOK'
  BY <1>1, <1>2, <1>3 DEF LuaTypeOK, ObjTypeOK, objData
<1> QED BY <1>2, <1>3, <1>4, <1>5, NothingSeen DEF Invariant

LEMMA DestroyStep ==
  ASSUME Invariant, NEW L \in Interp, Destroy(L)
  PROVE  Invariant'
<1>1. LuaTypeOK /\ Owned /\ Trees
  BY DEF Invariant
<1>2. /\ seen' = Null /\ UNCHANGED <<objData, aborted, call>>
      /\ state[L] = "idle" /\ state' = [state EXCEPT ![L] = "dropped"]
      /\ globals' = [globals EXCEPT ![L] = <<>>]
  BY DEF Destroy
<1>3. Trees' /\ DOMAIN globals' = Interp
  BY <1>1, <1>2, EmptyTree DEF Trees, LuaTypeOK
<1>4. Owned'
  BY <1>1, <1>2, SameObjects DEF ObjectVars, objData
<1>5. LuaTypeOK'
  BY <1>1, <1>2, <1>3 DEF LuaTypeOK, ObjTypeOK, objData
<1> QED BY <1>2, <1>3, <1>4, <1>5, NothingSeen DEF Invariant

LEMMA GetValStep ==
  ASSUME Invariant, ~ aborted, NEW L \in Interp, GetVal(L)
  PROVE  Invariant'
<1>1. LuaTypeOK /\ Owned /\ Trees
  BY DEF Invariant
<1>2. PICK ks \in Keys :
        /\ aborted' = Panics(L, Len(ks), ks)
        /\ seen' = IF aborted' THEN Null
                   ELSE [event |-> "get", in |-> L, keys |-> ks, value |-> GetValList(L, Len(ks), ks, Other)]
  BY DEF GetVal
<1>3. UNCHANGED <<objData, globals, state, call>>
  BY DEF GetVal
<1>4. aborted' \in BOOLEAN
  BY <1>2 DEF Panics
<1>5. seen' # Null => seen'.event = "get"
  BY <1>2
<1>6. GetValFollowsPath'
  BY <1>1, GetValFollows
<1>7. SeenRight'
  BY <1>5, <1>6 DEF SeenRight, WrappersAreSafe, CallReachesFunction
<1>8. Owned' /\ Trees'
  BY <1>1, <1>3, SameObjects DEF ObjectVars, objData, Trees
<1>9. LuaTypeOK'
  BY <1>1, <1>3, <1>4, <1>5 DEF LuaTypeOK, ObjTypeOK, objData
<1> QED BY <1>7, <1>8, <1>9 DEF Invariant

LEMMA CallStep ==
  ASSUME Invariant, NEW L \in Interp, NEW f \in STRING, NEW fmt \in Format,
         NEW os \in [DOMAIN fmt.args -> CppObject \cup {Null}], NEW hs \in [DOMAIN fmt.args -> Handle \cup {Null}],
         Call(L, f, fmt, os, hs)
  PROVE  Invariant'
<1>1. LuaTypeOK /\ Owned /\ Trees
  BY DEF Invariant
<1>2. UNCHANGED <<initialized, casts, module, registry, obj, finalized, byHand, ended, aborted, globals>>
  BY DEF Call
<1>3. /\ Owned'
      /\ ud' \in [Handle -> Userdata \cup {Null}]
      /\ held' \subseteq {g \in Handle : ud'[g] # Null}
  BY <1>1, CallPushes
<1>4. /\ state' \in [Interp -> {"none", "idle", "running", "dropped"}]
      /\ \A M \in Interp : state'[M] = "none" <=> M \notin module'
      /\ call' \in [Interp -> Made \cup {Null}]
      /\ \A M \in Interp : call'[M] = Null <=> state'[M] # "running"
      /\ seen' # Null => seen'.event \in {"use", "get", "call", "return"}
  BY <1>1, CallTypes
<1>5. ObjTypeOK'
  BY <1>1, <1>2, <1>3, <1>4 DEF LuaTypeOK, ObjTypeOK
<1>6. LuaTypeOK'
  BY <1>1, <1>2, <1>4, <1>5 DEF LuaTypeOK
<1>7. seen'.event = "call"
  <2>1. seen' = MadeCall(L, f, fmt, os, hs) \/ seen' = RefusedCall(L, f, fmt, os)
    <3>1. CASE Runnable(L, f, fmt)
      BY <1>1, <3>1, CallRuns
    <3>2. CASE ~ Runnable(L, f, fmt)
      BY <1>1, <3>2, CallRuns
    <3> QED BY <3>1, <3>2
  <2>2. MadeCall(L, f, fmt, os, hs).event = "call" /\ RefusedCall(L, f, fmt, os).event = "call"
    BY DEF MadeCall, RefusedCall
  <2> QED BY <2>1, <2>2
<1>8. CallReachesFunction'
  BY <1>1, CallMatches
<1>9. SeenRight'
  BY <1>7, <1>8 DEF SeenRight, WrappersAreSafe, GetValFollowsPath
<1>10. Trees'
  BY <1>1, <1>2 DEF Trees
<1> QED BY <1>3, <1>6, <1>9, <1>10 DEF Invariant

LEMMA AstrayStep ==
  ASSUME Invariant, NEW L \in Interp, NEW fmt, CallAstray(L, fmt)
  PROVE  Invariant'
<1>1. aborted' = TRUE /\ seen' = Null /\ UNCHANGED <<objData, luaVars>>
  BY DEF CallAstray
<1>2. Owned' /\ Trees'
  BY <1>1, SameObjects DEF Invariant, ObjectVars, objData, luaVars, Trees
<1>3. LuaTypeOK'
  BY <1>1 DEF Invariant, LuaTypeOK, ObjTypeOK, objData, luaVars
<1> QED BY <1>1, <1>2, <1>3, NothingSeen DEF Invariant

\* The function returns, or ends with an error.
LEMMA EndStep ==
  ASSUME Invariant, NEW L \in Interp, Return(L) \/ Raise(L)
  PROVE  Invariant'
<1>1. LuaTypeOK /\ Owned /\ Trees
  BY DEF Invariant
<1>2. /\ state[L] = "running" /\ state' = [state EXCEPT ![L] = "idle"] /\ call' = [call EXCEPT ![L] = Null]
      /\ UNCHANGED <<objData, aborted, globals>>
  BY DEF Return, Raise
<1>3. seen' # Null => seen'.event = "return"
  BY DEF Return, Raise
<1>4. Owned' /\ Trees'
  BY <1>1, <1>2, SameObjects DEF ObjectVars, objData, Trees
<1>5. SeenRight'
  BY <1>3 DEF SeenRight, WrappersAreSafe, CallReachesFunction, GetValFollowsPath
<1>6. LuaTypeOK'
  BY <1>1, <1>2, <1>3 DEF LuaTypeOK, ObjTypeOK, objData
<1> QED BY <1>4, <1>5, <1>6 DEF Invariant

\* The script runs a wrapper, makes an object, or lets go of a userdata, and
\* the collector finalizes one.
LEMMA ScriptStep ==
  ASSUME Invariant, ~ aborted, UNCHANGED <<globals, state, call>>, NEW L \in Interp, NEW h \in Handle,
         \/ \E v \in Handle \cup {Nil} : ScriptUse(L, h, v)
         \/ \E v \in Handle \cup {Nil} : ScriptGc(L, h, v)
         \/ ScriptForeign(L, h)
         \/ \E o \in Obj, t \in Types : ScriptNew(L, h, o, t)
         \/ ScriptDrop(L, h)
         \/ Collect(L, h)
  PROVE  Invariant'
<1>1. LuaTypeOK /\ Owned /\ Trees
  BY DEF Invariant
<1>2. Trees'
  BY <1>1 DEF Trees
<1>3. CASE \E v \in Handle \cup {Nil} : ScriptUse(L, h, v)
  <2>1. /\ WrappersAreSafe' /\ UNCHANGED objData /\ aborted' \in BOOLEAN
        /\ seen' # Null => seen'.event = "use"
    BY <1>1, <1>3, UseIsSafe
  <2>2. Owned'
    BY <1>1, <2>1, SameObjects DEF ObjectVars, objData
  <2>3. SeenRight'
    BY <2>1 DEF SeenRight, CallReachesFunction, GetValFollowsPath
  <2>4. LuaTypeOK'
    BY <1>1, <2>1 DEF LuaTypeOK, ObjTypeOK, objData
  <2> QED BY <1>2, <2>2, <2>3, <2>4 DEF Invariant
<1>4. CASE \E o \in Obj, t \in Types : ScriptNew(L, h, o, t)
  <2>1. PICK o \in Obj, t \in Types : ScriptNew(L, h, o, t)
    BY <1>4
  <2>2. held \subseteq {g \in Handle : ud[g] # Null}
    BY <1>1 DEF LuaTypeOK, ObjTypeOK
  <2>3. /\ Owned'
        /\ obj' \in [Obj -> Object \cup {Null}]
        /\ ud' \in [Handle -> Userdata \cup {Null}]
        /\ held' \subseteq {g \in Handle : ud'[g] # Null}
    BY <1>1, <2>1, <2>2, OwnedNew
  <2>4. /\ UNCHANGED <<initialized, casts, module, registry, finalized, byHand, ended, aborted>>
        /\ seen' = Null
    BY <2>1 DEF ScriptNew
  <2>5. LuaTypeOK'
    BY <1>1, <2>3, <2>4 DEF LuaTypeOK, ObjTypeOK
  <2> QED BY <1>2, <2>3, <2>4, <2>5, NothingSeen DEF Invariant
<1>5. CASE ScriptDrop(L, h)
  <2>1. /\ UNCHANGED <<initialized, casts, module, registry, obj, finalized, byHand, ended, ud, aborted>>
        /\ seen' = Null /\ held' = held \ {h}
    BY <1>5 DEF ScriptDrop
  <2>2. Owned'
    BY <1>1, <2>1, SameObjects DEF ObjectVars
  <2>3. LuaTypeOK'
    BY <1>1, <2>1 DEF LuaTypeOK, ObjTypeOK
  <2> QED BY <1>2, <2>1, <2>2, <2>3, NothingSeen DEF Invariant
<1>6. CASE Collect(L, h)
  <2>1. /\ Owned'
        /\ finalized' \in [Obj -> 0 .. 2]
        /\ ~ aborted' => \A o \in Obj : finalized'[o] <= 1
        /\ aborted' \in BOOLEAN
        /\ ud' \in [Handle -> Userdata \cup {Null}]
        /\ held' \subseteq {g \in Handle : ud'[g] # Null}
    BY <1>1, <1>6, OwnedCollect
  <2>2. /\ UNCHANGED <<initialized, casts, module, registry, obj, byHand, ended, held>>
        /\ seen' = Null
    BY <1>6 DEF Collect
  <2>3. LuaTypeOK'
    BY <1>1, <2>1, <2>2 DEF LuaTypeOK, ObjTypeOK
  <2> QED BY <1>2, <2>1, <2>2, <2>3, NothingSeen DEF Invariant
<1>7. CASE \E v \in Handle \cup {Nil} : ScriptGc(L, h, v)
  <2>1. PICK v \in Handle \cup {Nil} : ScriptGc(L, h, v)
    BY <1>7
  <2>2. /\ Owned'
        /\ finalized' \in [Obj -> 0 .. 2]
        /\ ~ aborted' => \A o \in Obj : finalized'[o] <= 1
        /\ aborted' \in BOOLEAN
        /\ byHand' \subseteq Obj
    BY <1>1, <2>1, OwnedGc
  <2>3. /\ UNCHANGED <<initialized, casts, module, registry, obj, ended, ud, held>>
        /\ seen' = Null
    BY <2>1 DEF ScriptGc
  <2>4. LuaTypeOK'
    BY <1>1, <2>2, <2>3 DEF LuaTypeOK, ObjTypeOK
  <2> QED BY <1>2, <2>2, <2>3, <2>4, NothingSeen DEF Invariant
<1>8. CASE ScriptForeign(L, h)
  <2>1. aborted' \in BOOLEAN /\ seen' = Null /\ UNCHANGED objData
    BY <1>8 DEF ScriptForeign
  <2>2. Owned'
    BY <1>1, <2>1, SameObjects DEF ObjectVars, objData
  <2>3. LuaTypeOK'
    BY <1>1, <2>1 DEF LuaTypeOK, ObjTypeOK, objData
  <2> QED BY <1>2, <2>1, <2>2, <2>3, NothingSeen DEF Invariant
<1> QED BY <1>3, <1>4, <1>5, <1>6, <1>7, <1>8

LEMMA GivenIs ==
  ASSUME NEW args, NEW at, NEW S, NEW s \in Given(args, at, S)
  PROVE  s \in [DOMAIN args -> S \cup {Null}]
<1>1. PICK f \in [at -> S] : s = [i \in DOMAIN args |-> IF i \in at THEN f[i] ELSE Null]
  BY DEF Given
<1> QED BY <1>1

LEMMA InvariantNext == Invariant /\ [LuaNext]_allVars => Invariant'
<1> SUFFICES ASSUME Invariant, [LuaNext]_allVars PROVE Invariant'
  OBVIOUS
<1>1. CASE UNCHANGED allVars
  BY <1>1 DEF allVars, objVars, objData, luaVars, Invariant, LuaTypeOK, ObjTypeOK, Owned, UserdataFit, OwnedOnce,
     CppKeepsItsOwn, Owns, Trees, SeenRight, WrappersAreSafe, Live, CallReachesFunction, Matches, IsFunction, Kind,
     GetValFollowsPath, ReadsLeaf, Leaf, IsString
<1>2. CASE Program
  BY <1>2, ProgramStep
<1>3. ASSUME NEW L \in Interp, Open(L) PROVE Invariant'
  BY <1>3, OpenStep
<1>4. ASSUME NEW L \in Interp, Reload(L) PROVE Invariant'
  BY <1>4, ReloadStep
<1>5. ASSUME NEW L \in Interp, Destroy(L) PROVE Invariant'
  BY <1>5, DestroyStep
<1>6. ASSUME NEW L \in Interp, GetVal(L), ~ aborted PROVE Invariant'
  BY <1>6, GetValStep
<1>7. ASSUME NEW L \in Interp, Calling(L) PROVE Invariant'
  <2>1. PICK c \in Calls :
          \/ CallAstray(L, c.fmt)
          \/ \E os \in Given(c.fmt.args, {i \in DOMAIN c.fmt.args : c.fmt.args[i] = "t"}, CppObject \cup {Null}) :
               \E hs \in Given(c.fmt.args, {i \in DOMAIN os : os[i] # Null}, Handle) : Call(L, c.func, c.fmt, os, hs)
    BY <1>7 DEF Calling
  <2>2. c.func \in STRING /\ c.fmt \in Format
    BY FormatAssumption
  <2>3. CASE CallAstray(L, c.fmt)
    BY <2>3, AstrayStep
  <2>4. ASSUME NEW os \in Given(c.fmt.args, {i \in DOMAIN c.fmt.args : c.fmt.args[i] = "t"}, CppObject \cup {Null}),
               NEW hs \in Given(c.fmt.args, {i \in DOMAIN os : os[i] # Null}, Handle), Call(L, c.func, c.fmt, os, hs)
        PROVE  Invariant'
    <3>1. os \in [DOMAIN c.fmt.args -> CppObject \cup {Null}]
      BY <2>4, GivenIs
    <3>2. hs \in [DOMAIN c.fmt.args -> Handle \cup {Null}]
      BY <2>4, GivenIs
    <3> QED BY <2>2, <2>4, <3>1, <3>2, CallStep
  <2> QED BY <2>1, <2>3, <2>4
<1>8. ASSUME NEW L \in Interp, Return(L) \/ Raise(L) PROVE Invariant'
  BY <1>8, EndStep
<1>9. ASSUME NEW L \in Interp, Script(L), ~ aborted PROVE Invariant'
  <2>1. UNCHANGED <<globals, state, call>>
    BY <1>9 DEF Script
  <2>2. PICK h \in Handle : \/ \E v \in Handle \cup {Nil} : ScriptUse(L, h, v) \/ ScriptGc(L, h, v)
                            \/ ScriptForeign(L, h)
                            \/ \E o \in Obj, t \in Types : ScriptNew(L, h, o, t)
                            \/ ScriptDrop(L, h)
    BY <1>9 DEF Script
  <2> QED BY <1>9, <2>1, <2>2, ScriptStep
<1>10. ASSUME NEW L \in Interp, Unheld(L), ~ aborted PROVE Invariant'
  <2>1. UNCHANGED <<globals, state, call>>
    BY <1>10 DEF Unheld
  <2>2. PICK h \in Handle : Collect(L, h) \/ ScriptDrop(L, h)
    BY <1>10 DEF Unheld
  <2> QED BY <1>10, <2>1, <2>2, ScriptStep
<1> QED BY <1>1, <1>2, <1>3, <1>4, <1>5, <1>6, <1>7, <1>8, <1>9, <1>10 DEF LuaNext

-----------------------------------------------------------------------------
(* The theorems.                                                           *)

LEMMA Always == LuaSpec => []Invariant
BY InvariantInit, InvariantNext, PTL DEF LuaSpec

\* The variables of PLua and of the scripts keep their types: plua.cpp and
\* swig_wrap.cpp, in whatever order the interpreters run.
THEOREM LuaTypeCorrect == LuaSpec => []LuaTypeOK
<1>1. Invariant => LuaTypeOK
  BY DEF Invariant
<1> QED BY <1>1, Always, PTL

\* Each object is deleted once, by the side that made it, unless a script calls
\* its __gc itself, and then it is one of the script's own; a wrapper works on
\* an object of its class, and on one the collector has not deleted
\* (swig_wrap.cpp:1314-1357), for any number of interpreters and userdata.
THEOREM ObjectsStaySafe == LuaSpec => []ObjectsAreSafe
<1>1. Invariant => ObjectsAreSafe
  BY OwnedByScripts DEF Invariant, SeenRight, ObjectsAreSafe
<1> QED BY <1>1, Always, PTL

\* PLua::Call runs the named function with the arguments its format describes,
\* those before the first 'd' as they were passed (plua.cpp:64-114), for
\* formats of any length with any number of objects, unless the call's
\* behaviour is undefined (Astray).
THEOREM CallsReachTheirFunction == LuaSpec => []CallReachesFunction
<1>1. Invariant => CallReachesFunction
  BY DEF Invariant, SeenRight
<1> QED BY <1>1, Always, PTL

\* GetVal with one to four keys reads the string at the end of the path
\* (plua.cpp:45-54 and 171-271), whatever files were loaded.
THEOREM GetValsFollowTheirPath == LuaSpec => []GetValFollowsPath
<1>1. Invariant => GetValFollowsPath
  BY DEF Invariant, SeenRight
<1> QED BY <1>1, Always, PTL
=============================================================================
