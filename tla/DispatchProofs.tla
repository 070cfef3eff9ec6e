---------------------------- MODULE DispatchProofs ----------------------------
(***************************************************************************)
(* Theorems about the way of a message in Dispatch, for any number of      *)
(* buckets, any descriptors, types, functions and requests: CHashTable is  *)
(* a map, every NetMessage has one owner, PTL_Test reads what the client   *)
(* wrote, and the whole implements MessageRouter.                          *)
(*                                                                         *)
(* A table is looked at as the set of its nodes: WellFormed says that a    *)
(* key is in one bucket and has one node there, so that the first node     *)
(* with a key, which the loops stop at, is the only one.  A message is     *)
(* looked at byte by byte, from the place its head ends.  Owners are       *)
(* looked at through Apart, which does not number them.                    *)
(***************************************************************************)
EXTENDS Dispatch, SequenceTheorems, FiniteSetTheorems, TLAPS

-----------------------------------------------------------------------------
(* Chains.                                                                 *)

\* A node linked in front of a chain.
LEMMA LinkedFront ==
  ASSUME NEW S, NEW s \in Seq(S), NEW n \in S
  PROVE  /\ <<n>> \o s \in Seq(S)
         /\ DOMAIN (<<n>> \o s) = 1..(Len(s) + 1)
         /\ (<<n>> \o s)[1] = n
         /\ \A k \in 1..Len(s) : (<<n>> \o s)[k + 1] = s[k]
OBVIOUS

LEMMA Concatenated ==
  ASSUME NEW S, NEW a \in Seq(S), NEW b \in Seq(S)
  PROVE  /\ a \o b \in Seq(S) /\ Len(a \o b) = Len(a) + Len(b)
         /\ DOMAIN (a \o b) = 1..(Len(a) + Len(b))
         /\ \A k \in 1..(Len(a) + Len(b)) :
              (a \o b)[k] = IF k <= Len(a) THEN a[k] ELSE b[k - Len(a)]
OBVIOUS

\* A node taken out of a chain.
LEMMA TakenOut ==
  ASSUME NEW S, NEW s \in Seq(S), NEW p \in 1..Len(s)
  PROVE  /\ RemoveAt(s, p) \in Seq(S)
         /\ DOMAIN RemoveAt(s, p) = 1..(Len(s) - 1)
         /\ \A k \in 1..(Len(s) - 1) :
              RemoveAt(s, p)[k] = IF k < p THEN s[k] ELSE s[k + 1]
<1> DEFINE a == SubSeq(s, 1, p - 1)
           b == SubSeq(s, p + 1, Len(s))
<1>1. Len(s) \in Nat /\ p \in Nat
  OBVIOUS
<1>2. /\ a \in Seq(S) /\ Len(a) = p - 1
      /\ \A k \in 1..(p - 1) : a[k] = s[k]
  BY <1>1
<1>3. /\ b \in Seq(S) /\ Len(b) = Len(s) - p
      /\ \A k \in 1..(Len(s) - p) : b[k] = s[k + p]
  BY <1>1
<1>4. RemoveAt(s, p) = a \o b
  BY DEF RemoveAt
<1> HIDE DEF a, b
<1>5. /\ a \o b \in Seq(S) /\ DOMAIN (a \o b) = 1..(Len(s) - 1)
      /\ \A k \in 1..(Len(s) - 1) :
           (a \o b)[k] = IF k <= Len(a) THEN a[k] ELSE b[k - Len(a)]
  <2>1. Len(a) + Len(b) = Len(s) - 1
    BY <1>1, <1>2, <1>3
  <2>2. /\ a \o b \in Seq(S) /\ DOMAIN (a \o b) = 1..(Len(a) + Len(b))
        /\ \A k \in 1..(Len(a) + Len(b)) :
             (a \o b)[k] = IF k <= Len(a) THEN a[k] ELSE b[k - Len(a)]
    BY <1>2, <1>3, Concatenated
  <2> QED BY <2>1, <2>2
<1>6. ASSUME NEW k \in 1..(Len(s) - 1)
      PROVE  (a \o b)[k] = IF k < p THEN s[k] ELSE s[k + 1]
  <2>1. CASE k < p
    BY <1>1, <1>2, <1>5, <2>1
  <2>2. CASE ~ (k < p)
    <3>1. /\ (a \o b)[k] = b[k - (p - 1)] /\ k - (p - 1) \in 1..(Len(s) - p)
          /\ (k - (p - 1)) + p = k + 1
      BY <1>1, <1>2, <1>5, <2>2
    <3> QED BY <1>3, <2>2, <3>1
  <2> QED BY <2>1, <2>2
<1> QED BY <1>4, <1>5, <1>6

-----------------------------------------------------------------------------
(* Tables.                                                                 *)

LEMMA HashType == ASSUME NEW index \in Nat PROVE Hash(index) \in Bucket
BY BucketsAssumption DEF Hash, Bucket

\* The node of a key, if it has one, is where First says.
LEMMA OnlyNode ==
  ASSUME NEW Id \in SUBSET Nat, NEW Val, NEW t, WellFormed(t, Id, Val), NEW index \in Nat,
         NEW k \in Positions(t, index)
  PROVE  /\ First(t, index) = k /\ Has(t, index)
         /\ \A old : Find(t, index, old) = t[Hash(index)][k].val
<1>1. Hash(index) \in Bucket
  BY HashType
<1>2. \A j \in Positions(t, index) : j = k
  BY <1>1 DEF WellFormed, Positions
<1>3. k \in Int
  BY <1>1 DEF WellFormed, Positions
<1>4. \A x \in Positions(t, index) : (\A j \in Positions(t, index) : x <= j) <=> x = k
  BY <1>2, <1>3
<1>5. First(t, index) = k
  BY <1>4 DEF First
<1> QED BY <1>5 DEF Has, Find

LEMMA NoNode ==
  ASSUME NEW t, NEW index
  PROVE  ~ Has(t, index) <=> \A k \in DOMAIN t[Hash(index)] : t[Hash(index)][k].id # index
BY DEF Has, Positions

\* A table that differs from t in one bucket only differs for its keys only.
LEMMA OtherBucket ==
  ASSUME NEW t, NEW u, NEW j, u[Hash(j)] = t[Hash(j)]
  PROVE  /\ Has(u, j) <=> Has(t, j)
         /\ \A old : Find(u, j, old) = Find(t, j, old)
BY DEF Has, Find, First, Positions

LEMMA Inserted ==
  ASSUME NEW Id \in SUBSET Nat, NEW Val, NEW t, WellFormed(t, Id, Val),
         NEW index \in Id, NEW val \in Val, ~ Has(t, index)
  PROVE  LET u == Insert(t, index, val)
         IN  /\ WellFormed(u, Id, Val)
             /\ Has(u, index) /\ \A old : Find(u, index, old) = val
             /\ \A j \in Nat \ {index} :
                  (Has(u, j) <=> Has(t, j)) /\ \A old : Find(u, j, old) = Find(t, j, old)
<1> DEFINE u == Insert(t, index, val)
           h == Hash(index)
           n == [id |-> index, val |-> val]
           s == t[h]
           c == <<n>> \o s
<1>1. h \in Bucket /\ t \in [Bucket -> Seq(Node(Id, Val))] /\ n \in Node(Id, Val)
  BY HashType DEF WellFormed, Node
<1>2. u = [t EXCEPT ![h] = c]
  BY DEF Insert
<1>3. s \in Seq(Node(Id, Val)) /\ Len(s) \in Nat /\ DOMAIN s = 1..Len(s)
  BY <1>1
<1>4. /\ c \in Seq(Node(Id, Val)) /\ DOMAIN c = 1..(Len(s) + 1) /\ c[1] = n
      /\ \A k \in 1..Len(s) : c[k + 1] = s[k]
  BY <1>1, <1>3, LinkedFront
<1>5. /\ \A k \in DOMAIN s : Hash(s[k].id) = h /\ s[k].id # index
      /\ \A j, k \in DOMAIN s : s[j].id = s[k].id => j = k
  BY <1>1, NoNode DEF WellFormed
<1>6. n.id = index /\ n.val = val
  OBVIOUS
<1>7. u[h] = c /\ u \in [Bucket -> Seq(Node(Id, Val))] /\ \A b \in Bucket \ {h} : u[b] = t[b]
  BY <1>1, <1>2, <1>4
<1> HIDE DEF u, c, n
<1>8. WellFormed(u, Id, Val)
  <2>1. \A k \in DOMAIN c : k = 1 \/ (k - 1 \in DOMAIN s /\ c[k] = s[k - 1])
    BY <1>3, <1>4
  <2>2. \A k \in DOMAIN c : Hash(c[k].id) = h
    BY <1>4, <1>5, <1>6, <2>1
  <2>3. \A j, k \in DOMAIN c : c[j].id = c[k].id => j = k
    <3> SUFFICES ASSUME NEW j \in DOMAIN c, NEW k \in DOMAIN c, c[j].id = c[k].id
                 PROVE  j = k
      OBVIOUS
    <3>1. j = 1 <=> k = 1
      BY <1>4, <1>5, <1>6, <2>1
    <3>2. j # 1 /\ k # 1 => j - 1 = k - 1
      BY <1>5, <2>1
    <3>3. j \in Int /\ k \in Int
      BY <1>4
    <3> QED BY <3>1, <3>2, <3>3
  <2> HIDE DEF h
  <2>4. ASSUME NEW b \in Bucket
        PROVE  \A j \in DOMAIN u[b] : /\ Hash(u[b][j].id) = b
                                     /\ \A k \in DOMAIN u[b] : u[b][j].id = u[b][k].id => j = k
    <3>1. CASE b = h
      BY <1>7, <2>2, <2>3, <3>1
    <3>2. CASE b # h
      BY <1>7, <3>2 DEF WellFormed
    <3> QED BY <3>1, <3>2
  <2> QED BY <1>7, <2>4 DEF WellFormed
<1>9. Has(u, index) /\ \A old : Find(u, index, old) = val
  <2>1. 1 \in Positions(u, index)
    BY <1>3, <1>4, <1>6, <1>7 DEF Positions
  <2> QED BY <1>4, <1>6, <1>7, <1>8, <2>1, OnlyNode
<1>10. ASSUME NEW j \in Nat \ {index}
       PROVE  (Has(u, j) <=> Has(t, j)) /\ \A old : Find(u, j, old) = Find(t, j, old)
  <2>1. CASE Hash(j) # h
    <3>1. u[Hash(j)] = t[Hash(j)]
      BY <1>7, <2>1, HashType
    <3> QED BY <3>1, OtherBucket
  <2>2. CASE Hash(j) = h
    <3>1. ASSUME NEW k \in Positions(t, j)
          PROVE  (Has(u, j) <=> Has(t, j)) /\ \A old : Find(u, j, old) = Find(t, j, old)
      <4>1. k \in DOMAIN s /\ s[k].id = j
        BY <2>2 DEF Positions
      <4>2. k + 1 \in DOMAIN c /\ c[k + 1] = s[k]
        BY <1>3, <1>4, <4>1
      <4>3. k + 1 \in Positions(u, j)
        BY <1>7, <2>2, <4>1, <4>2 DEF Positions
      <4>4. Has(u, j) /\ \A old : Find(u, j, old) = c[k + 1].val
        BY <1>7, <1>8, <2>2, <4>3, OnlyNode
      <4>5. Has(t, j) /\ \A old : Find(t, j, old) = s[k].val
        BY <2>2, OnlyNode
      <4> QED BY <4>2, <4>4, <4>5
    <3>2. CASE Positions(t, j) = {}
      <4>1. \A k \in DOMAIN s : s[k].id # j
        BY <2>2, <3>2 DEF Positions
      <4>2. \A k \in DOMAIN c : k = 1 \/ (k - 1 \in DOMAIN s /\ c[k] = s[k - 1])
        BY <1>3, <1>4
      <4>3. \A k \in DOMAIN c : c[k].id # j
        BY <1>4, <1>6, <4>1, <4>2
      <4>4. ~ Has(u, j)
        BY <1>7, <2>2, <4>3, NoNode
      <4>5. ~ Has(t, j)
        BY <3>2 DEF Has
      <4> QED BY <4>4, <4>5 DEF Find
    <3> QED BY <3>1, <3>2
  <2> QED BY <2>1, <2>2
<1> QED BY <1>8, <1>9, <1>10 DEF u

LEMMA Erased ==
  ASSUME NEW Id \in SUBSET Nat, NEW Val, NEW t, WellFormed(t, Id, Val),
         NEW index \in Nat, Has(t, index)
  PROVE  LET u == Erase(t, index)
         IN  /\ WellFormed(u, Id, Val)
             /\ ~ Has(u, index)
             /\ \A j \in Nat \ {index} :
                  (Has(u, j) <=> Has(t, j)) /\ \A old : Find(u, j, old) = Find(t, j, old)
<1> DEFINE u == Erase(t, index)
           h == Hash(index)
           s == t[h]
           p == First(t, index)
           c == RemoveAt(s, p)
<1>1. h \in Bucket /\ t \in [Bucket -> Seq(Node(Id, Val))]
  BY HashType DEF WellFormed
<1>2. u = [t EXCEPT ![h] = c]
  BY DEF Erase
<1>3. s \in Seq(Node(Id, Val)) /\ Len(s) \in Nat /\ DOMAIN s = 1..Len(s)
  BY <1>1
<1>4. p \in 1..Len(s) /\ s[p].id = index
  <2>1. PICK k \in Positions(t, index) : TRUE
    BY DEF Has
  <2>2. p = k
    BY OnlyNode
  <2> QED BY <1>3, <2>1, <2>2 DEF Positions
<1>5. /\ \A k \in DOMAIN s : Hash(s[k].id) = h
      /\ \A j, k \in DOMAIN s : s[j].id = s[k].id => j = k
  BY <1>1 DEF WellFormed
<1> HIDE DEF p
<1>6. /\ c \in Seq(Node(Id, Val)) /\ DOMAIN c = 1..(Len(s) - 1)
      /\ \A k \in 1..(Len(s) - 1) : c[k] = IF k < p THEN s[k] ELSE s[k + 1]
  BY <1>3, <1>4, TakenOut
<1>7. u[h] = c /\ u \in [Bucket -> Seq(Node(Id, Val))] /\ \A b \in Bucket \ {h} : u[b] = t[b]
  BY <1>1, <1>2, <1>6
<1> HIDE DEF u, c
<1>8. ASSUME NEW k \in DOMAIN c
      PROVE  \/ k < p /\ k \in DOMAIN s /\ c[k] = s[k]
             \/ ~ (k < p) /\ k + 1 \in DOMAIN s /\ c[k] = s[k + 1] /\ k + 1 # p
  <2>1. k \in 1..(Len(s) - 1) /\ c[k] = IF k < p THEN s[k] ELSE s[k + 1]
    BY <1>6
  <2>2. k \in DOMAIN s /\ k + 1 \in DOMAIN s
    BY <1>3, <2>1
  <2>3. ~ (k < p) => k + 1 # p
    BY <1>4, <2>1
  <2> QED BY <2>1, <2>2, <2>3
<1>9. ASSUME NEW k \in DOMAIN s, k # p
      PROVE  \E i \in DOMAIN c : c[i] = s[k]
  <2>1. CASE k < p
    BY <1>3, <1>4, <1>6, <2>1
  <2>2. CASE ~ (k < p)
    <3>1. k - 1 \in 1..(Len(s) - 1) /\ ~ (k - 1 < p) /\ (k - 1) + 1 = k
      BY <1>3, <1>4, <1>9, <2>2
    <3> QED BY <1>6, <3>1
  <2> QED BY <2>1, <2>2
<1>10. \A k \in DOMAIN c : c[k].id # index
  BY <1>3, <1>4, <1>5, <1>8
<1>11. WellFormed(u, Id, Val)
  <2>1. \A k \in DOMAIN c : Hash(c[k].id) = h
    BY <1>5, <1>8
  <2>2. \A j, k \in DOMAIN c : c[j].id = c[k].id => j = k
    <3> SUFFICES ASSUME NEW j \in DOMAIN c, NEW k \in DOMAIN c, c[j].id = c[k].id
                 PROVE  j = k
      OBVIOUS
    <3>1. j \in Int /\ k \in Int /\ p \in Int
      BY <1>4, <1>6
    <3>2. j < p /\ k < p => j = k
      BY <1>5, <1>8
    <3>3. ~ (j < p) /\ ~ (k < p) => j + 1 = k + 1
      BY <1>5, <1>8
    <3>4. j < p /\ ~ (k < p) => j = k + 1
      BY <1>5, <1>8
    <3>5. ~ (j < p) /\ k < p => j + 1 = k
      BY <1>5, <1>8
    <3> QED BY <3>1, <3>2, <3>3, <3>4, <3>5
  <2> HIDE DEF h
  <2>3. ASSUME NEW b \in Bucket
        PROVE  \A j \in DOMAIN u[b] : /\ Hash(u[b][j].id) = b
                                     /\ \A k \in DOMAIN u[b] : u[b][j].id = u[b][k].id => j = k
    <3>1. CASE b = h
      BY <1>7, <2>1, <2>2, <3>1
    <3>2. CASE b # h
      BY <1>7, <3>2 DEF WellFormed
    <3> QED BY <3>1, <3>2
  <2> QED BY <1>7, <2>3 DEF WellFormed
<1>12. ~ Has(u, index)
  BY <1>7, <1>10, NoNode
<1>13. ASSUME NEW j \in Nat \ {index}
       PROVE  (Has(u, j) <=> Has(t, j)) /\ \A old : Find(u, j, old) = Find(t, j, old)
  <2>1. CASE Hash(j) # h
    <3>1. u[Hash(j)] = t[Hash(j)]
      BY <1>7, <2>1, HashType
    <3> QED BY <3>1, OtherBucket
  <2>2. CASE Hash(j) = h
    <3>1. ASSUME NEW k \in Positions(t, j)
          PROVE  (Has(u, j) <=> Has(t, j)) /\ \A old : Find(u, j, old) = Find(t, j, old)
      <4>1. k \in DOMAIN s /\ s[k].id = j /\ k # p
        BY <1>4, <2>2 DEF Positions
      <4>2. PICK i \in DOMAIN c : c[i] = s[k]
        BY <1>9, <4>1
      <4>3. i \in Positions(u, j)
        BY <1>7, <2>2, <4>1, <4>2 DEF Positions
      <4>4. Has(u, j) /\ \A old : Find(u, j, old) = c[i].val
        BY <1>7, <1>11, <2>2, <4>3, OnlyNode
      <4>5. Has(t, j) /\ \A old : Find(t, j, old) = s[k].val
        BY <2>2, OnlyNode
      <4> QED BY <4>2, <4>4, <4>5
    <3>2. CASE Positions(t, j) = {}
      <4>1. \A k \in DOMAIN s : s[k].id # j
        BY <2>2, <3>2 DEF Positions
      <4>2. \A k \in DOMAIN c : c[k].id # j
        BY <1>8, <4>1
      <4>3. ~ Has(u, j)
        BY <1>7, <2>2, <4>2, NoNode
      <4>4. ~ Has(t, j)
        BY <3>2 DEF Has
      <4> QED BY <4>3, <4>4 DEF Find
    <3> QED BY <3>1, <3>2
  <2> QED BY <2>1, <2>2
<1> QED BY <1>11, <1>12, <1>13 DEF u

-----------------------------------------------------------------------------
(* The table as a map.                                                     *)

With(M, s, o) == [x \in DOMAIN M \cup {s} |-> IF x = s THEN o ELSE M[x]]
Without(M, s) == [x \in DOMAIN M \ {s} |-> M[x]]

(* Insert adds a binding for a key that has none and does nothing for one   *)
(* that has, in any chain and for any number of buckets                     *)
(* (hash_table.h:93-109).                                                   *)
THEOREM InsertIsMapInsert ==
  ASSUME NEW Id \in SUBSET Nat, NEW Val, NEW none, NEW t, WellFormed(t, Id, Val),
         NEW index \in Id, NEW val \in Val
  PROVE  LET u == Insert(t, index, val)
             map == AsMap(t, Id, none)
         IN  /\ WellFormed(u, Id, Val)
             /\ AsMap(u, Id, none) =
                  IF index \in DOMAIN map THEN map ELSE With(map, index, val)
<1> DEFINE u == Insert(t, index, val)
           map == AsMap(t, Id, none)
<1>1. DOMAIN map = Keys(t, Id) /\ \A x \in DOMAIN map : map[x] = Find(t, x, none)
  BY DEF AsMap
<1>2. CASE Has(t, index)
  <2>1. u = t /\ index \in DOMAIN map
    BY <1>1, <1>2 DEF Insert, Keys
  <2> QED BY <2>1
<1>3. CASE ~ Has(t, index)
  <2>1. /\ WellFormed(u, Id, Val)
        /\ Has(u, index) /\ \A old : Find(u, index, old) = val
        /\ \A j \in Nat \ {index} :
             (Has(u, j) <=> Has(t, j)) /\ \A old : Find(u, j, old) = Find(t, j, old)
    BY <1>3, Inserted
  <2> HIDE DEF u
  <2>2. index \notin DOMAIN map
    BY <1>1, <1>3 DEF Keys
  <2>3. Keys(u, Id) = DOMAIN map \cup {index}
    BY <1>1, <2>1 DEF Keys
  <2>4. \A x \in Keys(u, Id) : Find(u, x, none) = IF x = index THEN val ELSE map[x]
    BY <1>1, <2>1, <2>3 DEF Keys
  <2>5. AsMap(u, Id, none) = With(map, index, val)
    BY <2>3, <2>4 DEF AsMap, With
  <2> QED BY <2>1, <2>2, <2>5 DEF u
<1> QED BY <1>2, <1>3

(* Erase removes the binding of its key and no other, wherever its node is  *)
(* in the chain (hash_table.h:111-144).                                     *)
THEOREM EraseIsMapRemove ==
  ASSUME NEW Id \in SUBSET Nat, NEW Val, NEW none, NEW t, WellFormed(t, Id, Val),
         NEW index \in Id
  PROVE  LET u == Erase(t, index)
             map == AsMap(t, Id, none)
         IN  /\ WellFormed(u, Id, Val)
             /\ AsMap(u, Id, none) = Without(map, index)
<1> DEFINE u == Erase(t, index)
           map == AsMap(t, Id, none)
<1>1. DOMAIN map = Keys(t, Id) /\ \A x \in DOMAIN map : map[x] = Find(t, x, none)
  BY DEF AsMap
<1>2. CASE ~ Has(t, index)
  <2>1. u = t /\ index \notin DOMAIN map
    BY <1>1, <1>2 DEF Erase, Keys
  <2>2. DOMAIN map \ {index} = Keys(t, Id)
    BY <1>1, <2>1
  <2>3. AsMap(u, Id, none) = Without(map, index)
    BY <1>1, <2>1, <2>2 DEF AsMap, Without
  <2> QED BY <2>1, <2>3
<1>3. CASE Has(t, index)
  <2>1. /\ WellFormed(u, Id, Val)
        /\ ~ Has(u, index)
        /\ \A j \in Nat \ {index} :
             (Has(u, j) <=> Has(t, j)) /\ \A old : Find(u, j, old) = Find(t, j, old)
    BY <1>3, Erased
  <2> HIDE DEF u
  <2>2. Keys(u, Id) = DOMAIN map \ {index}
    BY <1>1, <2>1 DEF Keys
  <2>3. \A x \in Keys(u, Id) : Find(u, x, none) = map[x]
    BY <1>1, <2>1, <2>2 DEF Keys
  <2>4. AsMap(u, Id, none) = Without(map, index)
    BY <2>2, <2>3 DEF AsMap, Without
  <2> QED BY <2>1, <2>4 DEF u
<1> QED BY <1>2, <1>3

-----------------------------------------------------------------------------
(* The two tables of the server.                                           *)

Tables ==
  /\ WellFormed(m_funMap, Type, Fun)
  /\ WellFormed(m_recvMsgList, Sock, Obj)
  /\ registered \in 0..Len(Commands)

LEMMA SequenceParts ==
  ASSUME NEW S, NEW s \in Seq(S)
  PROVE  /\ Len(s) \in Nat /\ DOMAIN s = 1..Len(s)
         /\ \A i \in 1..Len(s) : s[i] \in S
OBVIOUS

LEMMA CommandType ==
  /\ Len(Commands) \in Nat
  /\ \A i \in 1..Len(Commands) : /\ Commands[i].comType \in Nat /\ Commands[i].comType \in Type
                                /\ Commands[i].comFun \in Fun
<1>1. Commands \in Seq([comType : Nat, comFun : Fun])
  BY ConstantsAssumption
<1>2. /\ Len(Commands) \in Nat /\ DOMAIN Commands = 1..Len(Commands)
      /\ \A i \in 1..Len(Commands) : Commands[i] \in [comType : Nat, comFun : Fun]
  BY <1>1, SequenceParts
<1>3. \A i \in 1..Len(Commands) : Commands[i].comType \in Nat /\ Commands[i].comFun \in Fun
  BY <1>2
<1>4. \A i \in 1..Len(Commands) : Commands[i].comType \in Type
  BY <1>2 DEF Type
<1> QED BY <1>2, <1>3, <1>4

LEMMA RequestType ==
  ASSUME NEW r \in Request
  PROVE  /\ r.type \in Nat /\ r.type < B * B /\ r.kept \in Nat
         /\ HeadLen + r.kept <= Len(Fields(r.fields)) \/ Len(Fields(r.fields)) \notin Nat
         /\ r.fields.u8 \in Bytes(1) /\ r.fields.u16 \in Bytes(2)
         /\ r.fields.u32 \in Bytes(4) /\ r.fields.u64 \in Bytes(8)
         /\ r.fields.str \in Seq(Byte)
         /\ Len(r.fields.str) \in Nat /\ Len(r.fields.str) < B * B
<1> DEFINE F == [u8 : Bytes(1), u16 : Bytes(2), u32 : Bytes(4), u64 : Bytes(8), str : Seq(Byte)]
<1>1. /\ r \in [type : 0..B * B - 1, kept : Nat, fields : F]
      /\ r.kept <= Len(Fields(r.fields)) - HeadLen
      /\ 17 + Len(r.fields.str) < B * B
  BY RequestAssumption
<1>2. B * B = 65536
  BY DEF B
<1>3. r.fields \in F
  <2> HIDE DEF F
  <2> QED BY <1>1
<1>4. r.type \in 0..B * B - 1 /\ r.kept \in Nat
  <2> HIDE DEF F
  <2> QED BY <1>1
<1>5. /\ r.fields.u8 \in Bytes(1) /\ r.fields.u16 \in Bytes(2)
      /\ r.fields.u32 \in Bytes(4) /\ r.fields.u64 \in Bytes(8)
      /\ r.fields.str \in Seq(Byte)
  BY <1>3
<1>6. Len(r.fields.str) \in Nat
  BY <1>5
<1>7. r.type \in Nat /\ r.type < B * B /\ Len(r.fields.str) < B * B
  BY <1>1, <1>2, <1>4, <1>6
<1>8. HeadLen + r.kept <= Len(Fields(r.fields)) \/ Len(Fields(r.fields)) \notin Nat
  BY <1>1, <1>4 DEF HeadLen
<1> QED BY <1>4, <1>5, <1>6, <1>7, <1>8

LEMMA Keyed == Type \in SUBSET Nat /\ Sock \in SUBSET Nat
<1>1. \A i \in DOMAIN Commands : Commands[i].comType \in Nat
  <2>1. DOMAIN Commands = 1..Len(Commands)
    BY ConstantsAssumption
  <2> QED BY <2>1, CommandType
<1>2. Sock \subseteq Nat /\ \A r \in Request : r.type \in Nat
  BY ConstantsAssumption, RequestType
<1> QED BY <1>1, <1>2 DEF Type

LEMMA TablesInit == Init => Tables
<1>1. WellFormed(EmptyTable, Type, Fun) /\ WellFormed(EmptyTable, Sock, Obj)
  BY DEF WellFormed, EmptyTable
<1> QED BY <1>1, CommandType DEF Init, Tables

LEMMA TablesNext ==
  ASSUME Tables, [Next]_vars
  PROVE  Tables'
<1>0. /\ WellFormed(m_funMap, Type, Fun) /\ WellFormed(m_recvMsgList, Sock, Obj)
      /\ registered \in 0..Len(Commands)
      /\ Type \in SUBSET Nat /\ Sock \in SUBSET Nat
  BY Keyed DEF Tables
\* The network thread changes the table of partial messages only.
<1>1. ASSUME UNCHANGED <<m_funMap, registered>>, WellFormed(m_recvMsgList', Sock, Obj)
      PROVE  Tables'
  BY <1>0, <1>1 DEF Tables, WellFormed
<1>2. ASSUME UNCHANGED <<m_funMap, registered, m_recvMsgList>>
      PROVE  Tables'
  BY <1>0, <1>2 DEF Tables, WellFormed
<1>3. CASE AddCommand
  <2> DEFINE c == Commands[registered + 1]
  <2>1. /\ registered + 1 \in 1..Len(Commands)
        /\ registered' = registered + 1 /\ m_recvMsgList' = m_recvMsgList
        /\ m_funMap' = Insert(m_funMap, c.comType, c.comFun)
    BY <1>0, <1>3, CommandType DEF AddCommand
  <2>2. c.comType \in Type /\ c.comFun \in Fun
    BY <2>1, CommandType
  <2> HIDE DEF c
  <2>3. WellFormed(Insert(m_funMap, c.comType, c.comFun), Type, Fun)
    BY <1>0, <2>2, InsertIsMapInsert
  <2>4. registered' \in 0..Len(Commands)
    BY <2>1, CommandType
  <2> QED BY <1>0, <2>1, <2>3, <2>4 DEF Tables, WellFormed
<1>4. ASSUME NEW sock \in Sock, OnRecvPart(sock) PROVE Tables'
  <2>1. PICK o \in Obj : m_recvMsgList' = Insert(m_recvMsgList, sock, o)
    BY <1>4 DEF OnRecvPart
  <2>2. WellFormed(Insert(m_recvMsgList, sock, o), Sock, Obj)
    BY <1>0, InsertIsMapInsert
  <2> QED BY <1>1, <1>4, <2>1, <2>2 DEF OnRecvPart
<1>5. ASSUME NEW sock \in Sock, OnRecvClosed(sock) PROVE Tables'
  <2>1. WellFormed(Erase(m_recvMsgList, sock), Sock, Obj)
    BY <1>0, EraseIsMapRemove
  <2> QED BY <1>1, <1>5, <2>1 DEF OnRecvClosed
<1>6. ASSUME NEW sock \in Sock, NEW request \in Request, OnRecvDone(sock, request)
      PROVE  Tables'
  <2> DEFINE erased == Erase(m_recvMsgList, sock)
  <2>1. WellFormed(erased, Sock, Obj)
    BY <1>0, EraseIsMapRemove
  <2>2. \/ m_recvMsgList' = erased
        \/ \E o \in Obj : m_recvMsgList' = Insert(erased, sock, o)
    BY <1>6 DEF OnRecvDone
  <2> HIDE DEF erased
  <2>3. \A o \in Obj : WellFormed(Insert(erased, sock, o), Sock, Obj)
    BY <1>0, <2>1, InsertIsMapInsert
  <2>4. WellFormed(m_recvMsgList', Sock, Obj)
    BY <2>1, <2>2, <2>3
  <2> QED BY <1>1, <1>6, <2>4 DEF OnRecvDone
<1>7. CASE GetPackage \/ Despatch \/ UNCHANGED vars
  BY <1>2, <1>7 DEF GetPackage, Despatch, vars
<1> QED BY <1>3, <1>4, <1>5, <1>6, <1>7 DEF Next

(* The function table and the table of partial messages stay tables: one    *)
(* node for a key, in the bucket of the key, so that the two theorems above *)
(* speak of every table the server ever has (net_despatch.cpp:17-44,        *)
(* net_server.cpp:115-170).                                                 *)
THEOREM TablesStayTables == Spec => []Tables
<1>1. Tables /\ [Next]_vars => Tables'
  BY TablesNext
<1> QED BY <1>1, TablesInit, PTL DEF Spec

-----------------------------------------------------------------------------
(* The bytes of a message.                                                 *)

LEMMA Overwritten ==
  ASSUME NEW m \in Seq(Byte), NEW begin \in Nat, NEW data \in Seq(Byte)
  PROVE  /\ Overwrite(m, begin, data) \in Seq(Byte)
         /\ Len(Overwrite(m, begin, data)) = Len(m)
         /\ \A k \in 1..Len(m) : k <= begin \/ k > begin + Len(data)
                                   => Overwrite(m, begin, data)[k] = m[k]
         /\ begin + Len(data) <= Len(m) =>
              \A k \in 1..Len(data) : Overwrite(m, begin, data)[begin + k] = data[k]
<1> DEFINE u == [i \in DOMAIN m |-> IF i - begin \in DOMAIN data THEN data[i - begin] ELSE m[i]]
<1>1. /\ Len(m) \in Nat /\ DOMAIN m = 1..Len(m) /\ \A k \in 1..Len(m) : m[k] \in Byte
      /\ Len(data) \in Nat /\ DOMAIN data = 1..Len(data)
      /\ \A k \in 1..Len(data) : data[k] \in Byte
  OBVIOUS
<1>2. CASE begin + Len(data) > Len(m)
  BY <1>1, <1>2 DEF Overwrite
<1>3. CASE begin + Len(data) <= Len(m)
  <2>1. Overwrite(m, begin, data) = u
    BY <1>1, <1>3 DEF Overwrite
  <2>2. \A k \in 1..Len(m) : u[k] \in Byte
    BY <1>1
  <2>3. u \in Seq(Byte) /\ Len(u) = Len(m)
    BY <1>1, <2>2
  <2>4. \A k \in 1..Len(m) : k <= begin \/ k > begin + Len(data) => u[k] = m[k]
    BY <1>1
  <2>5. \A k \in 1..Len(data) : begin + k \in 1..Len(m) /\ (begin + k) - begin = k
    BY <1>1, <1>3
  <2>6. \A k \in 1..Len(data) : u[begin + k] = data[k]
    BY <1>1, <2>5
  <2> HIDE DEF u
  <2> QED BY <2>1, <2>3, <2>4, <2>6
<1> QED BY <1>1, <1>2, <1>3

\* The low byte and the high byte of a number make the number.
LEMMA TwoBytes ==
  ASSUME NEW n \in Nat
  PROVE  /\ Uint16(n) \in Seq(Byte) /\ Len(Uint16(n)) = 2
         /\ n < B * B => Number(Uint16(n)) = n
<1>1. n % B \in Byte /\ (n \div B) % B \in Byte
  BY DEF B, Byte
<1>2. n < B * B => (n % B) + B * ((n \div B) % B) = n
  BY DEF B
<1> QED BY <1>1, <1>2 DEF Uint16, Number

LEMMA LengthSet ==
  ASSUME NEW m \in Seq(Byte), Len(m) >= HeadLen
  PROVE  /\ SetLength(m) \in Seq(Byte) /\ Len(SetLength(m)) = Len(m)
         /\ \A k \in 3..Len(m) : SetLength(m)[k] = m[k]
<1>1. Len(m) - HeadLen \in Nat /\ Len(m) \in Nat
  BY DEF HeadLen
<1>2. Uint16(Len(m) - HeadLen) \in Seq(Byte) /\ Len(Uint16(Len(m) - HeadLen)) = 2
  BY <1>1, TwoBytes
<1>3. \A k \in 3..Len(m) : k \in 1..Len(m) /\ k > 0 + 2
  OBVIOUS
<1> QED BY <1>2, <1>3, Overwritten DEF SetLength

\* Write appends: it leaves what was written before as it is.
LEMMA Written ==
  ASSUME NEW m \in Seq(Byte), Len(m) >= HeadLen, NEW data \in Seq(Byte)
  PROVE  /\ Write(m, data) \in Seq(Byte) /\ Len(Write(m, data)) = Len(m) + Len(data)
         /\ \A k \in 3..Len(m) : Write(m, data)[k] = m[k]
         /\ \A k \in 1..Len(data) : Write(m, data)[Len(m) + k] = data[k]
<1>1. Len(m) \in Nat /\ Len(data) \in Nat
  OBVIOUS
<1> DEFINE c == m \o data
<1>2. /\ c \in Seq(Byte) /\ Len(c) = Len(m) + Len(data)
      /\ \A k \in 1..(Len(m) + Len(data)) : c[k] = IF k <= Len(m) THEN m[k] ELSE data[k - Len(m)]
  BY Concatenated
<1>3. Write(m, data) = SetLength(c)
  BY DEF Write
<1> HIDE DEF c
<1>4. Len(c) >= HeadLen
  BY <1>1, <1>2 DEF HeadLen
<1>5. /\ SetLength(c) \in Seq(Byte) /\ Len(SetLength(c)) = Len(c)
      /\ \A k \in 3..Len(c) : SetLength(c)[k] = c[k]
  BY <1>2, <1>4, LengthSet
<1>6. \A k \in 3..Len(m) : c[k] = m[k] /\ k \in 3..Len(c)
  BY <1>1, <1>2
<1>7. \A k \in 1..Len(data) : c[Len(m) + k] = data[k] /\ Len(m) + k \in 3..Len(c)
  <2> SUFFICES ASSUME NEW k \in 1..Len(data)
               PROVE  c[Len(m) + k] = data[k] /\ Len(m) + k \in 3..Len(c)
    OBVIOUS
  <2>1. Len(m) + k \in 3..(Len(m) + Len(data)) /\ ~ (Len(m) + k <= Len(m))
        /\ (Len(m) + k) - Len(m) = k /\ Len(m) + k \in 1..(Len(m) + Len(data))
    BY <1>1 DEF HeadLen
  <2> QED BY <1>2, <2>1
<1> QED BY <1>3, <1>4, <1>5, <1>6, <1>7, <1>2

LEMMA OfBytes ==
  ASSUME NEW n \in Nat, NEW b \in Bytes(n)
  PROVE  b \in Seq(Byte) /\ Len(b) = n
BY DEF Bytes

\* Where the fields are in what PTL_Test's client writes.
LEMMA FieldsAre ==
  ASSUME NEW r \in Request
  PROVE  LET f == r.fields
             w == Fields(f)
             n == Len(f.str)
         IN  /\ f.u8 \in Bytes(1) /\ f.u16 \in Bytes(2) /\ f.u32 \in Bytes(4) /\ f.u64 \in Bytes(8)
             /\ f.str \in Seq(Byte) /\ n \in Nat /\ n < B * B
             /\ w \in Seq(Byte) /\ Len(w) = 21 + n
             /\ w[5] = f.u8[1]
             /\ \A k \in 1..2 : w[5 + k] = f.u16[k]
             /\ \A k \in 1..4 : w[7 + k] = f.u32[k]
             /\ \A k \in 1..8 : w[11 + k] = f.u64[k]
             /\ \A k \in 1..2 : w[19 + k] = Uint16(n)[k]
             /\ \A k \in 1..n : w[21 + k] = f.str[k]
<1> DEFINE f == r.fields
           n == Len(f.str)
           w0 == NewMessage
           w1 == Write(w0, f.u8)
           w2 == Write(w1, f.u16)
           w3 == Write(w2, f.u32)
           w4 == Write(w3, f.u64)
           w5 == Write(w4, Uint16(n))
           w6 == Write(w5, f.str)
<1>1. /\ f.u8 \in Bytes(1) /\ f.u16 \in Bytes(2) /\ f.u32 \in Bytes(4) /\ f.u64 \in Bytes(8)
      /\ f.str \in Seq(Byte) /\ n \in Nat /\ n < B * B
  BY RequestType
<1>2. Fields(f) = w6
  <2>1. n % (B * B) = n
    <3>1. B * B = 65536 /\ \A x \in Nat : x < 65536 => x % 65536 = x
      BY DEF B
    <3> QED BY <1>1, <3>1
  <2>2. SubSeq(f.str, 1, n) = f.str
    BY <1>1
  <2> QED BY <2>1, <2>2 DEF Fields, WriteString
<1>3. w0 \in Seq(Byte) /\ Len(w0) = 4
  <2> DEFINE z == <<0, 0, 0, 0>>
  <2>1. 0 \in Byte
    BY DEF Byte, B
  <2>2. z \in Seq(Byte) /\ Len(z) = 4
    BY <2>1
  <2>3. NewMessage = SetLength(z)
    BY DEF NewMessage
  <2> HIDE DEF z
  <2>4. Len(z) >= HeadLen
    BY <2>2 DEF HeadLen
  <2> QED BY <2>2, <2>3, <2>4, LengthSet
<1>4. /\ f.u8 \in Seq(Byte) /\ Len(f.u8) = 1 /\ f.u16 \in Seq(Byte) /\ Len(f.u16) = 2
      /\ f.u32 \in Seq(Byte) /\ Len(f.u32) = 4 /\ f.u64 \in Seq(Byte) /\ Len(f.u64) = 8
      /\ Uint16(n) \in Seq(Byte) /\ Len(Uint16(n)) = 2
  BY <1>1, OfBytes, TwoBytes
<1> HIDE DEF f, n, w0
<1>5. /\ w1 \in Seq(Byte) /\ Len(w1) = 5
      /\ \A k \in 1..1 : w1[4 + k] = f.u8[k]
  <2>1. Len(w0) >= HeadLen
    BY <1>3, <1>4 DEF HeadLen
  <2>2. /\ Write(w0, f.u8) \in Seq(Byte)
        /\ Len(Write(w0, f.u8)) = Len(w0) + Len(f.u8)
        /\ \A k \in 3..Len(w0) : Write(w0, f.u8)[k] = w0[k]
        /\ \A k \in 1..Len(f.u8) : Write(w0, f.u8)[Len(w0) + k] = f.u8[k]
    BY <1>3, <1>4, <2>1, Written, Zenon
  <2> QED BY <1>3, <1>4, <2>2
<1> HIDE DEF w1
<1>6. /\ w2 \in Seq(Byte) /\ Len(w2) = 7
      /\ \A k \in 3..5 : w2[k] = w1[k]
      /\ \A k \in 1..2 : w2[5 + k] = f.u16[k]
  <2>1. Len(w1) >= HeadLen
    BY <1>4, <1>5 DEF HeadLen
  <2>2. /\ Write(w1, f.u16) \in Seq(Byte)
        /\ Len(Write(w1, f.u16)) = Len(w1) + Len(f.u16)
        /\ \A k \in 3..Len(w1) : Write(w1, f.u16)[k] = w1[k]
        /\ \A k \in 1..Len(f.u16) : Write(w1, f.u16)[Len(w1) + k] = f.u16[k]
    BY <1>4, <1>5, <2>1, Written, Zenon
  <2> QED BY <1>4, <1>5, <2>2
<1> HIDE DEF w2
<1>7. /\ w3 \in Seq(Byte) /\ Len(w3) = 11
      /\ \A k \in 3..7 : w3[k] = w2[k]
      /\ \A k \in 1..4 : w3[7 + k] = f.u32[k]
  <2>1. Len(w2) >= HeadLen
    BY <1>4, <1>6 DEF HeadLen
  <2>2. /\ Write(w2, f.u32) \in Seq(Byte)
        /\ Len(Write(w2, f.u32)) = Len(w2) + Len(f.u32)
        /\ \A k \in 3..Len(w2) : Write(w2, f.u32)[k] = w2[k]
        /\ \A k \in 1..Len(f.u32) : Write(w2, f.u32)[Len(w2) + k] = f.u32[k]
    BY <1>4, <1>6, <2>1, Written, Zenon
  <2> QED BY <1>4, <1>6, <2>2
<1> HIDE DEF w3
<1>8. /\ w4 \in Seq(Byte) /\ Len(w4) = 19
      /\ \A k \in 3..11 : w4[k] = w3[k]
      /\ \A k \in 1..8 : w4[11 + k] = f.u64[k]
  <2>1. Len(w3) >= HeadLen
    BY <1>4, <1>7 DEF HeadLen
  <2>2. /\ Write(w3, f.u64) \in Seq(Byte)
        /\ Len(Write(w3, f.u64)) = Len(w3) + Len(f.u64)
        /\ \A k \in 3..Len(w3) : Write(w3, f.u64)[k] = w3[k]
        /\ \A k \in 1..Len(f.u64) : Write(w3, f.u64)[Len(w3) + k] = f.u64[k]
    BY <1>4, <1>7, <2>1, Written, Zenon
  <2> QED BY <1>4, <1>7, <2>2
<1> HIDE DEF w4
<1>9. /\ w5 \in Seq(Byte) /\ Len(w5) = 21
      /\ \A k \in 3..19 : w5[k] = w4[k]
      /\ \A k \in 1..2 : w5[19 + k] = Uint16(n)[k]
  <2>1. Len(w4) >= HeadLen
    BY <1>4, <1>8 DEF HeadLen
  <2>2. /\ Write(w4, Uint16(n)) \in Seq(Byte)
        /\ Len(Write(w4, Uint16(n))) = Len(w4) + Len(Uint16(n))
        /\ \A k \in 3..Len(w4) : Write(w4, Uint16(n))[k] = w4[k]
        /\ \A k \in 1..Len(Uint16(n)) : Write(w4, Uint16(n))[Len(w4) + k] = Uint16(n)[k]
    BY <1>4, <1>8, <2>1, Written, Zenon
  <2> QED BY <1>4, <1>8, <2>2
<1> HIDE DEF w5
<1>10. /\ w6 \in Seq(Byte) /\ Len(w6) = 21 + n
       /\ \A k \in 3..21 : w6[k] = w5[k]
       /\ \A k \in 1..n : w6[21 + k] = f.str[k]
  <2> USE DEF n
  <2>1. Len(w5) >= HeadLen
    BY <1>1, <1>9 DEF HeadLen
  <2>2. /\ Write(w5, f.str) \in Seq(Byte)
        /\ Len(Write(w5, f.str)) = Len(w5) + Len(f.str)
        /\ \A k \in 3..Len(w5) : Write(w5, f.str)[k] = w5[k]
        /\ \A k \in 1..Len(f.str) : Write(w5, f.str)[Len(w5) + k] = f.str[k]
    BY <1>1, <1>9, <2>1, Written, Zenon
  <2> QED BY <1>1, <1>9, <2>2
<1> HIDE DEF w6
<1>11. /\ w6[5] = f.u8[1]
       /\ \A k \in 1..2 : w6[5 + k] = f.u16[k]
       /\ \A k \in 1..4 : w6[7 + k] = f.u32[k]
       /\ \A k \in 1..8 : w6[11 + k] = f.u64[k]
       /\ \A k \in 1..2 : w6[19 + k] = Uint16(n)[k]
  <2>1. w6[5] = w1[5] /\ w1[5] = f.u8[1]
    BY <1>5, <1>6, <1>7, <1>8, <1>9, <1>10
  <2>2. \A k \in 1..2 : w6[5 + k] = w2[5 + k]
    <3>1. \A k \in 3..19 : w6[k] = w4[k]
      BY <1>9, <1>10
    <3>2. \A k \in 3..7 : w4[k] = w2[k]
      BY <1>7, <1>8
    <3> QED BY <3>1, <3>2
  <2>3. \A k \in 1..4 : w6[7 + k] = w3[7 + k]
    <3>1. \A k \in 1..4 : 7 + k \in 3..11 /\ 7 + k \in 3..19 /\ 7 + k \in 3..21
      OBVIOUS
    <3> QED BY <1>8, <1>9, <1>10, <3>1
  <2>4. \A k \in 1..8 : w6[11 + k] = w4[11 + k]
    BY <1>9, <1>10
  <2>5. \A k \in 1..2 : w6[19 + k] = w5[19 + k]
    BY <1>10
  <2> QED BY <1>6, <1>7, <1>8, <1>9, <2>1, <2>2, <2>3, <2>4, <2>5
<1> QED BY <1>1, <1>2, <1>10, <1>11 DEF f, n

\* What arrives: the type, and what was kept of the fields.
LEMMA BodyIs ==
  ASSUME NEW r \in Request
  PROVE  LET m == Body(r)
             w == Fields(r.fields)
         IN  /\ r.kept \in Nat /\ HeadLen + r.kept <= Len(w)
             /\ m \in Seq(Byte) /\ Len(m) = HeadLen + r.kept
             /\ GetType(m) = r.type
             /\ \A k \in 5..Len(m) : m[k] = w[k]
<1> DEFINE w == Fields(r.fields)
           p == SubSeq(w, 1, HeadLen + r.kept)
           q == SetLength(p)
           m == SetType(q, r.type)
<1>1. w \in Seq(Byte) /\ Len(w) \in Nat
  BY FieldsAre
<1>2. r.kept \in Nat /\ HeadLen + r.kept <= Len(w) /\ r.type \in Nat /\ r.type < B * B
  BY <1>1, RequestType
<1>3. Body(r) = m
  BY DEF Body
<1> HIDE DEF w
<1>4. p \in Seq(Byte) /\ Len(p) = HeadLen + r.kept /\ \A k \in 1..Len(p) : p[k] = w[k]
  BY <1>1, <1>2 DEF HeadLen
<1> HIDE DEF p
<1>5. q \in Seq(Byte) /\ Len(q) = HeadLen + r.kept /\ \A k \in 3..Len(q) : q[k] = p[k]
  BY <1>2, <1>4, LengthSet DEF HeadLen
<1> HIDE DEF q
<1>6. Uint16(r.type) \in Seq(Byte) /\ Len(Uint16(r.type)) = 2 /\ Number(Uint16(r.type)) = r.type
  BY <1>2, TwoBytes
<1>7. /\ m \in Seq(Byte) /\ Len(m) = HeadLen + r.kept
      /\ \A k \in 1..Len(m) : k <= 2 \/ k > 4 => m[k] = q[k]
      /\ \A k \in 1..2 : m[2 + k] = Uint16(r.type)[k]
  <2>1. m = Overwrite(q, 2, Uint16(r.type)) /\ HeadLen = 4 /\ 2 + 2 <= 4 + r.kept
    BY <1>2 DEF SetType, TypeBegin, HeadLen
  <2> DEFINE d == Uint16(r.type)
  <2>2. d \in Seq(Byte) /\ Len(d) = 2
    BY <1>6
  <2> HIDE DEF m, d
  <2>3. /\ Overwrite(q, 2, d) \in Seq(Byte)
        /\ Len(Overwrite(q, 2, d)) = Len(q)
        /\ \A k \in 1..Len(q) : k <= 2 \/ k > 2 + Len(d) => Overwrite(q, 2, d)[k] = q[k]
        /\ 2 + Len(d) <= Len(q) => \A k \in 1..Len(d) : Overwrite(q, 2, d)[2 + k] = d[k]
    <3>1. 2 \in Nat
      OBVIOUS
    <3> QED BY <1>5, <2>2, <3>1, Overwritten, Zenon
  <2>4. m = Overwrite(q, 2, d)
    BY <2>1 DEF d
  <2> QED BY <1>5, <2>1, <2>2, <2>3, <2>4 DEF d
<1> HIDE DEF m
<1>8. \A k \in 5..Len(m) : m[k] = w[k]
  BY <1>4, <1>5, <1>7
<1>9. GetType(m) = r.type
  <2>1. Len(m) >= 4 /\ m \in Seq(Byte)
    BY <1>2, <1>7 DEF HeadLen
  <2>2. SubSeq(m, 3, 4)[1] = m[3] /\ SubSeq(m, 3, 4)[2] = m[4]
    BY <2>1
  <2>3. m[3] = Uint16(r.type)[1] /\ m[4] = Uint16(r.type)[2]
    BY <1>7
  <2> QED BY <1>6, <2>2, <2>3 DEF GetType, Number, TypeBegin
<1> QED BY <1>2, <1>3, <1>7, <1>8, <1>9 DEF w

-----------------------------------------------------------------------------
(* What PTL_Test reads.                                                    *)

\* A value whose bytes are b is read as it was written, or left as it was.
ReadsAs(m, pos, l, old, b) ==
  LET x == Read(m, pos, l, old)
  IN  /\ x.pos \in Nat /\ pos <= x.pos /\ x.pos <= Len(m)
      /\ pos + l > Len(m) => x.pos = pos /\ x.val = old
      /\ pos + l <= Len(m) => x.pos = pos + l /\ x.val = b

LEMMA ReadDoes ==
  ASSUME NEW m \in Seq(Byte), NEW pos \in Nat, NEW l \in Nat, NEW old, pos <= Len(m)
  PROVE  ReadsAs(m, pos, l, old, [k \in 1..l |-> m[pos + k]])
<1>1. Len(m) \in Nat /\ DOMAIN m = 1..Len(m)
  OBVIOUS
<1>2. CASE pos + l > Len(m)
  BY <1>1, <1>2 DEF Read, Fits, ReadsAs
<1>3. CASE pos + l <= Len(m)
  <2>1. \A k \in 1..l : pos + k \in DOMAIN m
    BY <1>1, <1>3
  <2>2. Memory(m, pos, l) = [k \in 1..l |-> m[pos + k]]
    BY <2>1 DEF Memory
  <2> QED BY <1>1, <1>3, <2>2 DEF Read, Fits, ReadsAs
<1> QED BY <1>1, <1>2, <1>3

LEMMA NumberRead ==
  ASSUME NEW m \in Seq(Byte), NEW pos \in Nat, NEW l \in Nat, NEW old, pos <= Len(m),
         NEW b \in Bytes(l), pos + l <= Len(m) => \A k \in 1..l : m[pos + k] = b[k]
  PROVE  ReadsAs(m, pos, l, old, b)
<1>1. CASE pos + l <= Len(m)
  <2>1. [k \in 1..l |-> m[pos + k]] = b
    BY <1>1 DEF Bytes
  <2> QED BY <2>1, ReadDoes
<1>2. CASE ~ (pos + l <= Len(m))
  <2>1. ReadsAs(m, pos, l, old, [k \in 1..l |-> m[pos + k]])
    BY ReadDoes
  <2> QED BY <1>2, <2>1 DEF ReadsAs
<1> QED BY <1>1, <1>2

\* What is read as a string stands in the message, before the new m_readPos.
LEMMA StringRead ==
  ASSUME NEW m \in Seq(Byte), NEW pos \in Nat, NEW old, pos <= Len(m), old = <<>>
  PROVE  LET x == ReadString(m, pos, old)
         IN  /\ x.pos \in Nat /\ x.pos <= Len(m)
             /\ Len(x.val) \in Nat /\ pos + Len(x.val) <= x.pos
             /\ \A k \in 1..Len(x.val) : x.val[k] = m[x.pos - Len(x.val) + k]
<1> DEFINE len == Read(m, pos, 2, Uint16(0))
           n == Number(len.val)
           x == ReadString(m, pos, old)
<1>0. Len(m) \in Nat /\ DOMAIN m = 1..Len(m) /\ \A k \in 1..Len(m) : m[k] \in Nat
  <2>1. \A k \in 1..Len(m) : m[k] \in Byte
    OBVIOUS
  <2>2. \A k \in Byte : k \in Nat
    BY DEF Byte, B
  <2> QED BY <2>1, <2>2
<1>1. /\ len.pos \in Nat /\ pos <= len.pos /\ len.pos <= Len(m)
      /\ pos + 2 > Len(m) => len.pos = pos /\ len.val = Uint16(0)
      /\ pos + 2 <= Len(m) => len.pos = pos + 2 /\ len.val = [k \in 1..2 |-> m[pos + k]]
  <2>1. 2 \in Nat
    OBVIOUS
  <2>2. ReadsAs(m, pos, 2, Uint16(0), [k \in 1..2 |-> m[pos + k]])
    BY <2>1, ReadDoes, Zenon
  <2> QED BY <2>2 DEF ReadsAs
<1>2. n \in Nat
  <2>1. CASE pos + 2 > Len(m)
    <3>1. n = Number(Uint16(0)) /\ 0 \in Nat /\ 0 < B * B
      BY <1>1, <2>1 DEF B
    <3>2. Number(Uint16(0)) = 0
      BY <3>1, TwoBytes
    <3> QED BY <3>1, <3>2
  <2>2. CASE ~ (pos + 2 > Len(m))
    <3>1. len.val = [k \in 1..2 |-> m[pos + k]]
      BY <1>0, <1>1, <2>2
    <3>2. len.val[1] = m[pos + 1] /\ len.val[2] = m[pos + 2]
      BY <3>1
    <3>3. m[pos + 1] \in Nat /\ m[pos + 2] \in Nat
      BY <1>0, <2>2
    <3> QED BY <3>2, <3>3 DEF Number, B
  <2> QED BY <2>1, <2>2
<1>3. x = IF n <= 0 \/ ~ Fits(m, len.pos, n) THEN [val |-> old, pos |-> len.pos]
          ELSE [val |-> Memory(m, len.pos, n), pos |-> len.pos + n]
  BY DEF ReadString
<1> HIDE DEF len, n, x
<1>4. CASE n <= 0 \/ ~ Fits(m, len.pos, n)
  <2>1. x.pos = len.pos /\ x.val = <<>> /\ Len(x.val) = 0
    BY <1>3, <1>4
  <2> QED BY <1>0, <1>1, <2>1 DEF x
<1>5. CASE ~ (n <= 0 \/ ~ Fits(m, len.pos, n))
  <2>1. x.pos = len.pos + n /\ x.val = Memory(m, len.pos, n) /\ len.pos + n <= Len(m)
    BY <1>3, <1>5 DEF Fits
  <2>2. \A k \in 1..n : len.pos + k \in DOMAIN m /\ m[len.pos + k] \in Nat
    BY <1>0, <1>1, <1>2, <2>1
  <2>3. x.val = [k \in 1..n |-> m[len.pos + k]]
    BY <2>1, <2>2 DEF Memory
  <2>4. Len(x.val) = n /\ \A k \in 1..n : x.val[k] = m[len.pos + k]
    <3>1. x.val \in Seq(Nat) /\ DOMAIN x.val = 1..n
      BY <1>2, <2>2, <2>3
    <3> QED BY <1>2, <2>3, <3>1
  <2>5. \A k \in 1..n : x.pos - n + k = len.pos + k
    BY <1>1, <1>2, <2>1
  <2>6. x.pos \in Nat /\ x.pos <= Len(m) /\ pos + n <= x.pos
    BY <1>0, <1>1, <1>2, <2>1
  <2> QED BY <1>2, <2>4, <2>5, <2>6 DEF x
<1> QED BY <1>4, <1>5

LEMMA WholeStringRead ==
  ASSUME NEW m \in Seq(Byte), NEW pos \in Nat, NEW old, NEW str \in Seq(Byte),
         pos + 2 + Len(str) <= Len(m), Len(str) < B * B,
         \A k \in 1..2 : m[pos + k] = Uint16(Len(str))[k],
         \A k \in 1..Len(str) : m[pos + 2 + k] = str[k],
         old = <<>>
  PROVE  ReadString(m, pos, old).val = str
<1> DEFINE len == Read(m, pos, 2, Uint16(0))
           n == Number(len.val)
<1>0. Len(str) \in Nat /\ Len(m) \in Nat /\ DOMAIN m = 1..Len(m) /\ pos + 2 <= Len(m)
  OBVIOUS
<1>1. len.pos = pos + 2 /\ len.val = [k \in 1..2 |-> m[pos + k]]
  <2>1. 2 \in Nat /\ pos <= Len(m)
    BY <1>0
  <2>2. ReadsAs(m, pos, 2, Uint16(0), [k \in 1..2 |-> m[pos + k]])
    BY <2>1, ReadDoes, Zenon
  <2> QED BY <1>0, <2>2 DEF ReadsAs
<1>2. ReadString(m, pos, old)
        = IF n <= 0 \/ ~ Fits(m, len.pos, n) THEN [val |-> old, pos |-> len.pos]
          ELSE [val |-> Memory(m, len.pos, n), pos |-> len.pos + n]
  BY DEF ReadString
<1> HIDE DEF len
<1>3. n = Len(str)
  <2>1. len.val[1] = Uint16(Len(str))[1] /\ len.val[2] = Uint16(Len(str))[2]
    BY <1>1
  <2>2. Number(Uint16(Len(str))) = Len(str)
    BY <1>0, TwoBytes
  <2> QED BY <2>1, <2>2 DEF Number
<1> HIDE DEF n
<1>4. len.pos = pos + 2 /\ Fits(m, len.pos, n)
  BY <1>1, <1>3 DEF Fits
<1>5. CASE Len(str) = 0
  <2>1. str = <<>>
    BY <1>5
  <2> QED BY <1>2, <1>3, <1>5, <2>1
<1>6. CASE Len(str) # 0
  <2>1. ReadString(m, pos, old).val = Memory(m, pos + 2, Len(str))
    BY <1>0, <1>2, <1>3, <1>4, <1>6
  <2>2. \A k \in 1..Len(str) : pos + 2 + k \in DOMAIN m
    BY <1>0
  <2>3. Memory(m, pos + 2, Len(str)) = [k \in 1..Len(str) |-> str[k]]
    BY <2>2 DEF Memory
  <2>4. [k \in 1..Len(str) |-> str[k]] = str
    OBVIOUS
  <2> QED BY <2>1, <2>3, <2>4
<1> QED BY <1>5, <1>6

LEMMA TestReads ==
  ASSUME NEW r \in Request
  PROVE  LET f == r.fields
             x == PTL_Test(r)
         IN  /\ Len(Fields(f)) = HeadLen + r.kept => x.fields = f
             /\ x.fields.u8 \in {f.u8, Zeros.u8} /\ x.fields.u16 \in {f.u16, Zeros.u16}
             /\ x.fields.u32 \in {f.u32, Zeros.u32} /\ x.fields.u64 \in {f.u64, Zeros.u64}
             /\ x.pos <= Len(Body(r))
             /\ HeadLen + Len(x.fields.str) <= x.pos
             /\ \A k \in 1..Len(x.fields.str) :
                  x.fields.str[k] = Body(r)[x.pos - Len(x.fields.str) + k]
<1> DEFINE f == r.fields
           w == Fields(f)
           m == Body(r)
           L == Len(m)
           a == Read(m, 4, 1, Zeros.u8)
           b == Read(m, a.pos, 2, Zeros.u16)
           c == Read(m, b.pos, 4, Zeros.u32)
           d == Read(m, c.pos, 8, Zeros.u64)
           e == ReadString(m, d.pos, Zeros.str)
<1>1. PTL_Test(r) = [request |-> r,
                     fields |-> [u8 |-> a.val, u16 |-> b.val, u32 |-> c.val, u64 |-> d.val,
                                 str |-> e.val],
                     pos |-> e.pos]
  BY DEF PTL_Test, HeadLen
<1>2. /\ f.u8 \in Bytes(1) /\ f.u16 \in Bytes(2) /\ f.u32 \in Bytes(4) /\ f.u64 \in Bytes(8)
      /\ f.str \in Seq(Byte) /\ Len(f.str) \in Nat /\ Len(f.str) < B * B
      /\ Len(w) = 21 + Len(f.str)
      /\ w[5] = f.u8[1]
      /\ \A k \in 1..2 : w[5 + k] = f.u16[k]
      /\ \A k \in 1..4 : w[7 + k] = f.u32[k]
      /\ \A k \in 1..8 : w[11 + k] = f.u64[k]
      /\ \A k \in 1..2 : w[19 + k] = Uint16(Len(f.str))[k]
      /\ \A k \in 1..Len(f.str) : w[21 + k] = f.str[k]
  BY FieldsAre
<1>3. /\ r.kept \in Nat /\ HeadLen + r.kept <= Len(w)
      /\ m \in Seq(Byte) /\ L = HeadLen + r.kept
      /\ \A k \in 5..L : m[k] = w[k]
  BY BodyIs
<1>4. f = [u8 |-> f.u8, u16 |-> f.u16, u32 |-> f.u32, u64 |-> f.u64, str |-> f.str]
  <2> DEFINE F == [u8 : Bytes(1), u16 : Bytes(2), u32 : Bytes(4), u64 : Bytes(8),
                   str : Seq(Byte)]
  <2>1. r \in [type : 0..B * B - 1, kept : Nat, fields : F]
    BY RequestAssumption
  <2>2. f \in F
    <3> HIDE DEF F
    <3> QED BY <2>1
  <2> HIDE DEF f
  <2> QED BY <2>2
<1> HIDE DEF f, w, m
<1>5. L \in Nat /\ 4 <= L
  BY <1>3 DEF HeadLen
<1>6. \A k \in Nat : 5 <= k /\ k <= L => m[k] = w[k]
  BY <1>3
<1>7. /\ a.pos \in Nat /\ 4 <= a.pos /\ a.pos <= L /\ a.val \in {f.u8, Zeros.u8}
      /\ L >= 5 => a.pos = 5 /\ a.val = f.u8
  <2>1. 4 + 1 <= L => 4 = 4 /\ L >= 5
    BY <1>5
  <2>2. 4 + 1 <= Len(m) => \A k \in 1..1 : m[4 + k] = f.u8[k]
    <3>1. \A k \in 1..1 : 4 + k \in Nat /\ 5 <= 4 + k /\ 4 + k <= 5
      OBVIOUS
    <3>2. L >= 5 => \A k \in 1..1 : m[4 + k] = w[4 + k]
      BY <1>5, <1>6, <3>1
    <3> QED BY <1>2, <2>1, <3>2
  <2>3. 4 \in Nat /\ 1 \in Nat /\ 4 <= Len(m)
    BY <1>5
  <2>4. ReadsAs(m, 4, 1, Zeros.u8, f.u8)
    BY <1>2, <1>3, <2>2, <2>3, NumberRead, Zenon
  <2> QED BY <1>5, <2>1, <2>3, <2>4 DEF ReadsAs
<1> HIDE DEF a
<1>8. /\ b.pos \in Nat /\ 4 <= b.pos /\ b.pos <= L /\ b.val \in {f.u16, Zeros.u16}
      /\ L >= 7 => b.pos = 7 /\ b.val = f.u16
  <2>1. a.pos + 2 <= L => a.pos = 5 /\ L >= 7
    BY <1>5, <1>7
  <2>2. a.pos + 2 <= Len(m) => \A k \in 1..2 : m[a.pos + k] = f.u16[k]
    <3>1. \A k \in 1..2 : 5 + k \in Nat /\ 5 <= 5 + k /\ 5 + k <= 7
      OBVIOUS
    <3>2. L >= 7 => \A k \in 1..2 : m[5 + k] = w[5 + k]
      BY <1>5, <1>6, <3>1
    <3> QED BY <1>2, <2>1, <3>2
  <2>3. a.pos \in Nat /\ 2 \in Nat /\ a.pos <= Len(m)
    BY <1>5, <1>7
  <2>4. ReadsAs(m, a.pos, 2, Zeros.u16, f.u16)
    BY <1>2, <1>3, <2>2, <2>3, NumberRead, Zenon
  <2> QED BY <1>5, <2>1, <2>3, <2>4, <1>7 DEF ReadsAs
<1> HIDE DEF b
<1>9. /\ c.pos \in Nat /\ 4 <= c.pos /\ c.pos <= L /\ c.val \in {f.u32, Zeros.u32}
      /\ L >= 11 => c.pos = 11 /\ c.val = f.u32
  <2>1. b.pos + 4 <= L => b.pos = 7 /\ L >= 11
    BY <1>5, <1>8
  <2>2. b.pos + 4 <= Len(m) => \A k \in 1..4 : m[b.pos + k] = f.u32[k]
    <3>1. \A k \in 1..4 : 7 + k \in Nat /\ 5 <= 7 + k /\ 7 + k <= 11
      OBVIOUS
    <3>2. L >= 11 => \A k \in 1..4 : m[7 + k] = w[7 + k]
      BY <1>5, <1>6, <3>1
    <3> QED BY <1>2, <2>1, <3>2
  <2>3. b.pos \in Nat /\ 4 \in Nat /\ b.pos <= Len(m)
    BY <1>5, <1>8
  <2>4. ReadsAs(m, b.pos, 4, Zeros.u32, f.u32)
    BY <1>2, <1>3, <2>2, <2>3, NumberRead, Zenon
  <2> QED BY <1>5, <2>1, <2>3, <2>4, <1>8 DEF ReadsAs
<1> HIDE DEF c
<1>10. /\ d.pos \in Nat /\ 4 <= d.pos /\ d.pos <= L /\ d.val \in {f.u64, Zeros.u64}
       /\ L >= 19 => d.pos = 19 /\ d.val = f.u64
  <2>1. c.pos + 8 <= L => c.pos = 11 /\ L >= 19
    BY <1>5, <1>9
  <2>2. c.pos + 8 <= Len(m) => \A k \in 1..8 : m[c.pos + k] = f.u64[k]
    <3>1. \A k \in 1..8 : 11 + k \in Nat /\ 5 <= 11 + k /\ 11 + k <= 19
      OBVIOUS
    <3>2. L >= 19 => \A k \in 1..8 : m[11 + k] = w[11 + k]
      BY <1>5, <1>6, <3>1
    <3> QED BY <1>2, <2>1, <3>2
  <2>3. c.pos \in Nat /\ 8 \in Nat /\ c.pos <= Len(m)
    BY <1>5, <1>9
  <2>4. ReadsAs(m, c.pos, 8, Zeros.u64, f.u64)
    BY <1>2, <1>3, <2>2, <2>3, NumberRead, Zenon
  <2> QED BY <1>5, <2>1, <2>3, <2>4, <1>9 DEF ReadsAs
<1> HIDE DEF d
<1>11. /\ e.pos <= L
       /\ HeadLen + Len(e.val) <= e.pos
       /\ \A k \in 1..Len(e.val) : e.val[k] = m[e.pos - Len(e.val) + k]
  <2>1. d.pos \in Nat /\ d.pos <= Len(m) /\ m \in Seq(Byte) /\ Zeros.str = <<>>
    BY <1>3, <1>10 DEF Zeros
  <2>2. /\ e.pos \in Nat /\ e.pos <= Len(m)
        /\ Len(e.val) \in Nat /\ d.pos + Len(e.val) <= e.pos
        /\ \A k \in 1..Len(e.val) : e.val[k] = m[e.pos - Len(e.val) + k]
    BY <2>1, StringRead, Zenon
  <2>3. HeadLen + Len(e.val) <= e.pos
    BY <1>10, <2>2 DEF HeadLen
  <2> QED BY <2>2, <2>3
<1>12. Len(w) = HeadLen + r.kept =>
         L = 21 + Len(f.str) /\ L >= 5 /\ L >= 7 /\ L >= 11 /\ L >= 19
  <2>1. Len(f.str) \in Nat /\ Len(w) = 21 + Len(f.str) /\ L = HeadLen + r.kept
    BY <1>2, <1>3
  <2> QED BY <2>1
<1>13. ASSUME Len(w) = HeadLen + r.kept PROVE e.val = f.str
  <2>1. L = 21 + Len(f.str) /\ d.pos = 19
    BY <1>10, <1>12, <1>13
  <2>2. \A k \in 1..2 : m[19 + k] = Uint16(Len(f.str))[k]
    <3>1. \A k \in 1..2 : 19 + k \in Nat /\ 5 <= 19 + k /\ 19 + k <= 21
      OBVIOUS
    <3>2. Len(f.str) \in Nat /\ \A k \in 1..2 : w[19 + k] = Uint16(Len(f.str))[k]
      BY <1>2
    <3>3. \A k \in 1..2 : 19 + k <= L
      BY <2>1, <3>2
    <3> QED BY <1>6, <3>1, <3>2, <3>3
  <2>3. \A k \in 1..Len(f.str) : m[19 + 2 + k] = f.str[k]
    <3> SUFFICES ASSUME NEW k \in 1..Len(f.str) PROVE m[19 + 2 + k] = f.str[k]
      OBVIOUS
    <3>1. Len(f.str) \in Nat /\ w[21 + k] = f.str[k]
      BY <1>2
    <3>2. 21 + k \in Nat /\ 5 <= 21 + k /\ 21 + k <= L /\ 19 + 2 + k = 21 + k
      BY <2>1, <3>1
    <3>3. m[21 + k] = w[21 + k]
      BY <1>6, <3>2
    <3> QED BY <3>1, <3>2, <3>3
  <2>4. Zeros.str = <<>> /\ 19 + 2 + Len(f.str) <= Len(m) /\ 19 \in Nat
    BY <1>2, <2>1 DEF Zeros
  <2>5. f.str \in Seq(Byte) /\ Len(f.str) < B * B /\ m \in Seq(Byte)
    BY <1>2, <1>3
  <2>6. ReadString(m, 19, Zeros.str).val = f.str
    <3> HIDE DEF L
    <3> QED BY <2>2, <2>3, <2>4, <2>5, WholeStringRead, Zenon
  <2> QED BY <2>1, <2>6
<1>14. Len(w) = HeadLen + r.kept => a.val = f.u8 /\ b.val = f.u16 /\ c.val = f.u32 /\ d.val = f.u64
  BY <1>7, <1>8, <1>9, <1>10, <1>12
<1>15. L = Len(Body(r)) /\ m = Body(r) /\ w = Fields(r.fields) /\ f = r.fields
  BY DEF f, w, m
<1> HIDE DEF e, L
<1>16. /\ PTL_Test(r).pos <= Len(Body(r))
       /\ HeadLen + Len(PTL_Test(r).fields.str) <= PTL_Test(r).pos
       /\ \A k \in 1..Len(PTL_Test(r).fields.str) :
            PTL_Test(r).fields.str[k]
              = Body(r)[PTL_Test(r).pos - Len(PTL_Test(r).fields.str) + k]
  <2>1. PTL_Test(r).pos = e.pos /\ PTL_Test(r).fields.str = e.val
    BY <1>1
  <2> QED BY <1>11, <1>15, <2>1
<1> QED BY <1>1, <1>4, <1>7, <1>8, <1>9, <1>10, <1>13, <1>14, <1>15, <1>16

-----------------------------------------------------------------------------
(* What DelMsg leaves of the list: Keep.                                   *)

LEMMA RankOrder ==
  ASSUME NEW n \in Nat, NEW D \in SUBSET (1..n)
  PROVE  /\ IsFiniteSet(D)
         /\ Cardinality(D) \in Nat
         /\ \A i \in D : Rank(D, i) \in 1..Cardinality(D)
         /\ \A i, j \in D : i < j => Rank(D, i) < Rank(D, j)
<1> DEFINE Upto(i) == {j \in D : j <= i}
<1>1. IsFiniteSet(D) /\ Cardinality(D) \in Nat
  <2>1. IsFiniteSet(1..n)
    BY FS_Interval
  <2>2. IsFiniteSet(D)
    BY <2>1, FS_Subset
  <2> QED BY <2>2, FS_CardinalityType
<1>2. ASSUME NEW i \in D
      PROVE  /\ IsFiniteSet(Upto(i))
             /\ Cardinality(Upto(i)) \in Nat
             /\ Cardinality(Upto(i)) <= Cardinality(D)
             /\ Cardinality(Upto(i)) # 0
  <2>1. Upto(i) \in SUBSET D /\ i \in Upto(i)
    OBVIOUS
  <2> HIDE DEF Upto
  <2> QED BY <1>1, <2>1, FS_Subset, FS_CardinalityType, FS_EmptySet
<1>3. \A i \in D : Rank(D, i) \in 1..Cardinality(D)
  BY <1>1, <1>2 DEF Rank
<1>4. ASSUME NEW i \in D, NEW j \in D, i < j PROVE Rank(D, i) < Rank(D, j)
  <2>1. Upto(i) \in SUBSET Upto(j) /\ j \in Upto(j) /\ j \notin Upto(i)
    <3>1. \A k \in D : k \in Int
      OBVIOUS
    <3>2. i \in Int /\ j \in Int
      BY <3>1
    <3>3. \A k \in D : k <= i => k <= j
      BY <1>4, <3>1, <3>2
    <3>4. j <= j /\ ~ (j <= i)
      BY <1>4, <3>2
    <3> QED BY <3>3, <3>4
  <2>2. /\ IsFiniteSet(Upto(j))
        /\ Cardinality(Upto(i)) \in Nat /\ Cardinality(Upto(j)) \in Nat
    BY <1>2
  <2>3. Cardinality(Upto(i)) < Cardinality(Upto(j))
    <3> HIDE DEF Upto
    <3> QED BY <2>1, <2>2, FS_Subset
  <2> QED BY <2>3 DEF Rank
<1> QED BY <1>1, <1>3, <1>4

\* Positions and ranks are one to one.
LEMMA NthPosition ==
  ASSUME NEW n \in Nat, NEW D \in SUBSET (1..n)
  PROVE  /\ \A k \in 1..Cardinality(D) : Nth(D, k) \in D /\ Rank(D, Nth(D, k)) = k
         /\ \A i \in D : Nth(D, Rank(D, i)) = i
<1> DEFINE r == [i \in D |-> Rank(D, i)]
<1>1. /\ IsFiniteSet(D)
      /\ Cardinality(D) \in Nat
      /\ \A i \in D : Rank(D, i) \in 1..Cardinality(D)
      /\ \A i, j \in D : Rank(D, i) = Rank(D, j) => i = j
  <2>1. /\ IsFiniteSet(D)
        /\ Cardinality(D) \in Nat
        /\ \A i \in D : Rank(D, i) \in 1..Cardinality(D)
        /\ \A i, j \in D : i < j => Rank(D, i) < Rank(D, j)
    BY RankOrder
  <2>2. \A i, j \in D : i < j \/ j < i \/ i = j
    OBVIOUS
  <2>3. \A i \in D : ~ (Rank(D, i) < Rank(D, i))
    BY <2>1
  <2> QED BY <2>1, <2>2, <2>3
<1>2. r \in Injection(D, 1..Cardinality(D))
  BY <1>1 DEF Injection, IsInjective
<1>3. IsFiniteSet(1..Cardinality(D)) /\ Cardinality(1..Cardinality(D)) = Cardinality(D)
  BY <1>1, FS_Interval
<1>4. r \in Surjection(D, 1..Cardinality(D))
  BY <1>2, <1>3, FS_Injection
<1>5. \A k \in 1..Cardinality(D) : \E i \in D : Rank(D, i) = k
  BY <1>4 DEF Surjection
<1>6. \A k \in 1..Cardinality(D) : Nth(D, k) \in D /\ Rank(D, Nth(D, k)) = k
  BY <1>5 DEF Nth
<1> QED BY <1>1, <1>6

\* The nodes kept are those at D, in the order they had.
LEMMA Kept ==
  ASSUME NEW S, NEW s \in Seq(S), NEW D \in SUBSET (DOMAIN s)
  PROVE  LET t == Keep(s, D)
         IN  /\ t \in Seq(S)
             /\ Len(t) = Cardinality(D)
             /\ DOMAIN t = 1..Cardinality(D)
             /\ \A k \in DOMAIN t : Nth(D, k) \in D /\ t[k] = s[Nth(D, k)]
             /\ \A j, k \in DOMAIN t : j < k => Nth(D, j) < Nth(D, k)
             /\ \A i \in D : \E k \in DOMAIN t : Nth(D, k) = i
<1> DEFINE t == Keep(s, D)
           n == Cardinality(D)
<1>1. D \in SUBSET (1..Len(s)) /\ Len(s) \in Nat
  OBVIOUS
<1>2. n \in Nat /\ \A i \in D : Rank(D, i) \in 1..n
  BY <1>1, RankOrder
<1>3. /\ \A k \in 1..n : Nth(D, k) \in D /\ Rank(D, Nth(D, k)) = k
      /\ \A i \in D : Nth(D, Rank(D, i)) = i
  BY <1>1, NthPosition
<1>4. t = [k \in 1..n |-> s[Nth(D, k)]]
  BY DEF Keep
<1>5. \A k \in 1..n : s[Nth(D, k)] \in S
  BY <1>3
<1>6. t \in Seq(S) /\ Len(t) = n /\ DOMAIN t = 1..n
  BY <1>2, <1>4, <1>5
<1>7. ASSUME NEW j \in 1..n, NEW k \in 1..n, j < k PROVE Nth(D, j) < Nth(D, k)
  <2>1. Rank(D, Nth(D, j)) < Rank(D, Nth(D, k))
    BY <1>3, <1>7
  <2>2. Nth(D, j) \in D /\ Nth(D, k) \in D /\ Nth(D, j) \in Nat /\ Nth(D, k) \in Nat
    BY <1>1, <1>3
  <2>3. CASE Nth(D, j) > Nth(D, k)
    <3>1. Rank(D, Nth(D, k)) < Rank(D, Nth(D, j))
      BY <1>1, <2>2, <2>3, RankOrder
    <3> QED BY <1>2, <2>1, <2>2, <3>1
  <2> QED BY <1>2, <2>1, <2>2, <2>3
<1>8. \A i \in D : \E k \in 1..n : Nth(D, k) = i
  BY <1>2, <1>3
<1> HIDE DEF n
<1> QED BY <1>3, <1>4, <1>6, <1>7, <1>8 DEF n

-----------------------------------------------------------------------------
(* Who owns the messages: MessageOwnedOnce said of the map M that the table *)
(* of partial messages stands for, the list q, the message d that the       *)
(* message thread holds, and the objects h.                                *)

Apart(M, q, d, h) ==
  /\ h = {M[s] : s \in DOMAIN M} \cup {q[i].pMsg : i \in DOMAIN q}
           \cup {x.pMsg : x \in {d} \ {NULL}}
  /\ \A s, t \in DOMAIN M : M[s] = M[t] => s = t
  /\ \A i, j \in DOMAIN q : q[i].pMsg = q[j].pMsg => i = j
  /\ \A s \in DOMAIN M, i \in DOMAIN q : M[s] # q[i].pMsg
  /\ d # NULL => /\ \A s \in DOMAIN M : M[s] # d.pMsg
                 /\ \A i \in DOMAIN q : q[i].pMsg # d.pMsg

Partial == AsMap(m_recvMsgList, Sock, NULL)

LEMMA OwnersApart == MessageOwnedOnce <=> Apart(Partial, queue, deal, heap)
<1> DEFINE Ps(s) == <<"partial", s>>
           Qu(i) == <<"queue", i>>
           De == <<"deal", 0>>
<1>1. DOMAIN Partial = Keys(m_recvMsgList, Sock)
      /\ \A s \in DOMAIN Partial : Partial[s] = Find(m_recvMsgList, s, NULL)
  BY DEF Partial, AsMap
<1> HIDE DEF Partial
<1>2. /\ \A s \in DOMAIN Partial : Owned(Ps(s)) = Partial[s]
      /\ \A i \in DOMAIN queue : Owned(Qu(i)) = queue[i].pMsg
      /\ Owned(De) = deal.pMsg
  BY <1>1 DEF Owned
<1>3. Owners = {Ps(s) : s \in DOMAIN Partial} \cup {Qu(i) : i \in DOMAIN queue}
                 \cup {De : x \in {deal} \ {NULL}}
  BY <1>1 DEF Owners
<1>4. /\ \A s, t : Ps(s) = Ps(t) => s = t
      /\ \A i, k : Qu(i) = Qu(k) => i = k
      /\ \A s, i : Ps(s) # Qu(i)
      /\ \A s : Ps(s) # De
      /\ \A i : Qu(i) # De
  OBVIOUS
<1> HIDE DEF Ps, Qu, De
<1>5. /\ \A s \in DOMAIN Partial : Ps(s) \in Owners
      /\ \A i \in DOMAIN queue : Qu(i) \in Owners
      /\ deal # NULL => De \in Owners
  BY <1>3
<1>6. ASSUME NEW w \in Owners
      PROVE  \/ \E s \in DOMAIN Partial : w = Ps(s)
             \/ \E i \in DOMAIN queue : w = Qu(i)
             \/ deal # NULL /\ w = De
  BY <1>3
<1>7. {Owned(w) : w \in Owners} = {Partial[s] : s \in DOMAIN Partial}
         \cup {queue[i].pMsg : i \in DOMAIN queue} \cup {x.pMsg : x \in {deal} \ {NULL}}
  <2>1. {x.pMsg : x \in {deal} \ {NULL}} = IF deal # NULL THEN {deal.pMsg} ELSE {}
    OBVIOUS
  <2>2. ASSUME NEW w \in Owners
        PROVE  Owned(w) \in {Partial[s] : s \in DOMAIN Partial}
                 \cup {queue[i].pMsg : i \in DOMAIN queue} \cup {x.pMsg : x \in {deal} \ {NULL}}
    BY <1>2, <1>6, <2>1
  <2>3. /\ \A s \in DOMAIN Partial : Partial[s] \in {Owned(w) : w \in Owners}
        /\ \A i \in DOMAIN queue : queue[i].pMsg \in {Owned(w) : w \in Owners}
        /\ deal # NULL => deal.pMsg \in {Owned(w) : w \in Owners}
    BY <1>2, <1>5
  <2> QED BY <2>1, <2>2, <2>3
<1>8. (\A v, w \in Owners : Owned(v) = Owned(w) => v = w) <=>
        /\ \A s, t \in DOMAIN Partial : Partial[s] = Partial[t] => s = t
        /\ \A i, j \in DOMAIN queue : queue[i].pMsg = queue[j].pMsg => i = j
        /\ \A s \in DOMAIN Partial, i \in DOMAIN queue : Partial[s] # queue[i].pMsg
        /\ deal # NULL => /\ \A s \in DOMAIN Partial : Partial[s] # deal.pMsg
                          /\ \A i \in DOMAIN queue : queue[i].pMsg # deal.pMsg
  <2>1. ASSUME \A v, w \in Owners : Owned(v) = Owned(w) => v = w
        PROVE  /\ \A s, t \in DOMAIN Partial : Partial[s] = Partial[t] => s = t
               /\ \A i, j \in DOMAIN queue : queue[i].pMsg = queue[j].pMsg => i = j
               /\ \A s \in DOMAIN Partial, i \in DOMAIN queue : Partial[s] # queue[i].pMsg
               /\ deal # NULL => /\ \A s \in DOMAIN Partial : Partial[s] # deal.pMsg
                                 /\ \A i \in DOMAIN queue : queue[i].pMsg # deal.pMsg
    <3>1. \A s, t \in DOMAIN Partial : Partial[s] = Partial[t] => s = t
      BY <1>2, <1>4, <1>5, <2>1
    <3>2. \A i, j \in DOMAIN queue : queue[i].pMsg = queue[j].pMsg => i = j
      BY <1>2, <1>4, <1>5, <2>1
    <3>3. \A s \in DOMAIN Partial, i \in DOMAIN queue : Partial[s] # queue[i].pMsg
      BY <1>2, <1>4, <1>5, <2>1
    <3>4. deal # NULL => /\ \A s \in DOMAIN Partial : Partial[s] # deal.pMsg
                         /\ \A i \in DOMAIN queue : queue[i].pMsg # deal.pMsg
      BY <1>2, <1>4, <1>5, <2>1
    <3> QED BY <3>1, <3>2, <3>3, <3>4
  <2>2. ASSUME /\ \A s, t \in DOMAIN Partial : Partial[s] = Partial[t] => s = t
               /\ \A i, j \in DOMAIN queue : queue[i].pMsg = queue[j].pMsg => i = j
               /\ \A s \in DOMAIN Partial, i \in DOMAIN queue : Partial[s] # queue[i].pMsg
               /\ deal # NULL => /\ \A s \in DOMAIN Partial : Partial[s] # deal.pMsg
                                 /\ \A i \in DOMAIN queue : queue[i].pMsg # deal.pMsg,
               NEW v \in Owners, NEW w \in Owners, Owned(v) = Owned(w)
        PROVE  v = w
    BY <1>2, <1>6, <2>2
  <2> QED BY <2>1, <2>2, Zenon
<1> QED BY <1>7, <1>8 DEF MessageOwnedOnce, Apart

LEMMA NewPartial ==
  ASSUME NEW M, NEW q, NEW d, NEW h, Apart(M, q, d, h),
         NEW sock, sock \notin DOMAIN M, NEW o, o \notin h
  PROVE  Apart(With(M, sock, o), q, d, h \cup {o})
<1> DEFINE N == With(M, sock, o)
<1>1. /\ DOMAIN N = DOMAIN M \cup {sock} /\ N[sock] = o
      /\ \A x \in DOMAIN M : N[x] = M[x]
  BY DEF With
<1> HIDE DEF N
<1>2. /\ \A s \in DOMAIN M : M[s] # o
      /\ \A i \in DOMAIN q : q[i].pMsg # o
      /\ d # NULL => d.pMsg # o
  BY DEF Apart
<1>3. {N[x] : x \in DOMAIN N} = {M[x] : x \in DOMAIN M} \cup {o}
  BY <1>1
<1>4. h \cup {o} = {N[s] : s \in DOMAIN N} \cup {q[i].pMsg : i \in DOMAIN q}
                   \cup {x.pMsg : x \in {d} \ {NULL}}
  BY <1>3 DEF Apart
<1>5. /\ \A s, t \in DOMAIN N : N[s] = N[t] => s = t
      /\ \A s \in DOMAIN N, i \in DOMAIN q : N[s] # q[i].pMsg
      /\ d # NULL => \A s \in DOMAIN N : N[s] # d.pMsg
  BY <1>1, <1>2 DEF Apart
<1>6. Apart(N, q, d, h \cup {o})
  BY <1>4, <1>5 DEF Apart
<1> QED BY <1>6 DEF N

\* The partial message of a descriptor becomes a node of the list.
LEMMA ToList ==
  ASSUME NEW M, NEW q \in Seq(Entry), NEW d, NEW h, Apart(M, q, d, h),
         NEW sock \in DOMAIN M, NEW o, o \notin h, NEW e \in Entry, e.pMsg = M[sock],
         NEW N, DOMAIN N = DOMAIN M, N[sock] = o, \A x \in DOMAIN M \ {sock} : N[x] = M[x]
  PROVE  Apart(N, Append(q, e), d, h \cup {o})
<1> DEFINE r == Append(q, e)
           l == Len(q) + 1
<1>1. /\ DOMAIN r = DOMAIN q \cup {l} /\ l \notin DOMAIN q
      /\ r[l] = e /\ \A i \in DOMAIN q : r[i] = q[i]
  <2>1. Len(q) \in Nat /\ DOMAIN q = 1..Len(q)
    OBVIOUS
  <2>2. 1..(Len(q) + 1) = 1..Len(q) \cup {Len(q) + 1} /\ Len(q) + 1 \notin 1..Len(q)
    BY <2>1
  <2>3. DOMAIN r = 1..(Len(q) + 1) /\ r[Len(q) + 1] = e /\ \A i \in 1..Len(q) : r[i] = q[i]
    OBVIOUS
  <2> QED BY <2>1, <2>2, <2>3
<1> HIDE DEF r, l
<1>2. /\ \A s \in DOMAIN M : M[s] # o
      /\ \A i \in DOMAIN q : q[i].pMsg # o
      /\ d # NULL => d.pMsg # o
  BY DEF Apart
<1>3. {N[x] : x \in DOMAIN N} \cup {r[i].pMsg : i \in DOMAIN r}
        = {M[x] : x \in DOMAIN M} \cup {q[i].pMsg : i \in DOMAIN q} \cup {o}
  BY <1>1
<1>4. h \cup {o} = {N[s] : s \in DOMAIN N} \cup {r[i].pMsg : i \in DOMAIN r}
                   \cup {x.pMsg : x \in {d} \ {NULL}}
  BY <1>3 DEF Apart
<1>5. /\ \A s, t \in DOMAIN N : N[s] = N[t] => s = t
      /\ \A i, j \in DOMAIN r : r[i].pMsg = r[j].pMsg => i = j
      /\ \A s \in DOMAIN N, i \in DOMAIN r : N[s] # r[i].pMsg
  BY <1>1, <1>2 DEF Apart
<1>6. d # NULL => /\ \A s \in DOMAIN N : N[s] # d.pMsg
                  /\ \A i \in DOMAIN r : r[i].pMsg # d.pMsg
  BY <1>1, <1>2 DEF Apart
<1>7. Apart(N, r, d, h \cup {o})
  BY <1>4, <1>5, <1>6 DEF Apart
<1> QED BY <1>7 DEF r

\* The partial message of a descriptor and its nodes are deleted.
LEMMA Dropped ==
  ASSUME NEW M, NEW q \in Seq(Entry), NEW d, NEW h, Apart(M, q, d, h), NEW sock,
         NEW D \in SUBSET (DOMAIN q)
  PROVE  Apart(Without(M, sock), Keep(q, D), d,
               h \ ({M[s] : s \in DOMAIN M \cap {sock}} \cup {q[i].pMsg : i \in DOMAIN q \ D}))
<1> DEFINE N == Without(M, sock)
           r == Keep(q, D)
           g == {M[s] : s \in DOMAIN M \cap {sock}} \cup {q[i].pMsg : i \in DOMAIN q \ D}
<1>1. DOMAIN N = DOMAIN M \ {sock} /\ \A x \in DOMAIN N : N[x] = M[x]
  BY DEF Without
<1>2. /\ \A k \in DOMAIN r : Nth(D, k) \in D /\ r[k] = q[Nth(D, k)]
      /\ \A j, k \in DOMAIN r : j < k => Nth(D, j) < Nth(D, k)
      /\ \A i \in D : \E k \in DOMAIN r : Nth(D, k) = i
      /\ \A k \in DOMAIN r : k \in Int
  <2>1. LET t == Keep(q, D)
        IN  /\ DOMAIN t = 1..Cardinality(D)
            /\ \A k \in DOMAIN t : Nth(D, k) \in D /\ t[k] = q[Nth(D, k)]
            /\ \A j, k \in DOMAIN t : j < k => Nth(D, j) < Nth(D, k)
            /\ \A i \in D : \E k \in DOMAIN t : Nth(D, k) = i
    BY Kept
  <2> QED BY <2>1
<1> HIDE DEF N, r
<1>3. \A j, k \in DOMAIN r : Nth(D, j) = Nth(D, k) => j = k
  <2>1. \A j, k \in DOMAIN r : j < k \/ k < j \/ j = k
    BY <1>2
  <2>2. \A i \in D : ~ (i < i)
    <3>1. \A i \in D : i \in Int
      OBVIOUS
    <3> QED BY <3>1
  <2> QED BY <1>2, <2>1, <2>2
<1>4. \A i, j \in DOMAIN q : q[i].pMsg = q[j].pMsg => i = j
  BY DEF Apart
<1>5. \A i, j \in DOMAIN r : r[i].pMsg = r[j].pMsg => i = j
  BY <1>2, <1>3, <1>4
<1>6. h \ g = {N[s] : s \in DOMAIN N} \cup {r[i].pMsg : i \in DOMAIN r}
               \cup {x.pMsg : x \in {d} \ {NULL}}
  <2>1. {r[i].pMsg : i \in DOMAIN r} = {q[i].pMsg : i \in D}
    BY <1>2
  <2>2. ASSUME NEW o PROVE o \in h \ g <=> \/ \E s \in DOMAIN N : o = N[s]
                                           \/ \E i \in D : o = q[i].pMsg
                                           \/ d # NULL /\ o = d.pMsg
    <3>1. o \in h <=> \/ \E s \in DOMAIN M : o = M[s]
                      \/ \E i \in DOMAIN q : o = q[i].pMsg
                      \/ d # NULL /\ o = d.pMsg
      BY DEF Apart
    <3>2. o \in g <=> \/ \E s \in DOMAIN M : s = sock /\ o = M[s]
                      \/ \E i \in DOMAIN q : i \notin D /\ o = q[i].pMsg
      OBVIOUS
    <3> HIDE DEF g
    <3>3. /\ \A s, t \in DOMAIN M : M[s] = M[t] => s = t
          /\ \A s \in DOMAIN M, i \in DOMAIN q : M[s] # q[i].pMsg
          /\ d # NULL => /\ \A s \in DOMAIN M : M[s] # d.pMsg
                         /\ \A i \in DOMAIN q : q[i].pMsg # d.pMsg
      BY DEF Apart
    <3> QED BY <1>1, <1>4, <3>1, <3>2, <3>3
  <2> HIDE DEF g
  <2> QED BY <2>1, <2>2
<1>7. /\ \A s, t \in DOMAIN N : N[s] = N[t] => s = t
      /\ \A s \in DOMAIN N, i \in DOMAIN r : N[s] # r[i].pMsg
      /\ d # NULL => /\ \A s \in DOMAIN N : N[s] # d.pMsg
                     /\ \A i \in DOMAIN r : r[i].pMsg # d.pMsg
  BY <1>1, <1>2 DEF Apart
<1> HIDE DEF g
<1>8. Apart(N, r, d, h \ g)
  BY <1>5, <1>6, <1>7 DEF Apart
<1> QED BY <1>8 DEF N, r, g

\* The first node of the list goes to the message thread.
LEMMA Taken ==
  ASSUME NEW M, NEW q \in Seq(Entry), NEW h, Apart(M, q, NULL, h), q # <<>>, NULL \notin Entry
  PROVE  Apart(M, Tail(q), Head(q), h)
<1> DEFINE r == Tail(q)
           d == Head(q)
<1>1. /\ Len(q) \in Nat /\ Len(q) >= 1 /\ DOMAIN q = 1..Len(q)
      /\ DOMAIN r = 1..(Len(q) - 1) /\ \A i \in 1..(Len(q) - 1) : r[i] = q[i + 1]
      /\ d = q[1] /\ d # NULL
  OBVIOUS
<1> HIDE DEF r, d
<1>2. /\ 1 \in DOMAIN q
      /\ \A i \in DOMAIN r : i + 1 \in DOMAIN q /\ r[i] = q[i + 1] /\ i + 1 # 1 /\ i \in Int
      /\ \A i \in DOMAIN q : i = 1 \/ (i - 1 \in DOMAIN r /\ r[i - 1] = q[i])
  BY <1>1
<1>3. \A i, j \in DOMAIN q : q[i].pMsg = q[j].pMsg => i = j
  BY DEF Apart
<1>4. \A i, j \in DOMAIN r : r[i].pMsg = r[j].pMsg => i = j
  <2> SUFFICES ASSUME NEW i \in DOMAIN r, NEW j \in DOMAIN r, r[i].pMsg = r[j].pMsg
               PROVE  i = j
    OBVIOUS
  <2>1. i + 1 \in DOMAIN q /\ j + 1 \in DOMAIN q /\ q[i + 1].pMsg = q[j + 1].pMsg
    BY <1>2
  <2>2. i + 1 = j + 1
    BY <1>3, <2>1
  <2>3. i \in Int /\ j \in Int
    BY <1>2
  <2> QED BY <2>2, <2>3
<1>5. {q[i].pMsg : i \in DOMAIN q} = {r[i].pMsg : i \in DOMAIN r} \cup {d.pMsg}
  BY <1>1, <1>2
<1>6. h = {M[s] : s \in DOMAIN M} \cup {r[i].pMsg : i \in DOMAIN r}
           \cup {x.pMsg : x \in {d} \ {NULL}}
  <2>1. {x.pMsg : x \in {d} \ {NULL}} = {d.pMsg}
    BY <1>1
  <2>2. {x.pMsg : x \in {NULL} \ {NULL}} = {}
    OBVIOUS
  <2> QED BY <1>5, <2>1, <2>2 DEF Apart
<1>7. /\ \A s \in DOMAIN M, i \in DOMAIN r : M[s] # r[i].pMsg
      /\ \A s \in DOMAIN M : M[s] # d.pMsg
      /\ \A i \in DOMAIN r : r[i].pMsg # d.pMsg
  BY <1>1, <1>2 DEF Apart
<1>8. Apart(M, r, d, h)
  BY <1>4, <1>6, <1>7 DEF Apart
<1> QED BY <1>8 DEF r, d

LEMMA DeletedOne ==
  ASSUME NEW M, NEW q, NEW d, NEW h, Apart(M, q, d, h), d # NULL
  PROVE  Apart(M, q, NULL, h \ {d.pMsg})
BY DEF Apart

-----------------------------------------------------------------------------
(* The steps of the network thread on the map of partial messages.          *)

\* What a table holds for a key is a value of its type, and the key one of its keys.
LEMMA Looked ==
  ASSUME NEW Id \in SUBSET Nat, NEW Val, NEW t, WellFormed(t, Id, Val), NEW index \in Nat
  PROVE  /\ Has(t, index) => index \in Id /\ \A old : Find(t, index, old) \in Val
         /\ ~ Has(t, index) => \A old : Find(t, index, old) = old
<1>1. ASSUME Has(t, index)
      PROVE  index \in Id /\ \A old : Find(t, index, old) \in Val
  <2>1. PICK k \in Positions(t, index) : TRUE
    BY <1>1 DEF Has
  <2>2. Hash(index) \in Bucket
    BY HashType
  <2>3. t[Hash(index)] \in Seq(Node(Id, Val))
    BY <2>2 DEF WellFormed
  <2>4. k \in DOMAIN t[Hash(index)] /\ t[Hash(index)][k].id = index
    BY <2>1 DEF Positions
  <2>5. t[Hash(index)][k] \in Node(Id, Val)
    BY <2>3, <2>4
  <2>6. t[Hash(index)][k].id \in Id /\ t[Hash(index)][k].val \in Val
    BY <2>5 DEF Node
  <2>7. \A old : Find(t, index, old) = t[Hash(index)][k].val
    BY <2>1, OnlyNode
  <2> QED BY <2>4, <2>6, <2>7
<1> QED BY <1>1 DEF Find

LEMMA PartialIs ==
  ASSUME WellFormed(m_recvMsgList, Sock, Obj)
  PROVE  /\ DOMAIN Partial \subseteq Sock
         /\ \A s \in Sock : Has(m_recvMsgList, s) <=> s \in DOMAIN Partial
         /\ \A s \in DOMAIN Partial : Partial[s] = Find(m_recvMsgList, s, NULL) /\ Partial[s] \in Obj
         /\ \A s \in Sock : s \notin DOMAIN Partial => Find(m_recvMsgList, s, NULL) = NULL
<1>1. DOMAIN Partial = Keys(m_recvMsgList, Sock)
      /\ \A s \in DOMAIN Partial : Partial[s] = Find(m_recvMsgList, s, NULL)
  BY DEF Partial, AsMap
<1>2. DOMAIN Partial \subseteq Sock /\ \A s \in Sock : Has(m_recvMsgList, s) <=> s \in DOMAIN Partial
  BY <1>1 DEF Keys
<1>3. ASSUME NEW s \in Sock
      PROVE  /\ Has(m_recvMsgList, s) => Find(m_recvMsgList, s, NULL) \in Obj
             /\ ~ Has(m_recvMsgList, s) => Find(m_recvMsgList, s, NULL) = NULL
  BY Keyed, Looked
<1> QED BY <1>1, <1>2, <1>3

LEMMA InsertedPartial ==
  ASSUME NEW t, WellFormed(t, Sock, Obj), NEW sock \in Sock, ~ Has(t, sock), NEW o \in Obj
  PROVE  AsMap(Insert(t, sock, o), Sock, NULL) = With(AsMap(t, Sock, NULL), sock, o)
<1> DEFINE map == AsMap(t, Sock, NULL)
<1>1. AsMap(Insert(t, sock, o), Sock, NULL)
        = IF sock \in DOMAIN map THEN map ELSE With(map, sock, o)
  BY Keyed, InsertIsMapInsert
<1>2. sock \notin DOMAIN map
  BY DEF AsMap, Keys
<1> HIDE DEF map
<1> QED BY <1>1, <1>2 DEF map

LEMMA ErasedPartial ==
  ASSUME NEW t, WellFormed(t, Sock, Obj), NEW sock \in Sock
  PROVE  /\ WellFormed(Erase(t, sock), Sock, Obj)
         /\ AsMap(Erase(t, sock), Sock, NULL) = Without(AsMap(t, Sock, NULL), sock)
         /\ ~ Has(Erase(t, sock), sock)
<1> DEFINE map == AsMap(t, Sock, NULL)
           u == Erase(t, sock)
<1>1. WellFormed(u, Sock, Obj) /\ AsMap(u, Sock, NULL) = Without(map, sock)
  BY Keyed, EraseIsMapRemove
<1> HIDE DEF map, u
<1>2. sock \notin DOMAIN AsMap(u, Sock, NULL)
  BY <1>1 DEF Without
<1>3. ~ Has(u, sock)
  BY <1>2 DEF AsMap, Keys
<1> QED BY <1>1, <1>3 DEF map, u

LEMMA Replaced ==
  ASSUME NEW M, NEW s \in DOMAIN M, NEW o
  PROVE  With(Without(M, s), s, o) = With(M, s, o)
BY DEF With, Without

LEMMA PartStep ==
  ASSUME WellFormed(m_recvMsgList, Sock, Obj), NEW sock \in Sock, OnRecvPart(sock)
  PROVE  /\ sock \notin DOMAIN Partial
         /\ \E o \in Obj \ heap : heap' = heap \cup {o} /\ Partial' = With(Partial, sock, o)
<1>1. PICK o \in Obj \ heap :
        heap' = heap \cup {o} /\ m_recvMsgList' = Insert(m_recvMsgList, sock, o)
  BY DEF OnRecvPart
<1>2. ~ Has(m_recvMsgList, sock)
  BY DEF OnRecvPart
<1>3. AsMap(Insert(m_recvMsgList, sock, o), Sock, NULL) = With(Partial, sock, o)
  BY <1>2, InsertedPartial DEF Partial
<1>4. Partial' = With(Partial, sock, o)
  BY <1>1, <1>3 DEF Partial
<1> QED BY <1>1, <1>2, <1>4, PartialIs

LEMMA DoneStep ==
  ASSUME WellFormed(m_recvMsgList, Sock, Obj), NEW sock \in Sock, NEW request \in Request,
         OnRecvDone(sock, request)
  PROVE  /\ sock \in DOMAIN Partial
         /\ \/ /\ Partial' = Without(Partial, sock)
               /\ queue' = NotOf(sock)
               /\ heap' = heap \ ({Partial[sock]} \cup Queued(sock))
            \/ \E o \in Obj \ heap :
                 /\ Partial' = With(Partial, sock, o)
                 /\ queue' = Append(queue, [sock |-> sock, pMsg |-> Partial[sock],
                                            request |-> request])
                 /\ heap' = heap \cup {o}
<1> DEFINE erased == Erase(m_recvMsgList, sock)
<1>1. sock \in DOMAIN Partial /\ Partial[sock] = Find(m_recvMsgList, sock, NULL)
  BY PartialIs DEF OnRecvDone
<1>2. /\ WellFormed(erased, Sock, Obj)
      /\ AsMap(erased, Sock, NULL) = Without(Partial, sock)
      /\ ~ Has(erased, sock)
  BY ErasedPartial DEF Partial
<1> HIDE DEF erased
<1>3. ASSUME NEW o \in Obj
      PROVE  AsMap(Insert(erased, sock, o), Sock, NULL) = With(Partial, sock, o)
  <2>1. AsMap(Insert(erased, sock, o), Sock, NULL) = With(Without(Partial, sock), sock, o)
    BY <1>2, InsertedPartial
  <2> QED BY <1>1, <2>1, Replaced
<1>4. CASE CountOf(sock) > MaxPerSock
  <2>1. /\ m_recvMsgList' = erased /\ queue' = NotOf(sock)
        /\ heap' = heap \ ({Partial[sock]} \cup Queued(sock))
    BY <1>1, <1>4 DEF OnRecvDone, erased
  <2>2. Partial' = Without(Partial, sock)
    BY <1>2, <2>1 DEF Partial
  <2> QED BY <1>1, <2>1, <2>2
<1>5. CASE ~ (CountOf(sock) > MaxPerSock)
  <2>1. PICK o \in Obj \ heap :
          /\ m_recvMsgList' = Insert(erased, sock, o)
          /\ queue' = Append(queue, [sock |-> sock, pMsg |-> Partial[sock], request |-> request])
          /\ heap' = heap \cup {o}
    BY <1>1, <1>5 DEF OnRecvDone, erased
  <2>2. Partial' = With(Partial, sock, o)
    BY <1>3, <2>1 DEF Partial
  <2> QED BY <1>1, <2>1, <2>2
<1> QED BY <1>4, <1>5

LEMMA ClosedStep ==
  ASSUME WellFormed(m_recvMsgList, Sock, Obj), NEW sock \in Sock, OnRecvClosed(sock)
  PROVE  /\ Partial' = Without(Partial, sock)
         /\ queue' = NotOf(sock)
         /\ heap' = heap \ ({Partial[s] : s \in DOMAIN Partial \cap {sock}} \cup Queued(sock))
<1>1. Partial' = Without(Partial, sock)
  BY ErasedPartial DEF Partial, OnRecvClosed
<1>2. Gone(sock) = {Partial[s] : s \in DOMAIN Partial \cap {sock}}
  <2>1. CASE sock \in DOMAIN Partial
    <3>1. Find(m_recvMsgList, sock, NULL) = Partial[sock] /\ Partial[sock] \in Obj
      BY <2>1, PartialIs
    <3>2. Partial[sock] # NULL
      BY <3>1, ConstantsAssumption
    <3>3. DOMAIN Partial \cap {sock} = {sock}
      BY <2>1
    <3>4. Gone(sock) = {Partial[sock]}
      BY <3>1, <3>2 DEF Gone
    <3> QED BY <3>3, <3>4
  <2>2. CASE sock \notin DOMAIN Partial
    <3>1. Find(m_recvMsgList, sock, NULL) = NULL
      BY <2>2, PartialIs
    <3>2. Gone(sock) = {}
      BY <3>1 DEF Gone
    <3>3. DOMAIN Partial \cap {sock} = {}
      BY <2>2
    <3> QED BY <3>2, <3>3
  <2> QED BY <2>1, <2>2
<1> QED BY <1>1, <1>2 DEF OnRecvClosed

-----------------------------------------------------------------------------
(* The inductive invariant.                                                *)

\* What PTL_Test last read, it read from a request.
ReadIs == read # NULL => \E r \in Request : read = PTL_Test(r)

IInv == TypeOK /\ MessageOwnedOnce /\ ReadIs

LEMMA IInvInit == Init => IInv
<1> SUFFICES ASSUME Init PROVE IInv
  OBVIOUS
<1>1. Tables
  BY TablesInit
<1>2. TypeOK
  BY <1>1 DEF Init, Tables, TypeOK
<1>3. DOMAIN Partial = {}
  <2>1. \A s \in Sock : Hash(s) \in Bucket
    BY Keyed, HashType
  <2>2. \A s \in Sock : EmptyTable[Hash(s)] = <<>>
    BY <2>1 DEF EmptyTable
  <2>3. \A s \in Sock : ~ Has(EmptyTable, s)
    BY <2>2 DEF Has, Positions
  <2> QED BY <2>3 DEF Init, Partial, AsMap, Keys
<1>4. MessageOwnedOnce
  <2>1. {x.pMsg : x \in {NULL} \ {NULL}} = {}
    OBVIOUS
  <2>2. Apart(Partial, <<>>, NULL, {})
    BY <1>3, <2>1 DEF Apart
  <2>3. Apart(Partial, queue, deal, heap)
    BY <2>2 DEF Init
  <2> QED BY <2>3, OwnersApart
<1>5. ReadIs
  BY DEF Init, ReadIs
<1> QED BY <1>2, <1>4, <1>5 DEF IInv

LEMMA OwnersApartNext == MessageOwnedOnce' <=> Apart(Partial, queue, deal, heap)'
BY OwnersApart, PTL

\* Nodes of the list and the message held are entries of three known parts.
LEMMA EntryParts ==
  ASSUME NEW e \in Entry
  PROVE  e.sock \in Sock /\ e.pMsg \in Obj /\ e.request \in Request
BY DEF Entry

LEMMA KeptEntries ==
  ASSUME queue \in Seq(Entry), NEW sock \in Sock
  PROVE  NotOf(sock) \in Seq(Entry)
<1> DEFINE D == {i \in DOMAIN queue : queue[i].sock # sock}
<1>1. D \in SUBSET (DOMAIN queue)
  OBVIOUS
<1> HIDE DEF D
<1>2. Keep(queue, D) \in Seq(Entry)
  BY <1>1, Kept
<1> QED BY <1>2 DEF NotOf, D

LEMMA DroppedOf ==
  ASSUME queue \in Seq(Entry), NEW sock \in Sock, Apart(Partial, queue, deal, heap)
  PROVE  Apart(Without(Partial, sock), NotOf(sock), deal,
               heap \ ({Partial[s] : s \in DOMAIN Partial \cap {sock}} \cup Queued(sock)))
<1> DEFINE D == {i \in DOMAIN queue : queue[i].sock # sock}
<1>1. D \in SUBSET (DOMAIN queue)
  OBVIOUS
<1>2. DOMAIN queue \ D = {j \in DOMAIN queue : queue[j].sock = sock}
  OBVIOUS
<1> HIDE DEF D
<1>3. Apart(Without(Partial, sock), Keep(queue, D), deal,
            heap \ ({Partial[s] : s \in DOMAIN Partial \cap {sock}}
                      \cup {queue[i].pMsg : i \in DOMAIN queue \ D}))
  BY <1>1, Dropped
<1> QED BY <1>2, <1>3 DEF NotOf, Queued, D

\* The function Despatch finds, with what AsMap says of the table of functions.
LEMMA FunctionFound ==
  ASSUME WellFormed(m_funMap, Type, Fun), NEW r \in Request
  PROVE  LET fun == Find(m_funMap, r.type, NULL)
             funs == AsMap(m_funMap, Type, NULL)
         IN  /\ r.type \in Type
             /\ fun # NULL => fun \in Fun /\ r.type \in DOMAIN funs /\ funs[r.type] = fun
             /\ fun = NULL => r.type \notin DOMAIN funs
<1>1. r.type \in Type /\ r.type \in Nat
  BY RequestType DEF Type
<1>2. /\ Has(m_funMap, r.type) => Find(m_funMap, r.type, NULL) \in Fun
      /\ ~ Has(m_funMap, r.type) => Find(m_funMap, r.type, NULL) = NULL
  BY <1>1, Keyed, Looked
<1>3. NULL \notin Fun
  BY ConstantsAssumption
<1>4. /\ r.type \in DOMAIN AsMap(m_funMap, Type, NULL) <=> Has(m_funMap, r.type)
      /\ Has(m_funMap, r.type)
           => AsMap(m_funMap, Type, NULL)[r.type] = Find(m_funMap, r.type, NULL)
  BY <1>1 DEF AsMap, Keys
<1> QED BY <1>1, <1>2, <1>3, <1>4

LEMMA DespatchStep ==
  ASSUME TypeOK, Despatch
  PROVE  /\ deal \in Entry /\ deal # NULL /\ deal.request \in Request
         /\ LET type == deal.request.type
                fun == Find(m_funMap, type, NULL)
            IN  /\ called' = IF fun = NULL THEN {} ELSE {<<type, fun>>}
                /\ read' = IF fun = "PTL_Test" THEN PTL_Test(deal.request) ELSE NULL
<1>1. deal \in Entry /\ deal # NULL
  BY DEF Despatch, TypeOK
<1>2. deal.request \in Request
  BY <1>1, EntryParts
<1>3. GetType(Body(deal.request)) = deal.request.type
  BY <1>2, BodyIs
<1> QED BY <1>1, <1>2, <1>3 DEF Despatch

LEMMA IInvNext ==
  ASSUME IInv, [Next]_vars
  PROVE  IInv'
<1>0. /\ TypeOK /\ ReadIs /\ Apart(Partial, queue, deal, heap)
      /\ WellFormed(m_recvMsgList, Sock, Obj) /\ WellFormed(m_funMap, Type, Fun)
      /\ queue \in Seq(Entry) /\ deal \in Entry \cup {NULL} /\ heap \subseteq Obj
      /\ called \in SUBSET (Type \X Fun)
  BY OwnersApart DEF IInv, TypeOK
<1>1. Tables'
  <2>1. Tables
    BY <1>0 DEF TypeOK, Tables
  <2> QED BY <2>1, TablesNext
\* What is left to show of a step.
<1>2. ASSUME queue' \in Seq(Entry), deal' \in Entry \cup {NULL}, heap' \subseteq Obj,
             called' \in SUBSET (Type \X Fun), ReadIs', Apart(Partial, queue, deal, heap)'
      PROVE  IInv'
  <2>1. TypeOK'
    BY <1>1, <1>2 DEF TypeOK, Tables
  <2> QED BY <1>2, <2>1, OwnersApartNext DEF IInv
<1>3. ASSUME UNCHANGED read PROVE ReadIs'
  BY <1>0, <1>3 DEF ReadIs
<1>4. CASE AddCommand
  <2>1. UNCHANGED <<m_recvMsgList, queue, deal, heap, called, read>>
    BY <1>4 DEF AddCommand
  <2>2. Partial' = Partial
    BY <2>1 DEF Partial
  <2>3. Apart(Partial, queue, deal, heap)'
    BY <1>0, <2>1, <2>2 DEF Apart
  <2> QED BY <1>0, <1>2, <1>3, <2>1, <2>3
<1>5. ASSUME NEW sock \in Sock, OnRecvPart(sock) PROVE IInv'
  <2>1. UNCHANGED <<queue, deal, called, read>>
    BY <1>5 DEF OnRecvPart
  <2>2. PICK o \in Obj \ heap :
          heap' = heap \cup {o} /\ Partial' = With(Partial, sock, o)
    BY <1>0, <1>5, PartStep
  <2>3. sock \notin DOMAIN Partial
    BY <1>0, <1>5, PartStep
  <2>4. Apart(With(Partial, sock, o), queue, deal, heap \cup {o})
    BY <1>0, <2>3, NewPartial
  <2>5. Apart(Partial, queue, deal, heap)'
    BY <2>1, <2>2, <2>4
  <2>6. heap' \subseteq Obj
    BY <1>0, <2>2
  <2> QED BY <1>0, <1>2, <1>3, <2>1, <2>5, <2>6
<1>6. ASSUME NEW sock \in Sock, OnRecvClosed(sock) PROVE IInv'
  <2>1. UNCHANGED <<deal, called, read>>
    BY <1>6 DEF OnRecvClosed
  <2>2. /\ Partial' = Without(Partial, sock)
        /\ queue' = NotOf(sock)
        /\ heap' = heap \ ({Partial[s] : s \in DOMAIN Partial \cap {sock}} \cup Queued(sock))
    BY <1>0, <1>6, ClosedStep
  <2>3. Apart(Partial, queue, deal, heap)'
    BY <1>0, <2>1, <2>2, DroppedOf
  <2>4. queue' \in Seq(Entry) /\ heap' \subseteq Obj
    BY <1>0, <2>2, KeptEntries
  <2> QED BY <1>0, <1>2, <1>3, <2>1, <2>3, <2>4
<1>7. ASSUME NEW sock \in Sock, NEW request \in Request, OnRecvDone(sock, request)
      PROVE  IInv'
  <2>1. UNCHANGED <<deal, called, read>>
    BY <1>7 DEF OnRecvDone
  <2>2. sock \in DOMAIN Partial /\ Partial[sock] \in Obj
    BY <1>0, <1>7, DoneStep, PartialIs
  <2>3. ASSUME Partial' = Without(Partial, sock), queue' = NotOf(sock),
               heap' = heap \ ({Partial[sock]} \cup Queued(sock))
        PROVE  IInv'
    <3>1. {Partial[s] : s \in DOMAIN Partial \cap {sock}} = {Partial[sock]}
      <4>1. DOMAIN Partial \cap {sock} = {sock}
        BY <2>2
      <4> QED BY <4>1
    <3>2. Apart(Without(Partial, sock), NotOf(sock), deal,
                heap \ ({Partial[sock]} \cup Queued(sock)))
      BY <1>0, <3>1, DroppedOf
    <3>3. Apart(Partial, queue, deal, heap)'
      BY <2>1, <2>3, <3>2
    <3>4. queue' \in Seq(Entry) /\ heap' \subseteq Obj
      BY <1>0, <2>3, KeptEntries
    <3> QED BY <1>0, <1>2, <1>3, <2>1, <3>3, <3>4
  <2>4. ASSUME NEW o \in Obj \ heap,
               Partial' = With(Partial, sock, o),
               queue' = Append(queue, [sock |-> sock, pMsg |-> Partial[sock],
                                       request |-> request]),
               heap' = heap \cup {o}
        PROVE  IInv'
    <3> DEFINE e == [sock |-> sock, pMsg |-> Partial[sock], request |-> request]
    <3>1. e \in Entry /\ e.pMsg = Partial[sock]
      BY <2>2 DEF Entry
    <3>2. queue' = Append(queue, e)
      BY <2>4
    <3> HIDE DEF e
    <3>3. /\ DOMAIN With(Partial, sock, o) = DOMAIN Partial
          /\ With(Partial, sock, o)[sock] = o
          /\ \A x \in DOMAIN Partial \ {sock} : With(Partial, sock, o)[x] = Partial[x]
      BY <2>2 DEF With
    <3>4. Apart(With(Partial, sock, o), Append(queue, e), deal, heap \cup {o})
      BY <1>0, <2>2, <3>1, <3>3, ToList
    <3>5. Apart(Partial, queue, deal, heap)'
      BY <2>1, <2>4, <3>2, <3>4
    <3>6. queue' \in Seq(Entry) /\ heap' \subseteq Obj
      BY <1>0, <2>4, <3>1, <3>2
    <3> QED BY <1>0, <1>2, <1>3, <2>1, <3>5, <3>6
  <2> QED BY <1>0, <1>7, <2>3, <2>4, DoneStep
<1>8. CASE GetPackage
  <2>1. /\ UNCHANGED <<m_recvMsgList, heap, called, read>>
        /\ deal = NULL /\ queue # <<>> /\ deal' = Head(queue) /\ queue' = Tail(queue)
    BY <1>8 DEF GetPackage
  <2>2. Partial' = Partial
    BY <2>1 DEF Partial
  <2>3. NULL \notin Entry
    BY ConstantsAssumption
  <2>4. Apart(Partial, Tail(queue), Head(queue), heap)
    BY <1>0, <2>1, <2>3, Taken
  <2>5. Apart(Partial, queue, deal, heap)'
    BY <2>1, <2>2, <2>4
  <2>6. queue' \in Seq(Entry) /\ deal' \in Entry
    BY <1>0, <2>1
  <2> QED BY <1>0, <1>2, <1>3, <2>1, <2>5, <2>6
<1>9. CASE Despatch
  <2>1. /\ UNCHANGED <<m_recvMsgList, queue>> /\ heap' = heap \ {deal.pMsg} /\ deal' = NULL
    BY <1>9 DEF Despatch
  <2>2. /\ deal # NULL /\ deal.request \in Request
        /\ LET type == deal.request.type
               fun == Find(m_funMap, type, NULL)
           IN  /\ called' = IF fun = NULL THEN {} ELSE {<<type, fun>>}
               /\ read' = IF fun = "PTL_Test" THEN PTL_Test(deal.request) ELSE NULL
    BY <1>0, <1>9, DespatchStep
  <2>3. /\ deal.request.type \in Type
        /\ Find(m_funMap, deal.request.type, NULL) # NULL
             => Find(m_funMap, deal.request.type, NULL) \in Fun
    BY <1>0, <2>2, FunctionFound
  <2>4. called' \in SUBSET (Type \X Fun)
    BY <2>2, <2>3
  <2>5. ReadIs'
    BY <2>2 DEF ReadIs
  <2>6. Partial' = Partial
    BY <2>1 DEF Partial
  <2>7. Apart(Partial, queue, NULL, heap \ {deal.pMsg})
    BY <1>0, <2>2, DeletedOne
  <2>8. Apart(Partial, queue, deal, heap)'
    BY <2>1, <2>6, <2>7
  <2>9. heap' \subseteq Obj
    BY <1>0, <2>1
  <2> QED BY <1>0, <1>2, <2>1, <2>4, <2>5, <2>8, <2>9
<1>10. CASE UNCHANGED vars
  <2>1. UNCHANGED <<m_recvMsgList, queue, deal, heap, called, read>>
    BY <1>10 DEF vars
  <2>2. Partial' = Partial
    BY <2>1 DEF Partial
  <2>3. Apart(Partial, queue, deal, heap)'
    BY <1>0, <2>1, <2>2 DEF Apart
  <2> QED BY <1>0, <1>2, <1>3, <2>1, <2>3
<1> QED BY <1>4, <1>5, <1>6, <1>7, <1>8, <1>9, <1>10 DEF Next

(* The inductive invariant, from which the theorems below follow.           *)
THEOREM Invariant == Spec => []IInv
<1>1. IInv /\ [Next]_vars => IInv'
  BY IInvNext
<1> QED BY <1>1, IInvInit, PTL DEF Spec

(* The tables, the list and the message held have their types in every      *)
(* state the threads reach (net_server.cpp:115-170, net_packlist.cpp:27-71, *)
(* net_despatch.cpp:17-44).                                                 *)
THEOREM TypeCorrect == Spec => []TypeOK
<1>1. IInv => TypeOK
  BY DEF IInv
<1> QED BY <1>1, Invariant, PTL

(* Every NetMessage that exists has one owner, whatever the descriptors,    *)
(* the collisions in the table and the order of the two threads: none is    *)
(* leaked, and none is reached from two places, so that the delete of the   *)
(* message thread is never a second one (net_server.cpp:115-170,            *)
(* net_packlist.cpp:27-71, server.cpp:50-53).                               *)
THEOREM EveryMessageHasOneOwner == Spec => []MessageOwnedOnce
<1>1. IInv => MessageOwnedOnce
  BY DEF IInv
<1> QED BY <1>1, Invariant, PTL

(* What PTL_Test reads of a request of any values, cut anywhere: whole, the *)
(* fields of the client; cut, in each number what the client wrote or the   *)
(* value the variable had, and as the string bytes that stand in the        *)
(* message; and it never reads past the message                             *)
(* (net_message.cpp:161-188, net_packdeal.cpp:32-38).                       *)
THEOREM PTL_TestReads == Spec => []FieldsReadAsWritten
<1>1. ASSUME ReadIs PROVE FieldsReadAsWritten
  <2> SUFFICES ASSUME read # NULL
               PROVE  LET f == read.request.fields
                      IN /\ Len(Fields(f)) = HeadLen + read.request.kept => read.fields = f
                         /\ \A x \in {"u8", "u16", "u32", "u64"} :
                              read.fields[x] \in {f[x], Zeros[x]}
                         /\ read.pos <= Len(Body(read.request))
                         /\ HeadLen + Len(read.fields.str) <= read.pos
                         /\ \A k \in 1..Len(read.fields.str) :
                              read.fields.str[k] = Body(read.request)[read.pos - Len(read.fields.str) + k]
    BY DEF FieldsReadAsWritten
  <2>1. PICK r \in Request : read = PTL_Test(r)
    BY <1>1 DEF ReadIs
  <2>2. read.request = r
    BY <2>1 DEF PTL_Test
  <2>3. /\ Len(Fields(r.fields)) = HeadLen + r.kept => read.fields = r.fields
        /\ read.fields.u8 \in {r.fields.u8, Zeros.u8}
        /\ read.fields.u16 \in {r.fields.u16, Zeros.u16}
        /\ read.fields.u32 \in {r.fields.u32, Zeros.u32}
        /\ read.fields.u64 \in {r.fields.u64, Zeros.u64}
        /\ read.pos <= Len(Body(r))
        /\ HeadLen + Len(read.fields.str) <= read.pos
        /\ \A k \in 1..Len(read.fields.str) :
             read.fields.str[k] = Body(r)[read.pos - Len(read.fields.str) + k]
    BY <2>1, TestReads
  <2>4. \A x \in {"u8", "u16", "u32", "u64"} : read.fields[x] \in {r.fields[x], Zeros[x]}
    BY <2>3
  <2> QED BY <2>2, <2>3, <2>4
<1>2. IInv => FieldsReadAsWritten
  BY <1>1 DEF IInv
<1> QED BY <1>2, Invariant, PTL

-----------------------------------------------------------------------------
(* Refinement.                                                             *)

\* The abstract variables funs and partial.
Funs == AsMap(m_funMap, Type, NULL)

LEMMA RouterInit == Init => Router!Init
<1> SUFFICES ASSUME Init PROVE Router!Init
  OBVIOUS
<1>1. ASSUME NEW Id \in SUBSET Nat
      PROVE  AsMap(EmptyTable, Id, NULL) = [x \in {} |-> x]
  <2>1. \A s \in Id : Hash(s) \in Bucket
    BY HashType
  <2>2. \A s \in Id : EmptyTable[Hash(s)] = <<>>
    BY <2>1 DEF EmptyTable
  <2>3. \A s \in Id : ~ Has(EmptyTable, s)
    BY <2>2 DEF Has, Positions
  <2>4. Keys(EmptyTable, Id) = {}
    BY <2>3 DEF Keys
  <2> QED BY <2>4 DEF AsMap
<1>2. Funs = [x \in {} |-> x] /\ Partial = [x \in {} |-> x]
  BY <1>1, Keyed DEF Init, Funs, Partial
<1> QED BY <1>2 DEF Router!Init, Funs, Partial, Init

LEMMA Registered ==
  ASSUME WellFormed(m_funMap, Type, Fun), NEW type \in Type, NEW fun \in Fun
  PROVE  AsMap(Insert(m_funMap, type, fun), Type, NULL)
           = IF type \in DOMAIN Funs THEN Funs ELSE With(Funs, type, fun)
<1> DEFINE map == AsMap(m_funMap, Type, NULL)
<1>1. AsMap(Insert(m_funMap, type, fun), Type, NULL)
        = IF type \in DOMAIN map THEN map ELSE With(map, type, fun)
  BY Keyed, InsertIsMapInsert
<1> QED BY <1>1 DEF Funs

LEMMA RouterStep ==
  ASSUME IInv, [Next]_vars
  PROVE  [Router!Next]_<<Funs, Partial, called>>
<1>0. /\ TypeOK /\ Apart(Partial, queue, deal, heap)
      /\ WellFormed(m_recvMsgList, Sock, Obj) /\ WellFormed(m_funMap, Type, Fun)
      /\ registered \in 0..Len(Commands)
  BY OwnersApart DEF IInv, TypeOK
\* A step of the network thread: a message begins, or one is dropped.
<1>1. ASSUME UNCHANGED <<m_funMap, called>>, NEW sock \in Sock,
             NEW o \in Obj \ heap, Partial' = With(Partial, sock, o)
      PROVE  Router!Next
  <2>1. o \notin {Partial[s] : s \in DOMAIN Partial}
    BY <1>0 DEF Apart
  <2>2. Funs' = Funs
    BY <1>1 DEF Funs
  <2>3. Router!Receive(sock, o)
    BY <1>1, <2>1, <2>2 DEF Router!Receive, Funs, Partial, With
  <2> QED BY <2>3 DEF Router!Next
<1>2. ASSUME UNCHANGED <<m_funMap, called>>, NEW sock \in Sock,
             Partial' = Without(Partial, sock)
      PROVE  Router!Next
  <2>1. Funs' = Funs
    BY <1>2 DEF Funs
  <2>2. Router!Drop(sock)
    BY <1>2, <2>1 DEF Router!Drop, Funs, Partial, Without
  <2> QED BY <2>2 DEF Router!Next
<1>3. CASE AddCommand
  <2> DEFINE c == Commands[registered + 1]
  <2>1. /\ registered + 1 \in 1..Len(Commands)
        /\ UNCHANGED <<m_recvMsgList, called>>
        /\ m_funMap' = Insert(m_funMap, c.comType, c.comFun)
    BY <1>0, <1>3, CommandType DEF AddCommand
  <2>2. c.comType \in Type /\ c.comFun \in Fun
    BY <2>1, CommandType
  <2>3. Partial' = Partial
    BY <2>1 DEF Partial
  <2> HIDE DEF c
  <2>4. AsMap(Insert(m_funMap, c.comType, c.comFun), Type, NULL)
          = IF c.comType \in DOMAIN Funs THEN Funs ELSE With(Funs, c.comType, c.comFun)
    BY <1>0, <2>2, Registered
  <2>5. CASE c.comType \in DOMAIN Funs
    <3>1. Funs' = Funs
      BY <2>1, <2>4, <2>5 DEF Funs
    <3> QED BY <2>1, <2>3, <3>1
  <2>6. CASE c.comType \notin DOMAIN Funs
    <3>1. Funs' = With(Funs, c.comType, c.comFun)
      BY <2>1, <2>4, <2>6 DEF Funs
    <3>2. Router!Register(c.comType, c.comFun)
      BY <2>1, <2>3, <2>6, <3>1 DEF Router!Register, Funs, Partial, With
    <3> QED BY <2>2, <3>2 DEF Router!Next
  <2> QED BY <2>5, <2>6
<1>4. ASSUME NEW sock \in Sock, OnRecvPart(sock) PROVE Router!Next
  <2>1. UNCHANGED <<m_funMap, called>>
    BY <1>4 DEF OnRecvPart
  <2>2. \E o \in Obj \ heap : Partial' = With(Partial, sock, o)
    BY <1>0, <1>4, PartStep
  <2> QED BY <1>1, <2>1, <2>2
<1>5. ASSUME NEW sock \in Sock, OnRecvClosed(sock) PROVE Router!Next
  <2>1. UNCHANGED <<m_funMap, called>>
    BY <1>5 DEF OnRecvClosed
  <2>2. Partial' = Without(Partial, sock)
    BY <1>0, <1>5, ClosedStep
  <2> QED BY <1>2, <2>1, <2>2
<1>6. ASSUME NEW sock \in Sock, NEW request \in Request, OnRecvDone(sock, request)
      PROVE  Router!Next
  <2>1. UNCHANGED <<m_funMap, called>>
    BY <1>6 DEF OnRecvDone
  <2>2. \/ Partial' = Without(Partial, sock)
        \/ \E o \in Obj \ heap : Partial' = With(Partial, sock, o)
    BY <1>0, <1>6, DoneStep
  <2> QED BY <1>1, <1>2, <2>1, <2>2
<1>7. CASE GetPackage
  <2>1. UNCHANGED <<m_funMap, m_recvMsgList, called>>
    BY <1>7 DEF GetPackage
  <2> QED BY <2>1 DEF Funs, Partial
<1>8. CASE Despatch
  <2> DEFINE type == deal.request.type
             fun == Find(m_funMap, type, NULL)
  <2>1. UNCHANGED <<m_funMap, m_recvMsgList>>
    BY <1>8 DEF Despatch
  <2>2. deal.request \in Request /\ called' = IF fun = NULL THEN {} ELSE {<<type, fun>>}
    BY <1>0, <1>8, DespatchStep
  <2>3. /\ type \in Type
        /\ fun # NULL => type \in DOMAIN Funs /\ Funs[type] = fun
        /\ fun = NULL => type \notin DOMAIN Funs
    BY <1>0, <2>2, FunctionFound DEF Funs
  <2>4. Funs' = Funs /\ Partial' = Partial
    BY <2>1 DEF Funs, Partial
  <2> HIDE DEF type, fun
  <2>5. called' = {<<type, g>> : g \in {Funs[x] : x \in DOMAIN Funs \cap {type}}}
    <3>1. CASE fun = NULL
      <4>1. DOMAIN Funs \cap {type} = {}
        BY <2>3, <3>1
      <4> QED BY <2>2, <3>1, <4>1
    <3>2. CASE fun # NULL
      <4>1. DOMAIN Funs \cap {type} = {type} /\ Funs[type] = fun
        BY <2>3, <3>2
      <4>2. {Funs[x] : x \in DOMAIN Funs \cap {type}} = {fun}
        BY <4>1
      <4> QED BY <2>2, <3>2, <4>2
    <3> QED BY <3>1, <3>2
  <2>6. Router!Handle(type)
    BY <2>4, <2>5 DEF Router!Handle, Funs, Partial
  <2> QED BY <2>3, <2>6 DEF Router!Next
<1>9. CASE UNCHANGED vars
  BY <1>9 DEF vars, Funs, Partial
<1> QED BY <1>3, <1>4, <1>5, <1>6, <1>7, <1>8, <1>9 DEF Next

(* The server keeps its promise to the clients: however the types and the   *)
(* descriptors fall into buckets, the two hash tables are maps, a type has  *)
(* the first function registered for it, and every message is given to the  *)
(* function of its type (hash_table.h:73-144, net_despatch.cpp:17-44).      *)
THEOREM DispatchImplementsRouter == Spec => ImplementsRouter
<1>1. IInv /\ [Next]_vars => [Router!Next]_<<Funs, Partial, called>>
  BY RouterStep
<1>2. Init => Router!Init
  BY RouterInit
<1> QED BY <1>1, <1>2, Invariant, PTL DEF Spec, ImplementsRouter, Router!Spec, Funs, Partial
=============================================================================
