----------------------------- MODULE HashTable -----------------------------
(***************************************************************************)
(* CHashTable (hash_table.h): an array of chains, as operators on tables.  *)
(* A table is a function from bucket numbers to chains, a chain a sequence *)
(* of nodes [id, val] with the node that the array points to first.        *)
(***************************************************************************)
EXTENDS Integers, Sequences, SequencesExt

CONSTANT m_buckets  \* the size of the array; m_modMask is one less

ASSUME BucketsAssumption == m_buckets \in Nat \ {0}

(* The constructor's size for the number of buckets it is asked for: the    *)
(* first i below 20 with 2^i <= n <= 2^(i+1), or 20.                        *)
Rounded(n) ==
  LET Fits(i) == 2^i <= n /\ n <= 2^(i + 1)
      i == CHOOSE j \in 0..20 : /\ j = 20 \/ Fits(j)
                                /\ \A k \in 0..(j - 1) : ~ Fits(k)
  IN 2^(i + 1)

Bucket == 0 .. m_buckets - 1
Node(Id, Val) == [id : Id, val : Val]

EmptyTable == [b \in Bucket |-> <<>>]

\* index & m_modMask, for a mask of ones
Hash(index) == index % m_buckets

Positions(t, index) == {k \in DOMAIN t[Hash(index)] : t[Hash(index)][k].id = index}

Has(t, index) == Positions(t, index) # {}

\* the node the loops of Find, Insert and Erase stop at
First(t, index) ==
  CHOOSE k \in Positions(t, index) : \A j \in Positions(t, index) : k <= j

\* the value Find and Erase give their caller; without a node they leave it as it is
Find(t, index, val) ==
  IF Has(t, index) THEN t[Hash(index)][First(t, index)].val ELSE val

(* Insert does nothing when the table has the key *)
Insert_Always(t, index, val) ==
  [t EXCEPT ![Hash(index)] = <<[id |-> index, val |-> val]>> \o @]
Insert(t, index, val) ==
  IF Has(t, index) THEN t
  ELSE [t EXCEPT ![Hash(index)] = <<[id |-> index, val |-> val]>> \o @]

(* Erase links the node's successor in its place *)
Erase_CutsChain(t, index) ==
  IF ~ Has(t, index) THEN t
  ELSE [t EXCEPT ![Hash(index)] = SubSeq(@, 1, First(t, index) - 1)]
Erase(t, index) ==
  IF ~ Has(t, index) THEN t
  ELSE [t EXCEPT ![Hash(index)] = RemoveAt(@, First(t, index))]

(* A table as the map it stands for.                                        *)
Keys(t, Id) == {index \in Id : Has(t, index)}
AsMap(t, Id, none) == [index \in Keys(t, Id) |-> Find(t, index, none)]

(* What the operations keep: a node is in the bucket of its id, and a chain *)
(* has no id twice.                                                         *)
WellFormed(t, Id, Val) ==
  /\ t \in [Bucket -> Seq(Node(Id, Val))]
  /\ \A b \in Bucket : \A j \in DOMAIN t[b] :
       /\ Hash(t[b][j].id) = b
       /\ \A k \in DOMAIN t[b] : t[b][j].id = t[b][k].id => j = k
=============================================================================
