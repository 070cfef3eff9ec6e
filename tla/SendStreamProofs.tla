-------------------------- MODULE SendStreamProofs ---------------------------
(***************************************************************************)
(* Proofs about SendStream.tla, for a uint16 of any size and replies of    *)
(* any number and length, and whatever errno holds after a partial send:   *)
(* the client's stream is made of the replies in order, each whole unless  *)
(* SendMsg cut it, and a reply that is neither refused nor cut is in it.   *)
(*                                                                         *)
(* Everything is said of Out, what was sent followed by what waits: OnSend *)
(* moves bytes within it, and SendMsg leaves it, adds one whole reply, or  *)
(* adds the first bytes of one and marks it as cut.                        *)
(***************************************************************************)
EXTENDS SendStream, SequenceTheorems, TLAPS

\* Entries fit twice into a uint16, so that Wrap is the remainder.
EntryBound ==
  /\ Len(m_msg) < 2 * Modulus
  /\ m_msg = <<>> => m_sendBegin = 0

\* Every byte of the stream belongs to a reply that was made.
Made(out, s) ==
  \A i \in DOMAIN out : out[i][1] \in DOMAIN s /\ out[i][2] \in 1..s[out[i][1]]

\* MadeOfReplies and KeptArrives of any stream.
After(a, b, s, c) ==
  \/ a[2] < s[a[1]] /\ b = <<a[1], a[2] + 1>>
  \/ (a[2] = s[a[1]] \/ a[1] \in c) /\ NewReply(a, b)

Ended(z, s, c) == z[2] = s[z[1]] \/ z[1] \in c

Whole(out, s, c) ==
  out # <<>> =>
    /\ out[1][2] = 1
    /\ \A i \in 1..Len(out) - 1 : After(out[i], out[i + 1], s, c)
    /\ Ended(out[Len(out)], s, c)

Has(out, s, k) == \E i \in DOMAIN out : out[i] = <<k, s[k]>>

-----------------------------------------------------------------------------
(* Sequences.                                                              *)

\* The n elements behind the first b.
LEMMA Part ==
  ASSUME NEW S, NEW m \in Seq(S), NEW b \in 0..Len(m), NEW n \in 0..Len(m),
         b + n <= Len(m)
  PROVE  /\ SubSeq(m, b + 1, b + n) \in Seq(S)
         /\ Len(SubSeq(m, b + 1, b + n)) = n
         /\ \A i \in 1..n : SubSeq(m, b + 1, b + n)[i] = m[b + i]
<1> DEFINE p == SubSeq(m, b + 1, b + n)
<1>1. Len(m) \in Nat
  BY LenProperties
<1>2. \A i \in b + 1..b + n : m[i] \in S
  <2>1. \A i \in b + 1..b + n : i \in 1..Len(m)
    BY <1>1
  <2> QED BY <2>1, ElementOfSeq
<1>3. /\ p \in Seq(S) /\ Len(p) = IF b + 1 <= b + n THEN (b + n) - (b + 1) + 1 ELSE 0
      /\ \A i \in 1..(b + n) - (b + 1) + 1 : p[i] = m[(b + 1) + i - 1]
  BY <1>1, <1>2, SubSeqProperties
<1> HIDE DEF p
<1>4. (b + n) - (b + 1) + 1 = n /\ \A i \in 1..n : (b + 1) + i - 1 = b + i
  BY <1>1
<1>5. Len(p) = n
  <2>1. CASE b + 1 <= b + n
    BY <1>3, <1>4, <2>1
  <2>2. CASE ~(b + 1 <= b + n)
    <3>1. n = 0
      BY <1>1, <2>2
    <3> QED BY <3>1, <2>2, <1>3
  <2> QED BY <2>1, <2>2
<1>6. \A i \in 1..n : p[i] = m[b + i]
  BY <1>3, <1>4
<1> QED BY <1>3, <1>5, <1>6 DEF p

\* All that is behind the first b.
LEMMA Rest ==
  ASSUME NEW S, NEW m \in Seq(S), NEW b \in 0..Len(m)
  PROVE  /\ SubSeq(m, b + 1, Len(m)) \in Seq(S)
         /\ Len(SubSeq(m, b + 1, Len(m))) = Len(m) - b
         /\ \A i \in 1..(Len(m) - b) : SubSeq(m, b + 1, Len(m))[i] = m[b + i]
<1> DEFINE n == Len(m) - b
<1>1. Len(m) \in Nat
  BY LenProperties
<1>2. n \in 0..Len(m) /\ b + n = Len(m)
  BY <1>1
<1> HIDE DEF n
<1>3. /\ SubSeq(m, b + 1, b + n) \in Seq(S)
      /\ Len(SubSeq(m, b + 1, b + n)) = n
      /\ \A i \in 1..n : SubSeq(m, b + 1, b + n)[i] = m[b + i]
  <2>1. b + n <= Len(m)
    BY <1>1, <1>2
  <2> QED BY <1>2, <2>1, Part
<1> QED BY <1>2, <1>3 DEF n

\* Two parts that meet are one part.
LEMMA Joined ==
  ASSUME NEW S, NEW m \in Seq(S), NEW b \in 0..Len(m), NEW n \in 0..Len(m),
         b + n <= Len(m)
  PROVE  SubSeq(m, b + 1, b + n) \o SubSeq(m, b + n + 1, Len(m))
           = SubSeq(m, b + 1, Len(m))
<1> DEFINE p == SubSeq(m, b + 1, b + n)
           q == SubSeq(m, b + n + 1, Len(m))
           r == SubSeq(m, b + 1, Len(m))
<1>1. Len(m) \in Nat
  BY LenProperties
<1>2. p \in Seq(S) /\ Len(p) = n /\ \A i \in 1..n : p[i] = m[b + i]
  BY Part
<1>3. /\ q \in Seq(S) /\ Len(q) = Len(m) - (b + n)
      /\ \A i \in 1..(Len(m) - (b + n)) : q[i] = m[b + n + i]
  <2>1. b + n \in 0..Len(m)
    BY <1>1
  <2> QED BY <2>1, Rest
<1>4. /\ r \in Seq(S) /\ Len(r) = Len(m) - b
      /\ \A i \in 1..(Len(m) - b) : r[i] = m[b + i]
  BY Rest
<1> HIDE DEF p, q, r
<1>5. /\ p \o q \in Seq(S) /\ Len(p \o q) = Len(p) + Len(q)
      /\ \A i \in 1..Len(p) + Len(q) :
           (p \o q)[i] = IF i <= Len(p) THEN p[i] ELSE q[i - Len(p)]
  BY <1>2, <1>3, ConcatProperties
<1>6. Len(p) + Len(q) = Len(m) - b
  BY <1>1, <1>2, <1>3
<1>7. ASSUME NEW i \in 1..(Len(m) - b) PROVE (p \o q)[i] = r[i]
  <2>1. (p \o q)[i] = IF i <= n THEN p[i] ELSE q[i - n]
    BY <1>2, <1>5, <1>6
  <2>2. CASE i <= n
    <3>1. i \in 1..n
      BY <2>2, <1>1
    <3> QED BY <2>1, <2>2, <3>1, <1>2, <1>4
  <2>3. CASE ~(i <= n)
    <3>1. i - n \in 1..(Len(m) - (b + n)) /\ b + n + (i - n) = b + i
      BY <2>3, <1>1
    <3>2. q[i - n] = m[b + i]
      BY <3>1, <1>3
    <3> QED BY <2>1, <2>3, <3>2, <1>4
  <2> QED BY <2>2, <2>3
<1>8. p \o q = r
  <2>1. Len(p \o q) = Len(r) /\ \A i \in 1..Len(p \o q) : (p \o q)[i] = r[i]
    BY <1>4, <1>5, <1>6, <1>7
  <2> QED BY <2>1, <1>4, <1>5, SeqEqual
<1> QED BY <1>8 DEF p, q, r

\* The whole and the empty part.
LEMMA Ends ==
  ASSUME NEW S, NEW m \in Seq(S)
  PROVE  SubSeq(m, 1, Len(m)) = m /\ SubSeq(m, Len(m) + 1, Len(m)) = <<>>
<1>1. Len(m) \in Nat
  BY LenProperties
<1>2. SubSeq(m, Len(m) + 1, Len(m)) = <<>>
  BY <1>1, SubSeqEmpty
<1>3. SubSeq(m, 1, Len(m)) = m
  <2>1. /\ SubSeq(m, 1, Len(m)) \in Seq(S)
        /\ Len(SubSeq(m, 1, Len(m))) = Len(m)
        /\ \A i \in 1..Len(m) : SubSeq(m, 1, Len(m))[i] = m[i]
    <3>1. \A i \in 1..Len(m) : m[i] \in S
      BY ElementOfSeq
    <3>2. Len(m) - 1 + 1 = Len(m) /\ \A i \in 1..Len(m) : 1 + i - 1 = i
      BY <1>1
    <3>3. 1 <= Len(m) \/ Len(m) = 0
      BY <1>1
    <3> QED BY <1>1, <3>1, <3>2, <3>3, SubSeqProperties
  <2> QED BY <2>1, SeqEqual
<1> QED BY <1>2, <1>3

-----------------------------------------------------------------------------
(* Replies.                                                                *)

\* A reply is a sequence of its bytes.
LEMMA ReplyIsSeq ==
  ASSUME NEW k \in 1..NumMsg, NEW len \in Lens
  PROVE  /\ Reply(k, len) \in Seq(Byte) /\ Len(Reply(k, len)) = len
         /\ len \in Nat /\ 0 < len /\ len < Modulus
         /\ \A o \in 1..len : Reply(k, len)[o] = <<k, o>>
<1>1. len \in uint16 /\ len # 0 /\ Modulus \in Nat
  BY ConstantsAssumption
<1>2. len \in Nat /\ 0 < len /\ len < Modulus
  BY <1>1 DEF uint16
<1>3. \A o \in 1..len : <<k, o>> \in Byte
  <2>1. \A o \in 1..len : o \in 0..Modulus - 1
    BY <1>1, <1>2
  <2> QED BY <2>1 DEF Byte, uint16
<1> QED BY <1>2, <1>3 DEF Reply

\* A stream of replies stays one when it gets no reply ...
LEMMA RefuseReply ==
  ASSUME NEW s \in Seq(Lens), NEW out \in Seq(Byte), NEW len \in Lens, NEW c,
         Made(out, s), Whole(out, s, c)
  PROVE  /\ Made(out, Append(s, len)) /\ Whole(out, Append(s, len), c)
         /\ \A k \in DOMAIN s : Has(out, s, k) => Has(out, Append(s, len), k)
<1> DEFINE t == Append(s, len)
<1>1. \A k \in DOMAIN s : k \in DOMAIN t /\ t[k] = s[k]
  <2>1. /\ Len(s) \in Nat /\ DOMAIN s = 1..Len(s) /\ DOMAIN t = 1..Len(s) + 1
        /\ \A k \in 1..Len(s) : t[k] = s[k]
    BY AppendProperties, LenProperties
  <2> QED BY <2>1
<1> HIDE DEF t
<1>2. Made(out, t)
  BY <1>1 DEF Made
<1>3. \A k \in DOMAIN s : Has(out, s, k) => Has(out, t, k)
  BY <1>1 DEF Has
<1>4. Whole(out, t, c)
  <2> SUFFICES ASSUME out # <<>>
               PROVE  /\ out[1][2] = 1
                      /\ \A i \in 1..Len(out) - 1 : After(out[i], out[i + 1], t, c)
                      /\ Ended(out[Len(out)], t, c)
    BY DEF Whole
  <2>1. /\ out[1][2] = 1
        /\ \A i \in 1..Len(out) - 1 : After(out[i], out[i + 1], s, c)
        /\ Ended(out[Len(out)], s, c)
    BY DEF Whole
  <2>2. Len(out) \in Nat /\ Len(out) # 0 /\ DOMAIN out = 1..Len(out)
    BY LenProperties, EmptySeq
  <2>3. \A i \in 1..Len(out) : t[out[i][1]] = s[out[i][1]]
    BY <1>1, <2>2 DEF Made
  <2>4. Len(out) \in 1..Len(out) /\ \A i \in 1..Len(out) - 1 : i \in 1..Len(out)
    BY <2>2
  <2>5. \A i \in 1..Len(out) - 1 : After(out[i], out[i + 1], t, c)
    BY <2>1, <2>3, <2>4 DEF After
  <2> QED BY <2>1, <2>3, <2>4, <2>5 DEF Ended
<1> QED BY <1>2, <1>3, <1>4 DEF t

\* ... when a reply it may have had none of is cut ...
LEMMA MoreCut ==
  ASSUME NEW s, NEW out, NEW c, NEW d, c \subseteq d, Whole(out, s, c)
  PROVE  Whole(out, s, d)
BY DEF Whole, After, Ended

\* ... and when it gets the first n bytes of one, all of them or of one that is
\* cut there.
LEMMA AddReply ==
  ASSUME NEW s \in Seq(Lens), Len(s) < NumMsg, NEW out \in Seq(Byte),
         NEW len \in Lens, NEW n \in 1..len, NEW c,
         n = len \/ Len(s) + 1 \in c,
         Made(out, s), Whole(out, s, c)
  PROVE  LET k == Len(s) + 1
             t == Append(s, len)
             out2 == out \o SubSeq(Reply(k, len), 1, n)
         IN  /\ Made(out2, t) /\ Whole(out2, t, c) /\ (n = len => Has(out2, t, k))
             /\ \A j \in DOMAIN s : Has(out, s, j) => Has(out2, t, j)
<1> DEFINE k == Len(s) + 1
           t == Append(s, len)
           r == SubSeq(Reply(k, len), 1, n)
           L == Len(out)
           out2 == out \o r
<1>1. /\ Len(s) \in Nat /\ k \in 1..NumMsg /\ DOMAIN s = 1..Len(s)
      /\ DOMAIN t = 1..k /\ t[k] = len /\ \A j \in 1..Len(s) : t[j] = s[j]
  <2>1. Len(s) \in Nat /\ DOMAIN s = 1..Len(s)
    BY LenProperties
  <2>2. k \in 1..NumMsg
    BY <2>1, ConstantsAssumption
  <2>3. DOMAIN t = 1..k /\ t[k] = len /\ \A j \in 1..Len(s) : t[j] = s[j]
    <3>1. /\ t \in Seq(Lens) /\ Len(t) = Len(s) + 1
          /\ \A j \in 1..Len(s) : t[j] = s[j] /\ t[Len(s) + 1] = len
      BY <2>1, AppendProperties
    <3>2. t[Len(s) + 1] = len
      BY AppendProperties
    <3> QED BY <3>1, <3>2, LenProperties
  <2> QED BY <2>1, <2>2, <2>3
<1>2. /\ r \in Seq(Byte) /\ Len(r) = n /\ n \in Nat /\ 0 < n /\ n <= len /\ len \in Nat
      /\ \A o \in 1..n : r[o] = <<k, o>>
  <2> DEFINE m == Reply(k, len)
  <2>1. /\ m \in Seq(Byte) /\ Len(m) = len /\ len \in Nat
        /\ \A o \in 1..len : m[o] = <<k, o>>
    BY <1>1, ReplyIsSeq
  <2> HIDE DEF m
  <2>2. /\ 0 \in 0..Len(m) /\ n \in 0..Len(m) /\ 0 + n <= Len(m) /\ 0 + n = n /\ 0 + 1 = 1
        /\ n \in Nat /\ 0 < n /\ n <= len /\ \A o \in 1..n : 0 + o = o /\ o \in 1..len
    BY <2>1
  <2>3. /\ SubSeq(m, 0 + 1, 0 + n) \in Seq(Byte) /\ Len(SubSeq(m, 0 + 1, 0 + n)) = n
        /\ \A o \in 1..n : SubSeq(m, 0 + 1, 0 + n)[o] = m[0 + o]
    BY ONLY <2>1, <2>2, Part
  <2>4. r = SubSeq(m, 0 + 1, 0 + n)
    BY <2>2 DEF m
  <2> HIDE DEF r
  <2> QED BY <2>1, <2>2, <2>3, <2>4
<1> HIDE DEF r
<1>3. L \in Nat /\ DOMAIN out = 1..L
  BY LenProperties
<1>4. /\ out2 \in Seq(Byte) /\ Len(out2) = L + n /\ DOMAIN out2 = 1..L + n
      /\ \A i \in 1..L + n : out2[i] = IF i <= L THEN out[i] ELSE r[i - L]
  <2>1. /\ out2 \in Seq(Byte) /\ Len(out2) = L + Len(r)
        /\ \A i \in 1..L + Len(r) : out2[i] = IF i <= L THEN out[i] ELSE r[i - L]
    BY <1>2, ConcatProperties
  <2> HIDE DEF out2
  <2> QED BY <1>2, <2>1, LenProperties
<1> HIDE DEF out2, t
<1>5. \A i \in 1..L : i \in 1..L + n /\ out2[i] = out[i]
  <2>1. \A i \in 1..L : i \in 1..L + n /\ i <= L
    BY <1>2, <1>3
  <2> QED BY <2>1, <1>4
<1>6. \A o \in 1..n : L + o \in 1..L + n /\ out2[L + o] = <<k, o>>
  <2> SUFFICES ASSUME NEW o \in 1..n
               PROVE  L + o \in 1..L + n /\ out2[L + o] = <<k, o>>
    OBVIOUS
  <2>1. L + o \in 1..L + n /\ ~(L + o <= L) /\ (L + o) - L = o
    BY <1>2, <1>3
  <2>2. out2[L + o] = r[o]
    BY <2>1, <1>4
  <2> QED BY <2>1, <2>2, <1>2
<1>7. \A i \in 1..L + n : i \in 1..L \/ (i - L \in 1..n /\ L + (i - L) = i)
  BY <1>2, <1>3
<1>8. \A i \in 1..L : /\ out[i][1] \in 1..Len(s) /\ out[i][1] < k
                      /\ out[i][2] \in 1..s[out[i][1]]
                      /\ t[out[i][1]] = s[out[i][1]]
  <2>1. \A i \in 1..L : out[i][1] \in 1..Len(s) /\ out[i][2] \in 1..s[out[i][1]]
    BY <1>1, <1>3 DEF Made
  <2>2. \A j \in 1..Len(s) : j < k
    BY <1>1
  <2> HIDE DEF k
  <2> QED BY <2>1, <2>2, <1>1
<1>9. n = len \/ k \in c
  OBVIOUS
<1> HIDE DEF k, L
<1>10. Made(out2, t)
  <2> SUFFICES ASSUME NEW i \in 1..L + n
               PROVE  out2[i][1] \in 1..k /\ out2[i][2] \in 1..t[out2[i][1]]
    BY <1>1, <1>4 DEF Made
  <2>1. CASE i \in 1..L
    <3>1. out2[i] = out[i] /\ out[i][1] \in 1..k
      <4>1. \A j \in 1..Len(s) : j \in 1..k
        BY <1>1 DEF k
      <4> QED BY <2>1, <4>1, <1>5, <1>8
    <3> QED BY <2>1, <3>1, <1>8
  <2>2. CASE i - L \in 1..n /\ L + (i - L) = i
    <3>1. out2[i] = <<k, i - L>>
      BY <2>2, <1>6
    <3>2. k \in 1..k /\ i - L \in 1..len
      BY <1>1, <1>2, <2>2
    <3> QED BY <3>1, <3>2, <1>1
  <2> QED BY <2>1, <2>2, <1>7
<1>11. n = len => Has(out2, t, k)
  <2> SUFFICES ASSUME n = len PROVE Has(out2, t, k)
    OBVIOUS
  <2>1. n \in 1..n
    BY <1>2
  <2>2. L + n \in DOMAIN out2 /\ out2[L + n] = <<k, t[k]>>
    BY <2>1, <1>1, <1>4, <1>6
  <2> QED BY <2>2 DEF Has
<1>12. \A j \in DOMAIN s : Has(out, s, j) => Has(out2, t, j)
  <2> SUFFICES ASSUME NEW j \in DOMAIN s, Has(out, s, j)
               PROVE  Has(out2, t, j)
    OBVIOUS
  <2>1. PICK i \in 1..L : out[i] = <<j, s[j]>>
    BY <1>3 DEF Has
  <2>2. i \in DOMAIN out2 /\ out2[i] = <<j, t[j]>>
    BY <2>1, <1>1, <1>4, <1>5
  <2> QED BY <2>2 DEF Has
<1>13. Whole(out2, t, c)
  <2>0. L = 0 <=> out = <<>>
    BY EmptySeq DEF L
  <2>a. L # 0 => L \in 1..L /\ 1 \in 1..L
    BY <1>3
  <2>b. 1 \in 1..n /\ n \in 1..n /\ L + n = Len(out2)
    BY <1>2, <1>4
  <2>1. out2[1][2] = 1
    <3>1. CASE L = 0
      <4>1. L + 1 = 1
        BY <3>1
      <4>2. out2[L + 1] = <<k, 1>>
        BY <2>b, <1>6
      <4> QED BY <4>1, <4>2
    <3>2. CASE L # 0
      BY <3>2, <2>0, <2>a, <1>5 DEF Whole
    <3> QED BY <3>1, <3>2
  <2>2. Ended(out2[Len(out2)], t, c)
    <3>1. out2[L + n] = <<k, n>>
      BY <2>b, <1>6
    <3> QED BY <2>b, <3>1, <1>1, <1>9 DEF Ended
  <2>3. ASSUME NEW i \in 1..Len(out2) - 1 PROVE After(out2[i], out2[i + 1], t, c)
    <3>0. i \in 1..L + n /\ i + 1 \in 1..L + n
      BY <2>b, <1>2, <1>3
    <3>1. CASE i \in 1..L /\ i + 1 \in 1..L
      <4>1. out2[i] = out[i] /\ out2[i + 1] = out[i + 1]
        BY <3>1, <1>5
      <4>2. out # <<>> /\ i \in 1..L - 1
        <5>1. L # 0 /\ i \in 1..L - 1
          BY <3>1, <1>3
        <5> QED BY <5>1, <2>0
      <4>3. After(out[i], out[i + 1], s, c)
        BY <4>2 DEF Whole, L
      <4>4. t[out[i][1]] = s[out[i][1]]
        BY <3>1, <1>8
      <4> QED BY <4>1, <4>3, <4>4 DEF After
    <3>2. CASE i \in 1..L /\ i + 1 \notin 1..L
      <4>1. i = L /\ L # 0
        BY <3>2, <1>3
      <4>2. out2[i] = out[L] /\ out2[i + 1] = <<k, 1>>
        BY <3>2, <4>1, <2>b, <1>5, <1>6
      <4>3. Ended(out[L], s, c) /\ t[out[L][1]] = s[out[L][1]] /\ out[L][1] < k
        BY <4>1, <2>0, <2>a, <1>8 DEF Whole, L
      <4>4. out[L][1] \in Nat
        <5>1. out[L] \in Byte
          BY <4>1, <2>a, <1>3, ElementOfSeq DEF L
        <5>2. Byte \subseteq Nat \X Nat
          BY ConstantsAssumption DEF Byte, uint16
        <5> QED BY <5>1, <5>2
      <4>5. k > out[L][1]
        BY <4>3, <4>4, <1>1
      <4>6. NewReply(out[L], <<k, 1>>)
        BY <4>5 DEF NewReply
      <4> QED BY <4>2, <4>3, <4>6 DEF After, Ended
    <3>3. CASE i \notin 1..L
      <4>1. i - L \in 1..n /\ L + (i - L) = i
        BY <3>0, <3>3, <1>7
      <4>2. i - L + 1 \in 1..n /\ L + (i - L + 1) = i + 1 /\ i - L < len
        BY <3>0, <4>1, <1>2, <1>3
      <4>3. out2[i] = <<k, i - L>> /\ out2[i + 1] = <<k, i - L + 1>>
        BY <4>1, <4>2, <1>6
      <4> QED BY <4>2, <4>3, <1>1 DEF After
    <3> QED BY <3>1, <3>2, <3>3
  <2> QED BY <2>1, <2>2, <2>3 DEF Whole
<1> QED BY <1>10, <1>11, <1>12, <1>13 DEF k, t, r, out2

-----------------------------------------------------------------------------
(* The inductive invariant.                                                *)

Shape == TypeOK /\ EntryBound

Accounted ==
  /\ Made(Out, made)
  /\ Whole(Out, made, cut)
  /\ \A k \in DOMAIN made : k \in refused \cup cut \/ Has(Out, made, k)

IInv == Shape /\ (~wrapped => Accounted)

\* What is sent and what waits are parts of the stream.
LEMMA OutIsSeq ==
  ASSUME Shape, ~wrapped
  PROVE  /\ m_sendBegin \in 0..Len(m_msg) /\ Len(m_msg) \in Nat
         /\ SubSeq(m_msg, m_sendBegin + 1, Len(m_msg)) \in Seq(Byte)
         /\ Out \in Seq(Byte)
<1>1. m_sendBegin \in 0..Len(m_msg) /\ Len(m_msg) \in Nat
  <2>1. m_sendBegin \in Nat /\ m_sendBegin <= Len(m_msg)
    BY ConstantsAssumption DEF Shape, TypeOK, uint16
  <2>2. Len(m_msg) \in Nat
    BY LenProperties DEF Shape, TypeOK
  <2> QED BY <2>1, <2>2
<1>2. SubSeq(m_msg, m_sendBegin + 1, Len(m_msg)) \in Seq(Byte)
  BY <1>1, Rest DEF Shape, TypeOK
<1> QED BY <1>1, <1>2, ConcatProperties DEF Out, Shape, TypeOK

\* Initially nothing was made and nothing sent.
LEMMA IInvInit == Init => IInv
<1> SUFFICES ASSUME Init PROVE IInv
  OBVIOUS
<1>1. /\ made = <<>> /\ refused = {} /\ cut = {} /\ stream = <<>>
      /\ m_msg = <<>> /\ m_sendBegin = 0 /\ wrapped = FALSE
  BY DEF Init
<1>2. Modulus \in Nat /\ 0 < Modulus /\ MaxLen \in Nat /\ MaxLen < Modulus /\ NumMsg \in Nat
  BY ConstantsAssumption DEF uint16
<1>3. Shape
  <2>1. \A S : <<>> \in Seq(S)
    BY EmptySeq
  <2>2. Len(<<>>) = 0
    OBVIOUS
  <2>3. TypeOK
    <3>1. 0 \in 0..Modulus - 1 /\ 0 <= NumMsg
      BY <1>2
    <3>2. made \in Seq(Lens) /\ stream \in Seq(Byte) /\ m_msg \in Seq(Byte)
      BY <1>1, <2>1
    <3>3. Len(made) = 0 /\ Len(m_msg) = 0
      BY <1>1, <2>2
    <3>4. refused \subseteq 1..NumMsg /\ cut \subseteq 1..NumMsg /\ m_sendBegin \in uint16
      BY <1>1, <3>1 DEF uint16
    <3>5. Len(made) <= NumMsg /\ m_sendBegin <= Len(m_msg)
      BY <1>1, <3>1, <3>3
    <3>6. wrapped \in BOOLEAN
      BY <1>1
    <3> QED BY <3>2, <3>4, <3>5, <3>6 DEF TypeOK
  <2>4. EntryBound
    BY <1>1, <1>2, <2>2 DEF EntryBound
  <2> QED BY <2>3, <2>4 DEF Shape
<1>4. Out = <<>>
  <2>1. SubSeq(<<>>, 1, 0) = <<>>
    BY SubSeqEmpty
  <2>2. <<>> \o <<>> = <<>>
    BY ConcatEmptySeq
  <2> QED BY <1>1, <2>1, <2>2 DEF Out
<1>5. Accounted
  <2> DEFINE out == Out
  <2>1. out = <<>> /\ DOMAIN out = {} /\ DOMAIN made = {}
    BY <1>1, <1>4
  <2> HIDE DEF out
  <2>2. Made(out, made) /\ Whole(out, made, cut)
    BY <2>1 DEF Made, Whole
  <2> QED BY <2>1, <2>2 DEF Accounted, out
<1> QED BY <1>3, <1>5 DEF IInv

\* The lengths of a reply that is added behind an entry.
LEMMA Behind ==
  ASSUME Shape, ~wrapped, NEW len \in Lens, NEW k \in 1..NumMsg, ~Full,
         AppendMsg(Reply(k, len)), UNCHANGED stream
  PROVE  /\ m_msg' \in Seq(Byte) /\ m_sendBegin' = 0
         /\ Len(m_msg') < 2 * Modulus /\ Out' = Out \o Reply(k, len)
<1> DEFINE w == SubSeq(m_msg, m_sendBegin + 1, Len(m_msg))
           r == Reply(k, len)
<1>1. /\ m_sendBegin \in 0..Len(m_msg) /\ Len(m_msg) \in Nat
      /\ w \in Seq(Byte) /\ Len(w) = Len(m_msg) - m_sendBegin
  BY OutIsSeq, Rest DEF Shape, TypeOK
<1>2. r \in Seq(Byte) /\ Len(r) = len /\ len \in Nat /\ len < Modulus
  BY ReplyIsSeq
<1>3. m_msg' = w \o r /\ m_sendBegin' = 0
  BY DEF AppendMsg, AppendBegin
<1> HIDE DEF w, r
<1>4. m_msg' \in Seq(Byte) /\ Len(m_msg') = Len(w) + len
  BY <1>1, <1>2, <1>3, ConcatProperties
<1>5. Len(m_msg') < 2 * Modulus
  <2>1. Len(m_msg) < MaxLen /\ MaxLen \in Nat /\ MaxLen < Modulus /\ Modulus \in Nat
    BY <1>1, ConstantsAssumption DEF Full, uint16
  <2>2. Len(w) <= Len(m_msg) /\ Len(w) \in Int
    BY <1>1
  <2> QED BY <1>1, <1>2, <1>4, <2>1, <2>2
<1>6. Out' = stream \o m_msg'
  <2>1. SubSeq(m_msg', 1, Len(m_msg')) = m_msg'
    BY <1>4, Ends
  <2>2. Out' = stream' \o SubSeq(m_msg', m_sendBegin' + 1, Len(m_msg'))
    BY DEF Out
  <2>3. m_sendBegin' + 1 = 1
    BY <1>3
  <2> QED BY <2>1, <2>2, <2>3
<1>7. stream \o (w \o r) = (stream \o w) \o r
  <2>1. stream \in Seq(Byte)
    BY DEF Shape, TypeOK
  <2>2. w \in Seq(Byte) /\ r \in Seq(Byte)
    BY <1>1, <1>2
  <2> QED BY <2>1, <2>2, ConcatAssociative
<1> QED BY <1>3, <1>4, <1>5, <1>6, <1>7 DEF Out, w, r

\* A reply that is sent at once: what the socket did not take becomes an entry,
\* or the reply is cut there.
LEMMA Direct ==
  ASSUME Shape, ~wrapped, NEW len \in Lens, NEW k \in 1..NumMsg, m_msg = <<>>,
         k = Len(made) + 1, SendMsgDirect(len)
  PROVE  /\ m_msg' \in Seq(Byte) /\ m_sendBegin' = 0 /\ stream' \in Seq(Byte)
         /\ Len(m_msg') < 2 * Modulus
         /\ \E n \in 1..len : /\ Out' = Out \o SubSeq(Reply(k, len), 1, n)
                              /\ \/ n = len /\ cut' = cut
                                 \/ cut' = cut \cup {k}
<1> DEFINE r == Reply(k, len)
<1>1. /\ r \in Seq(Byte) /\ Len(r) = len /\ len \in Nat /\ 0 < len /\ len < Modulus
  BY ReplyIsSeq
<1>2. PICK n \in 0..len :
        /\ stream' = stream \o SubSeq(r, 1, n)
        /\ \/ SendDone(r, n) /\ m_msg' = <<>> /\ cut' = cut
           \/ ~SendDone(r, n) /\ m_msg' = Copy(r, n) /\ cut' = cut
           \/ ~SendDone(r, n) /\ n > 0 /\ m_msg' = <<>> /\ cut' = cut \cup {k}
        /\ m_sendBegin' = 0
  BY DEF SendMsgDirect
<1> HIDE DEF r
<1>3. SubSeq(r, 1, n) \in Seq(Byte)
  <2>1. 0 \in 0..Len(r) /\ n \in 0..Len(r) /\ 0 + n <= Len(r) /\ 0 + 1 = 1 /\ 0 + n = n
    BY <1>1
  <2> QED BY <2>1, <1>1, Part
<1>4. Copy(r, n) \in Seq(Byte) /\ Len(Copy(r, n)) = len - n
  BY <1>1, Rest DEF Copy
<1>5. stream' \in Seq(Byte)
  BY <1>2, <1>3, ConcatProperties DEF Shape, TypeOK
<1>6. m_msg' \in Seq(Byte) /\ Len(m_msg') < 2 * Modulus
  <2>1. <<>> \in Seq(Byte) /\ Len(<<>>) = 0 /\ Modulus \in Nat /\ 0 < Modulus
    BY ConstantsAssumption, EmptySeq DEF uint16
  <2>2. len - n < 2 * Modulus /\ 0 < 2 * Modulus
    BY <1>1, <2>1
  <2>3. m_msg' = Copy(r, n) \/ m_msg' = <<>>
    BY <1>2
  <2> QED BY <2>1, <2>2, <2>3, <1>4
<1>7. Out = stream
  <2>1. m_sendBegin = 0
    BY DEF Shape, EntryBound
  <2>2. SubSeq(<<>>, 1, 0) = <<>>
    BY SubSeqEmpty
  <2>3. stream \o <<>> = stream
    BY ConcatEmptySeq DEF Shape, TypeOK
  <2>4. SubSeq(m_msg, m_sendBegin + 1, Len(m_msg)) = <<>>
    BY <2>1, <2>2
  <2> QED BY <2>3, <2>4 DEF Out
<1>8. Out' = stream' \o m_msg'
  <2>1. SubSeq(m_msg', 1, Len(m_msg')) = m_msg'
    BY <1>6, Ends
  <2>2. Out' = stream' \o SubSeq(m_msg', m_sendBegin' + 1, Len(m_msg'))
    BY DEF Out
  <2>3. m_sendBegin' + 1 = 1
    BY <1>2
  <2> QED BY <2>1, <2>2, <2>3
<1>9. r = SubSeq(r, 1, len) /\ len \in 1..len
  BY <1>1, Ends
<1>10. CASE SendDone(r, n) /\ m_msg' = <<>> /\ cut' = cut
  <2>1. n = len
    BY <1>10, <1>1 DEF SendDone
  <2>2. Out' = Out \o SubSeq(r, 1, n)
    <3>1. stream' \o <<>> = stream'
      BY <1>5, ConcatEmptySeq
    <3> QED BY <3>1, <1>2, <1>7, <1>8, <1>10
  <2> QED BY <2>1, <2>2, <1>2, <1>5, <1>6, <1>9, <1>10 DEF r
<1>11. CASE ~SendDone(r, n) /\ m_msg' = Copy(r, n) /\ cut' = cut
  <2>1. SubSeq(r, 1, n) \o Copy(r, n) = r
    <3>1. /\ 0 \in 0..Len(r) /\ n \in 0..Len(r) /\ 0 + n <= Len(r)
          /\ 0 + 1 = 1 /\ 0 + n = n
      BY <1>1
    <3>2. SubSeq(r, 1, n) \o SubSeq(r, n + 1, Len(r)) = SubSeq(r, 1, Len(r))
      BY <3>1, <1>1, Joined
    <3> QED BY <3>2, <1>1, Ends DEF Copy
  <2>2. (stream \o SubSeq(r, 1, n)) \o Copy(r, n) = stream \o r
    <3>1. stream \in Seq(Byte)
      BY DEF Shape, TypeOK
    <3> DEFINE p == SubSeq(r, 1, n)
               q == Copy(r, n)
    <3>2. p \in Seq(Byte) /\ q \in Seq(Byte)
      BY <1>3, <1>4
    <3>3. p \o q = r
      BY <2>1
    <3> HIDE DEF p, q
    <3>4. (stream \o p) \o q = stream \o (p \o q)
      BY <3>1, <3>2, ConcatAssociative
    <3> QED BY <3>3, <3>4 DEF p, q
  <2>3. Out' = Out \o SubSeq(r, 1, len)
    BY <2>2, <1>2, <1>7, <1>8, <1>9, <1>11
  <2> QED BY <2>3, <1>2, <1>5, <1>6, <1>9, <1>11 DEF r
<1>12. CASE n > 0 /\ m_msg' = <<>> /\ cut' = cut \cup {k}
  <2>1. Out' = Out \o SubSeq(r, 1, n)
    <3>1. stream' \o <<>> = stream'
      BY <1>5, ConcatEmptySeq
    <3> QED BY <3>1, <1>2, <1>7, <1>8, <1>12
  <2>2. n \in 1..len
    BY <1>12, <1>1
  <2> QED BY <2>1, <2>2, <1>2, <1>5, <1>6, <1>12 DEF r
<1> QED BY <1>2, <1>10, <1>11, <1>12

\* SendMsg adds a reply to the stream, or its first bytes, or refuses it.
LEMMA SendMsgKeeps ==
  ASSUME NEW len \in Lens, SendMsg(len)
  PROVE  Shape => Shape' /\ (IInv => Accounted')
<1> SUFFICES ASSUME Shape PROVE Shape' /\ (IInv => Accounted')
  OBVIOUS
<1> DEFINE k == Len(made) + 1
<1>1. /\ ~wrapped /\ Len(made) < NumMsg /\ made' = Append(made, len)
      /\ SendMsgBehind(len) \/ SendMsgDirect(len)
      /\ wrapped' = wrapped
  BY DEF SendMsg, SendMsgBehind, SendMsgDirect
<1>2. /\ made \in Seq(Lens) /\ Len(made) \in Nat /\ k \in 1..NumMsg
      /\ made' \in Seq(Lens) /\ Len(made') <= NumMsg
      /\ DOMAIN made' = DOMAIN made \cup {k}
  <2>1. made \in Seq(Lens) /\ Len(made) \in Nat
    BY LenProperties DEF Shape, TypeOK
  <2>2. k \in 1..NumMsg
    BY <2>1, <1>1, ConstantsAssumption
  <2>3. made' \in Seq(Lens) /\ Len(made') = k
    BY <2>1, <1>1, AppendProperties
  <2>4. DOMAIN made = 1..Len(made) /\ DOMAIN made' = 1..k
    BY <2>1, <2>3, LenProperties
  <2>5. 1..k = 1..Len(made) \cup {k}
    BY <2>1
  <2> QED BY <2>1, <2>2, <2>3, <2>4, <2>5
<1>3. Modulus \in Nat /\ 0 < Modulus /\ 0 \in uint16
  BY ConstantsAssumption DEF uint16
<1>4. ASSUME IInv PROVE Out \in Seq(Byte) /\ Accounted
  BY <1>1, <1>4, OutIsSeq DEF IInv
<1>5. ASSUME IInv, NEW n \in 1..len, Out' = Out \o SubSeq(Reply(k, len), 1, n),
             (n = len /\ cut' = cut) \/ cut' = cut \cup {k}, refused' = refused
      PROVE  Accounted'
  <2> DEFINE out2 == Out \o SubSeq(Reply(k, len), 1, n)
             t == Append(made, len)
             c == cut'
  <2>0. cut \subseteq c /\ (n = len \/ k \in c)
    BY <1>5
  <2>1. Made(Out, made) /\ Whole(Out, made, c)
    BY <1>4, <1>5, <2>0, MoreCut DEF Accounted
  <2> HIDE DEF c
  <2>2. /\ Made(out2, t) /\ Whole(out2, t, c) /\ (n = len => Has(out2, t, k))
        /\ \A j \in DOMAIN made : Has(Out, made, j) => Has(out2, t, j)
    BY <1>1, <1>2, <1>4, <1>5, <2>0, <2>1, AddReply
  <2>3. \A j \in DOMAIN made : j \in refused \cup cut \/ Has(Out, made, j)
    BY <1>4, <1>5 DEF Accounted
  <2> HIDE DEF out2, t, k
  <2>4. \A j \in DOMAIN made' : j \in refused \cup c \/ Has(out2, t, j)
    BY <2>0, <2>2, <2>3, <1>2
  <2>5. Out' = out2 /\ made' = t /\ refused' = refused /\ cut' = c
    BY <1>1, <1>5 DEF out2, t, c
  <2> QED BY <2>2, <2>4, <2>5 DEF Accounted
<1>6. CASE SendMsgBehind(len) /\ ~Full
  <2>1. /\ AppendMsg(Reply(k, len)) /\ refused' = refused /\ stream' = stream
        /\ cut' = cut
    BY <1>6 DEF SendMsgBehind
  <2>2. /\ m_msg' \in Seq(Byte) /\ m_sendBegin' = 0
        /\ Len(m_msg') < 2 * Modulus /\ Out' = Out \o Reply(k, len)
    BY <2>1, <1>1, <1>2, <1>6, Behind
  <2>3. len \in 1..len /\ SubSeq(Reply(k, len), 1, len) = Reply(k, len)
    BY <1>2, ReplyIsSeq, Ends
  <2>4. IInv => Accounted'
    BY <1>5, <2>1, <2>2, <2>3
  <2> HIDE DEF k
  <2>5. Shape'
    <3>1. Len(m_msg') \in Nat
      BY <2>2, LenProperties
    <3>2. 0 <= Len(m_msg')
      BY <3>1
    <3>3. TypeOK'
      BY <1>1, <1>2, <1>3, <2>1, <2>2, <3>2 DEF TypeOK, Shape
    <3>4. EntryBound'
      BY <2>2 DEF EntryBound
    <3> QED BY <3>3, <3>4 DEF Shape
  <2> QED BY <2>4, <2>5
<1>7. CASE SendMsgBehind(len) /\ Full
  <2>1. /\ refused' = refused \cup {k}
        /\ UNCHANGED <<cut, stream, m_msg, m_sendBegin, wrapped>>
    BY <1>7 DEF SendMsgBehind
  <2> HIDE DEF k
  <2>2. Shape'
    BY <1>2, <2>1 DEF Shape, TypeOK, EntryBound
  <2>3. ASSUME IInv PROVE Accounted'
    <3> DEFINE t == Append(made, len)
               out == Out
    <3>1. /\ Made(out, t) /\ Whole(out, t, cut)
          /\ \A j \in DOMAIN made : Has(out, made, j) => Has(out, t, j)
      BY <1>2, <1>4, <2>3, RefuseReply DEF Accounted
    <3>2. \A j \in DOMAIN made : j \in refused \cup cut \/ Has(out, made, j)
      BY <1>4, <2>3 DEF Accounted
    <3>3. Out' = out /\ made' = t /\ cut' = cut
      BY <1>1, <2>1 DEF Out
    <3> HIDE DEF out, t
    <3>4. \A j \in DOMAIN made' : j \in refused' \cup cut \/ Has(out, t, j)
      BY <3>1, <3>2, <1>2, <2>1
    <3> QED BY <3>1, <3>3, <3>4 DEF Accounted
  <2> QED BY <2>2, <2>3
<1>8. CASE SendMsgDirect(len)
  <2>1. m_msg = <<>> /\ refused' = refused /\ wrapped' = wrapped
    BY <1>8 DEF SendMsgDirect
  <2>2. /\ m_msg' \in Seq(Byte) /\ m_sendBegin' = 0 /\ stream' \in Seq(Byte)
        /\ Len(m_msg') < 2 * Modulus
        /\ \E n \in 1..len : /\ Out' = Out \o SubSeq(Reply(k, len), 1, n)
                             /\ \/ n = len /\ cut' = cut
                                \/ cut' = cut \cup {k}
    BY <2>1, <1>1, <1>2, <1>8, Direct
  <2>3. IInv => Accounted'
    BY <1>5, <2>1, <2>2
  <2> HIDE DEF k
  <2>4. cut' \subseteq 1..NumMsg
    BY <2>2, <1>2 DEF Shape, TypeOK
  <2>5. Shape'
    <3>1. Len(m_msg') \in Nat
      BY <2>2, LenProperties
    <3>2. 0 <= Len(m_msg')
      BY <3>1
    <3>3. TypeOK'
      BY <1>1, <1>2, <1>3, <2>1, <2>2, <2>4, <3>2 DEF TypeOK, Shape
    <3>4. EntryBound'
      BY <2>2 DEF EntryBound
    <3> QED BY <3>3, <3>4 DEF Shape
  <2> QED BY <2>3, <2>5
<1> QED BY <1>1, <1>6, <1>7, <1>8

\* OnSend leaves the stream as it is, unless m_sendBegin wraps.
LEMMA OnSendKeeps ==
  ASSUME NEW n \in 1..Len(m_msg), OnSend(n), Shape
  PROVE  Shape' /\ (~wrapped' => Out' = Out)
<1> DEFINE b == m_sendBegin
           p == SubSeq(m_msg, b + 1, b + n)
           q == SubSeq(m_msg, b + n + 1, Len(m_msg))
<1>1. /\ ~wrapped /\ n <= Len(m_msg) - b /\ stream' = stream \o p
      /\ wrapped' = (b + n >= Modulus) /\ made' = made /\ refused' = refused
      /\ cut' = cut
      /\ \/ /\ SendDone(m_msg, Wrap(b + n)) /\ m_msg' = <<>> /\ m_sendBegin' = 0
         \/ /\ ~SendDone(m_msg, Wrap(b + n))
            /\ m_sendBegin' = Wrap(b + n) /\ m_msg' = m_msg
  BY DEF OnSend
<1>2. /\ m_msg \in Seq(Byte) /\ stream \in Seq(Byte) /\ Len(m_msg) \in Nat
      /\ Len(m_msg) < 2 * Modulus /\ b \in 0..Len(m_msg)
      /\ Modulus \in Nat /\ 0 < Modulus
  BY <1>1, OutIsSeq, ConstantsAssumption DEF Shape, TypeOK, EntryBound, uint16
<1>3. /\ n \in 0..Len(m_msg) /\ b + n <= Len(m_msg) /\ b + n \in 0..Len(m_msg)
  BY <1>1, <1>2
<1>4. p \in Seq(Byte) /\ q \in Seq(Byte) /\ stream' \in Seq(Byte)
  <2>1. p \in Seq(Byte)
    BY <1>2, <1>3, Part
  <2>2. q \in Seq(Byte)
    BY <1>2, <1>3, Rest
  <2> QED BY <1>1, <1>2, <2>1, <2>2, ConcatProperties
<1>5. p \o q = SubSeq(m_msg, b + 1, Len(m_msg))
  BY <1>2, <1>3, Joined
<1>6. /\ Wrap(b + n) \in uint16
      /\ ~(b + n >= Modulus) => Wrap(b + n) = b + n
  BY <1>2, <1>3 DEF Wrap, uint16
<1> HIDE DEF p
<1>7. Shape'
  <2>1. m_msg' \in Seq(Byte) /\ m_sendBegin' \in uint16 /\ Len(m_msg') < 2 * Modulus
    <3>1. <<>> \in Seq(Byte) /\ Len(<<>>) = 0 /\ 0 \in uint16 /\ 0 < 2 * Modulus
      BY <1>2, EmptySeq DEF uint16
    <3> QED BY <3>1, <1>1, <1>2, <1>6
  <2>2. ~wrapped' => m_sendBegin' <= Len(m_msg')
    <3> SUFFICES ASSUME ~wrapped' PROVE m_sendBegin' <= Len(m_msg')
      OBVIOUS
    <3>1. Wrap(b + n) = b + n
      BY <1>1, <1>6
    <3>2. CASE m_msg' = <<>> /\ m_sendBegin' = 0
      <4>1. Len(<<>>) = 0 /\ 0 <= 0
        OBVIOUS
      <4> QED BY <4>1, <3>2
    <3>3. CASE m_sendBegin' = b + n /\ m_msg' = m_msg
      BY <3>3, <1>3
    <3> QED BY <1>1, <3>1, <3>2, <3>3
  <2>3. wrapped' \in BOOLEAN
    BY <1>1
  <2>4. m_msg' = <<>> => m_sendBegin' = 0
    <3>1. m_msg # <<>>
      BY DEF OnSend
    <3> QED BY <3>1, <1>1
  <2> QED BY <1>1, <1>4, <2>1, <2>2, <2>3, <2>4 DEF Shape, TypeOK, EntryBound
<1>8. ASSUME ~wrapped' PROVE Out' = Out
  <2>1. Wrap(b + n) = b + n
    BY <1>1, <1>6, <1>8
  <2>2. SubSeq(m_msg', m_sendBegin' + 1, Len(m_msg')) = q
    <3>1. CASE SendDone(m_msg, b + n)
      <4>1. b + n = Len(m_msg)
        BY <3>1, <1>2, <1>3 DEF SendDone
      <4>2. q = <<>>
        BY <4>1, <1>2, Ends
      <4>3. m_msg' = <<>> /\ m_sendBegin' = 0
        BY <3>1, <1>1, <2>1
      <4>4. SubSeq(<<>>, 0 + 1, Len(<<>>)) = <<>>
        BY SubSeqEmpty
      <4> QED BY <4>2, <4>3, <4>4
    <3>2. CASE ~SendDone(m_msg, b + n)
      BY <3>2, <1>1, <2>1
    <3> QED BY <3>1, <3>2
  <2> HIDE DEF q
  <2>3. stream \in Seq(Byte) /\ p \in Seq(Byte) /\ q \in Seq(Byte)
    BY <1>2, <1>4 DEF q
  <2>4. (stream \o p) \o q = stream \o (p \o q)
    BY <2>3, ConcatAssociative
  <2>5. p \o q = SubSeq(m_msg, b + 1, Len(m_msg))
    BY <1>5 DEF q
  <2>6. Out' = stream' \o SubSeq(m_msg', m_sendBegin' + 1, Len(m_msg'))
    BY DEF Out
  <2> QED BY <1>1, <2>2, <2>4, <2>5, <2>6 DEF Out
<1> QED BY <1>7, <1>8

\* The invariants.
LEMMA ShapeNext == Shape /\ [Next]_vars => Shape'
<1> SUFFICES ASSUME Shape, [Next]_vars PROVE Shape'
  OBVIOUS
<1>1. ASSUME NEW len \in Lens, SendMsg(len) PROVE Shape'
  BY <1>1, SendMsgKeeps
<1>2. ASSUME NEW n \in 1..Len(m_msg), OnSend(n) PROVE Shape'
  BY <1>2, OnSendKeeps
<1>3. CASE UNCHANGED vars
  BY <1>3 DEF vars, Shape, TypeOK, EntryBound
<1> QED BY <1>1, <1>2, <1>3 DEF Next

LEMMA IInvNext == IInv /\ [Next]_vars => IInv'
<1> SUFFICES ASSUME IInv, [Next]_vars PROVE IInv'
  OBVIOUS
<1>1. Shape /\ Shape'
  BY ShapeNext DEF IInv
<1>2. ASSUME NEW len \in Lens, SendMsg(len) PROVE Accounted'
  BY <1>1, <1>2, SendMsgKeeps
<1>3. ASSUME NEW n \in 1..Len(m_msg), OnSend(n), ~wrapped' PROVE Accounted'
  <2>1. Out' = Out
    BY <1>1, <1>3, OnSendKeeps
  <2>2. Accounted /\ made' = made /\ refused' = refused /\ cut' = cut
    BY <1>3 DEF OnSend, IInv
  <2> QED BY <2>1, <2>2 DEF Accounted
<1>4. ASSUME UNCHANGED vars, ~wrapped' PROVE Accounted'
  <2>1. Accounted /\ Out' = Out /\ made' = made /\ refused' = refused /\ cut' = cut
    BY <1>4 DEF vars, IInv, Out
  <2> QED BY <2>1 DEF Accounted
<1> QED BY <1>1, <1>2, <1>3, <1>4 DEF Next, IInv

-----------------------------------------------------------------------------
(* The theorems.                                                           *)

\* Buffers, positions and the stream keep their shape: m_sendBegin never passes
\* the end of its buffer.
THEOREM TypeCorrect == Spec => []TypeOK
<1>1. Init => Shape
  BY IInvInit DEF IInv
<1>2. Shape /\ [Next]_vars => Shape'
  BY ShapeNext
<1>3. Shape => TypeOK
  BY DEF Shape
<1> QED BY <1>1, <1>2, <1>3, PTL DEF Spec

LEMMA Invariance == Spec => []IInv
<1>1. Init => IInv
  BY IInvInit
<1>2. IInv /\ [Next]_vars => IInv'
  BY IInvNext
<1> QED BY <1>1, <1>2, PTL DEF Spec

\* However SendMsg and OnSend alternate, whatever part the socket takes and
\* whatever errno holds, the client's stream is made of the replies in order,
\* and only a reply that SendMsg itself cut ends early.
THEOREM RepliesStayInOrder == Spec => []RepliesInOrder
<1>1. IInv => RepliesInOrder
  BY DEF IInv, Accounted, Whole, After, Ended, RepliesInOrder, MadeOfReplies, Follows
<1>2. Spec => []IInv
  BY Invariance
<1> QED BY <1>1, <1>2, PTL

\* Every reply is in the client's stream to its last byte, or was refused by
\* Append or cut by SendMsg.
THEOREM KeptRepliesArrive == Spec => []KeptArrives
<1>1. IInv => KeptArrives
  BY DEF IInv, Accounted, Has, KeptArrives
<1>2. Spec => []IInv
  BY Invariance
<1> QED BY <1>1, <1>2, PTL
=============================================================================
