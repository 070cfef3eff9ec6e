-------------------------- MODULE RecvFramingProofs --------------------------
(***************************************************************************)
(* Proofs about RecvFraming.tla, for a uint16 of any size and messages of  *)
(* any number and length, provided that none is longer than the maximum    *)
(* (FieldsFit): the buffer is never overrun, no connection is closed       *)
(* without a cause, and receiving implements Framing.tla.                  *)
(*                                                                         *)
(* Byte order in the stream is stated in a closed form (Contiguous), which *)
(* needs no induction over the stream: any two of its bytes that are as    *)
(* far apart as their message is long belong to the same message.          *)
(***************************************************************************)
EXTENDS RecvFraming, SequenceTheorems, TLAPS

\* The length of the k-th message.
Total(s, k) == HeadLen + s[k]

\* Behind a byte come the rest of its message and the next message's first.
Contiguous(w, s) ==
  \A i, j \in DOMAIN w :
    i <= j =>
      LET k == w[i][1]
          o == w[i][2]
      IN  /\ o + (j - i) <= Total(s, k) => w[j] = <<k, o + (j - i)>>
          /\ o + (j - i) = Total(s, k) + 1 => w[j] = <<k + 1, 1>>

\* Every byte of the stream is one that the client wrote.
Written(w, s) ==
  \A i \in DOMAIN w : w[i][1] \in DOMAIN s /\ w[i][2] \in 1..Total(s, w[i][1])

-----------------------------------------------------------------------------
(* The stream: writing a message to it, cutting it, reading from it.       *)

\* A message is a sequence of its bytes.
LEMMA MessageIsSeq ==
  ASSUME NEW k \in 1..NumMsg, NEW f \in uint16
  PROVE  /\ Promise!Message(k, f) \in Seq(Byte)
         /\ Len(Promise!Message(k, f)) = HeadLen + f
         /\ \A o \in 1..(HeadLen + f) : Promise!Message(k, f)[o] = <<k, o>>
<1>1. HeadLen + f \in Nat /\ HeadLen + f <= HeadLen + Modulus
  BY ConstantsAssumption DEF uint16
<1>2. \A o \in 1..(HeadLen + f) : <<k, o>> \in Byte
  BY <1>1, ConstantsAssumption DEF Byte
<1> QED BY <1>1, <1>2 DEF Promise!Message

\* The lengths are those of uint16 fields.
LEMMA TotalIsNat ==
  ASSUME NEW s \in Seq(Fields), NEW k \in DOMAIN s
  PROVE  s[k] \in uint16 /\ Total(s, k) \in Nat
<1>1. k \in 1..Len(s)
  BY LenProperties
<1>2. s[k] \in Fields
  BY <1>1, ElementOfSeq
<1>3. s[k] \in uint16 /\ HeadLen \in Nat /\ Modulus \in Nat
  BY <1>2, ConstantsAssumption
<1>4. s[k] \in Nat
  BY <1>3 DEF uint16
<1> QED BY <1>3, <1>4 DEF Total

\* Both parts of a stream that is cut in two are in order.
LEMMA CutWire ==
  ASSUME NEW s \in Seq(Fields), NEW w \in Seq(Byte), NEW n \in 0..Len(w),
         Contiguous(w, s), Written(w, s)
  PROVE  /\ SubSeq(w, 1, n) \in Seq(Byte) /\ Len(SubSeq(w, 1, n)) = n
         /\ \A i \in 1..n : SubSeq(w, 1, n)[i] = w[i]
         /\ Contiguous(SubSeq(w, 1, n), s) /\ Written(SubSeq(w, 1, n), s)
         /\ SubSeq(w, n + 1, Len(w)) \in Seq(Byte)
         /\ Len(SubSeq(w, n + 1, Len(w))) = Len(w) - n
         /\ \A i \in 1..(Len(w) - n) : SubSeq(w, n + 1, Len(w))[i] = w[n + i]
         /\ Contiguous(SubSeq(w, n + 1, Len(w)), s)
         /\ Written(SubSeq(w, n + 1, Len(w)), s)
<1> DEFINE a == SubSeq(w, 1, n)
           b == SubSeq(w, n + 1, Len(w))
<1>a. Len(w) \in Nat /\ n \in Nat /\ n <= Len(w)
  BY LenProperties
<1>0. Len(w) \in Nat /\ n \in Nat /\ n <= Len(w) /\ DOMAIN w = 1..Len(w)
      /\ \A i \in 1..Len(w) : w[i] \in Byte
  BY ElementOfSeq, LenProperties
<1>1. a \in Seq(Byte) /\ Len(a) = n /\ \A i \in 1..n : a[i] = w[i]
  BY <1>0, SubSeqProperties
<1>2. b \in Seq(Byte) /\ Len(b) = Len(w) - n
      /\ \A i \in 1..(Len(w) - n) : b[i] = w[n + i]
  <2>1. \A i \in (n + 1)..Len(w) : w[i] \in Byte
    BY <1>0
  <2>2. /\ b \in Seq(Byte)
        /\ Len(b) = IF n + 1 <= Len(w) THEN Len(w) - (n + 1) + 1 ELSE 0
        /\ \A i \in 1..(Len(w) - (n + 1) + 1) : b[i] = w[(n + 1) + i - 1]
    BY <1>0, <2>1, SubSeqProperties
  <2>3. Len(w) - (n + 1) + 1 = Len(w) - n
    BY <1>0
  <2>4. \A i \in 1..(Len(w) - n) : (n + 1) + i - 1 = n + i
    BY <1>0
  <2> HIDE DEF b
  <2>5. Len(b) = Len(w) - n
    <3>1. CASE n + 1 <= Len(w)
      BY <1>0, <2>2, <2>3, <3>1
    <3>2. CASE ~(n + 1 <= Len(w))
      <4>1. Len(b) = 0
        BY <2>2, <3>2
      <4>2. Len(w) - n = 0
        BY <1>a, <3>2
      <4> QED BY <4>1, <4>2
    <3> QED BY <3>1, <3>2
  <2> QED BY <2>2, <2>3, <2>4, <2>5
<1>3. DOMAIN a = 1..n /\ DOMAIN b = 1..(Len(w) - n)
  BY <1>1, <1>2, LenProperties
<1> HIDE DEF a, b
<1>4. Contiguous(a, s) /\ Written(a, s)
  <2>1. \A i \in DOMAIN a : i \in DOMAIN w /\ a[i] = w[i]
    BY <1>0, <1>1, <1>3
  <2> QED BY <2>1 DEF Contiguous, Written
<1>5. Written(b, s)
  <2>1. \A i \in DOMAIN b : n + i \in DOMAIN w /\ b[i] = w[n + i]
    BY <1>0, <1>2, <1>3
  <2> QED BY <2>1 DEF Written
<1>6. Contiguous(b, s)
  <2> SUFFICES ASSUME NEW i \in DOMAIN b, NEW j \in DOMAIN b, i <= j
               PROVE  /\ b[i][2] + (j - i) <= Total(s, b[i][1])
                           => b[j] = <<b[i][1], b[i][2] + (j - i)>>
                      /\ b[i][2] + (j - i) = Total(s, b[i][1]) + 1
                           => b[j] = <<b[i][1] + 1, 1>>
    BY DEF Contiguous
  <2>1. /\ n + i \in DOMAIN w /\ n + j \in DOMAIN w /\ n + i <= n + j
        /\ (n + j) - (n + i) = j - i
        /\ b[i] = w[n + i] /\ b[j] = w[n + j]
    <3>1. i \in 1..(Len(w) - n) /\ j \in 1..(Len(w) - n)
      BY <1>3
    <3>2. b[i] = w[n + i] /\ b[j] = w[n + j]
      BY <1>2, <3>1
    <3> QED BY <1>0, <3>1, <3>2
  <2> QED BY <2>1 DEF Contiguous
<1> QED BY <1>1, <1>2, <1>4, <1>5, <1>6 DEF a, b

\* The first n bytes belong to the message of the first, if it has so many.
LEMMA RunOfMessage ==
  ASSUME NEW s \in Seq(Fields), NEW w \in Seq(Byte), NEW n \in 1..Len(w),
         NEW k \in DOMAIN s, NEW l \in Nat,
         Contiguous(w, s), w[1] = <<k, l + 1>>, l + n <= Total(s, k)
  PROVE  \A i \in 1..n : w[i] = <<k, l + i>>
<1>0. Len(w) \in Nat /\ n \in Int /\ DOMAIN w = 1..Len(w)
  BY LenProperties
<1> SUFFICES ASSUME NEW i \in 1..n PROVE w[i] = <<k, l + i>>
  OBVIOUS
<1>1. 1 \in DOMAIN w /\ i \in DOMAIN w /\ 1 <= i /\ w[1][1] = k /\ w[1][2] = l + 1
  BY <1>0
<1>2. (l + 1) + (i - 1) = l + i
  OBVIOUS
<1>3. Total(s, k) \in Nat
  BY TotalIsNat
<1>4. (l + 1) + (i - 1) <= Total(s, k)
  BY <1>0, <1>3
<1> QED BY <1>1, <1>2, <1>4 DEF Contiguous

\* A stream is still in order with a message written behind its last.
LEMMA WriteWire ==
  ASSUME NEW s \in Seq(Fields), NEW f \in Fields, NEW w \in Seq(Byte),
         Len(s) < NumMsg, Contiguous(w, s), Written(w, s),
         w # <<>> => w[Len(w)] = <<Len(s), Total(s, Len(s))>>
  PROVE  LET m  == Promise!Message(Len(s) + 1, f)
             s2 == Append(s, f)
             w2 == w \o m
         IN  /\ w2 \in Seq(Byte) /\ Len(w2) = Len(w) + HeadLen + f
             /\ \A i \in 1..Len(w) : w2[i] = w[i]
             /\ w2[Len(w) + 1] = <<Len(s) + 1, 1>>
             /\ Contiguous(w2, s2) /\ Written(w2, s2)
             /\ w2[Len(w2)] = <<Len(s2), Total(s2, Len(s2))>>
<1> DEFINE k == Len(s) + 1
           m == Promise!Message(k, f)
           s2 == Append(s, f)
           w2 == w \o m
           l == Len(w)
<1>1. l \in Nat /\ DOMAIN w = 1..l /\ Len(s) \in Nat /\ DOMAIN s = 1..Len(s)
  BY LenProperties
<1>2. k \in 1..NumMsg
  BY <1>1, ConstantsAssumption
<1>3. f \in uint16 /\ f \in Nat /\ HeadLen \in Nat /\ HeadLen >= 2
  BY ConstantsAssumption DEF uint16
<1>4. /\ m \in Seq(Byte) /\ Len(m) = HeadLen + f
      /\ \A o \in 1..(HeadLen + f) : m[o] = <<k, o>>
  BY <1>2, <1>3, MessageIsSeq
<1>5. /\ s2 \in Seq(Fields) /\ Len(s2) = k
      /\ \A i \in 1..Len(s) : s2[i] = s[i]
      /\ s2[k] = f
  BY AppendProperties
<1>6. DOMAIN s2 = 1..k
  BY <1>5, LenProperties
<1> HIDE DEF m, s2
<1>7. /\ w2 \in Seq(Byte) /\ Len(w2) = l + (HeadLen + f)
      /\ \A i \in 1..(l + (HeadLen + f)) : w2[i] = IF i <= l THEN w[i] ELSE m[i - l]
  <2>1. /\ w2 \in Seq(Byte) /\ Len(w2) = l + Len(m)
        /\ \A i \in 1..(l + Len(m)) : w2[i] = IF i <= l THEN w[i] ELSE m[i - l]
    BY <1>4, ConcatProperties
  <2> HIDE DEF w2, l
  <2> QED BY <2>1, <1>4
<1> HIDE DEF w2
<1>8. DOMAIN w2 = 1..(l + (HeadLen + f))
  BY <1>7, LenProperties
<1>9. \A i \in DOMAIN w2 : i <= l => i \in DOMAIN w /\ w2[i] = w[i]
  BY <1>1, <1>3, <1>7, <1>8
<1>10. \A i \in DOMAIN w2 : ~(i <= l) => i - l \in 1..(HeadLen + f) /\ w2[i] = <<k, i - l>>
  <2> SUFFICES ASSUME NEW i \in DOMAIN w2, ~(i <= l)
               PROVE  i - l \in 1..(HeadLen + f) /\ w2[i] = <<k, i - l>>
    OBVIOUS
  <2>1. i - l \in 1..(HeadLen + f)
    BY <1>1, <1>3, <1>8
  <2>2. w2[i] = m[i - l]
    BY <1>7, <1>8
  <2> QED BY <2>1, <2>2, <1>4
<1>11. \A i \in DOMAIN s : Total(s2, i) = Total(s, i)
  BY <1>1, <1>5 DEF Total
<1>12. Total(s2, k) = HeadLen + f /\ k \in DOMAIN s2 /\ \A i \in DOMAIN s : i \in DOMAIN s2
  BY <1>1, <1>5, <1>6 DEF Total
<1>13. Written(w2, s2)
  <2> SUFFICES ASSUME NEW i \in DOMAIN w2
               PROVE  w2[i][1] \in DOMAIN s2 /\ w2[i][2] \in 1..Total(s2, w2[i][1])
    BY DEF Written
  <2>1. CASE i <= l
    BY <2>1, <1>9, <1>11, <1>12 DEF Written
  <2>2. CASE ~(i <= l)
    BY <2>2, <1>10, <1>12
  <2> QED BY <2>1, <2>2
<1>14. Contiguous(w2, s2)
  <2> SUFFICES ASSUME NEW i \in DOMAIN w2, NEW j \in DOMAIN w2, i <= j
               PROVE  /\ w2[i][2] + (j - i) <= Total(s2, w2[i][1])
                           => w2[j] = <<w2[i][1], w2[i][2] + (j - i)>>
                      /\ w2[i][2] + (j - i) = Total(s2, w2[i][1]) + 1
                           => w2[j] = <<w2[i][1] + 1, 1>>
    BY DEF Contiguous
  <2>0. i \in Nat /\ j \in Nat
    BY <1>8
  <2>1. CASE j <= l
    <3>1. i <= l
      BY <2>0, <2>1, <1>1
    <3>2. /\ i \in DOMAIN w /\ j \in DOMAIN w /\ w2[i] = w[i] /\ w2[j] = w[j]
          /\ w[i][1] \in DOMAIN s
      BY <2>1, <3>1, <1>9 DEF Written
    <3>3. Total(s2, w2[i][1]) = Total(s, w[i][1])
      BY <3>2, <1>11
    <3> QED BY <3>2, <3>3 DEF Contiguous
  <2>2. CASE ~(i <= l)
    <3>1. ~(j <= l)
      BY <2>0, <2>2, <1>1
    <3>2. w2[i] = <<k, i - l>> /\ w2[j] = <<k, j - l>> /\ j - l \in 1..(HeadLen + f)
      BY <2>2, <3>1, <1>10
    <3>3. (i - l) + (j - i) = j - l
      BY <2>0, <1>1
    <3>4. ~((i - l) + (j - i) = (HeadLen + f) + 1)
      BY <3>2, <3>3, <1>3
    <3> QED BY <3>2, <3>3, <3>4, <1>12
  <2>3. CASE i <= l /\ ~(j <= l)
    <3>1. i \in DOMAIN w /\ w2[i] = w[i]
      BY <2>3, <1>9
    <3>2. l \in DOMAIN w /\ w # <<>> /\ i <= l
      BY <2>3, <3>1, <1>1
    <3>3. w[l] = <<Len(s), Total(s, Len(s))>>
      BY <3>2
    <3> DEFINE c == w[i][1]
               o == w[i][2]
               t == Total(s, c)
    <3>4. c \in DOMAIN s /\ o \in 1..t /\ t \in Nat
      BY <3>1, TotalIsNat DEF Written
    <3>5. o + (l - i) <= t => w[l] = <<c, o + (l - i)>>
      BY <3>1, <3>2 DEF Contiguous
    <3>6. o + (l - i) = t + 1 => w[l] = <<c + 1, 1>>
      BY <3>1, <3>2 DEF Contiguous
    <3>7. Total(s2, w2[i][1]) = t /\ w2[i][2] = o /\ w2[i][1] = c
      BY <3>1, <3>4, <1>11
    <3>8. w2[j] = <<k, j - l>>
      BY <2>3, <1>10
    <3> HIDE DEF c, o, t
    <3>9. ~(o + (j - i) <= t)
      <4> SUFFICES ASSUME o + (j - i) <= t PROVE FALSE
        OBVIOUS
      <4>1. o \in Nat
        BY <3>4
      <4>2. o + (l - i) <= t /\ o + (l - i) # t
        BY <4>1, <2>0, <2>3, <3>4, <1>1
      <4>3. c = Len(s) /\ o + (l - i) = Total(s, Len(s))
        BY <4>2, <3>5, <3>3
      <4> QED BY <4>2, <4>3 DEF t
    <3>10. ASSUME o + (j - i) = t + 1
           PROVE  w2[j] = <<c + 1, 1>>
      <4>1. o \in Nat
        BY <3>4
      <4>2. o + (l - i) <= t
        BY <4>1, <3>10, <2>0, <2>3, <3>4, <1>1
      <4>3. c = Len(s) /\ o + (l - i) = Total(s, Len(s))
        BY <4>2, <3>5, <3>3
      <4>4. o + (l - i) = t
        BY <4>3 DEF t
      <4>5. j - l = 1
        <5>1. (o + (j - i)) - (o + (l - i)) = j - l
          BY <4>1, <2>0, <1>1
        <5>2. (t + 1) - t = 1
          BY <3>4
        <5> QED BY <5>1, <5>2, <4>4, <3>10
      <4> QED BY <4>3, <4>5, <3>8
    <3> QED BY <3>7, <3>9, <3>10
  <2> QED BY <2>0, <2>1, <2>2, <2>3
<1>15. w2[l + 1] = <<k, 1>>
  <2>1. l + 1 \in DOMAIN w2 /\ ~(l + 1 <= l) /\ (l + 1) - l = 1
    BY <1>1, <1>3, <1>8
  <2> QED BY <2>1, <1>10
<1>16. w2[Len(w2)] = <<Len(s2), Total(s2, Len(s2))>>
  <2>1. Len(w2) \in DOMAIN w2 /\ ~(Len(w2) <= l) /\ Len(w2) - l = HeadLen + f
    BY <1>1, <1>3, <1>7, <1>8
  <2> QED BY <2>1, <1>10, <1>5, <1>12
<1>17. \A i \in 1..l : w2[i] = w[i]
  BY <1>1, <1>3, <1>7
<1>18. Len(w2) = l + HeadLen + f
  BY <1>1, <1>3, <1>7
<1> QED BY <1>7, <1>13, <1>14, <1>15, <1>16, <1>17, <1>18 DEF w2, m, s2

-----------------------------------------------------------------------------
(* The inductive invariant.                                               *)

\* The number of the message that is being received.
Current == Len(delivered) + 1

\* A client that is there has written its last message to the end.
LastWritten ==
  peer = "up" /\ wire # <<>> => wire[Len(wire)] = <<Len(sent), Total(sent, Len(sent))>>

\* The next byte of the stream is the next byte of the current message.
Expected ==
  status = "open" =>
    /\ Len(delivered) <= Len(sent)
    /\ wire # <<>> => wire[1] = <<Current, Len(m_msg) + 1>>
    /\ wire = <<>> /\ peer = "up" => m_msg = <<>> /\ Len(delivered) = Len(sent)

\* The buffer holds the start of the current message, and its size and the
\* field at its front are known as soon as the head allows.
Partial ==
  /\ m_msg # <<>> => Current \in DOMAIN sent /\ Len(m_msg) < Total(sent, Current)
  /\ \A o \in 1..Len(m_msg) : m_msg[o] = <<Current, o>>
  /\ Len(m_msg) >= 2 => m_field = sent[Current]
  /\ m_size = IF Len(m_msg) < HeadLen THEN HeadLen ELSE Total(sent, Current)

IInv == /\ TypeOK
        /\ NoOverrun
        /\ ClosedForCause
        /\ Contiguous(wire, sent)
        /\ Written(wire, sent)
        /\ LastWritten
        /\ Expected
        /\ Partial

\* What one Recv and the rest of OnRecv's loop body do: complete the current
\* message, or add to it.
LEMMA RecvStep ==
  ASSUME FieldsFit, IInv, NEW n \in 1..Len(wire), Recv(n)
  PROVE  LET msg == m_msg \o SubSeq(wire, 1, n)
         IN  /\ Current \in DOMAIN sent
             /\ msg \in Seq(Byte) /\ Len(msg) = Len(m_msg) + n
             /\ \A o \in 1..Len(msg) : msg[o] = <<Current, o>>
             /\ Len(msg) <= Total(sent, Current)
             /\ ~overrun'
             /\ \/ /\ Len(msg) = Total(sent, Current)
                   /\ NewMessage
                   /\ \/ delivered' = Append(delivered, msg) /\ UNCHANGED status
                      \/ status' = "refused" /\ UNCHANGED delivered
                \/ /\ Len(msg) < Total(sent, Current)
                   /\ m_msg' = msg
                   /\ m_field' \in uint16
                   /\ Len(msg) >= 2 => m_field' = sent[Current]
                   /\ m_size' = IF Len(msg) < HeadLen THEN HeadLen ELSE Total(sent, Current)
                   /\ UNCHANGED <<delivered, status>>
<1> DEFINE K == Current
           L == Len(m_msg)
           T == Total(sent, K)
           msg == m_msg \o SubSeq(wire, 1, n)
<1>1. /\ L \in Nat /\ Len(wire) \in Nat /\ n \in Nat /\ n >= 1 /\ n <= Len(wire)
      /\ DOMAIN wire = 1..Len(wire)
      /\ Len(delivered) \in Nat /\ K \in Nat
      /\ wire # <<>>
  BY LenProperties DEF IInv, TypeOK, Current
<1>2. wire[1] = <<K, L + 1>> /\ 1 \in DOMAIN wire
  BY <1>1 DEF IInv, Expected, Recv
<1>3. K \in DOMAIN sent /\ L + 1 <= T
  <2>1. wire[1][1] = K /\ wire[1][2] = L + 1
    BY <1>2
  <2>2. wire[1][1] \in DOMAIN sent /\ wire[1][2] \in 1..Total(sent, wire[1][1])
    BY <1>2 DEF IInv, Written
  <2>3. K \in DOMAIN sent /\ L + 1 \in 1..T
    BY <2>1, <2>2
  <2>4. T \in Nat
    BY <2>3, TotalIsNat DEF IInv, TypeOK
  <2> QED BY <2>3, <2>4
<1>4. /\ sent[K] \in Fields /\ sent[K] \in uint16 /\ T = HeadLen + sent[K] /\ T \in Nat
      /\ sent[K] \in Nat
  <2>1. sent[K] \in Fields
    BY <1>3, ElementOfSeq, LenProperties DEF IInv, TypeOK
  <2>2. sent[K] \in uint16
    BY <2>1, ConstantsAssumption
  <2> QED BY <2>1, <2>2, <1>3, TotalIsNat DEF IInv, TypeOK, Total, uint16
<1>5. /\ HeadLen \in Nat /\ HeadLen >= 2 /\ Modulus \in Nat /\ MaxLen \in Nat
      /\ MaxLen < Modulus
      /\ T <= MaxLen
  BY <1>4, ConstantsAssumption DEF FieldsFit
<1>6. \A f \in uint16 : f <= sent[K] =>
        GetLength(f) = HeadLen + f /\ GetLength(f) <= MaxLen
  BY <1>4, <1>5 DEF GetLength, Wrap, uint16
<1>7. GetLength(sent[K]) = T
  BY <1>4, <1>6
<1>8. /\ L < HeadLen => L + n <= HeadLen
      /\ ~(L < HeadLen) => L + n <= T
  <2>1. n <= Want
    BY DEF Recv
  <2>2. CASE L < HeadLen
    BY <2>1, <2>2, <1>1, <1>5 DEF Want
  <2>3. CASE ~(L < HeadLen)
    <3>1. m_field = sent[K]
      BY <2>3, <1>1, <1>5 DEF IInv, Partial
    <3> QED BY <2>1, <2>3, <3>1, <1>1, <1>4, <1>5, <1>7 DEF Want
  <2> QED BY <2>2, <2>3
<1>9. L + n <= T
  BY <1>1, <1>4, <1>5, <1>8
<1>10. /\ SubSeq(wire, 1, n) \in Seq(Byte) /\ Len(SubSeq(wire, 1, n)) = n
       /\ \A i \in 1..n : SubSeq(wire, 1, n)[i] = wire[i]
  BY <1>1, CutWire DEF IInv, TypeOK
<1>11. \A i \in 1..n : wire[i] = <<K, L + i>>
  BY <1>1, <1>2, <1>3, <1>9, RunOfMessage DEF IInv, TypeOK
<1>12. /\ msg \in Seq(Byte) /\ Len(msg) = L + n
       /\ \A o \in 1..(L + n) : msg[o] = IF o <= L THEN m_msg[o]
                                         ELSE SubSeq(wire, 1, n)[o - L]
  BY <1>10, ConcatProperties DEF IInv, TypeOK
<1> HIDE DEF msg
<1>13. \A o \in 1..Len(msg) : msg[o] = <<K, o>>
  <2> SUFFICES ASSUME NEW o \in 1..(L + n) PROVE msg[o] = <<K, o>>
    BY <1>12
  <2>1. CASE o <= L
    <3>1. o \in 1..L
      BY <2>1, <1>1
    <3> QED BY <2>1, <3>1, <1>12 DEF IInv, Partial
  <2>2. CASE ~(o <= L)
    <3>1. o - L \in 1..n /\ L + (o - L) = o
      BY <2>2, <1>1
    <3> QED BY <2>2, <3>1, <1>10, <1>11, <1>12
  <2> QED BY <2>1, <2>2
<1>14. ~overrun'
  <2>1. overrun' = (Len(msg) > m_size)
    BY DEF Recv, msg
  <2>2. m_size \in Nat /\ Len(msg) \in Nat
    BY <1>1, <1>12 DEF IInv, TypeOK, uint16
  <2>3. CASE L < HeadLen
    <3>1. m_size = HeadLen
      BY <2>3 DEF IInv, Partial
    <3>2. ~(Len(msg) > m_size)
      BY <2>3, <3>1, <1>5, <1>8, <1>12, <2>2
    <3> QED BY <2>1, <3>2
  <2>4. CASE ~(L < HeadLen)
    <3>1. m_size = T
      BY <2>4 DEF IInv, Partial
    <3>2. ~(Len(msg) > m_size)
      BY <3>1, <1>4, <1>9, <1>12, <2>2
    <3> QED BY <2>1, <3>2
  <2> QED BY <2>3, <2>4
<1>15. PICK w \in Spelled(msg) :
         LoopBody(msg, Resized(FieldRead(msg, w), Size(msg, FieldRead(msg, w))),
                  Size(msg, FieldRead(msg, w)))
  BY DEF Recv, msg
<1>16. w = sent[K]
  <2>1. 1 \in 1..Len(msg)
    BY <1>1, <1>12
  <2>2. msg[1][1] = K /\ msg[1][2] = 1
    BY <2>1, <1>13
  <2> QED BY <2>2, <1>15 DEF Spelled
<1> DEFINE f == FieldRead(msg, w)
           size == Size(msg, f)
<1>17. f \in uint16 /\ f <= sent[K] /\ (Len(msg) >= 2 => f = sent[K])
  <2>1. CASE L >= 2
    BY <2>1, <1>1, <1>4 DEF FieldRead, IInv, Partial
  <2>2. CASE ~(L >= 2) /\ Len(msg) = 1
    BY <2>2, <1>4, <1>16, ConstantsAssumption DEF FieldRead
  <2>3. CASE ~(L >= 2) /\ Len(msg) # 1
    BY <2>3, <1>4, <1>16 DEF FieldRead
  <2> QED BY <2>1, <2>2, <2>3
<1>18. size = IF Len(msg) < HeadLen THEN HeadLen ELSE T
  <2>1. CASE HeadComplete(msg)
    <3>1. f = sent[K]
      BY <2>1, <1>5, <1>17 DEF HeadComplete
    <3> QED BY <2>1, <3>1, <1>5, <1>7 DEF Size, HeadComplete
  <2>2. CASE ~HeadComplete(msg)
    <3>1. size = m_size
      BY <2>2 DEF Size
    <3>2. CASE L < HeadLen
      <4>1. Len(msg) < HeadLen
        BY <2>2, <3>2, <1>1, <1>5, <1>8, <1>12 DEF HeadComplete
      <4> QED BY <3>1, <3>2, <4>1 DEF IInv, Partial
    <3>3. CASE ~(L < HeadLen)
      <4>1. ~(Len(msg) < HeadLen)
        BY <3>3, <1>1, <1>5, <1>12
      <4> QED BY <3>1, <3>3, <4>1 DEF IInv, Partial
    <3> QED BY <3>2, <3>3
  <2> QED BY <2>1, <2>2
<1>19. Resized(f, size) = f
  <2>1. size \in Nat /\ size >= 2
    BY <1>4, <1>5, <1>18
  <2> HIDE DEF size, f
  <2> QED BY <2>1 DEF Resized
<1>20. LoopBody(msg, f, size)
  BY <1>15, <1>19
<1> HIDE DEF f, size
<1>21. ~(GetLength(f) > MaxLen)
  <2>1. GetLength(f) = HeadLen + f /\ GetLength(f) <= MaxLen
    BY <1>6, <1>17
  <2>2. f \in Nat
    BY <1>5, <1>17 DEF uint16
  <2> QED BY <2>1, <2>2, <1>5
<1>22. RecvDone(msg, f) <=> Len(msg) = T
  <2>1. CASE Len(msg) >= 2
    BY <2>1, <1>7, <1>17 DEF RecvDone
  <2>2. CASE ~(Len(msg) >= 2)
    <3>1. GetLength(f) = HeadLen + f /\ f \in Nat
      BY <1>6, <1>17 DEF uint16
    <3>2. Len(msg) # GetLength(f) /\ Len(msg) # T
      BY <2>2, <3>1, <1>1, <1>4, <1>5, <1>12
    <3> QED BY <3>2 DEF RecvDone
  <2> QED BY <2>1, <2>2
<1>23. \/ /\ Len(msg) = T
          /\ NewMessage
          /\ \/ delivered' = Append(delivered, msg) /\ UNCHANGED status
             \/ status' = "refused" /\ UNCHANGED delivered
       \/ /\ Len(msg) # T
          /\ m_msg' = msg /\ m_field' = f /\ m_size' = size
          /\ UNCHANGED <<delivered, status>>
  BY <1>20, <1>21, <1>22 DEF LoopBody
<1>24. Len(msg) <= T /\ (Len(msg) # T => Len(msg) < T)
  <2>1. Len(msg) \in Nat /\ T \in Nat /\ Len(msg) <= T
    BY <1>1, <1>4, <1>9, <1>12
  <2> HIDE DEF T
  <2> QED BY <2>1
<1>25. \/ /\ Len(msg) = T
          /\ NewMessage
          /\ \/ delivered' = Append(delivered, msg) /\ UNCHANGED status
             \/ status' = "refused" /\ UNCHANGED delivered
       \/ /\ Len(msg) < T
          /\ m_msg' = msg
          /\ m_field' \in uint16
          /\ Len(msg) >= 2 => m_field' = sent[K]
          /\ m_size' = IF Len(msg) < HeadLen THEN HeadLen ELSE T
          /\ UNCHANGED <<delivered, status>>
  BY <1>17, <1>18, <1>23, <1>24
<1> QED BY <1>3, <1>12, <1>13, <1>14, <1>24, <1>25 DEF msg

-----------------------------------------------------------------------------
\* Nothing has been written.
LEMMA IInvInit == Init => IInv
<1> SUFFICES ASSUME Init PROVE IInv
  OBVIOUS
<1>1. /\ sent = <<>> /\ wire = <<>> /\ m_msg = <<>> /\ delivered = <<>>
      /\ Len(sent) = 0 /\ Len(wire) = 0 /\ Len(m_msg) = 0 /\ Len(delivered) = 0
      /\ DOMAIN wire = {}
  BY EmptySeq DEF Init
<1>2. TypeOK
  <2>1. 0 \in uint16 /\ HeadLen \in uint16 /\ 0 <= NumMsg
    BY ConstantsAssumption DEF uint16
  <2>2. /\ sent \in Seq(Fields) /\ wire \in Seq(Byte) /\ m_msg \in Seq(Byte)
        /\ delivered \in Seq(Seq(Byte))
    BY <1>1, EmptySeq
  <2> QED BY <1>1, <2>1, <2>2 DEF Init, TypeOK
<1>3. NoOverrun /\ ClosedForCause /\ LastWritten /\ Expected
  BY <1>1 DEF Init, NoOverrun, ClosedForCause, LastWritten, Expected
<1>4. Contiguous(wire, sent) /\ Written(wire, sent)
  BY <1>1 DEF Contiguous, Written
<1>5. Partial
  BY <1>1, ConstantsAssumption DEF Init, Partial
<1> QED BY <1>2, <1>3, <1>4, <1>5 DEF IInv

\* Writing a message behind the stream.
LEMMA WriteKeeps ==
  ASSUME IInv, NEW f \in Fields, ClientWrite(f)
  PROVE  IInv'
<1>1. /\ peer = "up" /\ Len(sent) < NumMsg
      /\ sent' = Append(sent, f)
      /\ wire' = wire \o Promise!Message(Len(sent) + 1, f)
      /\ UNCHANGED <<peer, m_msg, m_field, m_size, overrun, delivered, status>>
  BY DEF ClientWrite, message
<1>2. /\ wire' \in Seq(Byte) /\ Len(wire') = Len(wire) + HeadLen + f
      /\ \A i \in 1..Len(wire) : wire'[i] = wire[i]
      /\ wire'[Len(wire) + 1] = <<Len(sent) + 1, 1>>
      /\ Contiguous(wire', sent') /\ Written(wire', sent')
      /\ wire'[Len(wire')] = <<Len(sent'), Total(sent', Len(sent'))>>
  BY <1>1, WriteWire DEF IInv, TypeOK, LastWritten
<1>3. /\ sent' \in Seq(Fields) /\ Len(sent') = Len(sent) + 1
      /\ \A k \in 1..Len(sent) : sent'[k] = sent[k]
      /\ Len(sent) \in Nat /\ DOMAIN sent = 1..Len(sent)
  BY <1>1, AppendProperties, LenProperties DEF IInv, TypeOK
<1>4. DOMAIN sent' = 1..(Len(sent) + 1)
  BY <1>3, LenProperties
<1>5. TypeOK'
  <2>1. Len(sent') <= NumMsg
    BY <1>1, <1>3, ConstantsAssumption
  <2> QED BY <1>1, <1>2, <1>3, <2>1 DEF IInv, TypeOK
<1>6. NoOverrun' /\ ClosedForCause' /\ LastWritten'
  BY <1>1, <1>2 DEF IInv, NoOverrun, ClosedForCause, LastWritten
<1>7. Expected'
  <2> SUFFICES ASSUME status = "open"
               PROVE  /\ Len(delivered) <= Len(sent')
                      /\ wire' # <<>> /\ wire'[1] = <<Current, Len(m_msg) + 1>>
    BY <1>1 DEF Expected, Current
  <2>1. Len(wire) \in Nat /\ Len(delivered) \in Nat
    BY LenProperties DEF IInv, TypeOK
  <2>2. Len(delivered) <= Len(sent)
    BY DEF IInv, Expected
  <2>3. wire' # <<>>
    <3>1. Len(wire') # 0
      <4>1. HeadLen \in Nat /\ HeadLen >= 2 /\ f \in Nat
        BY ConstantsAssumption DEF uint16
      <4> QED BY <4>1, <2>1, <1>2
    <3> QED BY <3>1, EmptySeq
  <2>4. CASE wire = <<>>
    <3>1. Len(wire) = 0 /\ m_msg = <<>> /\ Len(delivered) = Len(sent) /\ Len(m_msg) = 0
      BY <2>4, <1>1, EmptySeq DEF IInv, Expected
    <3>2. wire'[1] = <<Len(sent) + 1, 1>>
      BY <3>1, <1>2
    <3> QED BY <3>1, <3>2, <2>1, <2>2, <2>3, <1>3 DEF Current
  <2>5. CASE wire # <<>>
    <3>1. 1 \in 1..Len(wire)
      BY <2>1, <2>5, EmptySeq DEF IInv, TypeOK
    <3>2. wire'[1] = <<Current, Len(m_msg) + 1>>
      BY <3>1, <2>5, <1>2 DEF IInv, Expected
    <3> QED BY <3>2, <2>1, <2>2, <2>3, <1>3
  <2> QED BY <2>4, <2>5
<1>8. Partial'
  <2>1. m_msg # <<>> => Current \in DOMAIN sent
    BY DEF IInv, Partial
  <2>2. CASE m_msg = <<>>
    <3>1. Len(m_msg) = 0 /\ HeadLen > 0
      BY <2>2, EmptySeq, ConstantsAssumption
    <3> QED BY <2>2, <3>1, <1>1 DEF IInv, Partial, Current
  <2>3. CASE m_msg # <<>>
    <3>1. sent'[Current] = sent[Current] /\ Current \in DOMAIN sent'
      BY <2>1, <2>3, <1>3, <1>4
    <3> QED BY <2>3, <3>1, <1>1 DEF IInv, Partial, Current, Total
  <2> QED BY <2>2, <2>3
<1> QED BY <1>2, <1>5, <1>6, <1>7, <1>8 DEF IInv

\* Losing the end of the stream.
LEMMA GoneKeeps ==
  ASSUME IInv, ClientGone
  PROVE  IInv'
<1>1. PICK n \in 0..Len(wire) : wire' = SubSeq(wire, 1, n)
  BY DEF ClientGone
<1>2. /\ wire' \in Seq(Byte) /\ Len(wire') = n
      /\ \A i \in 1..n : wire'[i] = wire[i]
      /\ Contiguous(wire', sent) /\ Written(wire', sent)
  BY <1>1, CutWire DEF IInv, TypeOK
<1>3. /\ peer' = "gone"
      /\ UNCHANGED <<sent, m_msg, m_field, m_size, overrun, delivered, status>>
  BY DEF ClientGone, message
<1>4. TypeOK' /\ NoOverrun' /\ ClosedForCause' /\ LastWritten' /\ Partial'
  BY <1>2, <1>3 DEF IInv, TypeOK, NoOverrun, ClosedForCause, LastWritten, Partial, Current
<1>5. Expected'
  <2> SUFFICES ASSUME status = "open", wire' # <<>>
               PROVE  wire'[1] = <<Current, Len(m_msg) + 1>>
    BY <1>3 DEF IInv, Expected, Current
  <2>1. Len(wire) \in Nat /\ n \in Nat /\ n <= Len(wire) /\ n # 0
    BY <1>2, EmptySeq, LenProperties DEF IInv, TypeOK
  <2>2. 1 \in 1..n /\ Len(wire) # 0
    BY <2>1
  <2>3. wire # <<>>
    BY <2>2, EmptySeq
  <2> QED BY <2>2, <2>3, <1>2 DEF IInv, Expected
<1> QED BY <1>2, <1>3, <1>4, <1>5 DEF IInv

\* Recv returns 0 only at the end of the stream: never because the buffer
\* holds more than the length it announces.
LEMMA EndKeeps ==
  ASSUME FieldsFit, IInv, RecvEnd
  PROVE  IInv'
<1>1. /\ status = "open" /\ status' = "closed" /\ NewMessage
      /\ UNCHANGED <<sent, peer, wire, overrun, delivered>>
  BY DEF RecvEnd, client
<1>2. m_msg' = <<>> /\ Len(m_msg') = 0 /\ m_field' = 0 /\ m_size' = HeadLen
  BY <1>1, EmptySeq DEF NewMessage
<1>3. TypeOK'
  <2>1. 0 \in uint16 /\ HeadLen \in uint16
    BY ConstantsAssumption DEF uint16
  <2>2. m_msg' \in Seq(Byte)
    BY <1>2, EmptySeq
  <2> QED BY <1>1, <1>2, <2>1, <2>2 DEF IInv, TypeOK
<1>4. peer = "gone"
  <2> SUFFICES ASSUME Len(m_msg) >= HeadLen, GetLength(m_field) < Len(m_msg)
               PROVE  FALSE
    BY DEF RecvEnd, NothingToRecv
  <2>1. Len(m_msg) \in Nat /\ HeadLen \in Nat /\ HeadLen >= 2
        /\ MaxLen \in Nat /\ Modulus \in Nat /\ MaxLen < Modulus
    BY ConstantsAssumption, LenProperties DEF IInv, TypeOK, FieldsFit
  <2>2. m_msg # <<>>
    BY <2>1, EmptySeq
  <2>3. /\ Current \in DOMAIN sent /\ Len(m_msg) < Total(sent, Current)
        /\ m_field = sent[Current]
    BY <2>1, <2>2 DEF IInv, Partial
  <2>4. sent[Current] \in Fields
    BY <2>3, ElementOfSeq, LenProperties DEF IInv, TypeOK
  <2>5. sent[Current] + HeadLen <= MaxLen /\ sent[Current] \in Nat
    <3>1. sent[Current] + HeadLen <= MaxLen /\ sent[Current] \in uint16
      BY <2>4, ConstantsAssumption DEF FieldsFit
    <3> QED BY <3>1, <2>1 DEF uint16
  <2>6. GetLength(m_field) = sent[Current] + HeadLen
    BY <2>1, <2>3, <2>5 DEF GetLength, Wrap
  <2>7. Total(sent, Current) = sent[Current] + HeadLen
    BY <2>1, <2>5 DEF Total
  <2>8. Len(m_msg) < sent[Current] + HeadLen /\ sent[Current] + HeadLen < Len(m_msg)
    BY <2>3, <2>6, <2>7
  <2> QED BY <2>1, <2>5, <2>8
<1>5. ClosedForCause' /\ NoOverrun' /\ LastWritten' /\ Expected'
  BY <1>1, <1>4 DEF IInv, ClosedForCause, NoOverrun, LastWritten, Expected
<1>6. Partial'
  BY <1>2, ConstantsAssumption DEF Partial
<1> QED BY <1>1, <1>3, <1>5, <1>6 DEF IInv

\* Receiving keeps the place in the stream.
LEMMA RecvKeeps ==
  ASSUME FieldsFit, IInv, NEW n \in 1..Len(wire), Recv(n)
  PROVE  IInv'
<1> DEFINE msg == m_msg \o SubSeq(wire, 1, n)
           K == Current
           T == Total(sent, K)
           done == /\ Len(msg) = T
                   /\ NewMessage
                   /\ \/ delivered' = Append(delivered, msg) /\ UNCHANGED status
                      \/ status' = "refused" /\ UNCHANGED delivered
           more == /\ Len(msg) < T
                   /\ m_msg' = msg
                   /\ m_field' \in uint16
                   /\ Len(msg) >= 2 => m_field' = sent[K]
                   /\ m_size' = IF Len(msg) < HeadLen THEN HeadLen ELSE T
                   /\ UNCHANGED <<delivered, status>>
<1>1. /\ K \in DOMAIN sent
      /\ msg \in Seq(Byte) /\ Len(msg) = Len(m_msg) + n
      /\ \A o \in 1..Len(msg) : msg[o] = <<K, o>>
      /\ Len(msg) <= T
      /\ ~overrun'
      /\ done \/ more
  BY RecvStep
<1>2. /\ Len(m_msg) \in Nat /\ Len(wire) \in Nat /\ n \in Nat /\ n >= 1 /\ n <= Len(wire)
      /\ Len(delivered) \in Nat /\ Len(sent) \in Nat
      /\ DOMAIN wire = 1..Len(wire) /\ DOMAIN sent = 1..Len(sent)
      /\ wire # <<>>
  BY LenProperties DEF IInv, TypeOK
<1>3. /\ status = "open" /\ n <= Want
      /\ wire' = SubSeq(wire, n + 1, Len(wire)) /\ UNCHANGED <<sent, peer>>
      /\ overrun' \in BOOLEAN
  BY DEF Recv, client
<1>4. /\ wire' \in Seq(Byte) /\ Len(wire') = Len(wire) - n
      /\ \A i \in 1..(Len(wire) - n) : wire'[i] = wire[n + i]
      /\ Contiguous(wire', sent) /\ Written(wire', sent)
  <2>1. n \in 0..Len(wire)
    BY <1>2
  <2> QED BY <2>1, <1>3, CutWire DEF IInv, TypeOK
<1>5. wire[1] = <<K, Len(m_msg) + 1>> /\ 1 \in DOMAIN wire
  BY <1>2, <1>3 DEF IInv, Expected
<1>6. T \in Nat
  BY <1>1, TotalIsNat DEF IInv, TypeOK
<1> HIDE DEF msg
<1>7. LastWritten'
  <2> SUFFICES ASSUME peer = "up", wire' # <<>>
               PROVE  wire'[Len(wire')] = <<Len(sent), Total(sent, Len(sent))>>
    BY <1>3 DEF LastWritten
  <2>1. Len(wire') \in Nat /\ Len(wire') # 0
    BY <1>4, EmptySeq, LenProperties
  <2>2. Len(wire') \in 1..(Len(wire) - n) /\ n + Len(wire') = Len(wire)
    <3>1. Len(wire') = Len(wire) - n
      BY <1>4
    <3>2. n + (Len(wire) - n) = Len(wire) /\ Len(wire) - n \in Int
      BY <1>2
    <3> QED BY <2>1, <3>1, <3>2
  <2>3. wire'[Len(wire')] = wire[Len(wire)]
    BY <2>2, <1>4
  <2> QED BY <2>3, <1>2 DEF IInv, LastWritten
<1>8. wire' # <<>> =>
        /\ Len(msg) < T => wire'[1] = <<K, Len(msg) + 1>>
        /\ Len(msg) = T => wire'[1] = <<K + 1, 1>>
  <2> SUFFICES ASSUME wire' # <<>>
               PROVE  /\ Len(msg) < T => wire'[1] = <<K, Len(msg) + 1>>
                      /\ Len(msg) = T => wire'[1] = <<K + 1, 1>>
    OBVIOUS
  <2>1. Len(wire') # 0
    BY <1>4, EmptySeq
  <2>2. n + 1 \in DOMAIN wire /\ 1 \in 1..(Len(wire) - n) /\ 1 <= n + 1
    <3>1. Len(wire') = Len(wire) - n /\ Len(wire') \in Nat
      BY <1>4, LenProperties
    <3>2. Len(wire) - n >= 1
      BY <2>1, <3>1
    <3> QED BY <3>2, <1>2
  <2>3. wire'[1] = wire[n + 1]
    BY <2>2, <1>4
  <2>4. (Len(m_msg) + 1) + ((n + 1) - 1) = Len(msg) + 1
    BY <1>1, <1>2
  <2>5. wire[1][1] = K /\ wire[1][2] = Len(m_msg) + 1
    BY <1>5
  <2>6. /\ (Len(m_msg) + 1) + ((n + 1) - 1) <= T
             => wire[n + 1] = <<K, (Len(m_msg) + 1) + ((n + 1) - 1)>>
        /\ (Len(m_msg) + 1) + ((n + 1) - 1) = T + 1 => wire[n + 1] = <<K + 1, 1>>
    BY <1>5, <2>2, <2>5 DEF IInv, Contiguous
  <2>7. Len(msg) < T => Len(msg) + 1 <= T
    BY <1>1, <1>2, <1>6
  <2> QED BY <2>3, <2>4, <2>6, <2>7
<1>9. wire' = <<>> /\ peer = "up" => Len(msg) = T /\ K = Len(sent)
  <2> SUFFICES ASSUME wire' = <<>>, peer = "up" PROVE Len(msg) = T /\ K = Len(sent)
    OBVIOUS
  <2>1. Len(wire) - n = 0
    BY <1>4, EmptySeq
  <2>2. n = Len(wire)
    BY <2>1, <1>2
  <2>3. wire[n] = <<Len(sent), Total(sent, Len(sent))>>
    BY <2>2, <1>2 DEF IInv, LastWritten
  <2>4. wire[n] = <<K, Len(m_msg) + n>>
    <3>1. Len(m_msg) + n <= T
      BY <1>1
    <3>2. \A i \in 1..n : wire[i] = <<K, Len(m_msg) + i>>
      BY <3>1, <1>1, <1>2, <1>5, RunOfMessage DEF IInv, TypeOK
    <3>3. n \in 1..n
      BY <1>2
    <3> QED BY <3>2, <3>3
  <2> QED BY <2>3, <2>4, <1>1
<1>10. NoOverrun' /\ ClosedForCause'
  BY <1>1, <1>3 DEF NoOverrun, ClosedForCause
<1>11. CASE more
  <2>1. m_msg' = msg /\ UNCHANGED <<delivered, status>> /\ Len(msg) < T
    BY <1>11
  <2>2. m_msg' # <<>> /\ Len(msg) \in Nat /\ Len(msg) >= 1
    BY <2>1, <1>1, <1>2, EmptySeq
  <2>3. TypeOK'
    <3>1. Len(msg) \in uint16 /\ T \in uint16 /\ HeadLen \in uint16
      <4>1. sent[K] \in Fields
        BY <1>1, ElementOfSeq, LenProperties DEF IInv, TypeOK
      <4>2. T <= MaxLen /\ MaxLen < Modulus /\ MaxLen \in Nat /\ Modulus \in Nat
        <5>1. /\ sent[K] + HeadLen <= MaxLen /\ MaxLen < Modulus
              /\ MaxLen \in Nat /\ Modulus \in Nat /\ HeadLen \in Nat
              /\ sent[K] \in uint16
          BY <4>1, ConstantsAssumption DEF FieldsFit
        <5>2. sent[K] \in Nat
          BY <5>1 DEF uint16
        <5> QED BY <5>1, <5>2 DEF Total
      <4>3. HeadLen \in uint16
        BY ConstantsAssumption DEF uint16
      <4> HIDE DEF T
      <4> QED BY <4>2, <4>3, <2>1, <2>2, <1>6 DEF uint16
    <3>2. m_size' \in uint16 /\ m_field' \in uint16
      BY <1>11, <3>1
    <3> QED BY <2>1, <3>1, <3>2, <1>1, <1>3, <1>4 DEF IInv, TypeOK
  <2>4. Expected'
    <3>1. Len(delivered) <= Len(sent)
      BY <1>3 DEF IInv, Expected
    <3>2. ~(wire' = <<>> /\ peer = "up")
      BY <2>1, <2>2, <1>6, <1>9
    <3> QED BY <2>1, <3>1, <3>2, <1>3, <1>8 DEF Expected, Current
  <2>5. Partial'
    BY <2>1, <2>2, <1>1, <1>3, <1>11 DEF Partial, Current
  <2> QED BY <2>3, <2>4, <2>5, <1>3, <1>4, <1>7, <1>10 DEF IInv
<1>12. CASE done
  <2>1. Len(msg) = T /\ NewMessage
    BY <1>12
  <2>2. m_msg' = <<>> /\ Len(m_msg') = 0 /\ m_field' = 0 /\ m_size' = HeadLen
    BY <2>1, EmptySeq DEF NewMessage
  <2>3. /\ delivered' \in Seq(Seq(Byte))
        /\ status' \in {"open", "closed", "refused"}
        /\ status' = "open" => Len(delivered') = K
    <3>1. CASE delivered' = Append(delivered, msg) /\ UNCHANGED status
      <4>1. Append(delivered, msg) \in Seq(Seq(Byte)) /\ Len(Append(delivered, msg)) = K
        BY <1>1, AppendProperties DEF IInv, TypeOK, Current
      <4> QED BY <3>1, <4>1, <1>3
    <3>2. CASE status' = "refused" /\ UNCHANGED delivered
      BY <3>2 DEF IInv, TypeOK
    <3> QED BY <1>12, <3>1, <3>2
  <2>4. TypeOK'
    <3>1. 0 \in uint16 /\ HeadLen \in uint16
      BY ConstantsAssumption DEF uint16
    <3>2. m_msg' \in Seq(Byte)
      BY <2>2, EmptySeq
    <3> QED BY <2>2, <2>3, <3>1, <3>2, <1>1, <1>3, <1>4 DEF IInv, TypeOK
  <2>5. Expected'
    <3> SUFFICES ASSUME status' = "open"
                 PROVE  /\ Len(delivered') <= Len(sent)
                        /\ wire' # <<>> => wire'[1] = <<Len(delivered') + 1, 1>>
                        /\ wire' = <<>> /\ peer = "up" => Len(delivered') = Len(sent)
      BY <2>2, <1>3 DEF Expected, Current
    <3>1. Len(delivered') = K /\ K \in 1..Len(sent)
      BY <2>3, <1>1, <1>2
    <3>2. K <= Len(sent)
      BY <3>1, <1>2
    <3> QED BY <2>1, <3>1, <3>2, <1>8, <1>9
  <2>6. Partial'
    BY <2>2, ConstantsAssumption DEF Partial
  <2>7. ClosedForCause'
    BY <1>12, <1>3 DEF ClosedForCause
  <2> QED BY <2>4, <2>5, <2>6, <1>3, <1>4, <1>7, <1>10 DEF IInv
<1> QED BY <1>1, <1>11, <1>12

\* The invariant is inductive.
LEMMA IInvNext == FieldsFit /\ IInv /\ [Next]_vars => IInv'
<1> SUFFICES ASSUME FieldsFit, IInv, [Next]_vars PROVE IInv'
  OBVIOUS
<1>1. ASSUME NEW f \in Fields, ClientWrite(f) PROVE IInv'
  BY <1>1, WriteKeeps
<1>2. CASE ClientGone
  BY <1>2, GoneKeeps
<1>3. CASE RecvSome
  BY <1>3, RecvKeeps DEF RecvSome
<1>4. CASE RecvEnd
  BY <1>4, EndKeeps
<1>5. CASE UNCHANGED vars
  BY <1>5 DEF vars, IInv, TypeOK, NoOverrun, ClosedForCause, Contiguous, Written,
              LastWritten, Expected, Partial, Current, Total
<1> QED BY <1>1, <1>2, <1>3, <1>4, <1>5 DEF Next

\* It holds throughout.
LEMMA Invariance == FieldsFit => (Spec => []IInv)
<1>1. FieldsFit /\ IInv /\ [Next]_vars => IInv'
  BY IInvNext
<1> SUFFICES ASSUME FieldsFit PROVE Spec => []IInv
  OBVIOUS
<1>2. IInv /\ [Next]_vars => IInv'
  BY <1>1
<1> QED BY IInvInit, <1>2, PTL DEF Spec

-----------------------------------------------------------------------------
(* The results.                                                            *)

\* m_recvLen, the field and the buffer's size stay within a uint16: none of
\* NetMessage's 16-bit sums wraps while messages are within the maximum.
THEOREM TypeCorrect == FieldsFit => (Spec => []TypeOK)
<1> SUFFICES ASSUME FieldsFit PROVE Spec => []TypeOK
  OBVIOUS
<1>1. IInv => TypeOK
  BY DEF IInv
<1> QED BY <1>1, Invariance, PTL

\* NetMessage::Recv never writes beyond the buffer that it resized to the
\* announced length.
THEOREM BufferHolds == FieldsFit => (Spec => []NoOverrun)
<1> SUFFICES ASSUME FieldsFit PROVE Spec => []NoOverrun
  OBVIOUS
<1>1. IInv => NoOverrun
  BY DEF IInv
<1> QED BY <1>1, Invariance, PTL

\* OnRecv never takes a message for an end of stream: it disconnects only a
\* client that is gone, or whose quota is used up.
THEOREM NoneClosedWithoutCause == FieldsFit => (Spec => []ClosedForCause)
<1> SUFFICES ASSUME FieldsFit PROVE Spec => []ClosedForCause
  OBVIOUS
<1>1. IInv => ClosedForCause
  BY DEF IInv
<1> QED BY <1>1, Invariance, PTL

\* Whatever chunks recv returns, OnRecv hands on exactly the messages the
\* client wrote, whole and in order.
THEOREM FramingImplemented == FieldsFit => (Spec => ImplementsFraming)
<1> SUFFICES ASSUME FieldsFit PROVE Spec => ImplementsFraming
  OBVIOUS
<1>1. Init => Promise!Init
  BY DEF Init, Promise!Init
<1>2. IInv /\ [Next]_vars => [Promise!Next]_(Promise!frVars)
  <2> SUFFICES ASSUME IInv, [Next]_vars
               PROVE  Promise!Next \/ UNCHANGED Promise!frVars
    OBVIOUS
  <2>1. ASSUME NEW f \in Fields, ClientWrite(f)
        PROVE  Promise!Next
    BY <2>1 DEF ClientWrite, Promise!Next, Promise!Write
  <2>2. ASSUME NEW n \in 1..Len(wire), Recv(n)
        PROVE  Promise!Next \/ UNCHANGED Promise!frVars
    <3> DEFINE msg == m_msg \o SubSeq(wire, 1, n)
    <3>1. /\ Current \in DOMAIN sent
          /\ msg \in Seq(Byte)
          /\ \A o \in 1..Len(msg) : msg[o] = <<Current, o>>
          /\ \/ Len(msg) = Total(sent, Current) /\ delivered' = Append(delivered, msg)
             \/ UNCHANGED delivered
      BY <2>2, RecvStep
    <3>2. UNCHANGED sent
      BY <2>2 DEF Recv, client
    <3> HIDE DEF msg
    <3>3. CASE UNCHANGED delivered
      BY <3>2, <3>3 DEF Promise!frVars
    <3>4. CASE Len(msg) = Total(sent, Current) /\ delivered' = Append(delivered, msg)
      <4>1. msg = Promise!Message(Current, sent[Current])
        <5>1. msg = [o \in 1..Len(msg) |-> msg[o]]
          BY <3>1, LenProperties
        <5> QED BY <5>1, <3>1, <3>4 DEF Promise!Message, Total
      <4>2. Current <= Len(sent)
        BY <3>1, LenProperties DEF IInv, TypeOK
      <4> QED BY <4>1, <4>2, <3>2, <3>4 DEF Promise!Next, Promise!Deliver, Current
    <3> QED BY <3>1, <3>3, <3>4
  <2>3. CASE ClientGone
    BY <2>3 DEF ClientGone, Promise!frVars
  <2>4. CASE RecvEnd
    BY <2>4 DEF RecvEnd, client, Promise!frVars
  <2>5. CASE UNCHANGED vars
    BY <2>5 DEF vars, Promise!frVars
  <2> QED BY <2>1, <2>2, <2>3, <2>4, <2>5 DEF Next, RecvSome
<1> QED BY <1>1, <1>2, Invariance, PTL DEF Spec, ImplementsFraming, Promise!Spec
=============================================================================
