--------------------------- MODULE MessageFields ---------------------------
(***************************************************************************)
(* The fields of a NetMessage (net_message.h, net_message.cpp): the bytes  *)
(* of m_msg, a head of four (length, type) and what << appended, and the   *)
(* reading of >> from m_readPos on.  Sequences of bytes stand for m_msg    *)
(* and for the memory of a value.                                          *)
(***************************************************************************)
EXTENDS Integers, Sequences

B == 256                \* values of a byte
Byte == 0..B - 1
Bytes(n) == [1..n -> Byte]  \* the memory of a number of n bytes
HeadLen == 4            \* NETMSG_HEAD_LEN
TypeBegin == 2          \* NETMSG_TYPE_BEGIN

\* a uint16 in memory, the low byte first, and back
Uint16(n) == <<n % B, (n \div B) % B>>
Number(bytes) == bytes[1] + B * bytes[2]

(* NetMessage::Write with a position: nothing when it does not fit *)
Overwrite(m, begin, data) ==
  IF begin + Len(data) > Len(m) THEN m
  ELSE [i \in DOMAIN m |-> IF i - begin \in DOMAIN data THEN data[i - begin] ELSE m[i]]

SetLength(m) == Overwrite(m, 0, Uint16(Len(m) - HeadLen))
SetType(m, type) == Overwrite(m, TypeBegin, Uint16(type))
GetType(m) == Number(SubSeq(m, TypeBegin + 1, TypeBegin + 2))
NewMessage == SetLength(<<0, 0, 0, 0>>)

(* NetMessage::Write, operator << of a number and of strings *)
Write(m, data) == SetLength(m \o data)
WriteString(m, str) ==
  LET length == Len(str) % (B * B)
  IN Write(Write(m, Uint16(length)), SubSeq(str, 1, length))

(* NetMessage::Read and ReadString: a result is the value of the variable   *)
(* read into, which had the value old, and m_readPos.  Memory past the end  *)
(* of m_msg holds anything: B is no byte.                                   *)
Fits_Beyond(m, pos, length) == pos + length <= Len(m) + 1
Fits(m, pos, length) == pos + length <= Len(m)

Memory(m, pos, length) ==
  [i \in 1..length |-> IF pos + i \in DOMAIN m THEN m[pos + i] ELSE B]

Read(m, pos, length, old) ==
  IF Fits(m, pos, length)
  THEN [val |-> Memory(m, pos, length), pos |-> pos + length]
  ELSE [val |-> old, pos |-> pos]

\* a string that is empty or does not fit leaves the variable as it is, but
\* its length has been read
ReadString(m, pos, old) ==
  LET len == Read(m, pos, 2, Uint16(0))
      n == Number(len.val)
  IN IF n <= 0 \/ ~ Fits(m, len.pos, n) THEN [val |-> old, pos |-> len.pos]
     ELSE [val |-> Memory(m, len.pos, n), pos |-> len.pos + n]
=============================================================================
