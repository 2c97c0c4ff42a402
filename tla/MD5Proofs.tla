------------------------------ MODULE MD5Proofs ------------------------------
(***************************************************************************)
(* The buffering, counting and padding of md5.c are right for every length *)
(* of a block, of the length field, of a byte and of a word, and for every *)
(* way to cut a message into calls of update().                            *)
(***************************************************************************)
EXTENDS MD5, SequenceTheorems, TLAPS

(***************************************************************************)
(* Arithmetic of quotients and remainders.                                 *)
(***************************************************************************)
\* A number that lies between two multiples of m has the quotient of the lower.
LEMMA Quotient ==
  ASSUME NEW m \in Nat \ {0}, NEW q \in Int, NEW r \in 0 .. m - 1, NEW x \in Int,
         x = (m * q) + r
  PROVE  x \div m = q /\ x % m = r
<1> DEFINE d == x \div m
           e == x % m
<1>1. x = (m * d) + e /\ d \in Int /\ e \in 0 .. m - 1
  OBVIOUS
<1> HIDE DEF d, e
<1>2. m * (d - q) = r - e
  <2>1. m * (d - q) = (m * d) - (m * q)
    BY <1>1
  <2>2. m * d \in Int /\ m * q \in Int
    BY <1>1
  <2>3. QED  BY <1>1, <2>1, <2>2
<1>3. ASSUME d - q >= 1
      PROVE  FALSE
  <2>1. m * (d - q) >= m
    BY <1>1, <1>3
  <2>2. QED  BY <1>1, <1>2, <2>1
<1>4. ASSUME d - q <= -1
      PROVE  FALSE
  <2>1. m * (q - d) >= m
    BY <1>1, <1>4
  <2>2. m * (q - d) = e - r
    <3>1. m * (q - d) = -(m * (d - q))
      BY <1>1
    <3>2. QED  BY <1>1, <1>2, <3>1
  <2>3. QED  BY <1>1, <2>1, <2>2
<1>5. d = q
  BY <1>1, <1>3, <1>4
<1>6. r = e
  <2>1. d - q = 0
    BY <1>1, <1>5
  <2>2. m * (d - q) = 0
    BY <2>1
  <2>3. QED  BY <1>1, <1>2, <2>2
<1>7. QED  BY <1>5, <1>6 DEF d, e

\* The parts a natural number has with respect to m.
LEMMA Parts ==
  ASSUME NEW m \in Nat \ {0}, NEW x \in Nat
  PROVE  /\ x = (m * (x \div m)) + (x % m)
         /\ x \div m \in Nat
         /\ x % m \in 0 .. m - 1
         /\ m * (x \div m) \in Nat
<1>1. x = (m * (x \div m)) + (x % m) /\ x \div m \in Int /\ x % m \in 0 .. m - 1
  OBVIOUS
<1>2. ASSUME x \div m < 0
      PROVE  FALSE
  <2> DEFINE q == x \div m
             r == x % m
  <2>1. x = (m * q) + r /\ q <= -1 /\ q \in Int /\ r \in 0 .. m - 1
    BY <1>1, <1>2
  <2> HIDE DEF q, r
  <2>2. m * q <= -m
    BY <2>1
  <2>3. m * q \in Int
    BY <2>1
  <2>4. QED  BY <2>1, <2>2, <2>3
<1>3. x \div m \in Nat
  BY <1>1, <1>2
<1>4. QED  BY <1>1, <1>3

\* A multiple more does not change the remainder.
LEMMA MultipleMore ==
  ASSUME NEW m \in Nat \ {0}, NEW a \in Nat, NEW x \in Nat
  PROVE  ((m * a) + x) % m = x % m /\ ((m * a) + x) \div m = a + (x \div m)
<1> DEFINE d == x \div m
           e == x % m
<1>1. x = (m * d) + e /\ d \in Nat /\ e \in 0 .. m - 1
  BY Parts
<1> HIDE DEF d, e
<1>2. m * (a + d) = (m * a) + (m * d) /\ m * a \in Int /\ m * d \in Int
  BY <1>1
<1>3. (m * a) + x = (m * (a + d)) + e
  BY <1>1, <1>2
<1>4. a + d \in Int /\ (m * a) + x \in Int
  BY <1>1, <1>2
<1>5. ((m * a) + x) \div m = a + d /\ ((m * a) + x) % m = e
  BY <1>1, <1>3, <1>4, Quotient
<1>6. QED  BY <1>5 DEF d, e

\* A remainder of one summand may be taken first.
LEMMA RemainderFirst ==
  ASSUME NEW m \in Nat \ {0}, NEW x \in Nat, NEW y \in Nat
  PROVE  ((x % m) + y) % m = (x + y) % m
<1> DEFINE d == x \div m
           e == x % m
<1>1. x = (m * d) + e /\ d \in Nat /\ e \in Nat /\ m * d \in Nat
  BY Parts
<1> HIDE DEF d, e
<1>2. x + y = (m * d) + (e + y) /\ e + y \in Nat
  BY <1>1
<1>3. ((m * d) + (e + y)) % m = (e + y) % m
  BY <1>1, <1>2, MultipleMore
<1>4. QED  BY <1>2, <1>3 DEF e

-----------------------------------------------------------------------------
(***************************************************************************)
(* The bit count.                                                          *)
(***************************************************************************)
\* The two words of the count of x bits.
Words(x) == << x % WordSize, (x \div WordSize) % WordSize >>

\* MD5Update carries what the low word cannot hold.
LEMMA Counting ==
  ASSUME NEW x \in Nat, NEW l \in Nat
  PROVE  Count(Words(x), l) = Words(x + (ByteBits * l))
<1> DEFINE W == WordSize
           y == ByteBits * l
<1>0. W \in Nat \ {0} /\ y \in Nat
  BY MD5Assumption DEF MD5Assumption
<1>1. PICK xd, xe, yd, ye : xd = x \div W /\ xe = x % W /\ yd = y \div W /\ ye = y % W
  OBVIOUS
<1>2. /\ x = (W * xd) + xe /\ xd \in Nat /\ xe \in 0 .. W - 1
      /\ y = (W * yd) + ye /\ yd \in Nat /\ ye \in 0 .. W - 1
      /\ W * xd \in Nat /\ W * yd \in Nat
  BY <1>0, <1>1, Parts
<1>3. PICK low, carry : low = (xe + ye) % W /\ carry = IF low < xe THEN 1 ELSE 0
  OBVIOUS
<1>4. PICK z : z = x + y
  OBVIOUS
<1>5. Count(Words(x), l) = << low, ((xd % W) + carry + yd) % W >>
  BY <1>1, <1>3 DEF Count, Words
<1> HIDE DEF W, y
<1>6. W * (xd + yd) = (W * xd) + (W * yd)
  BY <1>0, <1>2
<1>7. z % W = low /\ z \div W = xd + carry + yd
  <2>1. z = (W * (xd + yd)) + (xe + ye)
    BY <1>2, <1>4, <1>6
  <2>2. CASE xe + ye < W
    <3>1. z \in Int /\ xd + yd \in Int /\ xe + ye \in 0 .. W - 1
      BY <1>0, <1>2, <1>4, <2>2
    <3>2. z \div W = xd + yd /\ z % W = xe + ye
      BY <1>0, <2>1, <3>1, Quotient, ZenonT(60)
    <3>3. (xe + ye) = (W * 0) + (xe + ye)
      BY <1>0, <3>1
    <3>4. low = xe + ye
      BY <1>0, <1>3, <3>1, <3>3, Quotient
    <3>5. carry = 0
      BY <1>2, <1>3, <3>4
    <3>6. QED  BY <1>2, <3>2, <3>4, <3>5
  <2>3. CASE xe + ye >= W
    <3>1. z \in Int /\ xd + yd + 1 \in Int /\ (xe + ye) - W \in 0 .. W - 1
      BY <1>0, <1>2, <1>4, <2>3
    <3>2. W * (xd + yd + 1) = (W * (xd + yd)) + W
      BY <1>0, <1>2
    <3>3. W * (xd + yd) \in Int
      BY <1>0, <1>2
    <3>4. z = (W * (xd + yd + 1)) + ((xe + ye) - W)
      BY <1>0, <1>2, <2>1, <3>2, <3>3
    <3>5. z \div W = xd + yd + 1 /\ z % W = (xe + ye) - W
      <4>1. PICK q, r : q = xd + yd + 1 /\ r = (xe + ye) - W
        OBVIOUS
      <4>2. q \in Int /\ r \in 0 .. W - 1 /\ z = (W * q) + r /\ z \in Int
        BY <3>1, <3>4, <4>1
      <4>3. z \div W = q /\ z % W = r
        BY <1>0, <4>2, Quotient
      <4>4. QED  BY <4>1, <4>3
    <3>6. xe + ye = (W * 1) + ((xe + ye) - W)
      BY <1>0, <1>2
    <3>7. low = (xe + ye) - W
      BY <1>0, <1>2, <1>3, <3>1, <3>6, Quotient
    <3>8. carry = 1
      BY <1>0, <1>2, <1>3, <3>7
    <3>9. QED  BY <1>2, <3>5, <3>7, <3>8
  <2>4. QED  BY <1>0, <1>2, <2>2, <2>3
<1>8. ((xd % W) + carry + yd) % W = (xd + carry + yd) % W
  <2>1. carry + yd \in Nat /\ xd % W \in Nat
    BY <1>0, <1>2, <1>3, Parts
  <2>2. ((xd % W) + (carry + yd)) % W = (xd + (carry + yd)) % W
    BY <1>0, <1>2, <2>1, RemainderFirst
  <2>3. carry \in Nat
    BY <1>3
  <2>4. (xd % W) + carry + yd = (xd % W) + (carry + yd) /\ xd + carry + yd = xd + (carry + yd)
    BY <1>2, <2>1, <2>3
  <2>5. QED  BY <2>2, <2>4
<1>9. Words(z) = << z % W, (z \div W) % W >>
  BY DEF Words, W
<1>10. QED  BY <1>4, <1>5, <1>7, <1>8, <1>9 DEF y

\* Read together, the two words are the count but for multiples of 2^64.
LEMMA BothWords ==
  ASSUME NEW x \in Nat
  PROVE  Words(x)[1] + (WordSize * Words(x)[2]) = x % (WordSize * WordSize)
<1> DEFINE W == WordSize
           a == x \div W
<1>0. W \in Nat \ {0}
  BY MD5Assumption DEF MD5Assumption
<1>1. PICK b, c, d : b = x % W /\ c = a \div W /\ d = a % W
  OBVIOUS
<1>2. x = (W * a) + b /\ a \in Nat /\ b \in 0 .. W - 1
  BY <1>0, <1>1, Parts
<1>3. a = (W * c) + d /\ c \in Nat /\ d \in 0 .. W - 1
  BY <1>0, <1>1, <1>2, Parts
<1> HIDE DEF a
<1>4. x = ((W * W) * c) + ((W * d) + b)
  <2>1. W * a = (W * (W * c)) + (W * d)
    <3>1. W * ((W * c) + d) = (W * (W * c)) + (W * d)
      BY <1>0, <1>3
    <3>2. QED  BY <1>3, <3>1
  <2>2. W * (W * c) = (W * W) * c
    BY <1>0, <1>3
  <2>3. W * (W * c) \in Int /\ W * d \in Int
    BY <1>0, <1>3
  <2>4. QED  BY <1>2, <2>1, <2>2, <2>3
<1>5. (W * d) + b \in 0 .. (W * W) - 1
  <2>1. W * d <= W * (W - 1) /\ W * d \in Nat
    BY <1>0, <1>3
  <2>2. W * (W - 1) = (W * W) - W /\ W * W \in Nat
    BY <1>0
  <2>3. QED  BY <1>0, <1>2, <2>1, <2>2
<1>6. W * W \in Nat \ {0}
  BY <1>0
<1>7. x % (W * W) = (W * d) + b
  BY <1>3, <1>4, <1>5, <1>6, Quotient
<1>8. Words(x)[1] = b /\ Words(x)[2] = d
  BY <1>1 DEF Words, a
<1>9. b + (W * d) = (W * d) + b
  BY <1>0, <1>2, <1>3
<1>10. QED  BY <1>7, <1>8, <1>9

\* The low word tells how many bytes wait in the buffer: a word holds a whole
\* number of blocks.
LEMMA Holding ==
  ASSUME NEW m \in Nat
  PROVE  held(Words(ByteBits * m)[1]) = m % BlockLen
<1> DEFINE W == WordSize
           B == BlockLen
           c == ByteBits
<1>0. W \in Nat \ {0} /\ B \in Nat \ {0} /\ c \in Nat \ {0} /\ c * B \in Nat \ {0}
      /\ W % (c * B) = 0
  BY MD5Assumption DEF MD5Assumption
<1>1. PICK q \in Nat : W = (c * B) * q
  <2>1. W = ((c * B) * (W \div (c * B))) + 0 /\ W \div (c * B) \in Nat
    BY <1>0, Parts
  <2>2. (c * B) * (W \div (c * B)) \in Int
    BY <1>0, <2>1
  <2>3. QED  BY <2>1, <2>2
<1>2. B * q \in Nat \ {0} /\ W = c * (B * q)
  <2>1. (c * B) * q = c * (B * q) /\ B * q \in Nat
    BY <1>0, <1>1
  <2>2. c * 0 = 0
    BY <1>0
  <2>3. QED  BY <1>0, <1>1, <2>1, <2>2
<1>3. PICK u, v : u = m \div (B * q) /\ v = m % (B * q)
  OBVIOUS
<1>4. m = ((B * q) * u) + v /\ u \in Nat /\ v \in 0 .. (B * q) - 1
  BY <1>2, <1>3, Parts
<1>5. c * m = (W * u) + (c * v)
  <2>1. c * m = (c * ((B * q) * u)) + (c * v)
    <3>1. PICK s \in Nat : s = (B * q) * u
      BY <1>2, <1>4
    <3>2. c * (s + v) = (c * s) + (c * v)
      BY <1>0, <1>4, <3>1
    <3>3. QED  BY <1>4, <3>1, <3>2
  <2>2. c * ((B * q) * u) = (c * (B * q)) * u
    BY <1>0, <1>2, <1>4
  <2>3. QED  BY <1>2, <2>1, <2>2
<1>6. c * v \in 0 .. W - 1
  <2>1. PICK s \in Nat : s = B * q
    BY <1>2
  <2>2. v \in 0 .. s - 1
    BY <1>4, <2>1
  <2>3. c * v <= c * (s - 1) /\ c * v \in Nat
    BY <1>0, <2>1, <2>2
  <2>4. c * (s - 1) = (c * s) - c /\ c * s \in Nat
    BY <1>0, <2>1
  <2>5. QED  BY <1>0, <1>2, <2>1, <2>3, <2>4
<1>7. (c * m) % W = c * v
  <2>1. PICK x, y : x = c * m /\ y = c * v
    OBVIOUS
  <2>2. x \in Int /\ y \in 0 .. W - 1 /\ x = (W * u) + y
    BY <1>0, <1>5, <1>6, <2>1
  <2>3. x % W = y
    BY <1>0, <1>4, <2>2, Quotient
  <2>4. QED  BY <2>1, <2>3
<1>8. (c * v) \div c = v
  <2>1. c * v = (c * v) + 0 /\ c * v \in Int /\ v \in Int /\ 0 \in 0 .. c - 1
    BY <1>0, <1>4, <1>6
  <2>2. QED  BY <1>0, <2>1, Quotient
<1>9. v % B = m % B
  <2>1. (B * q) * u = B * (q * u) /\ q * u \in Nat
    BY <1>0, <1>1, <1>4
  <2>2. m = (B * (q * u)) + v /\ v \in Nat
    BY <1>2, <1>4, <2>1
  <2>3. QED  BY <1>0, <2>1, <2>2, MultipleMore
<1>10. Words(c * m)[1] = c * v
  BY <1>7 DEF Words
<1>11. QED  BY <1>8, <1>9, <1>10 DEF held

-----------------------------------------------------------------------------
(***************************************************************************)
(* The context.  Octets are what can be in a block; Waiting are the bytes  *)
(* of the message that are in the buffer and in no block yet.              *)
(***************************************************************************)
Octets ==
  {byte(i) : i \in Nat} \cup {x80, x00} \cup {length(j, w) : j \in Nat, w \in Nat}
\* What a block can be.
Contents == [Bytes -> Octets]

\* The bytes that wait.
Waiting == IF pc = "idle" THEN n % BlockLen ELSE 0

\* The types of the variables.
TypeInv ==
  /\ pc \in {"idle", "blocks"}
  /\ n \in Nat
  /\ len \in 0 .. n
  /\ in \in Contents
  /\ buf \in Seq(Contents)
  /\ finalized \in BOOLEAN
  /\ pc = "idle" => len = 0
  /\ finalized => pc = "idle"

\* The blocks transformed and the bytes that wait are the message so far.
BufferInv ==
  /\ (BlockLen * Len(buf)) + Waiting = n - len
  /\ \A k \in 1 .. Len(buf) : \A j \in Bytes : buf[k][j] = byte((BlockLen * (k - 1)) + j)
  /\ \A j \in Bytes : j < Waiting => in[j] = byte((BlockLen * Len(buf)) + j)

\* The inductive invariant.
ContextInv ==
  /\ TypeInv
  /\ ~ finalized => BufferInv /\ bits = Words(ByteBits * n) /\ digest = NoDigest
  /\ finalized => digest = Blocks(Padded(n))

\* The lengths, as the assumption has them.
LEMMA Lengths ==
  /\ BlockLen \in Nat /\ BlockLen >= 2 /\ Bytes = 0 .. BlockLen - 1
  /\ LengthLen \in 1 .. BlockLen - 1
  /\ ByteBits \in Nat \ {0} /\ WordSize \in Nat \ {0}
BY MD5Assumption DEF MD5Assumption, Bytes

\* What memcpy() of bytes of the message makes of a block.
LEMMA Copying ==
  ASSUME NEW block \in Contents, NEW at \in Nat, NEW from \in Nat, NEW count \in Nat
  PROVE  /\ Copy(block, at, from, count) \in Contents
         /\ \A j \in Bytes : Copy(block, at, from, count)[j] =
              IF at <= j /\ j < at + count THEN byte(from + (j - at)) ELSE block[j]
<1>1. ASSUME NEW j \in Bytes
      PROVE  /\ j \in at .. at + count - 1 <=> at <= j /\ j < at + count
             /\ from + j - at = from + (j - at)
             /\ at <= j => from + (j - at) \in Nat
  BY Lengths
<1>2. \A j \in Bytes : Copy(block, at, from, count)[j] =
        IF at <= j /\ j < at + count THEN byte(from + (j - at)) ELSE block[j]
  BY <1>1 DEF Copy
<1>3. \A j \in Bytes :
        (IF at <= j /\ j < at + count THEN byte(from + (j - at)) ELSE block[j]) \in Octets
  BY <1>1 DEF Contents, Octets
<1>4. Copy(block, at, from, count) \in Contents
  <2>1. Copy(block, at, from, count) =
          [j \in Bytes |-> IF at <= j /\ j < at + count THEN byte(from + (j - at)) ELSE block[j]]
    BY <1>1 DEF Copy
  <2>2. QED  BY <1>3, <2>1 DEF Contents
<1>5. QED  BY <1>2, <1>4

\* A block that is full of the bytes of the message is transformed.
LEMMA Transformed ==
  ASSUME TypeInv, BufferInv, NEW block \in Contents,
         \A j \in Bytes : block[j] = byte((BlockLen * Len(buf)) + j),
         buf' = MD5Transform(buf, block)
  PROVE  /\ buf' \in Seq(Contents)
         /\ Len(buf') = Len(buf) + 1
         /\ BlockLen * Len(buf') = (BlockLen * Len(buf)) + BlockLen
         /\ \A k \in 1 .. Len(buf') : \A j \in Bytes :
              buf'[k][j] = byte((BlockLen * (k - 1)) + j)
<1>1. /\ buf' \in Seq(Contents) /\ Len(buf') = Len(buf) + 1 /\ Len(buf) \in Nat
      /\ \A k \in 1 .. Len(buf) : buf'[k] = buf[k]
      /\ buf'[Len(buf) + 1] = block
  BY DEF MD5Transform, TypeInv
<1>2. PICK m : m = Len(buf)
  OBVIOUS
<1>3. BlockLen * (m + 1) = (BlockLen * m) + BlockLen /\ (m + 1) - 1 = m
  BY <1>1, <1>2, Lengths
<1>4. ASSUME NEW k \in 1 .. m + 1, NEW j \in Bytes
      PROVE  buf'[k][j] = byte((BlockLen * (k - 1)) + j)
  <2>1. CASE k \in 1 .. m
    BY <1>1, <1>2, <2>1 DEF BufferInv
  <2>2. CASE k = m + 1
    BY <1>1, <1>2, <1>3, <2>2
  <2>3. QED  BY <1>1, <1>2, <2>1, <2>2
<1>5. QED  BY <1>1, <1>2, <1>3, <1>4

\* A call of update() up to its loop.
LEMMA UpdateStep ==
  ASSUME ContextInv, NEW l \in Nat, Update(l)
  PROVE  ContextInv'
<1>1. /\ pc = "idle" /\ ~ finalized /\ len = 0 /\ TypeInv /\ BufferInv
      /\ n \in Nat /\ Waiting = n % BlockLen /\ bits = Words(ByteBits * n)
      /\ bits' = Count(bits, l) /\ n' = n + l /\ n' \in Nat
      /\ finalized' = finalized /\ digest' = digest /\ digest = NoDigest
  BY DEF Update, ContextInv, TypeInv, Waiting
<1>2. bits' = Words(ByteBits * n')
  <2>1. ByteBits * n \in Nat /\ ByteBits * (n + l) = (ByteBits * n) + (ByteBits * l)
    BY <1>1, Lengths
  <2>2. QED  BY <1>1, <2>1, Counting
<1>3. PICK t, done : t = n % BlockLen /\ done = BlockLen * Len(buf)
  OBVIOUS
<1>4. /\ held(bits[1]) = t /\ t \in 0 .. BlockLen - 1 /\ done \in Nat /\ done + t = n
      /\ Len(buf) \in Nat
  <2>1. held(bits[1]) = t
    BY <1>1, <1>3, Holding
  <2>2. t \in 0 .. BlockLen - 1
    BY <1>1, <1>3, Lengths
  <2>3. Len(buf) \in Nat
    BY <1>1 DEF TypeInv
  <2>4. done \in Nat
    BY <1>3, <2>3, Lengths
  <2>5. QED  BY <1>1, <1>3, <2>1, <2>2, <2>3, <2>4 DEF BufferInv
<1>5. CASE UpdateAligned(l)
  <2>1. /\ t = 0 /\ pc' = "blocks" /\ len' = l /\ in' = in /\ buf' = buf
    BY <1>4, <1>5 DEF UpdateAligned
  <2>2. TypeInv'
    BY <1>1, <2>1 DEF TypeInv
  <2>3. BufferInv'
    <3>1. Waiting' = 0 /\ done + 0 = n' - len'
      BY <1>1, <1>4, <2>1 DEF Waiting
    <3>2. \A j \in Bytes : ~ (j < 0)
      BY Lengths
    <3>3. QED  BY <1>1, <1>3, <2>1, <3>1, <3>2 DEF BufferInv
  <2>4. QED  BY <1>1, <1>2, <2>2, <2>3 DEF ContextInv
<1>6. CASE UpdateLeading(l)
  <2>0. /\ t # 0 /\ BlockLen - t \in Nat
        /\ in' = Copy(in, t, n, IF l < BlockLen - t THEN l ELSE BlockLen - t)
        /\ \/ l < BlockLen - t /\ pc' = "idle" /\ len' = 0 /\ buf' = buf
           \/ /\ l >= BlockLen - t /\ pc' = "blocks" /\ len' = l - (BlockLen - t)
              /\ buf' = MD5Transform(buf, in')
    BY <1>4, <1>6, Lengths DEF UpdateLeading
  <2>1. CASE l < BlockLen - t
    <3>1. /\ pc' = "idle" /\ len' = 0 /\ buf' = buf /\ in' = Copy(in, t, n, l)
      BY <1>4, <2>0, <2>1, Lengths
    <3>2. /\ in' \in Contents
          /\ \A j \in Bytes : in'[j] = IF t <= j /\ j < t + l THEN byte(n + (j - t)) ELSE in[j]
      <4>1. in \in Contents /\ t \in Nat
        BY <1>1, <1>4 DEF TypeInv
      <4>2. /\ Copy(in, t, n, l) \in Contents
            /\ \A j \in Bytes : Copy(in, t, n, l)[j] =
                 IF t <= j /\ j < t + l THEN byte(n + (j - t)) ELSE in[j]
        BY <1>1, <4>1, Copying
      <4>3. QED  BY <3>1, <4>2
    <3>3. n' % BlockLen = t + l
      <4>1. n' = (BlockLen * Len(buf)) + (t + l) /\ t + l \in 0 .. BlockLen - 1
        BY <1>1, <1>3, <1>4, <2>1, Lengths, SMTT(30)
      <4>2. PICK q, r, x : q = Len(buf) /\ r = t + l /\ x = n'
        OBVIOUS
      <4>3. q \in Int /\ r \in 0 .. BlockLen - 1 /\ x \in Int /\ x = (BlockLen * q) + r
        BY <1>1, <1>4, <4>1, <4>2
      <4>4. x % BlockLen = r
        BY <4>3, Lengths, Quotient
      <4>5. QED  BY <4>2, <4>4
    <3>4. TypeInv'
      BY <1>1, <3>1, <3>2 DEF TypeInv
    <3>5. Waiting' = t + l
      BY <3>1, <3>3 DEF Waiting
    <3>6. ASSUME NEW j \in Bytes, j < t + l
          PROVE  in'[j] = byte(done + j)
      <4>1. CASE t <= j
        <5>1. n + (j - t) = done + j
          BY <1>1, <1>4, <4>1, Lengths
        <5>2. QED  BY <3>2, <3>6, <4>1, <5>1
      <4>2. CASE ~ (t <= j)
        <5>1. j < t
          BY <1>4, <4>2, Lengths
        <5>2. in[j] = byte(done + j)
          BY <1>1, <1>3, <5>1 DEF BufferInv
        <5>3. QED  BY <3>2, <4>2, <5>2
      <4>3. QED  BY <4>1, <4>2
    <3>7. BufferInv'
      <4>1. done + (t + l) = n' - len'
        BY <1>1, <1>4, <3>1
      <4>2. QED  BY <1>1, <1>3, <3>1, <3>5, <3>6, <4>1 DEF BufferInv
    <3>8. QED  BY <1>1, <1>2, <3>4, <3>7 DEF ContextInv
  <2>2. CASE l >= BlockLen - t
    <3>1. /\ pc' = "blocks" /\ len' = l - (BlockLen - t) /\ buf' = MD5Transform(buf, in')
          /\ in' = Copy(in, t, n, BlockLen - t)
      BY <1>4, <2>0, <2>2, Lengths
    <3>2. /\ in' \in Contents
          /\ \A j \in Bytes : in'[j] =
               IF t <= j /\ j < t + (BlockLen - t) THEN byte(n + (j - t)) ELSE in[j]
      <4>1. in \in Contents /\ t \in Nat
        BY <1>1, <1>4 DEF TypeInv
      <4>2. /\ Copy(in, t, n, BlockLen - t) \in Contents
            /\ \A j \in Bytes : Copy(in, t, n, BlockLen - t)[j] =
                 IF t <= j /\ j < t + (BlockLen - t) THEN byte(n + (j - t)) ELSE in[j]
        <5>1. PICK room \in Nat : room = BlockLen - t
          BY <2>0
        <5>2. /\ Copy(in, t, n, room) \in Contents
              /\ \A j \in Bytes : Copy(in, t, n, room)[j] =
                   IF t <= j /\ j < t + room THEN byte(n + (j - t)) ELSE in[j]
          BY <1>1, <4>1, Copying
        <5>3. QED  BY <5>1, <5>2
      <4>3. QED  BY <3>1, <4>2
    <3>3. ASSUME NEW j \in Bytes
          PROVE  in'[j] = byte(done + j)
      <4>1. CASE t <= j
        <5>1. n + (j - t) = done + j /\ j < t + (BlockLen - t)
          BY <1>1, <1>4, <4>1, Lengths
        <5>2. QED  BY <3>2, <4>1, <5>1
      <4>2. CASE ~ (t <= j)
        <5>1. j < t
          BY <1>4, <4>2, Lengths
        <5>2. in[j] = byte(done + j)
          BY <1>1, <1>3, <5>1 DEF BufferInv
        <5>3. QED  BY <3>2, <4>2, <5>2
      <4>3. QED  BY <4>1, <4>2
    <3>4. /\ buf' \in Seq(Contents)
          /\ BlockLen * Len(buf') = done + BlockLen
          /\ \A k \in 1 .. Len(buf') : \A j \in Bytes :
               buf'[k][j] = byte((BlockLen * (k - 1)) + j)
      BY <1>1, <1>3, <3>1, <3>2, <3>3, Transformed
    <3>5. TypeInv'
      <4>1. len' \in 0 .. n'
        BY <1>1, <1>4, <2>2, <3>1, Lengths
      <4>2. QED  BY <1>1, <3>1, <3>2, <3>4, <4>1 DEF TypeInv
    <3>6. BufferInv'
      <4>1. Waiting' = 0 /\ (done + BlockLen) + 0 = n' - len'
        BY <1>1, <1>4, <3>1, Lengths DEF Waiting
      <4>2. \A j \in Bytes : ~ (j < 0)
        BY Lengths
      <4>3. QED  BY <3>4, <4>1, <4>2 DEF BufferInv
    <3>7. QED  BY <1>1, <1>2, <3>5, <3>6 DEF ContextInv
  <2>3. QED  BY <1>4, <2>1, <2>2, Lengths
<1>7. QED  BY <1>5, <1>6 DEF Update

\* One round of the loop, and what is left after it.
LEMMA LoopStep ==
  ASSUME ContextInv, UpdateBlock \/ UpdateRest
  PROVE  ContextInv'
<1>1. /\ pc = "blocks" /\ ~ finalized /\ TypeInv /\ BufferInv /\ Waiting = 0
      /\ n \in Nat /\ len \in 0 .. n /\ n' = n /\ bits' = bits /\ bits = Words(ByteBits * n)
      /\ finalized' = finalized /\ digest' = digest /\ digest = NoDigest
  BY DEF UpdateBlock, UpdateRest, ContextInv, TypeInv, Waiting
<1>2. PICK done : done = BlockLen * Len(buf)
  OBVIOUS
<1>3. done \in Nat /\ done = n - len /\ Len(buf) \in Nat
  BY <1>1, <1>2, Lengths DEF BufferInv, TypeInv
<1>4. CASE UpdateBlock
  <2>1. /\ len >= BlockLen /\ pc' = pc /\ len' = len - BlockLen
        /\ in' = Copy(in, 0, done, BlockLen) /\ buf' = MD5Transform(buf, in')
    BY <1>3, <1>4 DEF UpdateBlock
  <2>2. /\ in' \in Contents
        /\ \A j \in Bytes : in'[j] =
             IF 0 <= j /\ j < 0 + BlockLen THEN byte(done + (j - 0)) ELSE in[j]
    <3>1. in \in Contents
      BY <1>1 DEF TypeInv
    <3>2. /\ Copy(in, 0, done, BlockLen) \in Contents
          /\ \A j \in Bytes : Copy(in, 0, done, BlockLen)[j] =
               IF 0 <= j /\ j < 0 + BlockLen THEN byte(done + (j - 0)) ELSE in[j]
      <4>1. BlockLen \in Nat /\ 0 \in Nat
        BY Lengths
      <4>2. QED  BY <1>3, <3>1, <4>1, Copying
    <3>3. QED  BY <2>1, <3>2
  <2>3. ASSUME NEW j \in Bytes
        PROVE  in'[j] = byte(done + j)
    <3>1. 0 <= j /\ j < 0 + BlockLen /\ j - 0 = j
      BY Lengths
    <3>2. QED  BY <2>2, <3>1
  <2>4. /\ buf' \in Seq(Contents)
        /\ BlockLen * Len(buf') = done + BlockLen
        /\ \A k \in 1 .. Len(buf') : \A j \in Bytes :
             buf'[k][j] = byte((BlockLen * (k - 1)) + j)
    BY <1>1, <1>2, <2>1, <2>2, <2>3, Transformed
  <2>5. TypeInv'
    <3>1. len' \in 0 .. n'
      BY <1>1, <2>1, Lengths
    <3>2. QED  BY <1>1, <2>1, <2>2, <2>4, <3>1 DEF TypeInv
  <2>6. BufferInv'
    <3>1. Waiting' = 0 /\ (done + BlockLen) + 0 = n' - len'
      BY <1>1, <1>3, <2>1, Lengths DEF Waiting
    <3>2. \A j \in Bytes : ~ (j < 0)
      BY Lengths
    <3>3. QED  BY <2>4, <3>1, <3>2 DEF BufferInv
  <2>7. QED  BY <1>1, <2>5, <2>6 DEF ContextInv
<1>5. CASE UpdateRest
  <2>1. /\ len < BlockLen /\ pc' = "idle" /\ len' = 0 /\ buf' = buf
        /\ in' = Copy(in, 0, done, len)
    BY <1>3, <1>5 DEF UpdateRest
  <2>2. /\ in' \in Contents
        /\ \A j \in Bytes : in'[j] =
             IF 0 <= j /\ j < 0 + len THEN byte(done + (j - 0)) ELSE in[j]
    <3>1. in \in Contents /\ len \in Nat
      BY <1>1 DEF TypeInv
    <3>2. /\ Copy(in, 0, done, len) \in Contents
          /\ \A j \in Bytes : Copy(in, 0, done, len)[j] =
               IF 0 <= j /\ j < 0 + len THEN byte(done + (j - 0)) ELSE in[j]
      BY <1>3, <3>1, Copying
    <3>3. QED  BY <2>1, <3>2
  <2>3. ASSUME NEW j \in Bytes, j < len
        PROVE  in'[j] = byte(done + j)
    <3>1. 0 <= j /\ j < 0 + len /\ j - 0 = j
      BY <1>1, <2>3, Lengths
    <3>2. QED  BY <2>2, <3>1
  <2>4. n % BlockLen = len
    <3>1. n = (BlockLen * Len(buf)) + len /\ len \in 0 .. BlockLen - 1
      BY <1>1, <1>2, <1>3, <2>1, Lengths
    <3>2. PICK q, r, x : q = Len(buf) /\ r = len /\ x = n
      OBVIOUS
    <3>3. q \in Int /\ r \in 0 .. BlockLen - 1 /\ x \in Int /\ x = (BlockLen * q) + r
      BY <1>1, <1>3, <3>1, <3>2
    <3>4. x % BlockLen = r
      BY <3>3, Lengths, Quotient
    <3>5. QED  BY <3>2, <3>4
  <2>5. TypeInv'
    BY <1>1, <2>1, <2>2 DEF TypeInv
  <2>6. BufferInv'
    <3>1. Waiting' = len /\ done + len = n' - len'
      BY <1>1, <1>3, <2>1, <2>4 DEF Waiting
    <3>2. QED  BY <1>1, <1>2, <2>1, <2>3, <3>1 DEF BufferInv
  <2>7. QED  BY <1>1, <2>5, <2>6 DEF ContextInv
<1>6. QED  BY <1>4, <1>5

-----------------------------------------------------------------------------
(***************************************************************************)
(* The padding: how many zeros RFC 1321 asks for, what the padded message  *)
(* is byte by byte, and that MD5Final makes the same.                      *)
(***************************************************************************)
\* Blocks at the end that have padding in them: two if the mark and the length
\* do not fit behind the count bytes that are left.
LastBlocks(count) == IF BlockLen - 1 - count < LengthLen THEN 2 ELSE 1
\* The zeros behind the mark that fill these blocks.
Zeros(count) == ((BlockLen * LastBlocks(count)) - count) - (LengthLen + 1)

\* No other number of zeros below BlockLen makes whole blocks.
LEMMA FewestZeros ==
  ASSUME NEW full \in Nat, NEW count \in 0 .. BlockLen - 1, NEW m,
         m = (BlockLen * full) + count
  PROVE  /\ Zeros(count) \in 0 .. BlockLen - 1
         /\ m + 1 + Zeros(count) + LengthLen = BlockLen * (full + LastBlocks(count))
         /\ (CHOOSE z \in 0 .. BlockLen - 1 : (m + 1 + z + LengthLen) % BlockLen = 0)
              = Zeros(count)
<1>1. PICK z0, last, done :
        z0 = Zeros(count) /\ last = LastBlocks(count) /\ done = BlockLen * full
  OBVIOUS
<1>2. /\ last \in {1, 2} /\ done \in Nat /\ m = done + count
      /\ z0 = ((BlockLen * last) - count) - (LengthLen + 1)
      /\ last = 2 <=> BlockLen - 1 - count < LengthLen
      /\ BlockLen * 1 = BlockLen /\ BlockLen * 2 = BlockLen + BlockLen
      /\ BlockLen * (full + last) = done + (BlockLen * last)
  <2>1. last \in {1, 2} /\ (last = 2 <=> BlockLen - 1 - count < LengthLen)
    BY <1>1 DEF LastBlocks
  <2>2. BlockLen * (full + last) = (BlockLen * full) + (BlockLen * last)
    BY <2>1, Lengths
  <2>3. QED  BY <1>1, <2>1, <2>2, Lengths DEF Zeros
<1>3. z0 \in 0 .. BlockLen - 1
  <2>1. CASE last = 1
    BY <1>2, <2>1, Lengths
  <2>2. CASE last = 2
    BY <1>2, <2>2, Lengths
  <2>3. QED  BY <1>2, <2>1, <2>2
<1>4. m + 1 + z0 + LengthLen = BlockLen * (full + last)
  BY <1>2, Lengths
<1>5. full + last \in Nat /\ BlockLen \in Nat \ {0}
  BY <1>2, Lengths
<1>6. (m + 1 + z0 + LengthLen) % BlockLen = 0
  <2>1. PICK q, x : q = full + last /\ x = BlockLen * q
    OBVIOUS
  <2>2. x = (BlockLen * q) + 0 /\ q \in Int /\ x \in Int /\ 0 \in 0 .. BlockLen - 1
    BY <1>5, <2>1
  <2>3. x % BlockLen = 0
    BY <1>5, <2>2, Quotient
  <2>4. QED  BY <1>4, <2>1, <2>3
<1>7. ASSUME NEW z \in 0 .. BlockLen - 1, (m + 1 + z + LengthLen) % BlockLen = 0
      PROVE  z = z0
  <2>1. PICK x, q : x = m + 1 + z + LengthLen /\ q = full + last
    OBVIOUS
  <2>2. /\ x = (BlockLen * q) + (z - z0) /\ x \in Int /\ q \in Int
        /\ BlockLen * (q - 1) = (BlockLen * q) - BlockLen /\ BlockLen * q \in Int
    BY <1>2, <1>3, <1>4, <2>1, Lengths
  <2>3. CASE z >= z0
    <3>1. PICK r : r = z - z0
      OBVIOUS
    <3>2. r \in 0 .. BlockLen - 1
      <4>1. z \in Int /\ z0 \in Int /\ z < BlockLen /\ z0 >= 0 /\ BlockLen \in Int
        BY <1>3, Lengths
      <4>2. r \in Int /\ r >= 0 /\ r < BlockLen
        BY <2>3, <3>1, <4>1
      <4>3. QED  BY <4>1, <4>2
    <3>3. x = (BlockLen * q) + r
      BY <2>2, <3>1
    <3>4. x % BlockLen = r
      BY <1>5, <2>2, <3>2, <3>3, Quotient, ZenonT(60)
    <3>5. QED  BY <1>3, <1>7, <2>1, <3>1, <3>4
  <2>4. CASE z < z0
    <3>1. PICK r, p : r = (BlockLen + z) - z0 /\ p = q - 1
      OBVIOUS
    <3>2. r \in 1 .. BlockLen - 1 /\ x = (BlockLen * p) + r /\ p \in Int
      BY <1>3, <1>5, <2>2, <2>4, <3>1
    <3>3. x % BlockLen = r
      <4>1. r \in 0 .. BlockLen - 1 /\ x \in Int
        BY <2>2, <3>2
      <4>2. QED  BY <1>5, <3>2, <4>1, Quotient
    <3>4. QED  BY <1>7, <2>1, <3>2, <3>3
  <2>5. QED  BY <1>3, <2>3, <2>4
<1>8. (CHOOSE z \in 0 .. BlockLen - 1 : (m + 1 + z + LengthLen) % BlockLen = 0) = z0
  BY <1>3, <1>6, <1>7
<1>9. QED  BY <1>1, <1>3, <1>4, <1>8

\* Two sequences of octets, one behind the other.
LEMMA Joined ==
  ASSUME NEW s1 \in Seq(Octets), NEW s2 \in Seq(Octets), NEW a, NEW b, a = Len(s1), b = Len(s2),
         NEW s, s = s1 \o s2
  PROVE  /\ s \in Seq(Octets)
         /\ Len(s) = a + b
         /\ \A i \in 1 .. a + b : s[i] = IF i <= a THEN s1[i] ELSE s2[i - a]
BY ConcatProperties

\* The byte of the padded message at position i, counted from 0.
Padding(m, zeros, i) ==
  IF i < m THEN byte(i)
  ELSE IF i = m THEN x80
  ELSE IF i <= m + zeros THEN x00
  ELSE length(i - (m + zeros + 1),
              Words(ByteBits * m)[IF i - (m + zeros + 1) < LengthLen \div 2 THEN 1 ELSE 2])

\* The padded message, byte by byte.
LEMMA PaddedBytes ==
  ASSUME NEW full \in Nat, NEW count \in 0 .. BlockLen - 1, NEW m,
         m = (BlockLen * full) + count, NEW zeros, zeros = Zeros(count)
  PROVE  /\ Len(Padded(m)) = m + 1 + zeros + LengthLen
         /\ \A i \in 0 .. m + zeros + LengthLen : Padded(m)[i + 1] = Padding(m, zeros, i)
<1> DEFINE low == (ByteBits * m) % WordSize
           high == ((ByteBits * m) \div WordSize) % WordSize
           half == LengthLen \div 2
           text == message(m)
           none == [i \in 1 .. zeros |-> x00]
           last == [i \in 1 .. LengthLen |-> length(i - 1, IF i <= half THEN low ELSE high)]
<1>1. m \in Nat /\ zeros \in Nat /\ LengthLen \in Nat /\ half \in Int
  <2>1. BlockLen * full \in Nat /\ LengthLen \in Nat /\ LengthLen \div 2 \in Int
    BY Lengths
  <2>2. Zeros(count) \in 0 .. BlockLen - 1
    BY FewestZeros
  <2>3. m \in Nat
    BY <2>1, Lengths
  <2>4. QED  BY <2>1, <2>2, <2>3, Lengths
<1>2. /\ zeros = CHOOSE z \in 0 .. BlockLen - 1 : (m + 1 + z + LengthLen) % BlockLen = 0
      /\ low \in Nat /\ high \in Nat
  <2>1. ByteBits * m \in Nat
    BY <1>1, Lengths
  <2>2. PICK x \in Nat : x = ByteBits * m
    BY <2>1
  <2>3. WordSize \in Nat \ {0} /\ x % WordSize \in Nat /\ x \div WordSize \in Nat
    <3>1. WordSize \in Nat \ {0}
      BY Lengths
    <3>2. x % WordSize \in 0 .. WordSize - 1 /\ x \div WordSize \in Nat
      BY <3>1, Parts
    <3>3. QED  BY <3>1, <3>2
  <2>4. PICK y \in Nat : y = x \div WordSize
    BY <2>3
  <2>5. y % WordSize \in Nat
    <3>1. y % WordSize \in 0 .. WordSize - 1
      BY <2>3, Parts
    <3>2. QED  BY <2>3, <3>1
  <2>6. QED  BY <2>2, <2>3, <2>4, <2>5, FewestZeros
<1>3. Padded(m) = text \o << x80 >> \o none \o last
  BY <1>2 DEF Padded
<1>4. Words(ByteBits * m)[1] = low /\ Words(ByteBits * m)[2] = high
  BY DEF Words
<1> HIDE DEF low, high, half
<1>5. /\ text \in Seq(Octets) /\ Len(text) = m /\ \A i \in 1 .. m : text[i] = byte(i - 1)
      /\ none \in Seq(Octets) /\ Len(none) = zeros /\ \A i \in 1 .. zeros : none[i] = x00
      /\ last \in Seq(Octets) /\ Len(last) = LengthLen
      /\ \A i \in 1 .. LengthLen : last[i] = length(i - 1, IF i <= half THEN low ELSE high)
      /\ << x80 >> \in Seq(Octets) /\ Len(<< x80 >>) = 1 /\ << x80 >>[1] = x80
  <2>1. \A i \in 1 .. m : byte(i - 1) \in Octets
    BY <1>1 DEF Octets
  <2>2. x80 \in Octets /\ x00 \in Octets
    BY DEF Octets
  <2>3. \A i \in 1 .. LengthLen : length(i - 1, IF i <= half THEN low ELSE high) \in Octets
    BY <1>1, <1>2 DEF Octets
  <2>4. text \in Seq(Octets) /\ Len(text) = m /\ \A i \in 1 .. m : text[i] = byte(i - 1)
    BY <1>1, <2>1 DEF message
  <2>5. none \in Seq(Octets) /\ Len(none) = zeros /\ \A i \in 1 .. zeros : none[i] = x00
    BY <1>1, <2>2
  <2>6. /\ last \in Seq(Octets) /\ Len(last) = LengthLen
        /\ \A i \in 1 .. LengthLen : last[i] = length(i - 1, IF i <= half THEN low ELSE high)
    BY <1>1, <2>3
  <2>7. << x80 >> \in Seq(Octets) /\ Len(<< x80 >>) = 1 /\ << x80 >>[1] = x80
    BY <2>2
  <2>8. QED  BY <2>4, <2>5, <2>6, <2>7
<1> HIDE DEF text, none, last
<1>6. PICK mark, l1, l2, l3 :
        /\ mark = << x80 >>
        /\ l1 = m + 1 /\ l2 = m + 1 + zeros /\ l3 = m + 1 + zeros + LengthLen
  OBVIOUS
<1>7. PICK s1 : s1 = text \o mark
  OBVIOUS
<1>8. PICK s2 : s2 = s1 \o none
  OBVIOUS
<1>9. PICK s3 : s3 = s2 \o last
  OBVIOUS
<1>10. s1 \in Seq(Octets) /\ Len(s1) = l1
       /\ \A i \in 1 .. l1 : s1[i] = IF i <= m THEN text[i] ELSE mark[i - m]
  <2>1. m = Len(text) /\ 1 = Len(mark) /\ text \in Seq(Octets) /\ mark \in Seq(Octets)
    BY <1>5, <1>6
  <2>2. s1 \in Seq(Octets) /\ Len(s1) = m + 1
        /\ \A i \in 1 .. m + 1 : s1[i] = IF i <= m THEN text[i] ELSE mark[i - m]
    <3>1. PICK t, one : t = text /\ one = 1
      OBVIOUS
    <3>2. m = Len(t) /\ one = Len(mark) /\ t \in Seq(Octets) /\ s1 = t \o mark
      BY <1>7, <2>1, <3>1
    <3>3. /\ s1 \in Seq(Octets) /\ Len(s1) = m + one
          /\ \A i \in 1 .. m + one : s1[i] = IF i <= m THEN t[i] ELSE mark[i - m]
      BY <2>1, <3>2, Joined
    <3>4. QED  BY <3>1, <3>3
  <2>3. QED  BY <1>6, <2>2
<1>11. s2 \in Seq(Octets) /\ Len(s2) = l2
       /\ \A i \in 1 .. l2 : s2[i] = IF i <= l1 THEN s1[i] ELSE none[i - l1]
  <2>1. l1 = Len(s1) /\ zeros = Len(none) /\ none \in Seq(Octets) /\ s1 \in Seq(Octets)
    BY <1>5, <1>10
  <2>2. s2 \in Seq(Octets) /\ Len(s2) = l1 + zeros
        /\ \A i \in 1 .. l1 + zeros : s2[i] = IF i <= l1 THEN s1[i] ELSE none[i - l1]
    BY <1>8, <2>1, Joined
  <2>3. QED  BY <1>6, <2>2
<1>12. Len(s3) = l3
       /\ \A i \in 1 .. l3 : s3[i] = IF i <= l2 THEN s2[i] ELSE last[i - l2]
  <2>1. l2 = Len(s2) /\ LengthLen = Len(last) /\ last \in Seq(Octets) /\ s2 \in Seq(Octets)
    BY <1>5, <1>11
  <2>2. s3 \in Seq(Octets) /\ Len(s3) = l2 + LengthLen
        /\ \A i \in 1 .. l2 + LengthLen : s3[i] = IF i <= l2 THEN s2[i] ELSE last[i - l2]
    BY <1>9, <2>1, Joined
  <2>3. QED  BY <1>6, <2>2
<1>13. Padded(m) = s3
  BY <1>3, <1>6, <1>7, <1>8, <1>9
<1>14. ASSUME NEW i \in 0 .. m + zeros + LengthLen
       PROVE  s3[i + 1] = Padding(m, zeros, i)
  <2>1. CASE i < m
    <3>1. /\ i + 1 \in 1 .. m /\ i + 1 \in 1 .. l1 /\ i + 1 \in 1 .. l2 /\ i + 1 \in 1 .. l3
          /\ i + 1 <= m /\ i + 1 <= l1 /\ i + 1 <= l2 /\ (i + 1) - 1 = i
      BY <1>1, <1>6, <2>1
    <3>2. s3[i + 1] = text[i + 1]
      BY <1>10, <1>11, <1>12, <3>1
    <3>3. QED  BY <1>5, <2>1, <3>1, <3>2 DEF Padding
  <2>2. CASE i = m
    <3>1. /\ i + 1 \in 1 .. l1 /\ i + 1 \in 1 .. l2 /\ i + 1 \in 1 .. l3
          /\ ~ (i + 1 <= m) /\ i + 1 <= l1 /\ i + 1 <= l2 /\ (i + 1) - m = 1
      BY <1>1, <1>6, <2>2
    <3>2. s3[i + 1] = mark[1]
      BY <1>10, <1>11, <1>12, <3>1
    <3>3. ~ (i < m)
      BY <1>1, <2>2
    <3>4. QED  BY <1>5, <1>6, <2>2, <3>2, <3>3 DEF Padding
  <2>3. CASE i > m /\ i <= m + zeros
    <3>1. s3[i + 1] = none[i - m]
      <4>1. /\ i + 1 \in 1 .. l2 /\ i + 1 \in 1 .. l3 /\ i + 1 <= l2
            /\ ~ (i + 1 <= l1) /\ (i + 1) - l1 = i - m
        BY <1>1, <1>6, <2>3
      <4>2. QED  BY <1>1, <1>11, <1>12, <4>1
    <3>2. i - m \in 1 .. zeros
      BY <1>1, <2>3
    <3>3. ~ (i < m) /\ i # m
      BY <1>1, <2>3
    <3>4. QED  BY <1>5, <2>3, <3>1, <3>2, <3>3 DEF Padding
  <2>4. CASE i > m + zeros
    <3>1. PICK j : j = i - (m + zeros + 1)
      OBVIOUS
    <3>2. /\ j + 1 \in 1 .. LengthLen /\ j \in Int /\ (j + 1) - 1 = j
          /\ ~ (i < m) /\ i # m /\ ~ (i <= m + zeros)
      BY <1>1, <2>4, <3>1
    <3>3. s3[i + 1] = last[j + 1]
      <4>1. i + 1 \in 1 .. l3 /\ ~ (i + 1 <= l2) /\ (i + 1) - l2 = j + 1
        BY <1>1, <1>6, <2>4, <3>1
      <4>2. QED  BY <1>12, <4>1
    <3>4. last[j + 1] = length(j, IF j + 1 <= half THEN low ELSE high)
      BY <1>5, <3>2
    <3>5. j + 1 <= half <=> j < half
      BY <1>1, <3>2
    <3>6. QED  BY <1>4, <3>1, <3>2, <3>3, <3>4, <3>5 DEF Padding, half
  <2>5. QED  BY <1>1, <2>1, <2>2, <2>3, <2>4
<1>15. QED  BY <1>6, <1>12, <1>13, <1>14

\* The blocks of a sequence of whole blocks.
LEMMA BlocksOf ==
  ASSUME NEW s, NEW blocks \in Nat, Len(s) = BlockLen * blocks
  PROVE  /\ Blocks(s) = [k \in 1 .. blocks |-> [j \in Bytes |-> s[(k - 1) * BlockLen + j + 1]]]
<1>1. PICK x : x = Len(s)
  OBVIOUS
<1>2. x = (BlockLen * blocks) + 0 /\ x \in Int /\ 0 \in 0 .. BlockLen - 1
  BY <1>1, Lengths
<1>3. x \div BlockLen = blocks
  BY <1>2, Lengths, Quotient
<1>4. QED  BY <1>1, <1>3 DEF Blocks

\* The word of the bit count a byte of the length field is from.
LEMMA WordOf ==
  ASSUME NEW i \in 0 .. LengthLen - 1
  PROVE  (i \div (LengthLen \div 2)) + 1 = IF i < LengthLen \div 2 THEN 1 ELSE 2
<1>1. PICK h : h = LengthLen \div 2
  OBVIOUS
<1>2. h \in Nat \ {0} /\ LengthLen = h + h
  BY <1>1, MD5Assumption DEF MD5Assumption
<1>3. CASE i < h
  <2>1. i = (h * 0) + i /\ i \in 0 .. h - 1 /\ i \in Int
    BY <1>2, <1>3
  <2>2. i \div h = 0
    BY <1>2, <2>1, Quotient
  <2>3. QED  BY <1>1, <1>3, <2>2
<1>4. CASE i >= h
  <2>1. PICK r : r = i - h
    OBVIOUS
  <2>2. i = (h * 1) + r /\ r \in 0 .. h - 1 /\ i \in Int
    BY <1>2, <1>4, <2>1
  <2>3. i \div h = 1
    BY <1>2, <2>2, Quotient
  <2>4. ~ (i < h)
    BY <1>2, <1>4
  <2>5. QED  BY <1>1, <2>3, <2>4
<1>5. QED  BY <1>2, <1>3, <1>4

\* The blocks MD5Final makes of the bytes that wait are the last blocks of the
\* padded message.
LEMMA PadEnds ==
  ASSUME NEW full \in Nat, NEW count \in 0 .. BlockLen - 1, NEW zeros, zeros = Zeros(count),
         n = (BlockLen * full) + count, bits = Words(ByteBits * n), in \in Contents,
         \A j \in Bytes : j < count => in[j] = byte((BlockLen * full) + j)
  PROVE  /\ Len(Pad(count)) = LastBlocks(count)
         /\ \E S : Pad(count) \in Seq(S)
         /\ \A k \in 1 .. LastBlocks(count) : Pad(count)[k] =
              [j \in Bytes |-> Padding(n, zeros, (BlockLen * (full + (k - 1))) + j)]
<1> DEFINE marked == [in EXCEPT ![count] = x80]
           room == BlockLen - LengthLen
<1>1. PICK done : done = BlockLen * full
  OBVIOUS
<1>2. /\ done \in Nat /\ n = done + count /\ BlockLen * (full + (1 - 1)) = done
      /\ BlockLen * (full + (2 - 1)) = done + BlockLen
  <2>1. BlockLen * (full + 1) = (BlockLen * full) + BlockLen /\ BlockLen * full \in Nat
    BY Lengths
  <2>2. full + (1 - 1) = full /\ full + (2 - 1) = full + 1
    OBVIOUS
  <2>3. QED  BY <1>1, <2>1, <2>2
<1>3. room \in 1 .. BlockLen - 1 /\ Bytes = 0 .. BlockLen - 1 /\ BlockLen \in Nat
  BY Lengths
<1>4. ASSUME NEW j \in Bytes
      PROVE  /\ j < count => marked[j] = byte(done + j)
             /\ j = count => marked[j] = x80
  BY <1>1, <1>3 DEF Contents
<1>5. ASSUME NEW base, NEW block, NEW j \in Bytes, base + j = n + zeros + 1 + (j - room),
             j >= room
      PROVE  WithLength(block)[j] = Padding(n, zeros, base + j)
  <2>1. PICK i : i = j - room
    OBVIOUS
  <2>2. i \in 0 .. LengthLen - 1
    BY <1>3, <1>5, <2>1, Lengths
  <2>3. WithLength(block)[j] = length(i, bits[IF i < LengthLen \div 2 THEN 1 ELSE 2])
    <3>1. ~ (j < BlockLen - LengthLen) /\ i = j - (BlockLen - LengthLen)
      BY <1>3, <1>5, <2>1
    <3>2. WithLength(block)[j] = length(i, bits[(i \div (LengthLen \div 2)) + 1])
      BY <3>1 DEF WithLength
    <3>3. QED  BY <2>2, <3>2, WordOf
  <2>4. zeros \in Nat /\ n \in Nat
    <3>1. Zeros(count) \in 0 .. BlockLen - 1
      BY FewestZeros
    <3>2. QED  BY <1>2, <3>1
  <2>5. /\ ~ (base + j < n) /\ base + j # n /\ ~ (base + j <= n + zeros)
        /\ (base + j) - (n + zeros + 1) = i
    BY <1>5, <2>1, <2>2, <2>4, Lengths, SMTT(20)
  <2>6. QED  BY <2>3, <2>5 DEF Padding
<1> HIDE DEF marked, room
<1>6. CASE BlockLen - 1 - count >= LengthLen
  <2>1. /\ LastBlocks(count) = 1 /\ zeros = room - (count + 1) /\ count < room
        /\ ~ (BlockLen - 1 - count < LengthLen)
    <3>1. ~ (BlockLen - 1 - count < LengthLen)
      BY <1>6, Lengths
    <3>2. LastBlocks(count) = 1
      BY <3>1 DEF LastBlocks
    <3>3. BlockLen * 1 = BlockLen
      BY Lengths
    <3>4. zeros = (BlockLen - count) - (LengthLen + 1)
      BY <3>2, <3>3 DEF Zeros
    <3>5. QED  BY <1>6, <3>1, <3>2, <3>4, Lengths DEF room
  <2>2. PICK block : block = Clear(marked, count + 1, room)
    OBVIOUS
  <2>3. Pad(count) = << WithLength(block) >>
    BY <2>1, <2>2 DEF Pad, marked, room
  <2>4. ASSUME NEW j \in Bytes
        PROVE  WithLength(block)[j] = Padding(n, zeros, done + j)
    <3>1. CASE j >= room
      <4>1. done + j = n + zeros + 1 + (j - room)
        BY <1>2, <1>3, <2>1
      <4>2. QED  BY <1>5, <3>1, <4>1
    <3>2. CASE j < room
      <4>1. WithLength(block)[j] = IF j \in count + 1 .. room - 1 THEN x00 ELSE marked[j]
        BY <2>2, <3>2 DEF WithLength, Clear, room
      <4>2. CASE j < count
        <5>1. ~ (j \in count + 1 .. room - 1) /\ done + j < n
          BY <1>2, <1>3, <4>2
        <5>2. QED  BY <1>4, <4>1, <4>2, <5>1 DEF Padding
      <4>3. CASE j = count
        <5>1. ~ (j \in count + 1 .. room - 1) /\ done + j = n /\ ~ (done + j < n)
          BY <1>2, <1>3, <4>3
        <5>2. QED  BY <1>4, <4>1, <4>3, <5>1 DEF Padding
      <4>4. CASE j > count
        <5>1. /\ j \in count + 1 .. room - 1 /\ ~ (done + j < n) /\ done + j # n
              /\ done + j <= n + zeros
          BY <1>2, <1>3, <2>1, <3>2, <4>4
        <5>2. QED  BY <4>1, <5>1 DEF Padding
      <4>5. QED  BY <1>3, <4>2, <4>3, <4>4
    <3>3. QED  BY <1>3, <3>1, <3>2
  <2>5. WithLength(block) = [j \in Bytes |-> Padding(n, zeros, done + j)]
    <3>1. WithLength(block) = [j \in Bytes |-> WithLength(block)[j]]
      BY DEF WithLength
    <3>2. QED  BY <2>4, <3>1
  <2>6. Pad(count) \in Seq({WithLength(block)})
    BY <2>3
  <2>7. /\ Len(Pad(count)) = LastBlocks(count)
        /\ \A k \in 1 .. LastBlocks(count) : Pad(count)[k] =
             [j \in Bytes |-> Padding(n, zeros, (BlockLen * (full + (k - 1))) + j)]
    BY <1>2, <2>1, <2>3, <2>5
  <2>8. \E S : Pad(count) \in Seq(S)
    BY <2>6
  <2>9. QED  BY <2>7, <2>8
<1>7. CASE BlockLen - 1 - count < LengthLen
  <2>1. LastBlocks(count) = 2 /\ zeros = (BlockLen + room) - (count + 1)
    <3>1. LastBlocks(count) = 2
      BY <1>7 DEF LastBlocks
    <3>2. BlockLen * 2 = BlockLen + BlockLen
      BY Lengths
    <3>3. zeros = ((BlockLen + BlockLen) - count) - (LengthLen + 1)
      BY <3>1, <3>2 DEF Zeros
    <3>4. QED  BY <3>1, <3>3, Lengths DEF room
  <2>2. PICK first, second :
          first = Clear(marked, count + 1, BlockLen) /\ second = Clear(in, 0, room)
    OBVIOUS
  <2>3. Pad(count) = << first, WithLength(second) >>
    BY <1>7, <2>2 DEF Pad, marked, room
  <2>4. ASSUME NEW j \in Bytes
        PROVE  first[j] = Padding(n, zeros, done + j)
    <3>1. first[j] = IF j \in count + 1 .. BlockLen - 1 THEN x00 ELSE marked[j]
      BY <2>2 DEF Clear
    <3>2. CASE j < count
      <4>1. ~ (j \in count + 1 .. BlockLen - 1) /\ done + j < n
        BY <1>2, <1>3, <3>2
      <4>2. QED  BY <1>4, <3>1, <3>2, <4>1 DEF Padding
    <3>3. CASE j = count
      <4>1. ~ (j \in count + 1 .. BlockLen - 1) /\ done + j = n /\ ~ (done + j < n)
        BY <1>2, <1>3, <3>3
      <4>2. QED  BY <1>4, <3>1, <3>3, <4>1 DEF Padding
    <3>4. CASE j > count
      <4>1. /\ j \in count + 1 .. BlockLen - 1 /\ ~ (done + j < n) /\ done + j # n
            /\ done + j <= n + zeros
        BY <1>2, <1>3, <2>1, <3>4
      <4>2. QED  BY <3>1, <4>1 DEF Padding
    <3>5. QED  BY <1>3, <3>2, <3>3, <3>4
  <2>5. ASSUME NEW j \in Bytes
        PROVE  WithLength(second)[j] = Padding(n, zeros, (done + BlockLen) + j)
    <3>1. CASE j >= room
      <4>1. (done + BlockLen) + j = n + zeros + 1 + (j - room)
        BY <1>2, <1>3, <2>1
      <4>2. QED  BY <1>5, <3>1, <4>1
    <3>2. CASE j < room
      <4>1. WithLength(second)[j] = x00
        <5>1. j \in 0 .. room - 1 /\ j < BlockLen - LengthLen
          BY <1>3, <3>2 DEF room
        <5>2. QED  BY <2>2, <5>1 DEF WithLength, Clear
      <4>2. /\ ~ ((done + BlockLen) + j < n) /\ (done + BlockLen) + j # n
            /\ (done + BlockLen) + j <= n + zeros
        BY <1>2, <1>3, <2>1, <3>2
      <4>3. QED  BY <4>1, <4>2 DEF Padding
    <3>3. QED  BY <1>3, <3>1, <3>2
  <2>6. /\ first = [j \in Bytes |-> Padding(n, zeros, done + j)]
        /\ WithLength(second) = [j \in Bytes |-> Padding(n, zeros, (done + BlockLen) + j)]
    <3>1. /\ first = [j \in Bytes |-> first[j]]
          /\ WithLength(second) = [j \in Bytes |-> WithLength(second)[j]]
      BY <2>2 DEF WithLength, Clear
    <3>2. QED  BY <2>4, <2>5, <3>1
  <2>7. Pad(count) \in Seq({first, WithLength(second)})
    BY <2>3
  <2>8. /\ Len(Pad(count)) = LastBlocks(count)
        /\ \A k \in 1 .. LastBlocks(count) : Pad(count)[k] =
             [j \in Bytes |-> Padding(n, zeros, (BlockLen * (full + (k - 1))) + j)]
    BY <1>2, <2>1, <2>3, <2>6
  <2>9. \E S : Pad(count) \in Seq(S)
    BY <2>7
  <2>10. QED  BY <2>8, <2>9
<1>8. BlockLen - 1 - count >= LengthLen \/ BlockLen - 1 - count < LengthLen
  BY Lengths
<1>9. QED  BY <1>6, <1>7, <1>8

\* MD5Final returns the blocks of the padded message.
LEMMA FinalStep ==
  ASSUME ContextInv, Final
  PROVE  ContextInv'
<1>1. /\ pc = "idle" /\ ~ finalized /\ len = 0 /\ TypeInv /\ BufferInv /\ n \in Nat
      /\ Waiting = n % BlockLen /\ bits = Words(ByteBits * n)
      /\ digest' = buf \o Pad(held(bits[1])) /\ finalized' = TRUE
      /\ in' = [j \in Bytes |-> x00] /\ buf' = << >>
      /\ pc' = pc /\ n' = n /\ len' = len
  BY DEF Final, ContextInv, TypeInv, Waiting
<1>2. PICK full, count, zeros, last :
        /\ full = Len(buf) /\ count = n % BlockLen
        /\ zeros = Zeros(count) /\ last = LastBlocks(count)
  OBVIOUS
<1>3. /\ full \in Nat /\ count \in 0 .. BlockLen - 1 /\ n = (BlockLen * full) + count
      /\ last \in {1, 2} /\ held(bits[1]) = count /\ BlockLen * full \in Nat
  <2>1. full \in Nat
    BY <1>1, <1>2 DEF TypeInv
  <2>2. count \in 0 .. BlockLen - 1
    BY <1>1, <1>2, Lengths
  <2>3. held(bits[1]) = count
    BY <1>1, <1>2, Holding
  <2>4. (BlockLen * full) + count = n - 0
    BY <1>1, <1>2 DEF BufferInv
  <2>5. BlockLen * full \in Nat
    BY <2>1, Lengths
  <2>6. last \in {1, 2}
    BY <1>2 DEF LastBlocks
  <2>7. QED  BY <1>1, <2>1, <2>2, <2>3, <2>4, <2>5, <2>6
<1>4. /\ Len(Pad(count)) = last
      /\ \E S : Pad(count) \in Seq(S)
      /\ \A k \in 1 .. last : Pad(count)[k] =
           [j \in Bytes |-> Padding(n, zeros, (BlockLen * (full + (k - 1))) + j)]
  <2>1. \A j \in Bytes : j < count => in[j] = byte((BlockLen * full) + j)
    BY <1>1, <1>2 DEF BufferInv
  <2>2. in \in Contents
    BY <1>1 DEF TypeInv
  <2>3. QED  BY <1>1, <1>2, <1>3, <2>1, <2>2, PadEnds
<1>5. /\ Len(Padded(n)) = BlockLen * (full + last)
      /\ \A i \in 0 .. n + zeros + LengthLen : Padded(n)[i + 1] = Padding(n, zeros, i)
      /\ n + 1 + zeros + LengthLen = BlockLen * (full + last) /\ zeros \in Nat
  <2>1. /\ Len(Padded(n)) = n + 1 + zeros + LengthLen
        /\ \A i \in 0 .. n + zeros + LengthLen : Padded(n)[i + 1] = Padding(n, zeros, i)
    <3>1. PICK m : m = n
      OBVIOUS
    <3>2. m = (BlockLen * full) + count
      BY <1>3, <3>1
    <3>3. full \in Nat /\ count \in 0 .. BlockLen - 1 /\ zeros = Zeros(count)
      BY <1>2, <1>3
    <3>4. Len(Padded(m)) = m + 1 + zeros + LengthLen
      BY <3>2, <3>3, PaddedBytes
    <3>5. \A i \in 0 .. m + zeros + LengthLen : Padded(m)[i + 1] = Padding(m, zeros, i)
      BY <3>2, <3>3, PaddedBytes, SMTT(20)
    <3>6. QED  BY <3>1, <3>4, <3>5
  <2>2. n + 1 + zeros + LengthLen = BlockLen * (full + last) /\ zeros \in Nat
    <3>1. /\ Zeros(count) \in 0 .. BlockLen - 1
          /\ n + 1 + Zeros(count) + LengthLen = BlockLen * (full + LastBlocks(count))
      BY <1>3, FewestZeros
    <3>2. QED  BY <1>2, <3>1
  <2>3. QED  BY <2>1, <2>2
<1>6. PICK all : all = full + last
  OBVIOUS
<1>7. all \in Nat /\ BlockLen * all = n + 1 + zeros + LengthLen
  BY <1>3, <1>5, <1>6
<1>8. Blocks(Padded(n)) =
        [k \in 1 .. all |-> [j \in Bytes |-> Padded(n)[(k - 1) * BlockLen + j + 1]]]
  BY <1>5, <1>6, <1>7, BlocksOf
<1>9. ASSUME NEW k \in 1 .. all
      PROVE  Blocks(Padded(n))[k] = [j \in Bytes |-> Padding(n, zeros, (BlockLen * (k - 1)) + j)]
  <2>1. ASSUME NEW j \in Bytes
        PROVE  Padded(n)[(k - 1) * BlockLen + j + 1] = Padding(n, zeros, (BlockLen * (k - 1)) + j)
    <3>1. PICK start : start = BlockLen * (k - 1)
      OBVIOUS
    <3>2. (k - 1) * BlockLen = start /\ start \in Nat /\ start + BlockLen <= BlockLen * all
      <4>1. /\ (k - 1) * BlockLen = BlockLen * (k - 1) /\ BlockLen * (k - 1) \in Nat
            /\ BlockLen * k = (BlockLen * (k - 1)) + BlockLen
            /\ BlockLen * k <= BlockLen * all
        BY <1>7, Lengths
      <4>2. QED  BY <3>1, <4>1
    <3>3. start + j \in 0 .. n + zeros + LengthLen
      <4>1. start + j >= 0 /\ start + j < BlockLen * all /\ start + j \in Int
        BY <1>5, <1>7, <3>2, Lengths
      <4>2. QED  BY <1>1, <1>5, <1>7, <4>1, Lengths
    <3>4. Padded(n)[start + j + 1] = Padding(n, zeros, start + j)
      BY <1>5, <3>3
    <3>5. QED  BY <3>1, <3>2, <3>4
  <2>2. QED  BY <1>8, <2>1
<1>10. PICK pad : pad = Pad(count)
  OBVIOUS
<1>11. /\ digest' = buf \o pad /\ buf \in Seq(Contents) /\ Len(pad) = last
       /\ \A k \in 1 .. last : pad[k] =
            [j \in Bytes |-> Padding(n, zeros, (BlockLen * (full + (k - 1))) + j)]
  BY <1>1, <1>3, <1>4, <1>10 DEF TypeInv
<1>12. digest' = [k \in 1 .. all |-> IF k <= full THEN buf[k] ELSE pad[k - full]]
  <2>1. PICK S : pad \in Seq(S)
    BY <1>4, <1>10
  <2>2. PICK b, d : b = buf /\ d = digest'
    OBVIOUS
  <2>3. b \in Seq(Contents \cup S) /\ pad \in Seq(Contents \cup S) /\ d = b \o pad
    BY <1>11, <2>1, <2>2
  <2>4. full = Len(b) /\ last = Len(pad) /\ all = full + last
    BY <1>2, <1>6, <1>11, <2>2
  <2>5. d = [k \in 1 .. all |-> IF k <= full THEN b[k] ELSE pad[k - full]]
    <3>1. /\ d \in Seq(Contents \cup S) /\ Len(d) = all
          /\ \A k \in 1 .. all : d[k] = IF k <= full THEN b[k] ELSE pad[k - full]
      BY <2>3, <2>4, ConcatProperties
    <3>2. d = [k \in 1 .. all |-> d[k]]
      BY <3>1
    <3>3. QED  BY <3>1, <3>2
  <2>6. QED  BY <2>2, <2>5
<1>13. ASSUME NEW k \in 1 .. all
       PROVE  digest'[k] = [j \in Bytes |-> Padding(n, zeros, (BlockLen * (k - 1)) + j)]
  <2>1. CASE k <= full
    <3>1. k \in 1 .. Len(buf) /\ buf[k] \in Contents
      BY <1>2, <1>3, <1>11, <2>1
    <3>2. ASSUME NEW j \in Bytes
          PROVE  buf[k][j] = Padding(n, zeros, (BlockLen * (k - 1)) + j)
      <4>1. buf[k][j] = byte((BlockLen * (k - 1)) + j)
        BY <1>1, <3>1 DEF BufferInv
      <4>2. (BlockLen * (k - 1)) + j < n
        <5>1. /\ BlockLen * k = (BlockLen * (k - 1)) + BlockLen
              /\ BlockLen * k <= BlockLen * full /\ BlockLen * (k - 1) \in Int
          BY <1>3, <2>1, Lengths
        <5>2. PICK start, done, next :
                start = BlockLen * (k - 1) /\ done = BlockLen * full /\ next = BlockLen * k
          OBVIOUS
        <5>3. next = start + BlockLen /\ next <= done /\ start \in Int /\ n = done + count
              /\ done \in Nat
          BY <1>3, <5>1, <5>2
        <5>4. start + j < n
          BY <1>3, <5>3, Lengths
        <5>5. QED  BY <5>2, <5>4
      <4>3. QED  BY <4>1, <4>2 DEF Padding
    <3>3. buf[k] = [j \in Bytes |-> buf[k][j]]
      BY <3>1 DEF Contents
    <3>4. QED  BY <1>12, <2>1, <3>2, <3>3
  <2>2. CASE k > full
    <3>1. PICK i : i = k - full
      OBVIOUS
    <3>2. i \in 1 .. last /\ full + (i - 1) = k - 1 /\ ~ (k <= full)
      BY <1>3, <1>6, <2>2, <3>1
    <3>3. digest'[k] = pad[i]
      BY <1>12, <3>1, <3>2
    <3>4. pad[i] = [j \in Bytes |-> Padding(n, zeros, (BlockLen * (full + (i - 1))) + j)]
      BY <1>11, <3>2
    <3>5. QED  BY <3>2, <3>3, <3>4
  <2>3. QED  BY <1>3, <1>7, <2>1, <2>2
<1>14. digest' = Blocks(Padded(n))
  <2>1. /\ digest' = [k \in 1 .. all |-> digest'[k]]
        /\ Blocks(Padded(n)) = [k \in 1 .. all |-> Blocks(Padded(n))[k]]
    BY <1>8, <1>12
  <2>2. QED  BY <1>9, <1>13, <2>1
<1>15. TypeInv'
  <2>1. in' \in Contents
    <3>1. x00 \in Octets
      BY DEF Octets
    <3>2. QED  BY <1>1, <3>1 DEF Contents
  <2>2. buf' \in Seq(Contents)
    BY <1>1
  <2>3. QED  BY <1>1, <2>1, <2>2 DEF TypeInv
<1>16. QED
  <2>1. (Blocks(Padded(n)))' = Blocks(Padded(n))
    BY <1>1 DEF Blocks, Padded, message
  <2>2. QED  BY <1>1, <1>14, <1>15, <2>1 DEF ContextInv

-----------------------------------------------------------------------------
\* The invariant holds in every reachable state.
LEMMA SpecContext == Spec => []ContextInv
<1>1. Init => ContextInv
  <2> SUFFICES ASSUME Init
               PROVE  ContextInv
    OBVIOUS
  <2>1. /\ pc = "idle" /\ n = 0 /\ len = 0 /\ bits = << 0, 0 >> /\ in = [j \in Bytes |-> x00]
        /\ buf = << >> /\ finalized = FALSE /\ digest = NoDigest
    BY DEF Init
  <2>2. TypeInv
    <3>1. x00 \in Octets
      BY DEF Octets
    <3>2. in \in Contents
      BY <2>1, <3>1 DEF Contents
    <3>3. buf \in Seq(Contents)
      BY <2>1
    <3>4. n \in Nat /\ len \in 0 .. n /\ pc \in {"idle", "blocks"}
      BY <2>1
    <3>5. finalized \in BOOLEAN /\ pc = "idle" /\ len = 0
      BY <2>1
    <3>6. QED  BY <3>2, <3>3, <3>4, <3>5 DEF TypeInv
  <2>3. 0 % BlockLen = 0 /\ 0 % WordSize = 0 /\ 0 \div WordSize = 0 /\ ByteBits * 0 = 0
    <3>1. /\ BlockLen \in Nat \ {0} /\ WordSize \in Nat \ {0} /\ ByteBits \in Nat
          /\ 0 = (BlockLen * 0) + 0 /\ 0 = (WordSize * 0) + 0
          /\ 0 \in 0 .. BlockLen - 1 /\ 0 \in 0 .. WordSize - 1
      BY Lengths
    <3>2. 0 % BlockLen = 0
      BY <3>1, Quotient
    <3>3. 0 % WordSize = 0 /\ 0 \div WordSize = 0
      BY <3>1, Quotient
    <3>4. QED  BY <3>1, <3>2, <3>3
  <2>4. bits = Words(ByteBits * n)
    BY <2>1, <2>3 DEF Words
  <2>5. BufferInv
    <3>1. Waiting = 0 /\ Len(buf) = 0 /\ BlockLen * 0 = 0
      BY <2>1, <2>3, Lengths DEF Waiting
    <3>2. \A j \in Bytes : ~ (j < 0)
      BY Lengths
    <3>3. QED  BY <2>1, <3>1, <3>2 DEF BufferInv
  <2>6. QED  BY <2>1, <2>2, <2>4, <2>5 DEF ContextInv
<1>2. ContextInv /\ [Next]_vars => ContextInv'
  <2> SUFFICES ASSUME ContextInv, [Next]_vars
               PROVE  ContextInv'
    OBVIOUS
  <2>1. CASE UNCHANGED vars
    <3>1. /\ pc' = pc /\ n' = n /\ len' = len /\ bits' = bits /\ in' = in /\ buf' = buf
          /\ finalized' = finalized /\ digest' = digest
      BY <2>1 DEF vars
    <3>2. TypeInv' /\ (BufferInv' <=> BufferInv) /\ (Blocks(Padded(n)))' = Blocks(Padded(n))
      BY <3>1 DEF ContextInv, TypeInv, BufferInv, Waiting, Blocks, Padded, message
    <3>3. QED  BY <3>1, <3>2 DEF ContextInv
  <2>2. ASSUME NEW l \in 0 .. MaxBytes - n, Update(l)
        PROVE  ContextInv'
    <3>1. l \in Nat
      BY MD5Assumption DEF MD5Assumption, ContextInv, TypeInv
    <3>2. QED  BY <2>2, <3>1, UpdateStep
  <2>3. CASE UpdateBlock \/ UpdateRest
    BY <2>3, LoopStep
  <2>4. CASE Final
    BY <2>4, FinalStep
  <2>5. QED  BY <2>1, <2>2, <2>3, <2>4 DEF Next
<1>3. QED  BY <1>1, <1>2, PTL DEF Spec

(***************************************************************************)
(* However the message is cut into calls of update(), MD5Transform is      *)
(* given the blocks of the message as RFC 1321 pads it.                    *)
(***************************************************************************)
THEOREM DigestIsRight == Spec => []DigestIsOfMessage
<1>1. ContextInv => DigestIsOfMessage
  BY DEF ContextInv, DigestIsOfMessage
<1>2. QED  BY <1>1, SpecContext, PTL

(***************************************************************************)
(* Between any two steps of a call, the blocks transformed and the bytes   *)
(* in the buffer are the message so far, and the two words of ctx->bits    *)
(* count it.                                                               *)
(***************************************************************************)
THEOREM ContextIsRight == Spec => []ContextIsOfMessage
<1>1. ContextInv => ContextIsOfMessage
  <2> SUFFICES ASSUME ContextInv, ~ finalized
               PROVE  LET done == n - len
                          kept == IF pc = "idle" THEN held(bits[1]) ELSE 0
                      IN  /\ bits[1] + WordSize * bits[2] = (ByteBits * n) % (WordSize * WordSize)
                          /\ Len(buf) * BlockLen + kept = done
                          /\ \A k \in DOMAIN buf, j \in Bytes :
                               buf[k][j] = byte((k - 1) * BlockLen + j)
                          /\ \A j \in 0 .. kept - 1 : in[j] = byte(Len(buf) * BlockLen + j)
    BY DEF ContextIsOfMessage
  <2>1. /\ BufferInv /\ bits = Words(ByteBits * n) /\ n \in Nat /\ buf \in Seq(Contents)
        /\ len \in 0 .. n /\ Len(buf) \in Nat /\ DOMAIN buf = 1 .. Len(buf)
    BY DEF ContextInv, TypeInv
  <2>2. ByteBits * n \in Nat
    BY <2>1, Lengths
  <2>3. bits[1] + (WordSize * bits[2]) = (ByteBits * n) % (WordSize * WordSize)
    BY <2>1, <2>2, BothWords
  <2>4. PICK kept : kept = IF pc = "idle" THEN held(bits[1]) ELSE 0
    OBVIOUS
  <2>5. kept = Waiting /\ kept \in 0 .. BlockLen - 1
    <3>1. held(bits[1]) = n % BlockLen
      BY <2>1, Holding
    <3>2. n % BlockLen \in 0 .. BlockLen - 1
      BY <2>1, Lengths
    <3>3. QED  BY <2>4, <3>1, <3>2, Lengths DEF Waiting
  <2>6. Len(buf) * BlockLen = BlockLen * Len(buf)
    BY <2>1, Lengths
  <2>7. Len(buf) * BlockLen + kept = n - len
    BY <2>1, <2>5, <2>6 DEF BufferInv
  <2>8. ASSUME NEW k \in DOMAIN buf, NEW j \in Bytes
        PROVE  buf[k][j] = byte((k - 1) * BlockLen + j)
    <3>1. k \in 1 .. Len(buf) /\ (k - 1) * BlockLen = BlockLen * (k - 1)
      BY <2>1, Lengths
    <3>2. QED  BY <2>1, <3>1 DEF BufferInv
  <2>9. ASSUME NEW j \in 0 .. kept - 1
        PROVE  in[j] = byte(Len(buf) * BlockLen + j)
    <3>1. j \in Bytes /\ j < kept
      BY <2>5, Lengths
    <3>2. QED  BY <2>1, <2>5, <2>6, <3>1 DEF BufferInv
  <2>10. QED  BY <2>3, <2>4, <2>7, <2>8, <2>9
<1>2. QED  BY <1>1, SpecContext, PTL
=============================================================================
