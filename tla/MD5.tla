-------------------------------- MODULE MD5 --------------------------------
(***************************************************************************)
(* MD5 of a message that arrives in pieces (md5.c and md5_generator in     *)
(* md5.h), with which frag_find hashes blocks and whole masters.           *)
(*                                                                         *)
(* What is modelled is what goes wrong in such code: the buffer, the bit   *)
(* count in two words, the padding.  A byte of the message is known by its *)
(* position, so that no two of them can be confused; MD5Transform is a     *)
(* function of the blocks it was given, and ctx->buf is the sequence of    *)
(* these.  byteReverse is empty on a little-endian machine.                *)
(***************************************************************************)
EXTENDS Integers, Sequences

CONSTANTS
  BlockLen,   \* bytes of a block: 64
  LengthLen,  \* bytes of the length behind the padding: 8
  ByteBits,   \* bits of a byte: 8
  WordSize,   \* values of a uint32_t: 2^32
  MaxBytes    \* bound: no message is longer

ASSUME MD5Assumption ==
  /\ BlockLen \in Nat /\ LengthLen \in 1 .. BlockLen - 1 /\ LengthLen % 2 = 0
  /\ ByteBits \in Nat \ {0}
  /\ WordSize \in Nat \ {0} /\ WordSize % (ByteBits * BlockLen) = 0
  /\ MaxBytes \in Nat

VARIABLES
  pc,         \* "idle", or "blocks" inside MD5Update
  n,          \* bytes the generator was given, those of a running call included
  len,        \* bytes of the running call that are still to be copied
  bits,       \* ctx->bits
  in,         \* ctx->in
  buf,        \* ctx->buf
  finalized,
  digest      \* what final() returned

vars == << pc, n, len, bits, in, buf, finalized, digest >>

byte(i)      == << "message", i >>
x80          == << "0x80" >>
x00          == << "0x00" >>
length(j, w) == << "length", j, w >>

NoDigest == << >>
Bytes    == 0 .. BlockLen - 1

\* Bytes in ctx->in, as the low word has it.
held(low) == (low \div ByteBits) % BlockLen

\* memcpy(block + at, message + from, count)
Copy(block, at, from, count) ==
  [j \in Bytes |-> IF j \in at .. at + count - 1 THEN byte(from + j - at) ELSE block[j]]

\* memset(block + from, 0, upto - from)
Clear(block, from, upto) ==
  [j \in Bytes |-> IF j \in from .. upto - 1 THEN x00 ELSE block[j]]

MD5Transform(b, block) == Append(b, block)

\* Mutant: the carry into the high word is lost.
CountNoCarry(b, l) ==
  << (b[1] + (ByteBits * l)) % WordSize, (b[2] + ((ByteBits * l) \div WordSize)) % WordSize >>

\* The number of bits after l more bytes.
Count(b, l) ==
  LET low == (b[1] + ((ByteBits * l) % WordSize)) % WordSize
  IN  << low, (b[2] + (IF low < b[1] THEN 1 ELSE 0) + ((ByteBits * l) \div WordSize)) % WordSize >>

-----------------------------------------------------------------------------
\* MD5Init, by the constructor of md5_generator.
Init ==
  /\ pc = "idle"
  /\ n = 0
  /\ len = 0
  /\ bits = << 0, 0 >>
  /\ in = [j \in Bytes |-> x00]
  /\ buf = << >>
  /\ finalized = FALSE
  /\ digest = NoDigest

\* Mutant: an exactly full buffer is not transformed.
UpdateLeadingLate(l) ==
  LET t == held(bits[1]) IN
  /\ t # 0
  /\ in' = Copy(in, t, n, IF l <= BlockLen - t THEN l ELSE BlockLen - t)
  /\ IF l <= BlockLen - t
     THEN pc' = "idle" /\ len' = 0 /\ UNCHANGED buf
     ELSE pc' = "blocks" /\ len' = l - (BlockLen - t) /\ buf' = MD5Transform(buf, in')

(***************************************************************************)
(* MD5Update up to its loop.  With bytes in the buffer, the call fills it, *)
(* and transforms it if it gets full.                                      *)
(***************************************************************************)
UpdateLeading(l) ==
  LET t == held(bits[1])
      room == BlockLen - t IN
  /\ t # 0
  /\ in' = Copy(in, t, n, IF l < room THEN l ELSE room)
  /\ \/ l < room /\ pc' = "idle" /\ len' = 0 /\ UNCHANGED buf
     \/ l >= room /\ pc' = "blocks" /\ len' = l - room /\ buf' = MD5Transform(buf, in')

UpdateAligned(l) ==
  /\ held(bits[1]) = 0
  /\ pc' = "blocks"
  /\ len' = l
  /\ UNCHANGED << in, buf >>

Update(l) ==
  /\ pc = "idle"
  /\ ~ finalized
  /\ bits' = Count(bits, l)
  /\ n' = n + l
  /\ UpdateLeading(l) \/ UpdateAligned(l)
  /\ UNCHANGED << finalized, digest >>

\* One round of the loop.
UpdateBlock ==
  /\ pc = "blocks"
  /\ len >= BlockLen
  /\ in' = Copy(in, 0, n - len, BlockLen)
  /\ buf' = MD5Transform(buf, in')
  /\ len' = len - BlockLen
  /\ UNCHANGED << pc, n, bits, finalized, digest >>

\* What is left after the loop.
UpdateRest ==
  /\ pc = "blocks"
  /\ len < BlockLen
  /\ in' = Copy(in, 0, n - len, len)
  /\ len' = 0
  /\ pc' = "idle"
  /\ UNCHANGED << n, bits, buf, finalized, digest >>

\* The last block: zeros in front of the length, the two words of the bit count.
WithLength(block) ==
  [j \in Bytes |-> IF j < BlockLen - LengthLen THEN block[j]
                   ELSE LET i == j - (BlockLen - LengthLen)
                            w == (i \div (LengthLen \div 2)) + 1
                        IN  length(i, bits[w])]

\* Mutant: the 0x80 is not counted when the room for the length is measured.
PadForgetsMark(count) ==
  LET marked == [in EXCEPT ![count] = x80] IN
  IF BlockLen - count < LengthLen
  THEN << Clear(marked, count + 1, BlockLen), WithLength(Clear(in, 0, BlockLen - LengthLen)) >>
  ELSE << WithLength(Clear(marked, count + 1, BlockLen - LengthLen)) >>

\* The padded end of the message, one block or two.
Pad(count) ==
  LET marked == [in EXCEPT ![count] = x80] IN
  IF BlockLen - 1 - count < LengthLen
  THEN << Clear(marked, count + 1, BlockLen), WithLength(Clear(in, 0, BlockLen - LengthLen)) >>
  ELSE << WithLength(Clear(marked, count + 1, BlockLen - LengthLen)) >>

\* MD5Final, by md5_generator::final; the context is wiped.
Final ==
  /\ pc = "idle"
  /\ ~ finalized
  /\ digest' = buf \o Pad(held(bits[1]))
  /\ finalized' = TRUE
  /\ bits' = << 0, 0 >>
  /\ in' = [j \in Bytes |-> x00]
  /\ buf' = << >>
  /\ UNCHANGED << pc, n, len >>

Next ==
  \/ \E l \in 0 .. MaxBytes - n : Update(l)
  \/ UpdateBlock
  \/ UpdateRest
  \/ Final

Spec == Init /\ [][Next]_vars
-----------------------------------------------------------------------------
(***************************************************************************)
(* The reference: RFC 1321 pads the message with one 0x80, the fewest      *)
(* zeros that will do, and the number of its bits, and cuts it in blocks.  *)
(***************************************************************************)
message(m) == [i \in 1 .. m |-> byte(i - 1)]

Padded(m) ==
  LET zeros  == CHOOSE z \in 0 .. BlockLen - 1 : (m + 1 + z + LengthLen) % BlockLen = 0
      low    == (ByteBits * m) % WordSize
      high   == ((ByteBits * m) \div WordSize) % WordSize
      half   == LengthLen \div 2
  IN  message(m) \o << x80 >> \o [i \in 1 .. zeros |-> x00]
        \o [i \in 1 .. LengthLen |-> length(i - 1, IF i <= half THEN low ELSE high)]

Blocks(s) ==
  [k \in 1 .. (Len(s) \div BlockLen) |-> [j \in Bytes |-> s[(k - 1) * BlockLen + j + 1]]]

(***************************************************************************)
(* However the message was cut into calls, MD5Transform saw exactly the    *)
(* blocks of the padded message.                                           *)
(***************************************************************************)
DigestIsOfMessage == digest # NoDigest => digest = Blocks(Padded(n))

(***************************************************************************)
(* At every step of a call the blocks transformed and the bytes that wait  *)
(* in the buffer are the message so far; the two words of the bit count    *)
(* carry over between them and wrap where 64 bits do.                      *)
(***************************************************************************)
ContextIsOfMessage ==
  ~ finalized =>
    LET done == n - len
        kept == IF pc = "idle" THEN held(bits[1]) ELSE 0
    IN  /\ bits[1] + WordSize * bits[2] = (ByteBits * n) % (WordSize * WordSize)
        /\ Len(buf) * BlockLen + kept = done
        /\ \A k \in DOMAIN buf, j \in Bytes : buf[k][j] = byte((k - 1) * BlockLen + j)
        /\ \A j \in 0 .. kept - 1 : in[j] = byte(Len(buf) * BlockLen + j)

=============================================================================
