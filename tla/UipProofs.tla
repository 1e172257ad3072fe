------------------------------ MODULE UipProofs ------------------------------
(***************************************************************************)
(* The arithmetic of uIP is right: the addition and the step that work     *)
(* byte by byte compute what they should, modulo 2^32, and the adjusted    *)
(* checksum of an echo reply is that of the reply.                         *)
(***************************************************************************)
EXTENDS UipArith, TLAPS

\* A sum of two bytes wraps around at most once, and `sum < addend' is the
\* test for it that uip_add32() uses.
LEMMA ByteSum ==
    ASSUME NEW a \in Byte, NEW b \in Byte
    PROVE  /\ (a + b) % BYTE \in Byte
           /\ (a + b) % BYTE = a + b - (IF (a + b) % BYTE < b THEN BYTE ELSE 0)
  <1>1. CASE a + b < BYTE
    <2>1. (a + b) % BYTE = a + b
      BY <1>1, ByteAssumption DEF Byte
    <2>. QED  BY <2>1, <1>1, ByteAssumption DEF Byte
  <1>2. CASE a + b >= BYTE
    <2>1. (a + b) % BYTE = a + b - BYTE
      BY <1>2, ByteAssumption DEF Byte
    <2>. QED  BY <2>1, <1>2, ByteAssumption DEF Byte
  <1>. QED  BY <1>1, <1>2, ByteAssumption DEF Byte

\* ++b wraps around exactly when its result is 0.
LEMMA ByteInc ==
    ASSUME NEW b \in Byte
    PROVE  /\ Inc(b) \in Byte
           /\ Inc(b) = 0 => b = BYTE - 1
           /\ Inc(b) # 0 => Inc(b) = b + 1
  <1>1. CASE b = BYTE - 1
    BY <1>1, ByteAssumption DEF Byte, Inc
  <1>2. CASE b < BYTE - 1
    BY <1>2, ByteAssumption DEF Byte, Inc
  <1>. QED  BY <1>1, <1>2, ByteAssumption DEF Byte

\* The two bytes of a 16-bit operand.
LEMMA Halves ==
    ASSUME NEW n \in 0 .. BYTE * BYTE - 1
    PROVE  /\ n % BYTE \in Byte /\ n \div BYTE \in Byte
           /\ n = (n \div BYTE) * BYTE + (n % BYTE)
  <1>. DEFINE q == n \div BYTE
              r == n % BYTE
  <1>1. n \in Int /\ 0 <= n /\ n < BYTE * BYTE
    BY ByteAssumption
  <1>2. r \in 0 .. BYTE - 1 /\ q \in Int /\ n = BYTE * q + r
    BY <1>1, ByteAssumption
  <1>3. 0 <= q /\ q < BYTE
    <2>. HIDE DEF q, r
    <2>1. q >= BYTE => BYTE * q >= BYTE * BYTE
      BY <1>2, ByteAssumption
    <2>2. q < 0 => BYTE * q <= -BYTE
      BY <1>2, ByteAssumption
    <2>. QED  BY <2>1, <2>2, <1>1, <1>2, ByteAssumption
  <1>. QED  BY <1>2, <1>3, ByteAssumption DEF Byte

\* The number of four bytes is below 2^32.
LEMMA WordBound ==
    ASSUME NEW w \in Word
    PROVE  Value(w) \in 0 .. Size32 - 1
  <1>1. w[1] \in Byte /\ w[2] \in Byte /\ w[3] \in Byte /\ w[4] \in Byte
    BY DEF Word
  <1>2. ASSUME NEW p \in Nat, NEW x \in 0 .. p - 1, NEW y \in Byte
        PROVE  x * BYTE + y \in 0 .. p * BYTE - 1
    BY ByteAssumption DEF Byte
  <1>3. BYTE \in Nat /\ BYTE * BYTE \in Nat /\ BYTE * BYTE * BYTE \in Nat
    BY ByteAssumption
  <1>4. w[1] * BYTE + w[2] \in 0 .. BYTE * BYTE - 1
    BY <1>1, <1>2, <1>3 DEF Byte
  <1>5. (w[1] * BYTE + w[2]) * BYTE + w[3] \in 0 .. BYTE * BYTE * BYTE - 1
    BY <1>1, <1>2, <1>3, <1>4
  <1>. QED  BY <1>1, <1>2, <1>3, <1>5 DEF Size32, Value

\* A number that differs from a word's by 2^32 at most once, as a carry out of
\* the first byte makes it, is congruent to it.
LEMMA Wrap ==
    ASSUME NEW x \in 0 .. Size32 - 1, NEW s \in Nat,
           s = x \/ s = x + Size32
    PROVE  s % Size32 = x
  <1>1. Size32 \in Nat /\ Size32 > 0
    BY ByteAssumption DEF Size32
  <1>. QED  BY <1>1

\* One carry into a byte: its value and the carry it passes on.
LEMMA CarryStep ==
    ASSUME NEW b \in Byte, NEW cond \in BOOLEAN
    PROVE  LET r == IF cond THEN Inc(b) ELSE b
           IN  /\ r \in Byte
               /\ r = b + (IF cond THEN 1 ELSE 0)
                       - (IF cond /\ r = 0 THEN BYTE ELSE 0)
  BY ByteInc, ByteAssumption DEF Byte

\* uip_add32() adds a 16-bit number to a 32-bit one, modulo 2^32: neither of
\* its two runs of carries loses one, however many bytes they pass through
\* (uip.c, uip_add32).
THEOREM Add32Correct ==
    ASSUME NEW op32 \in Word, NEW op16 \in 0 .. BYTE * BYTE - 1
    PROVE  /\ uip_add32(op32, op16) \in Word
           /\ Value(uip_add32(op32, op16)) = (Value(op32) + op16) % Size32
  <1>. DEFINE lo == op16 % BYTE
              hi == op16 \div BYTE
              a4 == (op32[4] + lo) % BYTE
              a3 == (op32[3] + hi) % BYTE
              carry3 == a3 < hi
              a2 == IF carry3 THEN Inc(op32[2]) ELSE op32[2]
              a1 == IF carry3 /\ a2 = 0 THEN Inc(op32[1]) ELSE op32[1]
              carry4 == a4 < lo
              b3 == IF carry4 THEN Inc(a3) ELSE a3
              b2 == IF carry4 /\ b3 = 0 THEN Inc(a2) ELSE a2
              b1 == IF carry4 /\ b3 = 0 /\ b2 = 0 THEN Inc(a1) ELSE a1
  <1>1. op32[1] \in Byte /\ op32[2] \in Byte /\ op32[3] \in Byte /\ op32[4] \in Byte
    BY DEF Word
  <1>2. lo \in Byte /\ hi \in Byte /\ op16 = hi * BYTE + lo
    BY Halves
  <1>3. uip_add32(op32, op16) = <<b1, b2, b3, a4>>
    BY DEF uip_add32
  <1>. HIDE DEF lo, hi
  \* What each byte becomes, and the carry it leaves.
  <1>4. /\ a4 \in Byte /\ a3 \in Byte
        /\ a4 = op32[4] + lo - (IF carry4 THEN BYTE ELSE 0)
        /\ a3 = op32[3] + hi - (IF carry3 THEN BYTE ELSE 0)
    BY <1>1, <1>2, ByteSum
  <1>. HIDE DEF a4, a3
  <1>5. carry3 \in BOOLEAN /\ carry4 \in BOOLEAN
    BY <1>2, <1>4, ByteAssumption DEF Byte
  <1>. HIDE DEF carry3, carry4
  <1>6. a2 \in Byte /\ a2 = op32[2] + (IF carry3 THEN 1 ELSE 0)
                              - (IF carry3 /\ a2 = 0 THEN BYTE ELSE 0)
    BY <1>1, <1>5, CarryStep
  <1>7. b3 \in Byte /\ b3 = a3 + (IF carry4 THEN 1 ELSE 0)
                              - (IF carry4 /\ b3 = 0 THEN BYTE ELSE 0)
    BY <1>4, <1>5, CarryStep
  <1>. HIDE DEF a2, b3
  <1>8. a1 \in Byte /\ a1 = op32[1] + (IF carry3 /\ a2 = 0 THEN 1 ELSE 0)
                              - (IF carry3 /\ a2 = 0 /\ a1 = 0 THEN BYTE ELSE 0)
    BY <1>1, <1>5, CarryStep
  <1>9. b2 \in Byte /\ b2 = a2 + (IF carry4 /\ b3 = 0 THEN 1 ELSE 0)
                              - (IF carry4 /\ b3 = 0 /\ b2 = 0 THEN BYTE ELSE 0)
    BY <1>5, <1>6, CarryStep
  <1>. HIDE DEF a1, b2
  <1>10. b1 \in Byte
         /\ b1 = a1 + (IF carry4 /\ b3 = 0 /\ b2 = 0 THEN 1 ELSE 0)
                 - (IF carry4 /\ b3 = 0 /\ b2 = 0 /\ b1 = 0 THEN BYTE ELSE 0)
    BY <1>5, <1>8, CarryStep
  <1>. HIDE DEF b1
  <1>11. uip_add32(op32, op16) \in Word
    BY <1>3, <1>4, <1>7, <1>9, <1>10 DEF Word
  <1>. DEFINE one(cond) == IF cond THEN 1 ELSE 0
              u == one(carry3 /\ a2 = 0 /\ a1 = 0)
              w == one(carry4 /\ b3 = 0 /\ b2 = 0 /\ b1 = 0)
  <1>12. Value(uip_add32(op32, op16)) = Value(op32) + op16 - (u + w) * Size32
    <2>. DEFINE e4 == one(carry4)
                e3 == one(carry3)
                p == one(carry3 /\ a2 = 0)
                q == one(carry4 /\ b3 = 0)
                v == one(carry4 /\ b3 = 0 /\ b2 = 0)
    <2>1. /\ a4 = op32[4] + lo - e4 * BYTE
          /\ b3 = op32[3] + hi - e3 * BYTE + e4 - q * BYTE
          /\ b2 = op32[2] + e3 - p * BYTE + q - v * BYTE
          /\ b1 = op32[1] + p - u * BYTE + v - w * BYTE
      BY <1>1, <1>2, <1>4, <1>6, <1>7, <1>8, <1>9, <1>10, ByteAssumption DEF Byte
    <2>2. /\ e4 \in Int /\ e3 \in Int /\ p \in Int /\ q \in Int /\ v \in Int
          /\ u \in Int /\ w \in Int
      OBVIOUS
    <2>3. /\ op32[1] \in Int /\ op32[2] \in Int /\ op32[3] \in Int /\ op32[4] \in Int
          /\ hi \in Int /\ lo \in Int
      BY <1>1, <1>2, ByteAssumption DEF Byte
    <2>4. Value(uip_add32(op32, op16)) = ((b1 * BYTE + b2) * BYTE + b3) * BYTE + a4
      BY <1>3 DEF Value
    <2>. HIDE DEF e4, e3, p, q, v, u, w
    \* The carries out of the bytes cancel against the ones they become in
    \* the bytes before: only those out of the first byte are lost.
    <2>5. Value(uip_add32(op32, op16))
          = ((op32[1] * BYTE + op32[2]) * BYTE + op32[3]) * BYTE + op32[4]
                + hi * BYTE + lo - (u + w) * Size32
      <3>1. (((op32[1] + p - u * BYTE + v - w * BYTE) * BYTE
                + (op32[2] + e3 - p * BYTE + q - v * BYTE)) * BYTE
                + (op32[3] + hi - e3 * BYTE + e4 - q * BYTE)) * BYTE
                + (op32[4] + lo - e4 * BYTE)
            = ((op32[1] * BYTE + op32[2]) * BYTE + op32[3]) * BYTE + op32[4]
                + hi * BYTE + lo - (u + w) * Size32
        BY <2>2, <2>3, ByteAssumption DEF Size32
      <3>. QED  BY <2>1, <2>4, <3>1
    <2>. QED  BY <2>2, <2>3, <2>5, <1>2, ByteAssumption DEF Value, Size32
  <1>13. /\ Value(uip_add32(op32, op16)) \in 0 .. Size32 - 1
         /\ Value(op32) \in 0 .. Size32 - 1
    BY <1>11, WordBound
  \* Two carries out of the first byte would need a sum of twice 2^32.
  <1>14. Value(op32) + op16 = Value(uip_add32(op32, op16))
         \/ Value(op32) + op16 = Value(uip_add32(op32, op16)) + Size32
    <2>1. Size32 \in Nat /\ op16 < Size32 /\ op16 \in Nat
      <3>1. BYTE * BYTE \in Nat /\ BYTE * BYTE >= 1
        BY ByteAssumption
      <3>2. ASSUME NEW x \in Nat, x >= 1 PROVE x * x >= x
        BY <3>2
      <3>3. Size32 = (BYTE * BYTE) * (BYTE * BYTE)
        BY ByteAssumption DEF Size32
      <3>. QED  BY <3>1, <3>2, <3>3
    <2>2. u + w \in 0 .. 2
      OBVIOUS
    <2>3. CASE u + w = 0  BY <2>1, <2>3, <1>12, <1>13
    <2>4. CASE u + w = 1  BY <2>1, <2>4, <1>12, <1>13
    <2>5. CASE u + w = 2  BY <2>1, <2>5, <1>12, <1>13
    <2>. QED  BY <2>2, <2>3, <2>4, <2>5
  <1>15. Value(op32) + op16 \in Nat
    BY <1>13, ByteAssumption DEF Size32
  <1>. QED  BY <1>11, <1>13, <1>14, <1>15, Wrap

\* The increment of a sequence number, with its carries, adds one modulo 2^32
\* (uip.c, reset: the acknowledgement of a segment that is refused).
THEOREM RippleCorrect ==
    ASSUME NEW w \in Word
    PROVE  Ripple(w) \in Word /\ Value(Ripple(w)) = (Value(w) + 1) % Size32
  <1>. DEFINE b4 == Inc(w[4])
              b3 == IF b4 = 0 THEN Inc(w[3]) ELSE w[3]
              b2 == IF b4 = 0 /\ b3 = 0 THEN Inc(w[2]) ELSE w[2]
              b1 == IF b4 = 0 /\ b3 = 0 /\ b2 = 0 THEN Inc(w[1]) ELSE w[1]
              one(cond) == IF cond THEN 1 ELSE 0
              p == one(b4 = 0)
              q == one(b4 = 0 /\ b3 = 0)
              r == one(b4 = 0 /\ b3 = 0 /\ b2 = 0)
              s == one(b4 = 0 /\ b3 = 0 /\ b2 = 0 /\ b1 = 0)
  <1>1. w[1] \in Byte /\ w[2] \in Byte /\ w[3] \in Byte /\ w[4] \in Byte
    BY DEF Word
  <1>2. Ripple(w) = <<b1, b2, b3, b4>>
    BY DEF Ripple
  <1>3. b4 \in Byte /\ b4 = w[4] + 1 - p * BYTE
    BY <1>1, ByteInc, ByteAssumption DEF Byte
  <1>. HIDE DEF b4
  <1>4. b3 \in Byte /\ b3 = w[3] + p - q * BYTE
    BY <1>1, ByteInc, ByteAssumption DEF Byte
  <1>. HIDE DEF b3
  <1>5. b2 \in Byte /\ b2 = w[2] + q - r * BYTE
    BY <1>1, ByteInc, ByteAssumption DEF Byte
  <1>. HIDE DEF b2
  <1>6. b1 \in Byte /\ b1 = w[1] + r - s * BYTE
    BY <1>1, ByteInc, ByteAssumption DEF Byte
  <1>. HIDE DEF b1
  <1>7. Ripple(w) \in Word
    BY <1>2, <1>3, <1>4, <1>5, <1>6 DEF Word
  <1>8. (s = 0 \/ s = 1) /\ s \in Int /\ p \in Int /\ q \in Int /\ r \in Int
    OBVIOUS
  <1>. HIDE DEF p, q, r, s
  <1>9. Value(Ripple(w)) = Value(w) + 1 - s * Size32
    <2>1. w[1] \in Int /\ w[2] \in Int /\ w[3] \in Int /\ w[4] \in Int
      BY <1>1, ByteAssumption DEF Byte
    <2>2. Value(Ripple(w)) = ((b1 * BYTE + b2) * BYTE + b3) * BYTE + b4
      BY <1>2 DEF Value
    <2>3. (((w[1] + r - s * BYTE) * BYTE + (w[2] + q - r * BYTE)) * BYTE
                + (w[3] + p - q * BYTE)) * BYTE + (w[4] + 1 - p * BYTE)
          = ((w[1] * BYTE + w[2]) * BYTE + w[3]) * BYTE + w[4] + 1 - s * Size32
      <3>. DEFINE o1 == w[1]
                  o2 == w[2]
                  o3 == w[3]
                  o4 == w[4]
      <3>. HIDE DEF o1, o2, o3, o4
      <3>1. o1 \in Int /\ o2 \in Int /\ o3 \in Int /\ o4 \in Int
        BY <2>1 DEF o1, o2, o3, o4
      <3>2. s \in Int /\ p \in Int /\ q \in Int /\ r \in Int
        BY <1>8
      <3>3. (((o1 + r - s * BYTE) * BYTE + (o2 + q - r * BYTE)) * BYTE
                + (o3 + p - q * BYTE)) * BYTE + (o4 + 1 - p * BYTE)
            = ((o1 * BYTE + o2) * BYTE + o3) * BYTE + o4 + 1 - s * Size32
        BY <3>1, <3>2, ByteAssumption DEF Size32
      <3>. QED  BY <3>3 DEF o1, o2, o3, o4
    <2>. QED  BY <2>2, <2>3, <1>3, <1>4, <1>5, <1>6 DEF Value
  <1>10. Value(Ripple(w)) \in 0 .. Size32 - 1 /\ Value(w) \in 0 .. Size32 - 1
    BY <1>7, WordBound
  <1>11. Size32 \in Nat /\ Value(w) + 1 \in Nat
    BY <1>10, ByteAssumption DEF Size32
  <1>12. Value(w) + 1 = Value(Ripple(w)) \/ Value(w) + 1 = Value(Ripple(w)) + Size32
    BY <1>8, <1>9, <1>10, <1>11
  <1>. QED  BY <1>7, <1>10, <1>11, <1>12, Wrap

\* All that matters of the number of 16-bit words.
LEMMA Size16Large == Size16 \in Nat /\ Size16 > 100
  BY DEF Size16

\* Addition with the carry added back in.
LEMMA OnesSum ==
    ASSUME NEW a \in u16_t, NEW b \in u16_t
    PROVE  OnesAdd(a, b) = IF a + b < Size16 THEN a + b ELSE a + b - (Size16 - 1)
  <1>1. CASE a + b < Size16
    <2>1. (a + b) % Size16 = a + b
      BY <1>1, Size16Large DEF u16_t
    <2>. QED  BY <2>1, <1>1, Size16Large DEF u16_t, OnesAdd
  <1>2. CASE a + b >= Size16
    <2>1. (a + b) % Size16 = a + b - Size16
      BY <1>2, Size16Large DEF u16_t
    <2>. QED  BY <2>1, <1>2, Size16Large DEF u16_t, OnesAdd
  <1>. QED  BY <1>1, <1>2, Size16Large DEF u16_t

\* An echo request whose checksum is right gets a reply whose checksum is
\* right, although uip_process() only adds the difference of the two types to
\* it.  rest is the sum of the words that the two have in common; it is not 0
\* for a message that carries an identifier, a sequence number or data
\* (uip.c, the ICMP section of uip_process).
THEOREM EchoReplyValid ==
    ASSUME NEW rest \in u16_t, rest # 0, NEW icmpchksum \in u16_t,
           IcmpValid(HTONS_ECHO, rest, icmpchksum)
    PROVE  IcmpValid(0, rest, IcmpReplyChecksum(icmpchksum))
  <1>. DEFINE sum == OnesAdd(HTONS_ECHO, rest)
  <1>1. sum = IF rest + 8 < Size16 THEN rest + 8 ELSE rest + 8 - (Size16 - 1)
    BY OnesSum, Size16Large DEF u16_t, HTONS_ECHO
  <1>. HIDE DEF sum
  <1>2. OnesAdd(0, rest) = rest
    BY OnesSum, Size16Large DEF u16_t
  <1>3. sum \in u16_t /\ OnesAdd(sum, icmpchksum) = Size16 - 1
    BY <1>1, Size16Large DEF IcmpValid, sum, u16_t
  <1>4. sum + icmpchksum = Size16 - 1 \/ sum + icmpchksum = 2 * (Size16 - 1)
    BY <1>3, OnesSum, Size16Large DEF u16_t
  <1>5. IcmpReplyChecksum(icmpchksum) = IF icmpchksum + 8 < Size16 - 1
                                        THEN icmpchksum + 8 ELSE icmpchksum + 8 - (Size16 - 1)
    <2>1. CASE icmpchksum + 8 < Size16 - 1
      BY <2>1, Size16Large DEF u16_t, IcmpReplyChecksum, HTONS_ECHO
    <2>2. CASE icmpchksum + 8 >= Size16 - 1
      <3>1. (icmpchksum + 8 + 1) % Size16 = icmpchksum + 8 + 1 - Size16
        BY <2>2, Size16Large DEF u16_t
      <3>. QED  BY <2>2, <3>1, Size16Large DEF u16_t, IcmpReplyChecksum, HTONS_ECHO
    <2>. QED  BY <2>1, <2>2, Size16Large DEF u16_t
  <1>6. IcmpReplyChecksum(icmpchksum) \in u16_t
    BY <1>5, Size16Large DEF u16_t
  <1>7. OnesAdd(rest, IcmpReplyChecksum(icmpchksum)) = Size16 - 1
    BY <1>1, <1>4, <1>5, <1>6, OnesSum, Size16Large DEF u16_t
  <1>. QED  BY <1>2, <1>7 DEF IcmpValid
=============================================================================
