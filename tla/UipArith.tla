------------------------------ MODULE UipArith ------------------------------
(***************************************************************************)
(* The arithmetic of the uIP stack (library/uip/uip.c): 32-bit sequence    *)
(* numbers kept as four bytes and added to byte by byte, and the checksum  *)
(* of an ICMP echo that is adjusted instead of computed.  A byte has BYTE  *)
(* values, 256 in the code.                                                *)
(***************************************************************************)
EXTENDS Integers, Sequences

CONSTANT BYTE

ASSUME ByteAssumption == BYTE \in Nat /\ BYTE >= 2

Byte == 0 .. BYTE - 1
Word == Byte \X Byte \X Byte \X Byte   \* u8_t[4], most significant byte first

\* The number that four bytes stand for.
Value(w) == ((w[1] * BYTE + w[2]) * BYTE + w[3]) * BYTE + w[4]
Size32   == BYTE * BYTE * BYTE * BYTE

\* The bytes of a number.
Bytes(n) == <<(n \div (BYTE * BYTE * BYTE)) % BYTE, (n \div (BYTE * BYTE)) % BYTE,
              (n \div BYTE) % BYTE, n % BYTE>>

\* ++b == 0 tells that b has wrapped around.
Inc(b) == (b + 1) % BYTE

\* The carry out of the last byte stops at the byte before it.
uip_add32_without_ripple(op32, op16) ==
    LET lo == op16 % BYTE
        hi == op16 \div BYTE
        a4 == (op32[4] + lo) % BYTE
        a3 == (op32[3] + hi) % BYTE
        carry3 == a3 < hi
        a2 == IF carry3 THEN Inc(op32[2]) ELSE op32[2]
        a1 == IF carry3 /\ a2 = 0 THEN Inc(op32[1]) ELSE op32[1]
    IN  <<a1, a2, IF a4 < lo THEN Inc(a3) ELSE a3, a4>>

\* uip_add32(): uip_acc32 = op32 + op16.  The low byte and the high byte of
\* op16 are added first; the carry of the high one is propagated, then the
\* carry of the low one.
uip_add32(op32, op16) ==
    LET lo == op16 % BYTE
        hi == op16 \div BYTE
        a4 == (op32[4] + lo) % BYTE
        a3 == (op32[3] + hi) % BYTE
        carry3 == a3 < hi
        a2 == IF carry3 THEN Inc(op32[2]) ELSE op32[2]
        a1 == IF carry3 /\ a2 = 0 THEN Inc(op32[1]) ELSE op32[1]
        carry4 == a4 < lo
        b3 == IF carry4 THEN Inc(a3) ELSE a3
        b2 == IF carry4 /\ b3 = 0 THEN Inc(a2) ELSE a2
        b1 == IF carry4 /\ b3 = 0 /\ b2 = 0 THEN Inc(a1) ELSE a1
    IN  <<b1, b2, b3, a4>>

\* ++w[3], and a carry into the byte before as long as one wraps around.
Ripple(w) ==
    LET b4 == Inc(w[4])
        b3 == IF b4 = 0 THEN Inc(w[3]) ELSE w[3]
        b2 == IF b4 = 0 /\ b3 = 0 THEN Inc(w[2]) ELSE w[2]
        b1 == IF b4 = 0 /\ b3 = 0 /\ b2 = 0 THEN Inc(w[1]) ELSE w[1]
    IN  <<b1, b2, b3, b4>>

-----------------------------------------------------------------------------
(***************************************************************************)
(* One's complement sums of 16-bit words, as the little-endian CPU reads   *)
(* them: HTONS(ICMP_ECHO << 8) is 8.                                       *)
(***************************************************************************)
Size16 == 65536
u16_t  == 0 .. Size16 - 1

HTONS_ECHO == 8

\* chksum() adds word after word and adds the carry back in.
OnesAdd(sum, t) ==
    LET s == (sum + t) % Size16
    IN  IF s < t THEN s + 1 ELSE s

\* The carry of the adjustment is forgotten.
IcmpReplyChecksum_without_carry(icmpchksum) == (icmpchksum + HTONS_ECHO) % Size16

\* The checksum of an echo request made that of the reply, whose type is 0.
IcmpReplyChecksum(icmpchksum) ==
    IF icmpchksum >= Size16 - 1 - HTONS_ECHO
    THEN (icmpchksum + HTONS_ECHO + 1) % Size16
    ELSE (icmpchksum + HTONS_ECHO) % Size16

\* A message whose words other than type and checksum sum up to rest is
\* accepted when its whole sum is 0xffff.
IcmpValid(type, rest, icmpchksum) ==
    OnesAdd(OnesAdd(type, rest), icmpchksum) = Size16 - 1
=============================================================================
