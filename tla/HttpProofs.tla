----------------------------- MODULE HttpProofs -----------------------------
(***************************************************************************)
(* Proofs about the web server with its TCP stack, its clients and the     *)
(* network between them: for any number of clients and connections, any    *)
(* length of the page, of requests, windows and segments, any initial      *)
(* sequence number, and any number of faults.  That the server resets no   *)
(* connection while nothing is lost needs an ARP table with room for all   *)
(* next hops.                                                              *)
(***************************************************************************)
EXTENDS HttpServer, UipProofs, WellFoundedInduction, FiniteSetTheorems

-----------------------------------------------------------------------------
(***************************************************************************)
(* Types.                                                                  *)
(***************************************************************************)
PlainFrame == [type : {"arp_request", "arp_reply", "other"}]

EchoFrame == [type : {"echo", "echo_reply"}, rest : u16_t, damage : Damages,
              icmpchksum : u16_t]

ServerSegment ==
    [type : {"tcp"}, src : Peers, flags : SUBSET TcpFlags, seqno : SeqNo,
     ackno : Nat, len : 0 .. UIP_TCP_MSS, wnd : Nat, mssopt : Nat,
     damage : Damages]

ClientSegment ==
    [type : {"tcp"}, flags : SUBSET TcpFlags, seqno : Nat, ackno : SeqNo,
     data : Seq(0 .. RESPONSE_LEN)]

ServerFrame == PlainFrame \cup EchoFrame \cup ServerSegment
ClientFrame == PlainFrame \cup EchoFrame \cup ClientSegment

PlacesOK ==
    /\ uip_conns \in [1 .. UIP_CONNS -> uip_conn]
    /\ arp_table \in [1 .. UIP_ARPTAB_SIZE -> arp_entry]
    /\ client \in [Peers -> Client]
    /\ toServer \in [Peers -> Seq(ServerFrame)]
    /\ toClient \in [Peers -> Seq(ClientFrame)]
    /\ faults \in 0 .. MaxFaults

-----------------------------------------------------------------------------
(***************************************************************************)
(* What the server keeps.                                                  *)
(***************************************************************************)
\* The place of a number in the stream of a client.
Off(x) == (x - ISN) % Size32

\* Connection t of the server and what it knows of its client cl.
ConnOK(t, cl) ==
    /\ t.appstate.pos + t.appstate.last_sent_len <= RESPONSE_LEN
    /\ t.tcpstateflags # "UIP_CLOSED" =>
          /\ t.mss > 0 /\ t.initialmss > 0
          /\ Off(t.rcv_nxt) \in 1 .. cl.nxt
    /\ t.tcpstateflags = "UIP_SYN_RCVD" => t.snd_nxt = Iss /\ t.len = 1
    /\ t.tcpstateflags = "UIP_ESTABLISHED" =>
          \/ /\ t.appstate.state = "HTTP_STATE_WAITING"
             /\ t.appstate.pos = 0 /\ t.appstate.last_sent_len = 0
             /\ t.snd_nxt = 1 /\ t.len = 0
          \/ /\ t.appstate.state = "HTTP_STATE_SENDING"
             /\ t.appstate.last_sent_len > 0
             /\ ~cl.resized => /\ t.snd_nxt = 1 + t.appstate.pos
                               /\ t.len = t.appstate.last_sent_len

ConnsOK == \A i \in 1 .. UIP_CONNS : ConnOK(uip_conns[i], client[uip_conns[i].peer])

\* A client has at most one connection.
OnePeer ==
    \A i, j \in 1 .. UIP_CONNS :
        Active(i) /\ Active(j) /\ uip_conns[i].peer = uip_conns[j].peer => i = j

-----------------------------------------------------------------------------
(***************************************************************************)
(* What is on its way.                                                     *)
(***************************************************************************)
One(b) == IF b THEN 1 ELSE 0

\* A frame f of client c, which has come as far as cl.
SentOK(c, cl, f) ==
    /\ f.type = "tcp" =>
          /\ f.src = c
          /\ Off(f.seqno) + f.len + One("SYN" \in f.flags) + One("FIN" \in f.flags)
                <= cl.nxt
          /\ "SYN" \in f.flags => /\ Off(f.seqno) = 0 /\ f.flags = {"SYN"}
                                  /\ f.mssopt > 0
          /\ "ACK" \in f.flags => cl.phase \in {"open", "reset"}
          /\ "FIN" \in f.flags => cl.fin
    /\ f.type = "echo" =>
          /\ f.icmpchksum = Size16 - 1 - OnesAdd(HTONS_ECHO, f.rest)
    /\ f.type # "echo_reply"

\* A frame f for client cl.
ReplyOK(cl, f) ==
    /\ f.type = "tcp" =>
          /\ ~cl.resized /\ f.data # <<>> =>
                /\ f.seqno > 0 /\ f.seqno - 1 + Len(f.data) <= RESPONSE_LEN
                /\ \A j \in DOMAIN f.data : f.data[j] = f.seqno - 1 + j
          /\ "FIN" \in f.flags =>
                /\ f.data = <<>>
                /\ cl.fin \/ cl.resized \/ f.seqno = 1 + RESPONSE_LEN
    /\ f.type = "echo_reply" /\ f.damage = "none" /\ f.rest # 0 =>
          IcmpValid(0, f.rest, f.icmpchksum)

-----------------------------------------------------------------------------
(***************************************************************************)
(* The clients.                                                            *)
(***************************************************************************)
ClientOK(cl) ==
    /\ cl.una <= cl.nxt
    /\ cl.phase \in {"idle", "arp", "resolved", "pinged"} => cl.nxt = 0
    /\ cl.phase = "syn" => cl.nxt = 1
    /\ cl.phase \notin {"open", "reset"} => ~cl.fin /\ ~cl.eof /\ cl.got = <<>>
    /\ cl.phase \in {"open", "reset"} => cl.nxt >= 1 /\ ReqSent(cl) <= REQ
    /\ cl.fin => cl.early \/ cl.eof
    /\ cl.early => cl.fin
    /\ ~cl.resized => /\ Len(cl.got) <= RESPONSE_LEN
                      /\ \A k \in DOMAIN cl.got : cl.got[k] = k
    /\ cl.eof /\ ~cl.early /\ ~cl.resized => Len(cl.got) = RESPONSE_LEN

-----------------------------------------------------------------------------
(***************************************************************************)
(* A client cl with the frames on their way from it (qs) and to it (qc),   *)
(* and the states S of its connections at the server.                      *)
(***************************************************************************)
\* A frame with data, with a flag.
HasData(f) == f.type = "tcp" /\ f.data # <<>>
Flagged(f, flag) == f.type = "tcp" /\ flag \in f.flags

\* The client has seen the end of its stream, or the end is on its way.
Ended(cl, qc) == cl.eof \/ \E k \in DOMAIN qc : Flagged(qc[k], "FIN")

\* Nothing follows the end.
NothingFollows(cl, qc) ==
    /\ cl.eof => \A k \in DOMAIN qc : ~HasData(qc[k])
    /\ \A j, k \in DOMAIN qc : j < k /\ Flagged(qc[j], "FIN") => ~HasData(qc[k])

\* The client connects no more.
NoSyn(cl, qs) ==
    /\ cl.phase \in {"open", "reset"}
    /\ \A k \in DOMAIN qs : ~Flagged(qs[k], "SYN")

\* A client connects once: no SYN follows a segment of an open connection.
ConnectsOnce(cl, qs, qc, S) ==
    /\ Ended(cl, qc) => NoSyn(cl, qs) /\ S \cap {"UIP_SYN_RCVD", "UIP_ESTABLISHED"} = {}
    /\ S \subseteq {"UIP_SYN_RCVD"} \/ NoSyn(cl, qs)
    /\ \A j, k \in DOMAIN qs : j < k /\ Flagged(qs[j], "ACK") => ~Flagged(qs[k], "SYN")

LinkOK(c, cl, qs, qc, S) ==
    /\ ClientOK(cl)
    /\ \A k \in DOMAIN qs : SentOK(c, cl, qs[k])
    /\ \A k \in DOMAIN qc : ReplyOK(cl, qc[k])
    /\ NothingFollows(cl, qc)
    /\ ConnectsOnce(cl, qs, qc, S)

States(conns, c) ==
    {conns[i].tcpstateflags : i \in {j \in DOMAIN conns :
        conns[j].tcpstateflags # "UIP_CLOSED" /\ conns[j].peer = c}}

LinksOK == \A c \in Peers :
    LinkOK(c, client[c], toServer[c], toClient[c], States(uip_conns, c))

\* The inductive invariant.
HttpInv == PlacesOK /\ ConnsOK /\ OnePeer /\ LinksOK

-----------------------------------------------------------------------------
(***************************************************************************)
(* Arithmetic.                                                             *)
(***************************************************************************)
LEMMA SizePositive == Size32 \in Nat /\ Size32 > 0 /\ BYTE \in Nat /\ BYTE >= 2
BY ByteAssumption DEF Size32

\* Quotient and remainder are unique.
LEMMA DivUnique ==
    ASSUME NEW p \in Nat, p > 0, NEW n \in Nat, NEW q \in Int, NEW r \in 0 .. p - 1,
           n = p * q + r
    PROVE  n \div p = q /\ n % p = r
<1> DEFINE d == n \div p
           e == n % p
<1>1. d \in Int /\ e \in 0 .. p - 1 /\ n = p * d + e OBVIOUS
<1> HIDE DEF d, e
<1>2. p * (q - d) = e - r
  <2>1. p * (q - d) = p * q - p * d BY <1>1
  <2> QED BY <1>1, <2>1
<1>3. e - r < p /\ e - r > -p BY <1>1
<1>4. q - d < 1
  <2> SUFFICES ASSUME q - d >= 1 PROVE FALSE BY <1>1
  <2>1. p * (q - d) >= p * 1 BY <1>1
  <2> QED BY <1>1, <1>2, <1>3, <2>1
<1>5. q - d > -1
  <2> SUFFICES ASSUME q - d <= -1 PROVE FALSE BY <1>1
  <2>1. p * (q - d) <= p * (-1) BY <1>1
  <2> QED BY <1>1, <1>2, <1>3, <2>1
<1>6. q = d BY <1>1, <1>4, <1>5
<1>7. e = r BY <1>1, <1>6
<1> QED BY <1>6, <1>7 DEF d, e

\* The remainder of a number that is at most one multiple away.
LEMMA Remainder ==
    ASSUME NEW s \in Nat, s > 0, NEW a \in Int, -s <= a, a < 2 * s
    PROVE  a % s = IF a < 0 THEN a + s ELSE IF a < s THEN a ELSE a - s
<1>1. CASE a < 0 BY <1>1
<1>2. CASE a >= 0 /\ a < s BY <1>2
<1>3. CASE a >= s BY <1>3
<1> QED BY <1>1, <1>2, <1>3

LEMMA SumRemainder ==
    ASSUME NEW s \in Nat, s > 0, NEW x \in Nat, NEW y \in Nat, x + y < 2 * s
    PROVE  (x + y) % s = IF x + y < s THEN x + y ELSE x + y - s
<1>1. CASE x + y < s BY <1>1
<1>2. CASE x + y >= s BY <1>2
<1> QED BY <1>1, <1>2

\* Dividing twice.
LEMMA DivTwice ==
    ASSUME NEW n \in Nat, NEW p \in Nat, p > 0
    PROVE  /\ (n \div p) \in Nat
           /\ (n \div p) \div BYTE = n \div (p * BYTE)
<1> DEFINE q == n \div p
           r == n % p
<1>1. q \in Int /\ r \in 0 .. p - 1 /\ n = p * q + r OBVIOUS
<1>2. q >= 0
  <2> HIDE DEF q, r
  <2> SUFFICES ASSUME q <= -1 PROVE FALSE BY <1>1
  <2>1. p * q <= p * (-1) BY <1>1
  <2> QED BY <1>1, <2>1
<1> HIDE DEF q, r
<1> DEFINE d == q \div BYTE
           e == q % BYTE
<1>3. d \in Int /\ e \in 0 .. BYTE - 1 /\ q = BYTE * d + e BY <1>1, <1>2, SizePositive
<1> HIDE DEF d, e
<1>4. n = (p * BYTE) * d + (p * e + r)
  <2>1. p * q = p * (BYTE * d) + p * e BY <1>1, <1>3, SizePositive
  <2>2. p * (BYTE * d) = (p * BYTE) * d BY <1>3, SizePositive
  <2> QED BY <1>1, <1>3, <2>1, <2>2, SizePositive
<1>5. p * e + r \in 0 .. p * BYTE - 1
  <2>1. p * e <= p * (BYTE - 1) /\ p * e >= 0 /\ p * e \in Int BY <1>3, SizePositive
  <2>2. p * (BYTE - 1) = p * BYTE - p BY SizePositive
  <2> QED BY <1>1, <2>1, <2>2, SizePositive
<1>6. p * BYTE \in Nat /\ p * BYTE > 0 BY SizePositive
<1>7. n \div (p * BYTE) = d
  <2>1. PICK pb : pb = p * BYTE OBVIOUS
  <2>2. PICK rr : rr = p * e + r OBVIOUS
  <2>3. pb \in Nat /\ pb > 0 /\ rr \in 0 .. pb - 1 /\ n = pb * d + rr
    BY <1>4, <1>5, <1>6, <2>1, <2>2
  <2>4. n \div pb = d BY <1>3, <2>3, DivUnique
  <2> QED BY <2>1, <2>4
<1> QED BY <1>1, <1>2, <1>7 DEF q, d

\* The bytes of a number stand for it.
LEMMA BytesValue ==
    ASSUME NEW n \in SeqNo
    PROVE  Bytes(n) \in Word /\ Value(Bytes(n)) = n
<1> DEFINE q1 == n \div BYTE
           q2 == n \div (BYTE * BYTE)
           q3 == n \div (BYTE * BYTE * BYTE)
<1>1. n \in Nat /\ n < Size32 BY SizePositive DEF SeqNo
<1>2. BYTE * BYTE \in Nat /\ BYTE * BYTE > 0 /\ BYTE * BYTE * BYTE \in Nat
      /\ BYTE * BYTE * BYTE > 0
  BY SizePositive
<1>3. q1 \in Nat /\ q1 \div BYTE = q2 BY <1>1, SizePositive, DivTwice
<1>4. q2 \in Nat /\ q2 \div BYTE = q3 BY <1>1, <1>2, DivTwice
<1>5. q3 \in Nat BY <1>1, <1>2, DivTwice
<1>6. n = q1 * BYTE + (n % BYTE) /\ n % BYTE \in Byte
  BY <1>1, SizePositive DEF Byte
<1> HIDE DEF q1, q2, q3
<1>7. q1 = q2 * BYTE + (q1 % BYTE) /\ q1 % BYTE \in Byte
  <2>1. q1 = (q1 \div BYTE) * BYTE + (q1 % BYTE) /\ q1 % BYTE \in Byte
    BY <1>3, SizePositive DEF Byte
  <2> QED BY <1>3, <2>1
<1>8. q2 = q3 * BYTE + (q2 % BYTE) /\ q2 % BYTE \in Byte
  <2>1. q2 = (q2 \div BYTE) * BYTE + (q2 % BYTE) /\ q2 % BYTE \in Byte
    BY <1>4, SizePositive DEF Byte
  <2> QED BY <1>4, <2>1
<1>9. q3 < BYTE
  <2> SUFFICES ASSUME q3 >= BYTE PROVE FALSE BY <1>5, SizePositive
  <2>1. q2 >= BYTE * BYTE
    <3>1. q3 * BYTE >= BYTE * BYTE BY <1>5, SizePositive
    <3> QED BY <1>2, <1>5, <1>8, <3>1, SizePositive DEF Byte
  <2>2. q1 >= BYTE * BYTE * BYTE
    <3>1. q2 * BYTE >= BYTE * BYTE * BYTE BY <1>2, <1>4, <2>1, SizePositive
    <3> QED BY <1>2, <1>4, <1>7, <3>1, SizePositive DEF Byte
  <2>3. n >= Size32
    <3>1. q1 * BYTE >= BYTE * BYTE * BYTE * BYTE BY <1>2, <1>3, <2>2, SizePositive
    <3> QED BY <1>1, <1>3, <1>6, <3>1, SizePositive DEF Byte, Size32
  <2> QED BY <1>1, <2>3, SizePositive
<1>10. q3 % BYTE = q3 /\ q3 \in Byte BY <1>5, <1>9, SizePositive DEF Byte
<1>11. Bytes(n) = <<q3 % BYTE, q2 % BYTE, q1 % BYTE, n % BYTE>>
  BY DEF Bytes, q1, q2, q3
<1>12. Bytes(n) \in Word BY <1>6, <1>7, <1>8, <1>10, <1>11 DEF Word
<1>13. Value(Bytes(n)) = ((q3 * BYTE + (q2 % BYTE)) * BYTE + (q1 % BYTE)) * BYTE + (n % BYTE)
  BY <1>10, <1>11 DEF Value
<1>14. q3 * BYTE + (q2 % BYTE) = q2 /\ q2 * BYTE + (q1 % BYTE) = q1
       /\ q1 * BYTE + (n % BYTE) = n
  BY <1>6, <1>7, <1>8
<1> QED BY <1>12, <1>13, <1>14

\* Adding to a sequence number.
LEMMA AddSeqNo ==
    ASSUME NEW n \in SeqNo, NEW k \in 0 .. UIP_TCP_MSS + 1
    PROVE  Add32[n][k] \in SeqNo /\ Add32[n][k] = (n + k) % Size32
<1>1. k \in 0 .. BYTE * BYTE - 1
  <2>1. BYTE * BYTE \in Nat BY SizePositive
  <2> QED BY <2>1, UipAssumption
<1>2. Bytes(n) \in Word /\ Value(Bytes(n)) = n BY BytesValue
<1>3. /\ uip_add32(Bytes(n), k) \in Word
      /\ Value(uip_add32(Bytes(n), k)) = (n + k) % Size32
  BY <1>1, <1>2, Add32Correct
<1>4. Value(uip_add32(Bytes(n), k)) \in SeqNo BY <1>3, WordBound DEF SeqNo
<1>5. Add32[n][k] = Value(uip_add32(Bytes(n), k)) BY DEF Add32
<1> QED BY <1>3, <1>4, <1>5

LEMMA NextSeqNo ==
    ASSUME NEW n \in SeqNo
    PROVE  Successor32[n] \in SeqNo
<1>1. Bytes(n) \in Word BY BytesValue
<1>2. Ripple(Bytes(n)) \in Word BY <1>1, RippleCorrect
<1>3. Value(Ripple(Bytes(n))) \in SeqNo BY <1>2, WordBound DEF SeqNo
<1> QED BY <1>3 DEF Successor32

\* Places of sequence numbers.
LEMMA OffRange ==
    ASSUME NEW x \in SeqNo
    PROVE  Off(x) \in SeqNo /\ Off(x) = IF x >= ISN THEN x - ISN ELSE x - ISN + Size32
<1>1. ISN \in SeqNo BY ClientAssumption DEF SeqNo
<1>2. PICK s \in Nat : s = Size32 /\ s > 0 BY SizePositive
<1>3. x \in Int /\ ISN \in Int /\ 0 <= x /\ x < s /\ 0 <= ISN /\ ISN < s
  BY <1>1, <1>2 DEF SeqNo
<1>4. (x - ISN) % s = IF x - ISN < 0 THEN x - ISN + s
                      ELSE IF x - ISN < s THEN x - ISN ELSE x - ISN - s
  BY <1>2, <1>3, Remainder
<1>5. (x - ISN) % s = IF x >= ISN THEN x - ISN ELSE x - ISN + s BY <1>2, <1>3, <1>4
<1>6. (x - ISN) % s \in 0 .. s - 1 BY <1>2, <1>3, <1>5
<1> QED BY <1>2, <1>5, <1>6 DEF Off, SeqNo

LEMMA OffUnique ==
    ASSUME NEW x \in SeqNo, NEW y \in SeqNo, Off(x) = Off(y)
    PROVE  x = y
<1>1. ISN \in SeqNo BY ClientAssumption DEF SeqNo
<1> QED BY <1>1, OffRange, SizePositive DEF SeqNo

LEMMA OffAdd ==
    ASSUME NEW x \in SeqNo, NEW k \in 0 .. UIP_TCP_MSS + 1, Off(x) + k < Size32
    PROVE  Off(Add32[x][k]) = Off(x) + k
<1>1. ISN \in SeqNo BY ClientAssumption DEF SeqNo
<1>2. PICK s \in Nat : s = Size32 /\ s > 0 BY SizePositive
<1>3. x \in Int /\ ISN \in Int /\ 0 <= x /\ x < s /\ 0 <= ISN /\ ISN < s
  BY <1>1, <1>2 DEF SeqNo
<1>4. k \in Nat BY UipAssumption
<1>5. Off(x) = IF x >= ISN THEN x - ISN ELSE x - ISN + s BY <1>2, OffRange
<1>6. k < s BY <1>2, <1>3, <1>4, <1>5
<1>7. (x + k) % s = IF x + k < s THEN x + k ELSE x + k - s
  <2>1. x \in Nat /\ x + k < 2 * s BY <1>3, <1>4, <1>6
  <2> QED BY <1>2, <1>4, <2>1, SumRemainder
<1>8. PICK y \in SeqNo : y = Add32[x][k] /\ y = (x + k) % s BY <1>2, AddSeqNo
<1>9. Off(y) = IF y >= ISN THEN y - ISN ELSE y - ISN + s BY <1>2, OffRange
<1> QED BY <1>2, <1>3, <1>4, <1>5, <1>7, <1>8, <1>9

LEMMA OffIsn ==
    ASSUME NEW n \in Nat, n < Size32
    PROVE  (ISN + n) % Size32 \in SeqNo /\ Off((ISN + n) % Size32) = n
<1>1. ISN \in SeqNo BY ClientAssumption DEF SeqNo
<1>2. PICK s \in Nat : s = Size32 /\ s > 0 BY SizePositive
<1>3. ISN \in Int /\ 0 <= ISN /\ ISN < s BY <1>1, <1>2 DEF SeqNo
<1>4. (ISN + n) % s = IF ISN + n < s THEN ISN + n ELSE ISN + n - s
  <2>1. ISN \in Nat /\ ISN + n < 2 * s BY <1>2, <1>3
  <2> QED BY <1>2, <2>1, SumRemainder
<1>5. PICK y : y = (ISN + n) % s OBVIOUS
<1>6. y \in SeqNo BY <1>2, <1>3, <1>4, <1>5 DEF SeqNo
<1>7. Off(y) = IF y >= ISN THEN y - ISN ELSE y - ISN + s BY <1>2, <1>6, OffRange
<1>8. Off(y) = n BY <1>2, <1>3, <1>4, <1>5, <1>7
<1> QED BY <1>2, <1>5, <1>6, <1>8

\* The smallest element of a set of numbers.
LEMMA MinIn ==
    ASSUME NEW S \in SUBSET Nat, S # {}
    PROVE  Min(S) \in S
<1> DEFINE R == OpToRel(<, Nat)
<1>1. IsWellFoundedOn(R, Nat) BY NatLessThanWellFounded
<1>2. \A m, n \in Nat : m < n => <<m, n>> \in R BY DEF OpToRel
<1> HIDE DEF R
<1>3. \E n \in S : \A m \in S : ~(<<m, n>> \in R) BY <1>1, WFMin
<1>4. \E n \in S : \A m \in S : n <= m
  <2>1. PICK n \in S : \A m \in S : ~(<<m, n>> \in R) BY <1>3
  <2>2. ASSUME NEW m \in S PROVE n <= m
    <3>1. m \in Nat /\ n \in Nat OBVIOUS
    <3>2. ~(m < n) BY <1>2, <2>1, <3>1
    <3> QED BY <3>1, <3>2
  <2> QED BY <2>2
<1> QED BY <1>4 DEF Min

-----------------------------------------------------------------------------
(***************************************************************************)
(* The application.                                                        *)
(***************************************************************************)
\* The piece of the page at a position, and its length.
Chunk(p, m) == Least(RESPONSE_LEN - p, Least(m, MAX_DRIVER_SEND_BYTES))
PieceAt(p, n) == SubSeq(hello_response, p + 1, p + n)

LEMMA ChunkRange ==
    ASSUME NEW p \in 0 .. RESPONSE_LEN, p < RESPONSE_LEN, NEW m \in Nat, m > 0
    PROVE  /\ Chunk(p, m) \in Nat /\ Chunk(p, m) > 0 /\ Chunk(p, m) <= m
           /\ p + Chunk(p, m) <= RESPONSE_LEN
BY HttpdAssumption DEF Chunk, Least

LEMMA PieceOK ==
    ASSUME NEW p \in Nat, NEW n \in Nat, p + n <= RESPONSE_LEN
    PROVE  /\ PieceAt(p, n) \in Seq(0 .. RESPONSE_LEN) /\ Len(PieceAt(p, n)) = n
           /\ \A j \in 1 .. n : PieceAt(p, n)[j] = p + j
<1>1. RESPONSE_LEN \in Nat BY HttpdAssumption
<1>2. /\ hello_response \in Seq(0 .. RESPONSE_LEN)
      /\ Len(hello_response) = RESPONSE_LEN
      /\ \A k \in 1 .. RESPONSE_LEN : hello_response[k] = k
  BY <1>1 DEF hello_response
<1>3. /\ PieceAt(p, n) \in Seq(0 .. RESPONSE_LEN) /\ Len(PieceAt(p, n)) = n
      /\ \A j \in 1 .. n : PieceAt(p, n)[j] = hello_response[p + j]
  BY <1>1, <1>2 DEF PieceAt
<1>4. \A j \in 1 .. n : p + j \in 1 .. RESPONSE_LEN BY <1>1
<1> QED BY <1>2, <1>3, <1>4

\* A call that tells of the end.
LEMMA AppEnd ==
    ASSUME NEW s \in http_state, NEW fl, NEW m,
           "UIP_CONNECTED" \notin fl, "UIP_CLOSE" \in fl \/ "UIP_ABORT" \in fl
    PROVE  /\ httpd_appcall(s, fl, m).s \in http_state
           /\ httpd_appcall(s, fl, m).s.pos = s.pos
           /\ httpd_appcall(s, fl, m).s.last_sent_len = s.last_sent_len
<1>1. httpd_appcall(s, fl, m) = Called([s EXCEPT !.state = "HTTP_STATE_CLOSING"], fl, <<>>)
  BY DEF httpd_appcall, uip_connected, uip_closed, uip_aborted
<1>2. httpd_appcall(s, fl, m).s = [s EXCEPT !.state = "HTTP_STATE_CLOSING"]
  BY <1>1 DEF Called
<1> QED BY <1>2 DEF http_state

\* A call of a connection that is new.
LEMMA AppNew ==
    ASSUME NEW s, NEW fl, NEW m, "UIP_CONNECTED" \in fl
    PROVE  /\ httpd_appcall(s, fl, m).s = FreshHttp
           /\ httpd_appcall(s, fl, m).uip_flags = fl
           /\ httpd_appcall(s, fl, m).data = <<>>
BY DEF httpd_appcall, uip_connected, Called

\* A call with a piece of the request or an acknowledgement.
LEMMA AppData ==
    ASSUME NEW s \in http_state, NEW m \in Nat, m > 0,
           NEW ev \in SUBSET {"UIP_ACKDATA", "UIP_NEWDATA"}, ev # {},
           s.pos + s.last_sent_len <= RESPONSE_LEN,
           \/ /\ s.state = "HTTP_STATE_WAITING" /\ "UIP_ACKDATA" \notin ev
              /\ s.pos = 0 /\ s.last_sent_len = 0
           \/ s.state = "HTTP_STATE_SENDING" /\ s.last_sent_len > 0,
           NEW p, p = IF "UIP_ACKDATA" \in ev THEN s.pos + s.last_sent_len ELSE s.pos
    PROVE  LET call == httpd_appcall(s, ev, m)
           IN  /\ p \in 0 .. RESPONSE_LEN
               /\ call.s \in http_state /\ call.s.pos = p
               /\ p < RESPONSE_LEN =>
                     /\ call.s.state = "HTTP_STATE_SENDING"
                     /\ call.s.last_sent_len = Chunk(p, m)
                     /\ call.uip_flags = ev /\ call.data = PieceAt(p, Chunk(p, m))
               /\ p = RESPONSE_LEN =>
                     /\ call.s.last_sent_len = 0
                     /\ call.uip_flags = {"UIP_CLOSE"} /\ call.data = <<>>
<1> DEFINE t == Requested(Acked(s, ev), ev)
<1>1. RESPONSE_LEN \in Nat /\ RESPONSE_LEN > 0 BY HttpdAssumption
<1>2. s.pos \in 0 .. RESPONSE_LEN /\ s.last_sent_len \in 0 .. RESPONSE_LEN BY DEF http_state
<1>3. p \in 0 .. RESPONSE_LEN BY <1>1, <1>2
<1>4. /\ t \in http_state /\ t.state = "HTTP_STATE_SENDING" /\ t.pos = p
      /\ "UIP_ACKDATA" \in ev => t.last_sent_len = 0
  <2>1. CASE s.state = "HTTP_STATE_WAITING"
    <3>1. Acked(s, ev) = s /\ "UIP_NEWDATA" \in ev /\ p = 0
      BY <2>1 DEF Acked, uip_acked
    <3>2. t = [state |-> "HTTP_STATE_SENDING", pos |-> 0, last_sent_len |-> 0]
      BY <2>1, <3>1 DEF Requested, uip_newdata
    <3> QED BY <1>1, <3>1, <3>2 DEF http_state
  <2>2. CASE s.state = "HTTP_STATE_SENDING"
    <3>1. CASE "UIP_ACKDATA" \in ev
      <4>1. Acked(s, ev) = [s EXCEPT !.pos = p, !.last_sent_len = 0]
        BY <3>1 DEF Acked, uip_acked, http_state
      <4>2. Acked(s, ev).state = "HTTP_STATE_SENDING" BY <2>2, <4>1 DEF http_state
      <4>3. t = Acked(s, ev) BY <4>2 DEF Requested
      <4>4. t = [s EXCEPT !.pos = p, !.last_sent_len = 0] BY <4>1, <4>3
      <4> HIDE DEF t
      <4>5. t.state = "HTTP_STATE_SENDING" /\ t.pos = p /\ t.last_sent_len = 0
        BY <2>2, <4>4 DEF http_state
      <4>6. t \in http_state
        <5>1. 0 \in 0 .. RESPONSE_LEN BY <1>1
        <5> QED BY <1>3, <4>4, <5>1 DEF http_state
      <4> QED BY <4>5, <4>6
    <3>2. CASE "UIP_ACKDATA" \notin ev
      BY <2>2, <3>2 DEF Acked, uip_acked, Requested
    <3> QED BY <3>1, <3>2
  <2> QED BY <2>1, <2>2
<1>5. httpd_appcall(s, ev, m) = SendNext(t, ev, m)
  BY <1>4 DEF httpd_appcall, uip_connected, uip_closed, uip_aborted, uip_newdata, uip_acked
<1> HIDE DEF t
<1>6. CASE p < RESPONSE_LEN
  <2>1. Chunk(p, m) \in Nat /\ Chunk(p, m) > 0 /\ p + Chunk(p, m) <= RESPONSE_LEN
    BY <1>3, <1>6, ChunkRange
  <2>2. SendNext(t, ev, m)
          = Called([t EXCEPT !.last_sent_len = Chunk(p, m)], ev, PieceAt(p, Chunk(p, m)))
    BY <1>4, <1>6, <2>1 DEF SendNext, Chunk, PieceAt
  <2>3. PICK ch \in 1 .. RESPONSE_LEN : ch = Chunk(p, m) BY <1>1, <1>3, <2>1
  <2>4. PICK q : q = [t EXCEPT !.last_sent_len = ch] OBVIOUS
  <2>5. q \in http_state /\ q.pos = p /\ q.state = "HTTP_STATE_SENDING"
        /\ q.last_sent_len = ch
    BY <1>1, <1>4, <2>4 DEF http_state
  <2>6. httpd_appcall(s, ev, m) = Called(q, ev, PieceAt(p, Chunk(p, m)))
    BY <1>5, <2>2, <2>3, <2>4
  <2> QED BY <1>3, <1>6, <2>3, <2>5, <2>6 DEF Called
<1>7. CASE p = RESPONSE_LEN
  <2>1. "UIP_ACKDATA" \in ev BY <1>1, <1>2, <1>7
  <2>2. SendNext(t, ev, m) = uip_close([t EXCEPT !.state = "HTTP_STATE_CLOSING"])
    BY <1>1, <1>4, <1>7, <2>1 DEF SendNext
  <2>3. PICK q : q = [t EXCEPT !.state = "HTTP_STATE_CLOSING"] OBVIOUS
  <2>4. q \in http_state /\ q.pos = p /\ q.last_sent_len = 0
    BY <1>4, <2>1, <2>3 DEF http_state
  <2>5. httpd_appcall(s, ev, m) = Called(q, {"UIP_CLOSE"}, <<>>)
    BY <1>5, <2>2, <2>3 DEF uip_close
  <2> QED BY <1>3, <1>7, <2>4, <2>5 DEF Called
<1> QED BY <1>1, <1>3, <1>6, <1>7

-----------------------------------------------------------------------------
(***************************************************************************)
(* A segment of a connection.                                              *)
(***************************************************************************)
\* What a step of connection t to u, with an answer of flags fl and data d,
\* has to be.  cl is the client.
Advance(t, u, cl, seg, fl, d) ==
    /\ u \in uip_conn /\ u.peer = t.peer
    /\ fl \in SUBSET TcpFlags /\ d \in Seq(0 .. RESPONSE_LEN)
    /\ ConnOK(u, cl)
    /\ d # <<>> =>
          /\ t.tcpstateflags = "UIP_ESTABLISHED" /\ u.tcpstateflags = "UIP_ESTABLISHED"
          /\ ~cl.resized => /\ u.snd_nxt > 0
                            /\ u.snd_nxt - 1 + Len(d) <= RESPONSE_LEN
                            /\ \A j \in DOMAIN d : d[j] = u.snd_nxt - 1 + j
    /\ "FIN" \in fl =>
          /\ d = <<>> /\ t.tcpstateflags = "UIP_ESTABLISHED"
          /\ u.tcpstateflags \in {"UIP_FIN_WAIT_1", "UIP_LAST_ACK"}
          /\ cl.fin \/ cl.resized \/ u.snd_nxt = 1 + RESPONSE_LEN
    /\ u.tcpstateflags = "UIP_SYN_RCVD" => t.tcpstateflags = "UIP_SYN_RCVD"
    /\ u.tcpstateflags = "UIP_ESTABLISHED" =>
          t.tcpstateflags \in {"UIP_SYN_RCVD", "UIP_ESTABLISHED"}
    /\ t.tcpstateflags = "UIP_SYN_RCVD"
       /\ u.tcpstateflags \notin {"UIP_SYN_RCVD", "UIP_CLOSED"} => "ACK" \in seg.flags

\* The result r of a segment for connection i of the table.
Result(conns, i, r, t, cl, seg) ==
    \E u, fl, d : /\ Advance(t, u, cl, seg, fl, d)
                  /\ r = Kept(conns, i, u) \/ r = tcp_send(conns, i, u, fl, d)

\* The segment makes httpd cut the outstanding piece anew.
Cuts(t, seg) ==
    /\ t.tcpstateflags = "UIP_ESTABLISHED"
    /\ "FIN" \notin seg.flags /\ seg.len > 0 /\ ~OutOfOrder(t, seg)
    /\ uip_outstanding(t) /\ ~AckedBy(t, seg)
    /\ Len(AppCall(Window(t, seg), {"UIP_NEWDATA"}).data) # t.len

\* Connection t is active and seg is one of its segments.
Belongs(t, cl, seg) ==
    /\ t \in uip_conn /\ t.tcpstateflags # "UIP_CLOSED"
    /\ cl \in Client /\ seg \in ServerSegment
    /\ ConnOK(t, cl) /\ SentOK(t.peer, cl, seg)
    /\ ~cl.resized => ~Cuts(t, seg)

\* ... and in order.
InOrder(t, cl, seg) ==
    Belongs(t, cl, seg) /\ "RST" \notin seg.flags /\ ~OutOfOrder(t, seg)

\* The connection after the acknowledgement.
AfterAck(t, seg) ==
    IF AckedBy(t, seg) THEN [t EXCEPT !.snd_nxt = Add32[@][t.len], !.len = 0] ELSE t

LEMMA AfterAckOK ==
    ASSUME NEW t, NEW cl, NEW seg, Belongs(t, cl, seg), NEW a, a = AfterAck(t, seg)
    PROVE  /\ a \in uip_conn
           /\ a.tcpstateflags = t.tcpstateflags /\ a.peer = t.peer /\ a.rcv_nxt = t.rcv_nxt
           /\ a.mss = t.mss /\ a.initialmss = t.initialmss /\ a.appstate = t.appstate
           /\ AckedBy(t, seg) => /\ a.len = 0 /\ a.snd_nxt = (t.snd_nxt + t.len) % Size32
                                 /\ t.len # 0 /\ "ACK" \in seg.flags
           /\ ~AckedBy(t, seg) => a = t
<1>1. t \in uip_conn BY DEF Belongs
<1>2. t.snd_nxt \in SeqNo /\ t.len \in 0 .. UIP_TCP_MSS + 1
  <2>1. UIP_TCP_MSS \in Nat BY UipAssumption
  <2>2. t.snd_nxt \in SeqNo /\ t.len \in 0 .. UIP_TCP_MSS BY <1>1 DEF uip_conn
  <2> QED BY <2>1, <2>2
<1>3. PICK y \in SeqNo : y = Add32[t.snd_nxt][t.len] /\ y = (t.snd_nxt + t.len) % Size32
  BY <1>2, AddSeqNo
<1>4. CASE AckedBy(t, seg)
  <2>1. a = [t EXCEPT !.snd_nxt = y, !.len = 0] BY <1>1, <1>3, <1>4 DEF AfterAck, uip_conn
  <2>2. t.len # 0 /\ "ACK" \in seg.flags BY <1>4 DEF AckedBy, uip_outstanding
  <2>3. 0 \in 0 .. UIP_TCP_MSS BY UipAssumption
  <2>4. a \in uip_conn BY <1>1, <2>1, <2>3 DEF uip_conn
  <2>5. /\ a.tcpstateflags = t.tcpstateflags /\ a.peer = t.peer /\ a.rcv_nxt = t.rcv_nxt
        /\ a.mss = t.mss /\ a.initialmss = t.initialmss /\ a.appstate = t.appstate
        /\ a.len = 0 /\ a.snd_nxt = y
    BY <1>1, <2>1 DEF uip_conn
  <2> QED BY <1>3, <1>4, <2>2, <2>4, <2>5
<1>5. CASE ~AckedBy(t, seg)
  <2>1. a = t BY <1>5 DEF AfterAck
  <2> QED BY <1>1, <1>5, <2>1
<1> QED BY <1>4, <1>5

\* What the server expects next never passes what the client has sent.
LEMMA RcvOK ==
    ASSUME NEW t, NEW cl, NEW seg, InOrder(t, cl, seg)
    PROVE  /\ Add32[t.rcv_nxt][seg.len] \in SeqNo
           /\ Off(Add32[t.rcv_nxt][seg.len]) \in 1 .. cl.nxt
           /\ "FIN" \in seg.flags =>
                 /\ Add32[t.rcv_nxt][1 + seg.len] \in SeqNo
                 /\ Off(Add32[t.rcv_nxt][1 + seg.len]) \in 1 .. cl.nxt
                 /\ Add32[Add32[t.rcv_nxt][seg.len]][1] \in SeqNo
                 /\ Off(Add32[Add32[t.rcv_nxt][seg.len]][1]) \in 1 .. cl.nxt
<1>1. /\ t \in uip_conn /\ t.tcpstateflags # "UIP_CLOSED" /\ cl \in Client
      /\ seg \in ServerSegment /\ ConnOK(t, cl) /\ SentOK(t.peer, cl, seg)
      /\ ~OutOfOrder(t, seg)
  BY DEF InOrder, Belongs
<1>2. PICK x \in SeqNo : x = t.rcv_nxt BY <1>1 DEF uip_conn
<1>3. PICK n \in 0 .. REQ + 2 : n = cl.nxt BY <1>1 DEF Client
<1>4. PICK l \in 0 .. UIP_TCP_MSS : l = seg.len BY <1>1 DEF ServerSegment
<1>5. Off(x) \in 1 .. n BY <1>1, <1>2, <1>3 DEF ConnOK
<1>6. REQ \in Nat /\ REQ + 2 < Size32 /\ UIP_TCP_MSS \in Nat /\ UIP_TCP_MSS > 0
      /\ Size32 \in Nat
  BY ClientAssumption, UipAssumption, SizePositive
<1>7. Off(x) + l + One("FIN" \in seg.flags) <= n
  <2>1. CASE l > 0 \/ "FIN" \in seg.flags
    <3>1. seg.seqno = x BY <1>1, <1>2, <1>4, <2>1 DEF OutOfOrder
    <3>2. Off(x) + l + One("SYN" \in seg.flags) + One("FIN" \in seg.flags) <= n
      BY <1>1, <1>3, <1>4, <3>1 DEF SentOK, ServerSegment
    <3>3. One("SYN" \in seg.flags) \in 0 .. 1 /\ One("FIN" \in seg.flags) \in 0 .. 1 BY DEF One
    <3> QED BY <1>3, <1>4, <1>5, <1>6, <3>2, <3>3
  <2>2. CASE l = 0 /\ "FIN" \notin seg.flags
    <3>1. One("FIN" \in seg.flags) = 0 BY <2>2 DEF One
    <3> QED BY <1>3, <1>5, <1>6, <2>2, <3>1
  <2>3. l > 0 \/ l = 0 BY <1>4, <1>6
  <2> QED BY <2>1, <2>2, <2>3
<1>8. l \in 0 .. UIP_TCP_MSS + 1 /\ 1 \in 0 .. UIP_TCP_MSS + 1 /\ 1 + l \in 0 .. UIP_TCP_MSS + 1
  BY <1>4, <1>6
<1>9. PICK o \in Nat : o = Off(x) /\ o >= 1 BY <1>3, <1>5, <1>6
<1>10. PICK b \in 0 .. 1 : b = One("FIN" \in seg.flags) BY DEF One
<1>11. o + l + b <= n /\ n < Size32 BY <1>3, <1>6, <1>7, <1>9, <1>10
<1>12. PICK y \in SeqNo : y = Add32[x][l] BY <1>8, AddSeqNo
<1>13. o + l < Size32 /\ o + l >= 1 /\ o + l <= n
  BY <1>3, <1>4, <1>6, <1>9, <1>10, <1>11
<1>14. Off(y) = o + l BY <1>8, <1>9, <1>12, <1>13, OffAdd
<1>15. Off(y) \in 1 .. n BY <1>3, <1>4, <1>6, <1>9, <1>13, <1>14
<1>16. ASSUME "FIN" \in seg.flags
       PROVE  /\ Add32[x][1 + l] \in SeqNo /\ Off(Add32[x][1 + l]) \in 1 .. n
              /\ Add32[y][1] \in SeqNo /\ Off(Add32[y][1]) \in 1 .. n
  <2>1. b = 1 BY <1>10, <1>16 DEF One
  <2>2. o + (1 + l) < Size32 /\ o + (1 + l) >= 1 /\ o + (1 + l) <= n /\ (o + l) + 1 = o + (1 + l)
    BY <1>3, <1>4, <1>6, <1>9, <1>11, <2>1
  <2>3. Add32[x][1 + l] \in SeqNo /\ Add32[y][1] \in SeqNo BY <1>8, AddSeqNo
  <2>4. PICK l1 \in 0 .. UIP_TCP_MSS + 1 : l1 = 1 + l BY <1>8
  <2>5. Off(Add32[x][l1]) = o + l1 BY <1>9, <2>2, <2>4, OffAdd
  <2>6. Off(Add32[y][1]) = o + l + 1 BY <1>8, <1>14, <2>2, OffAdd
  <2>7. o + (1 + l) \in 1 .. n BY <1>3, <1>4, <1>6, <1>9, <2>2
  <2> QED BY <2>2, <2>3, <2>4, <2>5, <2>6, <2>7
<1> QED BY <1>2, <1>3, <1>4, <1>12, <1>15, <1>16

\* A step that leaves the transfer of the page behind, or never touches it.
LEMMA QuietStep ==
    ASSUME NEW t, NEW u, NEW cl, NEW seg, NEW fl, Belongs(t, cl, seg),
           u \in uip_conn, u.peer = t.peer, fl \in SUBSET {"ACK"},
           u.tcpstateflags \notin {"UIP_SYN_RCVD", "UIP_ESTABLISHED"},
           u.tcpstateflags # "UIP_CLOSED" => /\ Off(u.rcv_nxt) \in 1 .. cl.nxt
                                             /\ t.tcpstateflags # "UIP_SYN_RCVD",
           u.mss = t.mss, u.initialmss = t.initialmss,
           u.appstate.pos = t.appstate.pos,
           u.appstate.last_sent_len = t.appstate.last_sent_len
    PROVE  Advance(t, u, cl, seg, fl, <<>>)
<1>1. ConnOK(t, cl) /\ t.tcpstateflags # "UIP_CLOSED" BY DEF Belongs
<1>2. ConnOK(u, cl) BY <1>1 DEF ConnOK
<1>3. fl \in SUBSET TcpFlags /\ "FIN" \notin fl BY DEF TcpFlags
<1>4. <<>> \in Seq(0 .. RESPONSE_LEN) OBVIOUS
<1> QED BY <1>2, <1>3, <1>4 DEF Advance

\* No step.
LEMMA NoStep ==
    ASSUME NEW t, NEW cl, NEW seg, NEW fl, Belongs(t, cl, seg), fl \in SUBSET {"ACK"}
    PROVE  Advance(t, t, cl, seg, fl, <<>>)
<1>1. ConnOK(t, cl) /\ t \in uip_conn BY DEF Belongs
<1>2. fl \in SUBSET TcpFlags /\ "FIN" \notin fl BY DEF TcpFlags
<1>3. <<>> \in Seq(0 .. RESPONSE_LEN) OBVIOUS
<1> QED BY <1>1, <1>2, <1>3 DEF Advance

\* The connection after the application was told of the end.
LEMMA ToldEnd ==
    ASSUME NEW t \in uip_conn, NEW fl,
           "UIP_CONNECTED" \notin fl, "UIP_CLOSE" \in fl \/ "UIP_ABORT" \in fl
    PROVE  /\ Told(t, fl) \in uip_conn
           /\ Told(t, fl).tcpstateflags = t.tcpstateflags /\ Told(t, fl).peer = t.peer
           /\ Told(t, fl).rcv_nxt = t.rcv_nxt /\ Told(t, fl).snd_nxt = t.snd_nxt
           /\ Told(t, fl).mss = t.mss /\ Told(t, fl).initialmss = t.initialmss
           /\ Told(t, fl).appstate.pos = t.appstate.pos
           /\ Told(t, fl).appstate.last_sent_len = t.appstate.last_sent_len
<1>1. PICK s \in http_state : s = t.appstate BY DEF uip_conn
<1>2. PICK q : q = httpd_appcall(s, fl, uip_mss(t)).s OBVIOUS
<1>3. q \in http_state /\ q.pos = s.pos /\ q.last_sent_len = s.last_sent_len
  BY <1>2, AppEnd
<1>4. Told(t, fl) = [t EXCEPT !.appstate = q] BY <1>1, <1>2 DEF Told, AppCall
<1> QED BY <1>1, <1>3, <1>4 DEF uip_conn

\* A RST.
LEMMA AbortOK ==
    ASSUME NEW conns, NEW i, NEW t, NEW cl, NEW seg, Belongs(t, cl, seg)
    PROVE  Result(conns, i, Kept(conns, i, [Told(t, {"UIP_ABORT"}) EXCEPT
                                               !.tcpstateflags = "UIP_CLOSED"]),
                  t, cl, seg)
<1>1. t \in uip_conn BY DEF Belongs
<1>2. PICK v : v = Told(t, {"UIP_ABORT"}) OBVIOUS
<1>3. /\ v \in uip_conn /\ v.peer = t.peer /\ v.mss = t.mss /\ v.initialmss = t.initialmss
      /\ v.appstate.pos = t.appstate.pos
      /\ v.appstate.last_sent_len = t.appstate.last_sent_len
  BY <1>1, <1>2, ToldEnd
<1>4. PICK u : u = [v EXCEPT !.tcpstateflags = "UIP_CLOSED"] OBVIOUS
<1>5. /\ u \in uip_conn /\ u.peer = t.peer /\ u.mss = t.mss /\ u.initialmss = t.initialmss
      /\ u.appstate.pos = t.appstate.pos
      /\ u.appstate.last_sent_len = t.appstate.last_sent_len
      /\ u.tcpstateflags = "UIP_CLOSED"
  BY <1>3, <1>4 DEF uip_conn, TcpStates
<1>6. Advance(t, u, cl, seg, {}, <<>>) BY <1>5, QuietStep
<1> QED BY <1>2, <1>4, <1>6 DEF Result

\* A number that is not the expected one is answered with the expected one.
LEMMA OutOfOrderOK ==
    ASSUME NEW conns, NEW i, NEW t, NEW cl, NEW seg, Belongs(t, cl, seg)
    PROVE  /\ Result(conns, i, tcp_send_ack(conns, i, t), t, cl, seg)
           /\ Result(conns, i, Kept(conns, i, t), t, cl, seg)
<1>1. Advance(t, t, cl, seg, {"ACK"}, <<>>) BY NoStep
<1> QED BY <1>1 DEF Result, tcp_send_ack

\* UIP_SYN_RCVD: the acknowledgement opens the connection.
LEMMA SynRcvdOK ==
    ASSUME NEW conns, NEW i, NEW t, NEW cl, NEW seg, InOrder(t, cl, seg),
           t.tcpstateflags = "UIP_SYN_RCVD", NEW a, a = AfterAck(t, seg)
    PROVE  Result(conns, i, SynRcvd(conns, i, a, AckedBy(t, seg), seg), t, cl, seg)
<1>1. Belongs(t, cl, seg) /\ t \in uip_conn /\ ConnOK(t, cl) BY DEF InOrder, Belongs
<1>2. CASE ~AckedBy(t, seg)
  <2>1. SynRcvd(conns, i, a, AckedBy(t, seg), seg) = Kept(conns, i, t)
    BY <1>1, <1>2, AfterAckOK DEF SynRcvd
  <2> QED BY <1>1, <2>1, OutOfOrderOK
<1>3. CASE AckedBy(t, seg)
  <2>1. /\ a \in uip_conn /\ a.peer = t.peer /\ a.rcv_nxt = t.rcv_nxt /\ a.mss = t.mss
        /\ a.initialmss = t.initialmss /\ a.len = 0 /\ "ACK" \in seg.flags
        /\ a.snd_nxt = (t.snd_nxt + t.len) % Size32
    BY <1>1, <1>3, AfterAckOK
  <2>2. a.snd_nxt = 1
    <3>1. t.snd_nxt = 0 /\ t.len = 1 BY <1>1 DEF ConnOK, Iss
    <3>2. Size32 \in Nat /\ Size32 > 2 BY ClientAssumption, SizePositive
    <3>3. (0 + 1) % Size32 = 1 BY <3>2
    <3> QED BY <2>1, <3>1, <3>3
  <2>3. PICK y \in SeqNo : y = Add32[t.rcv_nxt][seg.len] /\ Off(y) \in 1 .. cl.nxt BY RcvOK
  <2> DEFINE ev == {"UIP_CONNECTED"} \cup Events(FALSE, seg)
  <2>4. PICK v : v = [uip_add_rcv_nxt(a, seg.len) EXCEPT
                         !.tcpstateflags = "UIP_ESTABLISHED"] OBVIOUS
  <2>5. v = [a EXCEPT !.rcv_nxt = y, !.tcpstateflags = "UIP_ESTABLISHED"]
    BY <2>1, <2>3, <2>4 DEF uip_add_rcv_nxt, uip_conn
  <2>6. /\ v \in uip_conn /\ v.peer = t.peer /\ v.rcv_nxt = y /\ v.mss = t.mss
        /\ v.initialmss = t.initialmss /\ v.len = 0 /\ v.snd_nxt = 1
        /\ v.tcpstateflags = "UIP_ESTABLISHED"
    BY <2>1, <2>2, <2>5 DEF uip_conn, TcpStates
  <2>7. /\ AppCall(v, ev).s = FreshHttp /\ AppCall(v, ev).uip_flags = ev
        /\ AppCall(v, ev).data = <<>>
    <3>1. "UIP_CONNECTED" \in ev OBVIOUS
    <3> HIDE DEF ev
    <3> QED BY <3>1, AppNew DEF AppCall
  <2>8. "UIP_CLOSE" \notin ev BY DEF Events
  <2>9. PICK u : u = [[v EXCEPT !.appstate = FreshHttp] EXCEPT !.len = v.len] OBVIOUS
  <2>10. SynRcvd(conns, i, a, AckedBy(t, seg), seg) = appsend(conns, i, v, ev)
    BY <1>3, <2>4 DEF SynRcvd
  <2>11. \/ appsend(conns, i, v, ev) = tcp_send_ack(conns, i, u)
         \/ appsend(conns, i, v, ev) = Kept(conns, i, u)
    <3>1. Len(<<>>) = 0 /\ ~(0 > 0) OBVIOUS
    <3> HIDE DEF ev
    <3> QED BY <2>7, <2>8, <2>9, <3>1 DEF appsend
  <2>12. FreshHttp \in http_state BY HttpdAssumption DEF FreshHttp, http_state
  <2>13. /\ u \in uip_conn /\ u.peer = t.peer /\ u.rcv_nxt = y /\ u.mss = t.mss
         /\ u.initialmss = t.initialmss /\ u.len = 0 /\ u.snd_nxt = 1
         /\ u.tcpstateflags = "UIP_ESTABLISHED" /\ u.appstate = FreshHttp
    BY <2>6, <2>9, <2>12 DEF uip_conn
  <2>14. ConnOK(u, cl)
    <3>1. t.mss > 0 /\ t.initialmss > 0 BY <1>1 DEF ConnOK
    <3>2. /\ FreshHttp.state = "HTTP_STATE_WAITING" /\ FreshHttp.pos = 0
          /\ FreshHttp.last_sent_len = 0 /\ 0 + 0 <= RESPONSE_LEN
      BY HttpdAssumption DEF FreshHttp
    <3> QED BY <2>3, <2>13, <3>1, <3>2 DEF ConnOK
  <2>15. {"ACK"} \in SUBSET TcpFlags /\ "FIN" \notin {"ACK"}
         /\ <<>> \in Seq(0 .. RESPONSE_LEN)
    BY DEF TcpFlags
  <2>16. Advance(t, u, cl, seg, {"ACK"}, <<>>)
    BY <2>1, <2>13, <2>14, <2>15 DEF Advance
  <2> QED BY <2>10, <2>11, <2>16 DEF Result, tcp_send_ack
<1> QED BY <1>2, <1>3

\* The window.
LEMMA WindowOK ==
    ASSUME NEW t, NEW cl, NEW seg, InOrder(t, cl, seg), NEW a \in uip_conn,
           a.initialmss = t.initialmss, NEW y \in SeqNo,
           y = Add32[a.rcv_nxt][seg.len], NEW h,
           h = Window(uip_add_rcv_nxt(a, seg.len), seg)
    PROVE  /\ h \in uip_conn /\ h.mss > 0 /\ h.mss = Window(a, seg).mss
           /\ h.tcpstateflags = a.tcpstateflags /\ h.peer = a.peer /\ h.rcv_nxt = y
           /\ h.snd_nxt = a.snd_nxt /\ h.len = a.len /\ h.initialmss = a.initialmss
           /\ h.appstate = a.appstate
<1>1. t \in uip_conn /\ seg.wnd \in Nat /\ t.initialmss > 0
  BY DEF InOrder, Belongs, ConnOK, ServerSegment
<1>2. a.initialmss \in 0 .. UIP_TCP_MSS /\ UIP_TCP_MSS \in Nat BY UipAssumption DEF uip_conn
<1>3. PICK m : m = IF seg.wnd > a.initialmss \/ seg.wnd = 0 THEN a.initialmss ELSE seg.wnd
  OBVIOUS
<1>4. m \in 0 .. UIP_TCP_MSS /\ m > 0 BY <1>1, <1>2, <1>3
<1>5. uip_add_rcv_nxt(a, seg.len) = [a EXCEPT !.rcv_nxt = y] BY DEF uip_add_rcv_nxt
<1>6. h = [[a EXCEPT !.rcv_nxt = y] EXCEPT !.mss = m]
  BY <1>3, <1>5 DEF Window, uip_conn
<1>7. Window(a, seg).mss = m BY <1>3 DEF Window, uip_conn
<1> QED BY <1>4, <1>6, <1>7 DEF uip_conn

\* UIP_ESTABLISHED: the peer closes.
LEMMA PeerClosesOK ==
    ASSUME NEW conns, NEW i, NEW t, NEW cl, NEW seg, InOrder(t, cl, seg),
           t.tcpstateflags = "UIP_ESTABLISHED", NEW a, a = AfterAck(t, seg),
           "FIN" \in seg.flags, NEW acked
    PROVE  Result(conns, i, PeerCloses(conns, i, a, acked, seg), t, cl, seg)
<1>1. Belongs(t, cl, seg) /\ t \in uip_conn /\ ConnOK(t, cl) /\ SentOK(t.peer, cl, seg)
      /\ seg \in ServerSegment
  BY DEF InOrder, Belongs
<1>2. CASE uip_outstanding(a)
  <2>1. a = t BY <1>1, <1>2, AfterAckOK DEF uip_outstanding
  <2> QED BY <1>1, <1>2, <2>1, OutOfOrderOK DEF PeerCloses
<1>3. CASE ~uip_outstanding(a)
  <2>1. /\ a \in uip_conn /\ a.peer = t.peer /\ a.rcv_nxt = t.rcv_nxt /\ a.mss = t.mss
        /\ a.initialmss = t.initialmss /\ a.appstate = t.appstate
    BY <1>1, AfterAckOK
  <2>2. PICK y \in SeqNo : y = Add32[t.rcv_nxt][1 + seg.len] /\ Off(y) \in 1 .. cl.nxt
    BY RcvOK
  <2>3. PICK v : v = uip_add_rcv_nxt(a, 1 + seg.len) OBVIOUS
  <2>4. /\ v \in uip_conn /\ v.peer = t.peer /\ v.rcv_nxt = y /\ v.mss = t.mss
        /\ v.initialmss = t.initialmss /\ v.appstate = t.appstate
    BY <2>1, <2>2, <2>3 DEF uip_add_rcv_nxt, uip_conn
  <2>5. PICK fl : fl = {"UIP_CLOSE"} \cup Events(acked, seg) OBVIOUS
  <2>6. "UIP_CLOSE" \in fl /\ "UIP_CONNECTED" \notin fl BY <2>5 DEF Events
  <2>7. PICK w : w = Told(v, fl) OBVIOUS
  <2>8. /\ w \in uip_conn /\ w.peer = t.peer /\ w.rcv_nxt = y /\ w.mss = t.mss
        /\ w.initialmss = t.initialmss /\ w.appstate.pos = t.appstate.pos
        /\ w.appstate.last_sent_len = t.appstate.last_sent_len
    BY <2>4, <2>6, <2>7, ToldEnd
  <2>9. PICK u : u = [w EXCEPT !.len = 1, !.tcpstateflags = "UIP_LAST_ACK"] OBVIOUS
  <2>10. 1 \in 0 .. UIP_TCP_MSS BY UipAssumption
  <2>11. /\ u \in uip_conn /\ u.peer = t.peer /\ u.rcv_nxt = y /\ u.mss = t.mss
         /\ u.initialmss = t.initialmss /\ u.appstate.pos = t.appstate.pos
         /\ u.appstate.last_sent_len = t.appstate.last_sent_len
         /\ u.tcpstateflags = "UIP_LAST_ACK"
    BY <2>8, <2>9, <2>10 DEF uip_conn, TcpStates
  <2>12. ConnOK(u, cl) BY <1>1, <2>2, <2>11 DEF ConnOK
  <2>13. cl.fin
    <3>1. seg.type = "tcp" BY <1>1 DEF ServerSegment
    <3> QED BY <1>1, <3>1 DEF SentOK
  <2>14. {"FIN", "ACK"} \in SUBSET TcpFlags /\ <<>> \in Seq(0 .. RESPONSE_LEN) BY DEF TcpFlags
  <2>15. Advance(t, u, cl, seg, {"FIN", "ACK"}, <<>>)
    BY <2>11, <2>12, <2>13, <2>14 DEF Advance
  <2>16. PeerCloses(conns, i, a, acked, seg) = tcp_send(conns, i, u, {"FIN", "ACK"}, <<>>)
    BY <1>3, <2>3, <2>5, <2>7, <2>9 DEF PeerCloses, tcp_send_finack
  <2> QED BY <2>15, <2>16 DEF Result
<1> QED BY <1>2, <1>3

\* A segment carries as many bytes as it says.
LEMMA PayloadOK ==
    ASSUME NEW d \in Seq(0 .. RESPONSE_LEN), NEW n \in Nat
    PROVE  /\ Payload(d, n) \in Seq(0 .. RESPONSE_LEN) /\ Len(Payload(d, n)) = n
           /\ \A j \in 1 .. n : j <= Len(d) => Payload(d, n)[j] = d[j]
<1>1. RESPONSE_LEN \in Nat BY HttpdAssumption
<1>2. \A k \in 1 .. n : (IF k <= Len(d) THEN d[k] ELSE 0) \in 0 .. RESPONSE_LEN
  <2> SUFFICES ASSUME NEW k \in 1 .. n
               PROVE  (IF k <= Len(d) THEN d[k] ELSE 0) \in 0 .. RESPONSE_LEN
    OBVIOUS
  <2>1. k <= Len(d) => k \in 1 .. Len(d) OBVIOUS
  <2> QED BY <1>1, <2>1
<1>3. Payload(d, n) \in [1 .. n -> 0 .. RESPONSE_LEN] BY <1>2 DEF Payload
<1>4. Payload(d, n) \in Seq(0 .. RESPONSE_LEN) /\ Len(Payload(d, n)) = n
  <2>1. Payload(d, n) \in Seq(0 .. RESPONSE_LEN) BY <1>2 DEF Payload
  <2>2. Len(Payload(d, n)) = n BY DEF Payload
  <2> QED BY <2>1, <2>2
<1>5. \A j \in 1 .. n : j <= Len(d) => Payload(d, n)[j] = d[j] BY DEF Payload
<1> QED BY <1>4, <1>5

\* UIP_ESTABLISHED: the application hears of a piece of the request, of an
\* acknowledgement, or of both.
LEMMA AppSendOK ==
    ASSUME NEW conns, NEW i, NEW t, NEW cl, NEW seg, InOrder(t, cl, seg),
           t.tcpstateflags = "UIP_ESTABLISHED", NEW a, a = AfterAck(t, seg),
           "FIN" \notin seg.flags, NEW ev, ev = Events(AckedBy(t, seg), seg), ev # {},
           NEW h, h = Window(uip_add_rcv_nxt(a, seg.len), seg)
    PROVE  Result(conns, i, appsend(conns, i, h, ev), t, cl, seg)
<1>1. Belongs(t, cl, seg) /\ t \in uip_conn /\ ConnOK(t, cl) /\ ~OutOfOrder(t, seg)
      /\ seg \in ServerSegment /\ (~cl.resized => ~Cuts(t, seg))
  BY DEF InOrder, Belongs
<1>2. /\ a \in uip_conn /\ a.tcpstateflags = "UIP_ESTABLISHED" /\ a.peer = t.peer
      /\ a.rcv_nxt = t.rcv_nxt /\ a.initialmss = t.initialmss /\ a.appstate = t.appstate
      /\ AckedBy(t, seg) => /\ a.len = 0 /\ a.snd_nxt = (t.snd_nxt + t.len) % Size32
                            /\ t.len # 0
      /\ ~AckedBy(t, seg) => a = t
  BY <1>1, AfterAckOK
<1>3. PICK y \in SeqNo : y = Add32[t.rcv_nxt][seg.len] /\ Off(y) \in 1 .. cl.nxt BY RcvOK
<1>4. /\ h \in uip_conn /\ h.mss > 0 /\ h.mss = Window(a, seg).mss
      /\ h.tcpstateflags = "UIP_ESTABLISHED" /\ h.peer = t.peer /\ h.rcv_nxt = y
      /\ h.snd_nxt = a.snd_nxt /\ h.len = a.len /\ h.initialmss = t.initialmss
      /\ h.appstate = t.appstate
  BY <1>2, <1>3, WindowOK
<1>5. PICK s \in http_state : s = t.appstate BY <1>1 DEF uip_conn
<1>6. PICK m \in 1 .. UIP_TCP_MSS : m = h.mss BY <1>4, UipAssumption DEF uip_conn
<1>7. m \in Nat /\ m > 0 /\ m <= UIP_TCP_MSS /\ UIP_TCP_MSS \in Nat BY <1>6, UipAssumption
<1>8. /\ ev \in SUBSET {"UIP_ACKDATA", "UIP_NEWDATA"}
      /\ "UIP_ACKDATA" \in ev <=> AckedBy(t, seg)
      /\ "UIP_NEWDATA" \in ev <=> seg.len > 0
  BY DEF Events
<1>9. /\ s.pos + s.last_sent_len <= RESPONSE_LEN
      /\ t.initialmss > 0
      /\ \/ /\ s.state = "HTTP_STATE_WAITING" /\ s.pos = 0 /\ s.last_sent_len = 0
            /\ t.snd_nxt = 1 /\ t.len = 0
         \/ /\ s.state = "HTTP_STATE_SENDING" /\ s.last_sent_len > 0
            /\ ~cl.resized => t.snd_nxt = 1 + s.pos /\ t.len = s.last_sent_len
  BY <1>1, <1>5 DEF ConnOK
<1>10. PICK p : p = IF "UIP_ACKDATA" \in ev THEN s.pos + s.last_sent_len ELSE s.pos OBVIOUS
<1>11. PICK call : call = httpd_appcall(s, ev, m) OBVIOUS
<1>12. /\ p \in 0 .. RESPONSE_LEN
       /\ call.s \in http_state /\ call.s.pos = p
       /\ p < RESPONSE_LEN =>
             /\ call.s.state = "HTTP_STATE_SENDING"
             /\ call.s.last_sent_len = Chunk(p, m)
             /\ call.uip_flags = ev /\ call.data = PieceAt(p, Chunk(p, m))
       /\ p = RESPONSE_LEN =>
             /\ call.s.last_sent_len = 0
             /\ call.uip_flags = {"UIP_CLOSE"} /\ call.data = <<>>
  <2>1. \/ /\ s.state = "HTTP_STATE_WAITING" /\ "UIP_ACKDATA" \notin ev
           /\ s.pos = 0 /\ s.last_sent_len = 0
        \/ s.state = "HTTP_STATE_SENDING" /\ s.last_sent_len > 0
    BY <1>2, <1>8, <1>9
  <2> QED BY <1>7, <1>8, <1>9, <1>10, <1>11, <2>1, AppData
<1>13. AppCall(h, ev) = call BY <1>4, <1>5, <1>6, <1>11 DEF AppCall, uip_mss
<1>14. RESPONSE_LEN \in Nat /\ RESPONSE_LEN > 0 /\ s.pos \in 0 .. RESPONSE_LEN
       /\ s.last_sent_len \in 0 .. RESPONSE_LEN
  BY HttpdAssumption DEF http_state
<1>15. ~cl.resized => a.snd_nxt = 1 + p
  <2> SUFFICES ASSUME ~cl.resized PROVE a.snd_nxt = 1 + p OBVIOUS
  <2>1. CASE AckedBy(t, seg)
    <3>1. p = s.pos + s.last_sent_len BY <1>8, <1>10, <2>1
    <3>2. t.snd_nxt + t.len = 1 + p BY <1>2, <1>9, <1>14, <2>1, <3>1
    <3>3. (1 + p) % Size32 = 1 + p
      BY <1>12, <1>14, ClientAssumption, SizePositive, SMTT(30)
    <3> QED BY <1>2, <2>1, <3>2, <3>3
  <2>2. CASE ~AckedBy(t, seg)
    BY <1>2, <1>8, <1>9, <1>10, <1>14, <2>2
  <2> QED BY <2>1, <2>2
<1>16. CASE p = RESPONSE_LEN
  <2>1. PICK u : u = [[h EXCEPT !.appstate = call.s] EXCEPT !.len = 1,
                                               !.tcpstateflags = "UIP_FIN_WAIT_1"]
    OBVIOUS
  <2>2. appsend(conns, i, h, ev) = tcp_send(conns, i, u, {"FIN", "ACK"}, <<>>)
    <3>1. "UIP_CLOSE" \in call.uip_flags BY <1>12, <1>16
    <3> QED BY <1>13, <2>1, <3>1 DEF appsend, tcp_send_finack
  <2>3. /\ u \in uip_conn /\ u.peer = t.peer /\ u.rcv_nxt = y /\ u.mss = m
        /\ u.initialmss = t.initialmss /\ u.appstate = call.s /\ u.snd_nxt = a.snd_nxt
        /\ u.tcpstateflags = "UIP_FIN_WAIT_1"
    <3>1. 1 \in 0 .. UIP_TCP_MSS BY <1>7
    <3>2. PICK q \in http_state : q = call.s BY <1>12
    <3>3. u = [h EXCEPT !.appstate = q, !.len = 1, !.tcpstateflags = "UIP_FIN_WAIT_1"]
      BY <1>4, <2>1, <3>2 DEF uip_conn
    <3> QED BY <1>4, <1>6, <3>1, <3>2, <3>3 DEF uip_conn, TcpStates
  <2>4. p + 0 <= RESPONSE_LEN BY <1>14, <1>16
  <2>5. ConnOK(u, cl) BY <1>3, <1>7, <1>9, <1>12, <1>16, <2>3, <2>4 DEF ConnOK
  <2>6. {"FIN", "ACK"} \in SUBSET TcpFlags /\ <<>> \in Seq(0 .. RESPONSE_LEN) BY DEF TcpFlags
  <2>7. Advance(t, u, cl, seg, {"FIN", "ACK"}, <<>>)
    BY <1>15, <1>16, <2>3, <2>5, <2>6 DEF Advance
  <2> QED BY <2>2, <2>7 DEF Result
<1>17. CASE p < RESPONSE_LEN
  <2>1. PICK ch : ch = Chunk(p, m) OBVIOUS
  <2>2. ch \in Nat /\ ch > 0 /\ ch <= m /\ p + ch <= RESPONSE_LEN
    BY <1>7, <1>12, <1>17, <2>1, ChunkRange
  <2>3. p \in Nat BY <1>12, <1>14
  <2>4. PICK d \in Seq(0 .. RESPONSE_LEN) :
           d = PieceAt(p, ch) /\ Len(d) = ch /\ \A j \in 1 .. ch : d[j] = p + j
    BY <2>2, <2>3, PieceOK
  <2>5. call.data = d /\ call.uip_flags = ev BY <1>12, <1>17, <2>1, <2>4
  <2>6. PICK len : len = IF "UIP_ACKDATA" \in ev \/ h.len = 0 THEN ch ELSE h.len OBVIOUS
  <2>7. h.len \in 0 .. UIP_TCP_MSS BY <1>4 DEF uip_conn
  <2>8. len \in 0 .. UIP_TCP_MSS /\ len > 0 /\ len \in Nat BY <1>7, <2>2, <2>6, <2>7
  <2>9. PICK u : u = [[h EXCEPT !.appstate = call.s] EXCEPT !.len = len] OBVIOUS
  <2>10. PICK dd \in Seq(0 .. RESPONSE_LEN) : /\ dd = Payload(d, len) /\ Len(dd) = len
                      /\ \A j \in 1 .. len : j <= Len(d) => dd[j] = d[j]
    BY <2>4, <2>8, PayloadOK
  <2>11. appsend(conns, i, h, ev) = tcp_send(conns, i, u, {"ACK", "PSH"}, dd)
    <3>1. "UIP_CLOSE" \notin call.uip_flags BY <1>8, <2>5
    <3>2. Least(ch, h.mss) = ch BY <1>6, <1>7, <2>2 DEF Least
    <3>3. Len(call.data) = ch /\ Len(call.data) > 0 BY <2>2, <2>4, <2>5
    <3>4. (IF Len(call.data) > 0 /\ (uip_acked(ev) \/ ~uip_outstanding(h))
           THEN Least(Len(call.data), h.mss) ELSE h.len) = len
      BY <2>6, <3>2, <3>3 DEF uip_acked, uip_outstanding
    <3> QED BY <1>13, <2>5, <2>8, <2>9, <2>10, <3>1, <3>3, <3>4 DEF appsend
  <2>12. /\ u \in uip_conn /\ u.peer = t.peer /\ u.rcv_nxt = y /\ u.mss = m
         /\ u.initialmss = t.initialmss /\ u.appstate = call.s /\ u.snd_nxt = a.snd_nxt
         /\ u.tcpstateflags = "UIP_ESTABLISHED" /\ u.len = len
    BY <1>4, <1>6, <1>12, <2>8, <2>9 DEF uip_conn
  <2>13. ~cl.resized => len = ch
    <3> SUFFICES ASSUME ~cl.resized, "UIP_ACKDATA" \notin ev, h.len # 0 PROVE h.len = ch
      BY <2>6
    <3>1. ~AckedBy(t, seg) /\ seg.len > 0 /\ ev = {"UIP_NEWDATA"} BY <1>8
    <3>2. a = t /\ h.len = t.len BY <1>2, <1>4, <3>1
    <3>3. Len(AppCall(Window(t, seg), {"UIP_NEWDATA"}).data) = t.len
      BY <1>1, <3>1, <3>2 DEF Cuts, uip_outstanding
    <3>4. Window(t, seg).appstate = s /\ Window(t, seg).mss = m
      BY <1>1, <1>4, <1>5, <1>6, <3>2 DEF Window, uip_conn
    <3>5. AppCall(Window(t, seg), {"UIP_NEWDATA"}) = call
      BY <1>11, <3>1, <3>4 DEF AppCall, uip_mss
    <3> QED BY <2>4, <2>5, <3>2, <3>3, <3>5
  <2>14. ConnOK(u, cl)
    BY <1>3, <1>7, <1>9, <1>12, <1>15, <1>17, <2>1, <2>2, <2>12, <2>13 DEF ConnOK
  <2>15. ~cl.resized => /\ u.snd_nxt > 0 /\ u.snd_nxt - 1 + Len(dd) <= RESPONSE_LEN
                        /\ \A j \in DOMAIN dd : dd[j] = u.snd_nxt - 1 + j
    <3> SUFFICES ASSUME ~cl.resized
                 PROVE  /\ u.snd_nxt > 0 /\ u.snd_nxt - 1 + Len(dd) <= RESPONSE_LEN
                        /\ \A j \in DOMAIN dd : dd[j] = u.snd_nxt - 1 + j
      OBVIOUS
    <3>1. len = ch /\ u.snd_nxt = 1 + p BY <1>15, <2>12, <2>13
    <3>2. \A j \in 1 .. ch : dd[j] = p + j BY <2>2, <2>4, <2>10, <3>1
    <3>3. DOMAIN dd = 1 .. ch BY <2>10, <3>1
    <3>4. u.snd_nxt - 1 = p /\ u.snd_nxt > 0 BY <2>3, <3>1
    <3> QED BY <2>2, <2>10, <3>1, <3>2, <3>3, <3>4
  <2>16. {"ACK", "PSH"} \in SUBSET TcpFlags /\ "FIN" \notin {"ACK", "PSH"} BY DEF TcpFlags
  <2>17. Advance(t, u, cl, seg, {"ACK", "PSH"}, dd)
    BY <2>12, <2>14, <2>15, <2>16 DEF Advance
  <2> QED BY <2>11, <2>17 DEF Result
<1> QED BY <1>12, <1>14, <1>16, <1>17

LEMMA EstablishedOK ==
    ASSUME NEW conns, NEW i, NEW t, NEW cl, NEW seg, InOrder(t, cl, seg),
           t.tcpstateflags = "UIP_ESTABLISHED", NEW a, a = AfterAck(t, seg)
    PROVE  Result(conns, i, Established(conns, i, a, AckedBy(t, seg), seg), t, cl, seg)
<1>1. CASE "FIN" \in seg.flags BY <1>1, PeerClosesOK DEF Established
<1>2. CASE "FIN" \notin seg.flags /\ Events(AckedBy(t, seg), seg) # {}
  BY <1>2, AppSendOK DEF Established
<1>3. CASE "FIN" \notin seg.flags /\ Events(AckedBy(t, seg), seg) = {}
  <2>1. Belongs(t, cl, seg) /\ t \in uip_conn /\ ConnOK(t, cl) BY DEF InOrder, Belongs
  <2>2. ~AckedBy(t, seg) BY <1>3 DEF Events
  <2>3. a = t BY <2>1, <2>2, AfterAckOK
  <2>4. PICK y \in SeqNo : y = Add32[t.rcv_nxt][seg.len] /\ Off(y) \in 1 .. cl.nxt BY RcvOK
  <2>5. PICK h : h = Window(uip_add_rcv_nxt(t, seg.len), seg) OBVIOUS
  <2>6. /\ h \in uip_conn /\ h.mss > 0
        /\ h.tcpstateflags = "UIP_ESTABLISHED" /\ h.peer = t.peer /\ h.rcv_nxt = y
        /\ h.snd_nxt = t.snd_nxt /\ h.len = t.len /\ h.initialmss = t.initialmss
        /\ h.appstate = t.appstate
    BY <2>1, <2>4, <2>5, WindowOK
  <2>7. ConnOK(h, cl) BY <2>1, <2>4, <2>6 DEF ConnOK
  <2>8. {} \in SUBSET TcpFlags /\ <<>> \in Seq(0 .. RESPONSE_LEN) OBVIOUS
  <2>9. Advance(t, h, cl, seg, {}, <<>>) BY <2>6, <2>7, <2>8 DEF Advance
  <2>10. Established(conns, i, a, AckedBy(t, seg), seg) = Kept(conns, i, h)
    BY <1>3, <2>3, <2>5 DEF Established
  <2> QED BY <2>9, <2>10 DEF Result
<1> QED BY <1>1, <1>2, <1>3

\* UIP_LAST_ACK.
LEMMA LastAckOK ==
    ASSUME NEW conns, NEW i, NEW t, NEW cl, NEW seg, InOrder(t, cl, seg),
           t.tcpstateflags = "UIP_LAST_ACK", NEW a, a = AfterAck(t, seg)
    PROVE  Result(conns, i, LastAck(conns, i, a, AckedBy(t, seg)), t, cl, seg)
<1>1. Belongs(t, cl, seg) BY DEF InOrder
<1>2. /\ a \in uip_conn /\ a.peer = t.peer /\ a.mss = t.mss
      /\ a.initialmss = t.initialmss /\ a.appstate = t.appstate
      /\ ~AckedBy(t, seg) => a = t
  BY <1>1, AfterAckOK
<1>3. CASE AckedBy(t, seg)
  <2>1. PICK v : v = Told(a, {"UIP_CLOSE"}) OBVIOUS
  <2>2. /\ v \in uip_conn /\ v.peer = t.peer /\ v.mss = t.mss
        /\ v.initialmss = t.initialmss /\ v.appstate.pos = t.appstate.pos
        /\ v.appstate.last_sent_len = t.appstate.last_sent_len
    BY <1>2, <2>1, ToldEnd
  <2>3. PICK u : u = [v EXCEPT !.tcpstateflags = "UIP_CLOSED"] OBVIOUS
  <2>4. /\ u \in uip_conn /\ u.peer = t.peer /\ u.mss = t.mss
        /\ u.initialmss = t.initialmss /\ u.appstate.pos = t.appstate.pos
        /\ u.appstate.last_sent_len = t.appstate.last_sent_len
        /\ u.tcpstateflags = "UIP_CLOSED"
    BY <2>2, <2>3 DEF uip_conn, TcpStates
  <2>5. Advance(t, u, cl, seg, {}, <<>>) BY <1>1, <2>4, QuietStep
  <2> QED BY <1>3, <2>1, <2>3, <2>5 DEF Result, LastAck
<1>4. CASE ~AckedBy(t, seg) BY <1>1, <1>2, <1>4, OutOfOrderOK DEF LastAck
<1> QED BY <1>3, <1>4

\* The connection after a number of bytes, and its FIN, were received.
LEMMA HeardOK ==
    ASSUME NEW t, NEW cl, NEW seg, InOrder(t, cl, seg), NEW a, a = AfterAck(t, seg),
           NEW h, h = uip_add_rcv_nxt(a, seg.len)
    PROVE  /\ h \in uip_conn /\ h.tcpstateflags = t.tcpstateflags /\ h.peer = t.peer
           /\ h.mss = t.mss /\ h.initialmss = t.initialmss /\ h.appstate = t.appstate
           /\ h.rcv_nxt \in SeqNo /\ Off(h.rcv_nxt) \in 1 .. cl.nxt
           /\ "FIN" \in seg.flags =>
                 LET v == Told(uip_add_rcv_nxt(h, 1), {"UIP_CLOSE"})
                 IN  /\ v \in uip_conn /\ v.peer = t.peer
                     /\ v.mss = t.mss /\ v.initialmss = t.initialmss
                     /\ v.appstate.pos = t.appstate.pos
                     /\ v.appstate.last_sent_len = t.appstate.last_sent_len
                     /\ Off(v.rcv_nxt) \in 1 .. cl.nxt
<1>1. Belongs(t, cl, seg) BY DEF InOrder
<1>2. /\ a \in uip_conn /\ a.tcpstateflags = t.tcpstateflags /\ a.peer = t.peer
      /\ a.rcv_nxt = t.rcv_nxt /\ a.mss = t.mss
      /\ a.initialmss = t.initialmss /\ a.appstate = t.appstate
  BY <1>1, AfterAckOK
<1>3. PICK y \in SeqNo : y = Add32[t.rcv_nxt][seg.len] /\ Off(y) \in 1 .. cl.nxt BY RcvOK
<1>4. h = [a EXCEPT !.rcv_nxt = y] BY <1>2, <1>3 DEF uip_add_rcv_nxt
<1>5. /\ h \in uip_conn /\ h.tcpstateflags = t.tcpstateflags /\ h.peer = t.peer
      /\ h.mss = t.mss /\ h.initialmss = t.initialmss /\ h.appstate = t.appstate
      /\ h.rcv_nxt = y
  BY <1>2, <1>4 DEF uip_conn
<1>6. ASSUME "FIN" \in seg.flags
      PROVE  LET v == Told(uip_add_rcv_nxt(h, 1), {"UIP_CLOSE"})
             IN  /\ v \in uip_conn /\ v.peer = t.peer
                 /\ v.mss = t.mss /\ v.initialmss = t.initialmss
                 /\ v.appstate.pos = t.appstate.pos
                 /\ v.appstate.last_sent_len = t.appstate.last_sent_len
                 /\ Off(v.rcv_nxt) \in 1 .. cl.nxt
  <2>1. PICK z \in SeqNo : z = Add32[y][1] /\ Off(z) \in 1 .. cl.nxt BY <1>3, <1>6, RcvOK
  <2>2. PICK g : g = uip_add_rcv_nxt(h, 1) OBVIOUS
  <2>3. g = [h EXCEPT !.rcv_nxt = z] BY <1>5, <2>1, <2>2 DEF uip_add_rcv_nxt
  <2>4. /\ g \in uip_conn /\ g.peer = t.peer
        /\ g.mss = t.mss /\ g.initialmss = t.initialmss /\ g.appstate = t.appstate
        /\ g.rcv_nxt = z
    BY <1>5, <2>3 DEF uip_conn
  <2>5. PICK v : v = Told(g, {"UIP_CLOSE"}) OBVIOUS
  <2>6. /\ v \in uip_conn /\ v.peer = t.peer /\ v.mss = t.mss
        /\ v.initialmss = t.initialmss /\ v.appstate.pos = t.appstate.pos
        /\ v.appstate.last_sent_len = t.appstate.last_sent_len
        /\ v.rcv_nxt = z
    BY <2>4, <2>5, ToldEnd
  <2> QED BY <2>1, <2>2, <2>5, <2>6
<1> QED BY <1>3, <1>5, <1>6

\* A step to another state of a connection that is about to end.
LEMMA EndStep ==
    ASSUME NEW t, NEW v, NEW cl, NEW seg, Belongs(t, cl, seg),
           t.tcpstateflags # "UIP_SYN_RCVD",
           v \in uip_conn, v.peer = t.peer, v.mss = t.mss, v.initialmss = t.initialmss,
           v.appstate.pos = t.appstate.pos,
           v.appstate.last_sent_len = t.appstate.last_sent_len,
           Off(v.rcv_nxt) \in 1 .. cl.nxt,
           NEW st, st \in {"UIP_FIN_WAIT_1", "UIP_FIN_WAIT_2", "UIP_CLOSING", "UIP_TIME_WAIT"},
           NEW u, u = [v EXCEPT !.tcpstateflags = st], NEW conns, NEW i
    PROVE  /\ Result(conns, i, tcp_send_ack(conns, i, u), t, cl, seg)
           /\ Result(conns, i, Kept(conns, i, u), t, cl, seg)
<1>1. /\ u \in uip_conn /\ u.peer = t.peer /\ u.mss = t.mss /\ u.initialmss = t.initialmss
      /\ u.appstate.pos = t.appstate.pos
      /\ u.appstate.last_sent_len = t.appstate.last_sent_len
      /\ u.rcv_nxt = v.rcv_nxt /\ u.tcpstateflags = st
  BY DEF uip_conn, TcpStates
<1>2. Advance(t, u, cl, seg, {"ACK"}, <<>>) BY <1>1, QuietStep
<1> QED BY <1>2 DEF Result, tcp_send_ack

\* UIP_FIN_WAIT_1.
LEMMA FinWait1OK ==
    ASSUME NEW conns, NEW i, NEW t, NEW cl, NEW seg, InOrder(t, cl, seg),
           t.tcpstateflags = "UIP_FIN_WAIT_1", NEW a, a = AfterAck(t, seg)
    PROVE  Result(conns, i, FinWait1(conns, i, a, AckedBy(t, seg), seg), t, cl, seg)
<1>1. Belongs(t, cl, seg) BY DEF InOrder
<1>2. PICK h : h = uip_add_rcv_nxt(a, seg.len) OBVIOUS
<1>3. /\ h \in uip_conn /\ h.tcpstateflags = "UIP_FIN_WAIT_1" /\ h.peer = t.peer
      /\ h.mss = t.mss /\ h.initialmss = t.initialmss /\ h.appstate = t.appstate
      /\ Off(h.rcv_nxt) \in 1 .. cl.nxt
  BY <1>2, HeardOK
<1>4. CASE "FIN" \in seg.flags
  <2>1. PICK v : v = Told(uip_add_rcv_nxt(h, 1), {"UIP_CLOSE"}) OBVIOUS
  <2>2. /\ v \in uip_conn /\ v.peer = t.peer
        /\ v.mss = t.mss /\ v.initialmss = t.initialmss
        /\ v.appstate.pos = t.appstate.pos
        /\ v.appstate.last_sent_len = t.appstate.last_sent_len
        /\ Off(v.rcv_nxt) \in 1 .. cl.nxt
    BY <1>2, <1>4, <2>1, HeardOK
  <2>3. PICK st : st = IF AckedBy(t, seg) THEN "UIP_TIME_WAIT" ELSE "UIP_CLOSING" OBVIOUS
  <2>4. PICK u : u = [v EXCEPT !.tcpstateflags = st] OBVIOUS
  <2>5. Result(conns, i, tcp_send_ack(conns, i, u), t, cl, seg)
    BY <1>1, <2>2, <2>3, <2>4, EndStep
  <2> QED BY <1>2, <1>4, <2>1, <2>3, <2>4, <2>5 DEF FinWait1
<1>5. CASE "FIN" \notin seg.flags
  <2>1. PICK u : u = [h EXCEPT !.tcpstateflags = "UIP_FIN_WAIT_2"] OBVIOUS
  <2>2. Result(conns, i, Kept(conns, i, u), t, cl, seg) BY <1>1, <1>3, <2>1, EndStep
  <2>3. h = [h EXCEPT !.tcpstateflags = "UIP_FIN_WAIT_1"] BY <1>3 DEF uip_conn
  <2>4. /\ Result(conns, i, tcp_send_ack(conns, i, h), t, cl, seg)
        /\ Result(conns, i, Kept(conns, i, h), t, cl, seg)
    BY <1>1, <1>3, <2>3, EndStep
  <2> QED BY <1>2, <1>5, <2>1, <2>2, <2>4 DEF FinWait1
<1> QED BY <1>4, <1>5

\* UIP_FIN_WAIT_2.
LEMMA FinWait2OK ==
    ASSUME NEW conns, NEW i, NEW t, NEW cl, NEW seg, InOrder(t, cl, seg),
           t.tcpstateflags = "UIP_FIN_WAIT_2", NEW a, a = AfterAck(t, seg)
    PROVE  Result(conns, i, FinWait2(conns, i, a, seg), t, cl, seg)
<1>1. Belongs(t, cl, seg) BY DEF InOrder
<1>2. PICK h : h = uip_add_rcv_nxt(a, seg.len) OBVIOUS
<1>3. /\ h \in uip_conn /\ h.tcpstateflags = "UIP_FIN_WAIT_2" /\ h.peer = t.peer
      /\ h.mss = t.mss /\ h.initialmss = t.initialmss /\ h.appstate = t.appstate
      /\ Off(h.rcv_nxt) \in 1 .. cl.nxt
  BY <1>2, HeardOK
<1>4. CASE "FIN" \in seg.flags
  <2>1. PICK v : v = Told(uip_add_rcv_nxt(h, 1), {"UIP_CLOSE"}) OBVIOUS
  <2>2. /\ v \in uip_conn /\ v.peer = t.peer
        /\ v.mss = t.mss /\ v.initialmss = t.initialmss
        /\ v.appstate.pos = t.appstate.pos
        /\ v.appstate.last_sent_len = t.appstate.last_sent_len
        /\ Off(v.rcv_nxt) \in 1 .. cl.nxt
    BY <1>2, <1>4, <2>1, HeardOK
  <2>3. PICK u : u = [v EXCEPT !.tcpstateflags = "UIP_TIME_WAIT"] OBVIOUS
  <2>4. Result(conns, i, tcp_send_ack(conns, i, u), t, cl, seg)
    BY <1>1, <2>2, <2>3, EndStep
  <2> QED BY <1>2, <1>4, <2>1, <2>3, <2>4 DEF FinWait2
<1>5. CASE "FIN" \notin seg.flags
  <2>1. h = [h EXCEPT !.tcpstateflags = "UIP_FIN_WAIT_2"] BY <1>3 DEF uip_conn
  <2>2. /\ Result(conns, i, tcp_send_ack(conns, i, h), t, cl, seg)
        /\ Result(conns, i, Kept(conns, i, h), t, cl, seg)
    BY <1>1, <1>3, <2>1, EndStep
  <2> QED BY <1>2, <1>5, <2>2 DEF FinWait2
<1> QED BY <1>4, <1>5

\* UIP_TIME_WAIT and UIP_CLOSING.
LEMMA EndOK ==
    ASSUME NEW conns, NEW i, NEW t, NEW cl, NEW seg, InOrder(t, cl, seg),
           t.tcpstateflags \in {"UIP_TIME_WAIT", "UIP_CLOSING"}, NEW a, a = AfterAck(t, seg)
    PROVE  /\ Result(conns, i, tcp_send_ack(conns, i, a), t, cl, seg)
           /\ Result(conns, i, Kept(conns, i, a), t, cl, seg)
           /\ Result(conns, i, Kept(conns, i, [a EXCEPT !.tcpstateflags = "UIP_TIME_WAIT"]),
                     t, cl, seg)
<1>1. Belongs(t, cl, seg) BY DEF InOrder
<1>2. /\ a \in uip_conn /\ a.peer = t.peer /\ a.mss = t.mss
      /\ a.initialmss = t.initialmss /\ a.appstate = t.appstate
      /\ a.rcv_nxt = t.rcv_nxt /\ a.tcpstateflags = t.tcpstateflags
  BY <1>1, AfterAckOK
<1>3. Off(a.rcv_nxt) \in 1 .. cl.nxt BY <1>1, <1>2 DEF Belongs, ConnOK
<1>4. a = [a EXCEPT !.tcpstateflags = a.tcpstateflags] BY <1>2 DEF uip_conn
<1>5. /\ Result(conns, i, tcp_send_ack(conns, i, a), t, cl, seg)
      /\ Result(conns, i, Kept(conns, i, a), t, cl, seg)
  BY <1>1, <1>2, <1>3, <1>4, EndStep
<1>6. Result(conns, i, Kept(conns, i, [a EXCEPT !.tcpstateflags = "UIP_TIME_WAIT"]),
             t, cl, seg)
  BY <1>1, <1>2, <1>3, EndStep
<1> QED BY <1>5, <1>6

\* What a segment of connection i does.
LEMMA FoundOK ==
    ASSUME NEW conns, NEW i, NEW t, t = conns[i], NEW cl, NEW seg, Belongs(t, cl, seg)
    PROVE  Result(conns, i, found(conns, i, seg), t, cl, seg)
<1>1. CASE "RST" \in seg.flags BY <1>1, AbortOK DEF found
<1>2. CASE "RST" \notin seg.flags /\ OutOfOrder(t, seg) BY <1>2, OutOfOrderOK DEF found
<1>3. CASE "RST" \notin seg.flags /\ ~OutOfOrder(t, seg)
  <2>1. InOrder(t, cl, seg) BY <1>3 DEF InOrder
  <2>2. PICK a : a = AfterAck(t, seg) OBVIOUS
  <2>3. found(conns, i, seg) = ByState(conns, i, a, AckedBy(t, seg), seg)
    BY <1>3, <2>2 DEF found, AfterAck
  <2>4. a.tcpstateflags = t.tcpstateflags /\ t \in uip_conn
        /\ t.tcpstateflags # "UIP_CLOSED"
    BY <2>2, AfterAckOK DEF Belongs
  <2>5. t.tcpstateflags \in TcpStates BY <2>4 DEF uip_conn
  <2>6. CASE t.tcpstateflags = "UIP_SYN_RCVD"
    BY <2>1, <2>2, <2>3, <2>4, <2>6, SynRcvdOK DEF ByState
  <2>7. CASE t.tcpstateflags = "UIP_ESTABLISHED"
    BY <2>1, <2>2, <2>3, <2>4, <2>7, EstablishedOK DEF ByState
  <2>8. CASE t.tcpstateflags = "UIP_LAST_ACK"
    BY <2>1, <2>2, <2>3, <2>4, <2>8, LastAckOK DEF ByState
  <2>9. CASE t.tcpstateflags = "UIP_FIN_WAIT_1"
    BY <2>1, <2>2, <2>3, <2>4, <2>9, FinWait1OK DEF ByState
  <2>10. CASE t.tcpstateflags = "UIP_FIN_WAIT_2"
    BY <2>1, <2>2, <2>3, <2>4, <2>10, FinWait2OK DEF ByState
  <2>11. CASE t.tcpstateflags \in {"UIP_TIME_WAIT", "UIP_CLOSING"}
    <3>1. /\ Result(conns, i, tcp_send_ack(conns, i, a), t, cl, seg)
          /\ Result(conns, i, Kept(conns, i, a), t, cl, seg)
          /\ Result(conns, i, Kept(conns, i, [a EXCEPT !.tcpstateflags = "UIP_TIME_WAIT"]),
                    t, cl, seg)
      BY <2>1, <2>2, <2>11, EndOK
    <3>2. CASE t.tcpstateflags = "UIP_TIME_WAIT"
      BY <2>3, <2>4, <3>1, <3>2 DEF ByState
    <3>3. CASE t.tcpstateflags = "UIP_CLOSING" /\ AckedBy(t, seg)
      BY <2>3, <2>4, <3>1, <3>3 DEF ByState
    <3>4. CASE t.tcpstateflags = "UIP_CLOSING" /\ ~AckedBy(t, seg)
      BY <2>3, <2>4, <3>1, <3>4 DEF ByState
    <3> QED BY <2>11, <3>2, <3>3, <3>4
  <2> QED BY <2>4, <2>5, <2>6, <2>7, <2>8, <2>9, <2>10, <2>11 DEF TcpStates
<1> QED BY <1>1, <1>2, <1>3

-----------------------------------------------------------------------------
(***************************************************************************)
(* A link: frames come and go.                                             *)
(***************************************************************************)
LEMMA TailFrames ==
    ASSUME NEW T, NEW q \in Seq(T), q # <<>>
    PROVE  /\ Tail(q) \in Seq(T) /\ Head(q) = q[1] /\ 1 \in DOMAIN q
           /\ \A k \in DOMAIN Tail(q) : k + 1 \in DOMAIN q /\ Tail(q)[k] = q[k + 1]
           /\ \A k \in DOMAIN Tail(q) : k \in Nat /\ k >= 1
  OBVIOUS

LEMMA AppendFrame ==
    ASSUME NEW T, NEW q \in Seq(T), NEW f \in T
    PROVE  /\ Append(q, f) \in Seq(T)
           /\ \A k \in DOMAIN Append(q, f) : \/ k \in DOMAIN q /\ Append(q, f)[k] = q[k]
                                             \/ k = Len(q) + 1 /\ Append(q, f)[k] = f
           /\ \A k \in DOMAIN q : k \in Nat /\ k < Len(q) + 1
           /\ Len(q) \in Nat
  OBVIOUS

\* A client goes on.
Grows(cl, cl1) ==
    /\ cl1.nxt >= cl.nxt
    /\ cl.phase \in {"open", "reset"} => cl1.phase \in {"open", "reset"}
    /\ cl.fin => cl1.fin
    /\ cl.resized => cl1.resized

LEMMA SentGrows ==
    ASSUME NEW c, NEW cl \in Client, NEW cl1 \in Client, Grows(cl, cl1),
           NEW f \in ServerFrame, SentOK(c, cl, f)
    PROVE  SentOK(c, cl1, f)
<1>1. f.type = "tcp" => f \in ServerSegment BY DEF ServerFrame, PlainFrame, EchoFrame
<1>2. REQ \in Nat /\ UIP_TCP_MSS \in Nat BY ClientAssumption, UipAssumption
<1>3. cl.nxt \in Int /\ cl1.nxt \in Int /\ cl1.nxt >= cl.nxt BY <1>2 DEF Client, Grows
<1>4. ASSUME f.type = "tcp"
      PROVE  Off(f.seqno) + f.len + One("SYN" \in f.flags) + One("FIN" \in f.flags) <= cl1.nxt
  <2>1. Off(f.seqno) \in Int /\ f.len \in Int
    BY <1>1, <1>2, <1>4, OffRange, SizePositive DEF ServerSegment, SeqNo
  <2>2. One("SYN" \in f.flags) \in Int /\ One("FIN" \in f.flags) \in Int BY DEF One
  <2>3. Off(f.seqno) + f.len + One("SYN" \in f.flags) + One("FIN" \in f.flags) <= cl.nxt
    BY <1>4 DEF SentOK
  <2> QED BY <1>3, <2>1, <2>2, <2>3
<1>5. ASSUME f.type = "tcp"
      PROVE  /\ f.src = c
             /\ "SYN" \in f.flags => /\ Off(f.seqno) = 0 /\ f.flags = {"SYN"}
                                     /\ f.mssopt > 0
             /\ "ACK" \in f.flags => cl1.phase \in {"open", "reset"}
             /\ "FIN" \in f.flags => cl1.fin
  BY <1>5 DEF SentOK, Grows
<1> QED BY <1>4, <1>5 DEF SentOK

LEMMA ReplyGrows ==
    ASSUME NEW cl, NEW cl1, Grows(cl, cl1), NEW f, ReplyOK(cl, f)
    PROVE  ReplyOK(cl1, f)
BY DEF ReplyOK, Grows

LEMMA ConnGrows ==
    ASSUME NEW cl \in Client, NEW cl1 \in Client, Grows(cl, cl1), NEW t, ConnOK(t, cl)
    PROVE  ConnOK(t, cl1)
<1>1. REQ \in Nat BY ClientAssumption
<1>2. cl.nxt \in Int /\ cl1.nxt \in Int /\ cl1.nxt >= cl.nxt BY <1>1 DEF Client, Grows
<1>3. \A n : n \in 1 .. cl.nxt => n \in 1 .. cl1.nxt BY <1>2
<1>4. cl.resized => cl1.resized BY DEF Grows
<1> QED BY <1>3, <1>4 DEF ConnOK

\* The client goes on with nothing on its way.
LEMMA GrowOK ==
    ASSUME NEW c, NEW cl \in Client, NEW cl1 \in Client, Grows(cl, cl1), ClientOK(cl1),
           NEW qs \in Seq(ServerFrame), NEW qc, NEW S, LinkOK(c, cl, qs, qc, S),
           cl1.eof => cl.eof
    PROVE  LinkOK(c, cl1, qs, qc, S)
<1>1. \A k \in DOMAIN qs : SentOK(c, cl1, qs[k])
  <2> SUFFICES ASSUME NEW k \in DOMAIN qs PROVE SentOK(c, cl1, qs[k]) OBVIOUS
  <2>1. qs[k] \in ServerFrame OBVIOUS
  <2>2. SentOK(c, cl, qs[k]) BY DEF LinkOK
  <2> QED BY <2>1, <2>2, SentGrows
<1>2. \A k \in DOMAIN qc : ReplyOK(cl1, qc[k]) BY ReplyGrows DEF LinkOK
<1>3. NothingFollows(cl1, qc) BY DEF LinkOK, NothingFollows
<1>4. Ended(cl1, qc) => Ended(cl, qc) BY DEF Ended
<1>5. NoSyn(cl, qs) => NoSyn(cl1, qs) BY DEF NoSyn, Grows
<1>6. ConnectsOnce(cl1, qs, qc, S) BY <1>4, <1>5 DEF LinkOK, ConnectsOnce
<1> QED BY <1>1, <1>2, <1>3, <1>6 DEF LinkOK

\* The client takes a frame and goes on.
LEMMA TakeOK ==
    ASSUME NEW c, NEW cl \in Client, NEW cl1 \in Client, Grows(cl, cl1), ClientOK(cl1),
           NEW qs \in Seq(ServerFrame), NEW qc \in Seq(ClientFrame), qc # <<>>,
           NEW S, LinkOK(c, cl, qs, qc, S),
           cl1.eof => cl.eof \/ Flagged(Head(qc), "FIN")
    PROVE  LinkOK(c, cl1, qs, Tail(qc), S)
<1>1. \A k \in DOMAIN qs : SentOK(c, cl1, qs[k])
  <2> SUFFICES ASSUME NEW k \in DOMAIN qs PROVE SentOK(c, cl1, qs[k]) OBVIOUS
  <2>1. qs[k] \in ServerFrame OBVIOUS
  <2>2. SentOK(c, cl, qs[k]) BY DEF LinkOK
  <2> QED BY <2>1, <2>2, SentGrows
<1>2. PICK r : r = Tail(qc) OBVIOUS
<1>3. /\ Head(qc) = qc[1] /\ 1 \in DOMAIN qc
      /\ \A k \in DOMAIN r : k + 1 \in DOMAIN qc /\ r[k] = qc[k + 1] /\ k \in Nat /\ k >= 1
  BY <1>2, TailFrames
<1>4. \A k \in DOMAIN r : ReplyOK(cl1, r[k]) BY <1>3, ReplyGrows DEF LinkOK
<1>5. NothingFollows(cl, qc) BY DEF LinkOK
<1>6. NothingFollows(cl1, r)
  <2>1. ASSUME cl1.eof, NEW k \in DOMAIN r PROVE ~HasData(r[k])
    <3>1. k + 1 \in DOMAIN qc /\ r[k] = qc[k + 1] /\ 1 < k + 1 BY <1>3
    <3>2. CASE cl.eof BY <1>5, <3>1, <3>2 DEF NothingFollows
    <3>3. CASE Flagged(qc[1], "FIN") BY <1>3, <1>5, <3>1, <3>3 DEF NothingFollows
    <3> QED BY <1>3, <2>1, <3>2, <3>3
  <2>2. ASSUME NEW j \in DOMAIN r, NEW k \in DOMAIN r, j < k, Flagged(r[j], "FIN")
        PROVE  ~HasData(r[k])
    <3>1. /\ k + 1 \in DOMAIN qc /\ r[k] = qc[k + 1] /\ j + 1 \in DOMAIN qc
          /\ r[j] = qc[j + 1] /\ j + 1 < k + 1
      BY <1>3, <2>2
    <3> QED BY <1>5, <2>2, <3>1 DEF NothingFollows
  <2> QED BY <2>1, <2>2 DEF NothingFollows
<1>7. Ended(cl1, r) => Ended(cl, qc)
  BY <1>3 DEF Ended
<1>8. NoSyn(cl, qs) => NoSyn(cl1, qs) BY DEF NoSyn, Grows
<1>9. ConnectsOnce(cl1, qs, r, S) BY <1>7, <1>8 DEF LinkOK, ConnectsOnce
<1> QED BY <1>1, <1>2, <1>4, <1>6, <1>9 DEF LinkOK

\* The client sends a frame.
LEMMA SendOK ==
    ASSUME NEW c, NEW cl, NEW qs \in Seq(ServerFrame), NEW qc, NEW S,
           LinkOK(c, cl, qs, qc, S), NEW f \in ServerFrame, SentOK(c, cl, f),
           Flagged(f, "SYN") => cl.phase = "syn"
    PROVE  LinkOK(c, cl, Append(qs, f), qc, S)
<1>1. PICK r : r = Append(qs, f) OBVIOUS
<1>2. /\ \A k \in DOMAIN r : \/ k \in DOMAIN qs /\ r[k] = qs[k]
                             \/ k = Len(qs) + 1 /\ r[k] = f
      /\ \A k \in DOMAIN qs : k \in Nat /\ k < Len(qs) + 1
      /\ Len(qs) \in Nat
  BY <1>1, AppendFrame
<1>3. \A k \in DOMAIN r : SentOK(c, cl, r[k]) BY <1>2 DEF LinkOK
<1>4. NoSyn(cl, qs) => NoSyn(cl, r) BY <1>2 DEF NoSyn
<1>5. ASSUME NEW j \in DOMAIN r, NEW k \in DOMAIN r, j < k, Flagged(r[j], "ACK"),
             Flagged(r[k], "SYN")
      PROVE  FALSE
  <2>1. j \in DOMAIN qs /\ r[j] = qs[j] BY <1>2, <1>5
  <2>2. CASE k \in DOMAIN qs /\ r[k] = qs[k]
    BY <1>5, <2>1, <2>2 DEF LinkOK, ConnectsOnce
  <2>3. CASE r[k] = f
    <3>1. cl.phase = "syn" BY <1>5, <2>3
    <3>2. cl.phase \in {"open", "reset"}
      BY <1>5, <2>1 DEF LinkOK, SentOK, Flagged
    <3> QED BY <3>1, <3>2
  <2> QED BY <1>2, <2>2, <2>3
<1>6. ConnectsOnce(cl, r, qc, S) BY <1>4, <1>5 DEF LinkOK, ConnectsOnce
<1> QED BY <1>1, <1>3, <1>6 DEF LinkOK

\* A frame of the client arrives or is lost.
LEMMA ReceiveOK ==
    ASSUME NEW c, NEW cl, NEW qs \in Seq(ServerFrame), qs # <<>>, NEW qc, NEW S,
           LinkOK(c, cl, qs, qc, S)
    PROVE  LinkOK(c, cl, Tail(qs), qc, S)
<1>1. PICK r : r = Tail(qs) OBVIOUS
<1>2. \A k \in DOMAIN r : k + 1 \in DOMAIN qs /\ r[k] = qs[k + 1] /\ k \in Nat /\ k >= 1
  BY <1>1, TailFrames
<1>3. \A k \in DOMAIN r : SentOK(c, cl, r[k]) BY <1>2 DEF LinkOK
<1>4. NoSyn(cl, qs) => NoSyn(cl, r) BY <1>2 DEF NoSyn
<1>5. ASSUME NEW j \in DOMAIN r, NEW k \in DOMAIN r, j < k, Flagged(r[j], "ACK")
      PROVE  ~Flagged(r[k], "SYN")
  <2>1. /\ k + 1 \in DOMAIN qs /\ r[k] = qs[k + 1] /\ j + 1 \in DOMAIN qs
        /\ r[j] = qs[j + 1] /\ j + 1 < k + 1
    BY <1>2, <1>5
  <2> QED BY <1>5, <2>1 DEF LinkOK, ConnectsOnce
<1>6. ConnectsOnce(cl, r, qc, S) BY <1>4, <1>5 DEF LinkOK, ConnectsOnce
<1> QED BY <1>1, <1>3, <1>6 DEF LinkOK

\* A frame of the client is damaged.
LEMMA DamageOK ==
    ASSUME NEW c, NEW cl, NEW qs \in Seq(ServerFrame), NEW qc, NEW S,
           LinkOK(c, cl, qs, qc, S), NEW i, NEW f, SentOK(c, cl, f),
           NEW r, r = [qs EXCEPT ![i] = f],
           \A flag : Flagged(f, flag) => Flagged(qs[i], flag)
    PROVE  LinkOK(c, cl, r, qc, S)
<1>1. /\ DOMAIN r = DOMAIN qs
      /\ \A k \in DOMAIN r : r[k] = IF k = i THEN f ELSE qs[k]
  OBVIOUS
<1>2. \A k \in DOMAIN r : SentOK(c, cl, r[k]) BY <1>1 DEF LinkOK
<1>3. \A k \in DOMAIN r : \A flag : Flagged(r[k], flag) => Flagged(qs[k], flag) BY <1>1
<1>4. NoSyn(cl, qs) => NoSyn(cl, r) BY <1>1, <1>3 DEF NoSyn
<1>5. ConnectsOnce(cl, r, qc, S) BY <1>1, <1>3, <1>4 DEF LinkOK, ConnectsOnce
<1> QED BY <1>2, <1>5 DEF LinkOK

\* The server sends a frame.
LEMMA AnswerOK ==
    ASSUME NEW c, NEW cl, NEW qs, NEW qc \in Seq(ClientFrame), NEW S,
           LinkOK(c, cl, qs, qc, S), NEW f \in ClientFrame, ReplyOK(cl, f),
           HasData(f) => ~Ended(cl, qc),
           Flagged(f, "FIN") => /\ NoSyn(cl, qs)
                                /\ S \cap {"UIP_SYN_RCVD", "UIP_ESTABLISHED"} = {}
    PROVE  LinkOK(c, cl, qs, Append(qc, f), S)
<1>1. PICK r : r = Append(qc, f) OBVIOUS
<1>2. /\ \A k \in DOMAIN r : \/ k \in DOMAIN qc /\ r[k] = qc[k]
                             \/ k = Len(qc) + 1 /\ r[k] = f
      /\ \A k \in DOMAIN qc : k \in Nat /\ k < Len(qc) + 1
      /\ Len(qc) \in Nat
  BY <1>1, AppendFrame
<1>3. \A k \in DOMAIN r : ReplyOK(cl, r[k]) BY <1>2 DEF LinkOK
<1>4. Ended(cl, r) => Ended(cl, qc) \/ Flagged(f, "FIN") BY <1>2 DEF Ended
<1>5. NothingFollows(cl, r)
  <2>1. ASSUME cl.eof, NEW k \in DOMAIN r PROVE ~HasData(r[k])
    BY <1>2, <2>1 DEF LinkOK, NothingFollows, Ended
  <2>2. ASSUME NEW j \in DOMAIN r, NEW k \in DOMAIN r, j < k, Flagged(r[j], "FIN")
        PROVE  ~HasData(r[k])
    <3>1. j \in DOMAIN qc /\ r[j] = qc[j] BY <1>2, <2>2
    <3>2. Ended(cl, qc) BY <2>2, <3>1 DEF Ended
    <3>3. CASE k \in DOMAIN qc /\ r[k] = qc[k]
      BY <2>2, <3>1, <3>3 DEF LinkOK, NothingFollows
    <3>4. CASE r[k] = f BY <3>2, <3>4
    <3> QED BY <1>2, <3>3, <3>4
  <2> QED BY <2>1, <2>2 DEF NothingFollows
<1>6. ConnectsOnce(cl, qs, r, S) BY <1>4 DEF LinkOK, ConnectsOnce
<1> QED BY <1>1, <1>3, <1>5, <1>6 DEF LinkOK

\* A connection of the client changes its state.
LEMMA StatesOK ==
    ASSUME NEW c, NEW cl, NEW qs, NEW qc, NEW S, LinkOK(c, cl, qs, qc, S), NEW S1,
           Ended(cl, qc) => S1 \cap {"UIP_SYN_RCVD", "UIP_ESTABLISHED"} = {},
           S1 \subseteq {"UIP_SYN_RCVD"} \/ NoSyn(cl, qs)
    PROVE  LinkOK(c, cl, qs, qc, S1)
BY DEF LinkOK, ConnectsOnce

-----------------------------------------------------------------------------
(***************************************************************************)
(* A step of the system touches one client and its link.                   *)
(***************************************************************************)
LEMMA StatesDef ==
    ASSUME NEW conns, NEW c, NEW s
    PROVE  s \in States(conns, c) <=>
              \E i \in DOMAIN conns : /\ conns[i].tcpstateflags = s /\ s # "UIP_CLOSED"
                                      /\ conns[i].peer = c
BY DEF States

LEMMA LinkStep ==
    ASSUME HttpInv, NEW c \in Peers, NEW cl1 \in Client,
           NEW qs1 \in Seq(ServerFrame), NEW qc1 \in Seq(ClientFrame),
           client' = [client EXCEPT ![c] = cl1],
           toServer' = [toServer EXCEPT ![c] = qs1],
           toClient' = [toClient EXCEPT ![c] = qc1],
           uip_conns' \in [1 .. UIP_CONNS -> uip_conn],
           arp_table' \in [1 .. UIP_ARPTAB_SIZE -> arp_entry], faults' \in 0 .. MaxFaults,
           \A d \in Peers : d # c => States(uip_conns', d) \subseteq States(uip_conns, d),
           LinkOK(c, cl1, qs1, qc1, States(uip_conns', c))
    PROVE  PlacesOK' /\ LinksOK'
<1>1. PlacesOK /\ LinksOK BY DEF HttpInv
<1>2. PlacesOK' BY <1>1 DEF PlacesOK
<1>3. ASSUME NEW d \in Peers
      PROVE  LinkOK(d, client'[d], toServer'[d], toClient'[d], States(uip_conns', d))
  <2>1. CASE d = c BY <1>1, <2>1 DEF PlacesOK
  <2>2. CASE d # c
    <3>1. client'[d] = client[d] /\ toServer'[d] = toServer[d] /\ toClient'[d] = toClient[d]
      BY <1>1, <2>2 DEF PlacesOK
    <3>2. LinkOK(d, client[d], toServer[d], toClient[d], States(uip_conns, d))
      BY <1>1 DEF LinksOK
    <3>3. States(uip_conns', d) \subseteq States(uip_conns, d) BY <2>2
    <3>4. LinkOK(d, client[d], toServer[d], toClient[d], States(uip_conns', d))
      <4>1. PICK S : S = States(uip_conns, d) OBVIOUS
      <4>2. PICK S1 : S1 = States(uip_conns', d) OBVIOUS
      <4> QED BY <3>2, <3>3, <4>1, <4>2, StatesOK DEF LinkOK, ConnectsOnce
    <3> QED BY <3>1, <3>4
  <2> QED BY <2>1, <2>2
<1>4. LinksOK' BY <1>3 DEF LinksOK
<1> QED BY <1>2, <1>4

\* A step that leaves the connections alone.
LEMMA ClientStep ==
    ASSUME HttpInv, NEW c \in Peers, NEW cl1 \in Client,
           NEW qs1 \in Seq(ServerFrame), NEW qc1 \in Seq(ClientFrame),
           client' = [client EXCEPT ![c] = cl1],
           toServer' = [toServer EXCEPT ![c] = qs1],
           toClient' = [toClient EXCEPT ![c] = qc1],
           uip_conns' = uip_conns,
           arp_table' \in [1 .. UIP_ARPTAB_SIZE -> arp_entry], faults' \in 0 .. MaxFaults,
           Grows(client[c], cl1),
           LinkOK(c, cl1, qs1, qc1, States(uip_conns, c))
    PROVE  HttpInv'
<1>1. PlacesOK /\ ConnsOK /\ OnePeer BY DEF HttpInv
<1>2. PlacesOK' /\ LinksOK'
  <2>1. uip_conns' \in [1 .. UIP_CONNS -> uip_conn] BY <1>1 DEF PlacesOK
  <2>2. \A d \in Peers : States(uip_conns', d) = States(uip_conns, d) BY DEF States
  <2> QED BY <2>1, <2>2, LinkStep
<1>3. ConnsOK'
  <2> SUFFICES ASSUME NEW i \in 1 .. UIP_CONNS
               PROVE  ConnOK(uip_conns[i], client'[uip_conns[i].peer])
    BY DEF ConnsOK
  <2>1. PICK t \in uip_conn : t = uip_conns[i] BY <1>1 DEF PlacesOK
  <2>2. t.peer \in Peers BY DEF uip_conn
  <2>3. ConnOK(t, client[t.peer]) BY <1>1, <2>1 DEF ConnsOK
  <2>4. CASE t.peer = c
    <3>1. client[c] \in Client /\ client'[c] = cl1 BY <1>1 DEF PlacesOK
    <3> QED BY <2>1, <2>3, <2>4, <3>1, ConnGrows
  <2>5. CASE t.peer # c
    <3>1. client'[t.peer] = client[t.peer] BY <1>1, <2>2, <2>5 DEF PlacesOK
    <3> QED BY <2>1, <2>3, <3>1
  <2> QED BY <2>4, <2>5
<1>4. OnePeer' BY <1>1 DEF OnePeer, Active
<1> QED BY <1>2, <1>3, <1>4 DEF HttpInv

\* What the invariant says of one client.
LEMMA OneLink ==
    ASSUME HttpInv, NEW c \in Peers
    PROVE  /\ client[c] \in Client
           /\ toServer[c] \in Seq(ServerFrame) /\ toClient[c] \in Seq(ClientFrame)
           /\ LinkOK(c, client[c], toServer[c], toClient[c], States(uip_conns, c))
           /\ ClientOK(client[c])
           /\ arp_table \in [1 .. UIP_ARPTAB_SIZE -> arp_entry] /\ faults \in 0 .. MaxFaults
           /\ client = [client EXCEPT ![c] = client[c]]
           /\ toServer = [toServer EXCEPT ![c] = toServer[c]]
           /\ toClient = [toClient EXCEPT ![c] = toClient[c]]
<1>1. PlacesOK /\ LinksOK BY DEF HttpInv
<1>2. client[c] \in Client /\ toServer[c] \in Seq(ServerFrame)
      /\ toClient[c] \in Seq(ClientFrame)
      /\ arp_table \in [1 .. UIP_ARPTAB_SIZE -> arp_entry] /\ faults \in 0 .. MaxFaults
  BY <1>1 DEF PlacesOK
<1>3. LinkOK(c, client[c], toServer[c], toClient[c], States(uip_conns, c))
  BY <1>1 DEF LinksOK
<1>4. ClientOK(client[c]) BY <1>3 DEF LinkOK
<1>5. client = [client EXCEPT ![c] = client[c]] BY <1>1 DEF PlacesOK
<1>6. toServer = [toServer EXCEPT ![c] = toServer[c]] BY <1>1 DEF PlacesOK
<1>7. toClient = [toClient EXCEPT ![c] = toClient[c]] BY <1>1 DEF PlacesOK
<1> QED BY <1>2, <1>3, <1>4, <1>5, <1>6, <1>7

LEMMA NoGrowth == ASSUME NEW cl \in Client PROVE Grows(cl, cl)
<1>1. cl.nxt \in Int BY ClientAssumption DEF Client
<1> QED BY <1>1 DEF Grows

\* A frame without data and flags.
LEMMA PlainOK ==
    ASSUME NEW f, f.type \in {"arp_request", "arp_reply", "other"}, NEW c, NEW cl
    PROVE  /\ SentOK(c, cl, f) /\ ReplyOK(cl, f)
           /\ ~HasData(f) /\ \A flag : ~Flagged(f, flag)
BY DEF SentOK, ReplyOK, HasData, Flagged

-----------------------------------------------------------------------------
(***************************************************************************)
(* The network.                                                            *)
(***************************************************************************)
LEMMA FaultCount ==
    ASSUME HttpInv, NEW c, Fault(c)
    PROVE  faults' \in 0 .. MaxFaults
<1>1. faults \in 0 .. MaxFaults BY DEF HttpInv, PlacesOK
<1> QED BY <1>1, ClientAssumption DEF Fault

LEMMA LoseRequestStep ==
    ASSUME HttpInv, NEW c \in Peers, LoseRequest(c)
    PROVE  HttpInv'
<1> DEFINE cl == client[c]
           qs == toServer[c]
           qc == toClient[c]
<1>1. /\ qs # <<>> /\ toServer' = [toServer EXCEPT ![c] = Tail(qs)]
      /\ uip_conns' = uip_conns /\ arp_table' = arp_table
      /\ client' = client /\ toClient' = toClient
  BY DEF LoseRequest, ServerUnchanged
<1>2. faults' \in 0 .. MaxFaults BY FaultCount DEF LoseRequest
<1>3. Tail(qs) \in Seq(ServerFrame) BY <1>1, OneLink, TailFrames
<1>4. LinkOK(c, cl, Tail(qs), qc, States(uip_conns, c)) BY <1>1, OneLink, ReceiveOK
<1>5. Grows(cl, cl) BY OneLink, NoGrowth
<1>6. client' = [client EXCEPT ![c] = cl] /\ toClient' = [toClient EXCEPT ![c] = qc]
  BY <1>1, OneLink
<1>7. arp_table' \in [1 .. UIP_ARPTAB_SIZE -> arp_entry] BY <1>1, OneLink
<1> QED BY <1>1, <1>2, <1>3, <1>4, <1>5, <1>6, <1>7, OneLink, ClientStep

LEMMA LoseReplyStep ==
    ASSUME HttpInv, NEW c \in Peers, LoseReply(c)
    PROVE  HttpInv'
<1> DEFINE cl == client[c]
           qs == toServer[c]
           qc == toClient[c]
<1>1. /\ qc # <<>> /\ toClient' = [toClient EXCEPT ![c] = Tail(qc)]
      /\ uip_conns' = uip_conns /\ arp_table' = arp_table
      /\ client' = client /\ toServer' = toServer
  BY DEF LoseReply, ServerUnchanged
<1>2. faults' \in 0 .. MaxFaults BY FaultCount DEF LoseReply
<1>3. Tail(qc) \in Seq(ClientFrame) BY <1>1, OneLink, TailFrames
<1>4. Grows(cl, cl) BY OneLink, NoGrowth
<1>5. LinkOK(c, cl, qs, Tail(qc), States(uip_conns, c)) BY <1>1, <1>4, OneLink, TakeOK
<1>6. client' = [client EXCEPT ![c] = cl] /\ toServer' = [toServer EXCEPT ![c] = qs]
  BY <1>1, OneLink
<1>7. arp_table' \in [1 .. UIP_ARPTAB_SIZE -> arp_entry] BY <1>1, OneLink
<1> QED BY <1>1, <1>2, <1>3, <1>4, <1>5, <1>6, <1>7, OneLink, ClientStep

LEMMA DamageStep ==
    ASSUME HttpInv, NEW c \in Peers, NEW dm \in {"header", "body"}, Damage(c, dm)
    PROVE  HttpInv'
<1> DEFINE cl == client[c]
           qs == toServer[c]
           qc == toClient[c]
<1>1. PICK f \in ServerFrame : f = qs[1] /\ qs # <<>> /\ 1 \in DOMAIN qs
  BY OneLink DEF Damage
<1>2. PICK g : g = IF f.type \in {"tcp", "echo"} THEN [f EXCEPT !.damage = dm]
                   ELSE [type |-> "other"]
  OBVIOUS
<1>3. PICK qs1 : qs1 = [qs EXCEPT ![1] = g] OBVIOUS
<1>4. toServer' = [toServer EXCEPT ![c] = qs1]
  <2>1. PlacesOK BY DEF HttpInv
  <2> QED BY <1>1, <1>2, <1>3, <2>1 DEF Damage, PlacesOK
<1>5. /\ uip_conns' = uip_conns /\ arp_table' = arp_table
      /\ client' = client /\ toClient' = toClient
  BY DEF Damage, ServerUnchanged
<1>6. SentOK(c, cl, f) BY <1>1, OneLink DEF LinkOK
<1>7. g \in ServerFrame /\ SentOK(c, cl, g) /\ \A flag : Flagged(g, flag) => Flagged(f, flag)
  <2>1. CASE f.type = "tcp"
    <3>1. f \in ServerSegment BY <1>1, <2>1 DEF ServerFrame, PlainFrame, EchoFrame
    <3>2. g = [f EXCEPT !.damage = dm] BY <1>2, <2>1
    <3>3. /\ g \in ServerSegment /\ g.type = "tcp" /\ g.src = f.src /\ g.flags = f.flags
          /\ g.seqno = f.seqno /\ g.len = f.len /\ g.mssopt = f.mssopt
      BY <3>1, <3>2 DEF ServerSegment, Damages
    <3> QED BY <1>6, <2>1, <3>3 DEF SentOK, Flagged, ServerFrame
  <2>2. CASE f.type = "echo"
    <3>1. f \in EchoFrame BY <1>1, <2>2 DEF ServerFrame, PlainFrame, ServerSegment
    <3>2. g = [f EXCEPT !.damage = dm] BY <1>2, <2>2
    <3>3. /\ g \in EchoFrame /\ g.type = "echo" /\ g.rest = f.rest
          /\ g.icmpchksum = f.icmpchksum
      BY <2>2, <3>1, <3>2 DEF EchoFrame, Damages
    <3> QED BY <1>6, <2>2, <3>3 DEF SentOK, Flagged, ServerFrame
  <2>3. CASE f.type \notin {"tcp", "echo"}
    <3>1. g = [type |-> "other"] BY <1>2, <2>3
    <3>2. g \in PlainFrame /\ g.type = "other" BY <3>1 DEF PlainFrame
    <3> QED BY <3>2, PlainOK DEF ServerFrame
  <2> QED BY <2>1, <2>2, <2>3
<1>8. qs1 \in Seq(ServerFrame) BY <1>1, <1>3, <1>7, OneLink
<1>9. LinkOK(c, cl, qs1, qc, States(uip_conns, c)) BY <1>1, <1>3, <1>7, OneLink, DamageOK
<1>10. faults' \in 0 .. MaxFaults BY FaultCount DEF Damage
<1>11. Grows(cl, cl) BY OneLink, NoGrowth
<1>12. client' = [client EXCEPT ![c] = cl] /\ toClient' = [toClient EXCEPT ![c] = qc]
  BY <1>5, OneLink
<1>13. arp_table' \in [1 .. UIP_ARPTAB_SIZE -> arp_entry] BY <1>5, OneLink
<1> QED BY <1>4, <1>5, <1>8, <1>9, <1>10, <1>11, <1>12, <1>13, OneLink, ClientStep

-----------------------------------------------------------------------------
(***************************************************************************)
(* The clients' steps.                                                     *)
(***************************************************************************)
LEMMA FullWindowOK == FullWindow \in Nat
<1>1. PICK w \in Windows : \A v \in Windows : v <= w BY ClientAssumption
<1>2. Windows \subseteq Nat BY ClientAssumption
<1>3. w \in Windows /\ \A v \in Windows : w >= v BY <1>1, <1>2
<1>4. FullWindow \in Windows BY <1>3 DEF FullWindow, Max
<1> QED BY <1>2, <1>4

LEMMA SegmentOK ==
    ASSUME NEW c \in Peers, NEW cl \in Client, NEW flags \in SUBSET TcpFlags,
           NEW n \in 0 .. REQ + 2, NEW len \in 0 .. UIP_TCP_MSS, NEW wnd \in Nat,
           NEW seg, seg = Segment(c, cl, flags, n, len, wnd)
    PROVE  /\ seg \in ServerSegment /\ seg \in ServerFrame
           /\ seg.type = "tcp" /\ seg.src = c /\ seg.flags = flags /\ seg.len = len
           /\ Off(seg.seqno) = n
           /\ "SYN" \in flags => seg.mssopt > 0
<1>1. n \in Nat /\ n < Size32 BY ClientAssumption, SizePositive
<1>2. PICK s \in SeqNo : s = (ISN + n) % Size32 /\ Off(s) = n BY <1>1, OffIsn
<1>3. PICK a \in Nat : a = RcvNxt(cl)
  <2>1. cl.got \in Seq(0 .. RESPONSE_LEN) BY DEF Client
  <2>2. Len(cl.got) \in Nat BY <2>1
  <2>3. PICK b \in Nat : b = IF cl.eof THEN 1 ELSE 0 OBVIOUS
  <2>4. RcvNxt(cl) = IF cl.phase = "open" THEN 1 + Len(cl.got) + b ELSE 0
    BY <2>3 DEF RcvNxt, Iss
  <2>5. RcvNxt(cl) \in Nat BY <2>2, <2>4
  <2> QED BY <2>5
<1>4. PICK m : m = IF "SYN" \in flags THEN MssOffer[c] ELSE 0 OBVIOUS
<1>5. m \in Nat /\ ("SYN" \in flags => m > 0) BY <1>4, ClientAssumption
<1>6. seg = [type |-> "tcp", src |-> c, flags |-> flags, seqno |-> s, ackno |-> a,
             len |-> len, wnd |-> wnd, mssopt |-> m, damage |-> "none"]
  BY <1>2, <1>3, <1>4 DEF Segment
<1>7. seg \in ServerSegment BY <1>5, <1>6 DEF ServerSegment, Damages
<1> QED BY <1>2, <1>5, <1>6, <1>7 DEF ServerFrame

LEMMA AgainOK ==
    ASSUME NEW c \in Peers, NEW cl \in Client, ClientOK(cl),
           cl.phase \in {"syn", "open"}, cl.una < cl.nxt, NEW f, f = Again(c, cl)
    PROVE  /\ f \in ServerFrame /\ SentOK(c, cl, f)
           /\ Flagged(f, "SYN") => cl.phase = "syn"
<1>1. REQ \in Nat /\ UIP_TCP_MSS \in Nat BY ClientAssumption, UipAssumption
<1>2. PICK una \in 0 .. REQ + 2 : una = cl.una BY DEF Client
<1>3. PICK nxt \in 0 .. REQ + 2 : nxt = cl.nxt BY DEF Client
<1>4. una < nxt BY <1>2, <1>3
<1>5. CASE cl.phase = "syn"
  <2>1. PICK fl : fl = {"SYN"} OBVIOUS
  <2>2. PICK n \in 0 .. REQ + 2 : n = 0 BY <1>1
  <2>3. PICK len \in 0 .. UIP_TCP_MSS : len = 0 BY <1>1
  <2>4. fl \in SUBSET TcpFlags /\ "SYN" \in fl BY <2>1 DEF TcpFlags
  <2>5. f = Segment(c, cl, fl, n, len, FullWindow) BY <1>5, <2>1, <2>2, <2>3 DEF Again
  <2>6. /\ f \in ServerFrame /\ f.type = "tcp" /\ f.src = c /\ f.flags = fl
        /\ f.len = len /\ Off(f.seqno) = n /\ f.mssopt > 0
    BY <2>4, <2>5, FullWindowOK, SegmentOK
  <2>7. /\ f \in ServerFrame /\ f.type = "tcp" /\ f.src = c /\ f.flags = {"SYN"}
         /\ f.len = 0 /\ Off(f.seqno) = 0 /\ f.mssopt > 0
    BY <2>1, <2>2, <2>3, <2>6
  <2>8. cl.nxt = 1 BY <1>5 DEF ClientOK
  <2>9. 0 + 0 + One("SYN" \in {"SYN"}) + One("FIN" \in {"SYN"}) <= 1 BY DEF One
  <2>10. SentOK(c, cl, f) BY <2>8, <2>9, <2>7 DEF SentOK
  <2> QED BY <1>5, <2>10, <2>7
<1>6. CASE cl.phase = "open"
  <2>1. PICK b \in 0 .. 1 : b = IF cl.fin THEN 1 ELSE 0 OBVIOUS
  <2>2. PICK rest : rest = nxt - una - b OBVIOUS
  <2>3. rest \in Nat BY <1>1, <1>4, <2>1, <2>2
  <2>4. PICK len : len = Least(rest, UIP_TCP_MSS) OBVIOUS
  <2>5. len \in 0 .. UIP_TCP_MSS /\ len <= rest BY <1>1, <2>3, <2>4 DEF Least
  <2>6. PICK fl : fl = {"ACK"} \cup (IF cl.fin /\ len = rest THEN {"FIN"} ELSE {}) OBVIOUS
  <2>7. /\ fl \in SUBSET TcpFlags /\ "SYN" \notin fl
        /\ "FIN" \in fl <=> (cl.fin /\ len = rest)
    BY <2>6 DEF TcpFlags
  <2>8. f = Segment(c, cl, fl, una, len, FullWindow)
    BY <1>2, <1>3, <1>6, <2>1, <2>2, <2>4, <2>6 DEF Again
  <2>9. /\ f \in ServerFrame /\ f.type = "tcp" /\ f.src = c /\ f.flags = fl
        /\ f.len = len /\ Off(f.seqno) = una
    BY <2>5, <2>7, <2>8, FullWindowOK, SegmentOK
  <2>10. una + len + One("SYN" \in fl) + One("FIN" \in fl) <= nxt
    <3>1. One("SYN" \in fl) = 0 BY <2>7 DEF One
    <3>2. CASE "FIN" \in fl
      <4>1. One("FIN" \in fl) = 1 /\ b = 1 /\ len = rest BY <2>1, <2>7, <3>2 DEF One
      <4> QED BY <1>1, <2>2, <2>3, <3>1, <4>1
    <3>3. CASE "FIN" \notin fl
      <4>1. One("FIN" \in fl) = 0 BY <3>3 DEF One
      <4> QED BY <1>1, <2>1, <2>2, <2>3, <2>5, <3>1, <4>1
    <3> QED BY <3>2, <3>3
  <2>11. SentOK(c, cl, f) BY <1>3, <1>6, <2>7, <2>9, <2>10 DEF SentOK
  <2> QED BY <2>7, <2>9, <2>11 DEF Flagged
<1> QED BY <1>5, <1>6

\* A client goes on and sends a frame.
LEMMA SendStep ==
    ASSUME HttpInv, NEW c \in Peers, NEW cl1 \in Client, Grows(client[c], cl1), ClientOK(cl1),
           cl1.eof => client[c].eof, NEW f \in ServerFrame, SentOK(c, cl1, f),
           Flagged(f, "SYN") => cl1.phase = "syn",
           client' = [client EXCEPT ![c] = cl1], Send(c, f), ServerUnchanged,
           toClient' = toClient, faults' \in 0 .. MaxFaults
    PROVE  HttpInv'
<1> DEFINE qs == toServer[c]
           qc == toClient[c]
           S  == States(uip_conns, c)
<1>1. LinkOK(c, cl1, qs, qc, S) BY OneLink, GrowOK
<1>2. LinkOK(c, cl1, Append(qs, f), qc, S) BY <1>1, OneLink, SendOK
<1>3. Append(qs, f) \in Seq(ServerFrame) BY OneLink, AppendFrame
<1>4. /\ toServer' = [toServer EXCEPT ![c] = Append(qs, f)]
      /\ uip_conns' = uip_conns /\ arp_table' = arp_table
  BY DEF Send, ServerUnchanged
<1>5. toClient' = [toClient EXCEPT ![c] = qc] BY OneLink
<1>6. arp_table' \in [1 .. UIP_ARPTAB_SIZE -> arp_entry] BY <1>4, OneLink
<1> QED BY <1>2, <1>3, <1>4, <1>5, <1>6, OneLink, ClientStep

LEMMA ResolveStep ==
    ASSUME HttpInv, NEW c \in Peers, Resolve(c)
    PROVE  HttpInv'
<1>1. PICK cl \in Client : cl = client[c] /\ ClientOK(cl) BY OneLink
<1>2. PICK cl1 : cl1 = [cl EXCEPT !.phase = "arp"] OBVIOUS
<1>3. client' = [client EXCEPT ![c] = cl1] BY <1>1, <1>2 DEF Resolve
<1>4. /\ cl1 \in Client /\ cl1.phase = "arp" /\ cl1.una = cl.una /\ cl1.nxt = cl.nxt
      /\ cl1.got = cl.got /\ cl1.eof = cl.eof /\ cl1.fin = cl.fin /\ cl1.early = cl.early
      /\ cl1.resized = cl.resized
  BY <1>2 DEF Client
<1>5. cl.phase = "idle" BY <1>1 DEF Resolve
<1>6. ClientOK(cl1) BY <1>1, <1>4, <1>5 DEF ClientOK, ReqSent
<1>7. Grows(cl, cl1)
  <2>1. Grows(cl, cl) BY NoGrowth
  <2> QED BY <1>4, <1>5, <2>1 DEF Grows
<1>8. PICK f : f = [type |-> "arp_request"] OBVIOUS
<1>9. f \in PlainFrame /\ f.type = "arp_request" BY <1>8 DEF PlainFrame
<1>10. f \in ServerFrame BY <1>9 DEF ServerFrame
<1>11. SentOK(c, cl1, f) /\ ~Flagged(f, "SYN") BY <1>9, PlainOK
<1>12. Send(c, f) /\ ServerUnchanged /\ toClient' = toClient /\ faults' \in 0 .. MaxFaults
  BY <1>8, OneLink DEF Resolve
<1> QED BY <1>1, <1>3, <1>4, <1>6, <1>7, <1>10, <1>11, <1>12, SendStep

LEMMA PingStep ==
    ASSUME HttpInv, NEW c \in Peers, NEW rest \in Rests, Ping(c, rest)
    PROVE  HttpInv'
<1>1. PICK cl \in Client : cl = client[c] /\ ClientOK(cl) BY OneLink
<1>2. PICK cl1 : cl1 = [cl EXCEPT !.phase = "pinged"] OBVIOUS
<1>3. client' = [client EXCEPT ![c] = cl1] BY <1>1, <1>2 DEF Ping
<1>4. /\ cl1 \in Client /\ cl1.phase = "pinged" /\ cl1.una = cl.una /\ cl1.nxt = cl.nxt
      /\ cl1.got = cl.got /\ cl1.eof = cl.eof /\ cl1.fin = cl.fin /\ cl1.early = cl.early
      /\ cl1.resized = cl.resized
  BY <1>2 DEF Client
<1>5. cl.phase = "resolved" BY <1>1 DEF Ping
<1>6. ClientOK(cl1) BY <1>1, <1>4, <1>5 DEF ClientOK, ReqSent
<1>7. Grows(cl, cl1)
  <2>1. Grows(cl, cl) BY NoGrowth
  <2> QED BY <1>4, <1>5, <2>1 DEF Grows
<1>8. PICK x : x = Size16 - 1 - OnesAdd(HTONS_ECHO, rest) OBVIOUS
<1>9. x \in u16_t /\ rest \in u16_t
  <2>1. rest \in u16_t /\ HTONS_ECHO \in u16_t
    BY ClientAssumption, Size16Large DEF u16_t, HTONS_ECHO
  <2>2. OnesAdd(HTONS_ECHO, rest) = IF HTONS_ECHO + rest < Size16 THEN HTONS_ECHO + rest
                                    ELSE HTONS_ECHO + rest - (Size16 - 1)
    BY <2>1, OnesSum
  <2> QED BY <1>8, <2>1, <2>2, Size16Large DEF u16_t
<1>10. PICK f : f = [type |-> "echo", rest |-> rest, damage |-> "none", icmpchksum |-> x]
  OBVIOUS
<1>11. f \in EchoFrame /\ f.type = "echo" /\ f.icmpchksum = x /\ f.rest = rest
  BY <1>9, <1>10 DEF EchoFrame, Damages
<1>12. f \in ServerFrame BY <1>11 DEF ServerFrame
<1>13. SentOK(c, cl1, f) /\ ~Flagged(f, "SYN") BY <1>8, <1>11 DEF SentOK, Flagged
<1>14. Send(c, f) /\ ServerUnchanged /\ toClient' = toClient /\ faults' \in 0 .. MaxFaults
  BY <1>8, <1>10, OneLink DEF Ping
<1> QED BY <1>1, <1>3, <1>4, <1>6, <1>7, <1>12, <1>13, <1>14, SendStep

LEMMA ConnectStep ==
    ASSUME HttpInv, NEW c \in Peers, Connect(c)
    PROVE  HttpInv'
<1>1. PICK cl \in Client : cl = client[c] /\ ClientOK(cl) BY OneLink
<1>2. PICK cl1 : cl1 = [cl EXCEPT !.phase = "syn", !.nxt = 1] OBVIOUS
<1>3. client' = [client EXCEPT ![c] = cl1] BY <1>1, <1>2 DEF Connect
<1>4. REQ \in Nat /\ 1 \in 0 .. REQ + 2 BY ClientAssumption
<1>5. /\ cl1 \in Client /\ cl1.phase = "syn" /\ cl1.una = cl.una /\ cl1.nxt = 1
      /\ cl1.got = cl.got /\ cl1.eof = cl.eof /\ cl1.fin = cl.fin /\ cl1.early = cl.early
      /\ cl1.resized = cl.resized
  BY <1>2, <1>4 DEF Client
<1>6. cl.phase \in {"resolved", "pinged"} BY <1>1 DEF Connect
<1>7. cl.una = 0 /\ cl.nxt = 0
  <2>1. cl.nxt = 0 /\ cl.una <= 0 BY <1>1, <1>6 DEF ClientOK
  <2>2. cl.una \in 0 .. REQ + 2 BY DEF Client
  <2> QED BY <1>4, <2>1, <2>2
<1>8. ClientOK(cl1) BY <1>1, <1>5, <1>6, <1>7 DEF ClientOK, ReqSent
<1>9. Grows(cl, cl1) BY <1>5, <1>6, <1>7 DEF Grows
<1>10. PICK f : f = Again(c, cl1) OBVIOUS
<1>11. f \in ServerFrame /\ SentOK(c, cl1, f) BY <1>5, <1>7, <1>8, <1>10, AgainOK
<1>12. Send(c, f) /\ ServerUnchanged /\ toClient' = toClient /\ faults' \in 0 .. MaxFaults
  BY <1>1, <1>2, <1>10, OneLink DEF Connect
<1> QED BY <1>1, <1>3, <1>5, <1>8, <1>9, <1>11, <1>12, SendStep

LEMMA RequestStep ==
    ASSUME HttpInv, NEW c \in Peers, NEW n \in 1 .. REQ, NEW w \in Windows, Request(c, n, w)
    PROVE  HttpInv'
<1>1. PICK cl \in Client : cl = client[c] /\ ClientOK(cl) BY OneLink
<1>2. PICK nxt \in 0 .. REQ + 2 : nxt = cl.nxt BY DEF Client
<1>3. PICK cl1 : cl1 = [cl EXCEPT !.nxt = nxt + n] OBVIOUS
<1>4. client' = [client EXCEPT ![c] = cl1] BY <1>1, <1>2, <1>3 DEF Request
<1>5. cl.phase = "open" /\ ~cl.fin /\ ReqSent(cl) + n <= REQ /\ n <= UIP_TCP_MSS
  BY <1>1 DEF Request
<1>6. REQ \in Nat /\ UIP_TCP_MSS \in Nat BY ClientAssumption, UipAssumption
<1>7. ReqSent(cl) = nxt - 1 BY <1>2, <1>5, <1>6 DEF ReqSent
<1>8. nxt + n \in 0 .. REQ + 2 /\ nxt + n - 1 <= REQ BY <1>5, <1>6, <1>7
<1>9. /\ cl1 \in Client /\ cl1.phase = "open" /\ cl1.una = cl.una /\ cl1.nxt = nxt + n
      /\ cl1.got = cl.got /\ cl1.eof = cl.eof /\ cl1.fin = cl.fin /\ cl1.early = cl.early
      /\ cl1.resized = cl.resized
  BY <1>3, <1>5, <1>8 DEF Client
<1>10. ClientOK(cl1)
  <2>1. cl1.una <= cl1.nxt
    <3>1. cl.una \in 0 .. REQ + 2 /\ cl.una <= nxt BY <1>1, <1>2 DEF Client, ClientOK
    <3> QED BY <1>6, <1>9, <3>1
  <2>2. cl1.nxt >= 1 /\ ReqSent(cl1) <= REQ
    <3>1. ReqSent(cl1) = nxt + n - 1 BY <1>5, <1>6, <1>9 DEF ReqSent
    <3> QED BY <1>6, <1>8, <1>9, <3>1
  <2> QED BY <1>1, <1>5, <1>9, <2>1, <2>2 DEF ClientOK
<1>11. Grows(cl, cl1) BY <1>2, <1>5, <1>6, <1>9 DEF Grows
<1>12. PICK f : f = Segment(c, cl, {"ACK", "PSH"}, nxt, n, w) OBVIOUS
<1>13. /\ f \in ServerFrame /\ f.type = "tcp" /\ f.src = c /\ f.flags = {"ACK", "PSH"}
       /\ f.len = n /\ Off(f.seqno) = nxt
  <2>1. {"ACK", "PSH"} \in SUBSET TcpFlags /\ n \in 0 .. UIP_TCP_MSS /\ w \in Nat
    BY <1>5, <1>6, ClientAssumption DEF TcpFlags
  <2>2. PICK fl \in SUBSET TcpFlags : fl = {"ACK", "PSH"} BY <2>1
  <2>3. f = Segment(c, cl, fl, nxt, n, w) BY <1>12, <2>2
  <2>4. /\ f \in ServerFrame /\ f.type = "tcp" /\ f.src = c /\ f.flags = fl
        /\ f.len = n /\ Off(f.seqno) = nxt
    BY <2>1, <2>3, SegmentOK
  <2> QED BY <2>2, <2>4
<1>14. nxt + n + One("SYN" \in {"ACK", "PSH"}) + One("FIN" \in {"ACK", "PSH"}) <= nxt + n
  <2>1. One("SYN" \in {"ACK", "PSH"}) = 0 /\ One("FIN" \in {"ACK", "PSH"}) = 0 BY DEF One
  <2> QED BY <1>6, <2>1
<1>15. SentOK(c, cl1, f) /\ ~Flagged(f, "SYN") BY <1>9, <1>13, <1>14 DEF SentOK, Flagged
<1>16. Send(c, f) /\ ServerUnchanged /\ toClient' = toClient /\ faults' \in 0 .. MaxFaults
  BY <1>1, <1>2, <1>12, OneLink DEF Request
<1> QED BY <1>1, <1>4, <1>9, <1>10, <1>11, <1>13, <1>15, <1>16, SendStep

LEMMA CloseStep ==
    ASSUME HttpInv, NEW c \in Peers, Close(c)
    PROVE  HttpInv'
<1>1. PICK cl \in Client : cl = client[c] /\ ClientOK(cl) BY OneLink
<1>2. PICK nxt \in 0 .. REQ + 2 : nxt = cl.nxt BY DEF Client
<1>3. PICK cl1 : cl1 = [cl EXCEPT !.fin = TRUE, !.nxt = nxt + 1, !.early = ~cl.eof] OBVIOUS
<1>4. client' = [client EXCEPT ![c] = cl1] BY <1>1, <1>2, <1>3 DEF Close
<1>5. cl.phase = "open" /\ ~cl.fin BY <1>1 DEF Close
<1>6. REQ \in Nat /\ UIP_TCP_MSS \in Nat BY ClientAssumption, UipAssumption
<1>7. ReqSent(cl) = nxt - 1 /\ ReqSent(cl) <= REQ
  BY <1>1, <1>2, <1>5, <1>6 DEF ReqSent, ClientOK
<1>8. nxt + 1 \in 0 .. REQ + 2 BY <1>6, <1>7
<1>9. /\ cl1 \in Client /\ cl1.phase = "open" /\ cl1.una = cl.una /\ cl1.nxt = nxt + 1
      /\ cl1.got = cl.got /\ cl1.eof = cl.eof /\ cl1.fin /\ (cl1.early <=> ~cl.eof)
      /\ cl1.resized = cl.resized
  BY <1>3, <1>5, <1>8 DEF Client
<1>10. ClientOK(cl1)
  <2>1. cl1.una <= cl1.nxt
    <3>1. cl.una \in 0 .. REQ + 2 /\ cl.una <= nxt BY <1>1, <1>2 DEF Client, ClientOK
    <3> QED BY <1>6, <1>9, <3>1
  <2>2. cl1.nxt >= 1 /\ ReqSent(cl1) <= REQ
    <3>1. ReqSent(cl1) = nxt - 1 BY <1>6, <1>9 DEF ReqSent
    <3> QED BY <1>6, <1>7, <1>8, <1>9, <3>1
  <2>3. ~cl.early BY <1>1, <1>5 DEF ClientOK
  <2> QED BY <1>1, <1>5, <1>9, <2>1, <2>2, <2>3 DEF ClientOK
<1>11. Grows(cl, cl1) BY <1>2, <1>5, <1>6, <1>9 DEF Grows
<1>12. PICK f : f = Segment(c, cl1, {"FIN", "ACK"}, nxt, 0, FullWindow) OBVIOUS
<1>13. /\ f \in ServerFrame /\ f.type = "tcp" /\ f.src = c /\ f.flags = {"FIN", "ACK"}
       /\ f.len = 0 /\ Off(f.seqno) = nxt
  <2>1. {"FIN", "ACK"} \in SUBSET TcpFlags /\ 0 \in 0 .. UIP_TCP_MSS BY <1>6 DEF TcpFlags
  <2>2. PICK fl \in SUBSET TcpFlags : fl = {"FIN", "ACK"} BY <2>1
  <2>3. f = Segment(c, cl1, fl, nxt, 0, FullWindow) BY <1>12, <2>2
  <2>4. /\ f \in ServerFrame /\ f.type = "tcp" /\ f.src = c /\ f.flags = fl
        /\ f.len = 0 /\ Off(f.seqno) = nxt
    BY <1>9, <2>1, <2>3, FullWindowOK, SegmentOK
  <2> QED BY <2>2, <2>4
<1>14. nxt + 0 + One("SYN" \in {"FIN", "ACK"}) + One("FIN" \in {"FIN", "ACK"}) <= nxt + 1
  <2>1. One("SYN" \in {"FIN", "ACK"}) = 0 /\ One("FIN" \in {"FIN", "ACK"}) = 1 BY DEF One
  <2> QED BY <1>6, <2>1
<1>15. SentOK(c, cl1, f) /\ ~Flagged(f, "SYN") BY <1>9, <1>13, <1>14 DEF SentOK, Flagged
<1>16. faults' \in 0 .. MaxFaults BY OneLink, FaultCount DEF Close
<1>17. Send(c, f) /\ ServerUnchanged /\ toClient' = toClient
  BY <1>1, <1>2, <1>3, <1>12 DEF Close
<1> QED BY <1>1, <1>4, <1>9, <1>10, <1>11, <1>13, <1>15, <1>16, <1>17, SendStep

LEMMA AbortStep ==
    ASSUME HttpInv, NEW c \in Peers, Abort(c)
    PROVE  HttpInv'
<1>1. PICK cl \in Client : cl = client[c] /\ ClientOK(cl) BY OneLink
<1>2. PICK cl1 : cl1 = [cl EXCEPT !.phase = "reset"] OBVIOUS
<1>3. client' = [client EXCEPT ![c] = cl1] BY <1>1, <1>2 DEF Abort
<1>4. /\ cl1 \in Client /\ cl1.phase = "reset" /\ cl1.una = cl.una /\ cl1.nxt = cl.nxt
      /\ cl1.got = cl.got /\ cl1.eof = cl.eof /\ cl1.fin = cl.fin /\ cl1.early = cl.early
      /\ cl1.resized = cl.resized
  BY <1>2 DEF Client
<1>5. cl.phase = "open" BY <1>1 DEF Abort
<1>6. ClientOK(cl1) BY <1>1, <1>4, <1>5 DEF ClientOK, ReqSent
<1>7. Grows(cl, cl1)
  <2>1. Grows(cl, cl) BY NoGrowth
  <2> QED BY <1>4, <1>5, <2>1 DEF Grows
<1>8. PICK nxt \in 0 .. REQ + 2 : nxt = cl.nxt BY DEF Client
<1>9. PICK f : f = Segment(c, cl, {"RST"}, nxt, 0, 0) OBVIOUS
<1>10. /\ f \in ServerFrame /\ f.type = "tcp" /\ f.src = c /\ f.flags = {"RST"}
       /\ f.len = 0 /\ Off(f.seqno) = nxt
  <2>1. {"RST"} \in SUBSET TcpFlags /\ 0 \in 0 .. UIP_TCP_MSS /\ 0 \in Nat
    BY UipAssumption DEF TcpFlags
  <2>2. PICK fl \in SUBSET TcpFlags : fl = {"RST"} BY <2>1
  <2>3. PICK l \in 0 .. UIP_TCP_MSS, w \in Nat : l = 0 /\ w = 0 BY <2>1
  <2>4. f = Segment(c, cl, fl, nxt, l, w) BY <1>9, <2>2, <2>3
  <2>5. /\ f \in ServerFrame /\ f.type = "tcp" /\ f.src = c /\ f.flags = fl
        /\ f.len = l /\ Off(f.seqno) = nxt
    BY <2>4, SegmentOK
  <2> QED BY <2>2, <2>3, <2>5
<1>11. nxt + 0 + One("SYN" \in {"RST"}) + One("FIN" \in {"RST"}) <= nxt
  <2>1. One("SYN" \in {"RST"}) = 0 /\ One("FIN" \in {"RST"}) = 0 BY DEF One
  <2> QED BY <2>1, ClientAssumption
<1>12. SentOK(c, cl1, f) /\ ~Flagged(f, "SYN") BY <1>4, <1>8, <1>10, <1>11 DEF SentOK, Flagged
<1>13. faults' \in 0 .. MaxFaults BY FaultCount DEF Abort
<1>14. Send(c, f) /\ ServerUnchanged /\ toClient' = toClient
  BY <1>1, <1>8, <1>9 DEF Abort
<1> QED BY <1>1, <1>3, <1>4, <1>6, <1>7, <1>10, <1>12, <1>13, <1>14, SendStep

LEMMA TimeoutStep ==
    ASSUME HttpInv, NEW c \in Peers, Timeout(c)
    PROVE  HttpInv'
<1>1. PICK cl \in Client : cl = client[c] /\ ClientOK(cl) BY OneLink
<1>2. client' = [client EXCEPT ![c] = cl] BY <1>1, OneLink DEF Timeout
<1>3. Grows(cl, cl) BY NoGrowth
<1>4. faults' \in 0 .. MaxFaults BY OneLink, FaultCount DEF Timeout
<1>5. PICK f : f = IF cl.phase = "arp" THEN [type |-> "arp_request"] ELSE Again(c, cl) OBVIOUS
<1>6. f \in ServerFrame /\ SentOK(c, cl, f) /\ (Flagged(f, "SYN") => cl.phase = "syn")
  <2>1. CASE cl.phase = "arp"
    <3>1. f = [type |-> "arp_request"] BY <1>5, <2>1
    <3>2. f \in PlainFrame /\ f.type = "arp_request" BY <3>1 DEF PlainFrame
    <3> QED BY <3>2, PlainOK DEF ServerFrame
  <2>2. CASE cl.phase # "arp"
    <3>1. cl.phase \in {"syn", "open"} /\ cl.una < cl.nxt BY <1>1, <2>2 DEF Timeout
    <3> QED BY <1>1, <1>5, <2>2, <3>1, AgainOK
  <2> QED BY <2>1, <2>2
<1>7. Send(c, f) /\ ServerUnchanged /\ toClient' = toClient
  BY <1>1, <1>5 DEF Timeout
<1> QED BY <1>1, <1>2, <1>3, <1>4, <1>6, <1>7, SendStep

\* What a client makes of a segment while it is connecting.
LEMMA ConnectedOK ==
    ASSUME NEW cl \in Client, ClientOK(cl), cl.phase = "syn", NEW seg,
           NEW cl1, cl1 = Connected(cl, seg)
    PROVE  cl1 \in Client /\ ClientOK(cl1) /\ Grows(cl, cl1) /\ (cl1.eof => cl.eof)
<1>1. REQ \in Nat /\ 1 \in 0 .. REQ + 2 BY ClientAssumption
<1>2. cl.nxt = 1 /\ ~cl.fin BY DEF ClientOK
<1>3. CASE cl1 = cl BY <1>3, NoGrowth
<1>4. CASE cl1 = [cl EXCEPT !.phase = "reset"]
  <2>1. /\ cl1 \in Client /\ cl1.phase = "reset" /\ cl1.una = cl.una /\ cl1.nxt = cl.nxt
        /\ cl1.got = cl.got /\ cl1.eof = cl.eof /\ cl1.fin = cl.fin /\ cl1.early = cl.early
        /\ cl1.resized = cl.resized
    BY <1>4 DEF Client
  <2>2. ReqSent(cl1) = 0
    <3>1. ~cl1.fin /\ cl1.nxt = 1 BY <1>2, <2>1
    <3>2. ReqSent(cl1) = 1 - 1 - 0 BY <3>1 DEF ReqSent
    <3> QED BY <3>2
  <2>3. ClientOK(cl1) BY <1>1, <1>2, <2>1, <2>2 DEF ClientOK
  <2>4. Grows(cl, cl1) BY <1>2, <2>1 DEF Grows
  <2> QED BY <2>1, <2>3, <2>4
<1>5. CASE cl1 = [cl EXCEPT !.phase = "open", !.una = 1]
  <2>1. /\ cl1 \in Client /\ cl1.phase = "open" /\ cl1.una = 1 /\ cl1.nxt = cl.nxt
        /\ cl1.got = cl.got /\ cl1.eof = cl.eof /\ cl1.fin = cl.fin /\ cl1.early = cl.early
        /\ cl1.resized = cl.resized
    BY <1>1, <1>5 DEF Client
  <2>2. ReqSent(cl1) = 0
    <3>1. ~cl1.fin /\ cl1.nxt = 1 BY <1>2, <2>1
    <3>2. ReqSent(cl1) = 1 - 1 - 0 BY <3>1 DEF ReqSent
    <3> QED BY <3>2
  <2>3. ClientOK(cl1) BY <1>1, <1>2, <2>1, <2>2 DEF ClientOK
  <2>4. Grows(cl, cl1) BY <1>2, <2>1 DEF Grows
  <2> QED BY <2>1, <2>3, <2>4
<1> QED BY <1>3, <1>4, <1>5 DEF Connected

\* A piece of the page that is in order makes what was received longer.
LEMMA PieceReceived ==
    ASSUME NEW got \in Seq(0 .. RESPONSE_LEN), Len(got) <= RESPONSE_LEN,
           \A k \in DOMAIN got : got[k] = k, NEW d \in Seq(0 .. RESPONSE_LEN),
           Len(got) + Len(d) <= RESPONSE_LEN,
           \A j \in DOMAIN d : d[j] = Len(got) + j, NEW g, g = got \o d
    PROVE  /\ g \in Seq(0 .. RESPONSE_LEN) /\ Len(g) <= RESPONSE_LEN
           /\ \A k \in DOMAIN g : g[k] = k
<1>1. g \in Seq(0 .. RESPONSE_LEN) /\ Len(g) = Len(got) + Len(d) OBVIOUS
<1>2. ASSUME NEW k \in DOMAIN g PROVE g[k] = k
  <2>1. k \in 1 .. Len(got) + Len(d) BY <1>1
  <2>2. CASE k <= Len(got) BY <2>1, <2>2
  <2>3. CASE k > Len(got)
    <3>1. k - Len(got) \in DOMAIN d /\ g[k] = d[k - Len(got)] BY <2>1, <2>3
    <3>2. d[k - Len(got)] = Len(got) + (k - Len(got)) BY <3>1
    <3> QED BY <2>1, <3>1, <3>2
  <2> QED BY <2>1, <2>2, <2>3
<1> QED BY <1>1, <1>2

\* What a connected client makes of a segment.
LEMMA ReceivedOK ==
    ASSUME NEW cl \in Client, ClientOK(cl), cl.phase = "open", NEW f \in ClientSegment,
           ReplyOK(cl, f), cl.eof => ~HasData(f), NEW cl1, cl1 = Received(cl, f)
    PROVE  /\ cl1 \in Client /\ ClientOK(cl1) /\ Grows(cl, cl1)
           /\ cl1.eof => cl.eof \/ Flagged(f, "FIN")
<1>1. REQ \in Nat /\ RESPONSE_LEN \in Nat BY ClientAssumption, HttpdAssumption
<1>2. CASE f.seqno # RcvNxt(cl) BY <1>2, NoGrowth DEF Received
<1>3. CASE f.seqno = RcvNxt(cl) /\ "RST" \in f.flags
  <2>1. cl1 = [cl EXCEPT !.phase = "reset"] BY <1>3 DEF Received
  <2>2. /\ cl1 \in Client /\ cl1.phase = "reset" /\ cl1.una = cl.una /\ cl1.nxt = cl.nxt
        /\ cl1.got = cl.got /\ cl1.eof = cl.eof /\ cl1.fin = cl.fin /\ cl1.early = cl.early
        /\ cl1.resized = cl.resized
    BY <2>1 DEF Client
  <2>3. ClientOK(cl1) BY <2>2 DEF ClientOK, ReqSent
  <2>4. Grows(cl, cl) BY NoGrowth
  <2>5. Grows(cl, cl1) BY <2>2, <2>4 DEF Grows
  <2> QED BY <2>2, <2>3, <2>5
<1>4. CASE f.seqno = RcvNxt(cl) /\ "RST" \notin f.flags
  <2>1. PICK d \in Seq(0 .. RESPONSE_LEN) : d = f.data BY DEF ClientSegment
  <2>2. PICK got \in Seq(0 .. RESPONSE_LEN) : got = cl.got BY DEF Client
  <2>3. PICK una : una = IF (f.ackno - ISN) % Size32 \in cl.una .. cl.nxt
                         THEN (f.ackno - ISN) % Size32 ELSE cl.una
    OBVIOUS
  <2>4. una \in 0 .. REQ + 2 /\ una <= cl.nxt
    <3>1. /\ cl.una \in 0 .. REQ + 2 /\ cl.nxt \in 0 .. REQ + 2 /\ cl.una <= cl.nxt
      BY DEF Client, ClientOK
    <3>2. PICK n : n = (f.ackno - ISN) % Size32 OBVIOUS
    <3>3. una = IF n \in cl.una .. cl.nxt THEN n ELSE cl.una BY <2>3, <3>2
    <3> QED BY <1>1, <3>1, <3>3
  <2>5. PICK eof \in BOOLEAN : eof <=> (cl.eof \/ "FIN" \in f.flags) OBVIOUS
  <2>6. PICK g : g = got \o d OBVIOUS
  <2>7. g \in Seq(0 .. RESPONSE_LEN) BY <2>6
  <2>8. cl1 = [[cl EXCEPT !.una = una] EXCEPT !.got = g, !.eof = eof]
    <3>1. cl.eof \in BOOLEAN BY DEF Client
    <3>2. (cl.eof \/ "FIN" \in f.flags) = eof BY <2>5, <3>1
    <3>3. cl = [cl EXCEPT !.una = cl.una] BY DEF Client
    <3>4. PICK cl2 : cl2 = [cl EXCEPT !.una = una] OBVIOUS
    <3>5. cl1 = [cl2 EXCEPT !.got = @ \o f.data, !.eof = @ \/ "FIN" \in f.flags]
      BY <1>4, <2>3, <3>3, <3>4 DEF Received
    <3>6. cl2.got = got /\ cl2.eof = cl.eof BY <2>2, <3>4 DEF Client
    <3>7. cl1 = [cl2 EXCEPT !.got = got \o d, !.eof = (cl.eof \/ "FIN" \in f.flags)]
      BY <2>1, <3>5, <3>6
    <3> QED BY <2>6, <3>2, <3>4, <3>7
  <2>9. /\ cl1 \in Client /\ cl1.phase = "open" /\ cl1.una = una /\ cl1.nxt = cl.nxt
        /\ cl1.got = g /\ cl1.eof = eof /\ cl1.fin = cl.fin /\ cl1.early = cl.early
        /\ cl1.resized = cl.resized
    BY <2>4, <2>7, <2>8 DEF Client
  <2>10. f.type = "tcp" BY DEF ClientSegment
  <2>11. f.seqno = 1 + Len(got) + (IF cl.eof THEN 1 ELSE 0) BY <1>4, <2>2 DEF RcvNxt
  <2>12. cl.eof => d = <<>> BY <2>1, <2>10 DEF HasData
  <2>13. Len(got) \in Nat /\ (d = <<>> => g = got) BY <2>6
  <2>14. ASSUME ~cl.resized
         PROVE  Len(g) <= RESPONSE_LEN /\ \A k \in DOMAIN g : g[k] = k
    <3>1. Len(got) <= RESPONSE_LEN /\ \A k \in DOMAIN got : got[k] = k
      BY <2>2, <2>14 DEF ClientOK
    <3>2. CASE d = <<>> BY <2>13, <3>1, <3>2
    <3>3. CASE d # <<>>
      <4>1. /\ f.seqno > 0 /\ f.seqno - 1 + Len(d) <= RESPONSE_LEN
            /\ \A j \in DOMAIN d : d[j] = f.seqno - 1 + j
        BY <2>1, <2>10, <2>14, <3>3 DEF ReplyOK
      <4>2. f.seqno - 1 = Len(got)
        <5>1. ~cl.eof BY <2>12, <3>3
        <5>2. f.seqno = 1 + Len(got) + 0 BY <2>11, <5>1
        <5> QED BY <2>13, <5>2
      <4>3. Len(got) + Len(d) <= RESPONSE_LEN /\ \A j \in DOMAIN d : d[j] = Len(got) + j
        BY <4>1, <4>2
      <4> QED BY <2>6, <3>1, <4>3, PieceReceived
    <3> QED BY <3>2, <3>3
  <2>15. ASSUME eof, ~cl.early, ~cl.resized
         PROVE  Len(g) = RESPONSE_LEN
    <3>1. CASE cl.eof
      <4>1. Len(got) = RESPONSE_LEN BY <2>2, <2>15, <3>1 DEF ClientOK
      <4> QED BY <2>12, <2>13, <3>1, <4>1
    <3>2. CASE ~cl.eof
      <4>1. "FIN" \in f.flags BY <2>5, <2>15, <3>2
      <4>2. ~cl.fin BY <2>15, <3>2 DEF ClientOK
      <4>3. d = <<>> /\ f.seqno = 1 + RESPONSE_LEN
        BY <2>1, <2>10, <2>15, <4>1, <4>2 DEF ReplyOK
      <4>4. f.seqno = 1 + Len(got) + 0 BY <2>11, <3>2
      <4>5. Len(got) = RESPONSE_LEN BY <1>1, <2>13, <4>3, <4>4
      <4> QED BY <2>13, <4>3, <4>5
    <3> QED BY <3>1, <3>2
  <2>16. ClientOK(cl1)
    <3>1. ReqSent(cl1) = ReqSent(cl) BY <2>9 DEF ReqSent
    <3>2. cl.nxt >= 1 /\ ReqSent(cl) <= REQ /\ (cl.fin => cl.early \/ cl.eof)
          /\ (cl.early => cl.fin)
      BY DEF ClientOK
    <3>3. cl.fin => cl.early \/ eof BY <2>5, <3>2
    <3>4. ~cl.resized => Len(g) <= RESPONSE_LEN /\ \A k \in DOMAIN g : g[k] = k BY <2>14
    <3>5. eof /\ ~cl.early /\ ~cl.resized => Len(g) = RESPONSE_LEN BY <2>15
    <3> QED BY <2>4, <2>9, <3>1, <3>2, <3>3, <3>4, <3>5 DEF ClientOK
  <2>17. Grows(cl, cl) BY NoGrowth
  <2>18. Grows(cl, cl1) BY <2>9, <2>17 DEF Grows
  <2>19. cl1.eof => cl.eof \/ Flagged(f, "FIN") BY <2>5, <2>9, <2>10 DEF Flagged
  <2> QED BY <2>9, <2>16, <2>18, <2>19
<1> QED BY <1>2, <1>3, <1>4

LEMMA TakeStep ==
    ASSUME HttpInv, NEW c \in Peers, NEW w \in Windows, Take(c, w)
    PROVE  HttpInv'
<1> DEFINE qs == toServer[c]
           qc == toClient[c]
           S  == States(uip_conns, c)
<1>1. PICK cl \in Client : cl = client[c] /\ ClientOK(cl) BY OneLink
<1>2. qc # <<>> /\ qc \in Seq(ClientFrame) /\ qs \in Seq(ServerFrame)
      /\ LinkOK(c, cl, qs, qc, S)
  BY <1>1, OneLink DEF Take
<1>3. PICK f \in ClientFrame : f = Head(qc) /\ f = qc[1] /\ 1 \in DOMAIN qc BY <1>2, TailFrames
<1>4. ReplyOK(cl, f) /\ (cl.eof => ~HasData(f)) BY <1>2, <1>3 DEF LinkOK, NothingFollows
<1>5. PICK cl1 : cl1 = IF f.type # "tcp" THEN cl
                       ELSE IF cl.phase = "syn" THEN Connected(cl, f)
                       ELSE IF cl.phase = "open" THEN Received(cl, f)
                       ELSE cl
  OBVIOUS
<1>6. PICK cl2 : cl2 = IF f.type = "arp_reply" /\ cl.phase = "arp"
                       THEN [cl EXCEPT !.phase = "resolved"] ELSE cl1
  OBVIOUS
<1>7. /\ toClient' = [toClient EXCEPT ![c] = Tail(qc)]
      /\ client' = [client EXCEPT ![c] = cl2]
      /\ IF f.type = "arp_request" THEN Send(c, [type |-> "arp_reply"])
         ELSE IF f.type = "tcp" /\ Answered(cl1, f) THEN Send(c, Ack(c, cl1, w))
         ELSE toServer' = toServer
      /\ uip_conns' = uip_conns /\ arp_table' = arp_table /\ faults' = faults
  BY <1>1, <1>3, <1>5, <1>6 DEF Take, ServerUnchanged
<1>8. f.type = "tcp" => f \in ClientSegment BY DEF ClientFrame, PlainFrame, EchoFrame
<1>9. /\ cl2 \in Client /\ ClientOK(cl2) /\ Grows(cl, cl2)
      /\ cl2.eof => cl.eof \/ Flagged(f, "FIN")
      /\ f.type = "tcp" => cl2 = cl1
  <2>1. CASE f.type = "arp_reply" /\ cl.phase = "arp"
    <3>1. cl2 = [cl EXCEPT !.phase = "resolved"] BY <1>6, <2>1
    <3>2. /\ cl2 \in Client /\ cl2.phase = "resolved" /\ cl2.una = cl.una /\ cl2.nxt = cl.nxt
          /\ cl2.got = cl.got /\ cl2.eof = cl.eof /\ cl2.fin = cl.fin /\ cl2.early = cl.early
          /\ cl2.resized = cl.resized
      BY <3>1 DEF Client
    <3>3. ClientOK(cl2) BY <1>1, <2>1, <3>2 DEF ClientOK, ReqSent
    <3>4. Grows(cl, cl) BY NoGrowth
    <3>5. Grows(cl, cl2) BY <2>1, <3>2, <3>4 DEF Grows
    <3> QED BY <2>1, <3>2, <3>3, <3>5
  <2>2. CASE ~(f.type = "arp_reply" /\ cl.phase = "arp") /\ cl1 = cl
    <3>1. cl2 = cl BY <1>6, <2>2
    <3> QED BY <1>1, <2>2, <3>1, NoGrowth
  <2>3. CASE f.type = "tcp" /\ cl.phase = "syn"
    <3>1. cl2 = cl1 /\ cl1 = Connected(cl, f) BY <1>5, <1>6, <2>3
    <3> QED BY <1>1, <2>3, <3>1, ConnectedOK
  <2>4. CASE f.type = "tcp" /\ cl.phase = "open"
    <3>1. cl2 = cl1 /\ cl1 = Received(cl, f) BY <1>5, <1>6, <2>4
    <3> QED BY <1>1, <1>4, <1>8, <2>4, <3>1, ReceivedOK
  <2> QED BY <1>5, <2>1, <2>2, <2>3, <2>4
<1>10. LinkOK(c, cl2, qs, Tail(qc), S) BY <1>2, <1>3, <1>9, TakeOK
<1>11. Tail(qc) \in Seq(ClientFrame) BY <1>2, TailFrames
<1>12. PICK qs1 \in Seq(ServerFrame) : /\ toServer' = [toServer EXCEPT ![c] = qs1]
                                       /\ LinkOK(c, cl2, qs1, Tail(qc), S)
  <2>1. CASE toServer' = toServer BY <1>2, <1>10, <2>1, OneLink
  <2>2. ASSUME NEW g \in ServerFrame, Send(c, g), SentOK(c, cl2, g), ~Flagged(g, "SYN")
        PROVE  \E qs1 \in Seq(ServerFrame) : /\ toServer' = [toServer EXCEPT ![c] = qs1]
                                             /\ LinkOK(c, cl2, qs1, Tail(qc), S)
    <3>1. LinkOK(c, cl2, Append(qs, g), Tail(qc), S) BY <1>2, <1>10, <2>2, SendOK
    <3>2. Append(qs, g) \in Seq(ServerFrame) BY <1>2, AppendFrame
    <3> QED BY <2>2, <3>1, <3>2 DEF Send
  <2>3. CASE Send(c, [type |-> "arp_reply"])
    <3>1. PICK g : g = [type |-> "arp_reply"] OBVIOUS
    <3>2. g \in PlainFrame /\ g.type = "arp_reply" BY <3>1 DEF PlainFrame
    <3>3. SentOK(c, cl2, g) /\ ~Flagged(g, "SYN") /\ g \in ServerFrame
      BY <3>2, PlainOK DEF ServerFrame
    <3> QED BY <2>2, <2>3, <3>1, <3>3
  <2>4. CASE f.type = "tcp" /\ Answered(cl1, f) /\ Send(c, Ack(c, cl1, w))
    <3>1. cl2 = cl1 /\ cl2.phase = "open" BY <1>9, <2>4 DEF Answered
    <3>2. PICK fl \in SUBSET TcpFlags : fl = {"ACK"} BY DEF TcpFlags
    <3>3. PICK nxt \in 0 .. REQ + 2 : nxt = cl2.nxt BY <1>9 DEF Client
    <3>4. 0 \in 0 .. UIP_TCP_MSS /\ w \in Nat BY UipAssumption, ClientAssumption
    <3>5. PICK g : g = Segment(c, cl2, fl, nxt, 0, w) OBVIOUS
    <3>6. Send(c, g) BY <2>4, <3>1, <3>2, <3>3, <3>5 DEF Ack
    <3>7. /\ g \in ServerFrame /\ g.type = "tcp" /\ g.src = c /\ g.flags = fl
          /\ g.len = 0 /\ Off(g.seqno) = nxt
      BY <1>9, <3>4, <3>5, SegmentOK
    <3>8. nxt + 0 + One("SYN" \in fl) + One("FIN" \in fl) <= nxt
      <4>1. One("SYN" \in fl) = 0 /\ One("FIN" \in fl) = 0 BY <3>2 DEF One
      <4> QED BY <4>1, ClientAssumption
    <3>9. SentOK(c, cl2, g) /\ ~Flagged(g, "SYN")
      BY <3>1, <3>2, <3>3, <3>7, <3>8 DEF SentOK, Flagged
    <3> QED BY <2>2, <3>6, <3>7, <3>9
  <2> QED BY <1>7, <2>1, <2>3, <2>4
<1>13. /\ arp_table' \in [1 .. UIP_ARPTAB_SIZE -> arp_entry] /\ faults' \in 0 .. MaxFaults
  BY <1>7, OneLink
<1>14. Grows(client[c], cl2) BY <1>1, <1>9
<1> QED BY <1>7, <1>9, <1>11, <1>12, <1>13, <1>14, ClientStep

-----------------------------------------------------------------------------
(***************************************************************************)
(* The server's steps.                                                     *)
(***************************************************************************)
\* A frame is answered with at most a frame that has neither data nor a FIN.
LEMMA AnswerStep ==
    ASSUME HttpInv, NEW c \in Peers, toServer[c] # <<>>,
           toServer' = [toServer EXCEPT ![c] = Tail(toServer[c])],
           client' = client, uip_conns' = uip_conns, faults' = faults,
           arp_table' \in [1 .. UIP_ARPTAB_SIZE -> arp_entry],
           \/ toClient' = toClient
           \/ \E f \in ClientFrame :
                 /\ ReplyOK(client[c], f) /\ ~HasData(f) /\ ~Flagged(f, "FIN")
                 /\ toClient' = [toClient EXCEPT ![c] = Append(toClient[c], f)]
    PROVE  HttpInv'
<1> DEFINE cl == client[c]
           qs == toServer[c]
           qc == toClient[c]
           S  == States(uip_conns, c)
<1>1. LinkOK(c, cl, Tail(qs), qc, S) BY OneLink, ReceiveOK
<1>2. Tail(qs) \in Seq(ServerFrame) BY OneLink, TailFrames
<1>3. PICK qc1 \in Seq(ClientFrame) : /\ toClient' = [toClient EXCEPT ![c] = qc1]
                                      /\ LinkOK(c, cl, Tail(qs), qc1, S)
  <2>1. CASE toClient' = toClient BY <1>1, <2>1, OneLink
  <2>2. ASSUME NEW f \in ClientFrame, ReplyOK(cl, f), ~HasData(f), ~Flagged(f, "FIN"),
               toClient' = [toClient EXCEPT ![c] = Append(qc, f)]
        PROVE  \E qc1 \in Seq(ClientFrame) : /\ toClient' = [toClient EXCEPT ![c] = qc1]
                                             /\ LinkOK(c, cl, Tail(qs), qc1, S)
    <3>1. LinkOK(c, cl, Tail(qs), Append(qc, f), S) BY <1>1, <2>2, OneLink, AnswerOK
    <3>2. Append(qc, f) \in Seq(ClientFrame) BY OneLink, AppendFrame
    <3> QED BY <2>2, <3>1, <3>2
  <2> QED BY <2>1, <2>2
<1>4. client' = [client EXCEPT ![c] = cl] /\ Grows(cl, cl) /\ cl \in Client
      /\ faults' \in 0 .. MaxFaults
  BY OneLink, NoGrowth
<1> QED BY <1>2, <1>3, <1>4, ClientStep

LEMMA ServeArpStep ==
    ASSUME HttpInv, NEW c \in Peers, toServer[c] # <<>>, NEW f, ServeArp(c, f),
           toServer' = [toServer EXCEPT ![c] = Tail(@)], faults' = faults
    PROVE  HttpInv'
<1>1. PICK op : op = IF f.type = "arp_request" THEN "ARP_REQUEST" ELSE "ARP_REPLY" OBVIOUS
<1>2. /\ arp_table' = uip_arp_update(arp_table, NextHop[c])
      /\ \/ toClient' = toClient
         \/ toClient' = [toClient EXCEPT ![c] = Append(toClient[c], [type |-> "arp_reply"])]
      /\ uip_conns' = uip_conns /\ client' = client
  <2>1. PICK r : r = uip_arp_arpin(arp_table, op, NextHop[c]) OBVIOUS
  <2>2. r.arp_table = uip_arp_update(arp_table, NextHop[c]) BY <2>1 DEF uip_arp_arpin
  <2>3. /\ arp_table' = r.arp_table
        /\ toClient' = [toClient EXCEPT ![c] =
                            IF r.reply THEN Append(@, [type |-> "arp_reply"]) ELSE @]
        /\ uip_conns' = uip_conns /\ client' = client
    BY <1>1, <2>1 DEF ServeArp
  <2>4. CASE r.reply BY <2>2, <2>3, <2>4
  <2>5. CASE ~r.reply
    <3>1. toClient' = toClient BY <2>3, <2>5, OneLink
    <3> QED BY <2>2, <2>3, <3>1
  <2> QED BY <2>4, <2>5
<1>3. arp_table' \in [1 .. UIP_ARPTAB_SIZE -> arp_entry]
  <2>1. NextHop[c] \in arp_entry BY ClientAssumption DEF arp_entry
  <2>2. arp_table \in [1 .. UIP_ARPTAB_SIZE -> arp_entry] BY OneLink
  <2>3. PICK h \in arp_entry : h = NextHop[c] BY <2>1
  <2>4. \/ arp_table' = arp_table
        \/ \E k : arp_table' = [arp_table EXCEPT ![k] = h]
    BY <1>2, <2>3 DEF uip_arp_update
  <2> QED BY <2>2, <2>4
<1>4. PICK g : g = [type |-> "arp_reply"] OBVIOUS
<1>5. g \in PlainFrame /\ g.type = "arp_reply" BY <1>4 DEF PlainFrame
<1>6. g \in ClientFrame BY <1>5 DEF ClientFrame
<1>7. ReplyOK(client[c], g) /\ ~HasData(g) /\ ~Flagged(g, "FIN")
  BY <1>5 DEF ReplyOK, HasData, Flagged
<1> QED BY <1>2, <1>3, <1>4, <1>6, <1>7, AnswerStep

\* The frame of an IP packet.
LEMMA FramedOK ==
    ASSUME NEW c, NEW p
    PROVE  \/ Framed(c, p) = p
           \/ /\ Framed(c, p) \in ClientFrame /\ Framed(c, p).type = "arp_request"
<1>1. PICK g : g = [type |-> "arp_request"] OBVIOUS
<1>2. g \in PlainFrame /\ g.type = "arp_request" BY <1>1 DEF PlainFrame
<1> QED BY <1>1, <1>2 DEF Framed, ClientFrame

LEMMA EchoValidReply ==
    ASSUME NEW rest \in u16_t, NEW x, x = Size16 - 1 - OnesAdd(HTONS_ECHO, rest)
    PROVE  /\ x \in u16_t /\ IcmpReplyChecksum(x) \in u16_t
           /\ rest # 0 => IcmpValid(0, rest, IcmpReplyChecksum(x))
<1>1. PICK s : s = OnesAdd(HTONS_ECHO, rest) OBVIOUS
<1>2. HTONS_ECHO \in u16_t BY Size16Large DEF u16_t, HTONS_ECHO
<1>3. s = IF HTONS_ECHO + rest < Size16 THEN HTONS_ECHO + rest
          ELSE HTONS_ECHO + rest - (Size16 - 1)
  BY <1>1, <1>2, OnesSum
<1>4. s \in u16_t BY <1>2, <1>3, Size16Large DEF u16_t
<1>5. x \in u16_t BY <1>1, <1>4, Size16Large DEF u16_t
<1>6. OnesAdd(s, x) = Size16 - 1
  <2>1. s + x = Size16 - 1 BY <1>1, <1>4, Size16Large DEF u16_t
  <2>2. OnesAdd(s, x) = IF s + x < Size16 THEN s + x ELSE s + x - (Size16 - 1)
    BY <1>4, <1>5, OnesSum
  <2> QED BY <2>1, <2>2, Size16Large
<1>7. IcmpValid(HTONS_ECHO, rest, x) BY <1>1, <1>6 DEF IcmpValid
<1>8. IcmpReplyChecksum(x) \in u16_t
  BY <1>5, Size16Large DEF IcmpReplyChecksum, u16_t, HTONS_ECHO
<1>9. rest # 0 => IcmpValid(0, rest, IcmpReplyChecksum(x)) BY <1>5, <1>7, EchoReplyValid
<1> QED BY <1>5, <1>8, <1>9

LEMMA ServeEchoStep ==
    ASSUME HttpInv, NEW c \in Peers, toServer[c] # <<>>, NEW f, f = Head(toServer[c]),
           ServeEcho(c, f), toServer' = [toServer EXCEPT ![c] = Tail(@)], faults' = faults
    PROVE  HttpInv'
<1>1. f.type = "echo" /\ uip_conns' = uip_conns /\ arp_table' = arp_table /\ client' = client
  BY DEF ServeEcho
<1>2. f \in ServerFrame /\ SentOK(c, client[c], f)
  <2>1. f = toServer[c][1] /\ 1 \in DOMAIN toServer[c] BY OneLink, TailFrames
  <2> QED BY <2>1, OneLink DEF LinkOK
<1>3. f \in EchoFrame BY <1>1, <1>2 DEF ServerFrame, PlainFrame, ServerSegment
<1>4. PICK x : x = IcmpReplyChecksum(f.icmpchksum) OBVIOUS
<1>5. x \in u16_t /\ (f.rest # 0 => IcmpValid(0, f.rest, x))
  <2>1. f.rest \in u16_t BY <1>3 DEF EchoFrame
  <2>2. f.icmpchksum = Size16 - 1 - OnesAdd(HTONS_ECHO, f.rest) BY <1>1, <1>2 DEF SentOK
  <2> QED BY <1>4, <2>1, <2>2, EchoValidReply
<1>6. PICK p : p = [type |-> "echo_reply", rest |-> f.rest, damage |-> f.damage,
                    icmpchksum |-> x]
  OBVIOUS
<1>7. /\ p \in EchoFrame /\ p.type = "echo_reply" /\ p.rest = f.rest /\ p.icmpchksum = x
  BY <1>3, <1>5, <1>6 DEF EchoFrame
<1>8. /\ p \in ClientFrame /\ ReplyOK(client[c], p)
      /\ ~HasData(p) /\ ~Flagged(p, "FIN")
  BY <1>5, <1>7 DEF ClientFrame, ReplyOK, HasData, Flagged
<1>9. PICK g : g = Framed(c, p) OBVIOUS
<1>10. /\ g \in ClientFrame /\ ReplyOK(client[c], g) /\ ~HasData(g) /\ ~Flagged(g, "FIN")
  <2>1. CASE g = p BY <1>8, <2>1
  <2>2. CASE g \in ClientFrame /\ g.type = "arp_request"
    <3>1. PICK cl : cl = client[c] OBVIOUS
    <3>2. SentOK(c, cl, g) /\ ReplyOK(cl, g) /\ ~HasData(g) /\ ~Flagged(g, "FIN")
      BY <2>2, PlainOK
    <3> QED BY <2>2, <3>1, <3>2
  <2> QED BY <1>9, <2>1, <2>2, FramedOK
<1>11. \/ toClient' = toClient
       \/ toClient' = [toClient EXCEPT ![c] = Append(toClient[c], g)]
  BY <1>4, <1>6, <1>9, OneLink DEF ServeEcho
<1>12. arp_table' \in [1 .. UIP_ARPTAB_SIZE -> arp_entry] BY <1>1, OneLink
<1> QED BY <1>1, <1>10, <1>11, <1>12, AnswerStep

LEMMA ServeOtherStep ==
    ASSUME HttpInv, NEW c \in Peers, toServer[c] # <<>>, NEW f, ServeOther(f),
           toServer' = [toServer EXCEPT ![c] = Tail(@)], faults' = faults
    PROVE  HttpInv'
<1>1. uip_conns' = uip_conns /\ arp_table' = arp_table /\ client' = client
      /\ toClient' = toClient
  BY DEF ServeOther
<1>2. arp_table' \in [1 .. UIP_ARPTAB_SIZE -> arp_entry] BY <1>1, OneLink
<1> QED BY <1>1, <1>2, AnswerStep

\* One connection of the table changes: that of client c, or one that is
\* given to it.
LEMMA TableStep ==
    ASSUME HttpInv, NEW c \in Peers, NEW cl1 \in Client, Grows(client[c], cl1),
           client' = [client EXCEPT ![c] = cl1], NEW i \in 1 .. UIP_CONNS,
           NEW u \in uip_conn, u.peer = c, ConnOK(u, cl1),
           uip_conns' = [uip_conns EXCEPT ![i] = u],
           \A j \in 1 .. UIP_CONNS : Active(j) /\ uip_conns[j].peer = c => j = i
    PROVE  /\ uip_conns' \in [1 .. UIP_CONNS -> uip_conn] /\ ConnsOK' /\ OnePeer'
           /\ \A d \in Peers : d # c => States(uip_conns', d) \subseteq States(uip_conns, d)
           /\ \A s \in States(uip_conns', c) : s = u.tcpstateflags /\ s # "UIP_CLOSED"
<1>1. PlacesOK /\ ConnsOK /\ OnePeer BY DEF HttpInv
<1>2. uip_conns \in [1 .. UIP_CONNS -> uip_conn] /\ client \in [Peers -> Client]
  BY <1>1 DEF PlacesOK
<1>3. uip_conns' \in [1 .. UIP_CONNS -> uip_conn] BY <1>2
<1>4. uip_conns'[i] = u /\ \A j \in 1 .. UIP_CONNS : j # i => uip_conns'[j] = uip_conns[j]
  BY <1>2
<1>5. ConnsOK'
  <2> SUFFICES ASSUME NEW j \in 1 .. UIP_CONNS
               PROVE  ConnOK(uip_conns'[j], client'[uip_conns'[j].peer])
    BY DEF ConnsOK
  <2>1. CASE j = i BY <1>2, <1>4, <2>1
  <2>2. CASE j # i
    <3>1. PICK t \in uip_conn : t = uip_conns[j] /\ t = uip_conns'[j] BY <1>2, <1>4, <2>2
    <3>2. t.peer \in Peers BY DEF uip_conn
    <3>3. ConnOK(t, client[t.peer]) BY <1>1, <3>1 DEF ConnsOK
    <3>4. CASE t.peer = c
      <4>1. client[c] \in Client /\ client'[c] = cl1 BY <1>2
      <4> QED BY <3>1, <3>3, <3>4, <4>1, ConnGrows
    <3>5. CASE t.peer # c
      <4>1. client'[t.peer] = client[t.peer] BY <1>2, <3>2, <3>5
      <4> QED BY <3>1, <3>3, <4>1
    <3> QED BY <3>4, <3>5
  <2> QED BY <2>1, <2>2
<1>6. OnePeer' BY <1>1, <1>4 DEF OnePeer, Active
<1>7. DOMAIN uip_conns = 1 .. UIP_CONNS /\ DOMAIN uip_conns' = 1 .. UIP_CONNS BY <1>2, <1>3
<1>8. ASSUME NEW d \in Peers, d # c, NEW s \in States(uip_conns', d)
      PROVE  s \in States(uip_conns, d)
  <2>1. PICK j \in 1 .. UIP_CONNS : /\ uip_conns'[j].tcpstateflags = s /\ s # "UIP_CLOSED"
                                    /\ uip_conns'[j].peer = d
    BY <1>7 DEF States
  <2>2. j # i BY <1>4, <1>8, <2>1
  <2>3. uip_conns[j].tcpstateflags = s /\ uip_conns[j].peer = d BY <1>4, <2>1, <2>2
  <2> QED BY <1>7, <2>1, <2>3 DEF States
<1>9. ASSUME NEW s \in States(uip_conns', c)
      PROVE  s = u.tcpstateflags /\ s # "UIP_CLOSED"
  <2>1. PICK j \in 1 .. UIP_CONNS : /\ uip_conns'[j].tcpstateflags = s /\ s # "UIP_CLOSED"
                                    /\ uip_conns'[j].peer = c
    BY <1>7 DEF States
  <2>2. j = i
    <3> SUFFICES ASSUME j # i PROVE FALSE OBVIOUS
    <3>1. uip_conns[j].tcpstateflags # "UIP_CLOSED" /\ uip_conns[j].peer = c BY <1>4, <2>1
    <3> QED BY <3>1 DEF Active
  <2> QED BY <1>4, <2>1, <2>2
<1> QED BY <1>3, <1>5, <1>6, <1>8, <1>9

\* A client whose piece of the page may have been cut anew.
LEMMA ResizedOK ==
    ASSUME NEW cl \in Client, ClientOK(cl), NEW b, NEW cl1,
           cl1 = [cl EXCEPT !.resized = @ \/ b]
    PROVE  /\ cl1 \in Client /\ ClientOK(cl1) /\ Grows(cl, cl1) /\ (cl1.eof => cl.eof)
           /\ ~cl1.resized => ~b
<1>1. PICK r \in BOOLEAN : r <=> (cl.resized \/ b) OBVIOUS
<1>2. (cl.resized \/ b) = r BY <1>1
<1>3. cl1 = [cl EXCEPT !.resized = r] BY <1>2
<1>4. /\ cl1 \in Client /\ cl1.phase = cl.phase /\ cl1.una = cl.una /\ cl1.nxt = cl.nxt
      /\ cl1.got = cl.got /\ cl1.eof = cl.eof /\ cl1.fin = cl.fin /\ cl1.early = cl.early
      /\ cl1.resized = r
  BY <1>3 DEF Client
<1>5. ~r => ~cl.resized /\ ~b BY <1>1
<1>6. ClientOK(cl1) BY <1>4, <1>5 DEF ClientOK, ReqSent
<1>7. Grows(cl, cl) BY NoGrowth
<1>8. Grows(cl, cl1) BY <1>1, <1>4, <1>7 DEF Grows
<1> QED BY <1>4, <1>5, <1>6, <1>8

\* A new connection u for the SYN seg of client c.
Opened(c, cl, seg, u) ==
    /\ u \in uip_conn /\ u.peer = c /\ u.tcpstateflags = "UIP_SYN_RCVD" /\ ConnOK(u, cl)
    /\ seg.flags = {"SYN"}

LEMMA ListenOK ==
    ASSUME HttpInv, NEW c \in Peers, NEW cl1 \in Client, NEW seg \in ServerSegment,
           SentOK(c, cl1, seg), seg.flags = {"SYN"}, Unused(uip_conns) # {},
           NEW r, r = found_listen(uip_conns, seg)
    PROVE  \E i \in 1 .. UIP_CONNS : \E u :
              /\ i \in Unused(uip_conns) /\ Opened(c, cl1, seg, u)
              /\ r = tcp_send(uip_conns, i, u, {"SYN", "ACK"}, <<>>)
<1>1. PlacesOK /\ ConnsOK BY DEF HttpInv
<1>2. uip_conns \in [1 .. UIP_CONNS -> uip_conn] BY <1>1 DEF PlacesOK
<1>3. Unused(uip_conns) \subseteq 1 .. UIP_CONNS BY <1>2 DEF Unused, Closed, TimeWait
<1>4. PICK i \in 1 .. UIP_CONNS : i = Min(Unused(uip_conns)) /\ i \in Unused(uip_conns)
  <2>1. Unused(uip_conns) \in SUBSET Nat BY <1>3, UipAssumption
  <2>2. Min(Unused(uip_conns)) \in Unused(uip_conns) BY <2>1, MinIn
  <2> QED BY <1>3, <2>2
<1>5. PICK t \in uip_conn : t = uip_conns[i] /\ ConnOK(t, client[t.peer])
  BY <1>1, <1>2 DEF ConnsOK
<1>6. PICK s \in SeqNo : s = seg.seqno BY DEF ServerSegment
<1>7. seg.type = "tcp" BY DEF ServerSegment
<1>8. seg.src = c /\ Off(s) = 0 /\ seg.mssopt > 0 BY <1>6, <1>7 DEF SentOK
<1>9. 1 \in 0 .. UIP_TCP_MSS + 1 /\ 1 \in 0 .. UIP_TCP_MSS /\ UIP_TCP_MSS \in Nat
  BY UipAssumption
<1>10. 0 \in SeqNo BY SizePositive DEF SeqNo
<1>11. PICK v : v = [t EXCEPT !.peer = c, !.tcpstateflags = "UIP_SYN_RCVD",
                              !.snd_nxt = Iss, !.len = 1, !.rcv_nxt = s]
  OBVIOUS
<1>12. /\ v \in uip_conn /\ v.peer = c /\ v.tcpstateflags = "UIP_SYN_RCVD"
       /\ v.snd_nxt = 0 /\ v.len = 1 /\ v.rcv_nxt = s /\ v.appstate = t.appstate
  BY <1>9, <1>10, <1>11 DEF uip_conn, TcpStates, Iss
<1>13. PICK y \in SeqNo : y = Add32[s][1] /\ Off(y) = 1
  <2>1. 0 + 1 < Size32 BY ClientAssumption, SizePositive
  <2>2. Off(Add32[s][1]) = 0 + 1 BY <1>8, <1>9, <2>1, OffAdd
  <2>3. Add32[s][1] \in SeqNo BY <1>9, AddSeqNo
  <2> QED BY <2>2, <2>3
<1>14. PICK x : x = uip_add_rcv_nxt(v, 1) OBVIOUS
<1>15. x = [v EXCEPT !.rcv_nxt = y] BY <1>12, <1>13, <1>14 DEF uip_add_rcv_nxt
<1>16. /\ x \in uip_conn /\ x.peer = c /\ x.tcpstateflags = "UIP_SYN_RCVD"
       /\ x.snd_nxt = 0 /\ x.len = 1 /\ x.rcv_nxt = y /\ x.appstate = t.appstate
  BY <1>12, <1>15 DEF uip_conn
<1>17. PICK m : m = Least(seg.mssopt, UIP_TCP_MSS) OBVIOUS
<1>18. m \in 0 .. UIP_TCP_MSS /\ m > 0
  <2>1. seg.mssopt \in Nat BY DEF ServerSegment
  <2>2. UIP_TCP_MSS > 0 BY UipAssumption
  <2> QED BY <1>8, <1>9, <1>17, <2>1, <2>2 DEF Least
<1>19. PICK u : u = MssOption(x, seg) OBVIOUS
<1>20. u = [x EXCEPT !.mss = m, !.initialmss = m]
  <2>1. seg.mssopt # 0 BY <1>8
  <2> QED BY <1>17, <1>19, <2>1 DEF MssOption
<1>21. /\ u \in uip_conn /\ u.peer = c /\ u.tcpstateflags = "UIP_SYN_RCVD"
       /\ u.snd_nxt = 0 /\ u.len = 1 /\ u.rcv_nxt = y /\ u.appstate = t.appstate
       /\ u.mss = m /\ u.initialmss = m
  BY <1>16, <1>18, <1>20 DEF uip_conn
<1>22. Off(y) \in 1 .. cl1.nxt
  <2>1. Off(s) + seg.len + One("SYN" \in seg.flags) + One("FIN" \in seg.flags) <= cl1.nxt
    BY <1>6, <1>7 DEF SentOK
  <2>2. One("SYN" \in seg.flags) = 1 /\ One("FIN" \in seg.flags) = 0 BY DEF One
  <2>3. seg.len \in Nat /\ cl1.nxt \in Nat
    BY <1>9, ClientAssumption DEF ServerSegment, Client
  <2> QED BY <1>8, <1>13, <2>1, <2>2, <2>3
<1>23. ConnOK(u, cl1)
  <2>1. t.appstate.pos + t.appstate.last_sent_len <= RESPONSE_LEN BY <1>5 DEF ConnOK
  <2> QED BY <1>18, <1>21, <1>22, <2>1 DEF ConnOK, Iss
<1>24. r = tcp_send(uip_conns, i, u, {"SYN", "ACK"}, <<>>)
  BY <1>4, <1>5, <1>6, <1>8, <1>11, <1>14, <1>19 DEF found_listen, tcp_send_synack
<1> QED BY <1>4, <1>21, <1>23, <1>24 DEF Opened

\* A RST that answers a segment of no connection.
Refusal(c, seg) ==
    [dest |-> c, flags |-> {"RST", "ACK"}, seqno |-> seg.ackno,
     ackno |-> Successor32[seg.seqno], data |-> <<>>]

\* What uip_input() makes of a segment of client c.
LEMMA InputOK ==
    ASSUME HttpInv, NEW c \in Peers, NEW cl1 \in Client, Grows(client[c], cl1),
           NEW seg \in ServerSegment, SentOK(c, cl1, seg), ~cl1.resized => ~Resizes(seg),
           NEW r, r = uip_input(uip_conns, seg)
    PROVE  \/ r = Drop(uip_conns)
           \/ /\ r = [conns |-> uip_conns, out |-> <<Refusal(c, seg)>>]
              /\ seg.flags # {"SYN"}
              /\ \A j \in 1 .. UIP_CONNS : ~(Active(j) /\ uip_conns[j].peer = c)
           \/ \E i \in 1 .. UIP_CONNS :
                 /\ Active(i) /\ uip_conns[i].peer = c
                 /\ r = found(uip_conns, i, seg) /\ Belongs(uip_conns[i], cl1, seg)
                 /\ Result(uip_conns, i, r, uip_conns[i], cl1, seg)
           \/ /\ \A j \in 1 .. UIP_CONNS : ~(Active(j) /\ uip_conns[j].peer = c)
              /\ \E i \in 1 .. UIP_CONNS : \E u :
                    /\ i \in Unused(uip_conns) /\ Opened(c, cl1, seg, u)
                    /\ r = tcp_send(uip_conns, i, u, {"SYN", "ACK"}, <<>>)
<1>1. PlacesOK /\ ConnsOK BY DEF HttpInv
<1>2. uip_conns \in [1 .. UIP_CONNS -> uip_conn] BY <1>1 DEF PlacesOK
<1>3. seg.type = "tcp" BY DEF ServerSegment
<1>4. seg.src = c BY <1>3 DEF SentOK
<1>5. CASE ~IpAccepted(seg) \/ ~uip_tcpchksum(seg) BY <1>5 DEF uip_input, tcp_input
<1>6. CASE IpAccepted(seg) /\ uip_tcpchksum(seg) /\ Demux(uip_conns, seg) # {}
  <2>1. Demux(uip_conns, seg) \subseteq 1 .. UIP_CONNS BY <1>2 DEF Demux
  <2>2. PICK i \in Demux(uip_conns, seg) : i = Min(Demux(uip_conns, seg))
    <3>1. Demux(uip_conns, seg) \in SUBSET Nat BY <2>1, UipAssumption
    <3> QED BY <1>6, <3>1, MinIn
  <2>3. i \in 1 .. UIP_CONNS BY <2>1
  <2>4. PICK t \in uip_conn : t = uip_conns[i] BY <1>2, <2>3
  <2>5. t.tcpstateflags # "UIP_CLOSED" /\ t.peer = c BY <1>4, <2>4 DEF Demux
  <2>6. ConnOK(t, cl1)
    <3>1. ConnOK(t, client[c]) BY <1>1, <2>3, <2>4, <2>5 DEF ConnsOK
    <3>2. client[c] \in Client BY <1>1 DEF PlacesOK
    <3> QED BY <3>1, <3>2, ConnGrows
  <2>7. ~cl1.resized => ~Cuts(t, seg)
    <3> SUFFICES ASSUME Cuts(t, seg) PROVE Resizes(seg) OBVIOUS
    <3> QED BY <1>6, <2>2, <2>4 DEF Cuts, Resizes
  <2>8. Belongs(t, cl1, seg) BY <2>5, <2>6, <2>7 DEF Belongs
  <2>9. Result(uip_conns, i, found(uip_conns, i, seg), t, cl1, seg) BY <2>4, <2>8, FoundOK
  <2>10. r = found(uip_conns, i, seg) BY <1>6, <2>2 DEF uip_input, tcp_input
  <2> QED BY <2>3, <2>4, <2>5, <2>8, <2>9, <2>10 DEF Active
<1>7. CASE IpAccepted(seg) /\ uip_tcpchksum(seg) /\ Demux(uip_conns, seg) = {}
  <2>1. \A j \in 1 .. UIP_CONNS : ~(Active(j) /\ uip_conns[j].peer = c)
    BY <1>2, <1>4, <1>7 DEF Demux, Active
  <2>2. CASE seg.flags # {"SYN"}
    <3>1. r = reset(uip_conns, seg) BY <1>7, <2>2 DEF uip_input, tcp_input
    <3> QED BY <1>4, <2>1, <2>2, <3>1 DEF reset, Refusal
  <2>3. CASE seg.flags = {"SYN"}
    <3>1. r = found_listen(uip_conns, seg) BY <1>7, <2>3 DEF uip_input, tcp_input
    <3>2. CASE Unused(uip_conns) = {} BY <3>1, <3>2 DEF found_listen
    <3>3. CASE Unused(uip_conns) # {} BY <2>1, <2>3, <3>1, <3>3, ListenOK
    <3> QED BY <3>2, <3>3
  <2> QED BY <2>2, <2>3
<1> QED BY <1>5, <1>6, <1>7

\* The states S of a client's connections are the one of connection u.
OnlyOf(S, u) == \A s \in S : s = u.tcpstateflags /\ s # "UIP_CLOSED"

\* A segment is taken from the link, and the states of the connection change
\* as Advance says.
LEMMA ServedOK ==
    ASSUME NEW c, NEW cl, NEW qs \in Seq(ServerFrame), qs # <<>>,
           NEW qc \in Seq(ClientFrame), NEW S, LinkOK(c, cl, qs, qc, S),
           NEW seg, seg = Head(qs), seg.type = "tcp",
           NEW t, NEW u, NEW fl, NEW d, Advance(t, u, cl, seg, fl, d), t.tcpstateflags \in S,
           NEW S1, OnlyOf(S1, u), NEW r, r = Tail(qs)
    PROVE  LinkOK(c, cl, r, qc, S1)
<1>1. /\ seg = qs[1] /\ 1 \in DOMAIN qs
      /\ \A k \in DOMAIN r : k + 1 \in DOMAIN qs /\ r[k] = qs[k + 1] /\ k \in Nat /\ k >= 1
  BY TailFrames
<1>2. LinkOK(c, cl, r, qc, S) BY ReceiveOK
<1>3. ConnectsOnce(cl, qs, qc, S) BY DEF LinkOK
<1>4. NoSyn(cl, qs) => NoSyn(cl, r) BY <1>1 DEF NoSyn
<1>5. t.tcpstateflags # "UIP_SYN_RCVD" => NoSyn(cl, r) BY <1>3, <1>4 DEF ConnectsOnce
<1>6. t.tcpstateflags \in {"UIP_SYN_RCVD", "UIP_ESTABLISHED"} => ~Ended(cl, qc)
  BY <1>3 DEF ConnectsOnce
<1>7. "ACK" \in seg.flags => NoSyn(cl, r)
  <2> SUFFICES ASSUME "ACK" \in seg.flags PROVE NoSyn(cl, r) OBVIOUS
  <2>1. SentOK(c, cl, seg) BY <1>1 DEF LinkOK
  <2>2. cl.phase \in {"open", "reset"} BY <2>1 DEF SentOK
  <2>3. ASSUME NEW k \in DOMAIN r PROVE ~Flagged(r[k], "SYN")
    <3>1. k + 1 \in DOMAIN qs /\ r[k] = qs[k + 1] /\ 1 < k + 1 BY <1>1
    <3>2. Flagged(qs[1], "ACK") BY <1>1 DEF Flagged
    <3> QED BY <1>1, <1>3, <3>1, <3>2 DEF ConnectsOnce
  <2> QED BY <2>2, <2>3 DEF NoSyn
<1>8. Ended(cl, qc) => S1 \cap {"UIP_SYN_RCVD", "UIP_ESTABLISHED"} = {}
  <2> SUFFICES ASSUME Ended(cl, qc), NEW s \in S1,
                      s \in {"UIP_SYN_RCVD", "UIP_ESTABLISHED"}
               PROVE  FALSE
    OBVIOUS
  <2>1. u.tcpstateflags \in {"UIP_SYN_RCVD", "UIP_ESTABLISHED"} BY DEF OnlyOf
  <2>2. t.tcpstateflags \in {"UIP_SYN_RCVD", "UIP_ESTABLISHED"} BY <2>1 DEF Advance
  <2> QED BY <1>6, <2>2
<1>9. S1 \subseteq {"UIP_SYN_RCVD"} \/ NoSyn(cl, r)
  <2> SUFFICES ASSUME NEW s \in S1, s # "UIP_SYN_RCVD" PROVE NoSyn(cl, r) OBVIOUS
  <2>1. u.tcpstateflags \notin {"UIP_SYN_RCVD", "UIP_CLOSED"} BY DEF OnlyOf
  <2>2. CASE t.tcpstateflags = "UIP_SYN_RCVD" BY <1>7, <2>1, <2>2 DEF Advance
  <2> QED BY <1>5, <2>2
<1> QED BY <1>2, <1>8, <1>9, StatesOK

\* The frame of an answer of uIP, and the links once it is sent.
AnswerFrame(p) ==
    [type |-> "tcp", flags |-> p.flags, seqno |-> p.seqno, ackno |-> p.ackno, data |-> p.data]

Delivered(q) ==
    IF q = <<>> THEN toClient
    ELSE [toClient EXCEPT ![q[1].dest] = Append(@, Framed(q[1].dest, AnswerFrame(q[1])))]

LEMMA ReplySent ==
    ASSUME NEW p
    PROVE  Delivered(<<p>>) =
              [toClient EXCEPT ![p.dest] =
                  Append(toClient[p.dest], Framed(p.dest, AnswerFrame(p)))]
<1>1. PICK q : q = <<p>> OBVIOUS
<1>2. q # <<>> /\ q[1] = p BY <1>1
<1>3. Delivered(q) = [toClient EXCEPT ![p.dest] =
                         Append(toClient[p.dest], Framed(p.dest, AnswerFrame(p)))]
  BY <1>2 DEF Delivered
<1> QED BY <1>1, <1>3

\* The link of client c when the server has taken a segment and answers it.
LEMMA RepliedOK ==
    ASSUME NEW c, NEW cl, NEW qs, NEW qc \in Seq(ClientFrame), NEW S,
           LinkOK(c, cl, qs, qc, S), NEW g \in ClientSegment, ReplyOK(cl, g),
           g.data # <<>> => ~Ended(cl, qc),
           "FIN" \in g.flags => /\ NoSyn(cl, qs)
                                /\ S \cap {"UIP_SYN_RCVD", "UIP_ESTABLISHED"} = {},
           NEW h, h = g \/ (h \in ClientFrame /\ h.type = "arp_request")
    PROVE  Append(qc, h) \in Seq(ClientFrame) /\ LinkOK(c, cl, qs, Append(qc, h), S)
<1>1. CASE h = g
  <2>1. h \in ClientFrame BY <1>1 DEF ClientFrame
  <2>2. HasData(h) => ~Ended(cl, qc) BY <1>1 DEF HasData
  <2>3. Flagged(h, "FIN") => /\ NoSyn(cl, qs)
                             /\ S \cap {"UIP_SYN_RCVD", "UIP_ESTABLISHED"} = {}
    BY <1>1 DEF Flagged
  <2> QED BY <1>1, <2>1, <2>2, <2>3, AnswerOK, AppendFrame
<1>2. CASE h \in ClientFrame /\ h.type = "arp_request"
  <2>1. ReplyOK(cl, h) /\ ~HasData(h) /\ ~Flagged(h, "FIN")
    BY <1>2 DEF ReplyOK, HasData, Flagged
  <2> QED BY <1>2, <2>1, AnswerOK, AppendFrame
<1> QED BY <1>1, <1>2

LEMMA ServeTcpStep ==
    ASSUME HttpInv, NEW c \in Peers, toServer[c] # <<>>, NEW seg, seg = Head(toServer[c]),
           ServeTcp(c, seg), toServer' = [toServer EXCEPT ![c] = Tail(@)], faults' = faults
    PROVE  HttpInv'
<1> DEFINE qs == toServer[c]
           qc == toClient[c]
           S  == States(uip_conns, c)
           S1 == States(uip_conns', c)
<1>1. PICK cl \in Client : cl = client[c] /\ ClientOK(cl) BY OneLink
<1>2. PICK cl1 : cl1 = [cl EXCEPT !.resized = @ \/ Resizes(seg)] OBVIOUS
<1>3. /\ seg.type = "tcp" /\ client' = [client EXCEPT ![c] = cl1]
      /\ arp_table' = arp_table
  <2>1. client' = [client EXCEPT ![c].resized = @ \/ Resizes(seg)] BY DEF ServeTcp
  <2>2. client' = [client EXCEPT ![c] = cl1] BY <1>1, <1>2, <2>1, SMTT(30)
  <2> QED BY <2>2 DEF ServeTcp
<1>4. PICK r : /\ r = uip_input(uip_conns, seg) /\ uip_conns' = r.conns
               /\ toClient' = Delivered(r.out)
  BY DEF ServeTcp, Delivered, AnswerFrame
<1>5. /\ cl1 \in Client /\ ClientOK(cl1) /\ Grows(cl, cl1) /\ (cl1.eof => cl.eof)
      /\ ~cl1.resized => ~Resizes(seg)
  BY <1>1, <1>2, ResizedOK, ZenonT(60)
<1>6. qs \in Seq(ServerFrame) /\ qs # <<>> /\ qc \in Seq(ClientFrame)
      /\ Tail(qs) \in Seq(ServerFrame)
  BY OneLink, TailFrames
<1>7. LinkOK(c, cl1, qs, qc, S) BY <1>1, <1>5, <1>6, OneLink, GrowOK
<1>8. seg \in ServerSegment /\ SentOK(c, cl1, seg)
  <2>1. seg = qs[1] /\ 1 \in DOMAIN qs BY <1>6, TailFrames
  <2>2. seg \in ServerFrame /\ SentOK(c, cl1, seg) BY <1>6, <1>7, <2>1 DEF LinkOK
  <2> QED BY <1>3, <2>2 DEF ServerFrame, PlainFrame, EchoFrame
<1>9. arp_table' \in [1 .. UIP_ARPTAB_SIZE -> arp_entry] /\ faults' \in 0 .. MaxFaults
  BY <1>3, OneLink
<1>10. toServer' = [toServer EXCEPT ![c] = Tail(qs)] OBVIOUS
<1>11. uip_conns \in [1 .. UIP_CONNS -> uip_conn] BY DEF HttpInv, PlacesOK
<1>12. toClient = [toClient EXCEPT ![c] = qc] BY OneLink
<1> HIDE DEF qs, qc, S, S1
<1>13. CASE r = Drop(uip_conns)
  <2>1. r.conns = uip_conns /\ r.out = <<>> BY <1>13 DEF Drop
  <2>2. uip_conns' = uip_conns /\ toClient' = toClient BY <1>4, <2>1 DEF Delivered
  <2>3. LinkOK(c, cl1, Tail(qs), qc, S) BY <1>6, <1>7, ReceiveOK
  <2> QED BY <1>1, <1>3, <1>5, <1>6, <1>9, <1>10, <1>12, <2>2, <2>3, ClientStep DEF S
<1>14. CASE r = [conns |-> uip_conns, out |-> <<Refusal(c, seg)>>]
  <2>1. PICK p : p = Refusal(c, seg) OBVIOUS
  <2>2. uip_conns' = uip_conns /\ r.out = <<p>> BY <1>4, <1>14, <2>1
  <2>3. PICK g : g = AnswerFrame(p) OBVIOUS
  <2>4. p.dest = c /\ p.flags = {"RST", "ACK"} /\ p.data = <<>> /\ p.seqno \in Nat
        /\ p.ackno \in SeqNo
    BY <1>8, <2>1, NextSeqNo DEF Refusal, ServerSegment
  <2>5. PICK h : /\ toClient' = [toClient EXCEPT ![c] = Append(qc, h)]
                 /\ h = g \/ (h \in ClientFrame /\ h.type = "arp_request")
    <3>1. PICK h : h = Framed(c, g) OBVIOUS
    <3>2. toClient' = Delivered(<<p>>) BY <1>4, <2>2
    <3>3. toClient' = [toClient EXCEPT ![c] = Append(qc, h)]
      BY <3>1, <3>2, <2>3, <2>4, ReplySent DEF qc
    <3>4. h = g \/ (h \in ClientFrame /\ h.type = "arp_request") BY <3>1, FramedOK
    <3> QED BY <3>3, <3>4
  <2>6. g \in ClientSegment /\ g.data = <<>> /\ g.flags = {"RST", "ACK"} /\ g.type = "tcp"
    BY <2>3, <2>4 DEF ClientSegment, TcpFlags, AnswerFrame
  <2>7. ReplyOK(cl1, g) BY <2>6 DEF ReplyOK
  <2>8. LinkOK(c, cl1, Tail(qs), qc, S) BY <1>6, <1>7, ReceiveOK
  <2>9. Append(qc, h) \in Seq(ClientFrame) /\ LinkOK(c, cl1, Tail(qs), Append(qc, h), S)
    BY <1>6, <2>5, <2>6, <2>7, <2>8, RepliedOK
  <2> QED BY <1>1, <1>3, <1>5, <1>6, <1>9, <1>10, <2>2, <2>5, <2>9, ClientStep DEF S
<1>15. ASSUME NEW i \in 1 .. UIP_CONNS, NEW u \in uip_conn, u.peer = c, ConnOK(u, cl1),
              r.conns = [uip_conns EXCEPT ![i] = u],
              \A j \in 1 .. UIP_CONNS : Active(j) /\ uip_conns[j].peer = c => j = i,
              NEW qc1 \in Seq(ClientFrame), toClient' = [toClient EXCEPT ![c] = qc1],
              LinkOK(c, cl1, Tail(qs), qc1, S1)
       PROVE  HttpInv'
  <2>1. uip_conns' = [uip_conns EXCEPT ![i] = u] BY <1>4, <1>15
  <2>2. Grows(client[c], cl1) BY <1>1, <1>5
  <2>3. /\ uip_conns' \in [1 .. UIP_CONNS -> uip_conn] /\ ConnsOK' /\ OnePeer'
        /\ \A d \in Peers : d # c => States(uip_conns', d) \subseteq States(uip_conns, d)
    BY <1>3, <1>5, <1>15, <2>1, <2>2, TableStep
  <2>4. PlacesOK' /\ LinksOK'
    BY <1>3, <1>5, <1>6, <1>9, <1>10, <1>15, <2>3, LinkStep DEF S1
  <2> QED BY <2>3, <2>4 DEF HttpInv
<1>16. ASSUME NEW i \in 1 .. UIP_CONNS, Active(i), uip_conns[i].peer = c,
              Result(uip_conns, i, r, uip_conns[i], cl1, seg)
       PROVE  HttpInv'
  <2>1. PICK t \in uip_conn : t = uip_conns[i] BY <1>11
  <2>2. PICK u, fl, d : /\ Advance(t, u, cl1, seg, fl, d)
                        /\ r = Kept(uip_conns, i, u) \/ r = tcp_send(uip_conns, i, u, fl, d)
    BY <1>16, <2>1 DEF Result
  <2>3. u \in uip_conn /\ u.peer = c /\ ConnOK(u, cl1) BY <1>16, <2>1, <2>2 DEF Advance
  <2>4. r.conns = [uip_conns EXCEPT ![i] = u] BY <2>2 DEF Kept, Drop, tcp_send
  <2>5. \A j \in 1 .. UIP_CONNS : Active(j) /\ uip_conns[j].peer = c => j = i
    BY <1>16 DEF HttpInv, OnePeer
  <2>6. \A s \in S1 : s = u.tcpstateflags /\ s # "UIP_CLOSED"
    <3>1. Grows(client[c], cl1) /\ uip_conns' = [uip_conns EXCEPT ![i] = u]
      BY <1>1, <1>4, <1>5, <2>4
    <3> QED BY <1>3, <1>5, <2>3, <2>5, <3>1, TableStep DEF S1
  <2>7. t.tcpstateflags \in S
    <3>1. i \in DOMAIN uip_conns BY <1>11
    <3> QED BY <1>16, <2>1, <3>1 DEF S, States, Active
  <2>8. /\ LinkOK(c, cl1, Tail(qs), qc, S1)
        /\ d # <<>> => ~Ended(cl1, qc)
        /\ "FIN" \in fl => /\ NoSyn(cl1, Tail(qs))
                           /\ S1 \cap {"UIP_SYN_RCVD", "UIP_ESTABLISHED"} = {}
    <3>1. PICK q : q = qs OBVIOUS
    <3>2. PICK T : T = S OBVIOUS
    <3>3. PICK T1 : T1 = S1 OBVIOUS
    <3>4. seg = Head(q) /\ q \in Seq(ServerFrame) /\ q # <<>> BY <1>6, <3>1 DEF qs
    <3>5. LinkOK(c, cl1, q, qc, T) /\ t.tcpstateflags \in T BY <1>7, <2>7, <3>1, <3>2
    <3>6. OnlyOf(T1, u) BY <2>6, <3>3 DEF OnlyOf
    <3>7. PICK q1 : q1 = Tail(q) OBVIOUS
    <3>8. Advance(t, u, cl1, seg, fl, d) BY <2>2
    <3>9. seg.type = "tcp" /\ qc \in Seq(ClientFrame) BY <1>3, <1>6
    <3>10. LinkOK(c, cl1, q1, qc, T1)
      BY <3>4, <3>5, <3>6, <3>8, <3>9, <3>7, ServedOK
    <3>11. d # <<>> => ~Ended(cl1, qc)
      BY <3>5, <3>8 DEF LinkOK, ConnectsOnce, Advance
    <3>12. "FIN" \in fl => /\ NoSyn(cl1, q1)
                           /\ T1 \cap {"UIP_SYN_RCVD", "UIP_ESTABLISHED"} = {}
      <4> SUFFICES ASSUME "FIN" \in fl
                   PROVE  /\ NoSyn(cl1, q1)
                          /\ T1 \cap {"UIP_SYN_RCVD", "UIP_ESTABLISHED"} = {}
        OBVIOUS
      <4>1. NoSyn(cl1, q) BY <3>5, <3>8 DEF LinkOK, ConnectsOnce, Advance
      <4>2. \A k \in DOMAIN q1 : k + 1 \in DOMAIN q /\ q1[k] = q[k + 1]
        BY <3>4, <3>7, TailFrames
      <4>3. NoSyn(cl1, q1) BY <4>1, <4>2 DEF NoSyn
      <4>4. T1 \cap {"UIP_SYN_RCVD", "UIP_ESTABLISHED"} = {}
        BY <3>6, <3>8 DEF OnlyOf, Advance
      <4> QED BY <4>3, <4>4
    <3> QED BY <3>1, <3>3, <3>10, <3>11, <3>12, <3>7
  <2>9. CASE r = Kept(uip_conns, i, u)
    <3>1. r.out = <<>> BY <2>9 DEF Kept, Drop
    <3>2. toClient' = toClient BY <1>4, <3>1 DEF Delivered
    <3> QED BY <1>6, <1>12, <1>15, <2>3, <2>4, <2>5, <2>8, <3>2
  <2>10. CASE r = tcp_send(uip_conns, i, u, fl, d)
    <3>1. PICK p : p = [dest |-> u.peer, flags |-> fl, seqno |-> u.snd_nxt,
                        ackno |-> u.rcv_nxt, data |-> d]
      OBVIOUS
    <3>2. r.out = <<p>> BY <2>10, <3>1 DEF tcp_send
    <3>3. PICK g : g = AnswerFrame(p) OBVIOUS
    <3>4. p.dest = c BY <2>3, <3>1
    <3>5. PICK h : /\ toClient' = [toClient EXCEPT ![c] = Append(qc, h)]
                   /\ h = g \/ (h \in ClientFrame /\ h.type = "arp_request")
      <4>1. PICK h : h = Framed(c, g) OBVIOUS
      <4>2. toClient' = Delivered(<<p>>) BY <1>4, <3>2
      <4>3. toClient' = [toClient EXCEPT ![c] = Append(qc, h)]
        BY <4>1, <4>2, <3>3, <3>4, ReplySent DEF qc
      <4>4. h = g \/ (h \in ClientFrame /\ h.type = "arp_request") BY <4>1, FramedOK
      <4> QED BY <4>3, <4>4
    <3>6. u.snd_nxt \in Nat /\ u.rcv_nxt \in SeqNo /\ fl \in SUBSET TcpFlags
          /\ d \in Seq(0 .. RESPONSE_LEN)
      BY <2>2, <2>3, SizePositive DEF Advance, uip_conn, SeqNo
    <3>7. /\ g \in ClientSegment /\ g.type = "tcp" /\ g.flags = fl /\ g.data = d
          /\ g.seqno = u.snd_nxt
      BY <3>1, <3>3, <3>6 DEF ClientSegment, AnswerFrame
    <3>8. ReplyOK(cl1, g) BY <2>2, <3>7 DEF ReplyOK, Advance
    <3>9. /\ Append(qc, h) \in Seq(ClientFrame)
          /\ LinkOK(c, cl1, Tail(qs), Append(qc, h), S1)
      BY <1>6, <2>8, <3>5, <3>7, <3>8, RepliedOK
    <3> QED BY <1>15, <2>3, <2>4, <2>5, <3>5, <3>9
  <2> QED BY <2>2, <2>9, <2>10
<1>17. ASSUME \A j \in 1 .. UIP_CONNS : ~(Active(j) /\ uip_conns[j].peer = c),
              NEW i \in 1 .. UIP_CONNS, NEW u, Opened(c, cl1, seg, u),
              r = tcp_send(uip_conns, i, u, {"SYN", "ACK"}, <<>>)
       PROVE  HttpInv'
  <2>1. /\ u \in uip_conn /\ u.peer = c /\ u.tcpstateflags = "UIP_SYN_RCVD"
        /\ ConnOK(u, cl1) /\ seg.flags = {"SYN"}
    BY <1>17 DEF Opened
  <2>2. r.conns = [uip_conns EXCEPT ![i] = u] BY <1>17 DEF tcp_send
  <2>3. \A s \in S1 : s = "UIP_SYN_RCVD"
    <3>1. Grows(client[c], cl1) /\ uip_conns' = [uip_conns EXCEPT ![i] = u]
      BY <1>1, <1>4, <1>5, <2>2
    <3>2. \A j \in 1 .. UIP_CONNS : Active(j) /\ uip_conns[j].peer = c => j = i BY <1>17
    <3>3. \A s \in S1 : s = u.tcpstateflags /\ s # "UIP_CLOSED"
      BY <1>3, <1>5, <2>1, <3>1, <3>2, TableStep DEF S1
    <3> QED BY <2>1, <3>3
  <2>4. ~Ended(cl1, qc)
    <3> SUFFICES ASSUME Ended(cl1, qc) PROVE FALSE OBVIOUS
    <3>1. NoSyn(cl1, qs) BY <1>7 DEF LinkOK, ConnectsOnce
    <3>2. seg = qs[1] /\ 1 \in DOMAIN qs BY <1>6, TailFrames DEF qs
    <3>3. Flagged(qs[1], "SYN") BY <1>3, <2>1, <3>2 DEF Flagged
    <3> QED BY <3>1, <3>2, <3>3 DEF NoSyn
  <2>5. LinkOK(c, cl1, Tail(qs), qc, S1)
    <3>1. LinkOK(c, cl1, Tail(qs), qc, S) BY <1>6, <1>7, ReceiveOK
    <3> QED BY <2>3, <2>4, <3>1, StatesOK
  <2>6. PICK p : p = [dest |-> u.peer, flags |-> {"SYN", "ACK"}, seqno |-> u.snd_nxt,
                      ackno |-> u.rcv_nxt, data |-> <<>>]
    OBVIOUS
  <2>7. r.out = <<p>> BY <1>17, <2>6 DEF tcp_send
  <2>8. PICK g : g = AnswerFrame(p) OBVIOUS
  <2>9. p.dest = c BY <2>1, <2>6
  <2>10. PICK h : /\ toClient' = [toClient EXCEPT ![c] = Append(qc, h)]
                  /\ h = g \/ (h \in ClientFrame /\ h.type = "arp_request")
    <3>1. PICK h : h = Framed(c, g) OBVIOUS
    <3>2. toClient' = Delivered(<<p>>) BY <1>4, <2>7
    <3>3. toClient' = [toClient EXCEPT ![c] = Append(qc, h)]
      BY <3>1, <3>2, <2>8, <2>9, ReplySent DEF qc
    <3>4. h = g \/ (h \in ClientFrame /\ h.type = "arp_request") BY <3>1, FramedOK
    <3> QED BY <3>3, <3>4
  <2>11. u.snd_nxt \in Nat /\ u.rcv_nxt \in SeqNo
    BY <2>1, SizePositive DEF uip_conn, SeqNo
  <2>12. g \in ClientSegment /\ g.type = "tcp" /\ g.flags = {"SYN", "ACK"} /\ g.data = <<>>
    BY <2>6, <2>8, <2>11 DEF ClientSegment, TcpFlags, AnswerFrame
  <2>13. ReplyOK(cl1, g) BY <2>12 DEF ReplyOK
  <2>14. /\ Append(qc, h) \in Seq(ClientFrame)
         /\ LinkOK(c, cl1, Tail(qs), Append(qc, h), S1)
    BY <1>6, <2>5, <2>10, <2>12, <2>13, RepliedOK
  <2> QED BY <1>15, <1>17, <2>1, <2>2, <2>10, <2>14
<1>18. \/ r = Drop(uip_conns)
       \/ r = [conns |-> uip_conns, out |-> <<Refusal(c, seg)>>]
       \/ \E i \in 1 .. UIP_CONNS :
             /\ Active(i) /\ uip_conns[i].peer = c
             /\ Result(uip_conns, i, r, uip_conns[i], cl1, seg)
       \/ /\ \A j \in 1 .. UIP_CONNS : ~(Active(j) /\ uip_conns[j].peer = c)
          /\ \E i \in 1 .. UIP_CONNS : \E u :
                /\ Opened(c, cl1, seg, u)
                /\ r = tcp_send(uip_conns, i, u, {"SYN", "ACK"}, <<>>)
  BY <1>1, <1>4, <1>5, <1>8, InputOK
<1> QED BY <1>13, <1>14, <1>16, <1>17, <1>18

-----------------------------------------------------------------------------
(***************************************************************************)
(* The theorems.                                                           *)
(***************************************************************************)
LEMMA ServeStep ==
    ASSUME HttpInv, NEW c \in Peers, Serve(c)
    PROVE  HttpInv'
<1>1. PICK f : f = Head(toServer[c]) OBVIOUS
<1>2. /\ toServer[c] # <<>> /\ toServer' = [toServer EXCEPT ![c] = Tail(@)]
      /\ faults' = faults
      /\ ServeArp(c, f) \/ ServeEcho(c, f) \/ ServeTcp(c, f) \/ ServeOther(f)
  BY <1>1 DEF Serve
<1>3. CASE ServeArp(c, f) BY <1>2, <1>3, ServeArpStep
<1>4. CASE ServeEcho(c, f) BY <1>1, <1>2, <1>4, ServeEchoStep
<1>5. CASE ServeTcp(c, f) BY <1>1, <1>2, <1>5, ServeTcpStep
<1>6. CASE ServeOther(f) BY <1>2, <1>6, ServeOtherStep
<1> QED BY <1>2, <1>3, <1>4, <1>5, <1>6

LEMMA StutterStep ==
    ASSUME HttpInv, UNCHANGED vars
    PROVE  HttpInv'
<1>1. /\ uip_conns' = uip_conns /\ arp_table' = arp_table /\ client' = client
      /\ toServer' = toServer /\ toClient' = toClient /\ faults' = faults
  BY DEF vars
<1>2. PlacesOK' BY <1>1 DEF HttpInv, PlacesOK
<1>3. ConnsOK' BY <1>1 DEF HttpInv, ConnsOK
<1>4. OnePeer' BY <1>1 DEF HttpInv, OnePeer, Active
<1>5. LinksOK' BY <1>1 DEF HttpInv, LinksOK
<1> QED BY <1>2, <1>3, <1>4, <1>5 DEF HttpInv

LEMMA HttpStep ==
    ASSUME HttpInv, [Next]_vars
    PROVE  HttpInv'
<1>1. ASSUME NEW c \in Peers, Serve(c) PROVE HttpInv' BY <1>1, ServeStep
<1>2. ASSUME NEW c \in Peers, Resolve(c) PROVE HttpInv' BY <1>2, ResolveStep
<1>3. ASSUME NEW c \in Peers, NEW rest \in Rests, Ping(c, rest) PROVE HttpInv'
  BY <1>3, PingStep
<1>4. ASSUME NEW c \in Peers, Connect(c) PROVE HttpInv' BY <1>4, ConnectStep
<1>5. ASSUME NEW c \in Peers, NEW n \in 1 .. REQ, NEW w \in Windows, Request(c, n, w)
      PROVE  HttpInv'
  BY <1>5, RequestStep
<1>6. ASSUME NEW c \in Peers, Close(c) PROVE HttpInv' BY <1>6, CloseStep
<1>7. ASSUME NEW c \in Peers, Timeout(c) PROVE HttpInv' BY <1>7, TimeoutStep
<1>8. ASSUME NEW c \in Peers, NEW w \in Windows, Take(c, w) PROVE HttpInv' BY <1>8, TakeStep
<1>9. ASSUME NEW c \in Peers, Abort(c) PROVE HttpInv' BY <1>9, AbortStep
<1>10. ASSUME NEW c \in Peers, LoseRequest(c) PROVE HttpInv' BY <1>10, LoseRequestStep
<1>11. ASSUME NEW c \in Peers, LoseReply(c) PROVE HttpInv' BY <1>11, LoseReplyStep
<1>12. ASSUME NEW c \in Peers, NEW dm \in {"header", "body"}, Damage(c, dm)
       PROVE  HttpInv'
  BY <1>12, DamageStep
<1>13. CASE UNCHANGED vars BY <1>13, StutterStep
<1> QED
  BY <1>1, <1>2, <1>3, <1>4, <1>5, <1>6, <1>7, <1>8, <1>9, <1>10, <1>11, <1>12, <1>13
  DEF Next

LEMMA HttpStart ==
    ASSUME Init
    PROVE  HttpInv
<1>1. PICK p \in Peers : p = CHOOSE q \in Peers : TRUE BY UipAssumption
<1>2. PICK t : t = [tcpstateflags |-> "UIP_CLOSED", peer |-> p,
                    rcv_nxt |-> Iss, snd_nxt |-> Iss, len |-> 0, mss |-> 0, initialmss |-> 0,
                    appstate |-> FreshHttp]
  OBVIOUS
<1>3. uip_conns = [i \in 1 .. UIP_CONNS |-> t] BY <1>1, <1>2 DEF Init, uip_init
<1>4. t \in uip_conn
  BY <1>2, SizePositive, UipAssumption, HttpdAssumption
  DEF uip_conn, TcpStates, SeqNo, Iss, http_state, FreshHttp
<1>5. NewClient \in Client BY ClientAssumption, HttpdAssumption DEF NewClient, Client
<1>6. PlacesOK
  <2>1. uip_conns \in [1 .. UIP_CONNS -> uip_conn] BY <1>3, <1>4
  <2>2. arp_table \in [1 .. UIP_ARPTAB_SIZE -> arp_entry]
    BY DEF Init, EmptyTable, arp_entry
  <2>3. client \in [Peers -> Client] BY <1>5 DEF Init
  <2>4. toServer \in [Peers -> Seq(ServerFrame)] /\ toClient \in [Peers -> Seq(ClientFrame)]
    BY DEF Init
  <2>5. faults \in 0 .. MaxFaults BY ClientAssumption DEF Init
  <2> QED BY <2>1, <2>2, <2>3, <2>4, <2>5 DEF PlacesOK
<1>7. /\ t.tcpstateflags = "UIP_CLOSED" /\ t.appstate.pos = 0
      /\ t.appstate.last_sent_len = 0
  BY <1>2 DEF FreshHttp
<1>8. ConnsOK
  <2>1. \A cl : ConnOK(t, cl) BY <1>7, HttpdAssumption DEF ConnOK
  <2> QED BY <1>3, <2>1 DEF ConnsOK
<1>9. OnePeer BY <1>3, <1>7 DEF OnePeer, Active
<1>10. LinksOK
  <2> SUFFICES ASSUME NEW c \in Peers
               PROVE  LinkOK(c, client[c], toServer[c], toClient[c], States(uip_conns, c))
    BY DEF LinksOK
  <2>1. client[c] = NewClient /\ toServer[c] = <<>> /\ toClient[c] = <<>> BY DEF Init
  <2>2. States(uip_conns, c) = {} BY <1>3, <1>7 DEF States
  <2>3. PICK cl : cl = NewClient OBVIOUS
  <2>4. /\ cl.phase = "idle" /\ cl.una = 0 /\ cl.nxt = 0 /\ cl.got = <<>> /\ ~cl.eof
        /\ ~cl.fin /\ ~cl.early
    BY <2>3 DEF NewClient
  <2>5. ClientOK(cl)
    <3>1. Len(cl.got) <= RESPONSE_LEN /\ \A k \in DOMAIN cl.got : cl.got[k] = k
      BY <2>4, HttpdAssumption
    <3> QED BY <2>4, <3>1 DEF ClientOK
  <2>6. NothingFollows(cl, <<>>) BY DEF NothingFollows
  <2>7. ConnectsOnce(cl, <<>>, <<>>, {}) BY <2>4 DEF ConnectsOnce, Ended
  <2>8. LinkOK(c, cl, <<>>, <<>>, {}) BY <2>5, <2>6, <2>7 DEF LinkOK
  <2> QED BY <2>1, <2>2, <2>3, <2>8
<1> QED BY <1>6, <1>8, <1>9, <1>10 DEF HttpInv

\* The invariant of the connections, the links and the clients holds always.
THEOREM HttpInvariance == Spec => []HttpInv
<1>1. Init => HttpInv BY HttpStart
<1>2. HttpInv /\ [Next]_vars => HttpInv' BY HttpStep
<1> QED BY <1>1, <1>2, PTL DEF Spec

\* The tables of uIP and the counts of httpd_appcall() stay within their
\* types for every size of the tables, the page and the requests.
THEOREM Typed == Spec => []TypeOK
<1>1. HttpInv => TypeOK
  <2> SUFFICES ASSUME HttpInv PROVE TypeOK OBVIOUS
  <2>1. PlacesOK BY DEF HttpInv
  <2>2. ASSUME NEW c \in Peers
        PROVE  /\ client[c].got \in Seq(0 .. RESPONSE_LEN)
               /\ [client[c] EXCEPT !.got = <<>>] \in Client
    <3>1. PICK cl \in Client : cl = client[c] BY <2>1 DEF PlacesOK
    <3>2. cl.got \in Seq(0 .. RESPONSE_LEN) BY DEF Client
    <3>3. PICK e : e = <<>> OBVIOUS
    <3>4. e \in Seq(0 .. RESPONSE_LEN) BY <3>3
    <3>5. [cl EXCEPT !.got = e] \in Client BY <3>4 DEF Client
    <3> QED BY <3>1, <3>2, <3>3, <3>5
  <2> QED BY <2>1, <2>2 DEF PlacesOK, TypeOK
<1> QED BY <1>1, HttpInvariance, PTL

\* A client receives the page from its beginning and in order, whatever is
\* lost, repeated or cut into pieces: httpd_appcall() sends the piece at pos
\* again until it is acknowledged (httpd.c, uip.c).
THEOREM Stream == Spec => []StreamIntact
<1>1. HttpInv => StreamIntact
  <2> SUFFICES ASSUME HttpInv, NEW c \in Peers, ~client[c].resized
               PROVE  IsPrefix(client[c].got, hello_response)
    BY DEF StreamIntact
  <2>1. PICK s \in Seq(0 .. RESPONSE_LEN) : s = client[c].got
    BY DEF HttpInv, PlacesOK, Client
  <2>2. Len(s) <= RESPONSE_LEN /\ \A k \in DOMAIN s : s[k] = k
    BY <2>1 DEF HttpInv, LinksOK, LinkOK, ClientOK
  <2>3. hello_response \in Seq(0 .. RESPONSE_LEN) /\ Len(hello_response) = RESPONSE_LEN
        /\ \A k \in 1 .. RESPONSE_LEN : hello_response[k] = k
    BY HttpdAssumption DEF hello_response
  <2>4. SubSeq(s, 1, Len(s)) = SubSeq(hello_response, 1, Len(s))
    BY <2>2, <2>3, HttpdAssumption
  <2> QED BY <2>1, <2>2, <2>3, <2>4 DEF IsPrefix
<1> QED BY <1>1, HttpInvariance, PTL

\* The end of the stream means that all of the page was sent: httpd_appcall()
\* closes only when the last piece is acknowledged.
THEOREM EndOfPage == Spec => []EndMeansAll
<1>1. HttpInv => EndMeansAll
  <2> SUFFICES ASSUME HttpInv, NEW c \in Peers, client[c].eof, ~client[c].early,
                      ~client[c].resized
               PROVE  client[c].got = hello_response
    BY DEF EndMeansAll
  <2>1. PICK s \in Seq(0 .. RESPONSE_LEN) : s = client[c].got
    BY DEF HttpInv, PlacesOK, Client
  <2>2. Len(s) = RESPONSE_LEN /\ \A k \in DOMAIN s : s[k] = k
    BY <2>1 DEF HttpInv, LinksOK, LinkOK, ClientOK
  <2>3. hello_response = s BY <2>2, HttpdAssumption DEF hello_response
  <2> QED BY <2>1, <2>3
<1> QED BY <1>1, HttpInvariance, PTL

\* uip_process() acknowledges no byte that the client has not sent.
THEOREM Acknowledged == Spec => []AcksOnlySent
<1>1. HttpInv => AcksOnlySent BY DEF HttpInv, ConnsOK, ConnOK, Off, Active, AcksOnlySent
<1> QED BY <1>1, HttpInvariance, PTL

\* The echo replies on their way have a correct checksum.
THEOREM Echoed == Spec => []EchoValid
<1>1. HttpInv => EchoValid
  <2> SUFFICES ASSUME HttpInv, NEW c \in Peers, NEW k \in DOMAIN toClient[c],
                      toClient[c][k].type = "echo_reply", toClient[c][k].damage = "none",
                      toClient[c][k].rest # 0
               PROVE  IcmpValid(0, toClient[c][k].rest, toClient[c][k].icmpchksum)
    BY DEF EchoValid
  <2>1. ReplyOK(client[c], toClient[c][k]) BY DEF HttpInv, LinksOK, LinkOK
  <2> QED BY <2>1 DEF ReplyOK
<1> QED BY <1>1, HttpInvariance, PTL

-----------------------------------------------------------------------------
(***************************************************************************)
(* Without faults a client and its connection stay in step, and no segment *)
(* of an open connection meets a server that has forgotten it.  The server *)
(* forgets a connection when it gives its entry in TIME_WAIT to another    *)
(* client, so what counts is that nothing is on its way any more by then.  *)
(***************************************************************************)
\* A reply that takes sequence numbers, which the client acknowledges, and
\* how many it takes.
Counts(f) == HasData(f) \/ Flagged(f, "SYN") \/ Flagged(f, "FIN")
Size(f) == Len(f.data) + One("SYN" \in f.flags) + One("FIN" \in f.flags)

\* A frame f on its way from client cl.  The FIN of a client acknowledges
\* all that the server has sent and follows all that the client has.
Orderly(cl, f) ==
    f.type = "tcp" =>
       /\ "RST" \notin f.flags /\ ("SYN" \in f.flags \/ "ACK" \in f.flags)
       /\ "SYN" \in f.flags => cl.phase = "syn"
       /\ "ACK" \in f.flags => f.ackno <= RcvNxt(cl)
       /\ "FIN" \in f.flags => /\ "ACK" \in f.flags /\ f.ackno = RcvNxt(cl)
                               /\ Off(f.seqno) + f.len + 1 = cl.nxt

\* A frame f on its way to client cl.
Expected(cl, f) ==
    f.type = "tcp" =>
       /\ cl.phase \in {"syn", "open"} /\ "RST" \notin f.flags
       /\ "SYN" \in f.flags => cl.phase = "syn" /\ f.data = <<>> /\ "FIN" \notin f.flags
       /\ "FIN" \in f.flags => ~cl.eof

\* Acknowledgements do not go back, and nothing follows a FIN.
InTurn(qs) ==
    \A j, k \in DOMAIN qs : j < k =>
       /\ Flagged(qs[j], "FIN") => qs[k].type # "tcp"
       /\ Flagged(qs[j], "SYN") => ~Flagged(qs[k], "SYN")
       /\ Flagged(qs[j], "ACK") /\ Flagged(qs[k], "ACK") => qs[j].ackno <= qs[k].ackno

\* The server sends one SYN, before all else that counts, and one FIN.
OnceOnly(qc) ==
    \A j, k \in DOMAIN qc : j # k =>
       /\ Flagged(qc[j], "SYN") => ~Counts(qc[k])
       /\ Flagged(qc[j], "FIN") => ~Flagged(qc[k], "FIN")

Calm(cl, qs, qc) ==
    /\ cl.phase # "reset" /\ ~cl.early
    /\ \A k \in DOMAIN qs : Orderly(cl, qs[k])
    /\ \A k \in DOMAIN qc : Expected(cl, qc[k])
    /\ InTurn(qs) /\ OnceOnly(qc)
    /\ \A j \in DOMAIN qs, k \in DOMAIN qc : Flagged(qs[j], "SYN") => ~Counts(qc[k])

\* A reply that acknowledges all that the client has sent, and is in order.
AcksAll(cl, f) ==
    f.type = "tcp" /\ Off(f.ackno) = cl.nxt /\ f.seqno = RcvNxt(cl)

\* The client has finished: nothing of it is on its way, and it will send
\* nothing again.
Done(cl, qs, qc) ==
    /\ cl.phase = "open" /\ cl.fin /\ cl.eof
    /\ \A k \in DOMAIN qs : qs[k].type # "tcp"
    /\ cl.una = cl.nxt \/ \E k \in DOMAIN qc : AcksAll(cl, qc[k])

\* What is on its way is old, or what connection t has outstanding.
Due(cl, t, f) ==
    \/ f.seqno < RcvNxt(cl)
    \/ f.seqno = t.snd_nxt /\ RcvNxt(cl) = t.snd_nxt /\ Size(f) = t.len

\* Connection t is in step with its client: the client has all that t has
\* sent, or all but what is outstanding.  In CLOSING it stays, because
\* only numbers that have wrapped around lead there.
Sync(cl, qs, qc, t) ==
    /\ t.tcpstateflags # "UIP_LAST_ACK"
    /\ RcvNxt(cl) \in {t.snd_nxt, t.snd_nxt + t.len}
    /\ \A k \in DOMAIN qs : Flagged(qs[k], "ACK") =>
          qs[k].ackno \in {t.snd_nxt, t.snd_nxt + t.len}
    /\ \A k \in DOMAIN qc : Counts(qc[k]) => Due(cl, t, qc[k])
    /\ t.tcpstateflags = "UIP_FIN_WAIT_1" =>
          t.len = 1 /\ (cl.eof => RcvNxt(cl) = t.snd_nxt + 1)
    /\ t.tcpstateflags = "UIP_FIN_WAIT_2" => t.len = 0
    /\ t.tcpstateflags = "UIP_CLOSING" => t.len = 1 /\ t.snd_nxt + 1 >= Size32
    /\ t.tcpstateflags = "UIP_TIME_WAIT" => Done(cl, qs, qc)

\* The server has accepted the client.
Accepted(cl, qc) ==
    cl.phase = "open" \/ \E k \in DOMAIN qc : Flagged(qc[k], "SYN")

ConnsOf(conns, c) ==
    {conns[i] : i \in {j \in DOMAIN conns :
        conns[j].tcpstateflags # "UIP_CLOSED" /\ conns[j].peer = c}}

\* A client with its connections T: the server forgets it when it is done.
InStep(cl, qs, qc, T) ==
    /\ Calm(cl, qs, qc)
    /\ Accepted(cl, qc) => T # {} \/ Done(cl, qs, qc)
    /\ \A t \in T : Sync(cl, qs, qc, t)

\* The hosts that replies are sent to have room in the ARP table, so that no
\* reply is replaced by an ARP request.
NextHops == {NextHop[c] : c \in Peers}
EnoughEntries == IsFiniteSet(NextHops) /\ Cardinality(NextHops) <= UIP_ARPTAB_SIZE

ArpOK(table) ==
    /\ \A i \in DOMAIN table : table[i] \in NextHops \cup {NoHost}
    /\ \A i, j \in DOMAIN table : table[i] = table[j] /\ table[i] # NoHost => i = j

\* The host of a client that has seen an ARP reply is known.
Resolved(table, c, cl, qc) ==
    \/ cl.phase \notin {"idle", "arp"}
    \/ \E k \in DOMAIN qc : qc[k].type = "arp_reply"
    => uip_arp_out(table, NextHop[c])

StepInv ==
    /\ ArpOK(arp_table)
    /\ \A c \in Peers : Resolved(arp_table, c, client[c], toClient[c])
    /\ faults = 0 =>
          \A c \in Peers : InStep(client[c], toServer[c], toClient[c], ConnsOf(uip_conns, c))

\* A host is entered, and no other is forgotten.
LEMMA ArpUpdated ==
    ASSUME EnoughEntries, NEW table \in [1 .. UIP_ARPTAB_SIZE -> arp_entry], ArpOK(table),
           NEW h \in NextHops, NEW new, new = uip_arp_update(table, h)
    PROVE  /\ ArpOK(new) /\ uip_arp_out(new, h)
           /\ \A g : g # NoHost /\ uip_arp_out(table, g) => uip_arp_out(new, g)
<1>1. CASE Known(table, h) # {}
  BY <1>1 DEF uip_arp_update, uip_arp_out
<1>2. CASE Known(table, h) = {}
  <2> DEFINE N == UIP_ARPTAB_SIZE
             free == Known(table, NoHost)
  <2>1. N \in Nat /\ N > 0 /\ DOMAIN table = 1 .. N /\ h # NoHost
    <3>1. h \in Hosts BY ClientAssumption DEF NextHops
    <3> QED BY <3>1, ArpAssumption
  <2>2. free # {}
    <3>1. SUFFICES ASSUME free = {} PROVE FALSE OBVIOUS
    <3>2. PICK H : H = NextHops \ {h} OBVIOUS
    <3>3. IsFiniteSet(H) /\ Cardinality(H) = Cardinality(NextHops) - 1
      BY <3>2, FS_RemoveElement DEF EnoughEntries
    <3>4. PICK n : n = Cardinality(NextHops) OBVIOUS
    <3>5. n \in Nat /\ n <= N BY <3>4, FS_CardinalityType DEF EnoughEntries
    <3>6. IsFiniteSet(1 .. N) /\ Cardinality(1 .. N) = N BY <2>1, FS_Interval
    <3>7. \A i \in 1 .. N : table[i] \in H
      BY <1>2, <2>1, <3>1, <3>2 DEF ArpOK, Known
    <3>8. \A i, j \in 1 .. N : table[i] = table[j] => i = j
      BY <2>1, <3>1 DEF ArpOK, Known
    <3>9. table \in [1 .. N -> H] BY <3>7
    <3>10. Cardinality(H) < Cardinality(1 .. N) BY <2>1, <3>3, <3>4, <3>5, <3>6
    <3>11. \E i, j \in 1 .. N : i # j /\ table[i] = table[j]
      BY <3>3, <3>6, <3>9, <3>10, FS_PigeonHole
    <3> QED BY <3>8, <3>11
  <2>3. PICK i \in 1 .. N : i = Min(free) /\ table[i] = NoHost
    <3>1. free \in SUBSET Nat BY <2>1 DEF Known
    <3>2. Min(free) \in free BY <2>2, <3>1, MinIn
    <3> QED BY <2>1, <3>2 DEF Known
  <2>4. new = [table EXCEPT ![i] = h] BY <1>2, <2>2, <2>3 DEF uip_arp_update
  <2> HIDE DEF N
  <2>5. DOMAIN new = 1 .. N /\ new[i] = h /\ \A j \in 1 .. N : j # i => new[j] = table[j]
    BY <2>1, <2>3, <2>4
  <2>6. \A j \in 1 .. N : table[j] # h BY <1>2, <2>1 DEF Known
  <2>7. ArpOK(new) BY <2>1, <2>5, <2>6 DEF ArpOK
  <2>8. uip_arp_out(new, h) BY <2>5, <2>3 DEF uip_arp_out, Known
  <2>9. ASSUME NEW g, g # NoHost, uip_arp_out(table, g) PROVE uip_arp_out(new, g)
    BY <2>1, <2>3, <2>5, <2>9 DEF uip_arp_out, Known
  <2> QED BY <2>7, <2>8, <2>9
<1> QED BY <1>1, <1>2

LEMMA RcvNat ==
    ASSUME NEW cl \in Client PROVE RcvNxt(cl) \in Nat
<1>1. PICK n \in Nat : n = Len(cl.got) BY DEF Client
<1>2. PICK e : e = cl.eof OBVIOUS
<1>3. RcvNxt(cl) = IF cl.phase = "open" THEN 1 + n + (IF e THEN 1 ELSE 0) ELSE 0
  BY <1>1, <1>2 DEF RcvNxt, Iss
<1> QED BY <1>3

\* What the other invariant says of a calm client.
LEMMA LinkFacts ==
    ASSUME NEW c, NEW cl \in Client, NEW qs, NEW qc, NEW S, LinkOK(c, cl, qs, qc, S),
           Calm(cl, qs, qc)
    PROVE  /\ ClientOK(cl) /\ (cl.fin => cl.eof)
           /\ cl.phase # "open" => ~cl.eof /\ ~cl.fin /\ cl.got = <<>>
           /\ \A k \in DOMAIN qs : Flagged(qs[k], "ACK") => cl.phase = "open"
           /\ \A k \in DOMAIN qs : Flagged(qs[k], "FIN") => cl.fin
           /\ cl.eof => \A k \in DOMAIN qc : ~Counts(qc[k])
<1>1. ClientOK(cl) /\ cl.phase # "reset" /\ ~cl.early BY DEF LinkOK, Calm
<1>2. cl.fin => cl.eof BY <1>1 DEF ClientOK
<1>3. cl.phase # "open" => ~cl.eof /\ ~cl.fin /\ cl.got = <<>> BY <1>1 DEF ClientOK
<1>4. ASSUME NEW k \in DOMAIN qs
      PROVE  /\ Flagged(qs[k], "ACK") => cl.phase = "open"
             /\ Flagged(qs[k], "FIN") => cl.fin
  <2>1. SentOK(c, cl, qs[k]) BY DEF LinkOK
  <2> QED BY <1>1, <2>1 DEF SentOK, Flagged
<1>5. ASSUME cl.eof, NEW k \in DOMAIN qc PROVE ~Counts(qc[k])
  <2>1. ~HasData(qc[k]) BY <1>5 DEF LinkOK, NothingFollows
  <2>2. Expected(cl, qc[k]) BY DEF Calm
  <2>3. cl.phase = "open" BY <1>3, <1>5
  <2> QED BY <1>5, <2>1, <2>2, <2>3 DEF Counts, Expected, Flagged
<1> QED BY <1>1, <1>2, <1>3, <1>4, <1>5

\* A frame of the client is served or lost.
LEMMA DropRequest ==
    ASSUME NEW cl, NEW qs \in Seq(ServerFrame), qs # <<>>, NEW qc, NEW T,
           InStep(cl, qs, qc, T), NEW r, r = Tail(qs)
    PROVE  InStep(cl, r, qc, T)
<1>1. \A k \in DOMAIN r : k \in Nat /\ k + 1 \in DOMAIN qs /\ r[k] = qs[k + 1]
  BY TailFrames
<1>2. Calm(cl, qs, qc) BY DEF InStep
<1>3. Calm(cl, r, qc)
  <2>1. InTurn(r)
    <3>1. ASSUME NEW j \in DOMAIN r, NEW k \in DOMAIN r, j < k
          PROVE  j + 1 < k + 1 /\ j + 1 \in DOMAIN qs /\ k + 1 \in DOMAIN qs
                 /\ r[j] = qs[j + 1] /\ r[k] = qs[k + 1]
      BY <1>1, <3>1
    <3> QED BY <1>2, <3>1 DEF Calm, InTurn
  <2>2. \A k \in DOMAIN r : Orderly(cl, r[k]) BY <1>1, <1>2 DEF Calm
  <2>3. \A j \in DOMAIN r, k \in DOMAIN qc : Flagged(r[j], "SYN") => ~Counts(qc[k])
    BY <1>1, <1>2 DEF Calm
  <2> QED BY <1>2, <2>1, <2>2, <2>3 DEF Calm
<1>4. Done(cl, qs, qc) => Done(cl, r, qc) BY <1>1 DEF Done
<1>5. ASSUME NEW t \in T PROVE Sync(cl, r, qc, t)
  <2>1. Sync(cl, qs, qc, t) BY DEF InStep
  <2>2. \A k \in DOMAIN r : Flagged(r[k], "ACK") =>
          r[k].ackno \in {t.snd_nxt, t.snd_nxt + t.len}
    BY <1>1, <2>1 DEF Sync
  <2> QED BY <1>4, <2>1, <2>2 DEF Sync
<1> QED BY <1>3, <1>4, <1>5 DEF InStep

\* A frame that is no segment is sent to the server.
LEMMA AddRequest ==
    ASSUME NEW cl, NEW qs \in Seq(ServerFrame), NEW qc, NEW T, InStep(cl, qs, qc, T),
           NEW f \in ServerFrame, f.type # "tcp", NEW r, r = Append(qs, f)
    PROVE  InStep(cl, r, qc, T)
<1>1. /\ \A k \in DOMAIN r : \/ k \in DOMAIN qs /\ r[k] = qs[k]
                             \/ k = Len(qs) + 1 /\ r[k] = f
      /\ \A k \in DOMAIN qs : k \in Nat /\ k < Len(qs) + 1
      /\ Len(qs) \in Nat
  BY AppendFrame
<1>2. Calm(cl, qs, qc) /\ \A flag : ~Flagged(f, flag) BY DEF InStep, Flagged
<1>3. Calm(cl, r, qc)
  <2>1. InTurn(r)
    <3>1. SUFFICES ASSUME NEW j \in DOMAIN r, NEW k \in DOMAIN r, j < k
                   PROVE  /\ Flagged(r[j], "FIN") => r[k].type # "tcp"
                          /\ Flagged(r[j], "SYN") => ~Flagged(r[k], "SYN")
                          /\ Flagged(r[j], "ACK") /\ Flagged(r[k], "ACK") =>
                                r[j].ackno <= r[k].ackno
      BY DEF InTurn
    <3>2. CASE j \in DOMAIN qs /\ k \in DOMAIN qs
      BY <1>1, <1>2, <3>1, <3>2 DEF Calm, InTurn
    <3>3. CASE r[j] = f \/ r[k] = f BY <1>2, <3>3
    <3> QED BY <1>1, <3>2, <3>3
  <2>2. \A k \in DOMAIN r : Orderly(cl, r[k]) BY <1>1, <1>2 DEF Calm, Orderly
  <2>3. \A j \in DOMAIN r, k \in DOMAIN qc : Flagged(r[j], "SYN") => ~Counts(qc[k])
    BY <1>1, <1>2 DEF Calm
  <2> QED BY <1>2, <2>1, <2>2, <2>3 DEF Calm
<1>4. Done(cl, qs, qc) => Done(cl, r, qc) BY <1>1 DEF Done
<1>5. ASSUME NEW t \in T PROVE Sync(cl, r, qc, t)
  <2>1. Sync(cl, qs, qc, t) BY DEF InStep
  <2>2. \A k \in DOMAIN r : Flagged(r[k], "ACK") =>
          r[k].ackno \in {t.snd_nxt, t.snd_nxt + t.len}
    BY <1>1, <1>2, <2>1 DEF Sync
  <2> QED BY <1>4, <2>1, <2>2 DEF Sync
<1> QED BY <1>3, <1>4, <1>5 DEF InStep

\* A frame that takes no sequence numbers is sent to the client.
LEMMA AddReply ==
    ASSUME NEW cl, NEW qs, NEW qc \in Seq(ClientFrame), NEW T, InStep(cl, qs, qc, T),
           NEW f \in ClientFrame, ~Counts(f), Expected(cl, f), NEW r, r = Append(qc, f)
    PROVE  InStep(cl, qs, r, T)
<1>1. /\ \A k \in DOMAIN r : \/ k \in DOMAIN qc /\ r[k] = qc[k]
                             \/ k = Len(qc) + 1 /\ r[k] = f
      /\ \A k \in DOMAIN qc : k \in Nat /\ k < Len(qc) + 1
      /\ Len(qc) \in Nat
  BY AppendFrame
<1>2. Calm(cl, qs, qc) /\ ~Flagged(f, "SYN") /\ ~Flagged(f, "FIN") BY DEF InStep, Counts
<1>3. Calm(cl, qs, r)
  <2>1. OnceOnly(r)
    <3>1. SUFFICES ASSUME NEW j \in DOMAIN r, NEW k \in DOMAIN r, j # k
                   PROVE  /\ Flagged(r[j], "SYN") => ~Counts(r[k])
                          /\ Flagged(r[j], "FIN") => ~Flagged(r[k], "FIN")
      BY DEF OnceOnly
    <3>2. CASE j \in DOMAIN qc /\ k \in DOMAIN qc
      BY <1>1, <1>2, <3>1, <3>2 DEF Calm, OnceOnly
    <3>3. CASE r[j] = f \/ r[k] = f BY <1>2, <3>3
    <3> QED BY <1>1, <3>2, <3>3
  <2>2. \A k \in DOMAIN r : Expected(cl, r[k]) BY <1>1, <1>2 DEF Calm
  <2>3. \A j \in DOMAIN qs, k \in DOMAIN r : Flagged(qs[j], "SYN") => ~Counts(r[k])
    BY <1>1, <1>2 DEF Calm
  <2> QED BY <1>2, <2>1, <2>2, <2>3 DEF Calm
<1>4. Done(cl, qs, qc) => Done(cl, qs, r)
  <2>1. \A k \in DOMAIN qc : k \in DOMAIN r /\ r[k] = qc[k] OBVIOUS
  <2> QED BY <2>1 DEF Done
<1>5. ASSUME NEW t \in T PROVE Sync(cl, qs, r, t)
  <2>1. Sync(cl, qs, qc, t) BY DEF InStep
  <2>2. \A k \in DOMAIN r : Counts(r[k]) => Due(cl, t, r[k])
    BY <1>1, <1>2, <2>1 DEF Sync
  <2> QED BY <1>4, <2>1, <2>2 DEF Sync
<1>6. Accepted(cl, r) => Accepted(cl, qc) BY <1>1, <1>2 DEF Accepted
<1> QED BY <1>3, <1>4, <1>5, <1>6 DEF InStep

\* A frame that tells the client nothing is taken.
LEMMA DropReply ==
    ASSUME NEW cl, NEW qs, NEW qc \in Seq(ClientFrame), qc # <<>>, NEW T,
           InStep(cl, qs, qc, T),
           cl.phase = "open" /\ AcksAll(cl, Head(qc)) => cl.una = cl.nxt,
           NEW r, r = Tail(qc)
    PROVE  InStep(cl, qs, r, T)
<1>1. \A k \in DOMAIN r : k \in Nat /\ k + 1 \in DOMAIN qc /\ r[k] = qc[k + 1]
  BY TailFrames
<1>2. Calm(cl, qs, qc) BY DEF InStep
<1>3. Calm(cl, qs, r)
  <2>1. OnceOnly(r)
    <3>1. ASSUME NEW j \in DOMAIN r, NEW k \in DOMAIN r, j # k
          PROVE  j + 1 # k + 1 /\ j + 1 \in DOMAIN qc /\ k + 1 \in DOMAIN qc
                 /\ r[j] = qc[j + 1] /\ r[k] = qc[k + 1]
      BY <1>1, <3>1
    <3> QED BY <1>2, <3>1 DEF Calm, OnceOnly
  <2>2. \A k \in DOMAIN r : Expected(cl, r[k]) BY <1>1, <1>2 DEF Calm
  <2>3. \A j \in DOMAIN qs, k \in DOMAIN r : Flagged(qs[j], "SYN") => ~Counts(r[k])
    BY <1>1, <1>2 DEF Calm
  <2> QED BY <1>2, <2>1, <2>2, <2>3 DEF Calm
<1>4. Done(cl, qs, qc) => Done(cl, qs, r)
  <2>1. ASSUME NEW k \in DOMAIN qc, AcksAll(cl, qc[k]), cl.una # cl.nxt, cl.phase = "open"
        PROVE  \E j \in DOMAIN r : AcksAll(cl, r[j])
    <3>1. k # 1 BY <2>1
    <3>2. k - 1 \in DOMAIN r /\ r[k - 1] = qc[k] BY <3>1
    <3> QED BY <2>1, <3>2
  <2> QED BY <2>1 DEF Done
<1>5. ASSUME NEW t \in T PROVE Sync(cl, qs, r, t)
  <2>1. Sync(cl, qs, qc, t) BY DEF InStep
  <2>2. \A k \in DOMAIN r : Counts(r[k]) => Due(cl, t, r[k])
    BY <1>1, <2>1 DEF Sync
  <2> QED BY <1>4, <2>1, <2>2 DEF Sync
<1>6. Accepted(cl, r) => Accepted(cl, qc) BY <1>1 DEF Accepted
<1> QED BY <1>3, <1>4, <1>5, <1>6 DEF InStep

\* A client of which the server and the links see the same: it connects not
\* yet, or it only hears that more of what it sent has arrived.
LEMMA SameView ==
    ASSUME NEW cl, NEW cl1, NEW qs, NEW qc, NEW T, InStep(cl, qs, qc, T),
           \/ cl1.phase = cl.phase
           \/ {cl.phase, cl1.phase} \subseteq {"idle", "arp", "resolved", "pinged"},
           cl1.nxt = cl.nxt, cl1.got = cl.got, cl1.eof = cl.eof, cl1.fin = cl.fin,
           cl1.early = cl.early, cl.una = cl.nxt => cl1.una = cl1.nxt
    PROVE  InStep(cl1, qs, qc, T)
<1>1. RcvNxt(cl1) = RcvNxt(cl) BY DEF RcvNxt
<1>2. Calm(cl, qs, qc) BY DEF InStep
<1>3. Calm(cl1, qs, qc)
  <2>1. \A k \in DOMAIN qs : Orderly(cl1, qs[k]) BY <1>1, <1>2 DEF Calm, Orderly
  <2>2. \A k \in DOMAIN qc : Expected(cl1, qc[k]) BY <1>2 DEF Calm, Expected
  <2> QED BY <1>2, <2>1, <2>2 DEF Calm
<1>4. Done(cl, qs, qc) => Done(cl1, qs, qc) BY <1>1 DEF Done, AcksAll
<1>5. ASSUME NEW t \in T PROVE Sync(cl1, qs, qc, t)
  <2>1. Sync(cl, qs, qc, t) BY DEF InStep
  <2>2. \A k \in DOMAIN qc : Counts(qc[k]) => Due(cl1, t, qc[k])
    BY <1>1, <2>1 DEF Sync, Due
  <2> QED BY <1>1, <1>4, <2>1, <2>2 DEF Sync
<1>6. Accepted(cl1, qc) => Accepted(cl, qc) BY DEF Accepted
<1> QED BY <1>3, <1>4, <1>5, <1>6 DEF InStep

\* A client with an open connection sends a segment.
LEMMA SendOpen ==
    ASSUME NEW cl \in Client, NEW cl1 \in Client, NEW qs \in Seq(ServerFrame), NEW qc, NEW T,
           InStep(cl, qs, qc, T), ~Done(cl, qs, qc),
           cl.phase = "open", cl1.phase = "open", cl1.got = cl.got, cl1.eof = cl.eof,
           cl1.early = cl.early, \A k \in DOMAIN qs : ~Flagged(qs[k], "FIN"),
           NEW f \in ServerFrame, f.type = "tcp", "ACK" \in f.flags, "SYN" \notin f.flags,
           "RST" \notin f.flags, f.ackno = RcvNxt(cl),
           "FIN" \in f.flags => Off(f.seqno) + f.len + 1 = cl1.nxt,
           NEW r, r = Append(qs, f)
    PROVE  InStep(cl1, r, qc, T)
<1>1. /\ \A k \in DOMAIN r : \/ k \in DOMAIN qs /\ r[k] = qs[k]
                             \/ k = Len(qs) + 1 /\ r[k] = f
      /\ \A k \in DOMAIN qs : k \in Nat /\ k < Len(qs) + 1
      /\ Len(qs) \in Nat
  BY AppendFrame
<1>2. Calm(cl, qs, qc) BY DEF InStep
<1>3. RcvNxt(cl1) = RcvNxt(cl) /\ RcvNxt(cl) \in Nat BY RcvNat DEF RcvNxt
<1>4. \A k \in DOMAIN qs : ~Flagged(qs[k], "SYN")
  BY <1>2 DEF Calm, Orderly, Flagged
<1>5. \A k \in DOMAIN qs : Flagged(qs[k], "ACK") => qs[k].ackno <= f.ackno
  BY <1>2 DEF Calm, Orderly, Flagged
<1>6. Calm(cl1, r, qc)
  <2>1. InTurn(r)
    <3>1. SUFFICES ASSUME NEW j \in DOMAIN r, NEW k \in DOMAIN r, j < k
                   PROVE  /\ Flagged(r[j], "FIN") => r[k].type # "tcp"
                          /\ Flagged(r[j], "SYN") => ~Flagged(r[k], "SYN")
                          /\ Flagged(r[j], "ACK") /\ Flagged(r[k], "ACK") =>
                                r[j].ackno <= r[k].ackno
      BY DEF InTurn
    <3>2. j \in DOMAIN qs /\ r[j] = qs[j] BY <1>1, <3>1
    <3>3. CASE k \in DOMAIN qs
      BY <1>1, <1>2, <3>1, <3>2, <3>3 DEF Calm, InTurn
    <3>4. CASE r[k] = f BY <1>4, <1>5, <3>2, <3>4
    <3> QED BY <1>1, <3>3, <3>4
  <2>2. ASSUME NEW k \in DOMAIN r PROVE Orderly(cl1, r[k])
    <3>1. CASE k \in DOMAIN qs /\ r[k] = qs[k]
      <4>1. Orderly(cl, qs[k]) /\ ~Flagged(qs[k], "FIN") BY <1>2, <3>1 DEF Calm
      <4> QED BY <1>3, <3>1, <4>1 DEF Orderly, Flagged
    <3>2. CASE r[k] = f BY <1>3, <3>2 DEF Orderly
    <3> QED BY <1>1, <3>1, <3>2
  <2>3. \A k \in DOMAIN qc : Expected(cl1, qc[k]) BY <1>2 DEF Calm, Expected
  <2>4. \A j \in DOMAIN r : ~Flagged(r[j], "SYN") BY <1>1, <1>4 DEF Flagged
  <2> QED BY <1>2, <2>1, <2>2, <2>3, <2>4 DEF Calm
<1>7. T # {} BY DEF InStep, Accepted
<1>8. ASSUME NEW t \in T PROVE Sync(cl1, r, qc, t)
  <2>1. Sync(cl, qs, qc, t) BY DEF InStep
  <2>2. \A k \in DOMAIN qc : Counts(qc[k]) => Due(cl1, t, qc[k])
    BY <1>3, <2>1 DEF Sync, Due
  <2>3. \A k \in DOMAIN r : Flagged(r[k], "ACK") =>
          r[k].ackno \in {t.snd_nxt, t.snd_nxt + t.len}
    BY <1>1, <2>1 DEF Sync
  <2> QED BY <1>3, <2>1, <2>2, <2>3 DEF Sync
<1> QED BY <1>6, <1>7, <1>8 DEF InStep

\* A client connects, or tries it again.
LEMMA SendSyn ==
    ASSUME NEW cl \in Client, NEW cl1 \in Client, NEW qs \in Seq(ServerFrame), NEW qc, NEW T,
           InStep(cl, qs, qc, T), cl.phase # "open", cl1.phase = "syn", cl1.eof = cl.eof,
           cl1.early = cl.early, \A k \in DOMAIN qs : qs[k].type # "tcp",
           \A k \in DOMAIN qc : qc[k].type # "tcp",
           NEW f \in ServerFrame, f.type = "tcp", f.flags = {"SYN"},
           NEW r, r = Append(qs, f)
    PROVE  InStep(cl1, r, qc, T)
<1>1. /\ \A k \in DOMAIN r : \/ k \in DOMAIN qs /\ r[k] = qs[k]
                             \/ k = Len(qs) + 1 /\ r[k] = f
      /\ \A k \in DOMAIN qs : k \in Nat /\ k < Len(qs) + 1
      /\ Len(qs) \in Nat
  BY AppendFrame
<1>2. Calm(cl, qs, qc) BY DEF InStep
<1>3. RcvNxt(cl1) = RcvNxt(cl) BY DEF RcvNxt
<1>4. \A k \in DOMAIN qc : ~Counts(qc[k]) BY DEF Counts, HasData, Flagged
<1>5. Calm(cl1, r, qc)
  <2>1. InTurn(r)
    <3>1. SUFFICES ASSUME NEW j \in DOMAIN r, NEW k \in DOMAIN r, j < k
                   PROVE  \A flag : ~Flagged(r[j], flag)
      BY DEF InTurn
    <3>2. j \in DOMAIN qs /\ r[j] = qs[j] BY <1>1, <3>1
    <3> QED BY <3>2 DEF Flagged
  <2>2. \A k \in DOMAIN r : Orderly(cl1, r[k]) BY <1>1 DEF Orderly
  <2>3. \A k \in DOMAIN qc : Expected(cl1, qc[k]) BY DEF Expected
  <2> QED BY <1>2, <1>4, <2>1, <2>2, <2>3 DEF Calm
<1>6. ASSUME NEW t \in T PROVE Sync(cl1, r, qc, t)
  <2>1. Sync(cl, qs, qc, t) BY DEF InStep
  <2>2. \A k \in DOMAIN r : ~Flagged(r[k], "ACK") BY <1>1 DEF Flagged
  <2>3. t.tcpstateflags # "UIP_TIME_WAIT" BY <2>1 DEF Sync, Done
  <2> QED BY <1>3, <1>4, <2>1, <2>2, <2>3 DEF Sync
<1>7. ~Accepted(cl1, qc) BY DEF Accepted, Flagged
<1> QED BY <1>5, <1>6, <1>7 DEF InStep

\* A client takes the SYN of the server.
LEMMA TakeSyn ==
    ASSUME NEW c, NEW cl \in Client, NEW qs, NEW qc \in Seq(ClientFrame), qc # <<>>,
           NEW S, NEW T, LinkOK(c, cl, qs, qc, S), InStep(cl, qs, qc, T),
           T \subseteq uip_conn, cl.phase = "syn", NEW f, f = Head(qc), Flagged(f, "SYN"),
           NEW cl1, cl1 = [cl EXCEPT !.phase = "open", !.una = 1], NEW r, r = Tail(qc)
    PROVE  InStep(cl1, qs, r, T)
<1>1. \A k \in DOMAIN r : k \in Nat /\ k >= 1 /\ k + 1 \in DOMAIN qc /\ r[k] = qc[k + 1]
  BY TailFrames
<1>2. f = qc[1] /\ 1 \in DOMAIN qc /\ f \in ClientFrame BY TailFrames
<1>3. Calm(cl, qs, qc) BY DEF InStep
<1>4. /\ ~cl.eof /\ ~cl.fin /\ cl.got = <<>>
      /\ \A k \in DOMAIN qs : ~Flagged(qs[k], "ACK")
  BY <1>3, LinkFacts
<1>5. /\ cl1.phase = "open" /\ cl1.eof = cl.eof /\ cl1.got = cl.got /\ cl1.early = cl.early
      /\ cl1.fin = cl.fin
  BY DEF Client
<1>6. RcvNxt(cl) = 0 /\ RcvNxt(cl1) = 1
  <2>1. RcvNxt(cl) = 0 BY DEF RcvNxt, Iss
  <2>2. Len(cl1.got) = 0 /\ ~cl1.eof BY <1>4, <1>5
  <2>3. RcvNxt(cl1) = 1 + 0 + 0 BY <1>5, <2>2 DEF RcvNxt
  <2> QED BY <2>1, <2>3
<1>7. Counts(f) /\ \A k \in DOMAIN r : ~Counts(r[k])
  <2>1. ASSUME NEW k \in DOMAIN r PROVE ~Counts(r[k])
    <3>1. k + 1 # 1 BY <1>1
    <3> QED BY <1>1, <1>2, <1>3, <3>1 DEF Calm, OnceOnly
  <2> QED BY <2>1 DEF Counts
<1>8. \A k \in DOMAIN qs : qs[k].type # "tcp"
  <2>1. \A k \in DOMAIN qs : ~Flagged(qs[k], "SYN") BY <1>2, <1>3, <1>7 DEF Calm
  <2> QED BY <1>3, <1>4, <2>1 DEF Calm, Orderly, Flagged
<1>9. Calm(cl1, qs, r)
  <2>1. InTurn(qs) BY <1>3 DEF Calm
  <2>2. OnceOnly(r) BY <1>7 DEF OnceOnly, Counts
  <2>3. \A k \in DOMAIN qs : Orderly(cl1, qs[k]) BY <1>8 DEF Orderly
  <2>4. ASSUME NEW k \in DOMAIN r PROVE Expected(cl1, r[k])
    <3>1. Expected(cl, r[k]) /\ ~Counts(r[k]) BY <1>1, <1>3, <1>7 DEF Calm
    <3> QED BY <1>5, <3>1 DEF Expected, Counts, Flagged
  <2> QED BY <1>3, <1>5, <1>7, <2>1, <2>2, <2>3, <2>4 DEF Calm
<1>10. ~Done(cl, qs, qc) BY DEF Done
<1>11. T # {} BY <1>2, <1>10 DEF InStep, Accepted
<1>12. Size(f) = 1
  <2>1. Expected(cl, f) BY <1>2, <1>3 DEF Calm
  <2>2. Len(f.data) = 0 /\ "SYN" \in f.flags /\ "FIN" \notin f.flags
    BY <2>1 DEF Expected, Flagged
  <2>3. Size(f) = 0 + 1 + 0 BY <2>2 DEF Size, One
  <2> QED BY <2>3
<1>13. ASSUME NEW t \in T PROVE Sync(cl1, qs, r, t)
  <2>1. Sync(cl, qs, qc, t) BY DEF InStep
  <2>2. Due(cl, t, f) BY <1>2, <1>7, <2>1 DEF Sync
  <2>3. f.seqno \in Nat
    BY <1>2 DEF ClientFrame, ClientSegment, PlainFrame, EchoFrame, Flagged
  <2>4. t.snd_nxt = 0 /\ t.len = 1 BY <1>6, <1>12, <2>2, <2>3 DEF Due
  <2> QED BY <1>4, <1>5, <1>6, <1>7, <1>10, <2>1, <2>4 DEF Sync
<1> QED BY <1>9, <1>11, <1>13 DEF InStep

\* What a client that is connected makes of a segment f.
Heard(cl, f, cl1) ==
    /\ cl1.phase = "open" /\ cl1.nxt = cl.nxt /\ cl1.fin = cl.fin /\ cl1.early = cl.early
    /\ cl.una = cl.nxt \/ AcksAll(cl, f) => cl1.una = cl1.nxt
    /\ f.seqno # RcvNxt(cl) => cl1 = cl
    /\ f.seqno = RcvNxt(cl) => /\ cl1.got = cl.got \o f.data
                               /\ cl1.eof = (cl.eof \/ "FIN" \in f.flags)

LEMMA ReceivedFields ==
    ASSUME NEW cl \in Client, cl.phase = "open", cl.una <= cl.nxt, NEW f \in ClientSegment,
           "RST" \notin f.flags, NEW cl1, cl1 = Received(cl, f)
    PROVE  Heard(cl, f, cl1)
<1>1. CASE f.seqno # RcvNxt(cl)
  <2>1. cl1 = cl BY <1>1 DEF Received
  <2> QED BY <1>1, <2>1 DEF Heard, AcksAll
<1>2. CASE f.seqno = RcvNxt(cl)
  <2>1. PICK n : n = Off(f.ackno) OBVIOUS
  <2>2. PICK v : v = IF n \in cl.una .. cl.nxt THEN [cl EXCEPT !.una = n] ELSE cl OBVIOUS
  <2>3. cl1 = [v EXCEPT !.got = @ \o f.data, !.eof = @ \/ "FIN" \in f.flags]
    BY <1>2, <2>1, <2>2 DEF Received, Off
  <2>4. cl.una \in Int /\ cl.nxt \in Int BY DEF Client
  <2>5. /\ v \in [phase : {"open"}, una : Int, nxt : Int, got : Seq(0 .. RESPONSE_LEN),
                  eof : BOOLEAN, fin : BOOLEAN, early : BOOLEAN, resized : BOOLEAN]
        /\ v.nxt = cl.nxt /\ v.fin = cl.fin /\ v.early = cl.early /\ v.got = cl.got
        /\ v.eof = cl.eof
    <3>1. CASE n \in cl.una .. cl.nxt
      <4>1. v = [cl EXCEPT !.una = n] /\ n \in Int BY <2>2, <2>4, <3>1
      <4> QED BY <2>4, <4>1 DEF Client
    <3>2. CASE n \notin cl.una .. cl.nxt BY <2>2, <2>4, <3>2 DEF Client
    <3> QED BY <3>1, <3>2
  <2>6. v.una = IF n \in cl.una .. cl.nxt THEN n ELSE cl.una BY <2>2 DEF Client
  <2>7. /\ cl1.phase = v.phase /\ cl1.nxt = v.nxt /\ cl1.fin = v.fin /\ cl1.early = v.early
        /\ cl1.una = v.una /\ cl1.got = v.got \o f.data
        /\ cl1.eof = (v.eof \/ "FIN" \in f.flags)
    BY <2>3, <2>5
  <2>8. cl.una = cl.nxt => v.una = cl.nxt BY <2>4, <2>6
  <2>9. n = cl.nxt => v.una = cl.nxt
    BY <2>4, <2>6
  <2> QED BY <1>2, <2>1, <2>5, <2>7, <2>8, <2>9 DEF Heard, AcksAll
<1> QED BY <1>1, <1>2

\* A client takes what it expects: the next piece of the page, or the end.
LEMMA TakeNext ==
    ASSUME NEW c, NEW cl \in Client, NEW qs \in Seq(ServerFrame),
           NEW qc \in Seq(ClientFrame), qc # <<>>,
           NEW S, NEW T, LinkOK(c, cl, qs, qc, S), InStep(cl, qs, qc, T),
           T \subseteq uip_conn, cl.phase = "open", NEW f \in ClientSegment, f = Head(qc),
           Counts(f), f.seqno = RcvNxt(cl), NEW cl1 \in Client, cl1 = Received(cl, f),
           NEW r, r = Tail(qc)
    PROVE  InStep(cl1, qs, r, T)
<1>1. \A k \in DOMAIN r : k \in Nat /\ k >= 1 /\ k + 1 \in DOMAIN qc /\ r[k] = qc[k + 1]
  BY TailFrames
<1>2. f = qc[1] /\ 1 \in DOMAIN qc /\ f.type = "tcp" BY TailFrames DEF ClientSegment
<1>3. Calm(cl, qs, qc) BY DEF InStep
<1>4. Expected(cl, f) BY <1>2, <1>3 DEF Calm
<1>5. "SYN" \notin f.flags /\ "RST" \notin f.flags BY <1>2, <1>4 DEF Expected
<1>6. /\ ~cl.eof /\ ~cl.fin /\ cl.una <= cl.nxt
      /\ \A k \in DOMAIN qs : ~Flagged(qs[k], "FIN")
  <2>1. /\ ClientOK(cl) /\ (cl.fin => cl.eof)
        /\ \A k \in DOMAIN qs : Flagged(qs[k], "FIN") => cl.fin
        /\ cl.eof => \A k \in DOMAIN qc : ~Counts(qc[k])
    BY <1>3, LinkFacts
  <2>2. ~cl.eof BY <1>2, <2>1
  <2>3. cl.una <= cl.nxt BY <2>1 DEF ClientOK
  <2> QED BY <2>1, <2>2, <2>3
<1>7. /\ cl1.phase = "open" /\ cl1.early = cl.early /\ cl1.nxt = cl.nxt /\ cl1.fin = cl.fin
      /\ cl1.got = cl.got \o f.data
      /\ cl1.eof <=> "FIN" \in f.flags
  <2>1. cl.una <= cl.nxt BY <1>6
  <2>2. Heard(cl, f, cl1) BY <1>5, <2>1, ReceivedFields, Zenon
  <2>3. cl1.eof = (cl.eof \/ "FIN" \in f.flags) BY <2>2 DEF Heard
  <2>4. cl1.eof <=> "FIN" \in f.flags BY <1>6, <2>3
  <2> QED BY <2>2, <2>4 DEF Heard
<1>8. ~Done(cl, qs, qc) BY <1>6 DEF Done
<1>9. T # {} BY <1>8 DEF InStep, Accepted
<1>10. PICK x \in Nat : x = RcvNxt(cl) BY RcvNat
<1>11. PICK n \in Nat : n = Size(f) /\ n > 0 /\ RcvNxt(cl1) = x + n
  <2>1. PICK g \in Seq(0 .. RESPONSE_LEN) : g = cl.got BY DEF Client
  <2>2. PICK d \in Seq(0 .. RESPONSE_LEN) : d = f.data BY DEF ClientSegment
  <2>3. Len(g \o d) = Len(g) + Len(d) /\ Len(g) \in Nat /\ Len(d) \in Nat BY <2>1, <2>2
  <2>4. PICK e \in 0 .. 1 : e = One("FIN" \in f.flags) BY DEF One
  <2>5. Size(f) = Len(d) + e BY <1>5, <2>2, <2>3, <2>4 DEF Size, One
  <2>6. x = 1 + Len(g) BY <1>6, <1>10, <2>1, <2>3 DEF RcvNxt
  <2>7. Len(cl1.got) = Len(g) + Len(d) BY <1>7, <2>1, <2>2, <2>3
  <2>8. RcvNxt(cl1) = 1 + (Len(g) + Len(d)) + (IF cl1.eof THEN 1 ELSE 0)
    BY <1>7, <2>7 DEF RcvNxt
  <2>9. (IF cl1.eof THEN 1 ELSE 0) = e BY <1>7, <2>4 DEF One
  <2>10. Len(d) + e > 0
    <3>1. CASE "FIN" \in f.flags BY <2>3, <2>4, <3>1 DEF One
    <3>2. CASE "FIN" \notin f.flags
      <4>1. d # <<>> BY <1>5, <2>2, <3>2 DEF Counts, HasData, Flagged
      <4>2. Len(d) > 0 BY <2>3, <4>1
      <4> QED BY <2>3, <4>2
    <3> QED BY <3>1, <3>2
  <2>11. RcvNxt(cl1) = x + (Len(d) + e)
    <3>1. RcvNxt(cl1) = 1 + (Len(g) + Len(d)) + e BY <2>8, <2>9, Zenon
    <3> QED BY ONLY <2>3, <2>4, <2>6, <3>1
  <2> QED BY <2>3, <2>5, <2>10, <2>11
<1>12. Calm(cl1, qs, r)
  <2>1. InTurn(qs) BY <1>3 DEF Calm
  <2>2. OnceOnly(r)
    <3>1. ASSUME NEW j \in DOMAIN r, NEW k \in DOMAIN r, j # k
          PROVE  j + 1 # k + 1 /\ j + 1 \in DOMAIN qc /\ k + 1 \in DOMAIN qc
                 /\ r[j] = qc[j + 1] /\ r[k] = qc[k + 1]
      BY <1>1, <3>1
    <3> QED BY <1>3, <3>1 DEF Calm, OnceOnly
  <2>3. ASSUME NEW k \in DOMAIN qs PROVE Orderly(cl1, qs[k])
    <3>1. PICK q : q = qs[k] OBVIOUS
    <3>2. Orderly(cl, q) /\ ~Flagged(q, "FIN") BY <1>3, <1>6, <3>1 DEF Calm
    <3>3. q.type = "tcp" => "ACK" \in q.flags /\ "SYN" \notin q.flags
      BY <3>2 DEF Orderly
    <3>4. q.ackno \in Nat \/ q.type # "tcp"
      BY <3>1 DEF ServerFrame, PlainFrame, EchoFrame, ServerSegment
    <3> QED BY <1>7, <1>10, <1>11, <3>1, <3>2, <3>3, <3>4 DEF Orderly, Flagged
  <2>4. ASSUME NEW k \in DOMAIN r PROVE Expected(cl1, r[k])
    <3>1. Expected(cl, r[k]) BY <1>1, <1>3 DEF Calm
    <3>2. Flagged(f, "FIN") => ~Flagged(r[k], "FIN")
      <4>1. k + 1 # 1 BY <1>1
      <4> QED BY <1>1, <1>2, <1>3, <4>1 DEF Calm, OnceOnly
    <3> QED BY <1>2, <1>7, <3>1, <3>2 DEF Expected, Flagged
  <2>5. \A j \in DOMAIN qs : ~Flagged(qs[j], "SYN")
    BY <1>3 DEF Calm, Orderly, Flagged
  <2> QED BY <1>3, <1>7, <2>1, <2>2, <2>3, <2>4, <2>5 DEF Calm
<1>13. ASSUME NEW t \in T PROVE Sync(cl1, qs, r, t)
  <2>1. Sync(cl, qs, qc, t) BY DEF InStep
  <2>2. PICK s \in Nat : s = t.snd_nxt BY DEF uip_conn, SeqNo
  <2>3. PICK m \in Nat : m = t.len BY UipAssumption DEF uip_conn
  <2>4. Due(cl, t, f) BY <1>2, <2>1 DEF Sync
  <2>5. s = x /\ m = n BY <1>10, <1>11, <2>2, <2>3, <2>4 DEF Due
  <2>6. ASSUME NEW k \in DOMAIN r, Counts(r[k]) PROVE r[k].seqno < RcvNxt(cl1)
    <3>1. Due(cl, t, r[k]) BY <1>1, <2>1, <2>6 DEF Sync
    <3>2. r[k].seqno \in Nat
      <4>1. r[k] \in ClientFrame /\ r[k].type = "tcp"
        BY <1>1, <2>6 DEF Counts, HasData, Flagged
      <4> QED BY <4>1 DEF ClientFrame, ClientSegment, PlainFrame, EchoFrame
    <3>3. r[k].seqno <= x BY <1>10, <2>2, <2>5, <3>1, <3>2 DEF Due
    <3> QED BY <1>11, <3>2, <3>3
  <2>7. t.tcpstateflags # "UIP_TIME_WAIT" BY <1>8, <2>1 DEF Sync
  <2>8. RcvNxt(cl1) = t.snd_nxt + t.len BY <1>11, <2>2, <2>3, <2>5
  <2> QED BY <2>1, <2>6, <2>7, <2>8 DEF Sync, Due
<1> QED BY <1>9, <1>12, <1>13 DEF InStep

LEMMA AckFrame ==
    ASSUME NEW c \in Peers, NEW cl \in Client, NEW w \in Windows, NEW g, g = Ack(c, cl, w)
    PROVE  /\ g \in ServerFrame /\ g.type = "tcp" /\ g.flags = {"ACK"}
           /\ g.ackno = RcvNxt(cl)
<1>1. PICK n \in 0 .. REQ + 2 : n = cl.nxt BY DEF Client
<1>2. PICK fl \in SUBSET TcpFlags : fl = {"ACK"} BY DEF TcpFlags
<1>3. PICK v \in Nat, z \in 0 .. UIP_TCP_MSS : v = w /\ z = 0
  BY ClientAssumption, UipAssumption
<1>4. g = Segment(c, cl, fl, n, z, v) BY <1>1, <1>2, <1>3 DEF Ack
<1>5. g \in ServerFrame BY <1>4, SegmentOK
<1>6. g.type = "tcp" /\ g.flags = fl /\ g.ackno = RcvNxt(cl) BY <1>4 DEF Segment
<1> QED BY <1>2, <1>5, <1>6

\* A client takes a segment, and acknowledges it if it counts.
LEMMA TakeSegment ==
    ASSUME NEW c \in Peers, NEW cl \in Client, NEW qs \in Seq(ServerFrame),
           NEW qc \in Seq(ClientFrame), qc # <<>>, NEW S, NEW T,
           LinkOK(c, cl, qs, qc, S), InStep(cl, qs, qc, T), T \subseteq uip_conn,
           NEW w \in Windows, NEW f \in ClientSegment, f = Head(qc),
           NEW cl1 \in Client,
           \/ cl.phase = "syn" /\ cl1 = Connected(cl, f)
           \/ cl.phase = "open" /\ cl1 = Received(cl, f),
           NEW r, r = Tail(qc)
    PROVE  /\ Answered(cl1, f) => InStep(cl1, Append(qs, Ack(c, cl1, w)), r, T)
           /\ ~Answered(cl1, f) => InStep(cl1, qs, r, T)
<1>1. f = qc[1] /\ 1 \in DOMAIN qc /\ f.type = "tcp" BY TailFrames DEF ClientSegment
<1>2. Calm(cl, qs, qc) BY DEF InStep
<1>3. Expected(cl, f) /\ "RST" \notin f.flags BY <1>1, <1>2 DEF Calm, Expected
<1>4. /\ ClientOK(cl) /\ (cl.fin => cl.eof)
      /\ \A k \in DOMAIN qs : Flagged(qs[k], "FIN") => cl.fin
      /\ cl.eof => \A k \in DOMAIN qc : ~Counts(qc[k])
  BY <1>2, LinkFacts
<1>5. cl.una <= cl.nxt BY <1>4 DEF ClientOK
<1>6. InStep(cl1, qs, r, T) /\ cl1.fin = cl.fin
  <2>1. CASE cl.phase = "syn" /\ cl1 = Connected(cl, f)
    <3>1. \/ cl1 = cl
          \/ cl1 = [cl EXCEPT !.phase = "open", !.una = 1] /\ "SYN" \in f.flags
      BY <1>3, <2>1 DEF Connected
    <3>2. CASE cl1 = cl BY <2>1, <3>2, DropReply
    <3>3. CASE cl1 = [cl EXCEPT !.phase = "open", !.una = 1] /\ "SYN" \in f.flags
      <4>1. Flagged(f, "SYN") BY <1>1, <3>3 DEF Flagged
      <4>2. InStep(cl1, qs, r, T) BY <2>1, <3>3, <4>1, TakeSyn
      <4>3. cl1.fin = cl.fin BY <3>3 DEF Client
      <4> QED BY <4>2, <4>3
    <3> QED BY <3>1, <3>2, <3>3
  <2>2. CASE cl.phase = "open" /\ cl1 = Received(cl, f)
    <3>1. Heard(cl, f, cl1) BY <1>3, <1>5, <2>2, ReceivedFields, Zenon
    <3>2. cl1.fin = cl.fin BY <3>1 DEF Heard
    <3>3. CASE f.seqno # RcvNxt(cl)
      <4>1. cl1 = cl BY <3>1, <3>3 DEF Heard
      <4>2. ~AcksAll(cl, f) BY <3>3 DEF AcksAll
      <4> QED BY <4>1, <4>2, DropReply
    <3>4. CASE f.seqno = RcvNxt(cl) /\ Counts(f)
      <4>1. InStep(cl1, qs, r, T) BY <2>2, <3>4, TakeNext
      <4> QED BY <3>2, <4>1
    <3>5. CASE f.seqno = RcvNxt(cl) /\ ~Counts(f)
      <4>1. f.data = <<>> /\ "FIN" \notin f.flags
        BY <1>1, <3>5 DEF Counts, HasData, Flagged
      <4>2. cl1.got = cl.got
        <5>1. cl1.got = cl.got \o f.data BY <3>1, <3>5 DEF Heard
        <5>2. cl.got \in Seq(0 .. RESPONSE_LEN) BY DEF Client
        <5> QED BY <4>1, <5>1, <5>2
      <4>3. cl1.eof = cl.eof
        <5>1. cl1.eof = (cl.eof \/ "FIN" \in f.flags) BY <3>1, <3>5 DEF Heard
        <5>2. cl.eof \in BOOLEAN BY DEF Client
        <5> QED BY <4>1, <5>1, <5>2
      <4>4. /\ cl1.phase = cl.phase /\ cl1.nxt = cl.nxt /\ cl1.fin = cl.fin
            /\ cl1.early = cl.early
            /\ cl.una = cl.nxt \/ AcksAll(cl, f) => cl1.una = cl1.nxt
        BY <2>2, <3>1 DEF Heard
      <4>5. InStep(cl1, qs, qc, T) BY <4>2, <4>3, <4>4, SameView
      <4>6. AcksAll(cl1, f) => AcksAll(cl, f)
        BY <4>2, <4>3, <4>4 DEF AcksAll, RcvNxt
      <4>7. InStep(cl1, qs, r, T) BY <4>4, <4>5, <4>6, DropReply
      <4> QED BY <3>2, <4>7
    <3> QED BY <3>3, <3>4, <3>5
  <2> QED BY <2>1, <2>2
<1>7. ASSUME Answered(cl1, f) PROVE InStep(cl1, Append(qs, Ack(c, cl1, w)), r, T)
  <2>1. cl1.phase = "open" /\ Counts(f)
    BY <1>1, <1>7 DEF Answered, Counts, HasData, Flagged
  <2>2. ~cl.fin BY <1>1, <1>4, <2>1
  <2>3. ~Done(cl1, qs, r) BY <1>6, <2>2 DEF Done
  <2>4. \A k \in DOMAIN qs : ~Flagged(qs[k], "FIN") BY <1>4, <2>2
  <2>5. PICK g : g = Ack(c, cl1, w) OBVIOUS
  <2>6. g \in ServerFrame /\ g.type = "tcp" /\ g.flags = {"ACK"} /\ g.ackno = RcvNxt(cl1)
    BY <2>5, AckFrame
  <2>7. InStep(cl1, Append(qs, g), r, T)
    BY <1>6, <2>1, <2>3, <2>4, <2>6, SendOpen
  <2> QED BY <2>5, <2>7
<1> QED BY <1>6, <1>7

\* What a segment makes of connection t, by the numbers of its own stream:
\* nothing, or ...
Acks(t, u, seg) ==
    AckedBy(t, seg) /\ t.len # 0 /\ u.snd_nxt = (t.snd_nxt + t.len) % Size32

Idles(t, u, fl, d) ==
    /\ u.tcpstateflags = t.tcpstateflags /\ u.snd_nxt = t.snd_nxt /\ u.len = t.len
    /\ fl \in SUBSET {"ACK"} /\ d = <<>>

\* ... its SYN or its FIN is acknowledged,
Settles(t, u, seg, fl, d) ==
    /\ \/ t.tcpstateflags = "UIP_SYN_RCVD" /\ u.tcpstateflags = "UIP_ESTABLISHED"
       \/ t.tcpstateflags = "UIP_FIN_WAIT_1" /\ u.tcpstateflags = "UIP_FIN_WAIT_2"
    /\ Acks(t, u, seg) /\ u.len = 0
    /\ fl \in SUBSET {"ACK"} /\ d = <<>>

\* ... it sends the next piece of the page, the outstanding one, or the end,
SendsPiece(t, u, seg, fl, d) ==
    /\ t.tcpstateflags = "UIP_ESTABLISHED" /\ u.tcpstateflags = "UIP_ESTABLISHED"
    /\ \/ Acks(t, u, seg)
       \/ u.snd_nxt = t.snd_nxt /\ (t.len = 0 \/ u.len = t.len)
    /\ u.len > 0 /\ Len(d) = u.len /\ d \in Seq(0 .. RESPONSE_LEN) /\ fl = {"ACK", "PSH"}

SendsEnd(t, u, seg, fl, d) ==
    /\ t.tcpstateflags = "UIP_ESTABLISHED" /\ u.tcpstateflags = "UIP_FIN_WAIT_1"
    /\ Acks(t, u, seg) /\ u.len = 1 /\ fl = {"FIN", "ACK"} /\ d = <<>>

\* ... or the client has ended, too.
Ends(t, u, seg, fl, d) ==
    /\ "FIN" \in seg.flags /\ fl = {"ACK"} /\ d = <<>>
    /\ u.tcpstateflags = "UIP_TIME_WAIT"
    /\ \/ t.tcpstateflags = "UIP_FIN_WAIT_1" /\ Acks(t, u, seg) /\ u.len = 0
       \/ t.tcpstateflags = "UIP_FIN_WAIT_2" /\ u.snd_nxt = t.snd_nxt /\ u.len = t.len
    /\ Off(u.rcv_nxt) = Off(seg.seqno) + seg.len + 1

Crosses(t, u, seg, fl, d) ==
    /\ "FIN" \in seg.flags /\ fl = {"ACK"} /\ d = <<>> /\ ~AckedBy(t, seg)
    /\ t.tcpstateflags = "UIP_FIN_WAIT_1" /\ u.tcpstateflags = "UIP_CLOSING"
    /\ u.snd_nxt = t.snd_nxt /\ u.len = t.len

Answers(t, u, seg, fl, d) ==
    Idles(t, u, fl, d) \/ Settles(t, u, seg, fl, d) \/ Crosses(t, u, seg, fl, d)

Turn(t, u, seg, fl, d) ==
    /\ u.peer = t.peer /\ u.rcv_nxt \in SeqNo
    /\ \/ Answers(t, u, seg, fl, d)
       \/ SendsPiece(t, u, seg, fl, d) \/ SendsEnd(t, u, seg, fl, d)
       \/ Ends(t, u, seg, fl, d)

TurnResult(conns, i, r, t, seg) ==
    \E u, fl, d : /\ Turn(t, u, seg, fl, d)
                  /\ \/ r = Kept(conns, i, u) /\ fl = {} /\ d = <<>>
                     \/ r = tcp_send(conns, i, u, fl, d)

\* The connection after a number of bytes, and the FIN, were received.
LEMMA HeardNumbers ==
    ASSUME NEW t, NEW cl, NEW seg, InOrder(t, cl, seg), NEW a, a = AfterAck(t, seg),
           NEW h, h = uip_add_rcv_nxt(a, seg.len)
    PROVE  /\ h \in uip_conn /\ h.tcpstateflags = t.tcpstateflags /\ h.peer = t.peer
           /\ h.snd_nxt = a.snd_nxt /\ h.len = a.len /\ h.rcv_nxt \in SeqNo
           /\ "FIN" \in seg.flags =>
                 LET v == Told(uip_add_rcv_nxt(h, 1), {"UIP_CLOSE"})
                 IN  /\ v \in uip_conn /\ v.peer = t.peer
                     /\ v.snd_nxt = a.snd_nxt /\ v.len = a.len /\ v.rcv_nxt \in SeqNo
                     /\ Off(v.rcv_nxt) = Off(seg.seqno) + seg.len + 1
<1>1. Belongs(t, cl, seg) /\ ~OutOfOrder(t, seg) BY DEF InOrder
<1>2. a \in uip_conn /\ a.tcpstateflags = t.tcpstateflags /\ a.peer = t.peer
      /\ a.rcv_nxt = t.rcv_nxt
  BY <1>1, AfterAckOK
<1>3. PICK y \in SeqNo : y = Add32[t.rcv_nxt][seg.len] BY RcvOK
<1>4. h = [a EXCEPT !.rcv_nxt = y] BY <1>2, <1>3 DEF uip_add_rcv_nxt
<1>5. /\ h \in uip_conn /\ h.tcpstateflags = t.tcpstateflags /\ h.peer = t.peer
      /\ h.rcv_nxt = y /\ h.snd_nxt = a.snd_nxt /\ h.len = a.len
  BY <1>2, <1>4 DEF uip_conn
<1>6. ASSUME "FIN" \in seg.flags
      PROVE  LET v == Told(uip_add_rcv_nxt(h, 1), {"UIP_CLOSE"})
             IN  /\ v \in uip_conn /\ v.peer = t.peer
                 /\ v.snd_nxt = a.snd_nxt /\ v.len = a.len /\ v.rcv_nxt \in SeqNo
                 /\ Off(v.rcv_nxt) = Off(seg.seqno) + seg.len + 1
  <2>1. PICK z \in SeqNo : z = Add32[y][1] BY <1>3, <1>6, RcvOK
  <2>2. PICK g : g = uip_add_rcv_nxt(h, 1) OBVIOUS
  <2>3. g = [h EXCEPT !.rcv_nxt = z] BY <1>5, <2>1, <2>2 DEF uip_add_rcv_nxt
  <2>4. /\ g \in uip_conn /\ g.peer = t.peer /\ g.rcv_nxt = z
        /\ g.snd_nxt = a.snd_nxt /\ g.len = a.len
    BY <1>5, <2>3 DEF uip_conn
  <2>5. PICK s \in http_state : s = g.appstate BY <2>4 DEF uip_conn
  <2>6. PICK fl : fl = {"UIP_CLOSE"} OBVIOUS
  <2>7. PICK q : q = httpd_appcall(s, fl, uip_mss(g)).s OBVIOUS
  <2>8. "UIP_CONNECTED" \notin fl /\ "UIP_CLOSE" \in fl BY <2>6
  <2>9. q \in http_state BY <2>7, <2>8, AppEnd
  <2>10. PICK v : v = Told(g, fl) OBVIOUS
  <2>11. v = [g EXCEPT !.appstate = q] BY <2>5, <2>7, <2>10 DEF Told, AppCall
  <2>12. /\ v \in uip_conn /\ v.peer = t.peer /\ v.rcv_nxt = z
         /\ v.snd_nxt = a.snd_nxt /\ v.len = a.len
    BY <2>4, <2>9, <2>11 DEF uip_conn
  <2>13. Off(z) = Off(seg.seqno) + seg.len + 1
    <3>1. /\ t \in uip_conn /\ cl \in Client /\ seg \in ServerSegment
          /\ SentOK(t.peer, cl, seg) /\ ConnOK(t, cl)
      BY <1>1 DEF Belongs
    <3>2. PICK x \in SeqNo : x = t.rcv_nxt /\ x = seg.seqno
      BY <1>1, <1>6, <3>1 DEF OutOfOrder, uip_conn
    <3>3. PICK l \in 0 .. UIP_TCP_MSS : l = seg.len BY <3>1 DEF ServerSegment
    <3>4. PICK n \in 0 .. REQ + 2 : n = cl.nxt BY <3>1 DEF Client
    <3>5. REQ \in Nat /\ REQ + 2 < Size32 /\ UIP_TCP_MSS \in Nat /\ UIP_TCP_MSS > 0
          /\ Size32 \in Nat
      BY ClientAssumption, UipAssumption, SizePositive
    <3>6. PICK o \in Nat : o = Off(x) BY <3>5, OffRange DEF SeqNo
    <3>7. PICK b \in 0 .. 1 : b = One("SYN" \in seg.flags) BY DEF One
    <3>8. One("FIN" \in seg.flags) = 1 BY <1>6 DEF One
    <3>9. o + l + b + 1 <= n
      BY <3>1, <3>2, <3>3, <3>4, <3>6, <3>7, <3>8 DEF SentOK, ServerSegment
    <3>10. o + l < Size32 /\ o + l + 1 < Size32 BY <3>3, <3>4, <3>5, <3>7, <3>9
    <3>11. l \in 0 .. UIP_TCP_MSS + 1 /\ 1 \in 0 .. UIP_TCP_MSS + 1 BY <3>3, <3>5
    <3>12. Off(y) = o + l BY <1>3, <3>2, <3>3, <3>6, <3>10, <3>11, OffAdd
    <3>13. Off(z) = o + l + 1 BY <2>1, <3>10, <3>11, <3>12, OffAdd
    <3> QED BY <3>2, <3>3, <3>6, <3>13
  <2> QED BY <2>1, <2>2, <2>6, <2>10, <2>12, <2>13
<1> QED BY <1>5, <1>6

\* UIP_SYN_RCVD.
LEMMA SynRcvdTurn ==
    ASSUME NEW conns, NEW i, NEW t, NEW cl, NEW seg, InOrder(t, cl, seg),
           t.tcpstateflags = "UIP_SYN_RCVD", NEW a, a = AfterAck(t, seg)
    PROVE  TurnResult(conns, i, SynRcvd(conns, i, a, AckedBy(t, seg), seg), t, seg)
<1>1. Belongs(t, cl, seg) /\ t \in uip_conn BY DEF InOrder, Belongs
<1>2. CASE ~AckedBy(t, seg)
  <2>1. SynRcvd(conns, i, a, AckedBy(t, seg), seg) = Kept(conns, i, t)
    BY <1>1, <1>2, AfterAckOK DEF SynRcvd
  <2>2. Turn(t, t, seg, {}, <<>>) BY <1>1 DEF Turn, Answers, Idles, uip_conn
  <2> QED BY <2>1, <2>2 DEF TurnResult
<1>3. CASE AckedBy(t, seg)
  <2>1. /\ a \in uip_conn /\ a.peer = t.peer /\ a.rcv_nxt = t.rcv_nxt /\ a.len = 0
        /\ a.snd_nxt = (t.snd_nxt + t.len) % Size32 /\ t.len # 0
    BY <1>1, <1>3, AfterAckOK
  <2>2. PICK y \in SeqNo : y = Add32[t.rcv_nxt][seg.len] BY RcvOK
  <2> DEFINE ev == {"UIP_CONNECTED"} \cup Events(FALSE, seg)
  <2>3. PICK v : v = [uip_add_rcv_nxt(a, seg.len) EXCEPT
                         !.tcpstateflags = "UIP_ESTABLISHED"] OBVIOUS
  <2>4. v = [a EXCEPT !.rcv_nxt = y, !.tcpstateflags = "UIP_ESTABLISHED"]
    BY <2>1, <2>2, <2>3 DEF uip_add_rcv_nxt, uip_conn
  <2>5. /\ v \in uip_conn /\ v.peer = t.peer /\ v.rcv_nxt = y /\ v.len = 0
        /\ v.snd_nxt = a.snd_nxt /\ v.tcpstateflags = "UIP_ESTABLISHED"
    BY <2>1, <2>4 DEF uip_conn, TcpStates
  <2>6. /\ AppCall(v, ev).s = FreshHttp /\ AppCall(v, ev).uip_flags = ev
        /\ AppCall(v, ev).data = <<>>
    <3>1. "UIP_CONNECTED" \in ev OBVIOUS
    <3> HIDE DEF ev
    <3> QED BY <3>1, AppNew DEF AppCall
  <2>7. "UIP_CLOSE" \notin ev BY DEF Events
  <2>8. PICK u : u = [[v EXCEPT !.appstate = FreshHttp] EXCEPT !.len = v.len] OBVIOUS
  <2>9. SynRcvd(conns, i, a, AckedBy(t, seg), seg) = appsend(conns, i, v, ev)
    BY <1>3, <2>3 DEF SynRcvd
  <2>10. \/ appsend(conns, i, v, ev) = tcp_send_ack(conns, i, u)
         \/ appsend(conns, i, v, ev) = Kept(conns, i, u)
    <3>1. Len(<<>>) = 0 /\ ~(0 > 0) OBVIOUS
    <3> HIDE DEF ev
    <3> QED BY <2>6, <2>7, <2>8, <3>1 DEF appsend
  <2>11. /\ u.peer = t.peer /\ u.rcv_nxt = y /\ u.len = 0 /\ u.snd_nxt = a.snd_nxt
         /\ u.tcpstateflags = "UIP_ESTABLISHED"
    BY <2>5, <2>8 DEF uip_conn
  <2>12. Acks(t, u, seg) BY <1>3, <2>1, <2>11 DEF Acks
  <2>13. Turn(t, u, seg, {"ACK"}, <<>>) /\ Turn(t, u, seg, {}, <<>>)
    BY <2>11, <2>12 DEF Turn, Answers, Settles
  <2> QED BY <2>9, <2>10, <2>13 DEF TurnResult, tcp_send_ack
<1> QED BY <1>2, <1>3

\* UIP_ESTABLISHED: the application hears of something.
LEMMA AppSendTurn ==
    ASSUME NEW conns, NEW i, NEW t, NEW cl, NEW seg, InOrder(t, cl, seg),
           t.tcpstateflags = "UIP_ESTABLISHED", NEW a, a = AfterAck(t, seg),
           NEW ev, ev = Events(AckedBy(t, seg), seg), ev # {},
           NEW h, h = Window(uip_add_rcv_nxt(a, seg.len), seg)
    PROVE  TurnResult(conns, i, appsend(conns, i, h, ev), t, seg)
<1>1. Belongs(t, cl, seg) /\ t \in uip_conn /\ ConnOK(t, cl) /\ seg \in ServerSegment
  BY DEF InOrder, Belongs
<1>2. /\ a \in uip_conn /\ a.tcpstateflags = "UIP_ESTABLISHED" /\ a.peer = t.peer
      /\ a.rcv_nxt = t.rcv_nxt /\ a.initialmss = t.initialmss /\ a.appstate = t.appstate
      /\ AckedBy(t, seg) => /\ a.len = 0 /\ a.snd_nxt = (t.snd_nxt + t.len) % Size32
                            /\ t.len # 0
      /\ ~AckedBy(t, seg) => a = t
  BY <1>1, AfterAckOK
<1>3. PICK y \in SeqNo : y = Add32[t.rcv_nxt][seg.len] /\ Off(y) \in 1 .. cl.nxt BY RcvOK
<1>4. /\ h \in uip_conn /\ h.mss > 0
      /\ h.tcpstateflags = "UIP_ESTABLISHED" /\ h.peer = t.peer /\ h.rcv_nxt = y
      /\ h.snd_nxt = a.snd_nxt /\ h.len = a.len /\ h.appstate = t.appstate
  BY <1>2, <1>3, WindowOK
<1>5. PICK s \in http_state : s = t.appstate BY <1>1 DEF uip_conn
<1>6. PICK m \in 1 .. UIP_TCP_MSS : m = h.mss BY <1>4, UipAssumption DEF uip_conn
<1>7. m \in Nat /\ m > 0 /\ m <= UIP_TCP_MSS /\ UIP_TCP_MSS \in Nat BY <1>6, UipAssumption
<1>8. /\ ev \in SUBSET {"UIP_ACKDATA", "UIP_NEWDATA"}
      /\ "UIP_ACKDATA" \in ev <=> AckedBy(t, seg)
  BY DEF Events
<1>9. /\ s.pos + s.last_sent_len <= RESPONSE_LEN
      /\ \/ /\ s.state = "HTTP_STATE_WAITING" /\ s.pos = 0 /\ s.last_sent_len = 0
            /\ t.len = 0
         \/ s.state = "HTTP_STATE_SENDING" /\ s.last_sent_len > 0
  BY <1>1, <1>5 DEF ConnOK
<1>10. PICK p : p = IF "UIP_ACKDATA" \in ev THEN s.pos + s.last_sent_len ELSE s.pos OBVIOUS
<1>11. PICK call : call = httpd_appcall(s, ev, m) OBVIOUS
<1>12. /\ p \in 0 .. RESPONSE_LEN
       /\ p < RESPONSE_LEN =>
             call.uip_flags = ev /\ call.data = PieceAt(p, Chunk(p, m))
       /\ p = RESPONSE_LEN =>
             call.uip_flags = {"UIP_CLOSE"} /\ call.data = <<>>
       /\ call.s \in http_state
  <2>1. \/ /\ s.state = "HTTP_STATE_WAITING" /\ "UIP_ACKDATA" \notin ev
           /\ s.pos = 0 /\ s.last_sent_len = 0
        \/ s.state = "HTTP_STATE_SENDING" /\ s.last_sent_len > 0
    BY <1>2, <1>8, <1>9
  <2> QED BY <1>7, <1>8, <1>9, <1>10, <1>11, <2>1, AppData
<1>13. AppCall(h, ev) = call BY <1>4, <1>5, <1>6, <1>11 DEF AppCall, uip_mss
<1>14. RESPONSE_LEN \in Nat /\ RESPONSE_LEN > 0 /\ s.pos \in 0 .. RESPONSE_LEN
       /\ s.last_sent_len \in 0 .. RESPONSE_LEN
  BY HttpdAssumption DEF http_state
<1>15. CASE p = RESPONSE_LEN
  <2>1. AckedBy(t, seg) BY <1>8, <1>9, <1>10, <1>14, <1>15
  <2>2. PICK u : u = [[h EXCEPT !.appstate = call.s] EXCEPT !.len = 1,
                                               !.tcpstateflags = "UIP_FIN_WAIT_1"]
    OBVIOUS
  <2>3. appsend(conns, i, h, ev) = tcp_send(conns, i, u, {"FIN", "ACK"}, <<>>)
    <3>1. "UIP_CLOSE" \in call.uip_flags BY <1>12, <1>15
    <3> QED BY <1>13, <2>2, <3>1 DEF appsend, tcp_send_finack
  <2>4. /\ u.peer = t.peer /\ u.rcv_nxt = y /\ u.snd_nxt = a.snd_nxt /\ u.len = 1
        /\ u.tcpstateflags = "UIP_FIN_WAIT_1"
    BY <1>4, <2>2 DEF uip_conn
  <2>5. Acks(t, u, seg) BY <1>2, <2>1, <2>4 DEF Acks
  <2>6. Turn(t, u, seg, {"FIN", "ACK"}, <<>>) BY <2>4, <2>5 DEF Turn, SendsEnd
  <2> QED BY <2>3, <2>6 DEF TurnResult
<1>16. CASE p < RESPONSE_LEN
  <2>1. PICK ch : ch = Chunk(p, m) OBVIOUS
  <2>2. ch \in Nat /\ ch > 0 /\ ch <= m /\ p + ch <= RESPONSE_LEN
    BY <1>7, <1>12, <1>16, <2>1, ChunkRange
  <2>3. p \in Nat BY <1>12, <1>14
  <2>4. PICK d \in Seq(0 .. RESPONSE_LEN) : d = PieceAt(p, ch) /\ Len(d) = ch
    BY <2>2, <2>3, PieceOK
  <2>5. call.data = d /\ call.uip_flags = ev BY <1>12, <1>16, <2>1, <2>4
  <2>6. PICK len : len = IF "UIP_ACKDATA" \in ev \/ h.len = 0 THEN ch ELSE h.len OBVIOUS
  <2>7. h.len \in 0 .. UIP_TCP_MSS BY <1>4 DEF uip_conn
  <2>8. len \in 0 .. UIP_TCP_MSS /\ len > 0 /\ len \in Nat BY <1>7, <2>2, <2>6, <2>7
  <2>9. PICK u : u = [[h EXCEPT !.appstate = call.s] EXCEPT !.len = len] OBVIOUS
  <2>10. PICK dd \in Seq(0 .. RESPONSE_LEN) : dd = Payload(d, len) /\ Len(dd) = len
    BY <2>4, <2>8, PayloadOK
  <2>11. appsend(conns, i, h, ev) = tcp_send(conns, i, u, {"ACK", "PSH"}, dd)
    <3>1. "UIP_CLOSE" \notin call.uip_flags BY <1>8, <2>5
    <3>2. Least(ch, h.mss) = ch BY <1>6, <1>7, <2>2 DEF Least
    <3>3. Len(call.data) = ch /\ Len(call.data) > 0 BY <2>2, <2>4, <2>5
    <3>4. (IF Len(call.data) > 0 /\ (uip_acked(ev) \/ ~uip_outstanding(h))
           THEN Least(Len(call.data), h.mss) ELSE h.len) = len
      BY <2>6, <3>2, <3>3 DEF uip_acked, uip_outstanding
    <3> QED BY <1>13, <2>5, <2>8, <2>9, <2>10, <3>1, <3>3, <3>4 DEF appsend
  <2>12. /\ u.peer = t.peer /\ u.rcv_nxt = y /\ u.snd_nxt = a.snd_nxt
         /\ u.tcpstateflags = "UIP_ESTABLISHED" /\ u.len = len
    BY <1>4, <2>8, <2>9 DEF uip_conn
  <2>13. \/ Acks(t, u, seg)
         \/ u.snd_nxt = t.snd_nxt /\ (t.len = 0 \/ u.len = t.len)
    <3>1. CASE AckedBy(t, seg) BY <1>2, <2>12, <3>1 DEF Acks
    <3>2. CASE ~AckedBy(t, seg)
      <4>1. h.len = t.len /\ u.snd_nxt = t.snd_nxt BY <1>2, <1>4, <2>12, <3>2
      <4> QED BY <1>8, <2>6, <2>12, <3>2, <4>1
    <3> QED BY <3>1, <3>2
  <2>14. Turn(t, u, seg, {"ACK", "PSH"}, dd)
    BY <2>8, <2>10, <2>12, <2>13 DEF Turn, SendsPiece
  <2> QED BY <2>11, <2>14 DEF TurnResult
<1> QED BY <1>12, <1>14, <1>15, <1>16

LEMMA EstablishedTurn ==
    ASSUME NEW conns, NEW i, NEW t, NEW cl, NEW seg, InOrder(t, cl, seg),
           t.tcpstateflags = "UIP_ESTABLISHED", NEW a, a = AfterAck(t, seg),
           "FIN" \notin seg.flags
    PROVE  TurnResult(conns, i, Established(conns, i, a, AckedBy(t, seg), seg), t, seg)
<1>1. CASE Events(AckedBy(t, seg), seg) # {} BY <1>1, AppSendTurn DEF Established
<1>2. CASE Events(AckedBy(t, seg), seg) = {}
  <2>1. Belongs(t, cl, seg) /\ t \in uip_conn BY DEF InOrder, Belongs
  <2>2. ~AckedBy(t, seg) BY <1>2 DEF Events
  <2>3. a = t BY <2>1, <2>2, AfterAckOK
  <2>4. PICK y \in SeqNo : y = Add32[t.rcv_nxt][seg.len] BY RcvOK
  <2>5. PICK h : h = Window(uip_add_rcv_nxt(t, seg.len), seg) OBVIOUS
  <2>6. /\ h.tcpstateflags = "UIP_ESTABLISHED" /\ h.peer = t.peer /\ h.rcv_nxt = y
        /\ h.snd_nxt = t.snd_nxt /\ h.len = t.len
    BY <2>1, <2>4, <2>5, WindowOK
  <2>7. Turn(t, h, seg, {}, <<>>) BY <2>6 DEF Turn, Answers, Idles
  <2>8. Established(conns, i, a, AckedBy(t, seg), seg) = Kept(conns, i, h)
    BY <1>2, <2>3, <2>5 DEF Established
  <2> QED BY <2>7, <2>8 DEF TurnResult
<1> QED BY <1>1, <1>2

\* UIP_FIN_WAIT_1 and UIP_FIN_WAIT_2.
LEMMA FinWaitTurn ==
    ASSUME NEW conns, NEW i, NEW t, NEW cl, NEW seg, InOrder(t, cl, seg),
           NEW a, a = AfterAck(t, seg)
    PROVE  /\ t.tcpstateflags = "UIP_FIN_WAIT_1" =>
                 TurnResult(conns, i, FinWait1(conns, i, a, AckedBy(t, seg), seg), t, seg)
           /\ t.tcpstateflags = "UIP_FIN_WAIT_2" /\ t.len = 0 =>
                 TurnResult(conns, i, FinWait2(conns, i, a, seg), t, seg)
<1>1. Belongs(t, cl, seg) BY DEF InOrder
<1>2. /\ AckedBy(t, seg) => /\ a.len = 0 /\ a.snd_nxt = (t.snd_nxt + t.len) % Size32
                            /\ t.len # 0
      /\ ~AckedBy(t, seg) => a = t
  BY <1>1, AfterAckOK
<1>3. PICK h : h = uip_add_rcv_nxt(a, seg.len) OBVIOUS
<1>4. /\ h \in uip_conn /\ h.tcpstateflags = t.tcpstateflags /\ h.peer = t.peer
      /\ h.snd_nxt = a.snd_nxt /\ h.len = a.len /\ h.rcv_nxt \in SeqNo
  BY <1>3, HeardNumbers
<1>5. ~AckedBy(t, seg) => Turn(t, h, seg, {}, <<>>) /\ Turn(t, h, seg, {"ACK"}, <<>>)
  BY <1>2, <1>4 DEF Turn, Answers, Idles
<1>6. CASE "FIN" \in seg.flags
  <2>1. PICK v : v = Told(uip_add_rcv_nxt(h, 1), {"UIP_CLOSE"}) OBVIOUS
  <2>2. /\ v \in uip_conn /\ v.peer = t.peer
        /\ v.snd_nxt = a.snd_nxt /\ v.len = a.len /\ v.rcv_nxt \in SeqNo
        /\ Off(v.rcv_nxt) = Off(seg.seqno) + seg.len + 1
    BY <1>3, <1>6, <2>1, HeardNumbers
  <2>3. ASSUME t.tcpstateflags = "UIP_FIN_WAIT_1"
        PROVE  TurnResult(conns, i, FinWait1(conns, i, a, AckedBy(t, seg), seg), t, seg)
    <3>1. PICK st : st = IF AckedBy(t, seg) THEN "UIP_TIME_WAIT" ELSE "UIP_CLOSING" OBVIOUS
    <3>2. PICK u : u = [v EXCEPT !.tcpstateflags = st] OBVIOUS
    <3>3. /\ u.peer = t.peer /\ u.snd_nxt = a.snd_nxt /\ u.len = a.len
          /\ u.rcv_nxt \in SeqNo /\ u.rcv_nxt = v.rcv_nxt /\ u.tcpstateflags = st
      BY <2>2, <3>2 DEF uip_conn
    <3>4. Turn(t, u, seg, {"ACK"}, <<>>)
      <4>1. CASE AckedBy(t, seg)
        <5>1. Acks(t, u, seg) /\ u.len = 0 BY <1>2, <3>3, <4>1 DEF Acks
        <5>2. Ends(t, u, seg, {"ACK"}, <<>>)
          BY <1>6, <2>2, <2>3, <3>1, <3>3, <4>1, <5>1 DEF Ends
        <5> QED BY <3>3, <5>2 DEF Turn
      <4>2. CASE ~AckedBy(t, seg)
        <5>1. Crosses(t, u, seg, {"ACK"}, <<>>)
          BY <1>2, <1>6, <2>3, <3>1, <3>3, <4>2 DEF Crosses
        <5> QED BY <3>3, <5>1 DEF Turn, Answers
      <4> QED BY <4>1, <4>2
    <3>5. FinWait1(conns, i, a, AckedBy(t, seg), seg) = tcp_send(conns, i, u, {"ACK"}, <<>>)
      BY <1>3, <1>6, <2>1, <3>1, <3>2 DEF FinWait1, tcp_send_ack
    <3> QED BY <3>4, <3>5 DEF TurnResult
  <2>4. ASSUME t.tcpstateflags = "UIP_FIN_WAIT_2", t.len = 0
        PROVE  TurnResult(conns, i, FinWait2(conns, i, a, seg), t, seg)
    <3>1. a = t BY <1>2, <2>4
    <3>2. PICK u : u = [v EXCEPT !.tcpstateflags = "UIP_TIME_WAIT"] OBVIOUS
    <3>3. /\ u.peer = t.peer /\ u.snd_nxt = a.snd_nxt /\ u.len = a.len
          /\ u.rcv_nxt \in SeqNo /\ u.rcv_nxt = v.rcv_nxt
          /\ u.tcpstateflags = "UIP_TIME_WAIT"
      BY <2>2, <3>2 DEF uip_conn
    <3>4. Ends(t, u, seg, {"ACK"}, <<>>) BY <1>6, <2>2, <2>4, <3>1, <3>3 DEF Ends
    <3>5. Turn(t, u, seg, {"ACK"}, <<>>) BY <3>3, <3>4 DEF Turn
    <3>6. FinWait2(conns, i, a, seg) = tcp_send(conns, i, u, {"ACK"}, <<>>)
      BY <1>3, <1>6, <2>1, <3>2 DEF FinWait2, tcp_send_ack
    <3> QED BY <3>5, <3>6 DEF TurnResult
  <2> QED BY <2>3, <2>4
<1>7. CASE "FIN" \notin seg.flags
  <2>1. ASSUME ~AckedBy(t, seg)
        PROVE  /\ TurnResult(conns, i, tcp_send_ack(conns, i, h), t, seg)
               /\ TurnResult(conns, i, Kept(conns, i, h), t, seg)
    BY <1>5, <2>1 DEF TurnResult, tcp_send_ack
  <2>2. ASSUME t.tcpstateflags = "UIP_FIN_WAIT_1", AckedBy(t, seg)
        PROVE  TurnResult(conns, i, FinWait1(conns, i, a, AckedBy(t, seg), seg), t, seg)
    <3>1. PICK u : u = [h EXCEPT !.tcpstateflags = "UIP_FIN_WAIT_2"] OBVIOUS
    <3>2. /\ u.peer = t.peer /\ u.snd_nxt = a.snd_nxt /\ u.len = a.len
          /\ u.rcv_nxt \in SeqNo /\ u.tcpstateflags = "UIP_FIN_WAIT_2"
      BY <1>4, <3>1 DEF uip_conn
    <3>3. Acks(t, u, seg) /\ u.len = 0 BY <1>2, <2>2, <3>2 DEF Acks
    <3>4. Turn(t, u, seg, {}, <<>>) BY <2>2, <3>2, <3>3 DEF Turn, Answers, Settles
    <3>5. FinWait1(conns, i, a, AckedBy(t, seg), seg) = Kept(conns, i, u)
      BY <1>3, <1>7, <2>2, <3>1 DEF FinWait1
    <3> QED BY <3>4, <3>5 DEF TurnResult
  <2>3. ASSUME t.tcpstateflags = "UIP_FIN_WAIT_1", ~AckedBy(t, seg)
        PROVE  TurnResult(conns, i, FinWait1(conns, i, a, AckedBy(t, seg), seg), t, seg)
    BY <1>3, <1>7, <2>1, <2>3 DEF FinWait1
  <2>4. ASSUME t.tcpstateflags = "UIP_FIN_WAIT_2", t.len = 0
        PROVE  TurnResult(conns, i, FinWait2(conns, i, a, seg), t, seg)
    BY <1>2, <1>3, <1>7, <2>1, <2>4 DEF FinWait2
  <2> QED BY <2>2, <2>3, <2>4
<1> QED BY <1>6, <1>7

\* What a segment of connection i does, in the states that a client in step
\* leaves it in.
LEMMA FoundTurn ==
    ASSUME NEW conns, NEW i, NEW t, t = conns[i], NEW cl, NEW seg, Belongs(t, cl, seg),
           "RST" \notin seg.flags,
           t.tcpstateflags \notin {"UIP_LAST_ACK", "UIP_TIME_WAIT"},
           t.tcpstateflags = "UIP_FIN_WAIT_2" => t.len = 0,
           t.tcpstateflags = "UIP_ESTABLISHED" => "FIN" \notin seg.flags,
           t.tcpstateflags = "UIP_CLOSING" => ~AckedBy(t, seg)
    PROVE  TurnResult(conns, i, found(conns, i, seg), t, seg)
<1>1. t \in uip_conn /\ t.tcpstateflags # "UIP_CLOSED" BY DEF Belongs
<1>2. Turn(t, t, seg, {}, <<>>) /\ Turn(t, t, seg, {"ACK"}, <<>>)
  BY <1>1 DEF Turn, Answers, Idles, uip_conn
<1>3. CASE OutOfOrder(t, seg)
  BY <1>2, <1>3 DEF found, TurnResult, tcp_send_ack
<1>4. CASE ~OutOfOrder(t, seg)
  <2>1. InOrder(t, cl, seg) BY <1>4 DEF InOrder
  <2>2. PICK a : a = AfterAck(t, seg) OBVIOUS
  <2>3. found(conns, i, seg) = ByState(conns, i, a, AckedBy(t, seg), seg)
    BY <1>4, <2>2 DEF found, AfterAck
  <2>4. a.tcpstateflags = t.tcpstateflags /\ (~AckedBy(t, seg) => a = t)
    BY <2>2, AfterAckOK
  <2>5. t.tcpstateflags \in TcpStates BY <1>1 DEF uip_conn
  <2>6. CASE t.tcpstateflags = "UIP_SYN_RCVD"
    BY <2>1, <2>2, <2>3, <2>4, <2>6, SynRcvdTurn DEF ByState
  <2>7. CASE t.tcpstateflags = "UIP_ESTABLISHED"
    BY <2>1, <2>2, <2>3, <2>4, <2>7, EstablishedTurn DEF ByState
  <2>8. CASE t.tcpstateflags = "UIP_FIN_WAIT_1"
    BY <2>1, <2>2, <2>3, <2>4, <2>8, FinWaitTurn DEF ByState
  <2>9. CASE t.tcpstateflags = "UIP_FIN_WAIT_2"
    BY <2>1, <2>2, <2>3, <2>4, <2>9, FinWaitTurn DEF ByState
  <2>10. CASE t.tcpstateflags = "UIP_CLOSING"
    <3>1. found(conns, i, seg) = Kept(conns, i, t) BY <2>3, <2>4, <2>10 DEF ByState
    <3> QED BY <1>2, <3>1 DEF TurnResult
  <2> QED BY <1>1, <2>5, <2>6, <2>7, <2>8, <2>9, <2>10 DEF TcpStates
<1> QED BY <1>3, <1>4

\* An acknowledgement tells that the client has everything, and nothing that
\* counts is on its way.
LEMMA AckSync ==
    ASSUME NEW cl \in Client, NEW qs \in Seq(ServerFrame), qs # <<>>,
           NEW qc \in Seq(ClientFrame), NEW t \in uip_conn, Calm(cl, qs, qc),
           Sync(cl, qs, qc, t), NEW seg \in ServerSegment, seg = Head(qs),
           AckedBy(t, seg), NEW r, r = Tail(qs)
    PROVE  /\ t.snd_nxt + t.len < Size32
           /\ RcvNxt(cl) = t.snd_nxt + t.len /\ RcvNxt(cl) = (t.snd_nxt + t.len) % Size32
           /\ \A k \in DOMAIN r : Flagged(r[k], "ACK") => r[k].ackno = RcvNxt(cl)
           /\ \A k \in DOMAIN qc : Counts(qc[k]) => qc[k].seqno < RcvNxt(cl)
<1>1. seg = qs[1] /\ 1 \in DOMAIN qs /\ seg.type = "tcp" /\ seg.ackno \in Nat
  BY TailFrames DEF ServerSegment
<1>2. \A k \in DOMAIN r : k \in Nat /\ k >= 1 /\ k + 1 \in DOMAIN qs /\ r[k] = qs[k + 1]
  BY TailFrames
<1>3. PICK x \in Nat : x = RcvNxt(cl) BY RcvNat
<1>4. PICK s \in SeqNo : s = t.snd_nxt BY DEF uip_conn
<1>5. PICK l \in 0 .. UIP_TCP_MSS : l = t.len BY DEF uip_conn
<1>6. PICK a \in Nat : a = seg.ackno BY <1>1
<1>7. UIP_TCP_MSS \in Nat /\ Size32 \in Nat /\ Size32 > 0 /\ UIP_TCP_MSS + 1 < Size32
  <2>1. PICK b \in Nat : b = BYTE * BYTE /\ b >= 1
    <3>1. BYTE * BYTE \in Nat /\ BYTE * BYTE >= 1 BY SizePositive
    <3> QED BY <3>1
  <2>2. Size32 = b * b
    <3>1. BYTE * BYTE * BYTE * BYTE = (BYTE * BYTE) * (BYTE * BYTE) BY SizePositive
    <3> QED BY <2>1, <3>1 DEF Size32
  <2>3. b * b >= b BY <2>1
  <2>4. UIP_TCP_MSS \in Nat /\ UIP_TCP_MSS + 1 < b BY <2>1, UipAssumption
  <2> QED BY <2>1, <2>2, <2>3, <2>4, SizePositive
<1>8. s \in Nat /\ l \in Nat /\ s < Size32 /\ l < Size32 /\ l \in 0 .. UIP_TCP_MSS + 1
  BY <1>7 DEF SeqNo
<1>9. l # 0 /\ a = Add32[s][l] /\ "ACK" \in seg.flags
  BY <1>4, <1>5, <1>6 DEF AckedBy, uip_outstanding
<1>10. a \in SeqNo /\ a = (s + l) % Size32 BY <1>8, <1>9, AddSeqNo
<1>11. (s + l) % Size32 = IF s + l < Size32 THEN s + l ELSE s + l - Size32
  BY <1>7, <1>8, SumRemainder
<1>12. Flagged(seg, "ACK") BY <1>1, <1>9 DEF Flagged
<1>13. a \in {s, s + l} BY <1>1, <1>4, <1>5, <1>6, <1>12 DEF Sync
<1>14. a = s + l /\ s + l < Size32
  BY <1>7, <1>8, <1>9, <1>10, <1>11, <1>13
<1>15. x \in {s, s + l} BY <1>3, <1>4, <1>5 DEF Sync
<1>16. a <= x
  <2>1. Orderly(cl, seg) BY <1>1 DEF Calm
  <2> QED BY <1>1, <1>3, <1>6, <1>9, <2>1 DEF Orderly
<1>17. x = s + l BY <1>8, <1>9, <1>14, <1>15, <1>16
<1>18. ASSUME NEW k \in DOMAIN r, Flagged(r[k], "ACK") PROVE r[k].ackno = x
  <2>1. k + 1 \in DOMAIN qs /\ r[k] = qs[k + 1] /\ 1 < k + 1 BY <1>2
  <2>2. r[k].ackno \in {s, s + l} BY <1>4, <1>5, <1>18, <2>1 DEF Sync
  <2>3. a <= r[k].ackno BY <1>1, <1>6, <1>12, <1>18, <2>1 DEF Calm, InTurn
  <2> QED BY <1>8, <1>9, <1>14, <1>17, <2>2, <2>3
<1>19. ASSUME NEW k \in DOMAIN qc, Counts(qc[k]) PROVE qc[k].seqno < x
  <2>1. Due(cl, t, qc[k]) BY <1>19 DEF Sync
  <2> QED BY <1>3, <1>4, <1>8, <1>9, <1>17, <2>1 DEF Due
<1> QED BY <1>3, <1>4, <1>5, <1>10, <1>14, <1>17, <1>18, <1>19

\* The server sends what counts to a client with an open connection.
LEMMA AddCounted ==
    ASSUME NEW cl, cl.phase = "open", NEW qs, NEW qc \in Seq(ClientFrame),
           Calm(cl, qs, qc), NEW f \in ClientSegment, "SYN" \notin f.flags,
           "RST" \notin f.flags, "FIN" \in f.flags => ~Ended(cl, qc),
           NEW q, q = Append(qc, f)
    PROVE  Calm(cl, qs, q)
<1>0. f \in ClientFrame /\ f.type = "tcp" BY DEF ClientFrame, ClientSegment
<1>1. /\ \A k \in DOMAIN q : \/ k \in DOMAIN qc /\ q[k] = qc[k]
                             \/ k = Len(qc) + 1 /\ q[k] = f
      /\ \A k \in DOMAIN qc : k \in Nat /\ k < Len(qc) + 1
      /\ Len(qc) \in Nat
  BY <1>0, AppendFrame
<1>2. \A k \in DOMAIN qc : ~Flagged(qc[k], "SYN") BY DEF Calm, Expected, Flagged
<1>3. \A k \in DOMAIN qs : ~Flagged(qs[k], "SYN") BY DEF Calm, Orderly, Flagged
<1>4. Expected(cl, f) BY DEF Expected, Ended
<1>5. \A k \in DOMAIN q : Expected(cl, q[k]) BY <1>1, <1>4 DEF Calm
<1>6. OnceOnly(q)
  <2>1. SUFFICES ASSUME NEW j \in DOMAIN q, NEW k \in DOMAIN q, j # k
                 PROVE  /\ Flagged(q[j], "SYN") => ~Counts(q[k])
                        /\ Flagged(q[j], "FIN") => ~Flagged(q[k], "FIN")
    BY DEF OnceOnly
  <2>2. ~Flagged(q[j], "SYN") BY <1>1, <1>2 DEF Flagged
  <2>3. CASE j \in DOMAIN qc /\ k \in DOMAIN qc
    BY <1>1, <2>1, <2>2, <2>3 DEF Calm, OnceOnly
  <2>4. CASE j = Len(qc) + 1 /\ k \in DOMAIN qc
    BY <1>1, <2>2, <2>4 DEF Ended, Flagged
  <2>5. CASE k = Len(qc) + 1 /\ j \in DOMAIN qc
    BY <1>1, <2>2, <2>5 DEF Ended, Flagged
  <2> QED BY <1>1, <2>1, <2>3, <2>4, <2>5
<1> QED BY <1>3, <1>5, <1>6 DEF Calm

\* A client and its only connection t, with a segment seg that the server is
\* about to take.
Meets(c, cl, qs, qc, t, seg) ==
    /\ cl \in Client /\ qs \in Seq(ServerFrame) /\ qs # <<>> /\ qc \in Seq(ClientFrame)
    /\ t \in uip_conn /\ seg \in ServerSegment /\ seg = Head(qs)
    /\ LinkOK(c, cl, qs, qc, {t.tcpstateflags}) /\ InStep(cl, qs, qc, {t})

\* The client ends, and nothing else is on its way.
LastWord(cl, seg, r, qc) ==
    /\ cl.phase = "open" /\ cl.fin /\ cl.eof /\ "ACK" \in seg.flags
    /\ seg.ackno = RcvNxt(cl) /\ Off(seg.seqno) + seg.len + 1 = cl.nxt
    /\ \A k \in DOMAIN r : r[k].type # "tcp"
    /\ \A k \in DOMAIN qc : ~Counts(qc[k])

LEMMA MeetFacts ==
    ASSUME NEW c, NEW cl, NEW qs, NEW qc, NEW t, NEW seg, Meets(c, cl, qs, qc, t, seg),
           NEW r, r = Tail(qs)
    PROVE  /\ Calm(cl, qs, qc) /\ Sync(cl, qs, qc, t)
           /\ Calm(cl, r, qc) /\ Sync(cl, r, qc, t) /\ InStep(cl, r, qc, {t})
           /\ Orderly(cl, seg) /\ seg.type = "tcp" /\ "RST" \notin seg.flags
           /\ cl.phase \in {"syn", "open"} /\ ("ACK" \in seg.flags => cl.phase = "open")
           /\ t.tcpstateflags # "UIP_TIME_WAIT"
           /\ t.tcpstateflags = "UIP_ESTABLISHED" =>
                 cl.phase = "open" /\ ~Ended(cl, qc) /\ "FIN" \notin seg.flags
           /\ "FIN" \in seg.flags => LastWord(cl, seg, r, qc)
<1>1. /\ cl \in Client /\ qs \in Seq(ServerFrame) /\ qs # <<>> /\ qc \in Seq(ClientFrame)
      /\ t \in uip_conn /\ seg \in ServerSegment /\ seg = Head(qs)
      /\ LinkOK(c, cl, qs, qc, {t.tcpstateflags}) /\ InStep(cl, qs, qc, {t})
  BY DEF Meets
<1>2. Calm(cl, qs, qc) /\ Sync(cl, qs, qc, t) BY <1>1 DEF InStep
<1>3. InStep(cl, r, qc, {t}) BY <1>1, DropRequest
<1>4. Calm(cl, r, qc) /\ Sync(cl, r, qc, t) BY <1>3 DEF InStep
<1>5. seg = qs[1] /\ 1 \in DOMAIN qs /\ seg.type = "tcp" BY <1>1, TailFrames DEF ServerSegment
<1>6. Orderly(cl, seg) /\ "RST" \notin seg.flags /\ ("SYN" \in seg.flags \/ "ACK" \in seg.flags)
  BY <1>2, <1>5 DEF Calm, Orderly
<1>7. /\ cl.fin => cl.eof
      /\ \A k \in DOMAIN qs : Flagged(qs[k], "ACK") => cl.phase = "open"
      /\ \A k \in DOMAIN qs : Flagged(qs[k], "FIN") => cl.fin
      /\ cl.eof => \A k \in DOMAIN qc : ~Counts(qc[k])
  BY <1>1, <1>2, LinkFacts
<1>8. "ACK" \in seg.flags => cl.phase = "open" BY <1>5, <1>7 DEF Flagged
<1>9. cl.phase \in {"syn", "open"} BY <1>5, <1>6, <1>8 DEF Orderly
<1>10. t.tcpstateflags # "UIP_TIME_WAIT" BY <1>2, <1>5 DEF Sync, Done
<1>11. ASSUME t.tcpstateflags = "UIP_ESTABLISHED"
       PROVE  cl.phase = "open" /\ ~Ended(cl, qc) /\ "FIN" \notin seg.flags
  <2>1. ConnectsOnce(cl, qs, qc, {"UIP_ESTABLISHED"}) BY <1>1, <1>11 DEF LinkOK
  <2>2. ~Ended(cl, qc) /\ cl.phase \in {"open", "reset"} BY <2>1 DEF ConnectsOnce, NoSyn
  <2>3. ~cl.eof BY <2>2 DEF Ended
  <2>4. "FIN" \notin seg.flags BY <1>5, <1>7, <2>3 DEF Flagged
  <2> QED BY <1>9, <2>2, <2>4
<1>12. ASSUME "FIN" \in seg.flags
       PROVE  LastWord(cl, seg, r, qc)
  <2>1. "ACK" \in seg.flags /\ seg.ackno = RcvNxt(cl) /\ Off(seg.seqno) + seg.len + 1 = cl.nxt
    BY <1>5, <1>6, <1>12 DEF Orderly
  <2>2. cl.fin /\ cl.eof BY <1>5, <1>7, <1>12 DEF Flagged
  <2>3. \A k \in DOMAIN r : k \in Nat /\ k >= 1 /\ k + 1 \in DOMAIN qs /\ r[k] = qs[k + 1]
    BY <1>1, TailFrames
  <2>4. ASSUME NEW k \in DOMAIN r PROVE r[k].type # "tcp"
    <3>1. 1 < k + 1 /\ k + 1 \in DOMAIN qs /\ r[k] = qs[k + 1] BY <2>3
    <3>2. Flagged(qs[1], "FIN") BY <1>5, <1>12 DEF Flagged
    <3> QED BY <1>2, <1>5, <3>1, <3>2 DEF Calm, InTurn
  <2> QED BY <1>7, <1>8, <2>1, <2>2, <2>4 DEF LastWord
<1> QED BY <1>2, <1>3, <1>4, <1>5, <1>6, <1>8, <1>9, <1>10, <1>11, <1>12

\* The acknowledgement of a segment goes back.
LEMMA TurnQuiet ==
    ASSUME NEW c, NEW cl, NEW qs, NEW qc, NEW t, NEW seg, Meets(c, cl, qs, qc, t, seg),
           NEW r, r = Tail(qs), NEW u \in uip_conn, NEW fl, NEW d,
           Answers(t, u, seg, fl, d)
    PROVE  InStep(cl, r, qc, {u})
<1>1. /\ Calm(cl, qs, qc) /\ Sync(cl, qs, qc, t)
      /\ Calm(cl, r, qc) /\ Sync(cl, r, qc, t)
      /\ t.tcpstateflags # "UIP_TIME_WAIT"
      /\ "FIN" \in seg.flags => cl.eof /\ "ACK" \in seg.flags /\ seg.ackno = RcvNxt(cl)
  BY MeetFacts DEF LastWord
<1>2. cl \in Client /\ t \in uip_conn /\ qc \in Seq(ClientFrame) /\ qs \in Seq(ServerFrame)
      /\ qs # <<>> /\ seg \in ServerSegment /\ seg = Head(qs)
  BY DEF Meets
<1>3. Sync(cl, r, qc, u)
  <2>1. CASE Idles(t, u, fl, d) BY <1>1, <2>1 DEF Idles, Sync, Due
  <2>2. CASE Settles(t, u, seg, fl, d)
    <3>1. AckedBy(t, seg) /\ u.snd_nxt = (t.snd_nxt + t.len) % Size32 /\ u.len = 0
          /\ u.tcpstateflags \in {"UIP_ESTABLISHED", "UIP_FIN_WAIT_2"}
      BY <2>2 DEF Settles, Acks
    <3>2. /\ RcvNxt(cl) = (t.snd_nxt + t.len) % Size32
          /\ \A k \in DOMAIN r : Flagged(r[k], "ACK") => r[k].ackno = RcvNxt(cl)
          /\ \A k \in DOMAIN qc : Counts(qc[k]) => qc[k].seqno < RcvNxt(cl)
      BY <1>1, <1>2, <3>1, AckSync
    <3> QED BY <3>1, <3>2 DEF Sync, Due
  <2>3. CASE Crosses(t, u, seg, fl, d)
    <3>1. /\ "FIN" \in seg.flags /\ ~AckedBy(t, seg)
          /\ t.tcpstateflags = "UIP_FIN_WAIT_1" /\ u.tcpstateflags = "UIP_CLOSING"
          /\ u.snd_nxt = t.snd_nxt /\ u.len = t.len
      BY <2>3 DEF Crosses
    <3>2. t.len = 1 /\ RcvNxt(cl) = t.snd_nxt + 1 BY <1>1, <3>1 DEF Sync
    <3>3. PICK s \in SeqNo : s = t.snd_nxt BY <1>2 DEF uip_conn
    <3>4. 1 \in 0 .. UIP_TCP_MSS + 1 BY UipAssumption
    <3>5. seg.ackno # Add32[s][1]
      BY <1>1, <3>1, <3>2, <3>3 DEF AckedBy, uip_outstanding
    <3>6. Add32[s][1] = (s + 1) % Size32 BY <3>4, AddSeqNo
    <3>7. s \in Nat /\ Size32 \in Nat BY SizePositive DEF SeqNo
    <3>8. s + 1 < Size32 => (s + 1) % Size32 = s + 1 BY <3>7
    <3>9. s + 1 >= Size32 BY <1>1, <3>1, <3>2, <3>3, <3>5, <3>6, <3>7, <3>8
    <3> QED BY <1>1, <3>1, <3>2, <3>3, <3>9 DEF Sync, Due
  <2> QED BY <2>1, <2>2, <2>3 DEF Answers
<1> QED BY <1>1, <1>3 DEF InStep

\* A reply of connection u.
ReplyOf(u, fl, d, f) ==
    /\ f \in ClientSegment /\ f.flags = fl /\ f.data = d
    /\ f.seqno = u.snd_nxt /\ f.ackno = u.rcv_nxt

\* A piece of the page, or the end.
LEMMA TurnSends ==
    ASSUME NEW c, NEW cl, NEW qs, NEW qc, NEW t, NEW seg, Meets(c, cl, qs, qc, t, seg),
           NEW r, r = Tail(qs), NEW u \in uip_conn, NEW fl, NEW d,
           SendsPiece(t, u, seg, fl, d) \/ SendsEnd(t, u, seg, fl, d),
           NEW f, ReplyOf(u, fl, d, f), NEW q, q = Append(qc, f)
    PROVE  InStep(cl, r, q, {u})
<1>1. /\ Calm(cl, qs, qc) /\ Sync(cl, qs, qc, t)
      /\ Calm(cl, r, qc) /\ Sync(cl, r, qc, t)
  BY MeetFacts
<1>2. t.tcpstateflags = "UIP_ESTABLISHED" BY DEF SendsPiece, SendsEnd
<1>3. cl.phase = "open" /\ ~Ended(cl, qc) BY <1>2, MeetFacts
<1>4. cl \in Client /\ t \in uip_conn /\ qc \in Seq(ClientFrame) /\ qs \in Seq(ServerFrame)
      /\ qs # <<>> /\ seg \in ServerSegment /\ seg = Head(qs)
  BY DEF Meets
<1>5. /\ f \in ClientSegment /\ f \in ClientFrame /\ f.flags = fl /\ f.data = d
      /\ f.seqno = u.snd_nxt
  BY DEF ReplyOf, ClientFrame
<1>6. "SYN" \notin f.flags /\ "RST" \notin f.flags BY <1>5 DEF SendsPiece, SendsEnd
<1>7. Calm(cl, r, q) BY <1>1, <1>3, <1>4, <1>5, <1>6, AddCounted
<1>8. \A k \in DOMAIN q : \/ k \in DOMAIN qc /\ q[k] = qc[k]
                          \/ k = Len(qc) + 1 /\ q[k] = f
  BY <1>4, <1>5, AppendFrame
<1>9. PICK x \in Nat : x = RcvNxt(cl) BY <1>4, RcvNat
<1>10. PICK s \in Nat : s = u.snd_nxt BY DEF uip_conn, SeqNo
<1>11. PICK l \in Nat : l = u.len BY UipAssumption DEF uip_conn
<1>12. Size(f) = l /\ l > 0
  <2>1. CASE SendsPiece(t, u, seg, fl, d)
    <3>1. "SYN" \notin f.flags /\ "FIN" \notin f.flags /\ l > 0 /\ Len(f.data) = l
      BY <1>5, <1>11, <2>1 DEF SendsPiece
    <3>2. Size(f) = l + 0 + 0 BY <3>1 DEF Size, One
    <3> QED BY <3>1, <3>2
  <2>2. CASE SendsEnd(t, u, seg, fl, d)
    <3>1. "SYN" \notin f.flags /\ "FIN" \in f.flags /\ l = 1 /\ Len(f.data) = 0
      BY <1>5, <1>11, <2>2 DEF SendsEnd
    <3>2. Size(f) = 0 + 0 + 1 BY <3>1 DEF Size, One
    <3> QED BY <3>1, <3>2
  <2> QED BY <2>1, <2>2
<1>13. Sync(cl, r, q, u)
  <2>1. /\ u.tcpstateflags \in {"UIP_ESTABLISHED", "UIP_FIN_WAIT_1"}
        /\ u.tcpstateflags = "UIP_FIN_WAIT_1" => u.len = 1
    BY DEF SendsPiece, SendsEnd
  <2>2. ~cl.eof BY <1>3 DEF Ended
  <2>3. CASE Acks(t, u, seg)
    <3>1. /\ RcvNxt(cl) = (t.snd_nxt + t.len) % Size32
          /\ \A k \in DOMAIN r : Flagged(r[k], "ACK") => r[k].ackno = RcvNxt(cl)
          /\ \A k \in DOMAIN qc : Counts(qc[k]) => qc[k].seqno < RcvNxt(cl)
      BY <1>1, <1>4, <2>3, AckSync, ZenonT(60) DEF Acks
    <3>2. RcvNxt(cl) = u.snd_nxt BY <2>3, <3>1 DEF Acks
    <3>3. Due(cl, u, f) BY <1>5, <1>11, <1>12, <3>2 DEF Due
    <3>4. \A k \in DOMAIN q : Counts(q[k]) => Due(cl, u, q[k])
      BY <1>8, <3>1, <3>3 DEF Due
    <3> QED BY <2>1, <2>2, <3>1, <3>2, <3>4 DEF Sync
  <2>4. CASE u.snd_nxt = t.snd_nxt /\ u.len = t.len
    <3>1. Due(cl, u, f)
      <4>1. x \in {s, s + l} BY <1>1, <1>9, <1>10, <1>11, <2>4 DEF Sync
      <4>2. x = s \/ s < x BY <1>12, <4>1
      <4> QED BY <1>5, <1>9, <1>10, <1>11, <1>12, <4>2 DEF Due
    <3>2. \A k \in DOMAIN qc : Counts(qc[k]) => Due(cl, u, qc[k])
      BY <1>1, <2>4 DEF Sync, Due
    <3>3. \A k \in DOMAIN q : Counts(q[k]) => Due(cl, u, q[k]) BY <1>8, <3>1, <3>2
    <3> QED BY <1>1, <2>1, <2>2, <2>4, <3>3 DEF Sync
  <2>5. CASE u.snd_nxt = t.snd_nxt /\ t.len = 0
    <3>1. x = s /\ \A k \in DOMAIN r : Flagged(r[k], "ACK") => r[k].ackno = s
      BY <1>1, <1>9, <1>10, <2>5 DEF Sync
    <3>2. Due(cl, u, f) BY <1>5, <1>9, <1>10, <1>11, <1>12, <3>1 DEF Due
    <3>3. ASSUME NEW k \in DOMAIN qc, Counts(qc[k]) PROVE Due(cl, u, qc[k])
      <4>1. Due(cl, t, qc[k]) BY <1>1, <3>3 DEF Sync
      <4>2. Size(qc[k]) # 0
        <5>1. qc[k] \in ClientSegment
          <6>1. qc[k] \in ClientFrame /\ qc[k].type = "tcp"
            BY <1>4, <3>3 DEF Counts, HasData, Flagged
          <6> QED BY <6>1 DEF ClientFrame, PlainFrame, EchoFrame
        <5>2. PICK m \in Nat : m = Len(qc[k].data) BY <5>1 DEF ClientSegment
        <5>3. PICK a \in 0 .. 1, b \in 0 .. 1 : /\ a = One("SYN" \in qc[k].flags)
                                                /\ b = One("FIN" \in qc[k].flags)
          BY DEF One
        <5>4. m # 0 \/ a = 1 \/ b = 1
          <6>1. qc[k].data # <<>> => m # 0 BY <5>1, <5>2 DEF ClientSegment
          <6> QED BY <3>3, <5>3, <6>1 DEF Counts, HasData, Flagged, One
        <5>5. Size(qc[k]) = m + a + b BY <5>2, <5>3 DEF Size
        <5> QED BY <5>2, <5>3, <5>4, <5>5
      <4> QED BY <2>5, <4>1, <4>2 DEF Due
    <3>4. \A k \in DOMAIN q : Counts(q[k]) => Due(cl, u, q[k]) BY <1>8, <3>2, <3>3
    <3> QED BY <1>9, <1>10, <2>1, <2>2, <3>1, <3>4 DEF Sync
  <2> QED BY <2>3, <2>4, <2>5 DEF SendsPiece, SendsEnd
<1> QED BY <1>7, <1>13 DEF InStep

\* Both have ended: the acknowledgement of the FIN is on its way, and nothing
\* else is.
LEMMA TurnEnds ==
    ASSUME NEW c, NEW cl, NEW qs, NEW qc, NEW t, NEW seg, Meets(c, cl, qs, qc, t, seg),
           NEW r, r = Tail(qs), NEW u \in uip_conn, NEW fl, NEW d, Ends(t, u, seg, fl, d),
           NEW f, ReplyOf(u, fl, d, f), NEW q, q = Append(qc, f)
    PROVE  InStep(cl, r, q, {u})
<1>1. Calm(cl, qs, qc) /\ Sync(cl, qs, qc, t) /\ Calm(cl, r, qc) BY MeetFacts
<1>2. /\ "FIN" \in seg.flags /\ fl = {"ACK"} /\ d = <<>>
      /\ u.tcpstateflags = "UIP_TIME_WAIT" /\ u.len = 0
      /\ Off(u.rcv_nxt) = Off(seg.seqno) + seg.len + 1
  BY <1>1 DEF Ends, Sync
<1>3. /\ cl.phase = "open" /\ cl.fin /\ cl.eof /\ Off(seg.seqno) + seg.len + 1 = cl.nxt
      /\ \A k \in DOMAIN r : r[k].type # "tcp"
      /\ \A k \in DOMAIN qc : ~Counts(qc[k])
  <2>1. LastWord(cl, seg, r, qc) BY <1>2, MeetFacts
  <2> QED BY <2>1 DEF LastWord
<1>4. cl \in Client /\ t \in uip_conn /\ qc \in Seq(ClientFrame) /\ qs \in Seq(ServerFrame)
      /\ qs # <<>> /\ seg \in ServerSegment /\ seg = Head(qs)
  BY DEF Meets
<1>5. u.snd_nxt = RcvNxt(cl)
  <2>1. CASE t.tcpstateflags = "UIP_FIN_WAIT_1"
    <3>1. Acks(t, u, seg) BY <2>1 DEF Ends
    <3>2. RcvNxt(cl) = (t.snd_nxt + t.len) % Size32 BY <1>1, <1>4, <3>1, AckSync DEF Acks
    <3> QED BY <3>1, <3>2 DEF Acks
  <2>2. CASE t.tcpstateflags = "UIP_FIN_WAIT_2"
    <3>1. t.len = 0 /\ u.snd_nxt = t.snd_nxt /\ RcvNxt(cl) \in {t.snd_nxt, t.snd_nxt + 0}
      BY <1>1, <2>2 DEF Sync, Ends
    <3>2. t.snd_nxt \in Nat BY <1>4 DEF uip_conn, SeqNo
    <3> QED BY <3>1, <3>2
  <2> QED BY <2>1, <2>2 DEF Ends
<1>6. /\ f \in ClientFrame /\ f.type = "tcp" /\ f.flags = {"ACK"} /\ f.data = <<>>
      /\ f.seqno = u.snd_nxt /\ f.ackno = u.rcv_nxt
  BY <1>2 DEF ReplyOf, ClientFrame, ClientSegment
<1>7. AcksAll(cl, f) BY <1>2, <1>3, <1>5, <1>6 DEF AcksAll
<1>8. /\ \A k \in DOMAIN q : \/ k \in DOMAIN qc /\ q[k] = qc[k]
                             \/ k = Len(qc) + 1 /\ q[k] = f
      /\ Len(qc) + 1 \in DOMAIN q /\ q[Len(qc) + 1] = f
  BY <1>4, <1>6, AppendFrame
<1>9. Done(cl, r, q) BY <1>3, <1>7, <1>8 DEF Done
<1>10. ~Counts(f) BY <1>6 DEF Counts, HasData, Flagged
<1>11. Sync(cl, r, q, u)
  <2>1. \A k \in DOMAIN q : ~Counts(q[k]) BY <1>3, <1>8, <1>10
  <2>2. \A k \in DOMAIN r : ~Flagged(r[k], "ACK") BY <1>3 DEF Flagged
  <2> QED BY <1>2, <1>5, <1>9, <2>1, <2>2 DEF Sync
<1>12. Calm(cl, r, q)
  <2>1. f \in ClientSegment BY DEF ReplyOf
  <2> QED BY <1>1, <1>3, <1>4, <1>6, <2>1, AddCounted
<1> QED BY <1>11, <1>12 DEF InStep

\* A segment of a connection is served.
LEMMA TurnSync ==
    ASSUME NEW c, NEW cl, NEW qs, NEW qc, NEW t, NEW seg, Meets(c, cl, qs, qc, t, seg),
           NEW r, r = Tail(qs), NEW u \in uip_conn, NEW fl, NEW d, Turn(t, u, seg, fl, d),
           NEW f, ReplyOf(u, fl, d, f)
    PROVE  /\ fl = {} => InStep(cl, r, qc, {u})
           /\ InStep(cl, r, Append(qc, f), {u})
<1>1. CASE Answers(t, u, seg, fl, d)
  <2>0. InStep(cl, r, qc, {u}) BY <1>1, TurnQuiet
  <2>1. fl \in SUBSET {"ACK"} /\ d = <<>> BY <1>1 DEF Answers, Idles, Settles, Crosses
  <2>2. f \in ClientSegment /\ f \in ClientFrame /\ f.flags = fl /\ f.data = d
    BY DEF ReplyOf, ClientFrame
  <2>3. ~Counts(f) BY <2>1, <2>2 DEF Counts, HasData, Flagged
  <2>4. cl.phase \in {"syn", "open"} BY MeetFacts
  <2>5. Expected(cl, f) BY <2>1, <2>2, <2>4 DEF Expected
  <2>6. qc \in Seq(ClientFrame) BY DEF Meets
  <2>7. InStep(cl, r, Append(qc, f), {u}) BY <2>0, <2>2, <2>3, <2>5, <2>6, AddReply
  <2> QED BY <2>0, <2>7
<1>2. CASE SendsPiece(t, u, seg, fl, d) \/ SendsEnd(t, u, seg, fl, d)
  <2>1. fl # {} BY <1>2 DEF SendsPiece, SendsEnd
  <2>2. InStep(cl, r, Append(qc, f), {u}) BY <1>2, TurnSends
  <2> QED BY <2>1, <2>2
<1>3. CASE Ends(t, u, seg, fl, d)
  <2>1. fl # {} BY <1>3 DEF Ends
  <2>2. InStep(cl, r, Append(qc, f), {u}) BY <1>3, TurnEnds
  <2> QED BY <2>1, <2>2
<1> QED BY <1>1, <1>2, <1>3 DEF Turn

\* The SYN of a client opens a connection.
LEMMA ListenSync ==
    ASSUME NEW c, NEW cl \in Client, NEW qs \in Seq(ServerFrame), qs # <<>>,
           NEW qc \in Seq(ClientFrame), NEW S, LinkOK(c, cl, qs, qc, S),
           InStep(cl, qs, qc, {}), NEW seg, seg = Head(qs), Flagged(seg, "SYN"),
           NEW u \in uip_conn, u.tcpstateflags = "UIP_SYN_RCVD", u.snd_nxt = 0, u.len = 1,
           NEW f, ReplyOf(u, {"SYN", "ACK"}, <<>>, f),
           NEW r, r = Tail(qs), NEW q, q = Append(qc, f)
    PROVE  InStep(cl, r, q, {u})
<1>1. seg = qs[1] /\ 1 \in DOMAIN qs BY TailFrames
<1>2. Calm(cl, qs, qc) BY DEF InStep
<1>3. cl.phase = "syn" /\ RcvNxt(cl) = 0
  <2>1. Orderly(cl, seg) BY <1>1, <1>2 DEF Calm
  <2>2. cl.phase = "syn" BY <2>1 DEF Orderly, Flagged
  <2> QED BY <2>2 DEF RcvNxt, Iss
<1>4. \A k \in DOMAIN qc : ~Counts(qc[k]) BY <1>1, <1>2 DEF Calm
<1>5. \A k \in DOMAIN r : k \in Nat /\ k >= 1 /\ k + 1 \in DOMAIN qs /\ r[k] = qs[k + 1]
  BY TailFrames
<1>6. ASSUME NEW k \in DOMAIN r PROVE ~Flagged(r[k], "SYN") /\ ~Flagged(r[k], "ACK")
  <2>1. k + 1 \in DOMAIN qs /\ r[k] = qs[k + 1] /\ 1 < k + 1 BY <1>5
  <2>2. ~Flagged(r[k], "SYN") BY <1>1, <1>2, <2>1 DEF Calm, InTurn
  <2>3. \A j \in DOMAIN qs : Flagged(qs[j], "ACK") => cl.phase = "open" BY <1>2, LinkFacts
  <2> QED BY <1>3, <2>1, <2>2, <2>3
<1>7. /\ f \in ClientFrame /\ f.type = "tcp" /\ f.flags = {"SYN", "ACK"} /\ f.data = <<>>
      /\ f.seqno = 0
  BY DEF ReplyOf, ClientFrame, ClientSegment
<1>8. \A k \in DOMAIN q : \/ k \in DOMAIN qc /\ q[k] = qc[k]
                          \/ k = Len(qc) + 1 /\ q[k] = f
  BY <1>7, AppendFrame
<1>9. Calm(cl, r, q)
  <2>1. InStep(cl, r, qc, {}) BY DropRequest
  <2>2. Calm(cl, r, qc) BY <2>1 DEF InStep
  <2>3. OnceOnly(q)
    <3>1. ~Flagged(f, "FIN") BY <1>7 DEF Flagged
    <3>2. \A k \in DOMAIN qc : ~Flagged(qc[k], "SYN") /\ ~Flagged(qc[k], "FIN")
      BY <1>4 DEF Counts
    <3> QED BY <1>4, <1>8, <3>1, <3>2 DEF OnceOnly
  <2>4. Expected(cl, f) BY <1>3, <1>7 DEF Expected
  <2>5. \A k \in DOMAIN q : Expected(cl, q[k]) BY <1>8, <2>2, <2>4 DEF Calm
  <2> QED BY <1>6, <2>2, <2>3, <2>5 DEF Calm
<1>10. Sync(cl, r, q, u)
  <2>1. Size(f) = 1
    <3>1. Len(f.data) = 0 /\ "SYN" \in f.flags /\ "FIN" \notin f.flags BY <1>7
    <3>2. Size(f) = 0 + 1 + 0 BY <3>1 DEF Size, One
    <3> QED BY <3>2
  <2>2. Due(cl, u, f) BY <1>3, <1>7, <2>1 DEF Due
  <2>3. \A k \in DOMAIN q : Counts(q[k]) => Due(cl, u, q[k]) BY <1>4, <1>8, <2>2
  <2> QED BY <1>3, <1>6, <2>3 DEF Sync
<1> QED BY <1>9, <1>10 DEF InStep

\* A client that the server has forgotten sends nothing but a SYN.
LEMMA NoRefusal ==
    ASSUME NEW c, NEW cl \in Client, NEW qs \in Seq(ServerFrame), qs # <<>>,
           NEW qc, NEW S, LinkOK(c, cl, qs, qc, S), InStep(cl, qs, qc, {}),
           NEW seg, seg = Head(qs), seg.type = "tcp"
    PROVE  seg.flags = {"SYN"}
<1>1. SUFFICES ASSUME seg.flags # {"SYN"} PROVE FALSE OBVIOUS
<1>2. seg = qs[1] /\ 1 \in DOMAIN qs BY TailFrames
<1>3. Calm(cl, qs, qc) BY DEF InStep
<1>4. SentOK(c, cl, seg) BY <1>2 DEF LinkOK
<1>5. "SYN" \notin seg.flags BY <1>1, <1>4 DEF SentOK
<1>6. Orderly(cl, seg) BY <1>2, <1>3 DEF Calm
<1>7. Flagged(seg, "ACK") BY <1>5, <1>6 DEF Orderly, Flagged
<1>8. cl.phase = "open"
  <2>1. \A k \in DOMAIN qs : Flagged(qs[k], "ACK") => cl.phase = "open" BY <1>3, LinkFacts
  <2> QED BY <1>2, <1>7, <2>1
<1>9. Done(cl, qs, qc) BY <1>8 DEF InStep, Accepted
<1> QED BY <1>2, <1>9 DEF Done

-----------------------------------------------------------------------------
(***************************************************************************)
(* A step touches one client, its link and one entry of the table.  An     *)
(* entry that is given to another client was in TIME_WAIT.                 *)
(***************************************************************************)
Lapses(conns, conns1, d) ==
    /\ ConnsOf(conns1, d) \subseteq ConnsOf(conns, d)
    /\ \A t \in ConnsOf(conns, d) \ ConnsOf(conns1, d) : t.tcpstateflags = "UIP_TIME_WAIT"

LEMMA LapseInStep ==
    ASSUME NEW cl, NEW qs, NEW qc, NEW T, InStep(cl, qs, qc, T), NEW T1 \in SUBSET T,
           \A t \in T \ T1 : t.tcpstateflags = "UIP_TIME_WAIT"
    PROVE  InStep(cl, qs, qc, T1)
<1>1. ASSUME T1 = {}, T # {} PROVE Done(cl, qs, qc)
  <2>1. PICK t \in T : t \notin T1 BY <1>1
  <2>2. Sync(cl, qs, qc, t) BY DEF InStep
  <2> QED BY <2>1, <2>2 DEF Sync
<1> QED BY <1>1 DEF InStep

LEMMA ConnsDef ==
    ASSUME NEW conns, NEW c, NEW t
    PROVE  t \in ConnsOf(conns, c) <=>
              \E i \in DOMAIN conns : /\ conns[i] = t /\ t.tcpstateflags # "UIP_CLOSED"
                                      /\ t.peer = c
BY DEF ConnsOf

LEMMA StepOne ==
    ASSUME HttpInv, StepInv, NEW c \in Peers, NEW cl1, NEW qs1, NEW qc1,
           client' = [client EXCEPT ![c] = cl1],
           toServer' = [toServer EXCEPT ![c] = qs1],
           toClient' = [toClient EXCEPT ![c] = qc1],
           ArpOK(arp_table'), Resolved(arp_table', c, cl1, qc1),
           \A g : g # NoHost /\ uip_arp_out(arp_table, g) => uip_arp_out(arp_table', g),
           \A d \in Peers : d # c => Lapses(uip_conns, uip_conns', d),
           faults' = 0 => faults = 0 /\ InStep(cl1, qs1, qc1, ConnsOf(uip_conns', c))
    PROVE  StepInv'
<1>1. PlacesOK BY DEF HttpInv
<1>2. client'[c] = cl1 /\ toServer'[c] = qs1 /\ toClient'[c] = qc1 BY <1>1 DEF PlacesOK
<1>3. \A d \in Peers : d # c => /\ client'[d] = client[d] /\ toServer'[d] = toServer[d]
                                /\ toClient'[d] = toClient[d]
  BY <1>1 DEF PlacesOK
<1>4. ASSUME NEW d \in Peers PROVE Resolved(arp_table', d, client'[d], toClient'[d])
  <2>1. CASE d = c BY <1>2, <2>1
  <2>2. CASE d # c
    <3>1. Resolved(arp_table, d, client[d], toClient[d]) BY DEF StepInv
    <3>2. NextHop[d] # NoHost BY ClientAssumption, ArpAssumption
    <3> QED BY <1>3, <2>2, <3>1, <3>2 DEF Resolved
  <2> QED BY <2>1, <2>2
<1>5. ASSUME faults' = 0, NEW d \in Peers
      PROVE  InStep(client'[d], toServer'[d], toClient'[d], ConnsOf(uip_conns', d))
  <2>1. CASE d = c BY <1>2, <1>5, <2>1
  <2>2. CASE d # c
    <3>1. InStep(client[d], toServer[d], toClient[d], ConnsOf(uip_conns, d))
      BY <1>5 DEF StepInv
    <3>2. PICK cl : cl = client[d] OBVIOUS
    <3>3. PICK qs : qs = toServer[d] OBVIOUS
    <3>4. PICK qc : qc = toClient[d] OBVIOUS
    <3>5. PICK T : T = ConnsOf(uip_conns, d) OBVIOUS
    <3>6. PICK T1 : T1 = ConnsOf(uip_conns', d) OBVIOUS
    <3>7. T1 \in SUBSET T /\ \A t \in T \ T1 : t.tcpstateflags = "UIP_TIME_WAIT"
      BY <2>2, <3>5, <3>6 DEF Lapses
    <3>8. InStep(cl, qs, qc, T1) BY <3>1, <3>2, <3>3, <3>4, <3>5, <3>7, LapseInStep
    <3> QED BY <1>3, <2>2, <3>2, <3>3, <3>4, <3>6, <3>8
  <2> QED BY <2>1, <2>2
<1> QED BY <1>4, <1>5 DEF StepInv

\* What the invariants say of one client.
LEMMA OneInStep ==
    ASSUME HttpInv, StepInv, NEW c \in Peers
    PROVE  /\ ArpOK(arp_table) /\ Resolved(arp_table, c, client[c], toClient[c])
           /\ faults = 0 => /\ InStep(client[c], toServer[c], toClient[c], ConnsOf(uip_conns, c))
                            /\ Calm(client[c], toServer[c], toClient[c])
           /\ ConnsOf(uip_conns, c) \subseteq uip_conn
<1>1. ConnsOf(uip_conns, c) \subseteq uip_conn BY DEF ConnsOf, HttpInv, PlacesOK
<1> QED BY <1>1 DEF StepInv, InStep

\* The table of connections is left alone, and the ARP table too.
LEMMA LeftAlone ==
    ASSUME ServerUnchanged
    PROVE  /\ uip_conns' = uip_conns /\ arp_table' = arp_table
           /\ \A d : Lapses(uip_conns, uip_conns', d)
BY DEF ServerUnchanged, Lapses

\* A client goes on and sends a frame.
LEMMA SendInStep ==
    ASSUME HttpInv, StepInv, NEW c \in Peers, NEW cl1, NEW f,
           client' = [client EXCEPT ![c] = cl1], Send(c, f), ServerUnchanged,
           toClient' = toClient,
           client[c].phase \in {"idle", "arp"} => cl1.phase \in {"idle", "arp"},
           faults' = 0 => /\ faults = 0
                          /\ InStep(cl1, Append(toServer[c], f), toClient[c], ConnsOf(uip_conns, c))
    PROVE  StepInv'
<1>1. uip_conns' = uip_conns /\ arp_table' = arp_table BY DEF ServerUnchanged
<1>2. \A d \in Peers : d # c => Lapses(uip_conns, uip_conns', d) BY LeftAlone
<1>3. toServer' = [toServer EXCEPT ![c] = Append(toServer[c], f)] BY DEF Send
<1>4. toClient' = [toClient EXCEPT ![c] = toClient[c]] BY OneLink
<1>5. ArpOK(arp_table') BY <1>1, OneInStep
<1>6. Resolved(arp_table', c, cl1, toClient[c]) BY <1>1, OneInStep DEF Resolved
<1>7. \A g : g # NoHost /\ uip_arp_out(arp_table, g) => uip_arp_out(arp_table', g) BY <1>1
<1>8. faults' = 0 =>
        /\ faults = 0
        /\ InStep(cl1, Append(toServer[c], f), toClient[c], ConnsOf(uip_conns', c))
  BY <1>1
<1> QED BY <1>2, <1>3, <1>4, <1>5, <1>6, <1>7, <1>8, StepOne

\* A step that is a fault is counted.
LEMMA FaultSeen ==
    ASSUME HttpInv, NEW c, Fault(c)
    PROVE  faults' # 0
<1>1. faults \in Nat BY ClientAssumption DEF HttpInv, PlacesOK
<1> QED BY <1>1 DEF Fault

LEMMA ResolveInStep ==
    ASSUME HttpInv, StepInv, NEW c \in Peers, Resolve(c)
    PROVE  StepInv'
<1>1. PICK cl \in Client : cl = client[c] BY OneLink
<1>2. PICK cl1 : cl1 = [cl EXCEPT !.phase = "arp"] OBVIOUS
<1>3. client' = [client EXCEPT ![c] = cl1] BY <1>1, <1>2 DEF Resolve
<1>4. /\ cl1.phase = "arp" /\ cl1.una = cl.una /\ cl1.nxt = cl.nxt
      /\ cl1.got = cl.got /\ cl1.eof = cl.eof /\ cl1.fin = cl.fin /\ cl1.early = cl.early
  BY <1>2 DEF Client
<1>5. cl.phase = "idle" BY <1>1 DEF Resolve
<1>6. PICK f : f = [type |-> "arp_request"] OBVIOUS
<1>7. f \in ServerFrame /\ f.type = "arp_request" BY <1>6 DEF PlainFrame, ServerFrame
<1>8. Send(c, f) /\ ServerUnchanged /\ toClient' = toClient /\ faults' = faults
  BY <1>6 DEF Resolve
<1>9. ASSUME faults' = 0
      PROVE  InStep(cl1, Append(toServer[c], f), toClient[c], ConnsOf(uip_conns, c))
  <2>1. PICK qs \in Seq(ServerFrame) : qs = toServer[c] BY OneLink
  <2>2. PICK qc : qc = toClient[c] OBVIOUS
  <2>3. PICK T : T = ConnsOf(uip_conns, c) OBVIOUS
  <2>4. InStep(cl, qs, qc, T) BY <1>1, <1>8, <1>9, <2>1, <2>2, <2>3, OneInStep
  <2>5. InStep(cl1, qs, qc, T) BY <1>4, <1>5, <2>4, SameView
  <2>6. InStep(cl1, Append(qs, f), qc, T) BY <1>7, <2>5, AddRequest
  <2> QED BY <2>1, <2>2, <2>3, <2>6
<1> QED BY <1>1, <1>3, <1>4, <1>5, <1>8, <1>9, SendInStep

LEMMA PingInStep ==
    ASSUME HttpInv, StepInv, NEW c \in Peers, NEW rest \in Rests, Ping(c, rest)
    PROVE  StepInv'
<1>1. PICK cl \in Client : cl = client[c] BY OneLink
<1>2. PICK cl1 : cl1 = [cl EXCEPT !.phase = "pinged"] OBVIOUS
<1>3. client' = [client EXCEPT ![c] = cl1] BY <1>1, <1>2 DEF Ping
<1>4. /\ cl1.phase = "pinged" /\ cl1.una = cl.una /\ cl1.nxt = cl.nxt
      /\ cl1.got = cl.got /\ cl1.eof = cl.eof /\ cl1.fin = cl.fin /\ cl1.early = cl.early
  BY <1>2 DEF Client
<1>5. cl.phase = "resolved" BY <1>1 DEF Ping
<1>6. PICK x : x = Size16 - 1 - OnesAdd(HTONS_ECHO, rest) OBVIOUS
<1>7. x \in u16_t /\ rest \in u16_t
  <2>1. rest \in u16_t BY ClientAssumption
  <2> QED BY <1>6, <2>1, EchoValidReply
<1>8. PICK f : f = [type |-> "echo", rest |-> rest, damage |-> "none", icmpchksum |-> x]
  OBVIOUS
<1>9. f \in EchoFrame /\ f.type = "echo" BY <1>7, <1>8 DEF EchoFrame, Damages
<1>10. f \in ServerFrame BY <1>9 DEF ServerFrame
<1>11. Send(c, f) /\ ServerUnchanged /\ toClient' = toClient /\ faults' = faults
  BY <1>6, <1>8 DEF Ping
<1>12. ASSUME faults' = 0
       PROVE  InStep(cl1, Append(toServer[c], f), toClient[c], ConnsOf(uip_conns, c))
  <2>1. PICK qs \in Seq(ServerFrame) : qs = toServer[c] BY OneLink
  <2>2. PICK qc : qc = toClient[c] OBVIOUS
  <2>3. PICK T : T = ConnsOf(uip_conns, c) OBVIOUS
  <2>4. InStep(cl, qs, qc, T) BY <1>1, <1>11, <1>12, <2>1, <2>2, <2>3, OneInStep
  <2>5. InStep(cl1, qs, qc, T) BY <1>4, <1>5, <2>4, SameView
  <2>6. f.type # "tcp" BY <1>9
  <2>7. InStep(cl1, Append(qs, f), qc, T) BY <1>10, <2>5, <2>6, AddRequest
  <2> QED BY <2>1, <2>2, <2>3, <2>7
<1> QED BY <1>1, <1>3, <1>5, <1>11, <1>12, SendInStep

\* A SYN of a client that connects, or tries it again.
LEMMA SynFrame ==
    ASSUME NEW c \in Peers, NEW cl \in Client, ClientOK(cl), cl.phase = "syn",
           cl.una < cl.nxt, NEW f, f = Again(c, cl)
    PROVE  f \in ServerFrame /\ f.type = "tcp" /\ f.flags = {"SYN"}
<1>1. f \in ServerFrame BY AgainOK
<1>2. f.type = "tcp" /\ f.flags = {"SYN"} BY DEF Again, Segment
<1> QED BY <1>1, <1>2

LEMMA ConnectInStep ==
    ASSUME HttpInv, StepInv, NEW c \in Peers, Connect(c)
    PROVE  StepInv'
<1>1. PICK cl \in Client : cl = client[c] /\ ClientOK(cl) BY OneLink
<1>2. PICK cl1 : cl1 = [cl EXCEPT !.phase = "syn", !.nxt = 1] OBVIOUS
<1>3. client' = [client EXCEPT ![c] = cl1] BY <1>1, <1>2 DEF Connect
<1>4. REQ \in Nat /\ 1 \in 0 .. REQ + 2 BY ClientAssumption
<1>5. /\ cl1 \in Client /\ cl1.phase = "syn" /\ cl1.una = cl.una /\ cl1.nxt = 1
      /\ cl1.got = cl.got /\ cl1.eof = cl.eof /\ cl1.fin = cl.fin /\ cl1.early = cl.early
      /\ cl1.resized = cl.resized
  BY <1>2, <1>4 DEF Client
<1>6. cl.phase \in {"resolved", "pinged"} BY <1>1 DEF Connect
<1>7. cl.una = 0 /\ cl.nxt = 0
  <2>1. cl.nxt = 0 /\ cl.una <= 0 BY <1>1, <1>6 DEF ClientOK
  <2>2. cl.una \in 0 .. REQ + 2 BY DEF Client
  <2> QED BY <1>4, <2>1, <2>2
<1>8. ClientOK(cl1) BY <1>1, <1>5, <1>6, <1>7 DEF ClientOK, ReqSent
<1>9. PICK f : f = Again(c, cl1) OBVIOUS
<1>10. f \in ServerFrame /\ f.type = "tcp" /\ f.flags = {"SYN"}
  BY <1>5, <1>7, <1>8, <1>9, SynFrame
<1>11. Send(c, f) /\ ServerUnchanged /\ toClient' = toClient /\ faults' = faults
  BY <1>1, <1>2, <1>9 DEF Connect
<1>12. ASSUME faults' = 0
       PROVE  InStep(cl1, Append(toServer[c], f), toClient[c], ConnsOf(uip_conns, c))
  <2>1. PICK qs \in Seq(ServerFrame) : qs = toServer[c] BY OneLink
  <2>2. PICK qc : qc = toClient[c] OBVIOUS
  <2>3. PICK T : T = ConnsOf(uip_conns, c) OBVIOUS
  <2>4. PICK S : S = States(uip_conns, c) OBVIOUS
  <2>5. InStep(cl, qs, qc, T) BY <1>1, <1>11, <1>12, <2>1, <2>2, <2>3, OneInStep
  <2>6. LinkOK(c, cl, qs, qc, S) BY <1>1, <2>1, <2>2, <2>4, OneLink
  <2>7. Calm(cl, qs, qc) BY <2>5 DEF InStep
  <2>8. \A k \in DOMAIN qs : qs[k].type # "tcp"
    <3>1. \A k \in DOMAIN qs : Flagged(qs[k], "ACK") => cl.phase = "open"
      BY <2>6, <2>7, LinkFacts
    <3> QED BY <1>6, <2>7, <3>1 DEF Calm, Orderly, Flagged
  <2>9. \A k \in DOMAIN qc : qc[k].type # "tcp" BY <1>6, <2>7 DEF Calm, Expected
  <2>10. InStep(cl1, Append(qs, f), qc, T)
    BY <1>5, <1>6, <1>10, <2>5, <2>8, <2>9, SendSyn
  <2> QED BY <2>1, <2>2, <2>3, <2>10
<1> QED BY <1>1, <1>3, <1>6, <1>11, <1>12, SendInStep

LEMMA RequestInStep ==
    ASSUME HttpInv, StepInv, NEW c \in Peers, NEW n \in 1 .. REQ, NEW w \in Windows,
           Request(c, n, w)
    PROVE  StepInv'
<1>1. PICK cl \in Client : cl = client[c] BY OneLink
<1>2. PICK nxt \in 0 .. REQ + 2 : nxt = cl.nxt BY DEF Client
<1>3. PICK cl1 : cl1 = [cl EXCEPT !.nxt = nxt + n] OBVIOUS
<1>4. client' = [client EXCEPT ![c] = cl1] BY <1>1, <1>2, <1>3 DEF Request
<1>5. cl.phase = "open" /\ ~cl.fin /\ ReqSent(cl) + n <= REQ /\ n <= UIP_TCP_MSS
  BY <1>1 DEF Request
<1>6. REQ \in Nat /\ UIP_TCP_MSS \in Nat BY ClientAssumption, UipAssumption
<1>7. ReqSent(cl) = nxt - 1 BY <1>2, <1>5, <1>6 DEF ReqSent
<1>8. nxt + n \in 0 .. REQ + 2 BY <1>5, <1>6, <1>7
<1>9. /\ cl1 \in Client /\ cl1.phase = "open" /\ cl1.got = cl.got /\ cl1.eof = cl.eof
      /\ cl1.early = cl.early
  BY <1>3, <1>5, <1>8 DEF Client
<1>10. PICK fl \in SUBSET TcpFlags : fl = {"ACK", "PSH"} BY DEF TcpFlags
<1>11. PICK f : f = Segment(c, cl, fl, nxt, n, w) OBVIOUS
<1>12. f \in ServerFrame
  <2>1. n \in 0 .. UIP_TCP_MSS /\ w \in Nat BY <1>5, <1>6, ClientAssumption
  <2> QED BY <1>11, <2>1, SegmentOK
<1>13. /\ f.type = "tcp" /\ "ACK" \in f.flags /\ "SYN" \notin f.flags /\ "RST" \notin f.flags
       /\ "FIN" \notin f.flags /\ f.ackno = RcvNxt(cl)
  BY <1>10, <1>11 DEF Segment
<1>14. Send(c, f) /\ ServerUnchanged /\ toClient' = toClient /\ faults' = faults
  BY <1>1, <1>2, <1>10, <1>11 DEF Request
<1>15. ASSUME faults' = 0
       PROVE  InStep(cl1, Append(toServer[c], f), toClient[c], ConnsOf(uip_conns, c))
  <2>1. PICK qs \in Seq(ServerFrame) : qs = toServer[c] BY OneLink
  <2>2. PICK qc : qc = toClient[c] OBVIOUS
  <2>3. PICK T : T = ConnsOf(uip_conns, c) OBVIOUS
  <2>4. PICK S : S = States(uip_conns, c) OBVIOUS
  <2>5. InStep(cl, qs, qc, T) BY <1>1, <1>14, <1>15, <2>1, <2>2, <2>3, OneInStep
  <2>6. LinkOK(c, cl, qs, qc, S) BY <1>1, <2>1, <2>2, <2>4, OneLink
  <2>7. Calm(cl, qs, qc) BY <2>5 DEF InStep
  <2>8. \A k \in DOMAIN qs : ~Flagged(qs[k], "FIN")
    <3>1. \A k \in DOMAIN qs : Flagged(qs[k], "FIN") => cl.fin BY <2>6, <2>7, LinkFacts
    <3> QED BY <1>5, <3>1
  <2>9. ~Done(cl, qs, qc) BY <1>5 DEF Done
  <2>10. InStep(cl1, Append(qs, f), qc, T)
    BY <1>5, <1>9, <1>12, <1>13, <2>5, <2>8, <2>9, SendOpen
  <2> QED BY <2>1, <2>2, <2>3, <2>10
<1> QED BY <1>1, <1>4, <1>5, <1>14, <1>15, SendInStep

LEMMA CloseInStep ==
    ASSUME HttpInv, StepInv, NEW c \in Peers, Close(c)
    PROVE  StepInv'
<1>1. PICK cl \in Client : cl = client[c] /\ ClientOK(cl) BY OneLink
<1>2. PICK nxt \in 0 .. REQ + 2 : nxt = cl.nxt BY DEF Client
<1>3. PICK cl1 : cl1 = [cl EXCEPT !.fin = TRUE, !.nxt = nxt + 1, !.early = ~cl.eof] OBVIOUS
<1>4. client' = [client EXCEPT ![c] = cl1] BY <1>1, <1>2, <1>3 DEF Close
<1>5. cl.phase = "open" /\ ~cl.fin BY <1>1 DEF Close
<1>6. REQ \in Nat /\ UIP_TCP_MSS \in Nat BY ClientAssumption, UipAssumption
<1>7. ReqSent(cl) = nxt - 1 /\ ReqSent(cl) <= REQ
  BY <1>1, <1>2, <1>5, <1>6 DEF ReqSent, ClientOK
<1>8. nxt + 1 \in 0 .. REQ + 2 BY <1>6, <1>7
<1>9. /\ cl1 \in Client /\ cl1.phase = "open" /\ cl1.nxt = nxt + 1
      /\ cl1.got = cl.got /\ cl1.eof = cl.eof /\ (cl1.early <=> ~cl.eof)
      /\ cl1.early \in BOOLEAN /\ cl.early \in BOOLEAN
  BY <1>3, <1>5, <1>8 DEF Client
<1>10. PICK fl \in SUBSET TcpFlags : fl = {"FIN", "ACK"} BY DEF TcpFlags
<1>11. PICK f : f = Segment(c, cl1, fl, nxt, 0, FullWindow) OBVIOUS
<1>12. f \in ServerFrame /\ Off(f.seqno) = nxt
  <2>1. PICK z \in 0 .. UIP_TCP_MSS : z = 0 BY <1>6
  <2>2. f = Segment(c, cl1, fl, nxt, z, FullWindow) BY <1>11, <2>1
  <2> QED BY <1>9, <2>2, FullWindowOK, SegmentOK
<1>13. /\ f.type = "tcp" /\ "ACK" \in f.flags /\ "SYN" \notin f.flags /\ "RST" \notin f.flags
       /\ f.len = 0 /\ f.ackno = RcvNxt(cl1)
  BY <1>10, <1>11 DEF Segment
<1>14. Send(c, f) /\ ServerUnchanged /\ toClient' = toClient
  BY <1>1, <1>2, <1>3, <1>10, <1>11 DEF Close
<1>15. faults' = 0 => faults = 0 /\ cl.eof BY <1>1, FaultSeen DEF Close
<1>16. ASSUME faults' = 0
       PROVE  InStep(cl1, Append(toServer[c], f), toClient[c], ConnsOf(uip_conns, c))
  <2>1. PICK qs \in Seq(ServerFrame) : qs = toServer[c] BY OneLink
  <2>2. PICK qc : qc = toClient[c] OBVIOUS
  <2>3. PICK T : T = ConnsOf(uip_conns, c) OBVIOUS
  <2>4. PICK S : S = States(uip_conns, c) OBVIOUS
  <2>5. InStep(cl, qs, qc, T) BY <1>1, <1>15, <1>16, <2>1, <2>2, <2>3, OneInStep
  <2>6. LinkOK(c, cl, qs, qc, S) BY <1>1, <2>1, <2>2, <2>4, OneLink
  <2>7. Calm(cl, qs, qc) BY <2>5 DEF InStep
  <2>8. \A k \in DOMAIN qs : ~Flagged(qs[k], "FIN")
    <3>1. \A k \in DOMAIN qs : Flagged(qs[k], "FIN") => cl.fin BY <2>6, <2>7, LinkFacts
    <3> QED BY <1>5, <3>1
  <2>9. ~Done(cl, qs, qc) BY <1>5 DEF Done
  <2>10. cl1.early = cl.early
    <3>1. ~cl1.early BY <1>9, <1>15, <1>16
    <3>2. ~cl.early BY <2>7 DEF Calm
    <3> QED BY <1>9, <3>1, <3>2
  <2>11. f.ackno = RcvNxt(cl) BY <1>5, <1>9, <1>13 DEF RcvNxt
  <2>12. Off(f.seqno) + f.len + 1 = cl1.nxt
    <3>1. nxt + 0 + 1 = nxt + 1 BY <1>6
    <3> QED BY <1>9, <1>12, <1>13, <3>1
  <2>13. InStep(cl1, Append(qs, f), qc, T)
    BY <1>5, <1>9, <1>12, <1>13, <2>5, <2>8, <2>9, <2>10, <2>11, <2>12, SendOpen
  <2> QED BY <2>1, <2>2, <2>3, <2>13
<1> QED BY <1>1, <1>4, <1>5, <1>14, <1>15, <1>16, SendInStep

\* What is not acknowledged, once more.
LEMMA AgainFrame ==
    ASSUME NEW c \in Peers, NEW cl \in Client, ClientOK(cl), cl.phase = "open",
           cl.una < cl.nxt, NEW f, f = Again(c, cl)
    PROVE  /\ f \in ServerFrame /\ f.type = "tcp" /\ "ACK" \in f.flags /\ "SYN" \notin f.flags
           /\ "RST" \notin f.flags /\ f.ackno = RcvNxt(cl)
           /\ "FIN" \in f.flags => Off(f.seqno) + f.len + 1 = cl.nxt
<1>1. REQ \in Nat /\ UIP_TCP_MSS \in Nat BY ClientAssumption, UipAssumption
<1>2. PICK una \in 0 .. REQ + 2 : una = cl.una BY DEF Client
<1>3. PICK nxt \in 0 .. REQ + 2 : nxt = cl.nxt BY DEF Client
<1>4. una < nxt BY <1>2, <1>3
<1>5. PICK b \in 0 .. 1 : b = IF cl.fin THEN 1 ELSE 0 OBVIOUS
<1>6. PICK rest : rest = nxt - una - b OBVIOUS
<1>7. rest \in Nat BY <1>1, <1>4, <1>5, <1>6
<1>8. PICK len : len = Least(rest, UIP_TCP_MSS) OBVIOUS
<1>9. len \in 0 .. UIP_TCP_MSS BY <1>1, <1>7, <1>8 DEF Least
<1>10. PICK fl : fl = {"ACK"} \cup (IF cl.fin /\ len = rest THEN {"FIN"} ELSE {}) OBVIOUS
<1>11. /\ fl \in SUBSET TcpFlags /\ "SYN" \notin fl /\ "ACK" \in fl /\ "RST" \notin fl
       /\ "FIN" \in fl => cl.fin /\ len = rest
  BY <1>10 DEF TcpFlags
<1>12. f = Segment(c, cl, fl, una, len, FullWindow)
  BY <1>2, <1>3, <1>5, <1>6, <1>8, <1>10 DEF Again
<1>13. f \in ServerFrame BY <1>9, <1>11, <1>12, FullWindowOK, SegmentOK
<1>14. Off(f.seqno) = una BY <1>9, <1>11, <1>12, FullWindowOK, SegmentOK
<1>15. f.type = "tcp" /\ f.flags = fl /\ f.len = len /\ f.ackno = RcvNxt(cl)
  BY <1>12 DEF Segment
<1>16. ASSUME "FIN" \in fl PROVE una + len + 1 = nxt
  <2>1. b = 1 /\ len = rest BY <1>5, <1>11, <1>16
  <2> QED BY <1>1, <1>6, <2>1
<1> QED BY <1>3, <1>11, <1>13, <1>14, <1>15, <1>16

LEMMA TimeoutInStep ==
    ASSUME HttpInv, StepInv, NEW c \in Peers, Timeout(c)
    PROVE  StepInv'
<1>1. PICK cl \in Client : cl = client[c] /\ ClientOK(cl) BY OneLink
<1>2. client' = [client EXCEPT ![c] = cl] BY <1>1, OneLink DEF Timeout
<1>3. PICK f : f = IF cl.phase = "arp" THEN [type |-> "arp_request"] ELSE Again(c, cl) OBVIOUS
<1>4. Send(c, f) /\ ServerUnchanged /\ toClient' = toClient
  BY <1>1, <1>3 DEF Timeout
<1>5. faults' = 0 => faults = 0 /\ toServer[c] = <<>> /\ toClient[c] = <<>>
  BY FaultSeen DEF Timeout, Quiet
<1>6. ASSUME faults' = 0
      PROVE  InStep(cl, Append(toServer[c], f), toClient[c], ConnsOf(uip_conns, c))
  <2>1. PICK qs \in Seq(ServerFrame) : qs = toServer[c] BY OneLink
  <2>2. PICK qc : qc = toClient[c] OBVIOUS
  <2>3. PICK T : T = ConnsOf(uip_conns, c) OBVIOUS
  <2>4. InStep(cl, qs, qc, T) BY <1>1, <1>5, <1>6, <2>1, <2>2, <2>3, OneInStep
  <2>5. DOMAIN qs = {} /\ DOMAIN qc = {}
    <3>1. qs = <<>> /\ qc = <<>> BY <1>5, <1>6, <2>1, <2>2
    <3> QED BY <3>1
  <2>6. cl.phase \in {"arp", "syn", "open"} /\ (cl.phase # "arp" => cl.una < cl.nxt)
    BY <1>1 DEF Timeout
  <2>7. CASE cl.phase = "arp"
    <3>1. f = [type |-> "arp_request"] BY <1>3, <2>7
    <3>2. f \in ServerFrame /\ f.type = "arp_request" BY <3>1 DEF PlainFrame, ServerFrame
    <3>3. f.type # "tcp" BY <3>2
    <3>4. InStep(cl, Append(qs, f), qc, T) BY <2>4, <3>2, <3>3, AddRequest
    <3> QED BY <2>1, <2>2, <2>3, <3>4
  <2>8. CASE cl.phase = "syn"
    <3>1. f = Again(c, cl) BY <1>3, <2>8
    <3>2. f \in ServerFrame /\ f.type = "tcp" /\ f.flags = {"SYN"}
      BY <1>1, <2>6, <2>8, <3>1, SynFrame
    <3>3. InStep(cl, Append(qs, f), qc, T) BY <2>4, <2>5, <2>8, <3>2, SendSyn
    <3> QED BY <2>1, <2>2, <2>3, <3>3
  <2>9. CASE cl.phase = "open"
    <3>1. f = Again(c, cl) BY <1>3, <2>9
    <3>2. /\ f \in ServerFrame /\ f.type = "tcp" /\ "ACK" \in f.flags /\ "SYN" \notin f.flags
          /\ "RST" \notin f.flags /\ f.ackno = RcvNxt(cl)
          /\ "FIN" \in f.flags => Off(f.seqno) + f.len + 1 = cl.nxt
      BY <1>1, <2>6, <2>9, <3>1, AgainFrame
    <3>3. ~Done(cl, qs, qc)
      <4>1. cl.una # cl.nxt
        <5>1. cl.una \in Int /\ cl.nxt \in Int /\ cl.una < cl.nxt
          BY <2>6, <2>9, ClientAssumption DEF Client
        <5> QED BY <5>1
      <4> QED BY <2>5, <4>1 DEF Done
    <3>4. InStep(cl, Append(qs, f), qc, T) BY <2>4, <2>5, <2>9, <3>2, <3>3, SendOpen
    <3> QED BY <2>1, <2>2, <2>3, <3>4
  <2> QED BY <2>6, <2>7, <2>8, <2>9
<1> QED BY <1>1, <1>2, <1>4, <1>5, <1>6, SendInStep

\* A client takes a frame, and sends the next one of its link if it answers.
LEMMA TakeInStep ==
    ASSUME HttpInv, StepInv, NEW c \in Peers, NEW w \in Windows, Take(c, w)
    PROVE  StepInv'
<1>1. PICK cl \in Client : cl = client[c] /\ ClientOK(cl) BY OneLink
<1>2. PICK qs \in Seq(ServerFrame) : qs = toServer[c] BY OneLink
<1>3. PICK qc \in Seq(ClientFrame) : qc = toClient[c] BY OneLink
<1>4. PICK S : S = States(uip_conns, c) OBVIOUS
<1>5. PICK T : T = ConnsOf(uip_conns, c) OBVIOUS
<1>6. qc # <<>> /\ LinkOK(c, cl, qs, qc, S)
  BY <1>1, <1>2, <1>3, <1>4, OneLink DEF Take
<1>7. PICK f \in ClientFrame : f = Head(qc) /\ f = qc[1] /\ 1 \in DOMAIN qc BY <1>6, TailFrames
<1>8. ReplyOK(cl, f) /\ (cl.eof => ~HasData(f)) BY <1>6, <1>7 DEF LinkOK, NothingFollows
<1>9. f.type = "tcp" => f \in ClientSegment BY DEF ClientFrame, PlainFrame, EchoFrame
<1>10. PICK cl1 : cl1 = IF f.type # "tcp" THEN cl
                        ELSE IF cl.phase = "syn" THEN Connected(cl, f)
                        ELSE IF cl.phase = "open" THEN Received(cl, f)
                        ELSE cl
  OBVIOUS
<1>11. PICK cl2 : cl2 = IF f.type = "arp_reply" /\ cl.phase = "arp"
                        THEN [cl EXCEPT !.phase = "resolved"] ELSE cl1
  OBVIOUS
<1>12. PICK r : r = Tail(qc) OBVIOUS
<1>13. PICK qs1 : qs1 = IF f.type = "arp_request" THEN Append(qs, [type |-> "arp_reply"])
                        ELSE IF f.type = "tcp" /\ Answered(cl1, f) THEN Append(qs, Ack(c, cl1, w))
                        ELSE qs
  OBVIOUS
<1>14. /\ toClient' = [toClient EXCEPT ![c] = r]
       /\ client' = [client EXCEPT ![c] = cl2]
       /\ uip_conns' = uip_conns /\ arp_table' = arp_table /\ faults' = faults
  BY <1>1, <1>3, <1>7, <1>10, <1>11, <1>12 DEF Take, ServerUnchanged
<1>15. toServer' = [toServer EXCEPT ![c] = qs1]
  <2>1. IF f.type = "arp_request" THEN Send(c, [type |-> "arp_reply"])
        ELSE IF f.type = "tcp" /\ Answered(cl1, f) THEN Send(c, Ack(c, cl1, w))
        ELSE toServer' = toServer
    BY <1>1, <1>3, <1>7, <1>10 DEF Take
  <2>2. toServer = [toServer EXCEPT ![c] = qs] BY <1>2, OneLink
  <2> QED BY <1>2, <1>13, <2>1, <2>2 DEF Send
<1>16. Resolved(arp_table, c, cl2, r)
  <2>1. Resolved(arp_table, c, cl, qc) BY <1>1, <1>3, OneInStep
  <2>2. \A k \in DOMAIN r : k + 1 \in DOMAIN qc /\ r[k] = qc[k + 1] BY <1>6, <1>12, TailFrames
  <2>3. CASE f.type = "arp_reply" BY <1>7, <2>1, <2>3 DEF Resolved
  <2>4. CASE f.type # "arp_reply"
    <3>1. cl.phase \in {"idle", "arp"} => cl2 = cl BY <1>10, <1>11, <2>4
    <3> QED BY <2>1, <2>2, <3>1 DEF Resolved
  <2> QED BY <2>3, <2>4
<1>17. ASSUME faults = 0 PROVE InStep(cl2, qs1, r, T)
  <2>1. InStep(cl, qs, qc, T) /\ T \subseteq uip_conn
    BY <1>1, <1>2, <1>3, <1>5, <1>17, OneInStep
  <2>2. CASE f.type = "tcp"
    <3>1. cl.phase \in {"syn", "open"} BY <1>7, <2>1, <2>2 DEF InStep, Calm, Expected
    <3>2. cl2 = cl1 BY <1>11, <2>2
    <3>3. /\ cl1 \in Client
          /\ \/ cl.phase = "syn" /\ cl1 = Connected(cl, f)
             \/ cl.phase = "open" /\ cl1 = Received(cl, f)
      <4>1. CASE cl.phase = "syn"
        <5>1. cl1 = Connected(cl, f) BY <1>10, <2>2, <4>1
        <5> QED BY <1>1, <4>1, <5>1, ConnectedOK
      <4>2. CASE cl.phase = "open"
        <5>1. cl1 = Received(cl, f) BY <1>10, <2>2, <4>2
        <5> QED BY <1>1, <1>8, <1>9, <2>2, <4>2, <5>1, ReceivedOK
      <4> QED BY <3>1, <4>1, <4>2
    <3>4. /\ Answered(cl1, f) => InStep(cl1, Append(qs, Ack(c, cl1, w)), r, T)
          /\ ~Answered(cl1, f) => InStep(cl1, qs, r, T)
      BY <1>6, <1>7, <1>9, <1>12, <2>1, <2>2, <3>3, TakeSegment
    <3> QED BY <1>13, <2>2, <3>2, <3>4
  <2>3. CASE f.type = "arp_reply" /\ cl.phase = "arp"
    <3>1. cl2 = [cl EXCEPT !.phase = "resolved"] BY <1>11, <2>3
    <3>2. /\ cl2.phase = "resolved" /\ cl2.una = cl.una /\ cl2.nxt = cl.nxt
          /\ cl2.got = cl.got /\ cl2.eof = cl.eof /\ cl2.fin = cl.fin /\ cl2.early = cl.early
      BY <3>1 DEF Client
    <3>3. InStep(cl2, qs, qc, T) BY <2>1, <2>3, <3>2, SameView
    <3>4. InStep(cl2, qs, r, T) BY <1>6, <1>12, <3>2, <3>3, DropReply
    <3> QED BY <1>13, <2>3, <3>4
  <2>4. CASE f.type # "tcp" /\ ~(f.type = "arp_reply" /\ cl.phase = "arp")
    <3>1. cl2 = cl BY <1>10, <1>11, <2>4
    <3>2. ~AcksAll(cl, Head(qc)) BY <1>7, <2>4 DEF AcksAll
    <3>3. InStep(cl, qs, r, T) BY <1>6, <1>12, <2>1, <3>2, DropReply
    <3>4. CASE f.type = "arp_request"
      <4>1. PICK g : g = [type |-> "arp_reply"] OBVIOUS
      <4>2. g \in ServerFrame /\ g.type = "arp_reply" BY <4>1 DEF PlainFrame, ServerFrame
      <4>3. g.type # "tcp" BY <4>2
      <4>4. InStep(cl, Append(qs, g), r, T) BY <3>3, <4>2, <4>3, AddRequest
      <4> QED BY <1>13, <3>1, <3>4, <4>1, <4>4
    <3>5. CASE f.type # "arp_request" BY <1>13, <2>4, <3>1, <3>3, <3>5
    <3> QED BY <3>4, <3>5
  <2> QED BY <2>2, <2>3, <2>4
<1>18. ArpOK(arp_table') /\ Resolved(arp_table', c, cl2, r)
  BY <1>14, <1>16, OneInStep
<1>19. \A d \in Peers : d # c => Lapses(uip_conns, uip_conns', d) BY <1>14 DEF Lapses
<1>20. \A g : g # NoHost /\ uip_arp_out(arp_table, g) => uip_arp_out(arp_table', g) BY <1>14
<1>21. faults' = 0 => faults = 0 /\ InStep(cl2, qs1, r, ConnsOf(uip_conns', c))
  BY <1>5, <1>14, <1>17
<1> QED BY <1>14, <1>15, <1>18, <1>19, <1>20, <1>21, StepOne

\* Faults: only the ARP table matters then.
PartOf(q, r) == \A k \in DOMAIN q : \E j \in DOMAIN r : q[k] = r[j]

LEMMA FaultInStep ==
    ASSUME HttpInv, StepInv, NEW c \in Peers, Fault(c), ServerUnchanged,
           NEW cl1, NEW qs1, NEW qc1,
           client' = [client EXCEPT ![c] = cl1],
           toServer' = [toServer EXCEPT ![c] = qs1],
           toClient' = [toClient EXCEPT ![c] = qc1],
           client[c].phase \in {"idle", "arp"} => cl1.phase \in {"idle", "arp"},
           PartOf(qc1, toClient[c])
    PROVE  StepInv'
<1>1. uip_conns' = uip_conns /\ arp_table' = arp_table BY DEF ServerUnchanged
<1>2. \A d \in Peers : d # c => Lapses(uip_conns, uip_conns', d) BY LeftAlone
<1>3. ArpOK(arp_table') BY <1>1, OneInStep
<1>4. Resolved(arp_table', c, cl1, qc1) BY <1>1, OneInStep DEF Resolved, PartOf
<1>5. \A g : g # NoHost /\ uip_arp_out(arp_table, g) => uip_arp_out(arp_table', g) BY <1>1
<1>6. faults' # 0 BY FaultSeen
<1> QED BY <1>2, <1>3, <1>4, <1>5, <1>6, StepOne

LEMMA AbortInStep ==
    ASSUME HttpInv, StepInv, NEW c \in Peers, Abort(c)
    PROVE  StepInv'
<1>1. PICK cl \in Client : cl = client[c] BY OneLink
<1>2. PICK cl1 : cl1 = [cl EXCEPT !.phase = "reset"] OBVIOUS
<1>3. client' = [client EXCEPT ![c] = cl1] BY <1>1, <1>2 DEF Abort
<1>4. PICK qs1 : toServer' = [toServer EXCEPT ![c] = qs1] BY DEF Abort, Send
<1>5. toClient' = [toClient EXCEPT ![c] = toClient[c]] BY OneLink DEF Abort
<1>6. Fault(c) /\ ServerUnchanged /\ client[c].phase = "open" BY DEF Abort
<1>7. client[c].phase \notin {"idle", "arp"} BY <1>6
<1>8. PartOf(toClient[c], toClient[c]) BY DEF PartOf
<1> QED BY <1>3, <1>4, <1>5, <1>6, <1>7, <1>8, FaultInStep

LEMMA LoseInStep ==
    ASSUME HttpInv, StepInv, NEW c \in Peers, LoseRequest(c) \/ LoseReply(c)
    PROVE  StepInv'
<1>1. Fault(c) /\ ServerUnchanged BY DEF LoseRequest, LoseReply
<1>2. PICK cl1 : cl1 = client[c] /\ client' = [client EXCEPT ![c] = cl1]
  BY OneLink DEF LoseRequest, LoseReply
<1>3. PICK qs1 : toServer' = [toServer EXCEPT ![c] = qs1]
  BY OneLink, ZenonT(60) DEF LoseRequest, LoseReply
<1>4. PICK qc1 : toClient' = [toClient EXCEPT ![c] = qc1] /\ PartOf(qc1, toClient[c])
  <2>1. CASE LoseRequest(c) BY <2>1, OneLink DEF LoseRequest, PartOf
  <2>2. CASE LoseReply(c)
    <3>1. /\ toClient' = [toClient EXCEPT ![c] = Tail(toClient[c])] /\ toClient[c] # <<>>
      BY <2>2 DEF LoseReply
    <3>2. \A k \in DOMAIN Tail(toClient[c]) : /\ k + 1 \in DOMAIN toClient[c]
                                              /\ Tail(toClient[c])[k] = toClient[c][k + 1]
      BY <3>1, OneLink, TailFrames
    <3> QED BY <3>1, <3>2 DEF PartOf
  <2> QED BY <2>1, <2>2
<1>5. client[c].phase \in {"idle", "arp"} => cl1.phase \in {"idle", "arp"} BY <1>2
<1> QED BY <1>1, <1>2, <1>3, <1>4, <1>5, FaultInStep

LEMMA DamageInStep ==
    ASSUME HttpInv, StepInv, NEW c \in Peers, NEW dm \in {"header", "body"}, Damage(c, dm)
    PROVE  StepInv'
<1>1. Fault(c) /\ ServerUnchanged BY DEF Damage
<1>2. client' = [client EXCEPT ![c] = client[c]] BY OneLink DEF Damage
<1>3. toClient' = [toClient EXCEPT ![c] = toClient[c]] BY OneLink DEF Damage
<1>4. PICK qs1 : toServer' = [toServer EXCEPT ![c] = qs1] BY DEF Damage
<1>5. PartOf(toClient[c], toClient[c]) BY DEF PartOf
<1> QED BY <1>1, <1>2, <1>3, <1>4, <1>5, FaultInStep

\* The server takes a frame that is no segment, and may answer it.
LEMMA AnswerInStep ==
    ASSUME HttpInv, StepInv, NEW c \in Peers, toServer[c] # <<>>,
           toServer' = [toServer EXCEPT ![c] = Tail(toServer[c])],
           client' = client, uip_conns' = uip_conns, faults' = faults, ArpOK(arp_table'),
           \A g : g # NoHost /\ uip_arp_out(arp_table, g) => uip_arp_out(arp_table', g),
           \/ toClient' = toClient
           \/ \E f \in ClientFrame :
                 /\ f.type # "tcp"
                 /\ f.type = "arp_reply" => uip_arp_out(arp_table', NextHop[c])
                 /\ toClient' = [toClient EXCEPT ![c] = Append(toClient[c], f)]
    PROVE  StepInv'
<1>1. PICK cl : cl = client[c] OBVIOUS
<1>2. PICK qs \in Seq(ServerFrame) : qs = toServer[c] BY OneLink
<1>3. PICK qc \in Seq(ClientFrame) : qc = toClient[c] BY OneLink
<1>4. PICK T : T = ConnsOf(uip_conns, c) OBVIOUS
<1>5. PICK r : r = Tail(qs) OBVIOUS
<1>6. faults = 0 => InStep(cl, r, qc, T)
  <2>1. faults = 0 => InStep(cl, qs, qc, T) BY <1>1, <1>2, <1>3, <1>4, OneInStep
  <2> QED BY <1>2, <1>5, <2>1, DropRequest
<1>7. Resolved(arp_table', c, cl, qc)
  <2>1. NextHop[c] # NoHost BY ClientAssumption, ArpAssumption
  <2> QED BY <1>1, <1>3, <2>1, OneInStep DEF Resolved
<1>8. PICK q : /\ toClient' = [toClient EXCEPT ![c] = q] /\ Resolved(arp_table', c, cl, q)
               /\ faults = 0 => InStep(cl, r, q, T)
  <2>1. CASE toClient' = toClient BY <1>3, <1>6, <1>7, <2>1, OneLink
  <2>2. ASSUME NEW f \in ClientFrame, f.type # "tcp",
               f.type = "arp_reply" => uip_arp_out(arp_table', NextHop[c]),
               toClient' = [toClient EXCEPT ![c] = Append(toClient[c], f)]
        PROVE  \E q : /\ toClient' = [toClient EXCEPT ![c] = q]
                      /\ Resolved(arp_table', c, cl, q)
                      /\ faults = 0 => InStep(cl, r, q, T)
    <3>1. PICK q : q = Append(qc, f) OBVIOUS
    <3>2. \A k \in DOMAIN q : \/ k \in DOMAIN qc /\ q[k] = qc[k]
                              \/ k = Len(qc) + 1 /\ q[k] = f
      BY <3>1, AppendFrame
    <3>3. Resolved(arp_table', c, cl, q) BY <1>7, <2>2, <3>2 DEF Resolved
    <3>4. ~Counts(f) /\ Expected(cl, f) BY <2>2 DEF Counts, HasData, Flagged, Expected
    <3>5. faults = 0 => InStep(cl, r, q, T) BY <1>6, <3>1, <3>4, AddReply
    <3> QED BY <1>3, <2>2, <3>1, <3>3, <3>5
  <2> QED BY <2>1, <2>2
<1>9. \A d \in Peers : d # c => Lapses(uip_conns, uip_conns', d) BY DEF Lapses
<1>10. client' = [client EXCEPT ![c] = cl] BY <1>1, OneLink
<1>11. toServer' = [toServer EXCEPT ![c] = r] BY <1>2, <1>5
<1>12. faults' = 0 => faults = 0 /\ InStep(cl, r, q, ConnsOf(uip_conns', c)) BY <1>4, <1>8
<1> QED BY <1>8, <1>9, <1>10, <1>11, <1>12, StepOne

LEMMA ServeArpInStep ==
    ASSUME EnoughEntries, HttpInv, StepInv, NEW c \in Peers, toServer[c] # <<>>, NEW f,
           ServeArp(c, f), toServer' = [toServer EXCEPT ![c] = Tail(@)], faults' = faults
    PROVE  StepInv'
<1>1. PICK op : op = IF f.type = "arp_request" THEN "ARP_REQUEST" ELSE "ARP_REPLY" OBVIOUS
<1>2. /\ arp_table' = uip_arp_update(arp_table, NextHop[c])
      /\ \/ toClient' = toClient
         \/ toClient' = [toClient EXCEPT ![c] = Append(toClient[c], [type |-> "arp_reply"])]
      /\ uip_conns' = uip_conns /\ client' = client
  <2>1. PICK r : r = uip_arp_arpin(arp_table, op, NextHop[c]) OBVIOUS
  <2>2. r.arp_table = uip_arp_update(arp_table, NextHop[c]) BY <2>1 DEF uip_arp_arpin
  <2>3. /\ arp_table' = r.arp_table
        /\ toClient' = [toClient EXCEPT ![c] =
                            IF r.reply THEN Append(@, [type |-> "arp_reply"]) ELSE @]
        /\ uip_conns' = uip_conns /\ client' = client
    BY <1>1, <2>1 DEF ServeArp
  <2>4. CASE r.reply BY <2>2, <2>3, <2>4
  <2>5. CASE ~r.reply
    <3>1. toClient' = toClient BY <2>3, <2>5, OneLink
    <3> QED BY <2>2, <2>3, <3>1
  <2> QED BY <2>4, <2>5
<1>3. PICK h \in NextHops : h = NextHop[c] BY DEF NextHops
<1>4. PICK new : new = arp_table' OBVIOUS
<1>5. /\ ArpOK(new) /\ uip_arp_out(new, h)
      /\ \A g : g # NoHost /\ uip_arp_out(arp_table, g) => uip_arp_out(new, g)
  <2>1. PICK table \in [1 .. UIP_ARPTAB_SIZE -> arp_entry] : table = arp_table /\ ArpOK(table)
    BY OneLink, OneInStep
  <2>2. new = uip_arp_update(table, h) BY <1>2, <1>3, <1>4, <2>1
  <2>3. /\ ArpOK(new) /\ uip_arp_out(new, h)
        /\ \A g : g # NoHost /\ uip_arp_out(table, g) => uip_arp_out(new, g)
    BY <2>1, <2>2, ArpUpdated
  <2> QED BY <2>1, <2>3
<1>6. PICK g : g = [type |-> "arp_reply"] OBVIOUS
<1>7. g \in PlainFrame /\ g.type = "arp_reply" BY <1>6 DEF PlainFrame
<1>8. g \in ClientFrame /\ g.type # "tcp" BY <1>7 DEF ClientFrame
<1> QED BY <1>2, <1>3, <1>4, <1>5, <1>6, <1>8, AnswerInStep

LEMMA ServeEchoInStep ==
    ASSUME HttpInv, StepInv, NEW c \in Peers, toServer[c] # <<>>, NEW f, f = Head(toServer[c]),
           ServeEcho(c, f), toServer' = [toServer EXCEPT ![c] = Tail(@)], faults' = faults
    PROVE  StepInv'
<1>1. f.type = "echo" /\ uip_conns' = uip_conns /\ arp_table' = arp_table /\ client' = client
  BY DEF ServeEcho
<1>2. f \in ServerFrame /\ SentOK(c, client[c], f)
  <2>1. f = toServer[c][1] /\ 1 \in DOMAIN toServer[c] BY OneLink, TailFrames
  <2> QED BY <2>1, OneLink DEF LinkOK
<1>3. f \in EchoFrame BY <1>1, <1>2 DEF ServerFrame, PlainFrame, ServerSegment
<1>4. PICK x : x = IcmpReplyChecksum(f.icmpchksum) OBVIOUS
<1>5. x \in u16_t
  <2>1. f.rest \in u16_t BY <1>3 DEF EchoFrame
  <2>2. f.icmpchksum = Size16 - 1 - OnesAdd(HTONS_ECHO, f.rest) BY <1>1, <1>2 DEF SentOK
  <2> QED BY <1>4, <2>1, <2>2, EchoValidReply
<1>6. PICK p : p = [type |-> "echo_reply", rest |-> f.rest, damage |-> f.damage,
                    icmpchksum |-> x]
  OBVIOUS
<1>7. p \in EchoFrame /\ p.type = "echo_reply" BY <1>3, <1>5, <1>6 DEF EchoFrame
<1>8. PICK g : g = Framed(c, p) OBVIOUS
<1>9. g \in ClientFrame /\ g.type \notin {"tcp", "arp_reply"}
  BY <1>7, <1>8, FramedOK DEF ClientFrame
<1>10. \/ toClient' = toClient
       \/ toClient' = [toClient EXCEPT ![c] = Append(toClient[c], g)]
  BY <1>4, <1>6, <1>8, OneLink DEF ServeEcho
<1>11. ArpOK(arp_table') BY <1>1, OneInStep
<1> QED BY <1>1, <1>9, <1>10, <1>11, AnswerInStep

LEMMA ServeOtherInStep ==
    ASSUME HttpInv, StepInv, NEW c \in Peers, toServer[c] # <<>>, NEW f, ServeOther(f),
           toServer' = [toServer EXCEPT ![c] = Tail(@)], faults' = faults
    PROVE  StepInv'
<1>1. uip_conns' = uip_conns /\ arp_table' = arp_table /\ client' = client
      /\ toClient' = toClient
  BY DEF ServeOther
<1>2. ArpOK(arp_table') BY <1>1, OneInStep
<1> QED BY <1>1, <1>2, AnswerInStep

\* A client cl with its connections T when a segment was taken from qs and
\* out is the answer of uIP.
Heeded(c, cl, qs, qc, out, T) ==
    \/ out = <<>> /\ InStep(cl, Tail(qs), qc, T)
    \/ \E p : /\ out = <<p>> /\ p.dest = c /\ cl.phase \in {"syn", "open"}
              /\ InStep(cl, Tail(qs), Append(qc, AnswerFrame(p)), T)

\* Connection t expects segment seg.
Live(cl, t, seg) ==
    /\ "RST" \notin seg.flags /\ cl.phase \in {"syn", "open"}
    /\ t.tcpstateflags # "UIP_TIME_WAIT"
    /\ t.tcpstateflags = "UIP_ESTABLISHED" => "FIN" \notin seg.flags

LEMMA MeetLive ==
    ASSUME NEW c, NEW cl, NEW qs, NEW qc, NEW t, NEW seg, Meets(c, cl, qs, qc, t, seg)
    PROVE  Calm(cl, qs, qc) /\ Sync(cl, qs, qc, t) /\ Live(cl, t, seg)
<1>1. PICK r : r = Tail(qs) OBVIOUS
<1>2. /\ Calm(cl, qs, qc) /\ Sync(cl, qs, qc, t)
      /\ Calm(cl, r, qc) /\ Sync(cl, r, qc, t) /\ InStep(cl, r, qc, {t})
      /\ Orderly(cl, seg) /\ seg.type = "tcp" /\ "RST" \notin seg.flags
      /\ cl.phase \in {"syn", "open"} /\ ("ACK" \in seg.flags => cl.phase = "open")
      /\ t.tcpstateflags # "UIP_TIME_WAIT"
      /\ t.tcpstateflags = "UIP_ESTABLISHED" =>
            cl.phase = "open" /\ ~Ended(cl, qc) /\ "FIN" \notin seg.flags
      /\ "FIN" \in seg.flags => LastWord(cl, seg, r, qc)
  BY <1>1, MeetFacts, ZenonT(60)
<1> QED BY <1>2 DEF Live

\* What a segment of connection i leads to.
Followed(c, cl, qs, qc, conns, i, res) ==
    \E u \in uip_conn : /\ u.peer = c /\ u.tcpstateflags # "UIP_CLOSED"
                        /\ res.conns = [conns EXCEPT ![i] = u]
                        /\ Heeded(c, cl, qs, qc, res.out, {u})

LEMMA FoundHeeded ==
    ASSUME NEW c, NEW cl, NEW qs, NEW qc, NEW t, NEW seg, Meets(c, cl, qs, qc, t, seg),
           NEW conns \in [1 .. UIP_CONNS -> uip_conn], NEW i \in 1 .. UIP_CONNS, t = conns[i],
           t.peer = c, Belongs(t, cl, seg), NEW res, res = found(conns, i, seg),
           Result(conns, i, res, t, cl, seg)
    PROVE  Followed(c, cl, qs, qc, conns, i, res)
<1>1. /\ Calm(cl, qs, qc) /\ Sync(cl, qs, qc, t) /\ "RST" \notin seg.flags
      /\ cl.phase \in {"syn", "open"} /\ t.tcpstateflags # "UIP_TIME_WAIT"
      /\ t.tcpstateflags = "UIP_ESTABLISHED" => "FIN" \notin seg.flags
  <2>1. Calm(cl, qs, qc) /\ Sync(cl, qs, qc, t) /\ Live(cl, t, seg) BY MeetLive
  <2> QED BY <2>1 DEF Live
<1>2. cl \in Client /\ t \in uip_conn /\ qc \in Seq(ClientFrame) /\ qs \in Seq(ServerFrame)
      /\ qs # <<>> /\ seg \in ServerSegment /\ seg = Head(qs)
  BY DEF Meets
<1>3. t.tcpstateflags = "UIP_CLOSING" => ~AckedBy(t, seg)
  <2> SUFFICES ASSUME t.tcpstateflags = "UIP_CLOSING", AckedBy(t, seg) PROVE FALSE OBVIOUS
  <2>1. t.len = 1 /\ t.snd_nxt + 1 >= Size32 BY <1>1 DEF Sync
  <2>2. t.snd_nxt + t.len < Size32 BY <1>1, <1>2, AckSync
  <2>3. t.snd_nxt \in Nat /\ Size32 \in Nat BY <1>2, SizePositive DEF uip_conn, SeqNo
  <2> QED BY <2>1, <2>2, <2>3
<1>4. /\ t.tcpstateflags \notin {"UIP_LAST_ACK", "UIP_TIME_WAIT"}
      /\ t.tcpstateflags = "UIP_FIN_WAIT_2" => t.len = 0
      /\ t.tcpstateflags # "UIP_CLOSED"
  BY <1>1 DEF Sync, Belongs
<1>5. TurnResult(conns, i, res, t, seg) BY <1>1, <1>3, <1>4, FoundTurn
<1>6. PICK u, fl, d : /\ Turn(t, u, seg, fl, d)
                      /\ \/ res = Kept(conns, i, u) /\ fl = {} /\ d = <<>>
                         \/ res = tcp_send(conns, i, u, fl, d)
  BY <1>5 DEF TurnResult
<1>7. res.conns = [conns EXCEPT ![i] = u]
  <2>1. CASE res = Kept(conns, i, u) BY <2>1 DEF Kept, Drop
  <2>2. CASE res = tcp_send(conns, i, u, fl, d) BY <2>2 DEF tcp_send
  <2> QED BY <1>6, <2>1, <2>2
<1>8. u \in uip_conn
  <2>1. PICK v, a, b : /\ Advance(t, v, cl, seg, a, b)
                       /\ res = Kept(conns, i, v) \/ res = tcp_send(conns, i, v, a, b)
    BY DEF Result
  <2>2. res.conns = [conns EXCEPT ![i] = v]
    <3>1. CASE res = Kept(conns, i, v) BY <3>1 DEF Kept, Drop
    <3>2. CASE res = tcp_send(conns, i, v, a, b) BY <3>2 DEF tcp_send
    <3> QED BY <2>1, <3>1, <3>2
  <2>3. v \in uip_conn BY <2>1 DEF Advance
  <2>4. res.conns[i] = v /\ res.conns[i] = u BY <1>7, <2>2
  <2> QED BY <2>3, <2>4
<1>9. u.peer = c /\ u.rcv_nxt \in SeqNo BY <1>6 DEF Turn
<1>10. u.tcpstateflags # "UIP_CLOSED"
  BY <1>4, <1>6
  DEF Turn, Answers, Idles, Settles, Crosses, SendsPiece, SendsEnd, Ends
<1>11. fl \in SUBSET TcpFlags /\ d \in Seq(0 .. RESPONSE_LEN)
  <2>1. fl \in SUBSET {"ACK"} \/ fl = {"ACK", "PSH"} \/ fl = {"FIN", "ACK"}
    BY <1>6 DEF Turn, Answers, Idles, Settles, Crosses, SendsPiece, SendsEnd, Ends
  <2>2. d = <<>> \/ d \in Seq(0 .. RESPONSE_LEN)
    BY <1>6 DEF Turn, Answers, Idles, Settles, Crosses, SendsPiece, SendsEnd, Ends
  <2>3. fl \in SUBSET TcpFlags BY <2>1 DEF TcpFlags
  <2>4. <<>> \in Seq(0 .. RESPONSE_LEN) OBVIOUS
  <2>5. d \in Seq(0 .. RESPONSE_LEN) BY <2>2, <2>4, Zenon
  <2> QED BY <2>3, <2>5
<1>12. PICK p : p = [dest |-> u.peer, flags |-> fl, seqno |-> u.snd_nxt,
                     ackno |-> u.rcv_nxt, data |-> d]
  OBVIOUS
<1>13. PICK f : f = AnswerFrame(p) OBVIOUS
<1>14. ReplyOf(u, fl, d, f)
  <2>1. u.snd_nxt \in Nat BY <1>8, SizePositive DEF uip_conn, SeqNo
  <2> QED BY <1>9, <1>11, <1>12, <1>13, <2>1 DEF ReplyOf, AnswerFrame, ClientSegment
<1>15. PICK r : r = Tail(qs) OBVIOUS
<1>16. /\ fl = {} => InStep(cl, r, qc, {u})
       /\ InStep(cl, r, Append(qc, f), {u})
  BY <1>6, <1>8, <1>14, <1>15, TurnSync
<1>17. Heeded(c, cl, qs, qc, res.out, {u})
  <2>1. CASE res = Kept(conns, i, u) /\ fl = {}
    <3>1. res.out = <<>> BY <2>1 DEF Kept, Drop
    <3> QED BY <1>15, <1>16, <2>1, <3>1 DEF Heeded
  <2>2. CASE res = tcp_send(conns, i, u, fl, d)
    <3>1. res.out = <<p>> BY <1>12, <2>2 DEF tcp_send
    <3>2. p.dest = c BY <1>9, <1>12
    <3> QED BY <1>1, <1>13, <1>15, <1>16, <3>1, <3>2 DEF Heeded
  <2> QED BY <1>6, <2>1, <2>2
<1> QED BY <1>7, <1>8, <1>9, <1>10, <1>17 DEF Followed

\* A new connection.
LEMMA OpenedHeeded ==
    ASSUME NEW c, NEW cl \in Client, NEW qs \in Seq(ServerFrame), qs # <<>>,
           NEW qc \in Seq(ClientFrame), NEW S, LinkOK(c, cl, qs, qc, S),
           InStep(cl, qs, qc, {}), NEW seg, seg = Head(qs), seg.type = "tcp",
           NEW u, Opened(c, cl, seg, u),
           NEW conns, NEW i, NEW res, res = tcp_send(conns, i, u, {"SYN", "ACK"}, <<>>)
    PROVE  Heeded(c, cl, qs, qc, res.out, {u})
<1>1. /\ u \in uip_conn /\ u.peer = c /\ u.tcpstateflags = "UIP_SYN_RCVD"
      /\ u.snd_nxt = 0 /\ u.len = 1 /\ seg.flags = {"SYN"}
  BY DEF Opened, ConnOK, Iss
<1>2. PICK p : p = [dest |-> u.peer, flags |-> {"SYN", "ACK"}, seqno |-> u.snd_nxt,
                    ackno |-> u.rcv_nxt, data |-> <<>>]
  OBVIOUS
<1>3. res.out = <<p>> /\ p.dest = c BY <1>1, <1>2 DEF tcp_send
<1>4. PICK f : f = AnswerFrame(p) OBVIOUS
<1>5. ReplyOf(u, {"SYN", "ACK"}, <<>>, f)
  <2>1. u.snd_nxt \in Nat /\ u.rcv_nxt \in SeqNo BY <1>1, SizePositive DEF uip_conn, SeqNo
  <2>2. f.flags = {"SYN", "ACK"} /\ f.data = <<>> /\ f.seqno = u.snd_nxt /\ f.ackno = u.rcv_nxt
    BY <1>2, <1>4 DEF AnswerFrame
  <2>3. f \in ClientSegment BY <1>2, <1>4, <2>1 DEF AnswerFrame, ClientSegment, TcpFlags
  <2> QED BY <2>2, <2>3 DEF ReplyOf
<1>6. Flagged(seg, "SYN") BY <1>1 DEF Flagged
<1>7. PICK r : r = Tail(qs) OBVIOUS
<1>8. PICK q : q = Append(qc, f) OBVIOUS
<1>9. InStep(cl, r, q, {u}) BY <1>1, <1>5, <1>6, <1>7, <1>8, ListenSync
<1>10. cl.phase = "syn"
  <2>1. seg = qs[1] /\ 1 \in DOMAIN qs BY TailFrames
  <2>2. Orderly(cl, seg) BY <2>1 DEF InStep, Calm
  <2> QED BY <1>6, <2>2 DEF Orderly, Flagged
<1> QED BY <1>3, <1>4, <1>7, <1>8, <1>9, <1>10 DEF Heeded

\* Entry i of the table is that of client c now.
LEMMA EntryStep ==
    ASSUME HttpInv, NEW c \in Peers, NEW i \in 1 .. UIP_CONNS, NEW u, u.peer = c,
           uip_conns' = [uip_conns EXCEPT ![i] = u],
           \A j \in 1 .. UIP_CONNS : Active(j) /\ uip_conns[j].peer = c => j = i,
           Active(i) /\ uip_conns[i].peer # c => i \in TimeWait(uip_conns)
    PROVE  /\ \A d \in Peers : d # c => Lapses(uip_conns, uip_conns', d)
           /\ u.tcpstateflags # "UIP_CLOSED" => ConnsOf(uip_conns', c) = {u}
<1>1. uip_conns \in [1 .. UIP_CONNS -> uip_conn] BY DEF HttpInv, PlacesOK
<1>2. DOMAIN uip_conns = 1 .. UIP_CONNS /\ DOMAIN uip_conns' = 1 .. UIP_CONNS BY <1>1
<1>3. uip_conns'[i] = u /\ \A j \in 1 .. UIP_CONNS : j # i => uip_conns'[j] = uip_conns[j]
  BY <1>1
<1>4. ASSUME NEW d \in Peers, d # c PROVE Lapses(uip_conns, uip_conns', d)
  <2>1. ASSUME NEW t \in ConnsOf(uip_conns', d) PROVE t \in ConnsOf(uip_conns, d)
    <3>1. PICK j \in 1 .. UIP_CONNS : /\ uip_conns'[j] = t /\ t.tcpstateflags # "UIP_CLOSED"
                                      /\ t.peer = d
      BY <1>2, <2>1 DEF ConnsOf
    <3>2. j # i BY <1>3, <1>4, <3>1
    <3> QED BY <1>2, <1>3, <3>1, <3>2, ConnsDef
  <2>2. ASSUME NEW t \in ConnsOf(uip_conns, d), t \notin ConnsOf(uip_conns', d)
        PROVE  t.tcpstateflags = "UIP_TIME_WAIT"
    <3>1. PICK j \in 1 .. UIP_CONNS : /\ uip_conns[j] = t /\ t.tcpstateflags # "UIP_CLOSED"
                                      /\ t.peer = d
      BY <1>2, <2>2 DEF ConnsOf
    <3>2. j = i
      <4> SUFFICES ASSUME j # i PROVE FALSE OBVIOUS
      <4>1. uip_conns'[j] = t BY <1>3, <3>1
      <4> QED BY <1>2, <2>2, <3>1, <4>1, ConnsDef
    <3>3. i \in TimeWait(uip_conns) BY <1>4, <3>1, <3>2 DEF Active
    <3> QED BY <3>1, <3>2, <3>3 DEF TimeWait
  <2> QED BY <2>1, <2>2 DEF Lapses
<1>5. ASSUME u.tcpstateflags # "UIP_CLOSED" PROVE ConnsOf(uip_conns', c) = {u}
  <2>1. u \in ConnsOf(uip_conns', c) BY <1>2, <1>3, <1>5, ConnsDef
  <2>2. ASSUME NEW t \in ConnsOf(uip_conns', c) PROVE t = u
    <3>1. PICK j \in 1 .. UIP_CONNS : /\ uip_conns'[j] = t /\ t.tcpstateflags # "UIP_CLOSED"
                                      /\ t.peer = c
      BY <1>2, <2>2 DEF ConnsOf
    <3>2. j = i
      <4> SUFFICES ASSUME j # i PROVE FALSE OBVIOUS
      <4>1. uip_conns[j] = t BY <1>3, <3>1
      <4> QED BY <3>1, <4>1 DEF Active
    <3> QED BY <1>3, <3>1, <3>2
  <2> QED BY <2>1, <2>2
<1> QED BY <1>4, <1>5

\* The server has taken a segment of client c, and out is its answer.
LEMMA TcpInStep ==
    ASSUME HttpInv, StepInv, NEW c \in Peers, NEW cl1, cl1.phase = client[c].phase,
           client' = [client EXCEPT ![c] = cl1], arp_table' = arp_table, faults' = faults,
           NEW qs, NEW r, r = Tail(qs), toServer' = [toServer EXCEPT ![c] = r],
           NEW qc \in Seq(ClientFrame), qc = toClient[c],
           NEW out, toClient' = Delivered(out), out = <<>> \/ \E p : out = <<p>> /\ p.dest = c,
           \A d \in Peers : d # c => Lapses(uip_conns, uip_conns', d),
           NEW T, T = ConnsOf(uip_conns', c), faults = 0 => Heeded(c, cl1, qs, qc, out, T)
    PROVE  StepInv'
<1>1. /\ ArpOK(arp_table') /\ Resolved(arp_table', c, cl1, qc)
      /\ \A g : g # NoHost /\ uip_arp_out(arp_table, g) => uip_arp_out(arp_table', g)
  <2>1. ArpOK(arp_table) /\ Resolved(arp_table, c, client[c], toClient[c]) BY OneInStep
  <2> QED BY <2>1 DEF Resolved
<1>2. CASE out = <<>>
  <2>1. toClient' = [toClient EXCEPT ![c] = qc]
    <3>1. toClient' = toClient BY <1>2 DEF Delivered
    <3> QED BY <3>1, OneLink
  <2>2. faults = 0 => InStep(cl1, r, qc, T)
    <3>1. \A p : out # <<p>> BY <1>2
    <3> QED BY <3>1 DEF Heeded
  <2>3. faults' = 0 => faults = 0 /\ InStep(cl1, r, qc, ConnsOf(uip_conns', c)) BY <2>2
  <2> QED BY <1>1, <2>1, <2>3, StepOne
<1>3. ASSUME NEW p, out = <<p>>, p.dest = c PROVE StepInv'
  <2>1. PICK f : f = AnswerFrame(p) OBVIOUS
  <2>2. PICK h : h = Framed(c, f) OBVIOUS
  <2>3. PICK q : q = Append(qc, h) OBVIOUS
  <2>4. toClient' = [toClient EXCEPT ![c] = q]
    <3>1. toClient' = Delivered(<<p>>) BY <1>3
    <3> QED BY <1>3, <2>1, <2>2, <2>3, <3>1, ReplySent
  <2>5. h.type # "arp_reply"
    <3>1. f.type = "tcp" BY <2>1 DEF AnswerFrame
    <3>2. h = f \/ h.type = "arp_request" BY <2>2, FramedOK
    <3> QED BY <3>1, <3>2
  <2>6. Resolved(arp_table', c, cl1, q)
    <3>1. \A k \in DOMAIN q : \/ k \in DOMAIN qc /\ q[k] = qc[k]
                              \/ k = Len(qc) + 1 /\ q[k] = h
      BY <2>3
    <3> QED BY <1>1, <2>5, <3>1 DEF Resolved
  <2>7. ASSUME faults = 0 PROVE InStep(cl1, r, q, T)
    <3>1. out # <<>> BY <1>3
    <3>2. PICK p1 : /\ out = <<p1>> /\ cl1.phase \in {"syn", "open"}
                    /\ InStep(cl1, Tail(qs), Append(qc, AnswerFrame(p1)), T)
      BY <2>7, <3>1 DEF Heeded
    <3>3. p1 = p
      <4>1. <<p1>>[1] = p1 /\ <<p>>[1] = p OBVIOUS
      <4> QED BY <1>3, <3>2, <4>1
    <3>4. h = f BY <1>1, <2>2, <3>2 DEF Resolved, Framed
    <3> QED BY <2>1, <2>3, <3>2, <3>3, <3>4
  <2>8. faults' = 0 => faults = 0 /\ InStep(cl1, r, q, ConnsOf(uip_conns', c)) BY <2>7
  <2> QED BY <1>1, <2>4, <2>6, <2>8, StepOne
<1> QED BY <1>2, <1>3

LEMMA NoConn ==
    ASSUME HttpInv, NEW c, \A j \in 1 .. UIP_CONNS : ~(Active(j) /\ uip_conns[j].peer = c)
    PROVE  ConnsOf(uip_conns, c) = {}
<1>1. DOMAIN uip_conns = 1 .. UIP_CONNS BY DEF HttpInv, PlacesOK
<1> QED BY <1>1 DEF ConnsOf, Active

LEMMA OneConn ==
    ASSUME HttpInv, NEW i \in 1 .. UIP_CONNS, Active(i), NEW c, uip_conns[i].peer = c
    PROVE  /\ \A j \in 1 .. UIP_CONNS : Active(j) /\ uip_conns[j].peer = c => j = i
           /\ ConnsOf(uip_conns, c) = {uip_conns[i]}
           /\ States(uip_conns, c) = {uip_conns[i].tcpstateflags}
<1>1. DOMAIN uip_conns = 1 .. UIP_CONNS BY DEF HttpInv, PlacesOK
<1>2. \A j \in 1 .. UIP_CONNS : Active(j) /\ uip_conns[j].peer = c => j = i
  BY DEF HttpInv, OnePeer
<1>3. {j \in DOMAIN uip_conns :
          uip_conns[j].tcpstateflags # "UIP_CLOSED" /\ uip_conns[j].peer = c} = {i}
  BY <1>1, <1>2 DEF Active
<1>4. ConnsOf(uip_conns, c) = {uip_conns[i]} BY <1>3 DEF ConnsOf
<1>5. States(uip_conns, c) = {uip_conns[i].tcpstateflags} BY <1>3 DEF States
<1> QED BY <1>2, <1>4, <1>5

LEMMA ServeTcpInStep ==
    ASSUME HttpInv, StepInv, NEW c \in Peers, toServer[c] # <<>>, NEW seg,
           seg = Head(toServer[c]), ServeTcp(c, seg),
           toServer' = [toServer EXCEPT ![c] = Tail(@)], faults' = faults
    PROVE  StepInv'
<1>1. PICK cl \in Client : cl = client[c] /\ ClientOK(cl) BY OneLink
<1>2. PICK cl1 : cl1 = [cl EXCEPT !.resized = @ \/ Resizes(seg)] OBVIOUS
<1>3. seg.type = "tcp" /\ client' = [client EXCEPT ![c] = cl1] /\ arp_table' = arp_table
  <2>1. client' = [client EXCEPT ![c].resized = @ \/ Resizes(seg)] BY DEF ServeTcp
  <2>2. client' = [client EXCEPT ![c] = cl1] BY <1>1, <1>2, <2>1, SMTT(30)
  <2> QED BY <2>2 DEF ServeTcp
<1>4. PICK res : /\ res = uip_input(uip_conns, seg) /\ uip_conns' = res.conns
                 /\ toClient' = Delivered(res.out)
  BY DEF ServeTcp, Delivered, AnswerFrame
<1>5. /\ cl1 \in Client /\ ClientOK(cl1) /\ Grows(cl, cl1) /\ (cl1.eof => cl.eof)
      /\ ~cl1.resized => ~Resizes(seg)
  BY <1>1, <1>2, ResizedOK, ZenonT(60)
<1>6. PICK qs \in Seq(ServerFrame) : qs = toServer[c] BY OneLink
<1>7. PICK qc \in Seq(ClientFrame) : qc = toClient[c] BY OneLink
<1>8. PICK r : r = Tail(qs) OBVIOUS
<1>9. qs # <<>> /\ seg = Head(qs) /\ toServer' = [toServer EXCEPT ![c] = r] BY <1>6, <1>8
<1>10. PICK S : S = States(uip_conns, c) OBVIOUS
<1>11. PICK T : T = ConnsOf(uip_conns, c) OBVIOUS
<1>12. LinkOK(c, cl1, qs, qc, S)
  <2>1. LinkOK(c, cl, qs, qc, S) BY <1>1, <1>6, <1>7, <1>10, OneLink
  <2> QED BY <1>5, <2>1, GrowOK
<1>13. /\ cl1.phase = cl.phase /\ cl1.una = cl.una /\ cl1.nxt = cl.nxt
       /\ cl1.got = cl.got /\ cl1.eof = cl.eof /\ cl1.fin = cl.fin /\ cl1.early = cl.early
  <2>1. PICK b : b = (cl.resized \/ Resizes(seg)) OBVIOUS
  <2>2. cl1 = [cl EXCEPT !.resized = b] BY <1>2, <2>1
  <2> QED BY <2>2 DEF Client
<1>14. faults = 0 => InStep(cl1, qs, qc, T)
  <2>1. faults = 0 => InStep(cl, qs, qc, T) BY <1>1, <1>6, <1>7, <1>11, OneInStep
  <2> QED BY <1>13, <2>1, SameView
<1>15. seg \in ServerSegment /\ SentOK(c, cl1, seg)
  <2>1. seg = qs[1] /\ 1 \in DOMAIN qs BY <1>9, TailFrames
  <2>2. seg \in ServerFrame /\ SentOK(c, cl1, seg) BY <1>12, <2>1 DEF LinkOK
  <2> QED BY <1>3, <2>2 DEF ServerFrame, PlainFrame, EchoFrame
<1>16. uip_conns \in [1 .. UIP_CONNS -> uip_conn] BY DEF HttpInv, PlacesOK
<1>17. PICK out : out = res.out OBVIOUS
<1>18. PICK T1 : T1 = ConnsOf(uip_conns', c) OBVIOUS
<1>19. ASSUME out = <<>> \/ \E p : out = <<p>> /\ p.dest = c,
              \A d \in Peers : d # c => Lapses(uip_conns, uip_conns', d),
              faults = 0 => Heeded(c, cl1, qs, qc, out, T1)
       PROVE  StepInv'
  <2>1. cl1.phase = client[c].phase BY <1>1, <1>13
  <2>2. toClient' = Delivered(out) BY <1>4, <1>17
  <2> QED BY <1>3, <1>7, <1>8, <1>9, <1>18, <1>19, <2>1, <2>2, TcpInStep
<1>20. CASE res = Drop(uip_conns)
  <2>1. res.conns = uip_conns /\ out = <<>> BY <1>17, <1>20 DEF Drop
  <2>2. uip_conns' = uip_conns /\ T1 = T BY <1>4, <1>11, <1>18, <2>1
  <2>3. \A d \in Peers : d # c => Lapses(uip_conns, uip_conns', d) BY <2>2 DEF Lapses
  <2>4. faults = 0 => InStep(cl1, r, qc, T) BY <1>8, <1>9, <1>14, DropRequest
  <2>5. faults = 0 => Heeded(c, cl1, qs, qc, out, T1) BY <1>8, <2>1, <2>2, <2>4 DEF Heeded
  <2> QED BY <1>19, <2>1, <2>3, <2>5
<1>21. CASE /\ res = [conns |-> uip_conns, out |-> <<Refusal(c, seg)>>]
            /\ seg.flags # {"SYN"}
            /\ \A j \in 1 .. UIP_CONNS : ~(Active(j) /\ uip_conns[j].peer = c)
  <2>1. uip_conns' = uip_conns BY <1>4, <1>21
  <2>2. \A d \in Peers : d # c => Lapses(uip_conns, uip_conns', d) BY <2>1 DEF Lapses
  <2>3. PICK p : p = Refusal(c, seg) OBVIOUS
  <2>4. out = <<p>> /\ p.dest = c BY <1>17, <1>21, <2>3 DEF Refusal
  <2>5. ASSUME faults = 0 PROVE FALSE
    <3>1. T = {} BY <1>11, <1>21, NoConn
    <3>2. InStep(cl1, qs, qc, {}) BY <1>14, <2>5, <3>1
    <3>3. seg.flags = {"SYN"} BY <1>3, <1>5, <1>9, <1>12, <3>2, NoRefusal
    <3> QED BY <1>21, <3>3
  <2> QED BY <1>19, <2>2, <2>4, <2>5
<1>22. ASSUME NEW i \in 1 .. UIP_CONNS, Active(i), uip_conns[i].peer = c,
              res = found(uip_conns, i, seg), Belongs(uip_conns[i], cl1, seg),
              Result(uip_conns, i, res, uip_conns[i], cl1, seg)
       PROVE  StepInv'
  <2>1. PICK t \in uip_conn : t = uip_conns[i] BY <1>16
  <2>2. /\ \A j \in 1 .. UIP_CONNS : Active(j) /\ uip_conns[j].peer = c => j = i
        /\ T = {t} /\ S = {t.tcpstateflags}
    BY <1>10, <1>11, <1>22, <2>1, OneConn
  <2>3. PICK u \in uip_conn :
          /\ u.peer = c /\ res.conns = [uip_conns EXCEPT ![i] = u]
          /\ out = <<>> \/ \E p : out = <<p>> /\ p.dest = c
          /\ faults = 0 => /\ u.tcpstateflags # "UIP_CLOSED"
                           /\ Heeded(c, cl1, qs, qc, out, {u})
    <3>1. CASE faults = 0
      <4>1. Meets(c, cl1, qs, qc, t, seg)
        BY <1>5, <1>9, <1>12, <1>14, <1>15, <2>2, <3>1 DEF Meets
      <4>2. PICK conns \in [1 .. UIP_CONNS -> uip_conn] : conns = uip_conns BY <1>16
      <4>3. /\ t = conns[i] /\ t.peer = c /\ Belongs(t, cl1, seg)
            /\ res = found(conns, i, seg) /\ Result(conns, i, res, t, cl1, seg)
        BY <1>22, <2>1, <4>2
      <4>4. PICK u \in uip_conn : /\ u.peer = c /\ u.tcpstateflags # "UIP_CLOSED"
                                  /\ res.conns = [conns EXCEPT ![i] = u]
                                  /\ Heeded(c, cl1, qs, qc, res.out, {u})
        <5>1. Followed(c, cl1, qs, qc, conns, i, res) BY <4>1, <4>3, FoundHeeded
        <5> QED BY <5>1 DEF Followed
      <4>5. Heeded(c, cl1, qs, qc, out, {u}) BY <1>17, <4>4
      <4>6. out = <<>> \/ \E p : out = <<p>> /\ p.dest = c BY <4>5 DEF Heeded
      <4> QED BY <4>2, <4>4, <4>5, <4>6
    <3>2. CASE faults # 0
      <4>1. PICK u, fl, d : /\ Advance(t, u, cl1, seg, fl, d)
                            /\ \/ res = Kept(uip_conns, i, u)
                               \/ res = tcp_send(uip_conns, i, u, fl, d)
        BY <1>22, <2>1 DEF Result
      <4>2. u \in uip_conn /\ u.peer = c BY <1>22, <2>1, <4>1 DEF Advance
      <4>3. CASE res = Kept(uip_conns, i, u)
        <5>1. res.conns = [uip_conns EXCEPT ![i] = u] /\ out = <<>>
          BY <1>17, <4>3 DEF Kept, Drop
        <5> QED BY <3>2, <4>2, <5>1
      <4>4. CASE res = tcp_send(uip_conns, i, u, fl, d)
        <5>1. PICK p : p = [dest |-> u.peer, flags |-> fl, seqno |-> u.snd_nxt,
                            ackno |-> u.rcv_nxt, data |-> d]
          OBVIOUS
        <5>2. res.conns = [uip_conns EXCEPT ![i] = u] BY <4>4 DEF tcp_send
        <5>3. out = <<p>> BY <1>17, <4>4, <5>1 DEF tcp_send
        <5>4. p.dest = c BY <4>2, <5>1
        <5> QED BY <3>2, <4>2, <5>2, <5>3, <5>4
      <4> QED BY <4>1, <4>3, <4>4
    <3> QED BY <3>1, <3>2
  <2>4. uip_conns' = [uip_conns EXCEPT ![i] = u] BY <1>4, <2>3
  <2>5. /\ \A d \in Peers : d # c => Lapses(uip_conns, uip_conns', d)
        /\ u.tcpstateflags # "UIP_CLOSED" => ConnsOf(uip_conns', c) = {u}
    BY <1>22, <2>2, <2>3, <2>4, EntryStep
  <2>6. faults = 0 => Heeded(c, cl1, qs, qc, out, T1) BY <1>18, <2>3, <2>5
  <2> QED BY <1>19, <2>3, <2>5, <2>6
<1>23. ASSUME \A j \in 1 .. UIP_CONNS : ~(Active(j) /\ uip_conns[j].peer = c),
              NEW i \in 1 .. UIP_CONNS, NEW u, i \in Unused(uip_conns),
              Opened(c, cl1, seg, u), res = tcp_send(uip_conns, i, u, {"SYN", "ACK"}, <<>>)
       PROVE  StepInv'
  <2>1. u \in uip_conn /\ u.peer = c /\ u.tcpstateflags = "UIP_SYN_RCVD"
    BY <1>23 DEF Opened
  <2>2. PICK p : p = [dest |-> u.peer, flags |-> {"SYN", "ACK"}, seqno |-> u.snd_nxt,
                      ackno |-> u.rcv_nxt, data |-> <<>>]
    OBVIOUS
  <2>3. res.conns = [uip_conns EXCEPT ![i] = u] BY <1>23 DEF tcp_send
  <2>4. out = <<p>> /\ p.dest = c BY <1>17, <1>23, <2>1, <2>2 DEF tcp_send
  <2>5. uip_conns' = [uip_conns EXCEPT ![i] = u] BY <1>4, <2>3
  <2>6. Active(i) => i \in TimeWait(uip_conns)
    BY <1>23 DEF Unused, Closed, Active
  <2>7. \A j \in 1 .. UIP_CONNS : Active(j) /\ uip_conns[j].peer = c => j = i BY <1>23
  <2>8. /\ \A d \in Peers : d # c => Lapses(uip_conns, uip_conns', d)
        /\ u.tcpstateflags # "UIP_CLOSED" => ConnsOf(uip_conns', c) = {u}
    BY <1>23, <2>1, <2>5, <2>6, <2>7, EntryStep
  <2>9. ASSUME faults = 0 PROVE Heeded(c, cl1, qs, qc, out, T1)
    <3>1. T = {} BY <1>11, <1>23, NoConn
    <3>2. InStep(cl1, qs, qc, {}) BY <1>14, <2>9, <3>1
    <3>3. PICK conns : conns = uip_conns OBVIOUS
    <3>4. res = tcp_send(conns, i, u, {"SYN", "ACK"}, <<>>) BY <1>23, <3>3
    <3>5. Heeded(c, cl1, qs, qc, res.out, {u})
      BY <1>3, <1>5, <1>9, <1>12, <1>23, <3>2, <3>4, OpenedHeeded
    <3> QED BY <1>17, <1>18, <2>1, <2>8, <3>5
  <2> QED BY <1>19, <2>4, <2>8, <2>9
<1>24. \/ res = Drop(uip_conns)
       \/ /\ res = [conns |-> uip_conns, out |-> <<Refusal(c, seg)>>]
          /\ seg.flags # {"SYN"}
          /\ \A j \in 1 .. UIP_CONNS : ~(Active(j) /\ uip_conns[j].peer = c)
       \/ \E i \in 1 .. UIP_CONNS :
             /\ Active(i) /\ uip_conns[i].peer = c
             /\ res = found(uip_conns, i, seg) /\ Belongs(uip_conns[i], cl1, seg)
             /\ Result(uip_conns, i, res, uip_conns[i], cl1, seg)
       \/ /\ \A j \in 1 .. UIP_CONNS : ~(Active(j) /\ uip_conns[j].peer = c)
          /\ \E i \in 1 .. UIP_CONNS : \E u :
                /\ i \in Unused(uip_conns) /\ Opened(c, cl1, seg, u)
                /\ res = tcp_send(uip_conns, i, u, {"SYN", "ACK"}, <<>>)
  BY <1>1, <1>4, <1>5, <1>15, InputOK
<1> QED BY <1>20, <1>21, <1>22, <1>23, <1>24

LEMMA ServeInStep ==
    ASSUME EnoughEntries, HttpInv, StepInv, NEW c \in Peers, Serve(c)
    PROVE  StepInv'
<1>1. PICK f : f = Head(toServer[c]) OBVIOUS
<1>2. /\ toServer[c] # <<>> /\ toServer' = [toServer EXCEPT ![c] = Tail(@)]
      /\ faults' = faults
      /\ ServeArp(c, f) \/ ServeEcho(c, f) \/ ServeTcp(c, f) \/ ServeOther(f)
  BY <1>1 DEF Serve
<1>3. CASE ServeArp(c, f) BY <1>2, <1>3, ServeArpInStep
<1>4. CASE ServeEcho(c, f) BY <1>1, <1>2, <1>4, ServeEchoInStep
<1>5. CASE ServeTcp(c, f) BY <1>1, <1>2, <1>5, ServeTcpInStep
<1>6. CASE ServeOther(f) BY <1>2, <1>6, ServeOtherInStep
<1> QED BY <1>2, <1>3, <1>4, <1>5, <1>6

LEMMA StepInvStep ==
    ASSUME EnoughEntries, HttpInv, StepInv, [Next]_vars
    PROVE  StepInv'
<1>1. ASSUME NEW c \in Peers, Serve(c) PROVE StepInv' BY <1>1, ServeInStep
<1>2. ASSUME NEW c \in Peers, Resolve(c) PROVE StepInv' BY <1>2, ResolveInStep
<1>3. ASSUME NEW c \in Peers, NEW rest \in Rests, Ping(c, rest) PROVE StepInv'
  BY <1>3, PingInStep
<1>4. ASSUME NEW c \in Peers, Connect(c) PROVE StepInv' BY <1>4, ConnectInStep
<1>5. ASSUME NEW c \in Peers, NEW n \in 1 .. REQ, NEW w \in Windows, Request(c, n, w)
      PROVE  StepInv'
  BY <1>5, RequestInStep
<1>6. ASSUME NEW c \in Peers, Close(c) PROVE StepInv' BY <1>6, CloseInStep
<1>7. ASSUME NEW c \in Peers, Timeout(c) PROVE StepInv' BY <1>7, TimeoutInStep
<1>8. ASSUME NEW c \in Peers, NEW w \in Windows, Take(c, w) PROVE StepInv'
  BY <1>8, TakeInStep
<1>9. ASSUME NEW c \in Peers, Abort(c) PROVE StepInv' BY <1>9, AbortInStep
<1>10. ASSUME NEW c \in Peers, LoseRequest(c) PROVE StepInv' BY <1>10, LoseInStep
<1>11. ASSUME NEW c \in Peers, LoseReply(c) PROVE StepInv' BY <1>11, LoseInStep
<1>12. ASSUME NEW c \in Peers, NEW dm \in {"header", "body"}, Damage(c, dm)
       PROVE  StepInv'
  BY <1>12, DamageInStep
<1>13. CASE UNCHANGED vars
  <2>1. /\ uip_conns' = uip_conns /\ arp_table' = arp_table /\ client' = client
        /\ toServer' = toServer /\ toClient' = toClient /\ faults' = faults
    BY <1>13 DEF vars
  <2> QED BY <2>1 DEF StepInv
<1> QED
  BY <1>1, <1>2, <1>3, <1>4, <1>5, <1>6, <1>7, <1>8, <1>9, <1>10, <1>11, <1>12, <1>13
  DEF Next

LEMMA StepInvStart ==
    ASSUME Init
    PROVE  StepInv
<1>1. DOMAIN uip_conns = 1 .. UIP_CONNS
      /\ \A i \in 1 .. UIP_CONNS : uip_conns[i].tcpstateflags = "UIP_CLOSED"
  BY DEF Init, uip_init
<1>2. ArpOK(arp_table) BY DEF Init, EmptyTable, ArpOK
<1>3. ASSUME NEW c \in Peers
      PROVE  /\ Resolved(arp_table, c, client[c], toClient[c])
             /\ InStep(client[c], toServer[c], toClient[c], ConnsOf(uip_conns, c))
  <2>1. PICK cl : cl = NewClient OBVIOUS
  <2>2. client[c] = cl /\ toServer[c] = <<>> /\ toClient[c] = <<>> BY <2>1 DEF Init
  <2>3. cl.phase = "idle" /\ ~cl.early BY <2>1 DEF NewClient
  <2>4. ConnsOf(uip_conns, c) = {} BY <1>1 DEF ConnsOf
  <2>5. PICK q : q = <<>> /\ DOMAIN q = {} OBVIOUS
  <2>6. Resolved(arp_table, c, cl, q) BY <2>3, <2>5 DEF Resolved
  <2>7. Calm(cl, q, q) BY <2>3, <2>5 DEF Calm, InTurn, OnceOnly
  <2>8. InStep(cl, q, q, {}) BY <2>3, <2>5, <2>7 DEF InStep, Accepted
  <2> QED BY <2>2, <2>4, <2>5, <2>6, <2>8
<1> QED BY <1>2, <1>3 DEF StepInv

\* The server resets no connection of a client that keeps to the protocol
\* unless something was lost or repeated, for every number of clients,
\* connections and table entries, every size of the page and the requests,
\* and every window, provided the ARP table has room for all next hops.
\* Without room uip_arp_out() puts an ARP request in the place of an
\* acknowledgement, and the client's FIN comes again when the entry in
\* TIME_WAIT has been given to another client.
THEOREM NeverReset ==
    ASSUME EnoughEntries
    PROVE  Spec => []NoReset
<1>1. Init => StepInv BY StepInvStart
<1>2. HttpInv /\ StepInv /\ [Next]_vars => StepInv' BY StepInvStep
<1>3. StepInv => NoReset BY DEF StepInv, InStep, Calm, NoReset
<1>4. Spec => []HttpInv BY HttpInvariance
<1> QED BY <1>1, <1>2, <1>3, <1>4, PTL DEF Spec
=============================================================================
