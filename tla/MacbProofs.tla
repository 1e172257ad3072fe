----------------------------- MODULE MacbProofs -----------------------------
(***************************************************************************)
(* Proofs about the Ethernet driver, for every size of the rings and of    *)
(* the buffers and for any frames that fit the receive ring.               *)
(***************************************************************************)
EXTENDS Macb, FiniteSets, FiniteSetTheorems, TLAPS

N == MACB_RX_RING_SIZE
B == MACB_RX_BUFFER_SIZE

\* Where buffer k begins, and the most that the longest frame can have.
First(k) == k * B
Longest  == First(N - 1)

\* How far descriptor k is behind descriptor i.
Off(i, k) == IF k >= i THEN k - i ELSE k - i + N

Reclaiming == pc \in {"reclaim", "reclaim_last"}

\* The first descriptor that is not given back, and the first one whose
\* frame is neither received nor given up.
Tail0 == IF Reclaiming THEN reclaim ELSE rx_tail
Start == IF Reclaiming THEN next_rx_tail ELSE rx_tail

Used(k) == rx_ring[k].used
Live(k) == Used(k) /\ Off(Tail0, k) >= Off(Tail0, Start)

\* The byte at the start of a buffer, its frame and its position there.
FrameAt(k) == rx_buffer[First(k)][1]
PosAt(k)   == rx_buffer[First(k)][2]

Descriptor == [used : BOOLEAN, sof : BOOLEAN, eof : BOOLEAN, length : Nat]
Frame == [frame : Nat, length : Nat, written : Nat]

RxTypeOK ==
    /\ rx_ring \in [Idx -> Descriptor]
    /\ rx_buffer \in [Byte -> Nat \X Nat]
    /\ rx_tail \in Idx /\ next_rx_tail \in Idx /\ reclaim \in Idx /\ dma \in Idx
    /\ wrapped \in BOOLEAN
    /\ pc \in {"idle", "scan", "reclaim", "reclaim_last", "stopped",
               "send_addr", "send_poll"}
    /\ arrived \in Nat
    /\ incoming \in Frame
    /\ complete \in Seq(Frame)
    /\ received \in Seq(Seq(Nat \X Nat))

\* The descriptors in use go from the tail to where the controller writes.
UsedInOrder ==
    \/ \A k \in Idx : Used(k) <=> Off(Tail0, k) < Off(Tail0, dma)
    \/ Tail0 = dma /\ \A k \in Idx : Used(k)

\* What the buffers in use hold: the bytes of a frame from some position on,
\* all of the buffer or up to the end of the frame.
BuffersFilled ==
    \A k \in Idx : Used(k) =>
       /\ PosAt(k) >= 1 /\ (rx_ring[k].sof <=> PosAt(k) = 1)
       /\ rx_ring[k].eof => /\ PosAt(k) <= rx_ring[k].length
                            /\ rx_ring[k].length < PosAt(k) + B
                            /\ rx_ring[k].length <= Longest
       /\ ~rx_ring[k].eof => PosAt(k) + B <= Longest
       /\ \A o \in 0 .. B - 1 :
             ~rx_ring[k].eof \/ PosAt(k) + o <= rx_ring[k].length =>
                rx_buffer[First(k) + o] = <<FrameAt(k), PosAt(k) + o>>

\* A buffer goes on with the frame before it or starts a new one; the frames
\* are in the order in which they arrived.
BuffersInOrder ==
    /\ \A k, l \in Idx : Used(k) /\ Used(l) /\ Off(Tail0, k) < Off(Tail0, l) =>
          /\ FrameAt(k) <= FrameAt(l)
          /\ rx_ring[k].eof => FrameAt(k) < FrameAt(l)
          /\ l = Next1(k) =>
                /\ rx_ring[k].eof => rx_ring[l].sof
                /\ ~rx_ring[l].sof => /\ FrameAt(l) = FrameAt(k)
                                      /\ PosAt(l) = PosAt(k) + B
    /\ \A k \in Idx : Used(k) => FrameAt(k) <= arrived

\* The frame that arrives is in the last buffers before the next one.
IncomingInOrder ==
    IF incoming = Nothing THEN TRUE
    ELSE /\ incoming.frame = arrived
         /\ incoming.written < incoming.length
         /\ incoming.length <= Longest
         /\ incoming.written = 0 => \A k \in Idx : Used(k) => FrameAt(k) < arrived
         /\ incoming.written > 0 =>
               \E k \in Idx : /\ Live(k) /\ ~rx_ring[k].eof /\ Next1(k) = dma
                              /\ FrameAt(k) = arrived
                              /\ PosAt(k) + B = incoming.written + 1

\* A frame is the next one to be looked at from its start.
StartsFrame == Used(Start) => rx_ring[Start].sof

\* The scan has come past buffers of one frame, without its end.
ScanInOrder ==
    pc = "scan" =>
       /\ \A k \in Idx : Off(rx_tail, k) < Off(rx_tail, next_rx_tail) =>
             /\ Used(k) /\ ~rx_ring[k].eof
             /\ FrameAt(k) = FrameAt(rx_tail)
             /\ PosAt(k) = 1 + First(Off(rx_tail, k))
       /\ wrapped <=> next_rx_tail < rx_tail

\* Only descriptors in use are given back.
ReclaimInOrder ==
    Reclaiming =>
       \A k \in Idx : Off(reclaim, k) < Off(reclaim, next_rx_tail) => Used(k)

\* The complete frames have their numbers in order.  Those not received are
\* in the ring, and the ends of frames in the ring are theirs.
CompleteInOrder ==
    /\ \A i, j \in DOMAIN complete : i < j => complete[i].frame < complete[j].frame
    /\ \A j \in DOMAIN complete : complete[j].frame <= arrived
                                  /\ (incoming # Nothing => complete[j].frame < arrived)
    /\ Len(received) <= Len(complete)
    /\ \A j \in DOMAIN received : received[j] = Content(complete[j])
    /\ \A k \in Idx : Live(k) /\ rx_ring[k].eof =>
          \E j \in DOMAIN complete : /\ j > Len(received)
                                     /\ complete[j].frame = FrameAt(k)
                                     /\ complete[j].length = rx_ring[k].length
    /\ \A j \in DOMAIN complete : j > Len(received) =>
          \E k \in Idx : /\ Live(k) /\ rx_ring[k].eof
                         /\ FrameAt(k) = complete[j].frame

\* The inductive invariant of receiving.
RxInv ==
    /\ RxTypeOK /\ UsedInOrder /\ BuffersFilled /\ BuffersInOrder
    /\ IncomingInOrder /\ StartsFrame /\ ScanInOrder /\ ReclaimInOrder
    /\ CompleteInOrder

-----------------------------------------------------------------------------
(***************************************************************************)
(* Arithmetic.                                                             *)
(***************************************************************************)
\* What the assumptions say of the receive ring.
LEMMA RxSizes ==
    /\ N \in Nat /\ N > 0 /\ B \in Nat /\ B > 0
    /\ Idx = 0 .. N - 1 /\ 0 \in Idx
BY MacbAssumption DEF N, B, Idx

\* The buffers follow each other.
LEMMA FirstFacts ==
    /\ First(0) = 0
    /\ \A k \in Nat : First(k) \in Nat /\ First(k + 1) = First(k) + B
    /\ \A k, l \in Nat : k < l => First(k) + B <= First(l)
BY RxSizes DEF First

\* The longest frame that arrives leaves one buffer free.
LEMMA LongestFacts ==
    /\ Longest \in Nat
    /\ \A n \in Lengths : n \in 1 .. Longest
    /\ \A d \in Nat : 1 + First(d) <= Longest => d < N - 1
<1>1. Longest \in Nat BY RxSizes, FirstFacts DEF Longest
<1>2. \A n \in Lengths : n \in 1 .. Longest
  BY MacbAssumption DEF Longest, First, N, B
<1>3. ASSUME NEW d \in Nat, d >= N - 1 PROVE Longest <= First(d)
  BY <1>3, RxSizes, FirstFacts DEF Longest
<1>4. ASSUME NEW d \in Nat, 1 + First(d) <= Longest PROVE d < N - 1
  BY <1>1, <1>3, <1>4, RxSizes, FirstFacts, SMTT(30)
<1> QED BY <1>1, <1>2, <1>4

\* Byte o of buffer k, and every byte is one.
LEMMA BytesOf ==
    ASSUME NEW k \in Idx, NEW o \in 0 .. B - 1
    PROVE  First(k) + o \in Byte /\ (First(k) + o) \div B = k
<1>1. (First(k) + o) \div B = k BY RxSizes DEF First
<1>2. First(k) + B <= First(N) /\ First(k) \in Nat /\ First(N) = N * B
  BY RxSizes, FirstFacts DEF First
<1> QED BY <1>1, <1>2, RxSizes DEF Byte, N, B

LEMMA ByteOf ==
    ASSUME NEW b \in Byte
    PROVE  \E k \in Idx, o \in 0 .. B - 1 : b = First(k) + o
<1> DEFINE k == b \div B
           o == b % B
<1>1. b \in Nat /\ b < First(N)
  <2>1. N * B \in Nat BY RxSizes
  <2> QED BY <2>1, RxSizes DEF Byte, N, B, First
<1>2. k \in Int /\ o \in 0 .. B - 1 /\ b = B * k + o BY <1>1, RxSizes
<1>3. k \in Nat BY <1>1, RxSizes
<1>4. b = First(k) + o BY <1>2, <1>3, RxSizes DEF First
<1> HIDE DEF k, o
<1>5. k < N
  <2>1. First(k) \in Nat BY <1>3, FirstFacts
  <2>2. First(N) \in Nat BY RxSizes, FirstFacts
  <2>3. First(k) < First(N) BY ONLY <1>1, <1>2, <1>4, <2>1, <2>2, RxSizes
  <2>4. N < k => First(N) + B <= First(k) BY <1>3, RxSizes, FirstFacts
  <2> QED BY <1>3, <2>1, <2>2, <2>3, <2>4, RxSizes
<1> QED BY <1>2, <1>3, <1>4, <1>5, RxSizes

\* Positions in the ring.
LEMMA OffFacts ==
    ASSUME NEW i \in Idx, NEW k \in Idx
    PROVE  /\ Off(i, k) \in Nat /\ Off(i, k) \in 0 .. N - 1 /\ Off(i, k) < N
           /\ Off(i, k) = 0 <=> k = i
           /\ \A l \in Idx : Off(i, l) = Off(i, k) => l = k
BY RxSizes DEF Off

LEMMA OffNext ==
    ASSUME NEW i \in Idx, NEW k \in Idx
    PROVE  /\ Next1(k) \in Idx
           /\ Next1(k) # i => Off(i, Next1(k)) = Off(i, k) + 1
           /\ Next1(k) = i => Off(i, k) = N - 1
           /\ \A l \in Idx : Next1(l) = Next1(k) => l = k
<1>1. \A l \in Idx : Next1(l) = IF l + 1 = N THEN 0 ELSE l + 1
  BY RxSizes DEF Next1, N
<1> QED BY <1>1, RxSizes DEF Off

LEMMA OffMove ==
    ASSUME NEW i \in Idx, NEW k \in Idx
    PROVE  Off(Next1(i), k) = IF k = i THEN N - 1 ELSE Off(i, k) - 1
<1>1. Next1(i) = IF i + 1 = N THEN 0 ELSE i + 1
  BY RxSizes DEF Next1, N
<1> QED BY <1>1, RxSizes DEF Off

-----------------------------------------------------------------------------
(***************************************************************************)
(* Receiving: the driver's steps that leave the ring alone.                *)
(***************************************************************************)
\* The rings as macb_start leaves them.
LEMMA RxInit == Init => RxInv
<1> SUFFICES ASSUME Init PROVE RxInv OBVIOUS
<1> USE RxSizes
<1>1. RxTypeOK
  <2>1. rx_ring \in [Idx -> Descriptor] BY DEF Init, Descriptor
  <2>2. rx_buffer \in [Byte -> Nat \X Nat] BY DEF Init
  <2>3. incoming \in Frame BY DEF Init, Nothing, Frame
  <2>4. complete \in Seq(Frame) /\ received \in Seq(Seq(Nat \X Nat)) BY DEF Init
  <2> QED BY <2>1, <2>2, <2>3, <2>4 DEF Init, RxTypeOK
<1>2. Tail0 = 0 /\ Start = 0 /\ dma = 0 /\ \A k \in Idx : ~Used(k)
  BY DEF Init, Tail0, Start, Reclaiming, Used
<1>3. UsedInOrder BY <1>2, OffFacts DEF UsedInOrder
<1>4. BuffersFilled /\ BuffersInOrder /\ StartsFrame
  BY <1>2 DEF BuffersFilled, BuffersInOrder, StartsFrame
<1>5. IncomingInOrder BY DEF Init, IncomingInOrder
<1>6. ScanInOrder /\ ReclaimInOrder
  BY DEF Init, ScanInOrder, ReclaimInOrder, Reclaiming
<1>7. CompleteInOrder
  <2>1. complete = <<>> /\ received = <<>> BY DEF Init
  <2> QED BY <1>2, <2>1 DEF CompleteInOrder, Live
<1> QED BY <1>1, <1>3, <1>4, <1>5, <1>6, <1>7 DEF RxInv

\* What a step that leaves the ring, the frames and the two ends of what is
\* in use alone has to show.
LEMMA RingKept ==
    ASSUME RxInv,
           UNCHANGED <<rx_ring, rx_buffer, dma, incoming, arrived, complete, received>>,
           Tail0' = Tail0, Start' = Start,
           RxTypeOK', ScanInOrder', ReclaimInOrder'
    PROVE  RxInv'
<1>1. /\ \A k : Used(k)' <=> Used(k)
      /\ \A k : FrameAt(k)' = FrameAt(k)
      /\ \A k : PosAt(k)' = PosAt(k)
  BY DEF Used, FrameAt, PosAt
<1>2. \A k : Live(k)' <=> Live(k) BY <1>1 DEF Live
<1>3. UsedInOrder' BY <1>1 DEF RxInv, UsedInOrder
<1>4. BuffersFilled' BY <1>1 DEF RxInv, BuffersFilled
<1>5. BuffersInOrder' BY <1>1 DEF RxInv, BuffersInOrder
<1>6. IncomingInOrder' BY <1>1, <1>2 DEF RxInv, IncomingInOrder
<1>7. StartsFrame' BY <1>1 DEF RxInv, StartsFrame
<1>8. CompleteInOrder' BY <1>1, <1>2 DEF RxInv, CompleteInOrder
<1> QED BY <1>3, <1>4, <1>5, <1>6, <1>7, <1>8 DEF RxInv

\* Nothing that receiving depends on changes: sending, and what is not a step.
LEMMA RxKept ==
    ASSUME RxInv, UNCHANGED <<receive, pc>>
           \/ /\ UNCHANGED receive
              /\ pc \in {"idle", "send_addr", "send_poll"}
              /\ pc' \in {"idle", "send_addr", "send_poll"}
    PROVE  RxInv'
<1>1. UNCHANGED <<rx_ring, rx_buffer, dma, incoming, arrived, complete, received,
                  rx_tail, next_rx_tail, wrapped, reclaim>>
  BY DEF receive, controller
<1>2. Tail0' = Tail0 /\ Start' = Start BY <1>1 DEF Tail0, Start, Reclaiming
<1>3. RxTypeOK' BY <1>1 DEF RxInv, RxTypeOK
<1>4. /\ \A k : Used(k)' <=> Used(k)
      /\ \A k : FrameAt(k)' = FrameAt(k)
      /\ \A k : PosAt(k)' = PosAt(k)
  BY <1>1 DEF Used, FrameAt, PosAt
<1>5. ScanInOrder' /\ ReclaimInOrder'
  BY <1>1, <1>4 DEF RxInv, ScanInOrder, ReclaimInOrder, Reclaiming
<1> QED BY <1>1, <1>2, <1>3, <1>5, RingKept

\* A scan begins, is repeated or ends: nothing is behind it yet.
LEMMA RxScan ==
    ASSUME RxInv, macb_recv \/ scan_end \/ scan_too_long
    PROVE  RxInv'
<1> USE RxSizes
<1>1. UNCHANGED <<rx_ring, rx_buffer, dma, incoming, arrived, complete, received,
                  rx_tail, reclaim>>
  BY DEF macb_recv, scan_end, scan_too_long, controller
<1>2. /\ pc \in {"idle", "scan"} /\ pc' \in {"idle", "scan", "stopped"}
      /\ pc' = "scan" => next_rx_tail' = rx_tail /\ wrapped' = FALSE
      /\ next_rx_tail' \in {rx_tail, next_rx_tail} /\ wrapped' \in {FALSE, wrapped}
  BY DEF macb_recv, scan_end, scan_too_long
<1>3. Tail0' = Tail0 /\ Start' = Start BY <1>1, <1>2 DEF Tail0, Start, Reclaiming
<1>4. RxTypeOK' BY <1>1, <1>2 DEF RxInv, RxTypeOK
<1>5. ScanInOrder'
  <2>1. rx_tail \in Idx BY DEF RxInv, RxTypeOK
  <2>2. \A k \in Idx : ~(Off(rx_tail, k) < Off(rx_tail, rx_tail))
    BY <2>1, OffFacts
  <2>3. SUFFICES ASSUME pc' = "scan" PROVE ScanInOrder' BY DEF ScanInOrder
  <2>4. rx_tail' = rx_tail /\ next_rx_tail' = rx_tail /\ wrapped' = FALSE
    BY <1>1, <1>2, <2>3
  <2> QED BY <2>1, <2>2, <2>4 DEF ScanInOrder
<1>6. ReclaimInOrder' BY <1>2 DEF ReclaimInOrder, Reclaiming
<1> QED BY <1>1, <1>3, <1>4, <1>5, <1>6, RingKept

-----------------------------------------------------------------------------
(***************************************************************************)
(* Receiving: the scan.                                                    *)
(***************************************************************************)
\* Every descriptor has one before it.
LEMMA Previous ==
    ASSUME NEW k \in Idx
    PROVE  \E l \in Idx : Next1(l) = k
<1>1. \A l \in Idx : Next1(l) = IF l + 1 = N THEN 0 ELSE l + 1
  BY RxSizes DEF Next1, N
<1>2. CASE k = 0 
  <2>1. N - 1 \in Idx /\ Next1(N - 1) = 0 BY <1>1, RxSizes
  <2> QED BY <1>2, <2>1
<1>3. CASE k # 0
  <2>1. k - 1 \in Idx /\ Next1(k - 1) = k BY <1>1, <1>3, RxSizes
  <2> QED BY <2>1
<1> QED BY <1>2, <1>3

\* The descriptor that is looked at goes on with the frame of the tail, and
\* is not the last one of the ring.
LEMMA ScanAt ==
    ASSUME RxInv, pc = "scan", Used(next_rx_tail), ~Fragment
    PROVE  /\ FrameAt(next_rx_tail) = FrameAt(rx_tail)
           /\ PosAt(next_rx_tail) = 1 + First(Off(rx_tail, next_rx_tail))
           /\ Off(rx_tail, next_rx_tail) < N - 1
<1> USE RxSizes
<1>1. rx_tail \in Idx /\ next_rx_tail \in Idx BY DEF RxInv, RxTypeOK
<1>2. PICK n \in Idx : n = next_rx_tail BY <1>1
<1>3. PICK t \in Idx : t = rx_tail BY <1>1
<1>4. Tail0 = t /\ Start = t BY <1>3 DEF Tail0, Start, Reclaiming
<1>5. FrameAt(n) = FrameAt(t) /\ PosAt(n) = 1 + First(Off(t, n))
  <2>1. CASE n = t
    <3>1. rx_ring[n].sof BY <1>2, <1>4, <2>1 DEF RxInv, StartsFrame
    <3>2. PosAt(n) = 1 BY <1>2, <3>1 DEF RxInv, BuffersFilled
    <3>3. Off(t, n) = 0 BY <2>1, OffFacts
    <3> QED BY <2>1, <3>2, <3>3, FirstFacts
  <2>2. CASE n # t
    <3>1. PICK k \in Idx : Next1(k) = n BY Previous
    <3>2. Off(t, n) = Off(t, k) + 1 BY <2>2, <3>1, OffNext
    <3>3. Off(t, k) \in Nat /\ Off(t, k) < Off(t, n)
      <4>1. Off(t, k) \in Nat BY OffFacts
      <4> QED BY <3>2, <4>1
    <3>4. /\ Used(k) /\ FrameAt(k) = FrameAt(t)
          /\ PosAt(k) = 1 + First(Off(t, k))
      BY <1>2, <1>3, <3>3 DEF RxInv, ScanInOrder
    <3>5. ~rx_ring[n].sof BY <1>2, <1>3, <2>2 DEF Fragment, Status
    <3>6. FrameAt(n) = FrameAt(k) /\ PosAt(n) = PosAt(k) + B
      BY <1>2, <1>4, <3>1, <3>3, <3>4, <3>5 DEF RxInv, BuffersInOrder
    <3>7. First(Off(t, n)) = First(Off(t, k)) + B /\ First(Off(t, k)) \in Nat
      BY <3>2, <3>3, FirstFacts
    <3> QED BY <3>4, <3>6, <3>7
  <2> QED BY <2>1, <2>2
<1>6. PosAt(n) <= Longest
  <2>1. rx_ring[n] \in Descriptor BY DEF RxInv, RxTypeOK
  <2>2. rx_ring[n].length \in Nat BY <2>1 DEF Descriptor
  <2>3. PosAt(n) \in Nat
    <3>1. First(Off(t, n)) \in Nat BY OffFacts, FirstFacts
    <3> QED BY <1>5, <3>1
  <2> QED BY <1>2, <2>2, <2>3, LongestFacts DEF RxInv, BuffersFilled
<1>7. Off(t, n) < N - 1 
  <2>1. Off(t, n) \in Nat BY OffFacts
  <2> QED BY <1>5, <1>6, <2>1, LongestFacts
<1> QED BY <1>2, <1>3, <1>5, <1>7

\* The scan goes on: the chain of buffers behind it is one longer.
LEMMA RxScanNext ==
    ASSUME RxInv, scan_next
    PROVE  RxInv'
<1> USE RxSizes
<1>1. UNCHANGED <<rx_ring, rx_buffer, dma, incoming, arrived, complete, received,
                  rx_tail, reclaim, pc>>
  BY DEF scan_next, controller
<1>2. /\ pc = "scan" /\ Used(next_rx_tail) /\ ~Fragment
      /\ ~rx_ring[next_rx_tail].eof
      /\ next_rx_tail' = Next1(next_rx_tail)
      /\ wrapped' = (Passed \/ next_rx_tail + 1 = MACB_RX_RING_SIZE)
  BY DEF scan_next, Used, Status
<1>3. rx_tail \in Idx /\ next_rx_tail \in Idx BY DEF RxInv, RxTypeOK
<1>4. PICK n \in Idx : n = next_rx_tail BY <1>3
<1>5. PICK t \in Idx : t = rx_tail BY <1>3
<1>6. /\ FrameAt(n) = FrameAt(t) /\ PosAt(n) = 1 + First(Off(t, n))
      /\ Off(t, n) < N - 1
  BY <1>2, <1>4, <1>5, ScanAt
<1>7. Tail0' = Tail0 /\ Start' = Start BY <1>1, <1>2 DEF Tail0, Start, Reclaiming
<1>8. RxTypeOK'
  <2>1. Next1(n) \in Idx BY OffNext
  <2>2. wrapped' \in BOOLEAN BY <1>2
  <2> QED BY <1>1, <1>2, <1>4, <2>1, <2>2 DEF RxInv, RxTypeOK
<1>9. Off(t, Next1(n)) = Off(t, n) + 1
  <2>1. Off(t, n) \in 0 .. N - 1 BY OffFacts
  <2> QED BY <1>6, <2>1, OffNext
<1>10. /\ \A k : Used(k)' <=> Used(k)
       /\ \A k : FrameAt(k)' = FrameAt(k)
       /\ \A k : PosAt(k)' = PosAt(k)
  BY <1>1 DEF Used, FrameAt, PosAt
<1>11. ASSUME NEW k \in Idx, Off(t, k) < Off(t, Next1(n))
       PROVE  /\ Used(k) /\ ~rx_ring[k].eof
              /\ FrameAt(k) = FrameAt(t) /\ PosAt(k) = 1 + First(Off(t, k))
  <2>1. Off(t, k) \in Nat /\ Off(t, n) \in Nat BY OffFacts
  <2>2. CASE k = n BY <1>2, <1>4, <1>6, <2>2
  <2>3. CASE k # n
    <3>1. Off(t, k) # Off(t, n) BY <2>3, OffFacts
    <3>2. Off(t, k) < Off(t, n) BY <1>9, <1>11, <2>1, <3>1
    <3> QED BY <1>2, <1>4, <1>5, <3>2 DEF RxInv, ScanInOrder
  <2> QED BY <2>2, <2>3
<1>12. wrapped' <=> Next1(n) < t
  <2>1. Next1(n) = IF n + 1 = N THEN 0 ELSE n + 1 BY DEF Next1, N
  <2>2. wrapped <=> n < t BY <1>2, <1>4, <1>5 DEF RxInv, ScanInOrder
  <2>3. Next1(n) # t
    <3>1. Off(t, n) # N - 1 BY <1>6, OffFacts
    <3> QED BY <3>1, OffNext
  <2>4. n # t => ~rx_ring[n].sof BY <1>2, <1>4, <1>5 DEF Fragment, Status
  <2>5. wrapped' <=> (wrapped /\ n # t) \/ n + 1 = N
    <3>1. Passed <=> wrapped /\ ~rx_ring[n].sof BY <1>4 DEF Passed, Status
    <3>2. n = t => ~wrapped BY <2>2
    <3> QED BY <1>2, <1>4, <2>4, <3>1, <3>2 DEF N
  <2> QED BY <2>1, <2>2, <2>3, <2>5
<1>13. ScanInOrder'
  <2>1. next_rx_tail' = Next1(n) /\ rx_tail' = t BY <1>1, <1>2, <1>4, <1>5
  <2> HIDE DEF Next1
  <2> QED BY <1>1, <1>5, <1>10, <1>11, <1>12, <2>1 DEF ScanInOrder
<1>14. ReclaimInOrder' BY <1>1, <1>2 DEF ReclaimInOrder, Reclaiming
<1> QED BY <1>1, <1>7, <1>8, <1>13, <1>14, RingKept

\* The descriptor before the next one of the controller is the last in use.
LEMMA LastUsed ==
    ASSUME RxInv, NEW t \in Idx, t = Tail0, NEW n \in Idx, Used(n),
           NEW k \in Idx, Next1(k) = dma
    PROVE  Off(t, n) <= Off(t, k)
<1> USE RxSizes
<1>1. PICK d \in Idx : d = dma BY DEF RxInv, RxTypeOK
<1>2. Off(t, n) \in 0 .. N - 1 /\ Off(t, k) \in 0 .. N - 1 BY OffFacts
<1>3. CASE d = t
  <2>1. Off(t, k) = N - 1 BY <1>1, <1>3, OffNext
  <2> QED BY <1>2, <2>1
<1>4. CASE d # t
  <2>1. Off(t, d) = Off(t, k) + 1 BY <1>1, <1>4, OffNext
  <2>2. Off(t, n) < Off(t, d) BY <1>1, <1>4 DEF RxInv, UsedInOrder
  <2> QED BY <1>2, <2>1, <2>2
<1> QED BY <1>3, <1>4

\* A step that leaves the ring and the tail alone and gives up, or receives,
\* what is before descriptor s.
LEMMA StartMoves ==
    ASSUME RxInv, NEW t \in Idx, NEW s \in Idx, RxTypeOK',
           UNCHANGED <<rx_ring, rx_buffer, dma, incoming, arrived, complete>>,
           Tail0 = t, Tail0' = t, Start' = s, pc' # "scan",
           Used(s) => rx_ring[s].sof,
           \A k \in Idx : Off(t, k) < Off(t, s) => Used(k),
           \A k \in Idx : Used(k) /\ ~rx_ring[k].eof /\ Next1(k) = dma
                             => Off(t, s) <= Off(t, k),
           Reclaiming' => reclaim' = t /\ next_rx_tail' = s,
           CompleteInOrder'
    PROVE  RxInv'
<1>1. /\ \A k : Used(k)' <=> Used(k)
      /\ \A k : FrameAt(k)' = FrameAt(k)
      /\ \A k : PosAt(k)' = PosAt(k)
  BY DEF Used, FrameAt, PosAt
<1>2. UsedInOrder' BY <1>1 DEF RxInv, UsedInOrder
<1>3. BuffersFilled' BY <1>1 DEF RxInv, BuffersFilled
<1>4. BuffersInOrder' BY <1>1 DEF RxInv, BuffersInOrder
<1>5. StartsFrame' BY <1>1 DEF StartsFrame
<1>6. IncomingInOrder'
  <2>1. CASE incoming = Nothing BY <2>1 DEF IncomingInOrder
  <2>2. CASE incoming # Nothing
    <3>1. ASSUME incoming.written > 0
          PROVE  \E k \in Idx : /\ Live(k)' /\ ~rx_ring[k].eof /\ Next1(k) = dma
                                /\ FrameAt(k) = arrived
                                /\ PosAt(k) + B = incoming.written + 1
      <4>1. PICK k \in Idx : /\ Live(k) /\ ~rx_ring[k].eof /\ Next1(k) = dma
                             /\ FrameAt(k) = arrived
                             /\ PosAt(k) + B = incoming.written + 1
        BY <2>2, <3>1 DEF RxInv, IncomingInOrder
      <4>2. Used(k) BY <4>1 DEF Live
      <4>3. Off(t, s) <= Off(t, k) BY <4>1, <4>2
      <4>4. Off(t, s) \in Nat /\ Off(t, k) \in Nat BY OffFacts
      <4>5. Live(k)' BY <1>1, <4>2, <4>3, <4>4 DEF Live
      <4> QED BY <4>1, <4>5
    <3> QED BY <1>1, <2>2, <3>1 DEF RxInv, IncomingInOrder
  <2> QED BY <2>1, <2>2
<1>7. ScanInOrder' BY DEF ScanInOrder
<1>8. ReclaimInOrder' BY <1>1 DEF ReclaimInOrder
<1> QED BY <1>2, <1>3, <1>4, <1>5, <1>6, <1>7, <1>8 DEF RxInv

\* What is before the start of a frame behind the tail is given up.
LEMMA RxScanStart ==
    ASSUME RxInv, scan_start
    PROVE  RxInv'
<1> USE RxSizes
<1>1. UNCHANGED <<rx_ring, rx_buffer, dma, incoming, arrived, complete, received,
                  rx_tail, next_rx_tail, wrapped>>
  BY DEF scan_start, controller
<1>2. /\ pc = "scan" /\ pc' = "reclaim" /\ reclaim' = rx_tail
      /\ Used(next_rx_tail) /\ rx_ring[next_rx_tail].sof
      /\ next_rx_tail # rx_tail
  BY DEF scan_start, Fragment, Status, Used
<1>3. rx_tail \in Idx /\ next_rx_tail \in Idx BY DEF RxInv, RxTypeOK
<1>4. PICK n \in Idx : n = next_rx_tail BY <1>3
<1>5. PICK t \in Idx : t = rx_tail BY <1>3
<1>6. Tail0 = t /\ Start = t /\ Tail0' = t /\ Start' = n
  BY <1>1, <1>2, <1>4, <1>5 DEF Tail0, Start, Reclaiming
<1>7. RxTypeOK' BY <1>1, <1>2, <1>3 DEF RxInv, RxTypeOK
<1>8. \A k \in Idx : Off(t, k) < Off(t, n) => Used(k) /\ ~rx_ring[k].eof
  BY <1>2, <1>4, <1>5 DEF RxInv, ScanInOrder
<1>9. /\ \A k : Used(k)' <=> Used(k)
      /\ \A k : FrameAt(k)' = FrameAt(k)
  BY <1>1 DEF Used, FrameAt
<1>10. CompleteInOrder'
  <2>1. ASSUME NEW k \in Idx, rx_ring[k].eof PROVE Live(k)' <=> Live(k)
    <3>1. Off(t, k) \in Nat /\ Off(t, n) \in Nat /\ Off(t, t) = 0 BY OffFacts
    <3>2. Used(k) => Off(t, k) >= Off(t, n) BY <1>8, <2>1, <3>1
    <3> QED BY <1>6, <1>9, <3>1, <3>2 DEF Live
  <2> QED BY <1>1, <1>9, <2>1 DEF RxInv, CompleteInOrder
<1>11. \A k \in Idx : Next1(k) = dma => Off(t, n) <= Off(t, k)
  BY <1>2, <1>4, <1>6, LastUsed
<1> QED BY <1>1, <1>2, <1>4, <1>5, <1>6, <1>7, <1>8, <1>10, <1>11, StartMoves

-----------------------------------------------------------------------------
(***************************************************************************)
(* Receiving: the copy.                                                    *)
(***************************************************************************)
\* Buffers add up.
LEMMA FirstAdds ==
    ASSUME NEW a \in Nat, NEW b \in Nat
    PROVE  First(a + b) = First(a) + First(b)
BY RxSizes DEF First

\* Every position in a frame is in one of its buffers.
LEMMA Position ==
    ASSUME NEW x \in Nat
    PROVE  \E d \in Nat, o \in 0 .. B - 1 : x = First(d) + o
<1> DEFINE d == x \div B
           o == x % B
<1>1. d \in Nat /\ o \in 0 .. B - 1 /\ x = B * d + o BY RxSizes
<1>2. x = First(d) + o BY <1>1, RxSizes DEF First
<1> QED BY <1>1, <1>2

\* A frame of the given number and length.
Bytes(f, len) == [x \in 1 .. len |-> <<f, x>>]

\* When the scan has come to the end of a frame, what macb_recv copies is the
\* frame, also when it passes the end of the ring.
LEMMA Copied ==
    ASSUME RxInv, pc = "scan", Used(next_rx_tail), ~Fragment,
           rx_ring[next_rx_tail].eof, NEW f, f = FrameAt(rx_tail),
           NEW len \in Nat, len = rx_ring[next_rx_tail].length
    PROVE  Packet(len) = Bytes(f, len)
<1> USE RxSizes
<1>1. rx_tail \in Idx /\ next_rx_tail \in Idx BY DEF RxInv, RxTypeOK
<1>2. PICK n \in Idx : n = next_rx_tail BY <1>1
<1>3. PICK t \in Idx : t = rx_tail BY <1>1
<1>4. /\ FrameAt(n) = f /\ PosAt(n) = 1 + First(Off(t, n))
      /\ Off(t, n) < N - 1 /\ Off(t, n) \in Nat
  BY <1>2, <1>3, ScanAt, OffFacts
<1>5. len < 1 + First(Off(t, n)) + B
  BY <1>2, <1>4 DEF RxInv, BuffersFilled
<1>6. wrapped <=> n < t BY <1>2, <1>3 DEF RxInv, ScanInOrder
<1>7. n # t => ~rx_ring[n].sof BY <1>2, <1>3 DEF Fragment, Status
<1>8. Passed <=> n < t BY <1>2, <1>6, <1>7 DEF Passed, Status
<1>9. Packet(len) = [x \in 1 .. len |->
                       IF Passed /\ x > First(N - t)
                       THEN rx_buffer[x - First(N - t) - 1]
                       ELSE rx_buffer[First(t) + x - 1]]
  <2>1. First(N - t) = B * (N - t) /\ First(t) = B * t BY DEF First
  <2> QED BY <1>3, <2>1 DEF Packet, N, B
<1>10. ASSUME NEW x \in 1 .. len
       PROVE  Packet(len)[x] = <<f, x>>
  <2>1. PICK d \in Nat, o \in 0 .. B - 1 : x - 1 = First(d) + o
    <3>1. x - 1 \in Nat OBVIOUS
    <3> QED BY <3>1, Position
  <2>2. First(d) \in Nat /\ First(Off(t, n)) \in Nat BY <1>4, FirstFacts
  <2>3. d <= Off(t, n)
    <3>1. d > Off(t, n) => First(Off(t, n)) + B <= First(d) BY <1>4, FirstFacts
    <3> QED BY <1>4, <1>5, <2>1, <2>2, <3>1, SMTT(30)
  <2>4. PICK k \in Idx : k = IF t + d < N THEN t + d ELSE t + d - N
    <3>1. d < N BY <1>4, <2>3
    <3>2. t \in Nat /\ t < N OBVIOUS
    <3>3. (IF t + d < N THEN t + d ELSE t + d - N) \in Idx BY <3>1, <3>2
    <3> QED BY <3>3
  <2>5. Off(t, k) = d BY <1>4, <2>3, <2>4 DEF Off
  <2>6. rx_buffer[First(k) + o] = <<f, x>>
    <3>1. /\ Used(k) /\ FrameAt(k) = f /\ PosAt(k) = 1 + First(d)
          /\ rx_ring[k].eof => k = n
      <4>1. CASE k = n BY <1>2, <1>4, <2>5, <4>1
      <4>2. CASE k # n
        <5>1. Off(t, k) # Off(t, n) BY <4>2, OffFacts
        <5>2. Off(t, k) < Off(t, n) BY <1>4, <2>3, <2>5, <5>1
        <5> QED BY <1>2, <1>3, <2>5, <5>2 DEF RxInv, ScanInOrder
      <4> QED BY <4>1, <4>2
    <3>2. PosAt(k) + o = x BY <2>1, <2>2, <3>1, SMTT(30)
    <3>3. ~rx_ring[k].eof \/ PosAt(k) + o <= rx_ring[k].length
      BY <1>2, <3>1, <3>2
    <3>4. rx_buffer[First(k) + o] = <<FrameAt(k), PosAt(k) + o>>
      BY <3>1, <3>3 DEF RxInv, BuffersFilled
    <3> QED BY <3>1, <3>2, <3>4
  <2>7. CASE t + d < N
    <3>1. First(d) + B <= First(N - t) /\ First(N - t) \in Nat
      <4>1. N - t \in Nat /\ d < N - t BY <2>7
      <4> QED BY <4>1, FirstFacts
    <3>2. ~(x > First(N - t)) BY <2>1, <2>2, <3>1
    <3>3. First(k) = First(t) + First(d) /\ First(t) \in Nat
      <4>1. t \in Nat /\ k = t + d BY <2>4, <2>7
      <4> QED BY <4>1, FirstAdds, FirstFacts
    <3>4. First(t) + x - 1 = First(k) + o BY <2>1, <2>2, <3>3
    <3>5. Packet(len)[x] = rx_buffer[First(t) + x - 1] BY <1>9, <3>2
    <3> QED BY <2>6, <3>4, <3>5
  <2>8. CASE t + d >= N
    <3>1. Passed BY <1>4, <1>8, <2>3, <2>8 DEF Off
    <3>2. N - t \in Nat /\ k \in Nat /\ d = (N - t) + k BY <2>4, <2>8
    <3>3. /\ First(d) = First(N - t) + First(k)
          /\ First(N - t) \in Nat /\ First(k) \in Nat
      BY <3>2, FirstAdds, FirstFacts
    <3>4. x > First(N - t) /\ x - First(N - t) - 1 = First(k) + o
      <4> DEFINE h == First(N - t)
                 g == First(k)
      <4>1. x - 1 = h + g + o /\ h \in Nat /\ g \in Nat BY <2>1, <3>3
      <4>2. x \in Int /\ o \in Nat OBVIOUS
      <4> HIDE DEF h, g
      <4>3. x > h /\ x - h - 1 = g + o BY ONLY <4>1, <4>2
      <4> QED BY <4>3 DEF h, g
    <3>5. Packet(len)[x] = rx_buffer[x - First(N - t) - 1] BY <1>9, <3>1, <3>4
    <3> QED BY <2>6, <3>4, <3>5
  <2> QED BY <2>7, <2>8
<1> DEFINE P == Packet(len)
<1>11. P = [x \in 1 .. len |-> P[x]] BY <1>9
<1> HIDE DEF P
<1> QED BY <1>10, <1>11 DEF P, Bytes

\* The sequences of frames.
LEMMA FrameSeqs ==
    ASSUME RxTypeOK
    PROVE  /\ DOMAIN complete = 1 .. Len(complete) /\ Len(complete) \in Nat
           /\ DOMAIN received = 1 .. Len(received) /\ Len(received) \in Nat
           /\ \A j \in DOMAIN complete : complete[j].frame \in Nat
           /\ \A j \in DOMAIN complete : complete[j].length \in Nat
<1>1. complete \in Seq(Frame) /\ received \in Seq(Seq(Nat \X Nat)) BY DEF RxTypeOK
<1>2. DOMAIN complete = 1 .. Len(complete) /\ Len(complete) \in Nat BY <1>1
<1>3. DOMAIN received = 1 .. Len(received) /\ Len(received) \in Nat BY <1>1
<1>4. \A j \in DOMAIN complete : complete[j] \in Frame BY <1>1, <1>2
<1> QED BY <1>2, <1>3, <1>4 DEF Frame

\* The frame that is copied is the next one of the complete ones.
LEMMA NextComplete ==
    ASSUME RxInv, pc = "scan", NEW n \in Idx, n = next_rx_tail, Used(n),
           rx_ring[n].eof
    PROVE  /\ Len(received) + 1 \in DOMAIN complete
           /\ complete[Len(received) + 1].frame = FrameAt(n)
           /\ complete[Len(received) + 1].length = rx_ring[n].length
<1> USE RxSizes
<1>1. PICK t \in Idx : t = rx_tail BY DEF RxInv, RxTypeOK
<1>2. Tail0 = t /\ Start = t BY <1>1 DEF Tail0, Start, Reclaiming
<1>4. /\ DOMAIN complete = 1 .. Len(complete) /\ Len(complete) \in Nat
      /\ Len(received) \in Nat
      /\ \A j \in DOMAIN complete : complete[j].frame \in Nat
  BY FrameSeqs DEF RxInv
<1>5. \A k \in Idx : Off(t, k) \in Nat BY OffFacts
<1>6. Live(n)
  <2>1. Off(t, t) = 0 BY OffFacts
  <2> QED BY <1>2, <1>5, <2>1 DEF Live
<1>7. PICK j \in DOMAIN complete : /\ j > Len(received)
                                   /\ complete[j].frame = FrameAt(n)
                                   /\ complete[j].length = rx_ring[n].length
  BY <1>6 DEF RxInv, CompleteInOrder
<1>8. j = Len(received) + 1
  <2>1. SUFFICES ASSUME j > Len(received) + 1 PROVE FALSE BY <1>4, <1>7
  <2>2. PICK m \in DOMAIN complete : m = Len(received) + 1 BY <1>4, <1>7, <2>1
  <2>3. PICK l \in Idx : /\ Live(l) /\ rx_ring[l].eof
                         /\ FrameAt(l) = complete[m].frame
    <3>1. m > Len(received) BY <1>4, <2>2
    <3> QED BY <3>1 DEF RxInv, CompleteInOrder
  <2>4. FrameAt(l) < FrameAt(n)
    <3>1. complete[m].frame < complete[j].frame
      BY <2>1, <2>2 DEF RxInv, CompleteInOrder
    <3> QED BY <1>7, <2>3, <3>1
  <2>5. FrameAt(l) \in Nat /\ FrameAt(n) \in Nat BY <1>4, <1>7, <2>3
  <2>6. l # n BY <2>4, <2>5
  <2>7. ~(Off(t, l) < Off(t, n)) BY <1>1, <2>3 DEF RxInv, ScanInOrder
  <2>8. Off(t, l) # Off(t, n) BY <2>6, OffFacts
  <2>9. Off(t, n) < Off(t, l) BY <1>5, <2>7, <2>8
  <2>10. FrameAt(n) < FrameAt(l)
    BY <1>2, <2>3, <2>9 DEF RxInv, BuffersInOrder, Live
  <2> QED BY <2>4, <2>5, <2>10
<1> QED BY <1>7, <1>8

\* A frame is received: it is the next complete one.
LEMMA RxScanFrame ==
    ASSUME RxInv, scan_frame
    PROVE  RxInv'
<1> USE RxSizes
<1>1. UNCHANGED <<rx_ring, rx_buffer, dma, incoming, arrived, complete,
                  rx_tail, wrapped>>
  BY DEF scan_frame, controller
<1>2. /\ pc = "scan" /\ pc' = "reclaim_last" /\ reclaim' = rx_tail
      /\ Used(next_rx_tail) /\ ~Fragment /\ rx_ring[next_rx_tail].eof
      /\ next_rx_tail' = Next1(next_rx_tail)
      /\ received' = Append(received, Packet(rx_ring[next_rx_tail].length))
  BY DEF scan_frame, Status, Used
<1>3. rx_tail \in Idx /\ next_rx_tail \in Idx BY DEF RxInv, RxTypeOK
<1>4. PICK n \in Idx : n = next_rx_tail BY <1>3
<1>5. PICK t \in Idx : t = rx_tail BY <1>3
<1>6. PICK s \in Idx : s = Next1(n) BY OffNext
<1>7. /\ FrameAt(n) = FrameAt(t) /\ Off(t, n) < N - 1 /\ Off(t, n) \in Nat
  BY <1>2, <1>4, <1>5, ScanAt, OffFacts
<1>8. Off(t, s) = Off(t, n) + 1 BY <1>6, <1>7, OffNext
<1>9. Tail0 = t /\ Start = t /\ Tail0' = t /\ Start' = s
  BY <1>1, <1>2, <1>4, <1>5, <1>6 DEF Tail0, Start, Reclaiming
<1>10. complete \in Seq(Frame) /\ received \in Seq(Seq(Nat \X Nat))
  BY DEF RxInv, RxTypeOK
<1>11. /\ DOMAIN complete = 1 .. Len(complete) /\ Len(complete) \in Nat
       /\ DOMAIN received = 1 .. Len(received) /\ Len(received) \in Nat
       /\ \A j \in DOMAIN complete : complete[j].frame \in Nat
       /\ \A j \in DOMAIN complete : complete[j].length \in Nat
  BY FrameSeqs DEF RxInv
<1>12. PICK m \in DOMAIN complete :
          /\ m = Len(received) + 1
          /\ complete[m].frame = FrameAt(n) /\ complete[m].length = rx_ring[n].length
  BY <1>2, <1>4, NextComplete
<1>13. Packet(rx_ring[next_rx_tail].length) = Content(complete[m])
  <2>1. PICK len \in Nat : len = rx_ring[n].length BY <1>11, <1>12
  <2>2. PICK f : f = FrameAt(rx_tail) OBVIOUS
  <2>3. Packet(len) = Bytes(f, len)
    <3>1. len = rx_ring[next_rx_tail].length BY <1>4, <2>1
    <3>2. /\ pc = "scan" /\ Used(next_rx_tail) /\ ~Fragment
          /\ rx_ring[next_rx_tail].eof
      BY <1>2
    <3>3. RxInv /\ f = FrameAt(rx_tail) /\ len \in Nat BY <2>2
    <3> QED BY ONLY <3>1, <3>2, <3>3, Copied
  <2>4. complete[m].frame = f /\ complete[m].length = len
    BY <1>5, <1>7, <1>12, <2>1, <2>2
  <2> QED BY <1>4, <2>1, <2>3, <2>4 DEF Content, Bytes
<1>14. Content(complete[m]) \in Seq(Nat \X Nat) BY <1>11 DEF Content
<1>15. /\ received' \in Seq(Seq(Nat \X Nat))
       /\ Len(received') = m /\ DOMAIN received' = 1 .. m
       /\ received'[m] = Content(complete[m])
       /\ \A j \in DOMAIN received : received'[j] = received[j]
  BY <1>2, <1>10, <1>11, <1>12, <1>13, <1>14
<1>16. RxTypeOK' BY <1>1, <1>2, <1>3, <1>4, <1>6, <1>15 DEF RxInv, RxTypeOK
<1>17. \A k \in Idx : Off(t, k) \in Nat BY OffFacts
<1>18. ASSUME NEW k \in Idx, Off(t, k) < Off(t, n)
       PROVE  Used(k) /\ ~rx_ring[k].eof
  BY <1>2, <1>4, <1>5, <1>18 DEF RxInv, ScanInOrder
<1>19. \A k \in Idx : Off(t, k) < Off(t, s) => Used(k)
  <2> SUFFICES ASSUME NEW k \in Idx, Off(t, k) < Off(t, s), k # n PROVE Used(k)
    BY <1>2, <1>4
  <2>1. Off(t, k) # Off(t, n) BY OffFacts
  <2> QED BY <1>8, <1>17, <1>18, <2>1
<1>20. Used(s) => rx_ring[s].sof
  <2>1. Off(t, n) < Off(t, s) BY <1>7, <1>8
  <2> QED BY <1>2, <1>4, <1>6, <1>9, <2>1 DEF RxInv, BuffersInOrder
<1>21. ASSUME NEW k \in Idx, Used(k), ~rx_ring[k].eof, Next1(k) = dma
       PROVE  Off(t, s) <= Off(t, k)
  <2>1. Off(t, n) <= Off(t, k) BY <1>2, <1>4, <1>9, <1>21, LastUsed
  <2>2. k # n BY <1>2, <1>4, <1>21
  <2>3. Off(t, k) # Off(t, n) BY <2>2, OffFacts
  <2> QED BY <1>8, <1>17, <2>1, <2>3
<1>22. /\ \A k : Used(k)' <=> Used(k)
       /\ \A k : FrameAt(k)' = FrameAt(k)
  BY <1>1 DEF Used, FrameAt
<1>23. ASSUME NEW k \in Idx, rx_ring[k].eof
       PROVE  Live(k)' <=> Live(k) /\ k # n
  <2>1. Off(t, t) = 0 BY OffFacts
  <2>2. k # n => Off(t, k) # Off(t, n) BY OffFacts
  <2>3. Used(k) => ~(Off(t, k) < Off(t, n)) BY <1>18, <1>23
  <2> QED BY <1>8, <1>9, <1>17, <1>22, <2>1, <2>2, <2>3 DEF Live
<1>24. \A i, j \in DOMAIN complete : i < j => complete[i].frame < complete[j].frame
  BY DEF RxInv, CompleteInOrder
<1>25. CompleteInOrder'
  <2>1. ASSUME NEW k \in Idx, Live(k)', rx_ring[k].eof
        PROVE  \E j \in DOMAIN complete : /\ j > m
                                          /\ complete[j].frame = FrameAt(k)
                                          /\ complete[j].length = rx_ring[k].length
    <3>1. Live(k) /\ k # n BY <1>23, <2>1
    <3>2. PICK j \in DOMAIN complete : /\ j > Len(received)
                                       /\ complete[j].frame = FrameAt(k)
                                       /\ complete[j].length = rx_ring[k].length
      BY <2>1, <3>1 DEF RxInv, CompleteInOrder
    <3>3. Off(t, n) < Off(t, k)
      <4>1. Off(t, k) # Off(t, n) BY <3>1, OffFacts
      <4> QED BY <1>17, <1>18, <2>1, <4>1
    <3>4. FrameAt(n) < FrameAt(k)
      BY <1>2, <1>4, <1>9, <3>1, <3>3 DEF RxInv, BuffersInOrder, Live
    <3>5. j # m BY <1>11, <1>12, <3>2, <3>4
    <3> QED BY <1>11, <1>12, <3>2, <3>5
  <2>2. ASSUME NEW j \in DOMAIN complete, j > m
        PROVE  \E k \in Idx : /\ Live(k)' /\ rx_ring[k].eof
                              /\ FrameAt(k) = complete[j].frame
    <3>1. j > Len(received) BY <1>11, <1>12, <2>2
    <3>2. PICK k \in Idx : /\ Live(k) /\ rx_ring[k].eof
                           /\ FrameAt(k) = complete[j].frame
      BY <3>1 DEF RxInv, CompleteInOrder
    <3>3. complete[m].frame < complete[j].frame BY <1>24, <2>2
    <3>4. k # n BY <1>11, <1>12, <3>2, <3>3
    <3> QED BY <1>23, <3>2, <3>4
  <2>3. \A j \in DOMAIN received' : received'[j] = Content(complete[j])
    <3> SUFFICES ASSUME NEW j \in 1 .. m PROVE received'[j] = Content(complete[j])
      BY <1>15
    <3>1. CASE j = m BY <1>15, <3>1
    <3>2. CASE j # m
      <4>1. j \in DOMAIN received BY <1>11, <1>12, <3>2
      <4> QED BY <1>15, <4>1 DEF RxInv, CompleteInOrder
    <3> QED BY <3>1, <3>2
  <2>4. Len(received') <= Len(complete) BY <1>11, <1>15
  <2>5. \A j \in DOMAIN complete : complete[j].frame <= arrived
                                   /\ (incoming # Nothing => complete[j].frame < arrived)
    BY DEF RxInv, CompleteInOrder
  <2> QED BY <1>1, <1>15, <1>22, <1>24, <2>1, <2>2, <2>3, <2>4, <2>5
          DEF CompleteInOrder
<1>26. pc' # "scan" /\ reclaim' = t /\ next_rx_tail' = s
  BY <1>2, <1>4, <1>5, <1>6
<1> QED BY <1>1, <1>9, <1>16, <1>19, <1>20, <1>21, <1>25, <1>26, StartMoves

-----------------------------------------------------------------------------
(***************************************************************************)
(* Receiving: giving descriptors back.                                     *)
(***************************************************************************)
LEMMA RxReclaim ==
    ASSUME RxInv, reclaim_rx_buffer
    PROVE  RxInv'
<1> USE RxSizes
<1>1. UNCHANGED <<rx_buffer, dma, incoming, arrived, complete, received,
                  rx_tail, next_rx_tail, wrapped, pc>>
  BY DEF reclaim_rx_buffer, controller
<1>2. /\ Reclaiming /\ reclaim # next_rx_tail /\ reclaim' = Next1(reclaim)
      /\ rx_ring' = [rx_ring EXCEPT ![reclaim].used = FALSE]
  BY DEF reclaim_rx_buffer, Reclaiming
<1>3. /\ reclaim \in Idx /\ next_rx_tail \in Idx /\ dma \in Idx
      /\ rx_ring \in [Idx -> Descriptor]
  BY DEF RxInv, RxTypeOK
<1>4. PICK r \in Idx : r = reclaim BY <1>3
<1>5. PICK n \in Idx : n = next_rx_tail BY <1>3
<1>6. PICK d \in Idx : d = dma BY <1>3
<1>7. PICK q \in Idx : q = Next1(r) BY OffNext
<1>8. Reclaiming' BY <1>1, <1>2 DEF Reclaiming
<1>9. Tail0 = r /\ Start = n /\ Tail0' = q /\ Start' = n
  BY <1>1, <1>2, <1>4, <1>5, <1>7, <1>8 DEF Tail0, Start
<1>10. \A k \in Idx : Off(q, k) = IF k = r THEN N - 1 ELSE Off(r, k) - 1
  BY <1>7, OffMove
<1>11. \A k \in Idx : Off(r, k) \in Nat /\ Off(r, k) < N BY OffFacts
<1>12. /\ rx_ring' \in [Idx -> Descriptor]
       /\ \A k \in Idx : Used(k)' <=> Used(k) /\ k # r
       /\ \A k \in Idx : /\ rx_ring'[k].sof = rx_ring[k].sof
                         /\ rx_ring'[k].eof = rx_ring[k].eof
                         /\ rx_ring'[k].length = rx_ring[k].length
  BY <1>2, <1>3, <1>4, ZenonT(60) DEF Descriptor, Used
<1>13. /\ \A k : FrameAt(k)' = FrameAt(k)
       /\ \A k : PosAt(k)' = PosAt(k)
  BY <1>1 DEF FrameAt, PosAt
<1>14. Off(r, n) > 0 /\ Used(r)
  <2>1. Off(r, r) = 0 /\ Off(r, n) # 0 BY <1>2, <1>4, <1>5, OffFacts
  <2>2. Off(r, n) > 0 BY <1>11, <2>1
  <2> QED BY <1>2, <1>4, <1>5, <2>1, <2>2 DEF RxInv, ReclaimInOrder
<1>15. n # r BY <1>2, <1>4, <1>5
<1>16. \A k \in Idx : Live(k)' <=> Live(k)
  <2> SUFFICES ASSUME NEW k \in Idx PROVE Live(k)' <=> Live(k) OBVIOUS
  <2>1. CASE k = r
    <3>1. Off(r, r) = 0 BY OffFacts
    <3> QED BY <1>9, <1>11, <1>12, <1>14, <2>1, <3>1 DEF Live
  <2>2. CASE k # r
    <3>1. Off(q, k) = Off(r, k) - 1 /\ Off(q, n) = Off(r, n) - 1
      BY <1>10, <1>15, <2>2
    <3>2. Off(r, k) \in Nat /\ Off(r, n) \in Nat BY <1>11
    <3>3. Off(q, k) >= Off(q, n) <=> Off(r, k) >= Off(r, n) BY <3>1, <3>2
    <3> QED BY <1>9, <1>12, <2>2, <3>3 DEF Live
  <2> QED BY <2>1, <2>2
<1>17. RxTypeOK' BY <1>1, <1>2, <1>4, <1>7, <1>12 DEF RxInv, RxTypeOK
<1>18. UsedInOrder'
  <2> SUFFICES ASSUME NEW k \in Idx
               PROVE  Used(k)' <=> Off(q, k) < Off(q, d)
    BY <1>1, <1>6, <1>9 DEF UsedInOrder
  <2>1. CASE \A l \in Idx : Used(l) <=> Off(r, l) < Off(r, d)
    <3>1. Off(r, r) < Off(r, d) BY <1>14, <2>1
    <3>2. d # r BY <1>11, <3>1
    <3>3. Used(k) <=> Off(r, k) < Off(r, d) BY <2>1
    <3>4. Off(q, d) = Off(r, d) - 1 BY <1>10, <3>2
    <3>5. CASE k = r
      <4>1. Off(q, k) = N - 1 BY <1>10, <3>5
      <4>2. ~(N - 1 < Off(r, d) - 1) BY <1>11
      <4> QED BY <1>12, <3>4, <3>5, <4>1, <4>2
    <3>6. CASE k # r
      <4>1. Off(q, k) = Off(r, k) - 1 BY <1>10, <3>6
      <4>2. Off(r, k) < Off(r, d) <=> Off(r, k) - 1 < Off(r, d) - 1
        <5>1. Off(r, k) \in Nat /\ Off(r, d) \in Nat BY <1>11
        <5> QED BY <5>1
      <4> QED BY <1>12, <3>3, <3>4, <3>6, <4>1, <4>2
    <3> QED BY <3>5, <3>6
  <2>2. CASE r = d /\ \A l \in Idx : Used(l)
    <3>1. Off(q, d) = N - 1 BY <1>10, <2>2
    <3>2. CASE k = r
      <4>1. ~(N - 1 < N - 1) OBVIOUS
      <4> QED BY <1>10, <1>12, <3>1, <3>2, <4>1
    <3>3. CASE k # r
      <4>1. Off(q, k) = Off(r, k) - 1 BY <1>10, <3>3
      <4>2. Off(r, k) - 1 < N - 1 BY <1>11
      <4> QED BY <1>12, <2>2, <3>1, <3>3, <4>1, <4>2
    <3> QED BY <3>2, <3>3
  <2> QED BY <1>6, <1>9, <2>1, <2>2 DEF RxInv, UsedInOrder
<1>19. BuffersFilled' BY <1>1, <1>12, <1>13 DEF RxInv, BuffersFilled
<1>20. BuffersInOrder'
  <2>1. ASSUME NEW k \in Idx, NEW l \in Idx, Used(k)', Used(l)', Off(q, k) < Off(q, l)
        PROVE  Used(k) /\ Used(l) /\ Off(r, k) < Off(r, l)
    <3>1. Used(k) /\ Used(l) /\ k # r /\ l # r BY <1>12, <2>1
    <3>2. Off(q, k) = Off(r, k) - 1 /\ Off(q, l) = Off(r, l) - 1 BY <1>10, <3>1
    <3>3. Off(r, k) \in Nat /\ Off(r, l) \in Nat BY <1>11
    <3> QED BY <2>1, <3>1, <3>2, <3>3
  <2> QED BY <1>1, <1>9, <1>12, <1>13, <2>1 DEF RxInv, BuffersInOrder
<1>21. IncomingInOrder' BY <1>1, <1>12, <1>13, <1>16 DEF RxInv, IncomingInOrder
<1>22. StartsFrame' BY <1>9, <1>12 DEF RxInv, StartsFrame
<1>23. ScanInOrder' BY <1>8 DEF ScanInOrder, Reclaiming
<1>24. ReclaimInOrder'
  <2> SUFFICES ASSUME NEW k \in Idx, Off(q, k) < Off(q, n) PROVE Used(k)'
    BY <1>1, <1>2, <1>4, <1>5, <1>7 DEF ReclaimInOrder
  <2>1. Off(q, n) = Off(r, n) - 1 BY <1>10, <1>15
  <2>2. k # r
    <3>1. ~(N - 1 < Off(r, n) - 1) BY <1>11
    <3> QED BY <1>10, <2>1, <3>1
  <2>3. Off(q, k) = Off(r, k) - 1 BY <1>10, <2>2
  <2>4. Off(r, k) < Off(r, n) BY <1>11, <2>1, <2>3
  <2> QED BY <1>2, <1>4, <1>5, <1>12, <2>2, <2>4 DEF RxInv, ReclaimInOrder
<1>25. CompleteInOrder' BY <1>1, <1>12, <1>13, <1>16, SMTT(30) DEF RxInv, CompleteInOrder
<1> QED BY <1>17, <1>18, <1>19, <1>20, <1>21, <1>22, <1>23, <1>24, <1>25 DEF RxInv

\* The tail moves behind what was given back.
LEMMA RxReclaimed ==
    ASSUME RxInv, reclaimed
    PROVE  RxInv'
<1> USE RxSizes
<1>1. UNCHANGED <<rx_ring, rx_buffer, dma, incoming, arrived, complete, received,
                  next_rx_tail, reclaim>>
  BY DEF reclaimed, controller
<1>2. /\ Reclaiming /\ reclaim = next_rx_tail /\ rx_tail' = next_rx_tail
      /\ pc' \in {"scan", "idle"}
      /\ pc' = "scan" => ~wrapped'
      /\ wrapped' \in BOOLEAN
  BY DEF reclaimed, Reclaiming
<1>3. PICK n \in Idx : n = next_rx_tail BY DEF RxInv, RxTypeOK
<1>4. Tail0' = Tail0 /\ Start' = Start BY <1>1, <1>2 DEF Tail0, Start, Reclaiming
<1>5. RxTypeOK' BY <1>1, <1>2, <1>3 DEF RxInv, RxTypeOK
<1>6. ScanInOrder'
  <2>1. \A k \in Idx : ~(Off(n, k) < Off(n, n)) BY OffFacts, SMTT(30)
  <2>2. rx_tail' = n /\ next_rx_tail' = n /\ ~(n < n) BY <1>1, <1>2, <1>3
  <2> QED BY <1>2, <2>1, <2>2 DEF ScanInOrder
<1>7. ReclaimInOrder' BY <1>2 DEF ReclaimInOrder, Reclaiming
<1> QED BY <1>1, <1>4, <1>5, <1>6, <1>7, RingKept

-----------------------------------------------------------------------------
(***************************************************************************)
(* Receiving: the controller.                                              *)
(***************************************************************************)
\* A frame begins to arrive, or is cut short.
LEMMA RxArrives ==
    ASSUME RxInv, (\E n \in Lengths : frame_arrives(n)) \/ dma_overrun
    PROVE  RxInv'
<1> USE RxSizes
<1>1. UNCHANGED <<rx_ring, rx_buffer, dma, complete, received, rx_tail,
                  next_rx_tail, wrapped, reclaim, pc>>
  BY DEF frame_arrives, dma_overrun, driver
<1>2. \/ incoming' = Nothing /\ arrived' = arrived
      \/ \E n \in Lengths : /\ arrived' = arrived + 1
                            /\ incoming' = [frame |-> arrived + 1, length |-> n,
                                            written |-> 0]
  BY DEF frame_arrives, dma_overrun
<1>3. arrived \in Nat BY DEF RxInv, RxTypeOK
<1>4. arrived' \in Nat /\ arrived' >= arrived /\ incoming' \in Frame
  BY <1>2, <1>3, LongestFacts DEF Frame, Nothing
<1>5. RxTypeOK' BY <1>1, <1>4 DEF RxInv, RxTypeOK
<1>6. Tail0' = Tail0 /\ Start' = Start BY <1>1 DEF Tail0, Start, Reclaiming
<1>7. /\ \A k : Used(k)' <=> Used(k)
      /\ \A k : FrameAt(k)' = FrameAt(k)
      /\ \A k : PosAt(k)' = PosAt(k)
  BY <1>1 DEF Used, FrameAt, PosAt
<1>8. \A k : Live(k)' <=> Live(k) BY <1>6, <1>7 DEF Live
<1>9. UsedInOrder' BY <1>1, <1>6, <1>7 DEF RxInv, UsedInOrder
<1>10. BuffersFilled' BY <1>1, <1>7 DEF RxInv, BuffersFilled
<1>11. ASSUME NEW k \in Idx, Used(k)
       PROVE  FrameAt(k) \in Nat /\ FrameAt(k) <= arrived
  <2>1. First(k) + 0 \in Byte BY BytesOf
  <2>2. First(k) + 0 = First(k) BY FirstFacts
  <2>3. rx_buffer[First(k)] \in Nat \X Nat BY <2>1, <2>2 DEF RxInv, RxTypeOK
  <2> QED BY <1>11, <2>3 DEF RxInv, BuffersInOrder, FrameAt
<1>12. BuffersInOrder'
  <2>1. ASSUME NEW k \in Idx, Used(k) PROVE FrameAt(k) <= arrived'
    BY <1>3, <1>4, <1>11, <2>1
  <2> QED BY <1>1, <1>6, <1>7, <2>1 DEF RxInv, BuffersInOrder
<1>13. IncomingInOrder'
  <2>1. CASE incoming' = Nothing BY <2>1 DEF IncomingInOrder
  <2>2. CASE incoming' # Nothing
    <3>1. PICK n \in Lengths : /\ arrived' = arrived + 1
                               /\ incoming' = [frame |-> arrived + 1, length |-> n,
                                               written |-> 0]
      BY <1>2, <2>2
    <3>2. /\ incoming'.frame = arrived' /\ incoming'.written = 0
          /\ incoming'.length = n /\ 0 < n /\ n <= Longest
      BY <3>1, LongestFacts
    <3>3. ASSUME NEW k \in Idx, Used(k) PROVE FrameAt(k) < arrived'
      BY <1>3, <1>11, <3>1, <3>3
    <3> QED BY <1>7, <3>2, <3>3 DEF IncomingInOrder
  <2> QED BY <2>1, <2>2
<1>14. StartsFrame' BY <1>1, <1>6, <1>7 DEF RxInv, StartsFrame
<1>15. ScanInOrder' /\ ReclaimInOrder'
  BY <1>1, <1>7 DEF RxInv, ScanInOrder, ReclaimInOrder, Reclaiming
<1>16. CompleteInOrder'
  <2>1. ASSUME NEW j \in DOMAIN complete
        PROVE  /\ complete[j].frame <= arrived'
               /\ incoming' # Nothing => complete[j].frame < arrived'
    <3>1. complete[j].frame \in Nat BY FrameSeqs DEF RxInv
    <3>2. complete[j].frame <= arrived BY DEF RxInv, CompleteInOrder
    <3> QED BY <1>2, <1>3, <3>1, <3>2
  <2> QED BY <1>1, <1>7, <1>8, <2>1 DEF RxInv, CompleteInOrder
<1> QED BY <1>5, <1>9, <1>10, <1>12, <1>13, <1>14, <1>15, <1>16 DEF RxInv

\* What dma_write does to the buffers: it fills the next one from the
\* position that the frame has come to.
LEMMA Written ==
    ASSUME RxInv, dma_write
    PROVE  /\ rx_buffer' \in [Byte -> Nat \X Nat]
           /\ \A k \in Idx, o \in 0 .. B - 1 :
                 k # dma => rx_buffer'[First(k) + o] = rx_buffer[First(k) + o]
           /\ \A o \in 0 .. B - 1 :
                 incoming.written + 1 + o <= incoming.length =>
                    rx_buffer'[First(dma) + o]
                       = <<incoming.frame, incoming.written + 1 + o>>
<1> USE RxSizes
<1> DEFINE w == incoming.written
           pos(b) == w + 1 + b - First(dma)
<1>1. w \in Nat /\ incoming.length \in Nat /\ incoming.frame \in Nat
  <2>1. incoming \in Frame BY DEF RxInv, RxTypeOK
  <2> QED BY <2>1 DEF Frame
<1>2. PICK d \in Idx : d = dma BY DEF RxInv, RxTypeOK
<1>3. rx_buffer' = [b \in Byte |->
          IF b \div B = dma /\ pos(b) <= incoming.length
          THEN <<incoming.frame, pos(b)>> ELSE rx_buffer[b]]
  BY DEF dma_write, B, First
<1>4. rx_buffer \in [Byte -> Nat \X Nat] BY DEF RxInv, RxTypeOK
<1>5. First(d) \in Nat
  <2>1. d \in Nat OBVIOUS
  <2> QED BY <2>1, FirstFacts
<1>6. ASSUME NEW o \in 0 .. B - 1 PROVE pos(First(d) + o) = w + 1 + o
  BY <1>1, <1>2, <1>5
<1>7. ASSUME NEW b \in Byte PROVE rx_buffer'[b] \in Nat \X Nat
  <2>1. PICK k \in Idx, o \in 0 .. B - 1 : b = First(k) + o BY ByteOf
  <2>2. b \div B = k BY <2>1, BytesOf
  <2>3. CASE k = d
    <3>1. pos(b) = w + 1 + o BY <1>6, <2>1, <2>3
    <3>2. pos(b) \in Nat BY <1>1, <3>1
    <3> HIDE DEF pos
    <3> QED BY <1>1, <1>3, <1>4, <3>2
  <2>4. CASE k # d BY <1>2, <1>3, <1>4, <2>2, <2>4
  <2> QED BY <2>3, <2>4
<1>8. ASSUME NEW k \in Idx, NEW o \in 0 .. B - 1, k # dma
      PROVE  rx_buffer'[First(k) + o] = rx_buffer[First(k) + o]
  <2>1. First(k) + o \in Byte /\ (First(k) + o) \div B = k BY BytesOf
  <2> QED BY <1>3, <1>8, <2>1
<1>9. ASSUME NEW o \in 0 .. B - 1, w + 1 + o <= incoming.length
      PROVE  rx_buffer'[First(dma) + o] = <<incoming.frame, w + 1 + o>>
  <2>1. First(d) + o \in Byte /\ (First(d) + o) \div B = d BY BytesOf
  <2>2. pos(First(d) + o) = w + 1 + o BY <1>6
  <2> HIDE DEF pos, w
  <2> QED BY <1>2, <1>3, <1>9, <2>1, <2>2
<1>10. rx_buffer' \in [Byte -> Nat \X Nat]
  <2>1. rx_buffer' = [b \in Byte |-> rx_buffer'[b]] BY <1>3
  <2> QED BY <1>7, <2>1
<1> QED BY <1>8, <1>9, <1>10

\* The number and the position at the start of a buffer.
LEMMA AtTypes ==
    ASSUME RxTypeOK, NEW k \in Idx
    PROVE  FrameAt(k) \in Nat /\ PosAt(k) \in Nat
<1> USE RxSizes
<1>1. First(k) + 0 \in Byte BY BytesOf
<1>2. First(k) \in Nat
  <2>1. k \in Nat OBVIOUS
  <2> QED BY <2>1, FirstFacts
<1>3. First(k) \in Byte BY <1>1, <1>2
<1>4. rx_buffer[First(k)] \in Nat \X Nat BY <1>3 DEF RxTypeOK
<1> QED BY <1>4 DEF FrameAt, PosAt

\* The controller fills a buffer.
LEMMA RxWrite ==
    ASSUME RxInv, dma_write
    PROVE  RxInv'
<1> USE RxSizes
<1>1. UNCHANGED <<received, rx_tail, next_rx_tail, wrapped, reclaim, pc, arrived>>
  BY DEF dma_write, driver
<1>2. /\ RxTypeOK /\ incoming \in Frame /\ dma \in Idx
      /\ rx_ring \in [Idx -> Descriptor]
      /\ complete \in Seq(Frame) /\ arrived \in Nat
  BY DEF RxInv, RxTypeOK
<1>3. PICK w \in Nat, len \in Nat :
         w = incoming.written /\ len = incoming.length /\ incoming.frame \in Nat
  BY <1>2 DEF Frame
<1>4. PICK d \in Idx : d = dma BY <1>2
<1>5. /\ incoming # Nothing /\ ~Used(d) /\ dma' = Next1(d)
      /\ rx_ring' = [rx_ring EXCEPT ![d] =
            [used |-> TRUE, sof |-> w = 0, eof |-> w + B >= len,
             length |-> IF w + B >= len THEN len ELSE 0]]
      /\ incoming' = IF w + B >= len THEN Nothing
                     ELSE [incoming EXCEPT !.written = w + B]
      /\ complete' = IF w + B >= len THEN Append(complete, incoming) ELSE complete
  BY <1>3, <1>4 DEF dma_write, Used, B
<1>6. /\ incoming.frame = arrived /\ w < len /\ len <= Longest
      /\ w = 0 => \A k \in Idx : Used(k) => FrameAt(k) < arrived
      /\ w > 0 => \E k \in Idx : /\ Live(k) /\ ~rx_ring[k].eof /\ Next1(k) = d
                                 /\ FrameAt(k) = arrived /\ PosAt(k) + B = w + 1
  BY <1>3, <1>4, <1>5 DEF RxInv, IncomingInOrder
<1>7. /\ rx_ring' \in [Idx -> Descriptor]
      /\ \A k \in Idx : Used(k)' <=> Used(k) \/ k = d
      /\ \A k \in Idx : k # d => rx_ring'[k] = rx_ring[k]
      /\ (rx_ring'[d].sof <=> w = 0) /\ (rx_ring'[d].eof <=> w + B >= len)
      /\ w + B >= len => rx_ring'[d].length = len
  <2> DEFINE desc == [used |-> TRUE, sof |-> w = 0, eof |-> w + B >= len,
                      length |-> IF w + B >= len THEN len ELSE 0]
  <2>1. desc \in Descriptor BY DEF Descriptor
  <2>2. /\ desc.used = TRUE /\ desc.sof = (w = 0) /\ desc.eof = (w + B >= len)
        /\ w + B >= len => desc.length = len
    OBVIOUS
  <2>3. rx_ring' = [rx_ring EXCEPT ![d] = desc] BY <1>5
  <2> HIDE DEF desc
  <2>4. /\ rx_ring' \in [Idx -> Descriptor] /\ rx_ring'[d] = desc
        /\ \A k \in Idx : k # d => rx_ring'[k] = rx_ring[k]
    BY <1>2, <2>1, <2>3
  <2>5. \A k \in Idx : Used(k)' <=> Used(k) \/ k = d BY <2>2, <2>4 DEF Used
  <2>6. (rx_ring'[d].sof <=> w = 0) /\ (rx_ring'[d].eof <=> w + B >= len)
    BY <2>2, <2>4, Zenon
  <2> QED BY <2>2, <2>4, <2>5, <2>6
<1>8. PICK t \in Idx : t = Tail0 BY DEF RxInv, RxTypeOK, Tail0
<1>9. PICK s \in Idx : s = Start BY DEF RxInv, RxTypeOK, Start
<1>10. Tail0' = t /\ Start' = s BY <1>1, <1>8, <1>9 DEF Tail0, Start, Reclaiming
<1>11. \A k \in Idx : Off(t, k) \in Nat /\ Off(t, k) < N BY OffFacts
<1>12. \A k \in Idx : Used(k) <=> Off(t, k) < Off(t, d)
  BY <1>4, <1>5, <1>8 DEF RxInv, UsedInOrder
<1>13. Off(t, s) <= Off(t, d)
  <2>1. CASE Reclaiming
    <3>1. ~(Off(t, d) < Off(t, s))
      BY <1>5, <1>8, <1>9, <2>1 DEF RxInv, ReclaimInOrder, Tail0, Start
    <3> QED BY <1>11, <3>1
  <2>2. CASE ~Reclaiming
    <3>1. s = t BY <1>8, <1>9, <2>2 DEF Tail0, Start
    <3>2. Off(t, t) = 0 BY OffFacts
    <3> QED BY <1>11, <3>1, <3>2
  <2> QED BY <2>1, <2>2
<1>14. \A k \in Idx : Live(k)' <=> Live(k) \/ k = d
  <2>1. \A k \in Idx : Live(k)' <=> Used(k)' /\ Off(t, k) >= Off(t, s)
    BY <1>10 DEF Live
  <2>2. \A k \in Idx : Live(k) <=> Used(k) /\ Off(t, k) >= Off(t, s)
    BY <1>8, <1>9 DEF Live
  <2>3. Off(t, d) >= Off(t, s) BY <1>11, <1>13
  <2> QED BY <1>7, <2>1, <2>2, <2>3
<1>15. /\ \A k \in Idx, o \in 0 .. B - 1 :
             k # d => rx_buffer'[First(k) + o] = rx_buffer[First(k) + o]
       /\ \A o \in 0 .. B - 1 :
             w + 1 + o <= len =>
                rx_buffer'[First(d) + o] = <<arrived, w + 1 + o>>
       /\ rx_buffer' \in [Byte -> Nat \X Nat]
  BY <1>3, <1>4, <1>6, Written
<1>16. \A k \in Idx : First(k) + 0 = First(k)
  <2>1. \A k \in Idx : k \in Nat OBVIOUS
  <2>2. \A k \in Idx : First(k) \in Nat BY <2>1, FirstFacts
  <2> QED BY <2>2
<1>17. /\ \A k \in Idx : k # d => FrameAt(k)' = FrameAt(k) /\ PosAt(k)' = PosAt(k)
       /\ FrameAt(d)' = arrived /\ PosAt(d)' = w + 1
  <2>1. 0 \in 0 .. B - 1 OBVIOUS
  <2>2. ASSUME NEW k \in Idx, k # d PROVE rx_buffer'[First(k)] = rx_buffer[First(k)]
    <3>1. rx_buffer'[First(k) + 0] = rx_buffer[First(k) + 0] BY <1>15, <2>1, <2>2
    <3> QED BY <1>16, <3>1
  <2>3. rx_buffer'[First(d)] = <<arrived, w + 1>>
    <3>1. w + 1 + 0 <= len /\ w + 1 + 0 = w + 1 BY <1>6
    <3>2. rx_buffer'[First(d) + 0] = <<arrived, w + 1 + 0>> BY <1>15, <2>1, <3>1
    <3> QED BY <1>16, <3>1, <3>2
  <2> QED BY <2>2, <2>3 DEF FrameAt, PosAt
<1>18. RxTypeOK'
  <2>1. Next1(d) \in Idx BY OffNext
  <2>2. incoming' \in Frame
    <3>1. Nothing \in Frame BY DEF Frame, Nothing
    <3>2. w + B \in Nat OBVIOUS
    <3>3. [incoming EXCEPT !.written = w + B] \in Frame BY <1>2, <3>2 DEF Frame
    <3> QED BY <1>5, <3>1, <3>3
  <2>3. complete' \in Seq(Frame) BY <1>2, <1>5
  <2> QED BY <1>1, <1>5, <1>7, <1>15, <2>1, <2>2, <2>3 DEF RxInv, RxTypeOK
<1>19. UsedInOrder'
  <2>1. CASE Next1(d) = t
    <3>1. Off(t, d) = N - 1 BY <2>1, OffNext
    <3>2. ASSUME NEW k \in Idx, k # d PROVE Used(k)
      <4>1. Off(t, k) # Off(t, d) BY <3>2, OffFacts
      <4>2. Off(t, k) < Off(t, d) BY <1>11, <3>1, <4>1
      <4> QED BY <1>12, <4>2
    <3> QED BY <1>5, <1>7, <1>10, <2>1, <3>2 DEF UsedInOrder
  <2>2. CASE Next1(d) # t
    <3>1. Off(t, Next1(d)) = Off(t, d) + 1 BY <2>2, OffNext
    <3>2. ASSUME NEW k \in Idx
          PROVE  Used(k)' <=> Off(t, k) < Off(t, d) + 1
      <4>1. k # d => Off(t, k) # Off(t, d) BY OffFacts
      <4>2. Off(t, k) \in Nat /\ Off(t, d) \in Nat BY <1>11
      <4>3. Off(t, k) < Off(t, d) + 1 <=> Off(t, k) < Off(t, d) \/ k = d
        BY <4>1, <4>2
      <4> QED BY <1>7, <1>12, <4>3
    <3> QED BY <1>5, <1>10, <3>1, <3>2 DEF UsedInOrder
  <2> QED BY <2>1, <2>2
<1>20. BuffersFilled'
  <2> SUFFICES ASSUME NEW k \in Idx, Used(k)'
      PROVE  /\ PosAt(k)' >= 1 /\ (rx_ring'[k].sof <=> PosAt(k)' = 1)
             /\ rx_ring'[k].eof => /\ PosAt(k)' <= rx_ring'[k].length
                                   /\ rx_ring'[k].length < PosAt(k)' + B
                                   /\ rx_ring'[k].length <= Longest
             /\ ~rx_ring'[k].eof => PosAt(k)' + B <= Longest
             /\ \A o \in 0 .. B - 1 :
                   ~rx_ring'[k].eof \/ PosAt(k)' + o <= rx_ring'[k].length =>
                      rx_buffer'[First(k) + o] = <<FrameAt(k)', PosAt(k)' + o>>
    BY DEF BuffersFilled
  <2>1. CASE k = d
    <3>1. PosAt(d)' = w + 1 /\ FrameAt(d)' = arrived BY <1>17
    <3>2. w + 1 >= 1 /\ (w = 0 <=> w + 1 = 1) OBVIOUS
    <3>3. w + B >= len => w + 1 <= len /\ len < w + 1 + B BY <1>6
    <3>4. ~(w + B >= len) => w + 1 + B <= Longest BY <1>6, LongestFacts
    <3>5. ASSUME NEW o \in 0 .. B - 1, ~(w + B >= len) \/ w + 1 + o <= len
          PROVE  rx_buffer'[First(d) + o] = <<arrived, w + 1 + o>>
      <4>1. w + 1 + o <= len BY <3>5
      <4> QED BY <1>15, <4>1
    <3>6. (rx_ring'[d].sof <=> w = 0) /\ (rx_ring'[d].eof <=> w + B >= len)
      BY <1>7
    <3>7. CASE w + B >= len
      <4>1. rx_ring'[d].length = len /\ len <= Longest BY <1>6, <1>7, <3>7
      <4> QED BY <2>1, <3>1, <3>2, <3>3, <3>5, <3>6, <3>7, <4>1
    <3>8. CASE ~(w + B >= len)
      BY <2>1, <3>1, <3>2, <3>4, <3>5, <3>6, <3>8
    <3> QED BY <3>7, <3>8
  <2>2. CASE k # d
    <3>1. Used(k) /\ rx_ring'[k] = rx_ring[k] BY <1>7, <2>2
    <3>2. FrameAt(k)' = FrameAt(k) /\ PosAt(k)' = PosAt(k) BY <1>17, <2>2
    <3>3. \A o \in 0 .. B - 1 : rx_buffer'[First(k) + o] = rx_buffer[First(k) + o]
      BY <1>15, <2>2
    <3> QED BY <3>1, <3>2, <3>3 DEF RxInv, BuffersFilled
  <2> QED BY <2>1, <2>2
<1>21. ASSUME w > 0
       PROVE  \E k \in Idx : /\ Used(k) /\ Off(t, k) >= Off(t, s) /\ ~rx_ring[k].eof
                             /\ Next1(k) = d
                             /\ FrameAt(k) = arrived /\ PosAt(k) + B = w + 1
  BY <1>6, <1>8, <1>9, <1>21 DEF Live
<1>22. \A k \in Idx : FrameAt(k) \in Nat BY <1>2, AtTypes
<1>23. ASSUME NEW k \in Idx, Used(k)
       PROVE  /\ FrameAt(k) <= arrived
              /\ rx_ring[k].eof => FrameAt(k) < arrived
              /\ d = Next1(k) /\ rx_ring[k].eof => w = 0
              /\ d = Next1(k) /\ w # 0 => FrameAt(k) = arrived /\ w + 1 = PosAt(k) + B
  <2>1. FrameAt(k) <= arrived BY <1>23 DEF RxInv, BuffersInOrder
  <2>2. CASE w = 0 BY <1>6, <1>23, <2>1, <2>2
  <2>3. CASE w > 0
    <3>1. PICK l \in Idx : /\ Used(l) /\ ~rx_ring[l].eof /\ Next1(l) = d
                           /\ FrameAt(l) = arrived /\ PosAt(l) + B = w + 1
      BY <1>21, <2>3
    <3>2. d = Next1(k) => k = l BY <3>1, OffNext
    <3>3. ASSUME rx_ring[k].eof PROVE FrameAt(k) < arrived
      <4>1. Off(t, k) <= Off(t, l) BY <1>4, <1>8, <1>23, <3>1, LastUsed
      <4>2. k # l BY <3>1, <3>3
      <4>3. Off(t, k) # Off(t, l) BY <4>2, OffFacts
      <4>4. Off(t, k) < Off(t, l) BY <1>11, <4>1, <4>3
      <4> QED BY <1>8, <1>23, <3>1, <3>3, <4>4 DEF RxInv, BuffersInOrder
    <3> QED BY <2>1, <2>3, <3>1, <3>2, <3>3
  <2> QED BY <2>2, <2>3
<1>24. BuffersInOrder'
  <2>1. ASSUME NEW k \in Idx, NEW l \in Idx, Used(k)', Used(l)', Off(t, k) < Off(t, l)
        PROVE  /\ FrameAt(k)' <= FrameAt(l)'
               /\ rx_ring'[k].eof => FrameAt(k)' < FrameAt(l)'
               /\ l = Next1(k) =>
                     /\ rx_ring'[k].eof => rx_ring'[l].sof
                     /\ ~rx_ring'[l].sof => /\ FrameAt(l)' = FrameAt(k)'
                                            /\ PosAt(l)' = PosAt(k)' + B
    <3>1. k # d
      <4>1. CASE l = d BY <1>11, <2>1, <4>1
      <4>2. CASE l # d
        <5>1. Off(t, l) < Off(t, d) BY <1>7, <1>12, <2>1, <4>2
        <5> QED BY <1>11, <2>1, <5>1
      <4> QED BY <4>1, <4>2
    <3>2. Used(k) /\ rx_ring'[k] = rx_ring[k] BY <1>7, <2>1, <3>1
    <3>3. FrameAt(k)' = FrameAt(k) /\ PosAt(k)' = PosAt(k) BY <1>17, <3>1
    <3>4. CASE l = d
      <4>1. FrameAt(l)' = arrived /\ PosAt(l)' = w + 1 BY <1>17, <3>4
      <4>2. rx_ring'[l].sof <=> w = 0 BY <1>7, <3>4
      <4> QED BY <1>23, <3>2, <3>3, <3>4, <4>1, <4>2
    <3>5. CASE l # d
      <4>1. Used(l) /\ rx_ring'[l] = rx_ring[l] BY <1>7, <2>1, <3>5
      <4>2. FrameAt(l)' = FrameAt(l) /\ PosAt(l)' = PosAt(l) BY <1>17, <3>5
      <4> QED BY <1>8, <2>1, <3>2, <3>3, <4>1, <4>2 DEF RxInv, BuffersInOrder
    <3> QED BY <3>4, <3>5
  <2>2. ASSUME NEW k \in Idx, Used(k)' PROVE FrameAt(k)' <= arrived
    <3>1. CASE k = d BY <1>2, <1>17, <3>1
    <3>2. CASE k # d BY <1>7, <1>17, <1>23, <2>2, <3>2
    <3> QED BY <3>1, <3>2
  <2> QED BY <1>1, <1>10, <2>1, <2>2 DEF BuffersInOrder
<1>25. IncomingInOrder'
  <2>1. CASE w + B >= len BY <1>5, <2>1 DEF IncomingInOrder
  <2>2. CASE ~(w + B >= len)
    <3>1. /\ incoming'.frame = arrived /\ incoming'.length = len
          /\ incoming'.written = w + B
      BY <1>2, <1>3, <1>5, <1>6, <2>2 DEF Frame
    <3>2. w + B < len /\ w + B > 0 BY <2>2
    <3>3. /\ Live(d)' /\ ~rx_ring'[d].eof /\ FrameAt(d)' = arrived
          /\ PosAt(d)' + B = w + B + 1
      <4>1. Live(d)' BY <1>14
      <4>2. ~rx_ring'[d].eof BY <1>7, <2>2
      <4>3. FrameAt(d)' = arrived /\ PosAt(d)' = w + 1 BY <1>17
      <4> QED BY <4>1, <4>2, <4>3
    <3> QED BY <1>1, <1>5, <1>6, <3>1, <3>2, <3>3 DEF IncomingInOrder
  <2> QED BY <2>1, <2>2
<1>26. StartsFrame'
  <2>1. CASE s = d
    <3>1. w = 0
      <4>1. SUFFICES ASSUME w > 0 PROVE FALSE OBVIOUS
      <4>2. PICK k \in Idx : Used(k) /\ Off(t, k) >= Off(t, s) BY <1>21, <4>1
      <4>3. Off(t, k) < Off(t, d) BY <1>12, <4>2
      <4> QED BY <1>11, <2>1, <4>2, <4>3
    <3> QED BY <1>7, <1>10, <2>1, <3>1 DEF StartsFrame
  <2>2. CASE s # d
    BY <1>7, <1>9, <1>10, <2>2 DEF RxInv, StartsFrame
  <2> QED BY <2>1, <2>2
<1>27. ScanInOrder'
  <2> SUFFICES ASSUME pc = "scan" PROVE ScanInOrder' BY <1>1 DEF ScanInOrder
  <2>1. t = rx_tail BY <1>8 DEF Tail0, Reclaiming
  <2>2. PICK n \in Idx : n = next_rx_tail BY DEF RxInv, RxTypeOK
  <2>3. ASSUME NEW k \in Idx, Off(t, k) < Off(t, n)
        PROVE  /\ Used(k)' /\ ~rx_ring'[k].eof
               /\ FrameAt(k)' = FrameAt(t)' /\ PosAt(k)' = 1 + First(Off(t, k))
    <3>1. /\ Used(k) /\ ~rx_ring[k].eof
          /\ FrameAt(k) = FrameAt(t) /\ PosAt(k) = 1 + First(Off(t, k))
      BY <2>1, <2>2, <2>3 DEF RxInv, ScanInOrder
    <3>2. Off(t, t) < Off(t, n)
      <4>1. Off(t, t) = 0 BY OffFacts
      <4> QED BY <1>11, <2>3, <4>1
    <3>3. Used(t) BY <2>1, <2>2, <3>2 DEF RxInv, ScanInOrder
    <3>4. k # d /\ t # d BY <1>5, <3>1, <3>3
    <3> QED BY <1>7, <1>17, <3>1, <3>4
  <2>4. wrapped <=> n < t BY <2>1, <2>2 DEF RxInv, ScanInOrder
  <2> QED BY <1>1, <2>1, <2>2, <2>3, <2>4 DEF ScanInOrder
<1>28. ReclaimInOrder' BY <1>1, <1>7 DEF RxInv, ReclaimInOrder, Reclaiming
<1>29. CompleteInOrder'
  <2> DEFINE m == Len(received)
  <2>1. /\ DOMAIN complete = 1 .. Len(complete) /\ Len(complete) \in Nat
        /\ DOMAIN received = 1 .. m /\ m \in Nat /\ m <= Len(complete)
        /\ \A j \in DOMAIN complete : complete[j].frame \in Nat
    BY FrameSeqs DEF RxInv, CompleteInOrder
  <2>2. /\ \A i, j \in DOMAIN complete : i < j => complete[i].frame < complete[j].frame
        /\ \A j \in DOMAIN complete : complete[j].frame < arrived
        /\ \A j \in DOMAIN received : received[j] = Content(complete[j])
        /\ \A k \in Idx : Live(k) /\ rx_ring[k].eof =>
              \E j \in DOMAIN complete : /\ j > m
                                         /\ complete[j].frame = FrameAt(k)
                                         /\ complete[j].length = rx_ring[k].length
        /\ \A j \in DOMAIN complete : j > m =>
              \E k \in Idx : /\ Live(k) /\ rx_ring[k].eof
                             /\ FrameAt(k) = complete[j].frame
    BY <1>5 DEF RxInv, CompleteInOrder
  <2>3. ASSUME NEW k \in Idx, Live(k)
        PROVE k # d /\ Live(k)' /\ rx_ring'[k] = rx_ring[k] /\ FrameAt(k)' = FrameAt(k)
    <3>1. k # d BY <1>5, <2>3 DEF Live
    <3> QED BY <1>7, <1>14, <1>17, <2>3, <3>1
  <2>4. ASSUME NEW k \in Idx, Live(k)', k # d
        PROVE Live(k) /\ rx_ring'[k] = rx_ring[k] /\ FrameAt(k)' = FrameAt(k)
    BY <1>7, <1>14, <1>17, <2>4
  <2>5. CASE ~(w + B >= len)
    <3>1. complete' = complete /\ received' = received /\ arrived' = arrived
      BY <1>1, <1>5, <2>5
    <3>2. ~rx_ring'[d].eof BY <1>7, <2>5
    <3>3. ASSUME NEW k \in Idx, Live(k)', rx_ring'[k].eof
          PROVE  \E j \in DOMAIN complete : /\ j > m
                                            /\ complete[j].frame = FrameAt(k)'
                                            /\ complete[j].length = rx_ring'[k].length
      BY <2>2, <2>4, <3>2, <3>3
    <3>4. ASSUME NEW j \in DOMAIN complete, j > m
          PROVE  \E k \in Idx : /\ Live(k)' /\ rx_ring'[k].eof
                                /\ FrameAt(k)' = complete[j].frame
      BY <2>2, <2>3, <3>4
    <3>5. \A j \in DOMAIN complete : complete[j].frame <= arrived
      BY <1>2, <2>1, <2>2
    <3> QED BY <2>1, <2>2, <3>1, <3>3, <3>4, <3>5 DEF CompleteInOrder
  <2>6. CASE w + B >= len
    <3> DEFINE e == Len(complete) + 1
    <3>1. /\ complete' = Append(complete, incoming) /\ received' = received
          /\ arrived' = arrived /\ incoming' = Nothing
      BY <1>1, <1>5, <2>6
    <3>2. /\ DOMAIN complete' = 1 .. e /\ Len(complete') = e /\ complete'[e] = incoming
          /\ \A j \in DOMAIN complete : complete'[j] = complete[j]
      BY <1>2, <2>1, <3>1
    <3>3. rx_ring'[d].eof /\ rx_ring'[d].length = len /\ FrameAt(d)' = arrived /\ Live(d)'
      BY <1>7, <1>14, <1>17, <2>6
    <3>4. \A j \in DOMAIN complete' : j = e \/ j \in DOMAIN complete
      BY <2>1, <3>2
    <3>5. e \in Nat /\ e > m /\ e \in DOMAIN complete' /\ e \notin DOMAIN complete
      BY <2>1, <3>2
    <3>6. complete'[e].frame = arrived /\ complete'[e].length = len
      BY <1>3, <1>6, <3>2
    <3>7. \A j \in DOMAIN complete : j \in DOMAIN complete' /\ j < e BY <2>1, <3>2
    <3> HIDE DEF e, m
    <3>8. ASSUME NEW k \in Idx, Live(k)', rx_ring'[k].eof
          PROVE  \E j \in DOMAIN complete' :
                    /\ j > m
                    /\ complete'[j].frame = FrameAt(k)'
                    /\ complete'[j].length = rx_ring'[k].length
      <4>1. CASE k = d BY <3>3, <3>5, <3>6, <4>1
      <4>2. CASE k # d
        <5>1. Live(k) /\ rx_ring'[k] = rx_ring[k] /\ FrameAt(k)' = FrameAt(k)
          BY <2>4, <3>8, <4>2
        <5>2. PICK j \in DOMAIN complete : /\ j > m
                                           /\ complete[j].frame = FrameAt(k)
                                           /\ complete[j].length = rx_ring[k].length
          BY <2>2, <3>8, <5>1
        <5> QED BY <3>2, <3>7, <5>1, <5>2
      <4> QED BY <4>1, <4>2
    <3>9. ASSUME NEW j \in DOMAIN complete', j > m
          PROVE  \E k \in Idx : /\ Live(k)' /\ rx_ring'[k].eof
                                /\ FrameAt(k)' = complete'[j].frame
      <4>1. CASE j = e BY <3>3, <3>6, <4>1
      <4>2. CASE j # e
        <5>1. j \in DOMAIN complete /\ complete'[j] = complete[j] BY <3>2, <3>4, <4>2
        <5>2. PICK k \in Idx : /\ Live(k) /\ rx_ring[k].eof
                               /\ FrameAt(k) = complete[j].frame
          BY <2>2, <3>9, <5>1
        <5> QED BY <2>3, <5>1, <5>2
      <4> QED BY <4>1, <4>2
    <3>10. ASSUME NEW i \in DOMAIN complete', NEW j \in DOMAIN complete', i < j
           PROVE  complete'[i].frame < complete'[j].frame
      <4>1. i \in DOMAIN complete
        <5>1. i # e
          <6>1. i \in Nat /\ j \in Nat BY <2>1, <3>4, <3>5
          <6>2. j <= e BY <3>4, <3>5, <3>7, <6>1
          <6> QED BY <3>5, <3>10, <6>1, <6>2
        <5> QED BY <3>4, <5>1
      <4>2. CASE j = e BY <2>2, <3>2, <3>6, <4>1, <4>2
      <4>3. CASE j # e
        <5>1. j \in DOMAIN complete BY <3>4, <4>3
        <5> QED BY <2>2, <3>2, <3>10, <4>1, <5>1
      <4> QED BY <4>2, <4>3
    <3>11. ASSUME NEW j \in DOMAIN complete' PROVE complete'[j].frame <= arrived
      BY <1>2, <2>1, <2>2, <3>2, <3>4, <3>6
    <3>12. ASSUME NEW j \in DOMAIN received PROVE received[j] = Content(complete'[j])
      <4>1. j \in DOMAIN complete BY <2>1
      <4> QED BY <2>2, <3>2, <4>1
    <3>13. m <= Len(complete') BY <2>1, <3>2, <3>5
    <3> QED BY <3>1, <3>8, <3>9, <3>10, <3>11, <3>12, <3>13 DEF CompleteInOrder, m
  <2> QED BY <2>5, <2>6
<1> QED BY <1>18, <1>19, <1>20, <1>24, <1>25, <1>26, <1>27, <1>28, <1>29 DEF RxInv

-----------------------------------------------------------------------------
(***************************************************************************)
(* Receiving: the theorems.                                                *)
(***************************************************************************)
\* Every step keeps the invariant.
LEMMA RxStep == RxInv /\ [Next]_vars => RxInv'
<1> SUFFICES ASSUME RxInv, [Next]_vars PROVE RxInv' OBVIOUS
<1>1. CASE UNCHANGED vars
  <2>1. UNCHANGED <<receive, pc>> BY <1>1 DEF vars, driver, receive, controller
  <2> QED BY <2>1, RxKept
<1>2. CASE (\E n \in Lengths : frame_arrives(n)) \/ dma_overrun BY <1>2, RxArrives
<1>3. CASE dma_write BY <1>3, RxWrite
<1>4. CASE dma_read
  <2>1. UNCHANGED <<receive, pc>> BY <1>4 DEF dma_read
  <2> QED BY <2>1, RxKept
<1>5. CASE macb_send \/ send_addr \/ send_poll
  <2>1. /\ UNCHANGED receive
        /\ pc \in {"idle", "send_addr", "send_poll"}
        /\ pc' \in {"idle", "send_addr", "send_poll"}
    BY <1>5 DEF macb_send, send_addr, send_poll
  <2> QED BY <2>1, RxKept
<1>6. CASE macb_recv \/ scan_end \/ scan_too_long BY <1>6, RxScan
<1>7. CASE scan_start BY <1>7, RxScanStart
<1>8. CASE scan_next BY <1>8, RxScanNext
<1>9. CASE scan_frame BY <1>9, RxScanFrame
<1>10. CASE reclaim_rx_buffer BY <1>10, RxReclaim
<1>11. CASE reclaimed BY <1>11, RxReclaimed
<1> QED BY <1>1, <1>2, <1>3, <1>4, <1>5, <1>6, <1>7, <1>8, <1>9, <1>10, <1>11
        DEF Next, Driver

\* The invariant of receiving holds in every reachable state.
THEOREM RxInvariance == Spec => []RxInv
BY RxInit, RxStep, PTL DEF Spec

\* The driver and the controller always agree on which descriptors are whose,
\* for any sizes and any frames that leave one buffer of the ring free.
THEOREM Agreement == Spec => []RingAgrees
<1>1. RxInv => RingAgrees
  <2> SUFFICES ASSUME RxInv PROVE RingAgrees OBVIOUS
  <2> USE RxSizes
  <2>1. PICK t \in Idx : t = Tail0 BY DEF RxInv, RxTypeOK, Tail0
  <2>2. PICK d \in Idx : d = dma BY DEF RxInv, RxTypeOK
  <2>3. ASSUME NEW i \in Idx, NEW k \in Idx
        PROVE  (k - i) % MACB_RX_RING_SIZE = Off(i, k)
    BY DEF Off, N
  <2>4. Span(t, d) = {k \in Idx : Off(t, k) < Off(t, d)} BY <2>3 DEF Span
  <2>5. \/ {i \in Idx : rx_ring[i].used} = Span(t, d)
        \/ {i \in Idx : rx_ring[i].used} = Idx /\ t = d
    BY <2>1, <2>2, <2>4 DEF RxInv, UsedInOrder, Used
  <2> QED BY <2>1, <2>2, <2>5 DEF RingAgrees, Tail0, Reclaiming
<1> QED BY <1>1, RxInvariance, PTL

\* What macb_recv returns are the frames that arrived whole, in order and byte
\* by byte.
THEOREM Intact == Spec => []FramesIntact
<1>1. RxInv => FramesIntact
  <2> SUFFICES ASSUME RxInv PROVE FramesIntact OBVIOUS
  <2> DEFINE all == [k \in 1 .. Len(complete) |-> Content(complete[k])]
  <2>1. /\ DOMAIN complete = 1 .. Len(complete) /\ Len(complete) \in Nat
        /\ DOMAIN received = 1 .. Len(received) /\ Len(received) \in Nat
        /\ \A j \in DOMAIN complete : complete[j].length \in Nat
        /\ \A j \in DOMAIN complete : complete[j].frame \in Nat
    BY FrameSeqs DEF RxInv
  <2>2. received \in Seq(Seq(Nat \X Nat)) BY DEF RxInv, RxTypeOK
  <2>3. /\ Len(received) <= Len(complete)
        /\ \A j \in DOMAIN received : received[j] = Content(complete[j])
    BY DEF RxInv, CompleteInOrder
  <2>4. all \in Seq(Seq(Nat \X Nat)) /\ Len(all) = Len(complete)
    <3>1. \A j \in 1 .. Len(complete) : Content(complete[j]) \in Seq(Nat \X Nat)
      BY <2>1 DEF Content
    <3> QED BY <2>1, <3>1
  <2>5. \A j \in 1 .. Len(received) : received[j] = all[j] BY <2>1, <2>3
  <2> HIDE DEF all
  <2>6. IsPrefix(received, all) BY <2>1, <2>2, <2>3, <2>4, <2>5 DEF IsPrefix
  <2> QED BY <2>6 DEF FramesIntact, all
<1> QED BY <1>1, RxInvariance, PTL

-----------------------------------------------------------------------------
(***************************************************************************)
(* Sending.                                                                *)
(***************************************************************************)
\* The transmit descriptors that are the controller's.
Pending == {k \in TxIdx : ~tx_ring[k].used}

Sending == pc \in {"send_addr", "send_poll"}

TxTypeOK ==
    /\ tx_ring \in [TxIdx -> [used : BOOLEAN, addr : {"none", "netbuf"}]]
    /\ macb_tx_head \in TxIdx /\ tx_head \in TxIdx /\ tbqp \in TxIdx
    /\ tstart \in BOOLEAN /\ timedout \in BOOLEAN
    /\ handed \in Nat /\ netbuf \in Nat /\ wire \in Seq(Nat)

\* Every descriptor in the controller's hands is there for a frame that was
\* handed over and not sent.
PendingCounted ==
    /\ IsFiniteSet(Pending)
    /\ Cardinality(Pending) + Len(wire) <= handed

\* Nothing is in the controller's hands.
AllSent ==
    Pending = {} /\ Len(wire) = handed /\ tbqp = macb_tx_head /\ ~tstart

\* The last frame is, and its descriptor is the one it reads next.
LastIsNext ==
    /\ Pending = {tx_head} /\ tbqp = tx_head
    /\ Len(wire) + 1 = handed /\ netbuf = handed
    /\ pc = "send_addr" => ~tstart
    /\ pc = "send_poll" => tx_ring[tx_head].addr = "netbuf"

SentInOrder ==
    ~timedout =>
       /\ \A k \in DOMAIN wire : wire[k] = k
       /\ Sending => macb_tx_head = NextTx(tx_head)
       /\ ~Sending => AllSent
       /\ pc = "send_addr" => LastIsNext
       /\ pc = "send_poll" => LastIsNext \/ AllSent

\* The inductive invariant of sending.
TxInv == TxTypeOK /\ PendingCounted /\ SentInOrder

\* What the assumptions say of the transmit ring.
LEMMA TxSizes ==
    /\ TxIdx = 0 .. MACB_TX_RING_SIZE - 1 /\ 0 \in TxIdx
    /\ \A k \in TxIdx : NextTx(k) \in TxIdx
    /\ IsFiniteSet(TxIdx)
<1>1. MACB_TX_RING_SIZE \in Nat /\ MACB_TX_RING_SIZE > 0 BY MacbAssumption
<1>2. TxIdx = 0 .. MACB_TX_RING_SIZE - 1 /\ 0 \in TxIdx BY <1>1 DEF TxIdx
<1>3. \A k \in TxIdx : NextTx(k) \in TxIdx BY <1>1, <1>2 DEF NextTx
<1>4. IsFiniteSet(TxIdx)
  <2>1. 0 \in Int /\ MACB_TX_RING_SIZE - 1 \in Int BY <1>1
  <2> QED BY <1>2, <2>1, FS_Interval
<1> QED BY <1>2, <1>3, <1>4

LEMMA TxInit == Init => TxInv
<1> SUFFICES ASSUME Init PROVE TxInv OBVIOUS
<1> USE TxSizes
<1>1. wire = <<>> /\ Len(wire) = 0 /\ wire \in Seq(Nat) BY DEF Init
<1>2. TxTypeOK BY <1>1 DEF Init, TxTypeOK
<1>3. Pending = {} BY DEF Init, Pending
<1>4. PendingCounted BY <1>1, <1>3, FS_EmptySet DEF Init, PendingCounted
<1>5. SentInOrder BY <1>1, <1>3 DEF Init, SentInOrder, Sending, AllSent
<1> QED BY <1>2, <1>4, <1>5 DEF TxInv

\* Receiving leaves what was sent alone, except for the buffer.
LEMMA TxKept ==
    ASSUME TxInv,
           UNCHANGED <<tx_ring, macb_tx_head, tx_head, timedout, handed, tbqp,
                       tstart, wire>>,
           netbuf' \in Nat,
           \/ UNCHANGED <<pc, netbuf>>
           \/ ~Sending /\ ~Sending'
    PROVE  TxInv'
<1>1. Pending' = Pending BY DEF Pending
<1>2. TxTypeOK' BY DEF TxInv, TxTypeOK
<1>3. PendingCounted' BY <1>1 DEF TxInv, PendingCounted
<1>4. AllSent' <=> AllSent BY <1>1 DEF AllSent
<1>5. CASE UNCHANGED <<pc, netbuf>>
  <2>1. LastIsNext' <=> LastIsNext BY <1>1, <1>5 DEF LastIsNext
  <2>2. Sending' <=> Sending BY <1>5 DEF Sending
  <2>3. SentInOrder' BY <1>4, <1>5, <2>1, <2>2 DEF TxInv, SentInOrder
  <2> QED BY <1>2, <1>3, <2>3 DEF TxInv
<1>6. CASE ~Sending /\ ~Sending'
  <2>1. SentInOrder' BY <1>4, <1>6 DEF TxInv, SentInOrder, Sending
  <2> QED BY <1>2, <1>3, <2>1 DEF TxInv
<1> QED BY <1>5, <1>6

\* A frame is handed over.
LEMMA TxSend ==
    ASSUME TxInv, macb_send
    PROVE  TxInv'
<1> USE TxSizes
<1>1. PICK h \in TxIdx : h = macb_tx_head BY DEF TxInv, TxTypeOK
<1>2. /\ pc = "idle" /\ pc' = "send_addr" /\ handed' = handed + 1
      /\ netbuf' = handed + 1 /\ tx_head' = h /\ macb_tx_head' = NextTx(h)
      /\ tx_ring' = [tx_ring EXCEPT ![h].used = FALSE]
      /\ UNCHANGED <<timedout, tbqp, tstart, wire>>
  BY <1>1 DEF macb_send
<1>3. /\ tx_ring \in [TxIdx -> [used : BOOLEAN, addr : {"none", "netbuf"}]]
      /\ handed \in Nat /\ wire \in Seq(Nat)
  BY DEF TxInv, TxTypeOK
<1>4. TxTypeOK'
  <2>1. tx_ring' \in [TxIdx -> [used : BOOLEAN, addr : {"none", "netbuf"}]]
    BY <1>2, <1>3
  <2> QED BY <1>2, <1>3, <2>1 DEF TxInv, TxTypeOK
<1>5. Pending' = Pending \cup {h} BY <1>2, <1>3 DEF Pending
<1>6. PendingCounted'
  <2>1. IsFiniteSet(Pending) /\ Cardinality(Pending) + Len(wire) <= handed
    BY DEF TxInv, PendingCounted
  <2>2. /\ IsFiniteSet(Pending \cup {h})
        /\ Cardinality(Pending \cup {h})
             = IF h \in Pending THEN Cardinality(Pending) ELSE Cardinality(Pending) + 1
    BY <2>1, FS_AddElement
  <2>3. Cardinality(Pending) \in Nat /\ Len(wire) \in Nat
    BY <1>3, <2>1, FS_CardinalityType
  <2>4. Cardinality(Pending \cup {h}) <= Cardinality(Pending) + 1 BY <2>2, <2>3
  <2>5. Cardinality(Pending \cup {h}) \in Nat BY <2>2, FS_CardinalityType
  <2>6. Cardinality(Pending \cup {h}) + Len(wire) <= handed + 1
    BY <1>3, <2>1, <2>3, <2>4, <2>5
  <2> QED BY <1>2, <1>5, <2>2, <2>6 DEF PendingCounted
<1>7. SentInOrder'
  <2> SUFFICES ASSUME ~timedout PROVE SentInOrder' BY <1>2 DEF SentInOrder
  <2>1. AllSent /\ \A k \in DOMAIN wire : wire[k] = k
    BY <1>2 DEF TxInv, SentInOrder, Sending
  <2>2. LastIsNext' BY <1>1, <1>2, <1>5, <2>1 DEF LastIsNext, AllSent
  <2> QED BY <1>2, <2>1, <2>2 DEF SentInOrder, Sending
<1> QED BY <1>4, <1>6, <1>7 DEF TxInv

\* Its address is written, and the controller told to go on.
LEMMA TxAddr ==
    ASSUME TxInv, send_addr
    PROVE  TxInv'
<1> USE TxSizes
<1>1. PICK h \in TxIdx : h = tx_head BY DEF TxInv, TxTypeOK
<1>2. /\ pc = "send_addr" /\ pc' = "send_poll" /\ tstart' = TRUE
      /\ tx_ring' = [tx_ring EXCEPT ![h].addr = "netbuf"]
      /\ UNCHANGED <<macb_tx_head, tx_head, timedout, netbuf, handed, tbqp, wire>>
  BY <1>1 DEF send_addr
<1>3. tx_ring \in [TxIdx -> [used : BOOLEAN, addr : {"none", "netbuf"}]]
  BY DEF TxInv, TxTypeOK
<1>4. TxTypeOK'
  <2>1. tx_ring' \in [TxIdx -> [used : BOOLEAN, addr : {"none", "netbuf"}]]
    BY <1>2, <1>3
  <2> QED BY <1>2, <2>1 DEF TxInv, TxTypeOK
<1>5. Pending' = Pending /\ tx_ring'[h].addr = "netbuf" BY <1>2, <1>3 DEF Pending
<1>6. PendingCounted' BY <1>2, <1>5 DEF TxInv, PendingCounted
<1>7. SentInOrder'
  BY <1>1, <1>2, <1>5 DEF TxInv, SentInOrder, Sending, LastIsNext
<1> QED BY <1>4, <1>6, <1>7 DEF TxInv

\* macb_send looks whether its descriptor has come back.
LEMMA TxPoll ==
    ASSUME TxInv, send_poll
    PROVE  TxInv'
<1> USE TxSizes
<1>1. /\ pc = "send_poll" /\ pc' \in {"send_poll", "idle"}
      /\ UNCHANGED <<tx_ring, macb_tx_head, tx_head, netbuf, handed, tbqp, tstart, wire>>
      /\ timedout' \in {timedout, TRUE}
      /\ pc' = "idle" => tx_ring[tx_head].used \/ timedout'
  BY DEF send_poll, Polled
<1>2. Pending' = Pending BY <1>1 DEF Pending
<1>3. TxTypeOK' BY <1>1 DEF TxInv, TxTypeOK
<1>4. PendingCounted' BY <1>1, <1>2 DEF TxInv, PendingCounted
<1>5. SentInOrder'
  <2> SUFFICES ASSUME ~timedout' PROVE SentInOrder' BY DEF SentInOrder
  <2>1. ~timedout BY <1>1
  <2>2. tx_head \in TxIdx BY DEF TxInv, TxTypeOK
  <2>3. LastIsNext => ~tx_ring[tx_head].used BY <2>2 DEF LastIsNext, Pending
  <2>4. /\ \A k \in DOMAIN wire : wire[k] = k
        /\ LastIsNext \/ (AllSent /\ macb_tx_head = NextTx(tx_head))
    BY <1>1, <2>1 DEF TxInv, SentInOrder, Sending
  <2>5. AllSent' <=> AllSent BY <1>1, <1>2 DEF AllSent
  <2>6. CASE pc' = "idle"
    BY <1>1, <2>3, <2>4, <2>5, <2>6 DEF SentInOrder, Sending
  <2>7. CASE pc' = "send_poll"
    <3>1. LastIsNext' <=> LastIsNext BY <1>1, <1>2, <2>7 DEF LastIsNext
    <3>2. macb_tx_head = NextTx(tx_head)
      BY <1>1, <2>1 DEF TxInv, SentInOrder, Sending
    <3> QED BY <1>1, <2>4, <2>5, <2>7, <3>1, <3>2 DEF SentInOrder, Sending, NextTx
  <2> QED BY <1>1, <2>6, <2>7
<1> QED BY <1>3, <1>4, <1>5 DEF TxInv

\* The controller sends a frame.
LEMMA TxRead ==
    ASSUME TxInv, dma_read
    PROVE  TxInv'
<1> USE TxSizes
<1>1. PICK b \in TxIdx : b = tbqp BY DEF TxInv, TxTypeOK
<1>2. PICK x \in Nat : x = IF tx_ring[b].addr = "netbuf" THEN netbuf ELSE 0
  BY DEF TxInv, TxTypeOK
<1>3. /\ tstart /\ ~tx_ring[b].used /\ wire' = Append(wire, x)
      /\ tx_ring' = [tx_ring EXCEPT ![b].used = TRUE]
      /\ tbqp' = NextTx(b) /\ tstart' = ~tx_ring'[NextTx(b)].used
      /\ UNCHANGED <<pc, macb_tx_head, tx_head, timedout, netbuf, handed>>
  BY <1>1, <1>2 DEF dma_read
<1>4. /\ tx_ring \in [TxIdx -> [used : BOOLEAN, addr : {"none", "netbuf"}]]
      /\ handed \in Nat /\ wire \in Seq(Nat) /\ NextTx(b) \in TxIdx
  BY DEF TxInv, TxTypeOK
<1>5. wire' \in Seq(Nat) /\ Len(wire') = Len(wire) + 1 /\ Len(wire) \in Nat
      /\ DOMAIN wire' = 1 .. Len(wire) + 1 /\ DOMAIN wire = 1 .. Len(wire)
      /\ wire'[Len(wire) + 1] = x
      /\ \A k \in DOMAIN wire : wire'[k] = wire[k]
  BY <1>3, <1>4
<1>6. tx_ring' \in [TxIdx -> [used : BOOLEAN, addr : {"none", "netbuf"}]]
  BY <1>3, <1>4
<1>7. tstart' \in BOOLEAN BY <1>3
<1>8. TxTypeOK' BY <1>3, <1>4, <1>5, <1>6, <1>7 DEF TxInv, TxTypeOK
<1>9. b \in Pending /\ Pending' = Pending \ {b} BY <1>3, <1>4 DEF Pending
<1>10. PendingCounted'
  <2>1. IsFiniteSet(Pending) /\ Cardinality(Pending) + Len(wire) <= handed
    BY DEF TxInv, PendingCounted
  <2>2. /\ IsFiniteSet(Pending \ {b})
        /\ Cardinality(Pending \ {b}) = Cardinality(Pending) - 1
    BY <1>9, <2>1, FS_RemoveElement
  <2>3. Cardinality(Pending) \in Nat BY <2>1, FS_CardinalityType
  <2>4. Cardinality(Pending \ {b}) + (Len(wire) + 1) <= handed
    BY <1>4, <1>5, <2>1, <2>2, <2>3
  <2> QED BY <1>3, <1>5, <1>9, <2>2, <2>4 DEF PendingCounted
<1>11. SentInOrder'
  <2> SUFFICES ASSUME ~timedout PROVE SentInOrder' BY <1>3 DEF SentInOrder
  <2>1. pc = "send_poll" /\ LastIsNext /\ macb_tx_head = NextTx(tx_head)
    BY <1>3, <1>9 DEF TxInv, SentInOrder, Sending, AllSent, LastIsNext
  <2>2. /\ Pending = {b} /\ b = tx_head /\ x = handed /\ Len(wire) + 1 = handed
    BY <1>1, <1>2, <2>1 DEF LastIsNext
  <2>3. Pending' = {} BY <1>9, <2>2
  <2>4. tx_ring'[NextTx(b)].used BY <1>4, <2>3 DEF Pending
  <2>5. AllSent' BY <1>3, <1>5, <2>1, <2>2, <2>3, <2>4 DEF AllSent
  <2>6. \A k \in DOMAIN wire : wire[k] = k BY DEF TxInv, SentInOrder
  <2>7. ASSUME NEW k \in DOMAIN wire' PROVE wire'[k] = k
    <3>1. k = Len(wire) + 1 \/ k \in DOMAIN wire BY <1>5
    <3> QED BY <1>5, <2>2, <2>6, <3>1
  <2> QED BY <1>3, <2>1, <2>5, <2>7 DEF SentInOrder, Sending
<1> QED BY <1>8, <1>10, <1>11 DEF TxInv

\* Every step keeps the invariant of sending.
LEMMA TxStep == TxInv /\ [Next]_vars => TxInv'
<1> SUFFICES ASSUME TxInv, [Next]_vars PROVE TxInv' OBVIOUS
<1>1. netbuf \in Nat BY DEF TxInv, TxTypeOK
<1>2. CASE \/ UNCHANGED vars \/ \E n \in Lengths : frame_arrives(n)
           \/ dma_overrun \/ dma_write
  BY <1>1, <1>2, TxKept
     DEF vars, driver, transmit, frame_arrives, dma_overrun, dma_write
<1>3. CASE \/ macb_recv \/ scan_end \/ scan_too_long \/ scan_start \/ scan_next
           \/ reclaim_rx_buffer \/ reclaimed
  <2>1. UNCHANGED transmit /\ ~Sending /\ ~Sending'
    BY <1>3 DEF macb_recv, scan_end, scan_too_long, scan_start, scan_next,
                reclaim_rx_buffer, reclaimed, Sending
  <2> QED BY <1>1, <2>1, TxKept DEF transmit
<1>4. CASE scan_frame
  <2>1. ~Sending /\ ~Sending' /\ netbuf' = 0 BY <1>4 DEF scan_frame, Sending
  <2> QED BY <1>4, <2>1, TxKept DEF scan_frame
<1> QED BY <1>2, <1>3, <1>4, TxSend, TxAddr, TxPoll, TxRead DEF Next, Driver

\* The invariant of sending holds in every reachable state.
THEOREM TxInvariance == Spec => []TxInv
BY TxInit, TxStep, PTL DEF Spec

\* Frames are sent in order, each once and with its own contents, until some
\* macb_send gives up; and never more frames than were handed over.
THEOREM Sent == Spec => []FramesSent
<1>1. TxInv => FramesSent
  <2> SUFFICES ASSUME TxInv PROVE FramesSent OBVIOUS
  <2>1. wire \in Seq(Nat) /\ handed \in Nat BY DEF TxInv, TxTypeOK
  <2>2. /\ IsFiniteSet(Pending) /\ Cardinality(Pending) + Len(wire) <= handed
    BY DEF TxInv, PendingCounted
  <2>3. Cardinality(Pending) \in Nat /\ Len(wire) \in Nat
    BY <2>1, <2>2, FS_CardinalityType
  <2>4. Len(wire) <= handed BY <2>1, <2>2, <2>3
  <2> QED BY <2>4 DEF TxInv, SentInOrder, Sending, AllSent, FramesSent
<1> QED BY <1>1, TxInvariance, PTL
=============================================================================
