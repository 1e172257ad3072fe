-------------------------------- MODULE Macb --------------------------------
(***************************************************************************)
(* The Ethernet driver (earth/macb.c) as sys_net uses it: one call at a    *)
(* time, and one buffer for what is sent and what is received.             *)
(*                                                                         *)
(* The controller fills the receive ring while the driver scans it: a      *)
(* frame occupies consecutive buffers, around the end of the ring if need  *)
(* be, and the part of a frame that was written before the controller ran  *)
(* out of buffers stays in the ring as a fragment without an end.  It      *)
(* empties the transmit ring: from the write of TSTART on it sends what    *)
(* the descriptors point to until it finds one that is not its own.        *)
(*                                                                         *)
(* The controller is hardware: its actions are modelled from what the      *)
(* driver expects in the descriptors.                                      *)
(* Definitions named X_without_Y or X_with_Y are wrong versions of X.      *)
(***************************************************************************)
EXTENDS Integers, Sequences, SequencesExt

CONSTANTS
    MACB_RX_RING_SIZE,    \* descriptors in the ring, one buffer each
    MACB_RX_BUFFER_SIZE,  \* bytes in a buffer
    MAX_LENGTH,           \* the longest frame that the driver takes (512)
    MAX_RX_TRIES,         \* scans of one macb_recv
    Lengths,              \* the lengths of the frames that arrive
    MACB_TX_RING_SIZE,    \* descriptors in the transmit ring
    MACB_TX_TIMEOUT,      \* looks at the descriptor after the first one
    MaxFrames             \* bound on the number of frames sent and received

ASSUME MacbAssumption ==
    /\ MACB_RX_RING_SIZE \in Nat \ {0} /\ MACB_RX_BUFFER_SIZE \in Nat \ {0}
    /\ MACB_TX_RING_SIZE \in Nat \ {0} /\ MACB_TX_TIMEOUT \in Nat
    /\ MAX_RX_TRIES \in Nat \ {0} /\ MaxFrames \in Nat /\ MAX_LENGTH \in Nat
    /\ \A n \in Lengths :
          n \in 1 .. (MACB_RX_RING_SIZE - 1) * MACB_RX_BUFFER_SIZE

TxIdx == 0 .. MACB_TX_RING_SIZE - 1
Idx  == 0 .. MACB_RX_RING_SIZE - 1
Byte == 0 .. MACB_RX_RING_SIZE * MACB_RX_BUFFER_SIZE - 1

VARIABLES
    rx_ring,       \* descriptors: used (RX_USED), sof, eof and length
    rx_buffer,     \* the buffers, as one array of bytes <<frame, position>>
    rx_tail,       \* the first descriptor that the driver has not given back
    next_rx_tail,  \* the descriptor that the driver looks at
    wrapped,       \* the scan has passed the end of the ring
    tries,         \* scans made by this macb_recv
    reclaim,       \* reclaim_rx_buffers: the descriptor it has come to
    pc,            \* where the driver is
    fatal,         \* the assertion on the length has failed
    dma,           \* the controller: the descriptor it writes next
    incoming,      \* the frame it receives: number, length, bytes written
    arrived,       \* how many frames have begun to arrive
    complete,      \* the frames that were written to their end
    received,      \* what macb_recv has returned
    tx_ring,       \* descriptors: used (TX_USED) and addr
    macb_tx_head,  \* macb.tx_head
    tx_head,       \* macb_send: the descriptor it uses
    polls,         \* macb_send: how often it has looked at it
    timedout,      \* some macb_send has given up
    netbuf,        \* sys_net: the frame in its buffer, 0 if a received one
    handed,        \* how many frames were given to macb_send
    tbqp, tstart,  \* the controller: the descriptor it reads next, and
                   \* whether it is sending
    wire           \* the frames it has sent

driver == <<rx_tail, next_rx_tail, wrapped, tries, reclaim, pc, fatal, received>>
transmit == <<tx_ring, macb_tx_head, tx_head, polls, timedout, netbuf, handed,
              tbqp, tstart, wire>>
vars == <<driver, rx_ring, rx_buffer, dma, incoming, arrived, complete, transmit>>

Nothing == [frame |-> 0, length |-> 0, written |-> 0]

Next1(i) == (i + 1) % MACB_RX_RING_SIZE

\* macb_start: every receive descriptor belongs to the controller, every
\* transmit descriptor to the driver.
Init ==
    /\ rx_ring = [i \in Idx |-> [used |-> FALSE, sof |-> FALSE,
                                 eof |-> FALSE, length |-> 0]]
    /\ rx_buffer = [b \in Byte |-> <<0, 0>>]
    /\ rx_tail = 0 /\ next_rx_tail = 0 /\ wrapped = FALSE /\ tries = 0
    /\ reclaim = 0 /\ pc = "idle" /\ fatal = FALSE
    /\ dma = 0 /\ incoming = Nothing /\ arrived = 0
    /\ complete = <<>> /\ received = <<>>
    /\ tx_ring = [k \in TxIdx |-> [used |-> TRUE, addr |-> "none"]]
    /\ macb_tx_head = 0 /\ tx_head = 0 /\ polls = 0 /\ timedout = FALSE
    /\ netbuf = 0 /\ handed = 0
    /\ tbqp = 0 /\ tstart = FALSE /\ wire = <<>>

-----------------------------------------------------------------------------
(***************************************************************************)
(* The controller.                                                         *)
(***************************************************************************)
frame_arrives(n) ==
    /\ arrived + handed < MaxFrames /\ incoming = Nothing
    /\ arrived' = arrived + 1
    /\ incoming' = [frame |-> arrived + 1, length |-> n, written |-> 0]
    /\ UNCHANGED <<driver, rx_ring, rx_buffer, dma, complete, transmit>>

\* It fills the next buffer if that is its own.
dma_write ==
    LET after == incoming.written + MACB_RX_BUFFER_SIZE
        last  == after >= incoming.length
        pos(b) == incoming.written + 1 + b - dma * MACB_RX_BUFFER_SIZE
    IN  /\ incoming # Nothing /\ ~rx_ring[dma].used
        /\ rx_ring' = [rx_ring EXCEPT ![dma] =
              [used |-> TRUE, sof |-> incoming.written = 0, eof |-> last,
               length |-> IF last THEN incoming.length ELSE 0]]
        /\ rx_buffer' = [b \in Byte |->
              IF b \div MACB_RX_BUFFER_SIZE = dma /\ pos(b) <= incoming.length
              THEN <<incoming.frame, pos(b)>> ELSE rx_buffer[b]]
        /\ dma' = Next1(dma)
        /\ incoming' = IF last THEN Nothing ELSE [incoming EXCEPT !.written = after]
        /\ complete' = IF last THEN Append(complete, incoming) ELSE complete
        /\ UNCHANGED <<driver, arrived, transmit>>

\* It has no buffer for the rest of the frame.
dma_overrun ==
    /\ incoming # Nothing /\ rx_ring[dma].used
    /\ incoming' = Nothing
    /\ UNCHANGED <<driver, rx_ring, rx_buffer, dma, arrived, complete, transmit>>

-----------------------------------------------------------------------------
(***************************************************************************)
(* The driver.  A descriptor that is in use is left alone by the           *)
(* controller, so one turn of the scan is one step; reclaim_rx_buffers     *)
(* hands the descriptors back one by one.                                  *)
(***************************************************************************)
controller == <<dma, incoming, arrived, complete, rx_buffer>>

macb_recv ==
    /\ pc = "idle" /\ ~fatal
    /\ pc' = "scan" /\ tries' = 1
    /\ next_rx_tail' = rx_tail /\ wrapped' = FALSE
    /\ UNCHANGED <<controller, rx_ring, rx_tail, reclaim, fatal, received, transmit>>

Status == rx_ring[next_rx_tail]

\* Nothing there, or a frame that is still arriving: scan again from rx_tail,
\* or return -1.
scan_end ==
    /\ pc = "scan" /\ ~Status.used
    /\ \/ /\ tries < MAX_RX_TRIES
          /\ tries' = tries + 1 /\ next_rx_tail' = rx_tail /\ wrapped' = FALSE
          /\ UNCHANGED pc
       \/ /\ tries = MAX_RX_TRIES
          /\ pc' = "idle"
          /\ UNCHANGED <<tries, next_rx_tail, wrapped>>
    /\ UNCHANGED <<controller, rx_ring, rx_tail, reclaim, fatal, received, transmit>>

\* A new start is not noticed.
Fragment_without_start == FALSE

Fragment == Status.sof /\ next_rx_tail # rx_tail

\* The driver gives up when it meets a fragment.
scan_start_without_reclaim ==
    /\ pc = "scan" /\ Status.used /\ Fragment
    /\ pc' = "idle"
    /\ UNCHANGED <<controller, rx_ring, rx_tail, next_rx_tail, wrapped, tries,
                   reclaim, fatal, received, transmit>>

\* The start of a frame behind the tail: what is before it has no end, and is
\* given back.
scan_start ==
    /\ pc = "scan" /\ Status.used /\ Fragment
    /\ pc' = "reclaim" /\ reclaim' = rx_tail
    /\ UNCHANGED <<controller, rx_ring, rx_tail, next_rx_tail, wrapped, tries,
                   fatal, received, transmit>>

\* Whether the frame that is scanned has passed the end of the ring.
Passed == wrapped /\ ~Status.sof

scan_next ==
    /\ pc = "scan" /\ Status.used /\ ~Fragment /\ ~Status.eof
    /\ next_rx_tail' = Next1(next_rx_tail)
    /\ wrapped' = (Passed \/ next_rx_tail + 1 = MACB_RX_RING_SIZE)
    /\ UNCHANGED <<controller, rx_ring, rx_tail, tries, reclaim, pc, fatal,
                   received, transmit>>

\* The frame is copied from the tail on: head and tail of it apart if it
\* passed the end of the ring.
Packet(n) ==
    LET start   == MACB_RX_BUFFER_SIZE * rx_tail
        headlen == MACB_RX_BUFFER_SIZE * (MACB_RX_RING_SIZE - rx_tail)
    IN  [k \in 1 .. n |-> IF Passed /\ k > headlen
                          THEN rx_buffer[k - headlen - 1]
                          ELSE rx_buffer[start + k - 1]]

scan_frame ==
    /\ pc = "scan" /\ Status.used /\ ~Fragment /\ Status.eof
    /\ Status.length <= MAX_LENGTH
    /\ received' = Append(received, Packet(Status.length)) /\ netbuf' = 0
    /\ next_rx_tail' = Next1(next_rx_tail)
    /\ pc' = "reclaim_last" /\ reclaim' = rx_tail
    /\ UNCHANGED <<controller, rx_ring, rx_tail, wrapped, tries, fatal, tx_ring,
                   macb_tx_head, tx_head, polls, timedout, handed, tbqp, tstart, wire>>

\* The assertion that the frame fits the caller's buffer fails.
scan_too_long ==
    /\ pc = "scan" /\ Status.used /\ ~Fragment /\ Status.eof
    /\ Status.length > MAX_LENGTH
    /\ fatal' = TRUE /\ pc' = "stopped"
    /\ UNCHANGED <<controller, rx_ring, rx_tail, next_rx_tail, wrapped, tries,
                   reclaim, received, transmit>>

\* The descriptors are given back from the one behind the tail on.
reclaim_rx_buffer_with_offset ==
    /\ pc \in {"reclaim", "reclaim_last"} /\ reclaim # next_rx_tail
    /\ rx_ring' = [rx_ring EXCEPT ![Next1(reclaim)].used = FALSE]
    /\ reclaim' = Next1(reclaim)
    /\ UNCHANGED <<controller, rx_tail, next_rx_tail, wrapped, tries, pc, fatal,
                   received, transmit>>

reclaim_rx_buffer ==
    /\ pc \in {"reclaim", "reclaim_last"} /\ reclaim # next_rx_tail
    /\ rx_ring' = [rx_ring EXCEPT ![reclaim].used = FALSE]
    /\ reclaim' = Next1(reclaim)
    /\ UNCHANGED <<controller, rx_tail, next_rx_tail, wrapped, tries, pc, fatal,
                   received, transmit>>

reclaimed ==
    /\ pc \in {"reclaim", "reclaim_last"} /\ reclaim = next_rx_tail
    /\ rx_tail' = next_rx_tail
    /\ pc' = IF pc = "reclaim" THEN "scan" ELSE "idle"
    /\ wrapped' = (wrapped /\ pc # "reclaim")
    /\ UNCHANGED <<controller, rx_ring, next_rx_tail, tries, reclaim, fatal,
                   received, transmit>>

-----------------------------------------------------------------------------
(***************************************************************************)
(* Sending.  The control word of a descriptor, which hands it over, is     *)
(* written before its address.                                             *)
(***************************************************************************)
receive == <<rx_tail, next_rx_tail, wrapped, tries, reclaim, fatal, received,
             controller, rx_ring>>

NextTx(k) == (k + 1) % MACB_TX_RING_SIZE

\* NET_SEND: sys_net has the next frame in its buffer.
macb_send ==
    /\ pc = "idle" /\ ~fatal /\ arrived + handed < MaxFrames
    /\ handed' = handed + 1 /\ netbuf' = handed + 1
    /\ tx_head' = macb_tx_head /\ macb_tx_head' = NextTx(macb_tx_head)
    /\ tx_ring' = [tx_ring EXCEPT ![macb_tx_head].used = FALSE]
    /\ polls' = 0 /\ pc' = "send_addr"
    /\ UNCHANGED <<receive, timedout, tbqp, tstart, wire>>

send_addr ==
    /\ pc = "send_addr"
    /\ tx_ring' = [tx_ring EXCEPT ![tx_head].addr = "netbuf"]
    /\ tstart' = TRUE /\ pc' = "send_poll"
    /\ UNCHANGED <<receive, macb_tx_head, tx_head, polls, timedout, netbuf, handed,
                   tbqp, wire>>

\* The descriptor that is looked at, and the next one instead.
Polled_with_next == tx_ring[macb_tx_head]

Polled == tx_ring[tx_head]

\* Until the descriptor has come back, or too often.
send_poll ==
    /\ pc = "send_poll"
    /\ \/ Polled.used /\ pc' = "idle" /\ UNCHANGED <<polls, timedout>>
       \/ /\ ~Polled.used /\ polls' = polls + 1
          /\ \/ polls < MACB_TX_TIMEOUT /\ UNCHANGED <<pc, timedout>>
             \/ polls = MACB_TX_TIMEOUT /\ pc' = "idle" /\ timedout' = TRUE
    /\ UNCHANGED <<receive, tx_ring, macb_tx_head, tx_head, netbuf, handed, tbqp,
                   tstart, wire>>

\* The controller sends what its descriptor points to and goes on with the
\* next one, unless that is not its own.
dma_read ==
    LET ring == [tx_ring EXCEPT ![tbqp].used = TRUE]
    IN  /\ tstart /\ ~tx_ring[tbqp].used
        /\ wire' = Append(wire, IF tx_ring[tbqp].addr = "netbuf" THEN netbuf ELSE 0)
        /\ tx_ring' = ring
        /\ tbqp' = NextTx(tbqp)
        /\ tstart' = ~ring[NextTx(tbqp)].used
        /\ UNCHANGED <<pc, receive, macb_tx_head, tx_head, polls, timedout, netbuf,
                       handed>>

Driver ==
    \/ macb_recv \/ scan_end \/ scan_start \/ scan_next \/ scan_frame
    \/ scan_too_long \/ reclaim_rx_buffer \/ reclaimed
    \/ send_addr \/ send_poll

Next ==
    \/ \E n \in Lengths : frame_arrives(n)
    \/ dma_write \/ dma_overrun \/ dma_read
    \/ macb_send \/ Driver

Spec == Init /\ [][Next]_vars

\* The driver's code runs on, and its callers poll it in a loop.
FairSpec == Spec /\ WF_vars(Driver)

-----------------------------------------------------------------------------
(***************************************************************************)
(* Properties.                                                             *)
(***************************************************************************)
Content(f) == [k \in 1 .. f.length |-> <<f.frame, k>>]

\* macb_recv returns the frames that arrived whole, each once, in order, and
\* byte by byte: a fragment is never joined to the frame behind it, and a
\* frame that passes the end of the ring is put together again.
FramesIntact ==
    IsPrefix(received, [k \in 1 .. Len(complete) |-> Content(complete[k])])

\* The descriptors from i up to, and not including, j.
Span(i, j) == {k \in Idx : (k - i) % MACB_RX_RING_SIZE
                              < (j - i) % MACB_RX_RING_SIZE}

\* What the driver has not given back yet begins at the tail, or where
\* reclaim_rx_buffers has come to, and ends where the controller writes next:
\* the two sides agree on whose turn each descriptor is without ever
\* comparing their positions.
RingAgrees ==
    LET tail == IF pc \in {"reclaim", "reclaim_last"} THEN reclaim ELSE rx_tail
        used == {i \in Idx : rx_ring[i].used}
    IN  used = Span(tail, dma) \/ (used = Idx /\ tail = dma)

\* Again and again the driver, when it is called in a loop, has received every
\* frame that arrived whole, also behind fragments and between frames it
\* sends: it never waits for the controller for good.
EveryFrameReceived == []<>(Len(received) = Len(complete) \/ fatal)

\* The frames given to macb_send are sent in order, each once and with the
\* contents it had, and before macb_send returns, as long as none of its
\* calls has given up: its descriptor and the buffer behind it are then still
\* in the controller's hands.  Even so no more frames are sent than were given.
FramesSent ==
    /\ Len(wire) <= handed
    /\ ~timedout =>
          /\ \A k \in DOMAIN wire : wire[k] = k
          /\ pc \notin {"send_addr", "send_poll"} => Len(wire) = handed
=============================================================================
