--------------------------------- MODULE Uip ---------------------------------
(***************************************************************************)
(* TCP as the uIP stack does it (library/uip/uip.c): what uip_input()      *)
(* makes of one segment.  The configuration is the one of the web server:  *)
(* IPv4, no UDP, no reassembly, no active open, and a main loop that never *)
(* calls uip_periodic(), so the timers and the retransmission they drive   *)
(* do not exist and iss stays 0.  Every operator returns the connections   *)
(* and the reply in uip_buf: none (uip_len = 0) or one.                    *)
(* Definitions named X_without_Y or X_with_Y are wrong versions of X.      *)
(***************************************************************************)
EXTENDS UipArith, Httpd, FiniteSets, FiniteSetsExt

CONSTANTS
    Peers,        \* remote addresses and ports
    UIP_CONNS,    \* size of the table of connections
    UIP_TCP_MSS   \* the longest segment that fits into uip_buf

ASSUME UipAssumption ==
    /\ Peers # {}
    /\ UIP_CONNS \in Nat \ {0}
    /\ UIP_TCP_MSS \in Nat \ {0} /\ UIP_TCP_MSS + 1 < BYTE * BYTE

TcpFlags  == {"FIN", "SYN", "RST", "PSH", "ACK"}
TcpStates == {"UIP_CLOSED", "UIP_SYN_RCVD", "UIP_ESTABLISHED", "UIP_FIN_WAIT_1",
              "UIP_FIN_WAIT_2", "UIP_CLOSING", "UIP_TIME_WAIT", "UIP_LAST_ACK"}

Iss == 0

(***************************************************************************)
(* A sequence number is the number its four bytes stand for.  It is added  *)
(* to and stepped as the code does it, byte by byte.                       *)
(***************************************************************************)
SeqNo == 0 .. Size32 - 1

Add32 == [n \in SeqNo |-> [k \in 0 .. UIP_TCP_MSS + 1 |-> Value(uip_add32(Bytes(n), k))]]

Successor32 == [n \in SeqNo |-> Value(Ripple(Bytes(n)))]

\* struct uip_conn.  The local port is always that of the web server; rto,
\* sa, sv, timer and nrtx only matter to the periodic timer.
uip_conn ==
    [tcpstateflags : TcpStates, peer : Peers,
     rcv_nxt : SeqNo, snd_nxt : SeqNo,
     len : 0 .. UIP_TCP_MSS,
     mss : 0 .. UIP_TCP_MSS, initialmss : 0 .. UIP_TCP_MSS,
     appstate : http_state]

\* uip_init(): the table, whose other fields are zero as all static data.
uip_init ==
    [i \in 1 .. UIP_CONNS |->
        [tcpstateflags |-> "UIP_CLOSED", peer |-> CHOOSE p \in Peers : TRUE,
         rcv_nxt |-> Iss, snd_nxt |-> Iss, len |-> 0, mss |-> 0, initialmss |-> 0,
         appstate |-> FreshHttp]]

Damages == {"none", "header", "body"}

\* An incoming segment.  mssopt is the value of its MSS option, 0 without
\* one; damage tells what the network has done to the packet.
InSegment ==
    [src : Peers, flags : SUBSET TcpFlags, seqno : SeqNo, ackno : SeqNo,
     len : Nat, wnd : Nat, mssopt : Nat, damage : Damages]

\* The checks of the IP header: version, lengths, no fragment, our address,
\* the sum.
IpAccepted(packet) == packet.damage # "header"

\* uip_tcpchksum() == 0xffff: the sum covers header and data.
uip_tcpchksum(seg) == seg.damage = "none"

-----------------------------------------------------------------------------
(***************************************************************************)
(* Sending.                                                                *)
(***************************************************************************)
Drop(conns) == [conns |-> conns, out |-> <<>>]

Kept(conns, i, conn) == Drop([conns EXCEPT ![i] = conn])

\* tcp_send: the numbers of the connection go into the header.
tcp_send(conns, i, conn, flags, data) ==
    [conns |-> [conns EXCEPT ![i] = conn],
     out   |-> <<[dest |-> conn.peer, flags |-> flags, seqno |-> conn.snd_nxt,
                  ackno |-> conn.rcv_nxt, data |-> data]>>]

tcp_send_ack(conns, i, conn) == tcp_send(conns, i, conn, {"ACK"}, <<>>)

tcp_send_synack(conns, i, conn) == tcp_send(conns, i, conn, {"SYN", "ACK"}, <<>>)

tcp_send_finack(conns, i, conn) == tcp_send(conns, i, conn, {"FIN", "ACK"}, <<>>)

\* reset: a segment of no connection is answered with a RST, except a RST.
reset(conns, seg) ==
    IF "RST" \in seg.flags
    THEN Drop(conns)
    ELSE [conns |-> conns,
          out   |-> <<[dest |-> seg.src, flags |-> {"RST", "ACK"},
                       seqno |-> seg.ackno, ackno |-> Successor32[seg.seqno],
                       data |-> <<>>]>>]

\* Something was sent and is not yet acknowledged.
uip_outstanding(conn) == conn.len # 0

uip_add_rcv_nxt(conn, n) == [conn EXCEPT !.rcv_nxt = Add32[@][n]]

\* The longest piece that can be sent now.
uip_mss(conn) == conn.mss

\* The connection after UIP_APPCALL() with the given events.
AppCall(conn, uip_flags) == httpd_appcall(conn.appstate, uip_flags, uip_mss(conn))

Told(conn, uip_flags) == [conn EXCEPT !.appstate = AppCall(conn, uip_flags).s]

\* A segment carries the first len bytes of the buffer: those the application
\* has put there, then whatever was in it (0).
Payload(data, len) == [k \in 1 .. len |-> IF k <= Len(data) THEN data[k] ELSE 0]

\* The application is called, then appsend: its close, its data (new data,
\* or what is outstanding once more), or an acknowledgement of new data.
appsend(conns, i, conn, uip_flags) ==
    LET call == AppCall(conn, uip_flags)
        told == [conn EXCEPT !.appstate = call.s]
        slen == Len(call.data)
        len  == IF slen > 0 /\ (uip_acked(uip_flags) \/ ~uip_outstanding(conn))
                THEN Least(slen, conn.mss) ELSE conn.len
        sent == [told EXCEPT !.len = len]
    IN  IF "UIP_CLOSE" \in call.uip_flags
        THEN tcp_send_finack(conns, i,
                 [told EXCEPT !.len = 1, !.tcpstateflags = "UIP_FIN_WAIT_1"])
        ELSE IF slen > 0 /\ len > 0
        THEN tcp_send(conns, i, sent, {"ACK", "PSH"}, Payload(call.data, len))
        ELSE IF uip_newdata(uip_flags)
        THEN tcp_send_ack(conns, i, sent)
        ELSE Kept(conns, i, sent)

-----------------------------------------------------------------------------
(***************************************************************************)
(* A new connection.                                                       *)
(***************************************************************************)
\* The first closed connection of the table, or else the first one in
\* TIME_WAIT: all their timers are 0.
Closed(conns)   == {i \in DOMAIN conns : conns[i].tcpstateflags = "UIP_CLOSED"}
TimeWait(conns) == {i \in DOMAIN conns : conns[i].tcpstateflags = "UIP_TIME_WAIT"}

\* A connection in TIME_WAIT is not given to anybody.
Unused_without_time_wait(conns) == Closed(conns)

Unused(conns) == IF Closed(conns) # {} THEN Closed(conns) ELSE TimeWait(conns)

\* Without an MSS option the old values of the entry remain.
MssOption(conn, seg) ==
    IF seg.mssopt = 0 THEN conn
    ELSE LET m == Least(seg.mssopt, UIP_TCP_MSS)
         IN  [conn EXCEPT !.mss = m, !.initialmss = m]

\* A full table takes the last entry, whatever its state.
found_listen_with_eviction(conns, seg) ==
    LET i == IF Unused(conns) # {} THEN Min(Unused(conns)) ELSE UIP_CONNS
        conn == [conns[i] EXCEPT !.peer = seg.src, !.tcpstateflags = "UIP_SYN_RCVD",
                                 !.snd_nxt = Iss, !.len = 1, !.rcv_nxt = seg.seqno]
    IN  tcp_send_synack(conns, i, MssOption(uip_add_rcv_nxt(conn, 1), seg))

found_listen(conns, seg) ==
    IF Unused(conns) = {}
    THEN Drop(conns)
    ELSE LET i == Min(Unused(conns))
             conn == [conns[i] EXCEPT !.peer = seg.src,
                                      !.tcpstateflags = "UIP_SYN_RCVD",
                                      !.snd_nxt = Iss, !.len = 1,
                                      !.rcv_nxt = seg.seqno]
         IN  tcp_send_synack(conns, i, MssOption(uip_add_rcv_nxt(conn, 1), seg))

-----------------------------------------------------------------------------
(***************************************************************************)
(* A segment of connection i, by the state of the connection.  conn is the *)
(* connection after the acknowledgement was processed, acked tells whether *)
(* that set UIP_ACKDATA.                                                   *)
(***************************************************************************)
Events(acked, seg) == (IF acked THEN {"UIP_ACKDATA"} ELSE {})
                      \cup (IF seg.len > 0 THEN {"UIP_NEWDATA"} ELSE {})

SynRcvd(conns, i, conn, acked, seg) ==
    IF acked
    THEN appsend(conns, i,
             [uip_add_rcv_nxt(conn, seg.len) EXCEPT !.tcpstateflags = "UIP_ESTABLISHED"],
             {"UIP_CONNECTED"} \cup Events(FALSE, seg))
    ELSE Kept(conns, i, conn)

\* The peer closes: allowed once nothing is outstanding.
PeerCloses(conns, i, conn, acked, seg) ==
    IF uip_outstanding(conn)
    THEN Kept(conns, i, conn)
    ELSE tcp_send_finack(conns, i,
             [Told(uip_add_rcv_nxt(conn, 1 + seg.len),
                   {"UIP_CLOSE"} \cup Events(acked, seg))
                 EXCEPT !.len = 1, !.tcpstateflags = "UIP_LAST_ACK"])

\* The window of the peer bounds the segments, unless it is 0.
Window(conn, seg) ==
    [conn EXCEPT !.mss = IF seg.wnd > conn.initialmss \/ seg.wnd = 0
                         THEN conn.initialmss ELSE seg.wnd]

Established(conns, i, conn, acked, seg) ==
    LET heard == Window(uip_add_rcv_nxt(conn, seg.len), seg)
    IN  IF "FIN" \in seg.flags
        THEN PeerCloses(conns, i, conn, acked, seg)
        ELSE IF Events(acked, seg) # {}
        THEN appsend(conns, i, heard, Events(acked, seg))
        ELSE Kept(conns, i, heard)

LastAck(conns, i, conn, acked) ==
    Kept(conns, i, IF acked
                   THEN [Told(conn, {"UIP_CLOSE"}) EXCEPT !.tcpstateflags = "UIP_CLOSED"]
                   ELSE conn)

FinWait1(conns, i, conn, acked, seg) ==
    LET heard == uip_add_rcv_nxt(conn, seg.len)
    IN  IF "FIN" \in seg.flags
        THEN tcp_send_ack(conns, i,
                 [Told(uip_add_rcv_nxt(heard, 1), {"UIP_CLOSE"}) EXCEPT
                    !.tcpstateflags = IF acked THEN "UIP_TIME_WAIT" ELSE "UIP_CLOSING"])
        ELSE IF acked
        THEN Kept(conns, i, [heard EXCEPT !.tcpstateflags = "UIP_FIN_WAIT_2"])
        ELSE IF seg.len > 0
        THEN tcp_send_ack(conns, i, heard)
        ELSE Kept(conns, i, heard)

FinWait2(conns, i, conn, seg) ==
    LET heard == uip_add_rcv_nxt(conn, seg.len)
    IN  IF "FIN" \in seg.flags
        THEN tcp_send_ack(conns, i,
                 [Told(uip_add_rcv_nxt(heard, 1), {"UIP_CLOSE"}) EXCEPT
                    !.tcpstateflags = "UIP_TIME_WAIT"])
        ELSE IF seg.len > 0
        THEN tcp_send_ack(conns, i, heard)
        ELSE Kept(conns, i, heard)

ByState(conns, i, conn, acked, seg) ==
    LET state == conn.tcpstateflags
    IN  IF state = "UIP_SYN_RCVD" THEN SynRcvd(conns, i, conn, acked, seg)
        ELSE IF state = "UIP_ESTABLISHED" THEN Established(conns, i, conn, acked, seg)
        ELSE IF state = "UIP_LAST_ACK" THEN LastAck(conns, i, conn, acked)
        ELSE IF state = "UIP_FIN_WAIT_1" THEN FinWait1(conns, i, conn, acked, seg)
        ELSE IF state = "UIP_FIN_WAIT_2" THEN FinWait2(conns, i, conn, seg)
        ELSE IF state = "UIP_TIME_WAIT" THEN tcp_send_ack(conns, i, conn)
        ELSE Kept(conns, i, IF acked   \* UIP_CLOSING
                            THEN [conn EXCEPT !.tcpstateflags = "UIP_TIME_WAIT"]
                            ELSE conn)

-----------------------------------------------------------------------------
\* The segment acknowledges all that is outstanding: nothing less counts.
AckedBy(conn, seg) ==
    /\ "ACK" \in seg.flags
    /\ uip_outstanding(conn)
    /\ seg.ackno = Add32[conn.snd_nxt][conn.len]

\* Data, a SYN or a FIN whose number is not the expected one.
OutOfOrder(conn, seg) ==
    /\ seg.len > 0 \/ seg.flags \cap {"SYN", "FIN"} # {}
    /\ seg.seqno # conn.rcv_nxt

\* found: a segment of an active connection.
found(conns, i, seg) ==
    LET conn  == conns[i]
        acked == AckedBy(conn, seg)
        after == IF acked
                 THEN [conn EXCEPT !.snd_nxt = Add32[@][conn.len], !.len = 0]
                 ELSE conn
    IN  IF "RST" \in seg.flags
        THEN Kept(conns, i, [Told(conn, {"UIP_ABORT"}) EXCEPT
                                !.tcpstateflags = "UIP_CLOSED"])
        ELSE IF OutOfOrder(conn, seg)
        THEN tcp_send_ack(conns, i, conn)
        ELSE ByState(conns, i, after, acked, seg)

\* The connection a segment belongs to.
Demux(conns, seg) ==
    {i \in DOMAIN conns : conns[i].tcpstateflags # "UIP_CLOSED"
                          /\ conns[i].peer = seg.src}

tcp_input(conns, seg) ==
    IF ~uip_tcpchksum(seg)
    THEN Drop(conns)
    ELSE IF Demux(conns, seg) # {}
    THEN found(conns, Min(Demux(conns, seg)), seg)
    ELSE IF seg.flags # {"SYN"}
    THEN reset(conns, seg)
    ELSE found_listen(conns, seg)

\* uip_process(UIP_DATA) for a packet with a segment: at most one packet
\* takes its place in uip_buf.
uip_input(conns, seg) == IF IpAccepted(seg) THEN tcp_input(conns, seg) ELSE Drop(conns)
=============================================================================
