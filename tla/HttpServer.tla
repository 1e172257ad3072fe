----------------------------- MODULE HttpServer -----------------------------
(***************************************************************************)
(* The web server (apps/user/http.c): its main loop takes one frame after  *)
(* the other from net_recv() and passes it to uIP (Uip, Arp, Httpd); what  *)
(* uIP answers is sent.  The clients are TCP implementations that keep to  *)
(* the protocol: they resolve the address, connect, send a request of REQ  *)
(* bytes in one or more segments, acknowledge what they receive, close     *)
(* when the server has closed, and repeat what is not acknowledged.  Each  *)
(* has a link to the server that keeps the order of frames.                *)
(* Faults are bounded by MaxFaults: a frame is lost or damaged, a client   *)
(* repeats a segment too early, closes before it has the page, or aborts.  *)
(***************************************************************************)
EXTENDS Uip, Arp, SequencesExt

CONSTANTS
    NextHop,     \* [Peers -> Hosts], the host itself or the default router
    REQ,         \* bytes of a request
    ISN,         \* initial sequence number of the clients
    Windows,     \* the windows that clients advertise
    MssOffer,    \* [Peers -> Nat], the MSS options of their SYNs
    Rests,       \* sums of the other words of pings
    Faulty,      \* the clients that faults happen to
    MaxFaults

ASSUME ClientAssumption ==
    /\ NextHop \in [Peers -> Hosts]
    /\ REQ \in Nat \ {0}
    /\ REQ + 2 < Size32 /\ RESPONSE_LEN + 2 < Size32
    /\ ISN \in 0 .. Size32 - 1
    /\ Windows \subseteq Nat \ {0} /\ \E w \in Windows : \A v \in Windows : v <= w
    /\ MssOffer \in [Peers -> Nat \ {0}]
    /\ Rests \subseteq u16_t
    /\ Faulty \subseteq Peers /\ MaxFaults \in Nat

VARIABLES
    uip_conns,   \* the connections of the server
    arp_table,
    client,      \* [Peers -> Client]
    toServer,    \* frames on their way, per client
    toClient,
    faults

vars == <<uip_conns, arp_table, client, toServer, toClient, faults>>

(***************************************************************************)
(* A client.  Its own numbers count from its SYN: una is the first one the *)
(* server has not acknowledged, nxt the next to send.  got is what it has  *)
(* received, eof the end of it, fin its own FIN.  early tells that it      *)
(* closed before the end, resized that a piece of the page was sent again  *)
(* with another length.                                                    *)
(***************************************************************************)
Client ==
    [phase : {"idle", "arp", "resolved", "pinged", "syn", "open", "reset"},
     una : 0 .. REQ + 2, nxt : 0 .. REQ + 2,
     got : Seq(0 .. RESPONSE_LEN), eof : BOOLEAN, fin : BOOLEAN,
     early : BOOLEAN, resized : BOOLEAN]

NewClient ==
    [phase |-> "idle", una |-> 0, nxt |-> 0, got |-> <<>>, eof |-> FALSE,
     fin |-> FALSE, early |-> FALSE, resized |-> FALSE]

\* Bytes of the request that were sent, and the number expected next.
ReqSent(cl) == cl.nxt - 1 - (IF cl.fin THEN 1 ELSE 0)
RcvNxt(cl)  == IF cl.phase = "open"
               THEN 1 + Len(cl.got) + (IF cl.eof THEN 1 ELSE 0) ELSE Iss

\* The segment of a client that starts at its number n.
Segment(c, cl, flags, n, len, wnd) ==
    [type |-> "tcp", src |-> c, flags |-> flags, seqno |-> (ISN + n) % Size32,
     ackno |-> RcvNxt(cl), len |-> len, wnd |-> wnd,
     mssopt |-> IF "SYN" \in flags THEN MssOffer[c] ELSE 0, damage |-> "none"]

FullWindow == Max(Windows)

Ack(c, cl, wnd) == Segment(c, cl, {"ACK"}, cl.nxt, 0, wnd)

\* What is not acknowledged, once more: all of it that a segment holds.
Again(c, cl) ==
    LET rest == cl.nxt - cl.una - (IF cl.fin THEN 1 ELSE 0)
        len  == Least(rest, UIP_TCP_MSS)
    IN  IF cl.phase = "syn"
        THEN Segment(c, cl, {"SYN"}, 0, 0, FullWindow)
        ELSE Segment(c, cl, {"ACK"} \cup (IF cl.fin /\ len = rest THEN {"FIN"} ELSE {}),
                     cl.una, len, FullWindow)

Init ==
    /\ uip_conns = uip_init
    /\ arp_table = EmptyTable
    /\ client = [c \in Peers |-> NewClient]
    /\ toServer = [c \in Peers |-> <<>>]
    /\ toClient = [c \in Peers |-> <<>>]
    /\ faults = 0

-----------------------------------------------------------------------------
(***************************************************************************)
(* The server: one turn of the main loop.                                  *)
(***************************************************************************)
\* The frame an IP packet for client c becomes.
Framed(c, packet) ==
    IF uip_arp_out(arp_table, NextHop[c]) THEN packet ELSE [type |-> "arp_request"]

\* An ARP packet.
ServeArp(c, frame) ==
    LET r == uip_arp_arpin(arp_table, IF frame.type = "arp_request"
                                      THEN "ARP_REQUEST" ELSE "ARP_REPLY", NextHop[c])
    IN  /\ frame.type \in {"arp_request", "arp_reply"}
        /\ arp_table' = r.arp_table
        /\ toClient' = [toClient EXCEPT ![c] =
                            IF r.reply THEN Append(@, [type |-> "arp_reply"]) ELSE @]
        /\ UNCHANGED <<uip_conns, client>>

\* An ICMP echo: the answer is the packet itself with the type and the
\* checksum changed.  Its data, and what happened to it, goes back unseen.
ServeEcho(c, frame) ==
    /\ frame.type = "echo"
    /\ toClient' = [toClient EXCEPT ![c] =
                        IF IpAccepted(frame)
                        THEN Append(@, Framed(c,
                                [type |-> "echo_reply", rest |-> frame.rest, damage |-> frame.damage,
                                 icmpchksum |-> IcmpReplyChecksum(frame.icmpchksum)]))
                        ELSE @]
    /\ UNCHANGED <<uip_conns, arp_table, client>>

\* A piece of the request makes httpd send the outstanding piece of the page
\* once more, and the window has changed since: the length that httpd puts
\* down is not the one that uIP counts.
Resizes(seg) ==
    \E i \in Demux(uip_conns, seg) :
        /\ uip_conns[i].tcpstateflags = "UIP_ESTABLISHED"
        /\ IpAccepted(seg) /\ uip_tcpchksum(seg) /\ "FIN" \notin seg.flags
        /\ seg.len > 0 /\ ~OutOfOrder(uip_conns[i], seg)
        /\ uip_outstanding(uip_conns[i]) /\ ~AckedBy(uip_conns[i], seg)
        /\ Len(AppCall(Window(uip_conns[i], seg), {"UIP_NEWDATA"}).data)
              # uip_conns[i].len

\* A TCP segment.
ServeTcp(c, seg) ==
    /\ seg.type = "tcp"
    /\ \E r \in {uip_input(uip_conns, seg)} :
          /\ uip_conns' = r.conns
          /\ toClient' =
                IF r.out = <<>> THEN toClient
                ELSE [toClient EXCEPT ![r.out[1].dest] =
                          Append(@, Framed(r.out[1].dest,
                              [type |-> "tcp", flags |-> r.out[1].flags,
                               seqno |-> r.out[1].seqno, ackno |-> r.out[1].ackno,
                               data |-> r.out[1].data]))]
    /\ client' = [client EXCEPT ![c].resized = @ \/ Resizes(seg)]
    /\ UNCHANGED arp_table

\* A frame of another type is printed and forgotten.
ServeOther(frame) ==
    /\ frame.type = "other"
    /\ UNCHANGED <<uip_conns, arp_table, client, toClient>>

Serve(c) ==
    /\ toServer[c] # <<>>
    /\ LET frame == Head(toServer[c])
       IN  ServeArp(c, frame) \/ ServeEcho(c, frame) \/ ServeTcp(c, frame)
           \/ ServeOther(frame)
    /\ toServer' = [toServer EXCEPT ![c] = Tail(@)]
    /\ UNCHANGED faults

-----------------------------------------------------------------------------
(***************************************************************************)
(* The clients.                                                            *)
(***************************************************************************)
Send(c, frame) == toServer' = [toServer EXCEPT ![c] = Append(@, frame)]

Fault(c) == c \in Faulty /\ faults < MaxFaults /\ faults' = faults + 1

Quiet(c) == toServer[c] = <<>> /\ toClient[c] = <<>>

ServerUnchanged == UNCHANGED <<uip_conns, arp_table>>

Resolve(c) ==
    /\ client[c].phase = "idle"
    /\ client' = [client EXCEPT ![c].phase = "arp"]
    /\ Send(c, [type |-> "arp_request"])
    /\ ServerUnchanged /\ UNCHANGED <<toClient, faults>>

\* Before it connects a client may ping.
Ping(c, rest) ==
    /\ client[c].phase = "resolved"
    /\ client' = [client EXCEPT ![c].phase = "pinged"]
    /\ Send(c, [type |-> "echo", rest |-> rest, damage |-> "none",
                icmpchksum |-> Size16 - 1 - OnesAdd(HTONS_ECHO, rest)])
    /\ ServerUnchanged /\ UNCHANGED <<toClient, faults>>

Connect(c) ==
    LET cl == [client[c] EXCEPT !.phase = "syn", !.nxt = 1]
    IN  /\ client[c].phase \in {"resolved", "pinged"}
        /\ client' = [client EXCEPT ![c] = cl]
        /\ Send(c, Again(c, cl))
        /\ ServerUnchanged /\ UNCHANGED <<toClient, faults>>

\* The next n bytes of the request.
Request(c, n, wnd) ==
    LET cl == client[c]
    IN  /\ cl.phase = "open" /\ ~cl.fin
        /\ ReqSent(cl) + n <= REQ /\ n <= UIP_TCP_MSS
        /\ client' = [client EXCEPT ![c].nxt = @ + n]
        /\ Send(c, Segment(c, cl, {"ACK", "PSH"}, cl.nxt, n, wnd))
        /\ ServerUnchanged /\ UNCHANGED <<toClient, faults>>

\* A client closes when the server has, or before.
Close(c) ==
    LET cl == [client[c] EXCEPT !.fin = TRUE, !.nxt = @ + 1, !.early = ~client[c].eof]
    IN  /\ client[c].phase = "open" /\ ~client[c].fin
        /\ IF client[c].eof THEN UNCHANGED faults
                            ELSE Fault(c)
        /\ client' = [client EXCEPT ![c] = cl]
        /\ Send(c, Segment(c, cl, {"FIN", "ACK"}, client[c].nxt, 0, FullWindow))
        /\ ServerUnchanged /\ UNCHANGED toClient

\* A client gives its connection up and says so.
Abort(c) ==
    /\ client[c].phase = "open" /\ ~client[c].eof
    /\ Fault(c)
    /\ client' = [client EXCEPT ![c].phase = "reset"]
    /\ Send(c, Segment(c, client[c], {"RST"}, client[c].nxt, 0, 0))
    /\ ServerUnchanged /\ UNCHANGED toClient

\* What is not acknowledged is sent again: when nothing is on its way any
\* more, or too early.
Timeout(c) ==
    LET cl == client[c]
    IN  /\ \/ cl.phase = "arp"
           \/ cl.phase \in {"syn", "open"} /\ cl.una < cl.nxt
        /\ IF Quiet(c) THEN UNCHANGED faults
                    ELSE Fault(c)
        /\ Send(c, IF cl.phase = "arp" THEN [type |-> "arp_request"]
                                       ELSE Again(c, cl))
        /\ ServerUnchanged /\ UNCHANGED <<client, toClient>>

\* What a client that is connecting makes of a segment.
Connected(cl, seg) ==
    LET acks == seg.ackno = (ISN + 1) % Size32
    IN  IF "RST" \in seg.flags /\ acks
        THEN [cl EXCEPT !.phase = "reset"]
        ELSE IF {"SYN", "ACK"} \subseteq seg.flags /\ acks
        THEN [cl EXCEPT !.phase = "open", !.una = 1]
        ELSE cl

\* What a connected client makes of one: it takes what is in order.
Received(cl, seg) ==
    LET n  == (seg.ackno - ISN) % Size32
        cl1 == IF n \in cl.una .. cl.nxt THEN [cl EXCEPT !.una = n] ELSE cl
    IN  IF seg.seqno # RcvNxt(cl) THEN cl
        ELSE IF "RST" \in seg.flags THEN [cl EXCEPT !.phase = "reset"]
        ELSE [cl1 EXCEPT !.got = @ \o seg.data, !.eof = @ \/ "FIN" \in seg.flags]

\* A segment with data or a flag that counts is acknowledged.
Answered(cl1, seg) ==
    /\ cl1.phase = "open"
    /\ seg.data # <<>> \/ seg.flags \cap {"SYN", "FIN"} # {}

Take(c, wnd) ==
    LET frame == Head(toClient[c])
        cl    == client[c]
        cl1   == IF frame.type # "tcp" THEN cl
                 ELSE IF cl.phase = "syn" THEN Connected(cl, frame)
                 ELSE IF cl.phase = "open" THEN Received(cl, frame)
                 ELSE cl
    IN  /\ toClient[c] # <<>>
        /\ toClient' = [toClient EXCEPT ![c] = Tail(@)]
        /\ client' = [client EXCEPT ![c] =
              IF frame.type = "arp_reply" /\ cl.phase = "arp"
              THEN [cl EXCEPT !.phase = "resolved"] ELSE cl1]
        /\ IF frame.type = "arp_request" THEN Send(c, [type |-> "arp_reply"])
           ELSE IF frame.type = "tcp" /\ Answered(cl1, frame) THEN Send(c, Ack(c, cl1, wnd))
           ELSE UNCHANGED toServer
        /\ ServerUnchanged /\ UNCHANGED faults

-----------------------------------------------------------------------------
(***************************************************************************)
(* The network.  A reply is also lost when the driver fails to send it:    *)
(* the main loop ignores the result of net_send().                         *)
(***************************************************************************)
LoseRequest(c) ==
    /\ toServer[c] # <<>> /\ Fault(c)
    /\ toServer' = [toServer EXCEPT ![c] = Tail(@)]
    /\ ServerUnchanged /\ UNCHANGED <<client, toClient>>

LoseReply(c) ==
    /\ toClient[c] # <<>> /\ Fault(c)
    /\ toClient' = [toClient EXCEPT ![c] = Tail(@)]
    /\ ServerUnchanged /\ UNCHANGED <<client, toServer>>

Damage(c, damage) ==
    /\ toServer[c] # <<>> /\ Fault(c)
    /\ toServer' = [toServer EXCEPT ![c][1] =
                        IF @.type \in {"tcp", "echo"} THEN [@ EXCEPT !.damage = damage]
                        ELSE [type |-> "other"]]
    /\ ServerUnchanged /\ UNCHANGED <<client, toClient>>

Next ==
    \E c \in Peers :
        \/ Serve(c)
        \/ Resolve(c)
        \/ \E rest \in Rests : Ping(c, rest)
        \/ Connect(c)
        \/ \E n \in 1 .. REQ, w \in Windows : Request(c, n, w)
        \/ Close(c) \/ Timeout(c)
        \/ \E w \in Windows : Take(c, w)
        \/ Abort(c)
        \/ LoseRequest(c) \/ LoseReply(c)
        \/ \E d \in {"header", "body"} : Damage(c, d)

(***************************************************************************)
(* The main loop and the links never stop; clients go on as long as their  *)
(* connection does.  Nobody has to ping, abort or close early.             *)
(***************************************************************************)
\* What a Serve(c) step does to the link.  Serve(c) is enabled whenever a
\* frame is there, so fairness of the one is fairness of the other.
FrameServed(c) ==
    toServer[c] # <<>> /\ toServer' = [toServer EXCEPT ![c] = Tail(@)] /\ faults' = faults

GoesOn(c) ==
    /\ WF_toServer(FrameServed(c))
    /\ WF_vars(Resolve(c))
    /\ WF_vars(Connect(c))
    /\ WF_vars(\E n \in 1 .. REQ, w \in Windows : Request(c, n, w))
    /\ WF_vars(client[c].eof /\ Close(c))
    /\ WF_vars(Quiet(c) /\ Timeout(c))
    /\ WF_vars(\E w \in Windows : Take(c, w))

Spec == Init /\ [][Next]_vars /\ \A c \in Peers : GoesOn(c)

-----------------------------------------------------------------------------
(***************************************************************************)
(* Properties.                                                             *)
(***************************************************************************)
\* All variables have their types; what httpd_appcall() counts stays within
\* the page.
TypeOK ==
    /\ uip_conns \in [1 .. UIP_CONNS -> uip_conn]
    /\ arp_table \in [1 .. UIP_ARPTAB_SIZE -> arp_entry]
    /\ \A c \in Peers :
          /\ client[c].got \in Seq(0 .. RESPONSE_LEN)
          /\ [client[c] EXCEPT !.got = <<>>] \in Client
    /\ faults \in 0 .. MaxFaults

Active(i) == uip_conns[i].tcpstateflags # "UIP_CLOSED"

\* What a client has received is the beginning of the page, whatever is lost
\* or repeated, and however the request and the page are cut into pieces;
\* a client is left out once a piece was cut again with another length, before
\* the one that is outstanding was acknowledged.
StreamIntact ==
    \A c \in Peers : ~client[c].resized => IsPrefix(client[c].got, hello_response)

\* A client that did not close first sees the end of the stream only after
\* the whole page; clients to whom a piece was cut again are left out here too.
EndMeansAll ==
    \A c \in Peers :
        client[c].eof /\ ~client[c].early /\ ~client[c].resized
        => client[c].got = hello_response

\* The server never acknowledges what its peer has not sent.
AcksOnlySent ==
    \A i \in 1 .. UIP_CONNS :
        Active(i) => LET cl == client[uip_conns[i].peer]
                     IN  (uip_conns[i].rcv_nxt - ISN) % Size32 \in 1 .. cl.nxt

\* The server resets no connection of a client that keeps to the protocol,
\* unless something was lost or repeated.
NoReset == faults = 0 => \A c \in Peers : client[c].phase # "reset"

\* The reply to a ping that arrived whole has a correct checksum, although it
\* is adjusted and not computed.
EchoValid ==
    \A c \in Peers : \A k \in DOMAIN toClient[c] :
        LET f == toClient[c][k]
        IN  f.type = "echo_reply" /\ f.damage = "none" /\ f.rest # 0 => IcmpValid(0, f.rest, f.icmpchksum)

\* Every client gets the page and the end of it when nothing is lost, even
\* one whose SYN found the table of connections full.
Served == \A c \in Peers :
    <>(client[c].eof \/ faults # 0 \/ client[c].resized)
=============================================================================
