-------------------------------- MODULE Httpd --------------------------------
(***************************************************************************)
(* The web server application (library/uip/httpd.c).  uIP calls it with    *)
(* the events of a connection in uip_flags; it answers in uip_flags and,   *)
(* through uip_send, in uip_slen.  Its state lives in the connection.      *)
(* Definitions named X_without_Y or X_with_Y are wrong versions of X.      *)
(***************************************************************************)
EXTENDS Integers, Sequences

CONSTANTS
    RESPONSE_LEN,          \* strlen(hello_response)
    MAX_DRIVER_SEND_BYTES  \* 512 - 100

ASSUME HttpdAssumption ==
    /\ RESPONSE_LEN \in Nat \ {0}
    /\ MAX_DRIVER_SEND_BYTES \in Nat \ {0}

\* The events and requests of uip_flags.
UipFlags == {"UIP_ACKDATA", "UIP_NEWDATA", "UIP_CLOSE", "UIP_ABORT",
             "UIP_CONNECTED"}

\* What the application asks about its call.
uip_newdata(uip_flags)   == "UIP_NEWDATA" \in uip_flags
uip_acked(uip_flags)     == "UIP_ACKDATA" \in uip_flags
uip_connected(uip_flags) == "UIP_CONNECTED" \in uip_flags
uip_closed(uip_flags)    == "UIP_CLOSE" \in uip_flags
uip_aborted(uip_flags)   == "UIP_ABORT" \in uip_flags

\* The bytes of the page; which ones they are does not matter.
hello_response == [k \in 1 .. RESPONSE_LEN |-> k]

http_state ==
    [state : {"HTTP_STATE_WAITING", "HTTP_STATE_SENDING", "HTTP_STATE_CLOSING"},
     pos : 0 .. RESPONSE_LEN,
     last_sent_len : 0 .. RESPONSE_LEN]

FreshHttp == [state |-> "HTTP_STATE_WAITING", pos |-> 0, last_sent_len |-> 0]

Least(a, b) == IF a <= b THEN a ELSE b

\* uip_acked(): what was sent last has arrived.
Acked(s, uip_flags) ==
    IF uip_acked(uip_flags)
    THEN [s EXCEPT !.pos = @ + s.last_sent_len, !.last_sent_len = 0]
    ELSE s

\* Any piece of the request starts the page.
Requested_without_state(s, uip_flags) ==
    IF uip_newdata(uip_flags)
    THEN [state |-> "HTTP_STATE_SENDING", pos |-> 0, last_sent_len |-> 0]
    ELSE s

\* uip_newdata(): the request, or the first piece of it.
Requested(s, uip_flags) ==
    IF uip_newdata(uip_flags) /\ s.state = "HTTP_STATE_WAITING"
    THEN [state |-> "HTTP_STATE_SENDING", pos |-> 0, last_sent_len |-> 0]
    ELSE s

\* What a call of the application leaves behind: its state, uip_flags and
\* the uip_slen bytes it has put into the buffer.
Called(s, uip_flags, data) == [s |-> s, uip_flags |-> uip_flags, data |-> data]

\* uip_close() sets uip_flags.
uip_close(s) == Called(s, {"UIP_CLOSE"}, <<>>)

\* The piece is not cut at the end of the page.
SendNext_without_remaining(s, uip_flags, mss) ==
    LET chunk_len == Least(mss, MAX_DRIVER_SEND_BYTES)
    IN  IF s.pos < RESPONSE_LEN
        THEN Called([s EXCEPT !.last_sent_len = chunk_len], uip_flags,
                    [k \in 1 .. chunk_len |-> s.pos + k])
        ELSE uip_close([s EXCEPT !.state = "HTTP_STATE_CLOSING"])

\* The position moves on when a piece is sent, not when it has arrived.
SendNext_with_early_pos(s, uip_flags, mss) ==
    LET chunk_len == Least(RESPONSE_LEN - s.pos, Least(mss, MAX_DRIVER_SEND_BYTES))
    IN  IF s.pos < RESPONSE_LEN /\ chunk_len > 0
        THEN Called([s EXCEPT !.pos = @ + chunk_len], uip_flags,
                    SubSeq(hello_response, s.pos + 1, s.pos + chunk_len))
        ELSE uip_close([s EXCEPT !.state = "HTTP_STATE_CLOSING"])

\* The next piece of the page, or the end of the connection.
SendNext(s, uip_flags, mss) ==
    LET chunk_len == Least(RESPONSE_LEN - s.pos, Least(mss, MAX_DRIVER_SEND_BYTES))
    IN  IF s.pos < RESPONSE_LEN
        THEN IF chunk_len > 0
             THEN Called([s EXCEPT !.last_sent_len = chunk_len], uip_flags,
                         SubSeq(hello_response, s.pos + 1, s.pos + chunk_len))
             ELSE Called(s, uip_flags, <<>>)
        ELSE IF s.last_sent_len = 0
             THEN uip_close([s EXCEPT !.state = "HTTP_STATE_CLOSING"])
             ELSE Called(s, uip_flags, <<>>)

httpd_appcall(s, uip_flags, mss) ==
    LET t == Requested(Acked(s, uip_flags), uip_flags)
    IN  IF uip_connected(uip_flags)
        THEN Called(FreshHttp, uip_flags, <<>>)
        ELSE IF uip_closed(uip_flags) \/ uip_aborted(uip_flags)
        THEN Called([s EXCEPT !.state = "HTTP_STATE_CLOSING"], uip_flags, <<>>)
        ELSE IF t.state = "HTTP_STATE_SENDING"
                /\ (uip_newdata(uip_flags) \/ uip_acked(uip_flags))
        THEN SendNext(t, uip_flags, mss)
        ELSE Called(t, uip_flags, <<>>)
=============================================================================
