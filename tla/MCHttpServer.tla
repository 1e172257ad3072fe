---------------------------- MODULE MCHttpServer ----------------------------
(***************************************************************************)
(* Small instances of HttpServer: two clients on the local network; the    *)
(* one offers longer segments than fit into uip_buf, the other shorter     *)
(* ones.                                                                   *)
(***************************************************************************)
EXTENDS HttpServer

CONSTANTS c1, c2

TwoHosts   == [c \in {c1, c2} |-> c]
TwoOffers  == [c \in {c1, c2} |-> IF c = c1 THEN 3 ELSE 1]
=============================================================================
