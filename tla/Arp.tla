--------------------------------- MODULE Arp ---------------------------------
(***************************************************************************)
(* The ARP module of uIP (library/uip/uip_arp.c): the table of the hosts   *)
(* whose Ethernet address is known.  Only ARP packets fill it, since       *)
(* uip_arp_ipin() is compiled out, and no entry ages, since nobody calls   *)
(* uip_arp_timer().  The Ethernet address of a host never changes here, so *)
(* an entry is just the host.                                              *)
(***************************************************************************)
EXTENDS Integers, FiniteSetsExt

CONSTANTS
    Hosts,            \* the hosts of the local network
    UIP_ARPTAB_SIZE   \* entries of the table, 8 in the code

NoHost == "0.0.0.0"   \* the address of an unused entry

ASSUME ArpAssumption == UIP_ARPTAB_SIZE \in Nat \ {0} /\ NoHost \notin Hosts

arp_entry == Hosts \cup {NoHost}

EmptyTable == [i \in 1 .. UIP_ARPTAB_SIZE |-> NoHost]

Known(arp_table, ipaddr) == {i \in DOMAIN arp_table : arp_table[i] = ipaddr}

\* A known entry is refreshed; a new one takes an unused entry or the oldest
\* one: with all times 0 that is the first.
uip_arp_update(arp_table, ipaddr) ==
    LET free == Known(arp_table, NoHost)
    IN  IF Known(arp_table, ipaddr) # {}
        THEN arp_table
        ELSE [arp_table EXCEPT ![IF free # {} THEN Min(free) ELSE 1] = ipaddr]

\* uip_arp_arpin() for a packet about our address: the sender is entered, a
\* request is answered.
uip_arp_arpin(arp_table, opcode, sipaddr) ==
    [arp_table |-> uip_arp_update(arp_table, sipaddr),
     reply     |-> opcode = "ARP_REQUEST"]

\* uip_arp_out(): the packet goes out, or an ARP request in its place.
uip_arp_out(arp_table, ipaddr) == Known(arp_table, ipaddr) # {}
=============================================================================
