\* One connection for two clients, sequence numbers of four bits that wrap
\* around, and one fault of the first client or its link.
CONSTANTS
    c1 = c1
    c2 = c2
    Peers = {c1, c2}
    Hosts = {c1, c2}
    NextHop <- TwoHosts
    MssOffer <- TwoOffers
    BYTE = 2
    RESPONSE_LEN = 3
    MAX_DRIVER_SEND_BYTES = 2
    UIP_CONNS = 1
    UIP_TCP_MSS = 2
    UIP_ARPTAB_SIZE = 2
    REQ = 2
    ISN = 14
    Windows = {1, 2}
    Rests = {65530}
    Faulty = {c1}
    MaxFaults = 1
SPECIFICATION Spec
INVARIANTS
    TypeOK
    StreamIntact
    EndMeansAll
    AcksOnlySent
    NoReset
    EchoValid
PROPERTY
    Served
\* Clients that are served, or have given up, stop.
CHECK_DEADLOCK FALSE
