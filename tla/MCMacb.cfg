\* Four buffers of two bytes; frames of one, two and three buffers, the
\* longest ones too long for the driver.
CONSTANTS
    MACB_RX_RING_SIZE = 4
    MACB_RX_BUFFER_SIZE = 2
    MAX_LENGTH = 5
    MAX_RX_TRIES = 2
    Lengths = {1, 3, 5, 6}
    MACB_TX_RING_SIZE = 2
    MACB_TX_TIMEOUT = 1
    MaxFrames = 5
SPECIFICATION FairSpec
INVARIANTS
    FramesIntact
    RingAgrees
    FramesSent
PROPERTIES
    EveryFrameReceived
\* The assertion on the length stops the machine.
CHECK_DEADLOCK FALSE
