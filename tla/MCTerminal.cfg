\* Lines of up to 7 characters with one edit, batches of two commands and more.
CONSTANTS
    LEN = 8
    NCMDS = 2
    CMD_NARGS = 2
    CMD_ARG_LEN = 3
    UART_FIFO = 1
    MaxTyped = 7
    MaxEdits = 1
SPECIFICATION Spec
INVARIANTS
    LineAsEdited
    GivenUpNeverRuns
    CommandsInOrder
\* The user stops typing in the end.
CHECK_DEADLOCK FALSE
