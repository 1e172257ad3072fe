\* Two applications at a time.
CONSTANTS
    MAX_NPROCESS = 7
    GPID_SHELL = 5
    GPID_USER_START = 6
    Contents <- Message
    PROC_EXIT = "PROC_EXIT"
    NoContent = none
    Scenarios <- FailedForeground
    NREADS = 1
VIEW View
SPECIFICATION EgosSpec
INVARIANTS
    NoticeOnlyForForeground
\* FATAL stops the machine.
CHECK_DEADLOCK FALSE
