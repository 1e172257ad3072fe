\* One application at a time.
CONSTANTS
    MAX_NPROCESS = 6
    GPID_SHELL = 5
    GPID_USER_START = 6
    Contents <- Message
    PROC_EXIT = "PROC_EXIT"
    NoContent = none
    Scenarios <- KilledInCall
    NREADS = 1
SPECIFICATION EgosLive
PROPERTIES
    ServersReturn
\* FATAL stops the machine.
CHECK_DEADLOCK FALSE
