\* sys_proc, the shell and one user application, two message contents.
CONSTANTS
    MAX_NPROCESS = 3
    GPID_SHELL = 2
    GPID_USER_START = 3
    Contents = {exit, m}
    PROC_EXIT = exit
    NoContent = none
VIEW View
SPECIFICATION Spec
INVARIANTS
    TypeOK
    OnlyCurrentRuns
    SlotPid
    SyscallPending
    BlockedSenderKeepsMessage
    NoMissedRendezvous
PROPERTIES
    NoOvertaking
    ImplementsRendezvous
\* FATAL stops the machine.
CHECK_DEADLOCK FALSE
