\* sys_proc and two applications of one code page.
CONSTANTS
    MAX_NPROCESS = 4
    GPID_USER_START = 2
    LastPid = 3
    CODE_PAGES = 1
    NPAGES = 9
    Val = {0, 1}
SPECIFICATION Spec
VIEW View
INVARIANTS
    TypeOK
    PagesOwned
    ExecIsCurrent
    AllocationSucceeds
PROPERTIES
    ImplementsPrivateMemory
\* FATAL stops the machine.
CHECK_DEADLOCK FALSE
