-------------------------- MODULE MemoryIsolation --------------------------
(***************************************************************************)
(* The memory layer implements PrivateMemory.  The memory of the process   *)
(* whose pages are at the exec addresses is what those addresses and the   *)
(* stack area hold; that of any other process is in its private pages and  *)
(* its saved stack.                                                        *)
(***************************************************************************)
EXTENDS Memory

STACK == APPS_NPAGES + 1
Loc == 1 .. STACK

PageAt(p, a) == app_pages[p][CHOOSE i \in Mapped(p) :
                                app_pages[p][i].exec_addr = a].private_addr

MemoryOf(p) ==
    [l \in Loc |->
       IF l = STACK
       THEN IF p \in ready THEN 0
            ELSE IF p = curr_pid THEN stack ELSE proc_stack[p]
       ELSE IF p = curr_vm_pid THEN exec[l] ELSE content[PageAt(p, l)]]

memory == [p \in Pid |-> IF p \in ready \cup started THEN MemoryOf(p) ELSE <<>>]

\* A new process has whatever the loader wrote to its code, data and argument
\* pages; the rest is clear.
Images == {image \in [Loc -> Val] : image[SYSCALL_ARG] = 0 /\ image[STACK] = 0}

Private == INSTANCE PrivateMemory
             WITH Proc <- Pid, First <- GPID_PROCESS, Mortal <- Users,
                  MsgLoc <- SYSCALL_ARG, running <- curr_pid

\* Processes are isolated although they share the addresses they execute at:
\* no switch, message, load or exit changes the memory of another process,
\* and a new process sees nothing of an old one (cpu_mmu.c, kernel.c).
ImplementsPrivateMemory == Private!Spec
=============================================================================
