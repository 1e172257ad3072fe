------------------------------- MODULE Grass -------------------------------
(***************************************************************************)
(* The grass kernel: the process table, the round-robin scheduler, the     *)
(* trap handler and the synchronous message passing between processes      *)
(* (grass/kernel.c, grass/process.c, grass/scheduler.c, grass/syscall.c),  *)
(* in the configuration the Makefile builds: NAIVE scheduler, system calls *)
(* through the machine software interrupt, one hart.                       *)
(*                                                                         *)
(* The programs are left open here: the process that holds the CPU may     *)
(* invoke any system call, and sys_proc (GPID_PROCESS) may call any of the *)
(* process management functions of the grass interface.  Module Egos       *)
(* replaces this environment by the code of the system processes.          *)
(*                                                                         *)
(* The kernel runs with interrupts disabled, so a trap is one step.  A     *)
(* user-level step fills the system call structure of the process and      *)
(* raises MSIP; the software interrupt is taken before any timer interrupt *)
(* (RISC-V priority order), so no other step happens while msip is set.    *)
(*                                                                         *)
(* Definitions named X_without_Y or X_with_Y are wrong versions of X, kept *)
(* to check that the properties notice them; no specification uses them.   *)
(***************************************************************************)
EXTENDS Integers, FiniteSets

CONSTANTS
    MAX_NPROCESS,     \* number of slots of proc_set (egos.h)
    GPID_SHELL,       \* pid of the shell; smaller pids are never preempted
    GPID_USER_START,  \* smallest pid of a user application
    Contents,         \* what a message can carry
    PROC_EXIT,        \* the content sys_exit sends
    NoContent         \* the content of a message buffer never written

GPID_PROCESS == 1

ASSUME SizeAssumption ==
    /\ MAX_NPROCESS \in Nat
    /\ GPID_SHELL \in Nat
    /\ GPID_USER_START \in Nat
    /\ GPID_PROCESS < GPID_SHELL
    /\ GPID_SHELL < GPID_USER_START
    /\ GPID_USER_START <= MAX_NPROCESS

ASSUME ContentAssumption == PROC_EXIT \in Contents /\ NoContent \notin Contents

VARIABLES
    proc_curr_idx,    \* index in proc_set of the process that holds the CPU
    pid,              \* proc_set[i].pid (0 for a slot never allocated)
    status,           \* proc_set[i].status
    from_sender_pid,  \* proc_set[i].from_sender_pid
    to_receiver_pid,  \* proc_set[i].to_receiver_pid
    mepc,             \* which code process i resumes in
    sc,               \* the struct syscall at SYSCALL_ARG in i's memory
    msip,             \* the software interrupt is pending
    fatal             \* the FATAL or ASSERT that stopped the system, or "none"

vars == <<proc_curr_idx, pid, status, from_sender_pid, to_receiver_pid,
          mepc, sc, msip, fatal>>

Idx == 0 .. MAX_NPROCESS - 1
Pid == 1 .. MAX_NPROCESS
pid2idx(p) == p - 1
idx2pid_with_offset(i) == i + 2
idx2pid(i) == i + 1

curr_pid == pid[proc_curr_idx]

Status == {"PROC_UNUSED", "PROC_LOADING", "PROC_READY", "PROC_RUNNING",
           "PROC_RUNNABLE", "PROC_WAIT_TO_SEND", "PROC_WAIT_TO_RECV"}

SyscallType == {"SYS_UNUSED", "SYS_RECV", "SYS_SEND", "SYS_YIELD"}

Syscall == [type : SyscallType, sender : 0 .. MAX_NPROCESS,
            receiver : 0 .. MAX_NPROCESS, content : Contents \cup {NoContent}]

FreshPage == [type |-> "SYS_UNUSED", sender |-> 0, receiver |-> 0,
              content |-> NoContent]

\* mepc: "app" in the program, "exit" at the entry of exit() (the address a
\* ctrl+c redirects to), "exited" in the yield loop that ends exit().
CodePoint == {"app", "exit", "exited"}

Fatal == {"none", "proc_yield: no runnable process",
          "proc_alloc: reach the limit", "proc_send: no such receiver",
          "sys_recv: sender out of range"}

(***************************************************************************)
(* Boot: grass main() has loaded sys_proc into slot 0 and entered it.      *)
(***************************************************************************)
Init ==
    /\ proc_curr_idx = 0
    /\ pid = [i \in Idx |-> IF i = 0 THEN GPID_PROCESS ELSE 0]
    /\ status = [i \in Idx |-> IF i = 0 THEN "PROC_RUNNING" ELSE "PROC_UNUSED"]
    /\ from_sender_pid = [i \in Idx |-> 0]
    /\ to_receiver_pid = [i \in Idx |-> 0]
    /\ mepc = [i \in Idx |-> "app"]
    /\ sc = [i \in Idx |-> FreshPage]
    /\ msip = FALSE
    /\ fatal = "none"

-----------------------------------------------------------------------------
(***************************************************************************)
(* The scheduler (scheduler.c).                                            *)
(***************************************************************************)
Schedulable(st) ==
    {i \in Idx : st[i] \in {"PROC_READY", "PROC_RUNNING", "PROC_RUNNABLE"}}

\* The slot the k-th iteration of the scan looks at.
Slot(k) == (proc_curr_idx + k) % MAX_NPROCESS

\* The scan goes on after a match and keeps the last one.
FirstSchedulable_without_break(st, k) ==
    /\ Slot(k) \in Schedulable(st)
    /\ \A j \in k + 1 .. MAX_NPROCESS : Slot(j) \notin Schedulable(st)

\* The scan stops at its k-th iteration.
FirstSchedulable(st, k) ==
    /\ Slot(k) \in Schedulable(st)
    /\ \A j \in 1 .. k - 1 : Slot(j) \notin Schedulable(st)

\* The preempted process stays PROC_RUNNING.
SwitchTo_without_runnable(st, n) ==
    [i \in Idx |-> IF i = n THEN "PROC_RUNNING" ELSE st[i]]

\* The statuses after a switch to slot n.
SwitchTo(st, n) ==
    [i \in Idx |-> IF i = n THEN "PROC_RUNNING"
                  ELSE IF i = proc_curr_idx /\ st[i] = "PROC_RUNNING"
                       THEN "PROC_RUNNABLE" ELSE st[i]]

\* st is proc_set's statuses when proc_yield() is called.  A process chosen
\* for the first time starts at APPS_ENTRY.
proc_yield(st) ==
    \/ /\ Schedulable(st) = {}
       /\ fatal' = "proc_yield: no runnable process"
       /\ status' = st
       /\ UNCHANGED <<proc_curr_idx, mepc>>
    \/ \E k \in 1 .. MAX_NPROCESS :
          /\ FirstSchedulable(st, k)
          /\ proc_curr_idx' = Slot(k)
          /\ status' = SwitchTo(st, Slot(k))
          /\ mepc' = IF st[Slot(k)] = "PROC_READY"
                     THEN [mepc EXCEPT ![Slot(k)] = "app"]
                     ELSE mepc
          /\ UNCHANGED fatal

-----------------------------------------------------------------------------
(***************************************************************************)
(* System calls, the half that runs in user space (syscall.c): fill the    *)
(* structure, raise MSIP and spin until the kernel resets the type.        *)
(***************************************************************************)
InUserSpace == fatal = "none" /\ ~msip

sys_invoke(call) ==
    /\ sc' = [sc EXCEPT ![proc_curr_idx] = call]
    /\ msip' = TRUE
    /\ UNCHANGED <<proc_curr_idx, pid, status, from_sender_pid,
                   to_receiver_pid, fatal>>

sys_yield ==
    /\ InUserSpace
    /\ mepc[proc_curr_idx] \in {"app", "exited"}
    /\ sys_invoke([sc[proc_curr_idx] EXCEPT !.type = "SYS_YIELD"])
    /\ UNCHANGED mepc

SendCall(receiver, msg) ==
    [sc[proc_curr_idx] EXCEPT !.type = "SYS_SEND",
                              !.receiver = receiver,
                              !.content = msg]

sys_send(receiver, msg) ==
    /\ InUserSpace
    /\ mepc[proc_curr_idx] = "app"
    /\ sys_invoke(SendCall(receiver, msg))
    /\ UNCHANGED mepc

\* sender = 0 waits for any sender.  The assertion rejects the largest pid.
sys_recv(sender) ==
    /\ InUserSpace
    /\ mepc[proc_curr_idx] = "app"
    /\ \/ /\ sender < MAX_NPROCESS
          /\ sys_invoke([sc[proc_curr_idx] EXCEPT !.type = "SYS_RECV",
                                                  !.sender = sender])
          /\ UNCHANGED mepc
       \/ /\ sender >= MAX_NPROCESS
          /\ fatal' = "sys_recv: sender out of range"
          /\ UNCHANGED <<proc_curr_idx, pid, status, from_sender_pid,
                         to_receiver_pid, mepc, sc, msip>>

\* exit(): an application returns from main() or resumes after a ctrl+c.
sys_exit ==
    /\ InUserSpace
    /\ curr_pid >= GPID_USER_START
    /\ mepc[proc_curr_idx] \in {"app", "exit"}
    /\ sys_invoke(SendCall(GPID_PROCESS, PROC_EXIT))
    /\ mepc' = [mepc EXCEPT ![proc_curr_idx] = "exited"]

-----------------------------------------------------------------------------
(***************************************************************************)
(* System calls, the half that runs in the kernel (syscall.c).             *)
(***************************************************************************)
\* The structures after proc_syscall has reset the type, and, when proc_send
\* runs, has stored the sender.
ScTaken == [sc EXCEPT ![proc_curr_idx].type = "SYS_UNUSED"]

\* The sender is left for the receiver to guess.
ScSigned_without_sender == ScTaken

ScSigned == [ScTaken EXCEPT ![proc_curr_idx].sender = curr_pid]

\* msgcpy copies the struct sys_msg of src into that of dst.
msgcpy(s, src, dst) ==
    [s EXCEPT ![dst].sender = s[src].sender,
              ![dst].receiver = s[src].receiver,
              ![dst].content = s[src].content]

WaitsFor(j, p) ==
    status[j] = "PROC_WAIT_TO_RECV" /\ from_sender_pid[j] \in {0, p}

proc_send ==
    LET receiver == sc[proc_curr_idx].receiver
        r == pid2idx(receiver)
    IN  \/ /\ pid[r] # receiver
           /\ sc' = ScSigned
           /\ fatal' = "proc_send: no such receiver"
           /\ UNCHANGED <<proc_curr_idx, status, to_receiver_pid, mepc>>
        \/ /\ pid[r] = receiver
           /\ ~WaitsFor(r, curr_pid)
           /\ sc' = ScSigned
           /\ to_receiver_pid' = [to_receiver_pid EXCEPT
                                    ![proc_curr_idx] = receiver]
           /\ proc_yield([status EXCEPT
                            ![proc_curr_idx] = "PROC_WAIT_TO_SEND"])
        \/ /\ pid[r] = receiver
           /\ WaitsFor(r, curr_pid)
           /\ sc' = msgcpy(ScSigned, proc_curr_idx, r)
           /\ UNCHANGED to_receiver_pid
           /\ proc_yield([status EXCEPT ![r] = "PROC_RUNNABLE"])

\* A receive from any sender does not look at the blocked senders.
Senders_without_any(exp_sender) ==
    {i \in Idx : /\ status[i] = "PROC_WAIT_TO_SEND"
                 /\ to_receiver_pid[i] = curr_pid
                 /\ exp_sender = idx2pid(i)}

\* A receive from one sender takes the message of another.
Senders_without_filter(exp_sender) ==
    {i \in Idx : /\ status[i] = "PROC_WAIT_TO_SEND"
                 /\ to_receiver_pid[i] = curr_pid}

\* The processes blocked on a send to the current process that the receive
\* accepts.
Senders(exp_sender) ==
    {i \in Idx : /\ status[i] = "PROC_WAIT_TO_SEND"
                 /\ to_receiver_pid[i] = curr_pid
                 /\ exp_sender \in {0, idx2pid(i)}}

\* The scan for any sender does not stop at the first match: the blocked
\* sender with the largest index is served.
proc_recv ==
    LET exp_sender == sc[proc_curr_idx].sender
        senders == Senders(exp_sender)
    IN  /\ from_sender_pid' = [from_sender_pid EXCEPT
                                 ![proc_curr_idx] = exp_sender]
        /\ \/ /\ senders = {}
              /\ sc' = ScTaken
              /\ proc_yield([status EXCEPT
                               ![proc_curr_idx] = "PROC_WAIT_TO_RECV"])
           \/ \E s \in senders :
                 /\ \A i \in senders : i <= s
                 /\ sc' = msgcpy(ScTaken, s, proc_curr_idx)
                 /\ proc_yield([status EXCEPT ![s] = "PROC_RUNNABLE"])

proc_syscall ==
    /\ msip' = FALSE
    /\ UNCHANGED pid
    /\ \/ /\ sc[proc_curr_idx].type = "SYS_RECV"
          /\ proc_recv
          /\ UNCHANGED to_receiver_pid
       \/ /\ sc[proc_curr_idx].type = "SYS_SEND"
          /\ proc_send
          /\ UNCHANGED from_sender_pid
       \/ /\ sc[proc_curr_idx].type = "SYS_YIELD"
          /\ sc' = ScTaken
          /\ proc_yield(status)
          /\ UNCHANGED <<from_sender_pid, to_receiver_pid>>

-----------------------------------------------------------------------------
(***************************************************************************)
(* Traps (kernel.c, intr_entry).                                           *)
(***************************************************************************)
\* The handler abandons the pending system call but leaves MSIP set.
intr_ctrl_c_with_reset ==
    /\ fatal = "none"
    /\ curr_pid >= GPID_USER_START
    /\ mepc' = [mepc EXCEPT ![proc_curr_idx] = "exit"]
    /\ sc' = ScTaken
    /\ UNCHANGED <<proc_curr_idx, pid, status, from_sender_pid,
                   to_receiver_pid, msip, fatal>>

\* tty_intr() reports a ctrl+c while a user process is trapped, by a timer
\* interrupt or by a system call.  The process will resume in exit().  The
\* handler returns at once: after a system call MSIP is still set, and the
\* system call is carried out by the trap that follows.
intr_ctrl_c ==
    /\ fatal = "none"
    /\ curr_pid >= GPID_USER_START
    /\ mepc' = [mepc EXCEPT ![proc_curr_idx] = "exit"]
    /\ UNCHANGED <<proc_curr_idx, pid, status, from_sender_pid,
                   to_receiver_pid, sc, msip, fatal>>

intr_soft == fatal = "none" /\ msip /\ proc_syscall

\* Processes below GPID_SHELL only get their timer reset.
intr_timer ==
    /\ fatal = "none"
    /\ ~msip
    /\ \/ /\ curr_pid < GPID_SHELL
          /\ UNCHANGED <<proc_curr_idx, status, mepc, fatal>>
       \/ /\ curr_pid >= GPID_SHELL
          /\ proc_yield(status)
    /\ UNCHANGED <<pid, from_sender_pid, to_receiver_pid, sc, msip>>

-----------------------------------------------------------------------------
(***************************************************************************)
(* Process management (process.c), called by sys_proc in its own context.  *)
(***************************************************************************)
InSysProc == InUserSpace /\ proc_curr_idx = pid2idx(GPID_PROCESS)

Unused == {i \in Idx : status[i] = "PROC_UNUSED"}

\* The slot keeps the pid of a slot never allocated.
proc_alloc_without_pid ==
    /\ InSysProc
    /\ \E i \in Unused :
          /\ \A j \in Unused : i <= j
          /\ status' = [status EXCEPT ![i] = "PROC_LOADING"]
    /\ UNCHANGED <<proc_curr_idx, pid, from_sender_pid, to_receiver_pid, mepc,
                   sc, msip, fatal>>

proc_alloc ==
    /\ InSysProc
    /\ \/ \E i \in Unused :
             /\ \A j \in Unused : i <= j
             /\ pid' = [pid EXCEPT ![i] = idx2pid(i)]
             /\ status' = [status EXCEPT ![i] = "PROC_LOADING"]
             /\ UNCHANGED fatal
       \/ /\ Unused = {}
          /\ fatal' = "proc_alloc: reach the limit"
          /\ UNCHANGED <<pid, status>>
    /\ UNCHANGED <<proc_curr_idx, from_sender_pid, to_receiver_pid, mepc, sc,
                   msip>>

\* The new process gets new memory.  mmu_alloc clears its system call page.
elf_load(p) ==
    /\ InSysProc
    /\ status[pid2idx(p)] = "PROC_LOADING"
    /\ sc' = [sc EXCEPT ![pid2idx(p)] = FreshPage]
    /\ UNCHANGED <<proc_curr_idx, pid, status, from_sender_pid,
                   to_receiver_pid, mepc, msip, fatal>>

\* sys_proc calls it once the program is loaded.
proc_set_ready(p) ==
    /\ InSysProc
    /\ status[pid2idx(p)] = "PROC_LOADING"
    /\ sc[pid2idx(p)] = FreshPage
    /\ status' = [status EXCEPT ![pid2idx(p)] = "PROC_READY"]
    /\ UNCHANGED <<proc_curr_idx, pid, from_sender_pid, to_receiver_pid, mepc,
                   sc, msip, fatal>>

\* proc_free(pid) of a user application.
proc_free(p) ==
    /\ InSysProc
    /\ pid[pid2idx(p)] = p
    /\ status' = [status EXCEPT ![pid2idx(p)] = "PROC_UNUSED"]
    /\ UNCHANGED <<proc_curr_idx, pid, from_sender_pid, to_receiver_pid, mepc,
                   sc, msip, fatal>>

\* proc_free(-1) that spares only the pids below the shell.
proc_free_all_with_shell ==
    /\ InSysProc
    /\ status' = [i \in Idx |-> IF pid[i] >= GPID_SHELL
                                THEN "PROC_UNUSED"
                                ELSE status[i]]
    /\ UNCHANGED <<proc_curr_idx, pid, from_sender_pid, to_receiver_pid, mepc,
                   sc, msip, fatal>>

\* proc_free(-1).
proc_free_all ==
    /\ InSysProc
    /\ status' = [i \in Idx |-> IF pid[i] >= GPID_USER_START
                                THEN "PROC_UNUSED"
                                ELSE status[i]]
    /\ UNCHANGED <<proc_curr_idx, pid, from_sender_pid, to_receiver_pid, mepc,
                   sc, msip, fatal>>

-----------------------------------------------------------------------------
SyscallStep ==
    \/ sys_yield
    \/ \E q \in Pid, m \in Contents : sys_send(q, m)
    \/ \E s \in 0 .. MAX_NPROCESS : sys_recv(s)
    \/ sys_exit

ManageStep ==
    \/ proc_alloc
    \/ \E p \in Pid : elf_load(p)
    \/ \E p \in Pid : proc_set_ready(p)
    \/ \E p \in GPID_USER_START .. MAX_NPROCESS : proc_free(p)
    \/ proc_free_all

Trap == intr_ctrl_c \/ intr_soft \/ intr_timer

Next == SyscallStep \/ ManageStep \/ Trap

Spec == Init /\ [][Next]_vars

-----------------------------------------------------------------------------
(***************************************************************************)
(* Properties.                                                             *)
(***************************************************************************)
\* Every variable of the kernel has the type of its declaration.
TypeOK ==
    /\ proc_curr_idx \in Idx
    /\ pid \in [Idx -> 0 .. MAX_NPROCESS]
    /\ status \in [Idx -> Status]
    /\ from_sender_pid \in [Idx -> 0 .. MAX_NPROCESS]
    /\ to_receiver_pid \in [Idx -> 0 .. MAX_NPROCESS]
    /\ mepc \in [Idx -> CodePoint]
    /\ sc \in [Idx -> Syscall]
    /\ msip \in BOOLEAN
    /\ fatal \in Fatal

\* The process that holds the CPU is the one process marked PROC_RUNNING, so
\* curr_status, the preemption test of proc_yield and the scan all speak of
\* it: no handler leaves the CPU with a process that was blocked, freed or
\* never started.
OnlyCurrentRuns ==
    fatal = "none" => \A i \in Idx : status[i] = "PROC_RUNNING" <=> i = proc_curr_idx

\* A slot in use carries the pid of its index, which proc_set_status,
\* proc_send and proc_free(-1) rely on; slots below GPID_USER_START are never
\* taken by a user application.
SlotPid ==
    \A i \in Idx : /\ pid[i] \in {0, idx2pid(i)}
                   /\ status[i] # "PROC_UNUSED" => pid[i] = idx2pid(i)

\* When the software interrupt is taken the structure of the interrupted
\* process holds a system call the kernel can serve, even when a ctrl+c has
\* redirected the process in between: proc_syscall sees no unknown type,
\* proc_send indexes proc_set within bounds, and the assertion of proc_recv
\* on the expected sender holds.
WellFormed(call) ==
    /\ call.type # "SYS_UNUSED"
    /\ call.type = "SYS_SEND" => call.receiver \in Pid /\ call.content \in Contents
    /\ call.type = "SYS_RECV" => call.sender < MAX_NPROCESS

SyscallPending == msip => WellFormed(sc[proc_curr_idx])

\* A process blocked on a send still holds the message it sent, signed with
\* its own pid, addressed to the receiver the kernel recorded: that is what
\* proc_recv will copy, however much later it runs.
BlockedSenderKeepsMessage ==
    \A i \in Idx :
       status[i] = "PROC_WAIT_TO_SEND" =>
          /\ sc[i].sender = idx2pid(i)
          /\ sc[i].receiver = to_receiver_pid[i]
          /\ sc[i].content \in Contents

\* No rendezvous is missed: a process is never left blocked on a send to a
\* process that is blocked on a receive that would accept it.
NoMissedRendezvous ==
    \A i, j \in Idx :
       ~ /\ status[i] = "PROC_WAIT_TO_SEND"
         /\ to_receiver_pid[i] = idx2pid(j)
         /\ WaitsFor(j, idx2pid(i))

\* Number of iterations after which the scan of proc_yield reaches slot i
\* from slot c.
Dist(c, i) == IF i > c THEN i - c ELSE i - c + MAX_NPROCESS

\* A step that ends in proc_yield: a system call, or a switch.
Yields == (msip /\ ~msip') \/ proc_curr_idx' # proc_curr_idx

\* Bounded bypass: whenever the CPU is given away, each process that could
\* run either gets it or moves closer to it in the scan order, whatever
\* sends, receives, preemptions and exits happen.  No process that stays
\* runnable is passed over more than MAX_NPROCESS times.
NoOvertaking ==
    [][ Yields /\ fatal' = "none" =>
           \A i \in Schedulable(status) :
              \/ proc_curr_idx' = i
              \/ Dist(proc_curr_idx', i) < Dist(proc_curr_idx, i)
              \/ i = proc_curr_idx /\ status'[i] \in {"PROC_WAIT_TO_SEND", "PROC_WAIT_TO_RECV"} ]_vars
=============================================================================
