------------------------------- MODULE Memory -------------------------------
(***************************************************************************)
(* The memory of processes: the page allocator (earth/page_alloc.c), the   *)
(* software TLB (earth/cpu_mmu.c), the loading of a program                *)
(* (library/elf/elf.c) and the kernel's handling of user stacks            *)
(* (grass/kernel.c).                                                       *)
(*                                                                         *)
(* All processes execute at the same addresses.  Each has private pages    *)
(* that soft_tlb_switch copies to and from those addresses, and a copy of  *)
(* its stack that every trap saves and restores.  A page is one value.     *)
(*                                                                         *)
(* Scheduling is left open: any process that is loaded may be switched to. *)
(* Definitions named X_without_Y or X_with_Y are wrong versions of X.      *)
(***************************************************************************)
EXTENDS Integers, Sequences

CONSTANTS
    MAX_NPROCESS,     \* rows of app_pages and of proc_stack (egos.h)
    GPID_USER_START,  \* smallest pid of a user application
    LastPid,          \* the largest pid that is handed out
    CODE_PAGES,       \* APPS_SIZE / PAGE_SIZE
    NPAGES,           \* number of physical pages (page_alloc.c)
    Val               \* what a page can hold, 0 when cleared

GPID_PROCESS == 1
APPS_NPAGES == CODE_PAGES + 2

ASSUME MemoryAssumption ==
    /\ MAX_NPROCESS \in Nat /\ GPID_USER_START \in Nat /\ LastPid \in Nat
    /\ GPID_PROCESS < GPID_USER_START
    /\ GPID_USER_START <= LastPid /\ LastPid <= MAX_NPROCESS
    /\ CODE_PAGES \in Nat \ {0}
    /\ NPAGES \in Nat /\ APPS_NPAGES <= NPAGES
    /\ 0 \in Val

Pid  == 1 .. LastPid
Row  == 0 .. MAX_NPROCESS - 1
Page == 0 .. NPAGES - 1
NULL == NPAGES                    \* not a page

\* The exec addresses of a process: its code and data, the page at APPS_ARG,
\* and the page at SYSCALL_ARG.  load_app maps the k-th address k-th.
Addr == 1 .. APPS_NPAGES
APPS_ARG == CODE_PAGES + 1
SYSCALL_ARG == CODE_PAGES + 2

VARIABLES
    bitmap,       \* the pages in use
    content,      \* what each physical page holds
    app_pages,    \* app_pages[pid][i]: private_addr and exec_addr of a slot
    curr_vm_pid,  \* whose pages are at the exec addresses
    exec,         \* what the exec addresses hold
    stack,        \* what the stack area below APPS_STACK_TOP holds
    proc_stack,   \* proc_stack[pid]: the stack saved by the last trap
    curr_pid,     \* the process that holds the CPU
    ready,        \* processes set ready that have not run yet
    started,      \* processes that have run
    loading,      \* the process being loaded, or 0
    paddrs,       \* load_app: the pages it has allocated
    stray,        \* a table has been indexed beyond its last row
    fatal         \* the FATAL or ASSERT that stopped the system, or "none"

vars == <<bitmap, content, app_pages, curr_vm_pid, exec, stack, proc_stack,
          curr_pid, ready, started, loading, paddrs, stray, fatal>>

EmptyRow == [i \in Addr |-> [private_addr |-> NULL, exec_addr |-> NULL]]

\* grass main() has loaded sys_proc and switched to it: its pages are the
\* first APPS_NPAGES, its program is v on every page.
Init ==
    /\ bitmap = 0 .. APPS_NPAGES - 1
    /\ \E v \in Val :
          /\ content = [q \in Page |-> IF q < CODE_PAGES THEN v ELSE 0]
          /\ exec = [a \in Addr |-> IF a <= CODE_PAGES THEN v ELSE 0]
    /\ app_pages = [r \in Row |->
          IF r = GPID_PROCESS
          THEN [i \in Addr |-> [private_addr |-> i - 1, exec_addr |-> i]]
          ELSE EmptyRow]
    /\ curr_vm_pid = GPID_PROCESS
    /\ stack = 0 /\ proc_stack = [r \in Row |-> 0]
    /\ curr_pid = GPID_PROCESS
    /\ ready = {} /\ started = {GPID_PROCESS}
    /\ loading = 0 /\ paddrs = <<>>
    /\ stray = FALSE /\ fatal = "none"

Running == fatal = "none" /\ ~stray

-----------------------------------------------------------------------------
(***************************************************************************)
(* The software TLB.  m holds the memory that a switch touches:            *)
(* m.vm, m.exec, m.content.                                                *)
(***************************************************************************)
Memory == [vm |-> curr_vm_pid, exec |-> exec, content |-> content]

Mapped(p) == {i \in Addr : app_pages[p][i].private_addr # NULL}

\* memcopy_helper(p, 0): from the exec addresses to the private pages.
CopyOut(m, p) ==
    [m EXCEPT !.content = [q \in Page |->
        IF \E i \in Mapped(p) : app_pages[p][i].private_addr = q
        THEN m.exec[app_pages[p][CHOOSE i \in Mapped(p) :
                        app_pages[p][i].private_addr = q].exec_addr]
        ELSE m.content[q]]]

\* memcopy_helper(p, 1): from the private pages to the exec addresses.
CopyIn(m, p) ==
    [m EXCEPT !.exec = [a \in Addr |->
        IF \E i \in Mapped(p) : app_pages[p][i].exec_addr = a
        THEN m.content[app_pages[p][CHOOSE i \in Mapped(p) :
                        app_pages[p][i].exec_addr = a].private_addr]
        ELSE m.exec[a]]]

\* The static variable keeps the pid it had.
soft_tlb_switch_without_pid(m, p) ==
    IF p = m.vm THEN m ELSE CopyIn(CopyOut(m, m.vm), p)

soft_tlb_switch(m, p) ==
    IF p = m.vm THEN m
    ELSE [CopyIn(CopyOut(m, m.vm), p) EXCEPT !.vm = p]

SetMemory(m) ==
    /\ curr_vm_pid' = m.vm
    /\ exec' = m.exec
    /\ content' = m.content

-----------------------------------------------------------------------------
(***************************************************************************)
(* Execution: the running process writes its memory; traps.                *)
(***************************************************************************)
LoadVars == <<loading, paddrs>>

store(a, v) ==
    /\ Running
    /\ exec' = [exec EXCEPT ![a] = v]
    /\ UNCHANGED <<bitmap, content, app_pages, curr_vm_pid, stack, proc_stack,
                   curr_pid, ready, started, LoadVars, stray, fatal>>

push(v) ==
    /\ Running
    /\ stack' = v
    /\ UNCHANGED <<bitmap, content, app_pages, curr_vm_pid, exec, proc_stack,
                   curr_pid, ready, started, LoadVars, stray, fatal>>

\* ctx_entry around a trap that ends in process p: the stack of the process
\* that trapped is saved, and that of p restored, unless p runs for the
\* first time, when the live part of its stack is empty.
manage_userstack(p) ==
    LET saved == [proc_stack EXCEPT ![curr_pid] = stack]
    IN  /\ proc_stack' = saved
        /\ stack' = IF p \in ready THEN 0 ELSE saved[p]

Dispatch(p) ==
    /\ p \in ready \cup started
    /\ manage_userstack(p)
    /\ curr_pid' = p
    /\ ready' = ready \ {p}
    /\ started' = started \cup {p}
    /\ UNCHANGED <<bitmap, app_pages, LoadVars, stray, fatal>>

\* A trap that copies no message.
proc_yield(p) ==
    /\ Running
    /\ Dispatch(p)
    /\ SetMemory(soft_tlb_switch(Memory, p))

\* msgcpy switches to the sender, reads the message, switches to the receiver
\* and writes it there; proc_yield then switches to the next process.
msgcpy(src, dst, p) ==
    LET atSrc == soft_tlb_switch(Memory, src)
        atDst == soft_tlb_switch(atSrc, dst)
    IN  /\ Running
        /\ curr_pid \in {src, dst} /\ src # dst
        /\ {src, dst} \subseteq started
        /\ Dispatch(p)
        /\ SetMemory(soft_tlb_switch(
              [atDst EXCEPT !.exec[SYSCALL_ARG] = atSrc.exec[SYSCALL_ARG]], p))

-----------------------------------------------------------------------------
(***************************************************************************)
(* Pages and programs, handled by sys_proc.                                *)
(***************************************************************************)
InSysProc == Running /\ curr_pid = GPID_PROCESS

ProcVars == <<curr_vm_pid, exec, stack, proc_stack, curr_pid, started>>

Free == Page \ bitmap

FirstOf(S, x) == x \in S /\ \A y \in S : x <= y

\* The page keeps what the process that had it before left there.
pmalloc_without_clear(q, v) ==
    /\ bitmap' = bitmap \cup {q}
    /\ content' = IF v = 0 THEN content ELSE [content EXCEPT ![q] = v]

\* pmalloc(1) takes page q and clears it; the caller then writes v there.
pmalloc(q, v) ==
    /\ bitmap' = bitmap \cup {q}
    /\ content' = [content EXCEPT ![q] = v]

\* The two addresses change places.
soft_tlb_map_with_swap(p, a, q) ==
    \E i \in Addr \ Mapped(p) :
       /\ FirstOf(Addr \ Mapped(p), i)
       /\ app_pages' = [app_pages EXCEPT
             ![p] = [@ EXCEPT ![i] = [private_addr |-> a, exec_addr |-> q]]]
       /\ UNCHANGED fatal

\* soft_tlb_map(p, a, q): the first free slot of p maps address a to page q.
soft_tlb_map(p, a, q) ==
    LET slots == Addr \ Mapped(p)
    IN  \/ /\ slots = {}
           /\ fatal' = "soft_tlb_map: mapping more pages than expected"
           /\ UNCHANGED app_pages
        \/ \E i \in slots :
              /\ FirstOf(slots, i)
              /\ app_pages' = [app_pages EXCEPT
                    ![p] = [@ EXCEPT ![i] = [private_addr |-> q,
                                             exec_addr |-> a]]]
              /\ UNCHANGED fatal

\* proc_alloc has found p unused, and elf_load(p) begins.
elf_load(p) ==
    /\ InSysProc /\ loading = 0
    /\ p \in Pid \ (ready \cup started)
    /\ loading' = p /\ paddrs' = <<>>
    /\ UNCHANGED <<bitmap, content, app_pages, ready, stray, fatal, ProcVars>>

\* load_app, steps 1 and 3: allocate a page that will hold v and map it to
\* address a.
MapPage(a, v) ==
    /\ \/ /\ Free = {}
          /\ fatal' = "pmalloc: no more available page"
          /\ UNCHANGED <<bitmap, content, app_pages, paddrs, stray>>
       \/ /\ Free # {} /\ loading \notin Row
          /\ stray' = TRUE
          /\ UNCHANGED <<bitmap, content, app_pages, paddrs, fatal>>
       \/ /\ loading \in Row
          /\ \E q \in Free :
                /\ FirstOf(Free, q)
                /\ pmalloc(q, v)
                /\ soft_tlb_map(loading, a, q)
                /\ paddrs' = Append(paddrs, q)
          /\ UNCHANGED stray
    /\ UNCHANGED <<ready, loading, ProcVars>>

load_code ==
    /\ InSysProc /\ loading # 0 /\ Len(paddrs) < CODE_PAGES
    /\ MapPage(Len(paddrs) + 1, 0)

\* Step 2: the reader fills the k-th page with a part v of the program.  When
\* it calls sys_file, other processes run before and after this step.
load_read(k, v) ==
    /\ InSysProc /\ loading # 0 /\ Len(paddrs) = CODE_PAGES
    /\ content' = [content EXCEPT ![paddrs[k]] = v]
    /\ UNCHANGED <<bitmap, app_pages, ready, loading, paddrs, stray, fatal,
                   ProcVars>>

\* The page of arguments v, then the page of system call arguments.
load_args(v) ==
    /\ InSysProc /\ loading # 0 /\ Len(paddrs) = CODE_PAGES
    /\ MapPage(APPS_ARG, v)

load_syscall_page ==
    /\ InSysProc /\ loading # 0 /\ Len(paddrs) = APPS_ARG
    /\ MapPage(SYSCALL_ARG, 0)

proc_set_ready ==
    /\ InSysProc /\ loading # 0 /\ Len(paddrs) = SYSCALL_ARG
    /\ ready' = ready \cup {loading}
    /\ loading' = 0
    /\ UNCHANGED <<bitmap, content, app_pages, paddrs, stray, fatal, ProcVars>>

\* The mappings are forgotten and the pages stay in use.
soft_tlb_free_without_pfree(P) ==
    /\ UNCHANGED bitmap
    /\ app_pages' = [r \in Row |-> IF r \in P THEN EmptyRow ELSE app_pages[r]]

\* The pages are free and the mappings stay.
soft_tlb_free_without_unmap(P) ==
    /\ bitmap' = {q \in bitmap : \A p \in P, i \in Addr :
                                    app_pages[p][i].private_addr # q}
    /\ UNCHANGED app_pages

soft_tlb_free(P) ==
    /\ bitmap' = {q \in bitmap : \A p \in P, i \in Addr :
                                    app_pages[p][i].private_addr # q}
    /\ app_pages' = [r \in Row |-> IF r \in P THEN EmptyRow ELSE app_pages[r]]

\* proc_free(p) of an application, or of every application.  A process that
\* is killed while it exits is freed twice.
proc_free(P) ==
    /\ InSysProc /\ loading = 0
    /\ soft_tlb_free(P)
    /\ ready' = ready \ P /\ started' = started \ P
    /\ UNCHANGED <<content, curr_vm_pid, exec, stack, proc_stack, curr_pid,
                   loading, paddrs, stray, fatal>>

-----------------------------------------------------------------------------
Users == GPID_USER_START .. LastPid

Next ==
    \/ \E a \in Addr, v \in Val : store(a, v)
    \/ \E v \in Val : push(v)
    \/ \E p \in Pid : proc_yield(p)
    \/ \E src, dst, p \in Pid : msgcpy(src, dst, p)
    \/ \E p \in Pid : elf_load(p)
    \/ load_code
    \/ \E k \in 1 .. CODE_PAGES, v \in Val : load_read(k, v)
    \/ \E v \in Val : load_args(v)
    \/ load_syscall_page
    \/ proc_set_ready
    \/ \E p \in Users \cap Row : proc_free({p})
    \/ proc_free((Users \cap Row) \cap (ready \cup started))

Spec == Init /\ [][Next]_vars

-----------------------------------------------------------------------------
(***************************************************************************)
(* Properties.                                                             *)
(***************************************************************************)
Mapping == [private_addr : Page \cup {NULL}, exec_addr : Addr \cup {NULL}]

\* Every variable has the type of its declaration.
TypeOK ==
    /\ bitmap \subseteq Page
    /\ content \in [Page -> Val]
    /\ app_pages \in [Row -> [Addr -> Mapping]]
    /\ curr_vm_pid \in Pid /\ curr_pid \in Pid
    /\ exec \in [Addr -> Val]
    /\ stack \in Val /\ proc_stack \in [Row -> Val]
    /\ ready \subseteq Pid /\ started \subseteq Pid
    /\ loading \in 0 .. LastPid
    /\ paddrs \in Seq(Page) /\ Len(paddrs) <= APPS_NPAGES
    /\ stray \in BOOLEAN
    /\ fatal \in {"none", "pmalloc: no more available page",
                  "soft_tlb_map: mapping more pages than expected"}

PagesOf(p) == {app_pages[p][i].private_addr : i \in Mapped(p)}

\* Every page in use belongs to exactly one process, and every page of a
\* process is in use: exits, kills and double frees neither leak a page nor
\* free one that a process still has (page_alloc.c, soft_tlb_free).
PagesOwned ==
    /\ bitmap = UNION {PagesOf(r) : r \in Row}
    /\ \A r, s \in Row : r # s => PagesOf(r) \cap PagesOf(s) = {}

\* In user mode the exec addresses hold the memory of the process that runs,
\* so its loads and stores, and the kernel's accesses to its system call
\* structure, reach its own pages (scheduler.c, mmu_switch(curr_pid)).
ExecIsCurrent == curr_vm_pid = curr_pid

\* Loading never runs out of pages or of slots, because exits give back what
\* loads took.
AllocationSucceeds == fatal = "none"
=============================================================================
