# egos in TLA+

A verification project for egos-2k+ (the CS6640 teaching microkernel with a
network stack): TLA+ models of the kernel, the system processes, the drivers and
the web server with its TCP/IP stack, the TLC runs that check them, and TLAPS
proofs about all of them but the file system.

## 1. The system

egos runs on one RISC-V hart. `earth/` is the hardware layer, `grass/` the
kernel, `apps/system/` five system processes, `apps/user/` the applications.

| component | state | operations | talks to |
|---|---|---|---|
| grass kernel (`grass/*.c`) | `proc_set`, `proc_curr_idx`, the syscall page of each process, MSIP | `intr_entry` (timer, soft, ctrl+c), `proc_syscall`, `proc_send`, `proc_recv`, `proc_yield`, `proc_alloc/free/set_ready` | called by traps and by sys_proc |
| sys_proc | `app_pid`, `shell_waiting` | boot, PROC_SPAWN, PROC_SLEEP, PROC_EXIT, PROC_KILLALL | calls sys_dir, sys_file; answers the shell |
| sys_file | the file systems | FILE_READ, FILE_WRITE, FILE_GETSIZE | answers anyone |
| sys_dir | none between requests | DIR_LOOKUP | calls sys_file; answers anyone |
| sys_net | the macb driver | NET_SEND, NET_RECV | answers applications |
| sys_shell | the line | read a line, run its commands | calls sys_proc |
| servers library | none | `exit`, `dir_query`, `file_query`, `net_send`, `net_recv` | linked into every process |
| memory (`cpu_mmu.c`, `page_alloc.c`, `elf.c`) | page bitmap, `app_pages`, `curr_vm_pid` | alloc, map, switch, free, load | called by the kernel and by sys_proc |
| terminal (`dev_tty.c`) | `c`, `is_reading`, the line | `tty_read`, `tty_intr` | called by the shell, and by the kernel at the traps of applications |
| Ethernet (`macb.c`) | receive and transmit ring | `macb_send`, `macb_recv` | called by sys_net; shares the rings with the controller |
| timer, disk | device registers | | called by the kernel and by sys_file |
| treedisk, fs | blocks on disk | read, write, free list | in sys_file |
| uIP (`uip.c`, `uip_arp.c`) | connections, ARP table | `uip_input`, `uip_arp_arpin`, `uip_arp_out` | in the http application |
| web server (`http.c`, `httpd.c`) | position in the page, per connection | main loop, `httpd_appcall` | calls sys_net and uIP, called by uIP |

What is hard in it: all cooperation goes through blocking, unbuffered messages
between processes that a timer preempts (not below the shell's pid), that a
ctrl+c can redirect at any trap, and that sys_proc can free; nothing has a
timeout. The terminal shares one static character between two processes, the
Ethernet rings are shared with a device, and the TCP stack runs without the
timers it was written for. `PROJECT.json` lists each hazard at its line.

### What makes each part correct

- kernel: a message reaches the process it was sent to, once and unaltered; no
  matching pair of calls stays blocked; the CPU is with the one running process
  and every runnable process gets it; ctrl+c leaves no call half served.
- memory: a page has one owner, none is lost, and a process sees its own memory
  only, although all processes execute at the same addresses.
- system processes: the servers are up before they are called; no cycle of
  calls stops the system; a reply has somebody waiting for it; every command
  comes back to the prompt and every exit frees its process.
- treedisk: what was written reads back; each block is free or in one file.
- Ethernet: whole frames are received, once, in order, none left behind; frames
  are sent once, in order, with the contents they had.
- terminal and shell: what runs is what the user sees on the line, each command
  of a batch once and in order; a line given up never runs.
- web server: a client receives the page, byte by byte, then the end of it;
  nothing is acknowledged that was not sent; without losses everybody is served.
- timer: a read in halves is a time that was; a time slice is not cut short.

## 2. Modules

| module | models | kind |
|---|---|---|
| `Grass` | `grass/kernel.c`, `process.c`, `scheduler.c`, `syscall.c` | kernel under arbitrary programs |
| `Rendezvous`, `GrassIPC` | the promise of `proc_send`/`proc_recv` | abstract specification, refinement |
| `Egos` | `apps/system/*.c`, `library/servers` on top of `Grass` | composition |
| `PrivateMemory`, `Memory`, `MemoryIsolation` | `earth/cpu_mmu.c`, `page_alloc.c`, `library/elf/elf.c`, `manage_userstack` | abstract specification, component, refinement |
| `TreeDisk` | `library/file/file.c` | component |
| `Macb` | `earth/macb.c`, the buffer of `sys_net.c` | component against a device |
| `Timer` | `earth/cpu_timer.c` | component against a clock |
| `Terminal` | `earth/dev_tty.c`, `bus_uart.c`, the parsers of `sys_shell.c` | two processes and a user |
| `UipArith`, `Uip`, `Arp` | `library/uip/uip.c`, `uip_arp.c` | operators: what one packet does |
| `Httpd` | `library/uip/httpd.c` | operators: what one call does |
| `HttpServer` | `apps/user/http.c` with the four above, clients and a network | composition |
| `GrassProofs`, `EgosProofs`, `MemoryProofs`, `TimerProofs`, `MacbProofs`, `TerminalProofs`, `UipProofs`, `HttpProofs` | | TLAPS proofs about `Grass` and `GrassIPC`, `Egos`, `Memory` and `MemoryIsolation`, `Timer`, `Macb`, `Terminal`, `UipArith`, `HttpServer` |
| `MCKernel`, `MCEgos`, `MCMemory`, `MCTreeDisk`, `MCHttpServer` | | views, symmetry and scenarios for TLC |

Definitions keep the names of the C functions. Operators named `X_without_Y`
or `X_with_Y` are wrong versions of `X`: each is a bug that the property named
beside it in `PROJECT.json` has to notice.

**Grass.** The variables are the fields of `struct process`, indexed by slot,
the system call structure of each process (`sc`), the pending software
interrupt (`msip`) and `fatal`, the FATAL or ASSERT that stopped the machine.
A system call is two steps, as in the code: the user half (`sys_send`,
`sys_recv`, `sys_yield`, `sys_exit`) fills the structure and raises `msip`; the
trap (`intr_soft`, `intr_timer`, `intr_ctrl_c`) runs the whole kernel handler up
to and including `proc_yield`. The kernel is not re-entrant, so a trap is
atomic. Programs are unconstrained: the running process may make any call.
A software interrupt that is pending is taken before a timer interrupt.

**Egos** conjoins each `Grass` step with a move of the program that makes it
(`pc`, and the static and local variables of the servers). Data is reduced to
what the protocols tell apart: kinds of request, success or failure. What the
user and the applications do is a scenario, chosen in the initial state from
`Scenarios` and kept: the commands typed, the servers called, whether
applications sleep, and at which traps a ctrl+c may come.

**Memory.** A page is one value. `soft_tlb_switch` copies whole pages out and in,
as the code does; `load_app` allocates, fills and maps page by page, with other
processes running in between; `msgcpy` is its three switches. Which process
runs next is left open, so the result holds for any scheduler.

**TreeDisk.** `treedisk_write` is one step per turn of its loops, over a disk
of blocks that are data, indirect or free list blocks. The inode is changed in
the write's snapshot and stored when the tree has grown. `files` is the history
that reads are compared with.

**Macb.** The controller writes one descriptor at a time and runs out of
buffers at any point; the driver scans one descriptor at a time and gives
descriptors back one at a time. Buffers are arrays of bytes, each tagged with
its frame and its place in it. On the other ring `macb_send` writes the control
word, then the address, and looks at the descriptor until it is back or the
time is up; a frame stands for the contents of sys_net's one buffer when the
controller reads it. The controller looks at the next descriptor as soon as it
is done with one.

**Timer.** One step per 32-bit access; the clock ticks between any two.

**Terminal.** `tty_read` takes a character from the UART in one step and looks
at it in another, and has a last one for the second look at `c`; `tty_intr` comes at the traps of an application, which the
shell waits for or has left in the background. The parsers of the shell are
operators; `strtok` belongs to the C library and is modelled by the pieces it
returns. The letters of a command are not modelled, so every command may turn
out to run in the foreground, in the background, or to fail. A batch that has
more commands than `cmds[]` is copied beyond it: there the model stops
(`pc = "stray"`), so the message and the `return NULL` behind that copy are not
reached. `due` is a history variable: the characters typed for the line being
read that are not yet part of it.

**Uip, UipArith, Arp, Httpd** are operators that take the tables and a packet
and return the tables and the answer, as one call of `uip_input` does. They
cover the configuration of the web server: IPv4, ICMP echo, ARP, the passive
side of TCP. Since nobody calls `uip_periodic`, the retransmission timers and
`iss` never move. A sequence number is stepped through its bytes as in the code
(`uip_add32`, and the ripple in a reset); `BYTE` makes the bytes small enough to
wrap around. IP and TCP checks are modelled by what they reject (`IpAccepted`,
`uip_tcpchksum`): damage to a header, damage to the body. The body of a ping is
not checked and goes back as it came.

**HttpServer.** A turn of the main loop is one step. The clients are TCP
implementations that keep to the protocol: they cut the request into any
pieces, repeat what is not acknowledged, close after the server or before.
Each has a link that keeps the order of its frames. A fault (a frame lost or
damaged, a segment repeated too early, an early close, an abort) may happen to
the clients in `Faulty`, `MaxFaults` times.

## 3. Runs

| run | bounds | checks |
|---|---|---|
| `kernel` | sys_proc, shell, 1 application, 2 messages | invariants of the kernel, bounded bypass, refinement of `Rendezvous` |
| `calls` | 5 system processes, 2 applications, two scenarios: all servers and ctrl+c between calls; no server, killall, missing programs and ctrl+c at any time | boot order, no deadlock, replies wanted, notices right |
| `live` | 1 application, ctrl+c between calls, missing programs | every command ends, servers return, exits are final |
| `memory` | sys_proc and 2 applications of 3 pages, 2 values | page ownership, isolation (refinement) |
| `treedisk` | fan-out 2, 11 blocks, 2 files, offsets up to 4 | read-back, block ownership |
| `macb` | 4 receive descriptors of 2 bytes, 2 transmit descriptors, 5 frames of up to 3 buffers | frames intact, ring agreement, delivery, sending in order |
| `timer` | halves of 2 bits, quantum 3, 2 carries | torn reads, early interrupts |
| `terminal` | 7 characters with 1 edit, buffer of 8, table of 2 commands, 2 arguments of 2 letters | line editing, no character lost to a trap, lines given up, batches |
| `http` | 2 clients, 1 connection, bytes of 1 bit, page of 3 bytes, segments of 1 or 2, 1 fault | stream, end of stream, acknowledgements, resets, pings, everybody served |
| `stale_wait`, `orphan`, `http_loss` | those of `calls`, `live`, `http`; `http_loss` with one ARP entry | expected violations, section 5 |

Why the bounds are enough. Every property of the kernel speaks of at most two
processes and the one that runs: three slots give each of them a slot, and the
proofs remove the bound. In `Egos` the five system processes
are all there; two applications are the fewest that can exit, sleep and be
killed in either order. In `Memory` two applications and sys_proc give `msgcpy`
three different processes. Nine pages are exactly what three processes take,
so a page that leaks is missed. With a fan-out of two a file of five blocks
has three levels, and its offsets cross every change of level; the disk of
eleven blocks fills up. In `Macb` five frames on four descriptors pass the end
of the ring, overrun it and leave fragments; a frame never fills the ring, as
in the code (512 bytes of 4096). In `Terminal` seven characters make a batch
of two commands, one with a command too many, arguments at their limit, and a full
buffer. In `HttpServer` one connection for two clients makes the table full and reuses an
entry in TIME_WAIT; the clients start two numbers before the sequence numbers
wrap around; a page of three bytes takes two or three segments, and a request of
two bytes one or two. `NREADS`, `MaxTyped`, `MaxEdits`, `MaxFaults`, `MaxFrames` and `MaxTime` are the named bounds on loops, traffic and the clock.

The `View`s of the MC modules leave out bytes that are written before they are
read again: fields of a call that is over, the private pages of the
process whose memory is at the exec addresses. Next does not depend on them, so
states with the same view have the same futures; each invariant reads
only what its view keeps. The temporal properties of `live` are
checked without a view.

Runs say `CHECK_DEADLOCK FALSE` where a FATAL, a full disk, the bound of the
clock, a user who stops typing or clients that are done may stop the system.
That the system processes do not stop one another is the invariant
`SystemStaysUp`.

Fairness. `Egos`: interrupts are delivered (weak); sys_proc and the servers
are not preempted by the timer, so they reach their next call (weak); the
shell and applications are preempted, but a time slice is longer than the few
instructions between two calls (strong); applications terminate. Nothing is
assumed about the user. `Macb`: the driver's code runs on and its callers poll it (weak);
nothing is assumed of the controller. `HttpServer`: the main loop takes the
next frame, clients take what arrives, go on with their request, close after the server and repeat
what is not acknowledged (weak); nobody has to ping, abort or close early, and
faults are never forced.

## 4. Proofs

`GrassProofs` proves for every `MAX_NPROCESS`, every position of the shell and
of the first user pid, and every set of message contents (`SizeAssumption`,
`ContentAssumption`):

- `TypeCorrect`, `OneRunning`, `SlotsCarryPids`, `SyscallServable`,
  `BlockedSenderSafe`, `RendezvousNeverMissed`: the invariants of run `kernel`;
- `BoundedBypass`: the action property `NoOvertaking`;
- `KernelImplementsRendezvous`: the refinement `ImplementsRendezvous`.

`NoMissedRendezvous` is not inductive alone. A send that blocks has just seen
its receiver not waiting for it, but that argument needs the message of each
blocked sender to be signed and addressed as the kernel recorded it
(`BlockedSenderKeepsMessage`), which needs the running process to be the only
one whose structure changes (`OnlyCurrentRuns`) and each slot to carry its pid
(`SlotPid`); and the handler runs only if the pending call is one it can serve,
also after a ctrl+c (`SyscallPending`). `Inv` is the conjunction. The proof has
one lemma for each group of actions; `YieldFacts` says what `proc_yield` does
to the table, `SlotRange` and `SlotOfDist` do the arithmetic of the scan, and
`InvYield` states what a handler that ends in `proc_yield` owes. `InvSend` and
`InvRecv` are the two halves of the rendezvous.

`BoundedBypass` rests on `YieldOrder`: the scan takes the first schedulable
slot, so any other one is further on and gets closer.

The refinement maps each process to its call in `Rendezvous` (`CallOf`). It
needs one fact more, `OnlyCallerAsks`: only the process that holds the CPU has
a call that the kernel has not seen, and only until the interrupt is taken;
otherwise a stale structure would be a call that nobody made. `View` reads the
call off the status of a process, so that a lemma about a handler only has to
say what it does to statuses; each handler is then a `Transfer`, a new call, an
end, or a stutter.

`EgosProofs` is about the composition, for every number of slots and every
scenario (`EgosAssumption`, whose pids are those of `servers.h`):

- `EgosUsesKernel`: a behaviour of egos is one of the kernel, so that all of the
  above holds of egos too (`EgosRendezvous` spells three of them out). It is not
  immediate: `Grass` lets sys_proc free applications only, and sys_proc obeys
  whatever PROC_EXIT it receives. That none comes from a system process, also
  not through a message that was offered long ago, is the work;
- `EgosCallsAccepted`: the assertions of `proc_send` on its receiver and of
  `sys_recv` on its sender never fail;
- `EgosServersFirst`: the invariant `ServersBootFirst` of run `calls`;
- `EgosWaitersServed` (`WaitersAreServed`): whoever waits for a reply of a server
  is being served or is answered;
- `EgosReplies` (`ReplyIsWanted`) in every scenario with `CleanKills`, and
  `EgosNotices` (`NoticeOnlyForForeground`) in every one with `CleanFailures`: a
  reply or a notice blocks its sender only until its receiver gets there;
- `EgosStaysUp` (`SystemStaysUp`) in every scenario with both: `proc_yield` always
  finds a process to run, and no assertion of the kernel fails but the one that
  counts the slots;
- `EgosSleep` (`SleepIsHandled`), in every scenario: sys_proc has looked at a
  `PROC_SLEEP` before the application that sent it comes back from `sys_yield`.

`CleanKills` says that nobody is killed between its request to a server and the
receive of the reply (no requests, or no ctrl+c there and no killall next to
background applications), `CleanFailures` that no foreground command fails while
applications run in the background. The scenarios of runs `calls` and `live` satisfy
both. Neither can be dropped: run `orphan` is a scenario without the first, run
`stale_wait` one without the second, and in each the conclusion is violated
(section 5).

The invariant `ProgInv` speaks of each program through its call in `Rendezvous`
and its `pc`: what is offered, and by whom (`Offers`, `ExitsAreOfApps`), that
whoever is answered exists or has existed (`Answers`, `DirClientKnown`,
`KnownInOrder`), that slots fill up in the order of the boot (`SlotsInOrder`,
`OneLoading`), and the phases of each server (`ServersReport`). `MainCall`,
`Posts` and `Move` are the few shapes that all steps of programs have.

The properties of the dialogues need more, `TalkInv` (`EgosDialogues`), which is
`ProgInv` with three parts. `ServerInv` is about the servers: every program is at
a label of its own (`Roles`) and makes only the calls of that place (`Script`);
who expects a reply of a server is served by it (`Served`), and the converse, that
a server works only for processes that expect its reply, holds for system
processes always and for applications under `CleanKills` (`Wanted`); during the
boot sys_proc waits for the server just started (`BootWait`), and frees only who
has called `exit` (`Exiting`). `ShellInv` is about sys_proc and the shell: sys_proc
handles a request exactly while the shell waits for its reply (`Dialogue`); a
notice finds a waiting shell (`NoticeWanted`), which needs that `shell_waiting` and
`app_pid` describe a foreground command that is there (`FgKnown`, `FgOnly`); and
without background commands there is one application (`OneApp`, `KillOutside`),
so that killall ends nobody in the middle of a request. `Lookup` follows the name
of a missing program to sys_dir and back. `EgosStaysUp` follows the waits: if
everyone were blocked, nobody could be waiting for a server, since the waits for
servers end at sys_file, which would be answering somebody who takes the answer
(`NobodyAsks`); so sys_proc would be receiving from anyone (`MainIdle`), nobody could
be sending to it, and the shell and the applications would wait for a message
that `Dialogue` and `FgKnown` say is being prepared (`NoDeadlock`). `EgosSleep` uses the order of the scan instead: sys_proc is in slot
0, so between the sleeper's `sys_yield` and its next turn the scan passes slot 0
(`SleepTurn`), and sys_proc does not yield before it has looked (`MainYields`). The
same order, as lemma `BypassStep` of `GrassProofs`, is behind `BoundedBypass`.

`MemoryProofs` proves, for every number of processes, code pages and physical
pages and every set of page contents (`MemoryAssumption`):

- `TypeCorrect`, `OwnPages` (`ExecIsCurrent`), `PageOwnership` (`PagesOwned`);
- `SlotsNeverRunOut`: the FATAL of `soft_tlb_map` is never reached;
- `Allocation`: neither is that of the page allocator (`AllocationSucceeds`), if
  `NPAGES >= LastPid * APPS_NPAGES`. The build that the Makefile selects has 1148 pages and 16 processes of 6;
  run `memory` has exactly as many as it takes;
- `MemoryIsPrivate`: the refinement `ImplementsPrivateMemory`.

`PagesOwned` alone is not inductive: a load that failed to map would leave a
page in use without an owner. The invariant adds that a process not there has
no mapping and one being loaded exactly the slots that `load_app` has filled
(`LoadedSoFar`), so that the next slot is always free; that slots in use map
exec addresses (`SlotsMapped`) and only rows of the table are switched to
(`LiveInRow`), which `SwitchFacts` needs to say what a switch leaves behind.
Ownership is carried slot by slot (`InUse`, `NotShared`). `Allocation` counts:
all slots in use map different pages, and the one being filled is not in use.
The refinement adds that slot i of a row maps exec address i, and a loaded
process has a page at each (`RowsInOrder`), that `load_app` fills the pages it
has mapped (`LoadInOrder`), and that a process that has run is not set ready
again (`RunsOnce`). `Image` is the memory of a process
wherever it is at the moment, at the exec addresses or in its private pages; a
switch changes no image, a copy or a store changes one.

`TimerProofs` proves, for every width of a half and every quantum
(`TimerAssumption`: the deadline is representable), `TimeCurrent`
(`TimeIsCurrent`) and `Quantum` (`QuantumGuaranteed`). `HalvesRead` says of which
moments the halves that `mtime_get` has read are; `Deadline` that the high half
is the largest there is while `mtimecmp_set` is between its writes.

`MacbProofs` proves, for every size of the rings and the buffers, for frames that
leave one buffer of the ring free (`MacbAssumption`; 512 bytes of 4096 in the
code), `Agreement` (`RingAgrees`), `Intact` (`FramesIntact`) and `Sent`
(`FramesSent`). The invariant of the receive ring measures everything by its
distance from the tail (`Off`): which descriptors are in use (`UsedInOrder`),
which bytes of which frame each buffer holds (`BuffersFilled`), how a buffer goes
on with the one before (`BuffersInOrder`, `IncomingInOrder`), how far the scan and
the giving back have come (`ScanInOrder`, `ReclaimInOrder`), and that complete
frames are in the ring until they are received (`CompleteInOrder`). The one for
sending counts the descriptors not yet sent (`PendingCounted`).

`TerminalProofs` proves, for every length of the buffers and the command table
(`TerminalAssumption`), `LineEdited` (`LineAsEdited`) and `GivenUp`
(`GivenUpNeverRuns`). That no trap takes a character from the line follows from
`is_reading`, which the invariant says is set from its first character to its
last. `EmptyBatch` is what the second needs: after a ctrl+c the
buffer is empty, so even if the trap of an application turns the ctrl+c into
something else, the batch has one command and that one is empty.

`UipProofs` proves, for every size of a byte (`ByteAssumption`):

- `Add32Correct`: the byte-wise `uip_add32` adds modulo the size of a sequence
  number. The two carries may meet in one byte; `CarryStep` is one of them,
  `ByteSum` and `ByteInc` say when a sum or an increment has wrapped around;
- `RippleCorrect`: the increment in a reset is the successor;
- `EchoReplyValid`: the adjusted checksum of an echo reply is correct for every
  request with a correct one, except when the words of the message other than
  type and checksum sum up to 0. `OnesSum` gives the one's complement sum of
  two words a value; the rest is a case split on the carries.

`HttpProofs` proves, for any number of clients and connections, any length of
the page, of requests, windows and segments, any initial sequence number, and
any number of faults (`HttpdAssumption`, `UipAssumption`, `ClientAssumption`: page
and request are shorter than the space of sequence numbers, a segment is shorter
than two bytes can count, clients send an MSS option):

- `Typed`, `Stream` (`StreamIntact`), `EndOfPage` (`EndMeansAll`), `Acknowledged`
  (`AcksOnlySent`), `Echoed` (`EchoValid`); the second and third leave out clients
  marked `resized` (section 5);
- `NeverReset` (`NoReset`), under the hypothesis `EnoughEntries` that the ARP table
  has room for all next hops of the clients.

None of them is inductive: what a client takes depends on what is on its way,
and that on what the server kept when it sent it. `HttpInv` has four parts.
`ConnsOK` says of each connection that `httpd`'s position and the sequence number
of uIP belong together unless the piece was `resized`, and that `rcv_nxt` is a
number the client has sent; `OnePeer` that a client has at most one connection.
`LinksOK` says of each client with its two links: every frame on its way is one
the client can have sent (`SentOK`) or a piece of the page at its place
(`ReplyOK`), nothing follows the end of the stream (`NothingFollows`), and no SYN
comes after a segment of an open connection, so that no late SYN opens a second
connection that would send the page once more (`ConnectsOnce`). `Grows` is what
all steps of a client have in common. `Advance` is what a segment may do to its
connection; `FoundOK` shows that all states of `found` do it, with one lemma per
state. The arithmetic modulo the size of sequence numbers is in `OffIsn` and its
neighbours, and rests on `Add32Correct` and `RippleCorrect`. The attempt to prove
an earlier version of `resized` failed: it missed a window that changes with a
plain acknowledgement, before the piece that is cut again.

`NeverReset` has an invariant of its own on top of `HttpInv`, `StepInv`. A reset
goes to a client whose segment finds no connection, and the server forgets one
only when it gives an entry in TIME_WAIT to another client. So `StepInv` says,
while there was no fault, that a client the server has accepted still has its
connection or is `Done`: both ends are closed, no segment of it is on its way, and
the acknowledgement of its FIN has come or is on its way, so that it will not
repeat it. To keep this, `InStep` says what is on the two links: nothing follows
a FIN and acknowledgements do not go back (`InTurn`), the server sends one SYN and
one FIN (`OnceOnly`), and connection and client differ by nothing but the segment
that is outstanding (`Sync`). CLOSING is left out of the promise rather than
excluded: only a number that has wrapped around leads there, and the connection
then stays. The rest of `StepInv` is about `arp_table`: it holds each next hop
once, and a client that has got an ARP reply is in it for good, because an entry
is free whenever a new host comes (`ArpUpdated`, by the pigeonhole theorem of
`FiniteSetTheorems`).

The attempt to prove `NoReset` without `EnoughEntries` failed for a good reason.
With one ARP entry for two clients and one connection, `uip_arp_out` puts an ARP
request in the place of the last acknowledgement; the client repeats its FIN, and
when the entry in TIME_WAIT has gone to the other client meanwhile, the FIN is
answered with a reset. TLC finds these 28 states. The run `http` satisfies the
hypothesis with two entries; in the code it is 8 entries (`UIP_ARPTAB_SIZE`), which
hosts beyond the router share as one next hop.

Only model-checked:

- `ReadsBack` and `EveryBlockOnce` of `TreeDisk`, whose trees are recursive, and
  `CommandsInOrder` of `Terminal`, which is about a fold over the line: both need
  induction over data, which the prover does not have;
- all liveness: fairness and ENABLED are outside the prover's reach.

## 5. Findings

- `stale_wait`: `shell_waiting` is set by requests that fail. After a
  background application and a foreground command that does not exist, the end
  of the former is sent to a shell that is not waiting, and sys_proc blocks. The
  shell's next call is a send to sys_proc, which blocks too.
- `orphan`: a ctrl+c between the request and the receive of a server call
  leaves the server blocked on its reply for good.
- `http_loss`: `uip_arp_out` replaces a packet by an ARP request when its
  destination is not in the ARP table, and relies on TCP to send the packet
  again; but only `uip_periodic` retransmits, and the main loop of the web
  server does not call it. With more hosts than entries a client waits for
  good in a network that loses nothing. Any other lost reply has the same end.

Four more things are certain, each from the lines themselves, and have no run:

- The assertions in `cpu_mmu.c` admit the pid `MAX_NPROCESS`, for which `app_pages`
  (and `proc_stack` in `kernel.c`) has no row. `Memory` stops at such an access
  (`stray`), and run `memory` keeps the pids below it.
- `parse_batch_cmds` compares the number of commands with the size of `cmds[]`
  after it has copied one (`sys_shell.c`, lines 37 and 38): when the shell says
  "too many cmds in a batched cmd", the eleventh command has overwritten the 256
  bytes behind the table. `Terminal` stops at that copy (`pc = "stray"`), and run
  `terminal` reaches it.
- A piece of the request that arrives while a piece of the page is outstanding
  makes `httpd` cut that piece again. If the window has changed since it was cut
  first, and one of the two is below `MAX_DRIVER_SEND_BYTES`, `httpd` records
  another `last_sent_len` than the length that uIP sends (`uip.c`,
  `uip_slen = uip_connr->len`). The acknowledgement then moves `pos` by what was
  not acknowledged, although `httpd.c` says "We only update s->pos when this data
  is ACKed": with windows of one and then two bytes, the second byte of the page
  is never sent. A client to which this happens is marked `resized`, and
  `StreamIntact`, `EndMeansAll` and `Served` leave it out.
- A command of spaces only is sent with `argc` 0 (`Terminal` shows it), and
  `argv[argc - 1]`, in the shell and at `sys_proc.c:53`, lies before the table;
  `Egos` takes its outcome for any kind of command.

Some states are left out of properties, on purpose. A trap in the moment between the end of a line and the
second look at `c` is marked `raced`, and `CommandsInOrder` leaves that line out;
`GivenUpNeverRuns` does not. `FramesSent` says what is sent until `macb_send` has
given up for the first time; afterwards only that no more frames are sent than
were given. `EveryBlockOnce` leaves out a disk that is full in the middle of a
growth: the program stops there, and the blocks of the new levels are lost.

The runs `calls` and `live` leave out the combinations that reach the
first two: foreground commands that fail next to background applications, and
a ctrl+c (or killall) between a request to a server and the receive of its
reply. That the properties hold with every other ctrl+c says that this window
is the only one that matters.

## 6. Not modelled

- The variants that the Makefile does not select: MLFQ, page tables
  (`cpu_vm.c`), the SD card, the read-write file system (`fs_rw.c`), user-level
  threads (`ult.c`), `queue.h`. They are stubs of a course.
- uIP beyond what the web server's configuration reaches: UDP, IPv6,
  reassembly, active open (`UIP_ACTIVE_OPEN` code without a caller), the timer and
  poll branch, urgent data. `uip_arp_ipin` and `uip_arp_timer` have no effect or no caller.
- Clients that send no MSS option, or the request together with the last
  segment of the handshake: the former leaves the segment size of the entry's
  last user, the latter is acknowledged and forgotten by `httpd`.
- A ping whose words sum up to 0, which no checksum of this kind tells from
  0xffff.
- Assembly, boot, PHY set-up: straight-line register accesses.
- What requests carry: file contents, directory text, formatting.
- Requests the servers answer with FATAL (`DIR_INSERT` and the like).
- A user stack larger than a page, which the kernel asserts against.
- Crashes while the disk image is written: the tool that writes treedisk runs
  to its end; at run time the image is read only.

## 7. Plan

1. Compositions: `Memory` under the scheduler of `Grass`; `HttpServer` over
   `Macb`, with the receive ring as its link.
2. Theorems: the free list of `TreeDisk` without its trees.
