----------------------------- MODULE EgosProofs -----------------------------
(***************************************************************************)
(* The programs of egos over the kernel, for every number of slots and     *)
(* every scenario: they use the kernel as Grass allows, so that all that   *)
(* is proved of Grass holds of the system; they never make a call that the *)
(* kernel or the library rejects; the servers are up, at their pids,       *)
(* before anyone can call them; whoever waits for a reply is being served; *)
(* sys_sleep is handled before it returns; and, unless an application is   *)
(* killed in the middle of a request or a command fails in the foreground  *)
(* while another runs in the background, no reply or notice blocks its     *)
(* sender for good and the system never deadlocks.                         *)
(***************************************************************************)
EXTENDS Egos, GrassProofs

BootLabel == {"boot_alloc", "boot_ready", "boot_recv"}

\* Where sys_proc is between proc_alloc and proc_set_ready of an application.
LoadLabel == {"load_send", "load_recv", "spawn_ready"}

\* Where a program is in a receive from anyone, or looks at what it received.
GotLabel == {"main_got", "file_got", "net_got", "dir_got"}

Label ==
    {NoProcess, "boot_alloc", "boot_ready", "boot_recv", "main_recv", "main_got",
     "spawn_bin", "spawn_lookup", "spawn_ino", "spawn_found", "load_send",
     "load_recv", "spawn_ready", "spawn_reply", "exit_notice",
     "file_init", "file_recv", "file_got", "net_init", "net_recv", "net_got",
     "dir_init", "dir_recv", "dir_got", "dir_block", "dir_reply",
     "shell_next", "shell_fg", "shell_reading", "shell_recv", "shell_reply",
     "app", "slept", "wait_file", "wait_dir", "wait_net", "sleep_yield",
     "exit", "exited"}

InitLabel(s) == EntryOf(s)

RecvLabel(s) == IF s = GPID_FILE THEN "file_recv"
                ELSE IF s = GPID_DIR THEN "dir_recv" ELSE "net_recv"

UpLabel(s) == IF s = GPID_FILE THEN {"file_recv", "file_got"}
              ELSE IF s = GPID_DIR
              THEN {"dir_recv", "dir_got", "dir_block", "dir_reply"}
              ELSE {"net_recv", "net_got"}

Used(p) == StatusOf(p) # "PROC_UNUSED"

\* proc_send finds pid q in its slot.
Known(q) == q \in Pid /\ pid[pid2idx(q)] = q

\* Every program variable has its type.
ProgTypeOK ==
    /\ pc \in [Idx -> Label]
    /\ booting \in GPID_FILE .. GPID_SHELL
    /\ app_pid \in 0 .. MAX_NPROCESS
    /\ dir_client \in 0 .. MAX_NPROCESS
    /\ scenario \in Scenario

\* Slots are taken in order, and a slot once taken keeps its pid.
KnownInOrder == \A p, q \in Pid : q <= p /\ Known(p) => Known(q)

\* A message that is offered has a receiver that exists, is not offered by a
\* program that looks at what it received, and if it is an exit that
\* sys_proc will obey, comes from an application.
Offers ==
    \A p \in Pid : calls[p].mode = "send" =>
       /\ Known(calls[p].peer)
       /\ PcOf(p) \notin GotLabel
       /\ calls[p].peer = GPID_PROCESS /\ calls[p].content = PROC_EXIT =>
             p >= GPID_USER_START

\* The sender that a program is about to answer exists.
Answers ==
    \A p \in Pid : calls[p].mode = "run" /\ PcOf(p) \in GotLabel =>
       Known(calls[p].peer)

\* sys_proc frees applications only.
ExitsAreOfApps ==
    /\ PcOf(GPID_PROCESS) = "main_got"
    /\ calls[GPID_PROCESS].mode = "run"
    /\ calls[GPID_PROCESS].content = PROC_EXIT
    => calls[GPID_PROCESS].peer >= GPID_USER_START

\* The client of sys_dir exists.
DirClientKnown ==
    PcOf(GPID_DIR) \in {"dir_block", "dir_reply"} => Known(dir_client)

\* The slot being loaded is the one that sys_proc will set ready.
OneLoading ==
    /\ fatal = "none" /\ PcOf(GPID_PROCESS) \in LoadLabel =>
          app_pid \in GPID_USER_START .. MAX_NPROCESS
    /\ \A p \in Pid : StatusOf(p) = "PROC_LOADING" =>
          IF PcOf(GPID_PROCESS) = "boot_ready" THEN p = booting
          ELSE PcOf(GPID_PROCESS) \in LoadLabel /\ p = app_pid

\* The boot takes the slots one after the other.
SlotsInOrder ==
    LET l == PcOf(GPID_PROCESS)
    IN  /\ l = "boot_alloc" => \A p \in Pid : Used(p) <=> p < booting
        /\ l \in {"boot_ready", "boot_recv"} =>
              \A p \in Pid : Used(p) <=> p <= booting
        /\ l = "boot_recv" => booting # GPID_SHELL
        /\ l \notin BootLabel => \A p \in GPID_PROCESS .. GPID_SHELL : Used(p)

\* Server s has reported and is in its loop.
Up(s) ==
    /\ StatusOf(s) \notin {"PROC_UNUSED", "PROC_LOADING"}
    /\ PcOf(s) \in UpLabel(s)
    /\ calls[s] # IPC!Send(GPID_PROCESS, "initialized")

\* Server s is not there, before its report, in it, or up.
ServerPhase(s) ==
    \/ StatusOf(s) \in {"PROC_UNUSED", "PROC_LOADING"}
    \/ PcOf(s) = InitLabel(s) /\ calls[s].mode = "run"
    \/ PcOf(s) = RecvLabel(s) /\ calls[s] = IPC!Send(GPID_PROCESS, "initialized")
    \/ Up(s)

\* sys_proc goes on to the next server only when the last one is up.
ServersReport ==
    \A s \in Servers :
       LET l == PcOf(GPID_PROCESS)
       IN  /\ ServerPhase(s)
           /\ l = "boot_alloc" =>
                 /\ s < booting - 1 => Up(s)
                 /\ s = booting - 1 => Up(s) \/ calls[GPID_PROCESS] = IPC!Recv(s)
           /\ l \in {"boot_ready", "boot_recv"} /\ s < booting => Up(s)
           /\ l \notin BootLabel => Up(s)

\* No call of a program is one that the kernel or the library rejects: the
\* assertion of proc_send on the receiver and that of sys_recv on the sender
\* never fail.
CallsAreAccepted ==
    fatal \notin {"proc_send: no such receiver", "sys_recv: sender out of range"}

ProgInv ==
    /\ ProgTypeOK /\ KnownInOrder /\ Offers /\ Answers /\ ExitsAreOfApps
    /\ DirClientKnown /\ OneLoading /\ SlotsInOrder /\ ServersReport
    /\ CallsAreAccepted

-----------------------------------------------------------------------------
(***************************************************************************)
(* What a step of a program changes.                                       *)
(***************************************************************************)
LEMMA Sizes ==
    /\ MAX_NPROCESS \in Nat /\ MAX_NPROCESS >= 6 /\ Pid = 1 .. MAX_NPROCESS
    /\ GPID_PROCESS = 1 /\ GPID_FILE = 2 /\ GPID_DIR = 3 /\ GPID_NET = 4
    /\ GPID_SHELL = 5 /\ GPID_USER_START = 6
    /\ PROC_EXIT = "PROC_EXIT" /\ Contents = Message
BY SizeAssumption, EgosAssumption
   DEF Pid, GPID_PROCESS, GPID_FILE, GPID_DIR, GPID_NET

\* A process in user space computes, with the message it last exchanged.
LEMMA Caller ==
    ASSUME CallInv, InUserSpace
    PROVE  /\ curr_pid \in Pid /\ proc_curr_idx = pid2idx(curr_pid)
           /\ calls[curr_pid] = IPC!Run(Sender, Received)
           /\ Sender \in 0 .. MAX_NPROCESS
           /\ StatusOf(curr_pid) = "PROC_RUNNING" /\ Known(curr_pid)
<1>0. fatal = "none" /\ ~msip BY DEF InUserSpace
<1>1. PICK c \in Idx : c = proc_curr_idx BY DEF CallInv, Inv, TypeOK
<1>2. /\ status[c] = "PROC_RUNNING" /\ curr_pid = idx2pid(c) /\ curr_pid \in Pid
      /\ View(c) /\ sc[c].type = "SYS_UNUSED"
  BY <1>0, <1>1, Before
<1>3. CallOf(c) = IPC!Run(sc[c].sender, sc[c].content) BY <1>2 DEF View, Active
<1>4. pid2idx(curr_pid) = c BY <1>2, PidSlots
<1>5. sc[c].sender \in 0 .. MAX_NPROCESS BY DEF CallInv, Inv, TypeOK, Syscall
<1>6. pid[c] = curr_pid BY <1>1 DEF curr_pid
<1> QED BY <1>1, <1>2, <1>3, <1>4, <1>5, <1>6
        DEF calls, Sender, Received, StatusOf, Known

\* The label of the running process is the one that changes.
LEMMA GotoFacts ==
    ASSUME pc \in [Idx -> Label], NEW p \in Pid, proc_curr_idx = pid2idx(p),
           NEW l \in Label, Goto(l)
    PROVE  /\ pc' \in [Idx -> Label]
           /\ PcOf(p)' = l
           /\ \A q \in Pid : q # p => PcOf(q)' = PcOf(q)
<1>1. pid2idx(p) \in Idx BY PidSlots
<1>2. \A q \in Pid : pid2idx(q) \in Idx /\ (q # p => pid2idx(q) # pid2idx(p))
  BY PidSlots DEF Pid, pid2idx
<1> QED BY <1>1, <1>2 DEF Goto, PcOf

\* Process p, which computes, posts the call v (or none, when v is what it had)
\* and will continue at label l.
Posts(p, v, l) ==
    /\ InUserSpace /\ proc_curr_idx = pid2idx(p) /\ curr_pid = p
    /\ calls[p] = IPC!Run(Sender, Received)
    /\ calls' = [calls EXCEPT ![p] = v]
    /\ PcOf(p)' = l
    /\ \A q \in Pid : q # p => PcOf(q)' = PcOf(q)
    /\ pc' \in [Idx -> Label]
    /\ fatal' = "none"
    /\ UNCHANGED <<pid, status>>

\* The running process is p.
LEMMA Running ==
    ASSUME CallInv, InUserSpace, NEW p \in Pid, proc_curr_idx = pid2idx(p)
    PROVE  curr_pid = p
<1>1. curr_pid \in Pid /\ pid2idx(curr_pid) = pid2idx(p) BY Caller
<1> QED BY <1>1 DEF Pid, pid2idx

LEMMA SendPosts ==
    ASSUME CallInv, ProgInv, NEW p \in Pid, proc_curr_idx = pid2idx(p),
           NEW q \in Pid, NEW m \in Contents, sys_send(q, m),
           NEW l \in Label, Goto(l)
    PROVE  Posts(p, IPC!Send(q, m), l) /\ Next
<1>1. /\ InUserSpace /\ sys_invoke(SendCall(q, m))
      /\ UNCHANGED <<pid, status, fatal>> /\ fatal' = "none"
  BY DEF sys_send, sys_invoke, InUserSpace
<1>2. PICK c \in Idx : c = proc_curr_idx /\ idx2pid(c) = p BY PidSlots
<1>3. calls' = [calls EXCEPT ![p] = IPC!Send(q, m)]
  BY <1>1, <1>2, PostSendCalls
<1>4. curr_pid = p BY <1>1, Running
<1>5. calls[p] = IPC!Run(Sender, Received) BY <1>1, <1>4, Caller
<1>6. Next BY DEF Next, SyscallStep
<1> QED BY <1>1, <1>3, <1>4, <1>5, <1>6, GotoFacts DEF Posts, ProgInv, ProgTypeOK

LEMMA RecvPosts ==
    ASSUME CallInv, ProgInv, NEW p \in Pid, proc_curr_idx = pid2idx(p),
           NEW s \in 0 .. GPID_SHELL, sys_recv(s), NEW l \in Label, Goto(l)
    PROVE  Posts(p, IPC!Recv(s), l) /\ Next
<1>0. s \in 0 .. MAX_NPROCESS /\ s < MAX_NPROCESS /\ ~(s >= MAX_NPROCESS) BY Sizes
<1>1. PICK c \in Idx : c = proc_curr_idx /\ idx2pid(c) = p BY PidSlots
<1>2. /\ InUserSpace
      /\ sys_invoke([sc[c] EXCEPT !.type = "SYS_RECV", !.sender = s])
      /\ UNCHANGED <<pid, status, fatal>> /\ fatal' = "none"
  BY <1>0, <1>1 DEF sys_recv, sys_invoke, InUserSpace
<1>3. calls' = [calls EXCEPT ![p] = IPC!Recv(s)]
  BY <1>0, <1>1, <1>2, PostRecvCalls
<1>4. curr_pid = p BY <1>2, Running
<1>5. calls[p] = IPC!Run(Sender, Received) BY <1>2, <1>4, Caller
<1>6. Next BY <1>0 DEF Next, SyscallStep
<1> QED BY <1>2, <1>3, <1>4, <1>5, <1>6, GotoFacts DEF Posts, ProgInv, ProgTypeOK

\* sys_exit is a send of PROC_EXIT to sys_proc.
LEMMA ExitPosts ==
    ASSUME CallInv, ProgInv, NEW p \in Pid, p = curr_pid, sys_exit,
           NEW l \in Label, Goto(l)
    PROVE  /\ Posts(p, IPC!Send(GPID_PROCESS, PROC_EXIT), l) /\ Next
           /\ p >= GPID_USER_START
<1>1. /\ InUserSpace /\ sys_invoke(SendCall(GPID_PROCESS, PROC_EXIT))
      /\ UNCHANGED <<pid, status, fatal>> /\ fatal' = "none"
      /\ curr_pid >= GPID_USER_START
  BY DEF sys_exit, sys_invoke, InUserSpace
<1>3. /\ proc_curr_idx = pid2idx(p) /\ calls[p] = IPC!Run(Sender, Received)
  BY <1>1, Caller
<1>4. PICK c \in Idx : c = proc_curr_idx /\ idx2pid(c) = p BY <1>3, PidSlots
<1>5. GPID_PROCESS \in Pid /\ PROC_EXIT \in Contents BY Sizes, ContentAssumption
<1>6. calls' = [calls EXCEPT ![p] = IPC!Send(GPID_PROCESS, PROC_EXIT)]
  BY <1>1, <1>4, <1>5, PostSendCalls
<1>7. Next BY DEF Next, SyscallStep
<1> QED BY <1>1, <1>3, <1>6, <1>7, GotoFacts DEF Posts, ProgInv, ProgTypeOK

\* A step of the program that makes no system call, or yields.
LEMMA QuietPosts ==
    ASSUME CallInv, ProgInv, NEW p \in Pid, proc_curr_idx = pid2idx(p),
           (InUserSpace /\ UNCHANGED vars) \/ sys_yield,
           NEW l \in Label, Goto(l)
    PROVE  Posts(p, calls[p], l) /\ [Next]_vars
<1>1. /\ InUserSpace /\ UNCHANGED <<pid, status, fatal>> /\ fatal' = "none"
  BY DEF sys_yield, sys_invoke, InUserSpace, vars
<1>2. calls' = calls
  <2>1. CASE UNCHANGED vars BY <2>1 DEF vars, calls, CallOf, Sending
  <2> QED BY <2>1, YieldCalls
<1>3. calls' = [calls EXCEPT ![p] = calls[p]] BY <1>2 DEF calls
<1>4. curr_pid = p BY <1>1, Running
<1>5. calls[p] = IPC!Run(Sender, Received) BY <1>1, <1>4, Caller
<1>6. [Next]_vars BY DEF Next, SyscallStep
<1> QED BY <1>1, <1>3, <1>4, <1>5, <1>6, GotoFacts DEF Posts, ProgInv, ProgTypeOK

-----------------------------------------------------------------------------
(***************************************************************************)
(* A posted call and the invariant.                                        *)
(***************************************************************************)
\* The call v is one that the others can rely on.
Proper(p, v, l) ==
    \/ \E s \in 0 .. GPID_SHELL : v = IPC!Recv(s)
    \/ /\ \E m \in Contents, q \in Pid :
             /\ v = IPC!Send(q, m) /\ Known(q)
             /\ q = GPID_PROCESS /\ m = PROC_EXIT => p >= GPID_USER_START
       /\ l \notin GotLabel
    \/ v = calls[p] /\ l \notin GotLabel

LEMMA PostCall ==
    ASSUME NEW p \in Pid, NEW v, NEW l, Posts(p, v, l)
    PROVE  /\ calls'[p] = v
           /\ \A q \in Pid : q # p => calls'[q] = calls[q]
           /\ calls[p].mode = "run"
           /\ calls[p].peer = Sender /\ calls[p].content = Received
           /\ \A q \in Pid : /\ Known(q)' <=> Known(q)
                             /\ StatusOf(q)' = StatusOf(q)
<1>1. DOMAIN calls = Pid BY DEF calls
<1> QED BY <1>1 DEF Posts, IPC!Run, Known, StatusOf

LEMMA PostTalk ==
    ASSUME CallInv, ProgInv, NEW p \in Pid, NEW v, NEW l, Posts(p, v, l),
           Proper(p, v, l)
    PROVE  KnownInOrder' /\ Offers' /\ Answers' /\ ExitsAreOfApps' /\ CallsAreAccepted'
<1>0. /\ KnownInOrder /\ Offers /\ Answers /\ ExitsAreOfApps
      /\ PcOf(p)' = l /\ \A q \in Pid : q # p => PcOf(q)' = PcOf(q)
  BY DEF ProgInv, Posts
<1>1. /\ calls'[p] = v
      /\ \A q \in Pid : q # p => calls'[q] = calls[q]
      /\ calls[p].mode = "run"
      /\ \A q : Known(q)' <=> Known(q)
  BY PostCall DEF Known
<1>2. KnownInOrder' BY <1>0, <1>1 DEF KnownInOrder
<1>3. CallsAreAccepted' BY DEF CallsAreAccepted, Posts
<1>4. v.mode = "send" =>
         /\ Known(v.peer) /\ l \notin GotLabel
         /\ v.peer = GPID_PROCESS /\ v.content = PROC_EXIT => p >= GPID_USER_START
  BY <1>1 DEF Proper, IPC!Recv, IPC!Send
<1>5. v.mode = "run" => l \notin GotLabel
  BY <1>1 DEF Proper, IPC!Recv, IPC!Send
<1>6. Offers' BY <1>0, <1>1, <1>4 DEF Offers
<1>7. Answers' BY <1>0, <1>1, <1>5 DEF Answers
<1>8. ExitsAreOfApps'
  <2>1. GPID_PROCESS \in Pid BY Sizes
  <2>2. "main_got" \in GotLabel BY DEF GotLabel
  <2> QED BY <1>0, <1>1, <1>5, <2>1, <2>2 DEF ExitsAreOfApps
<1> QED BY <1>2, <1>3, <1>6, <1>7, <1>8

\* A server posts its report, or goes on in its loop.
ServerPosts(p, v, l) ==
    \/ /\ PcOf(p) = InitLabel(p) /\ l = RecvLabel(p)
       /\ v = IPC!Send(GPID_PROCESS, "initialized")
    \/ /\ PcOf(p) \in UpLabel(p) /\ l \in UpLabel(p)
       /\ v # IPC!Send(GPID_PROCESS, "initialized")

LEMMA Labels ==
    ASSUME NEW s \in Servers
    PROVE  /\ s \in Pid /\ s # GPID_PROCESS /\ s \in Nat
           /\ RecvLabel(s) \in UpLabel(s) /\ InitLabel(s) \notin UpLabel(s)
BY Sizes DEF Servers, RecvLabel, UpLabel, InitLabel, EntryOf

\* Outside the boot of the servers, and outside sys_proc during it, a posted
\* call leaves the boot as it was.
LEMMA PostBoot ==
    ASSUME CallInv, ProgInv, NEW p \in Pid, NEW v, NEW l, Posts(p, v, l),
           UNCHANGED <<booting, app_pid>>,
           p = GPID_PROCESS =>
              /\ PcOf(p) \notin BootLabel /\ l \notin BootLabel
              /\ PcOf(p) \in LoadLabel <=> l \in LoadLabel,
           p \in Servers => ServerPosts(p, v, l)
    PROVE  OneLoading' /\ SlotsInOrder' /\ ServersReport'
<1>0. /\ OneLoading /\ SlotsInOrder /\ ServersReport /\ fatal = "none"
      /\ PcOf(p)' = l /\ \A q \in Pid : q # p => PcOf(q)' = PcOf(q)
  BY DEF ProgInv, Posts, InUserSpace
<1>1. /\ calls'[p] = v
      /\ \A q \in Pid : q # p => calls'[q] = calls[q]
      /\ calls[p].mode = "run"
      /\ \A q \in Pid : StatusOf(q)' = StatusOf(q)
  BY PostCall
<1>2. /\ GPID_PROCESS \in Pid
      /\ \A q \in GPID_PROCESS .. GPID_SHELL : q \in Pid
      /\ "boot_ready" \in BootLabel /\ "boot_recv" \in BootLabel
      /\ "boot_alloc" \in BootLabel
  BY Sizes DEF BootLabel
<1>3. OneLoading' BY <1>0, <1>1, <1>2 DEF OneLoading
<1>4. \A q \in Pid : Used(q)' <=> Used(q) BY <1>1 DEF Used
<1>5. SlotsInOrder' BY <1>0, <1>2, <1>4 DEF SlotsInOrder
<1>6. ASSUME NEW s \in Servers
      PROVE  (Up(s) => Up(s)') /\ ServerPhase(s)'
  <2>1. CASE s # p
    BY <1>0, <1>1, <1>6, <2>1, Labels DEF Up, ServerPhase, ServersReport
  <2>2. CASE s = p /\ PcOf(p) = InitLabel(p) /\ l = RecvLabel(p)
             /\ v = IPC!Send(GPID_PROCESS, "initialized")
    BY <1>0, <1>1, <1>6, <2>2, Labels DEF Up, ServerPhase
  <2>3. CASE s = p /\ PcOf(p) \in UpLabel(p) /\ l \in UpLabel(p)
             /\ v # IPC!Send(GPID_PROCESS, "initialized")
    <3>1. ServerPhase(s) BY <1>0, <1>6 DEF ServersReport
    <3>2. calls[s] # IPC!Send(GPID_PROCESS, "initialized")
      BY <1>1, <2>3 DEF IPC!Send
    <3>3. StatusOf(s) = "PROC_RUNNING" BY <2>3, Caller DEF Posts
    <3>4. Up(s)' BY <1>0, <1>1, <2>3, <3>3 DEF Up
    <3> QED BY <3>4 DEF ServerPhase
  <2> QED BY <2>1, <2>2, <2>3 DEF ServerPosts
<1>7. calls'[GPID_PROCESS] = calls[GPID_PROCESS]
      \/ PcOf(GPID_PROCESS) \notin BootLabel
  BY <1>1, <1>2
<1>8. ServersReport'
  BY <1>0, <1>2, <1>6, <1>7, Labels DEF ServersReport
<1> QED BY <1>3, <1>5, <1>8

DirWait == {"dir_block", "dir_reply"}

LEMMA PostKeeps ==
    ASSUME CallInv, ProgInv, NEW p \in Pid, NEW v, NEW l, Posts(p, v, l),
           Proper(p, v, l), UNCHANGED <<booting, app_pid, scenario>>,
           p = GPID_PROCESS =>
              /\ PcOf(p) \notin BootLabel /\ l \notin BootLabel
              /\ PcOf(p) \in LoadLabel <=> l \in LoadLabel,
           p \in Servers => ServerPosts(p, v, l),
           \/ /\ UNCHANGED dir_client
              /\ p = GPID_DIR /\ l \in DirWait => PcOf(p) \in DirWait
           \/ Known(dir_client')
    PROVE  ProgInv'
<1>1. KnownInOrder' /\ Offers' /\ Answers' /\ ExitsAreOfApps' /\ CallsAreAccepted'
  BY PostTalk
<1>2. OneLoading' /\ SlotsInOrder' /\ ServersReport' BY PostBoot
<1>3. /\ PcOf(p)' = l /\ \A q \in Pid : q # p => PcOf(q)' = PcOf(q)
      /\ pc' \in [Idx -> Label] /\ UNCHANGED pid
  BY DEF Posts
<1>4. ProgTypeOK'
  <2>1. dir_client' \in 0 .. MAX_NPROCESS
    BY Sizes DEF ProgInv, ProgTypeOK, Known
  <2> QED BY <1>3, <2>1 DEF ProgInv, ProgTypeOK
<1>5. DirClientKnown'
  <2>1. GPID_DIR \in Pid BY Sizes
  <2>2. CASE Known(dir_client') BY <1>3, <2>2 DEF DirClientKnown, Known
  <2>3. CASE UNCHANGED dir_client /\ (PcOf(GPID_DIR)' \in DirWait =>
                                        PcOf(GPID_DIR) \in DirWait)
    BY <1>3, <2>3 DEF DirClientKnown, Known, ProgInv, DirWait
  <2> QED BY <1>3, <2>1, <2>2, <2>3
<1> QED BY <1>1, <1>2, <1>4, <1>5 DEF ProgInv

\* A process knows those that were there before it.
LEMMA RunnerKnows ==
    ASSUME CallInv, ProgInv, InUserSpace, NEW q \in Pid, q <= curr_pid
    PROVE  Known(q)
BY Caller DEF ProgInv, KnownInOrder

\* After the boot the system processes are there.
LEMMA MainKnows ==
    ASSUME CallInv, ProgInv, PcOf(GPID_PROCESS) \notin BootLabel,
           NEW q \in GPID_PROCESS .. GPID_SHELL
    PROVE  Known(q)
<1>1. Used(q) BY DEF ProgInv, SlotsInOrder
<1>2. q \in Pid BY Sizes
<1>3. pid2idx(q) \in Idx /\ idx2pid(pid2idx(q)) = q BY <1>2, PidSlots
<1>4. pid[pid2idx(q)] = q
  BY <1>1, <1>3 DEF Used, StatusOf, CallInv, Inv, SlotPid
<1> QED BY <1>2, <1>4 DEF Known

-----------------------------------------------------------------------------
(***************************************************************************)
(* The programs.                                                           *)
(***************************************************************************)
\* sys_proc, past the boot, goes from label k to label l.
MainMove(k, l) ==
    /\ At(GPID_PROCESS, k) /\ Goto(l)
    /\ UNCHANGED <<booting, app_pid, scenario, dir_client>>
    /\ k \notin BootLabel /\ l \notin BootLabel /\ l \in Label
    /\ k \in LoadLabel <=> l \in LoadLabel

LEMMA MainMoves ==
    ASSUME NEW k, NEW l, MainMove(k, l)
    PROVE  /\ GPID_PROCESS \in Pid /\ GPID_PROCESS \notin Servers
           /\ GPID_PROCESS # GPID_DIR
           /\ PcOf(GPID_PROCESS) = k /\ proc_curr_idx = pid2idx(GPID_PROCESS)
<1>1. /\ GPID_PROCESS \in Pid /\ GPID_PROCESS \notin Servers
      /\ GPID_PROCESS # GPID_DIR
  BY Sizes DEF Servers
<1>2. PcOf(GPID_PROCESS) = k /\ proc_curr_idx = pid2idx(GPID_PROCESS)
  BY DEF MainMove, At, PcOf
<1> QED BY <1>1, <1>2

LEMMA MainReceives ==
    ASSUME CallInv, ProgInv, NEW k, NEW l, MainMove(k, l),
           NEW s \in 0 .. GPID_SHELL, sys_recv(s)
    PROVE  Next /\ ProgInv'
<1>1. Posts(GPID_PROCESS, IPC!Recv(s), l) /\ Next
  BY MainMoves, RecvPosts DEF MainMove
<1>2. Proper(GPID_PROCESS, IPC!Recv(s), l) BY DEF Proper
<1> QED BY <1>1, <1>2, MainMoves, PostKeeps DEF MainMove

LEMMA MainSends ==
    ASSUME CallInv, ProgInv, NEW k, NEW l, MainMove(k, l), l \notin GotLabel,
           NEW q \in GPID_FILE .. GPID_SHELL, NEW m \in Contents, sys_send(q, m)
    PROVE  Next /\ ProgInv'
<1>0. q \in Pid /\ q # GPID_PROCESS /\ q \in GPID_PROCESS .. GPID_SHELL
  BY Sizes
<1>1. Posts(GPID_PROCESS, IPC!Send(q, m), l) /\ Next
  BY <1>0, MainMoves, SendPosts DEF MainMove
<1>2. Known(q) BY <1>0, MainMoves, MainKnows DEF MainMove
<1>3. Proper(GPID_PROCESS, IPC!Send(q, m), l) BY <1>0, <1>2 DEF Proper
<1> QED BY <1>1, <1>3, MainMoves, PostKeeps DEF MainMove

MainCall ==
    \/ main_recv \/ main_spawn \/ main_sleep \/ spawn_bin \/ spawn_lookup
    \/ spawn_ino \/ spawn_failed \/ load_send \/ load_recv \/ spawn_reply
    \/ exit_notice

LEMMA MainCallKeeps ==
    ASSUME CallInv, ProgInv, MainCall
    PROVE  Next /\ ProgInv'
<1>0. /\ {0, GPID_FILE, GPID_DIR} \subseteq 0 .. GPID_SHELL
      /\ {GPID_FILE, GPID_DIR, GPID_SHELL} \subseteq GPID_FILE .. GPID_SHELL
  BY Sizes
<1>m. {"request", "lookup missing", "CMD_OK", "CMD_ERROR", "PROC_EXIT"}
         \subseteq Contents
  BY Sizes DEF Message
<1>1. CASE main_recv
  <2>1. MainMove("main_recv", "main_got") /\ sys_recv(0)
    BY <1>1 DEF main_recv, MainMove, Label, BootLabel, LoadLabel, SysDirLocals,
                SysProcLocals, ShellLocals
  <2> QED BY <1>0, <2>1, MainReceives
<1>2. CASE main_sleep
  <2>1. MainMove("main_got", "main_got") /\ sys_recv(0)
    BY <1>2 DEF main_sleep, MainMove, Label, BootLabel, LoadLabel, SysDirLocals,
                SysProcLocals, ShellLocals
  <2> QED BY <1>0, <2>1, MainReceives
<1>3. CASE spawn_bin
  <2>1. MainMove("spawn_bin", "spawn_lookup") /\ sys_recv(GPID_DIR)
    BY <1>3 DEF spawn_bin, MainMove, Label, BootLabel, LoadLabel, SysDirLocals,
                SysProcLocals, ShellLocals
  <2> QED BY <1>0, <2>1, MainReceives
<1>4. CASE spawn_ino
  <2>1. MainMove("spawn_ino", "spawn_found") /\ sys_recv(GPID_DIR)
    BY <1>4 DEF spawn_ino, MainMove, Label, BootLabel, LoadLabel, SysDirLocals,
                SysProcLocals, ShellLocals
  <2> QED BY <1>0, <2>1, MainReceives
<1>5. CASE load_recv
  <2>1. MainMove("load_recv", "load_send") /\ sys_recv(GPID_FILE)
    BY <1>5 DEF load_recv, MainMove, Label, BootLabel, LoadLabel, SysDirLocals,
                SysProcLocals, ShellLocals
  <2> QED BY <1>0, <2>1, MainReceives
<1>6. CASE main_spawn
  <2>1. /\ MainMove("main_got", "spawn_bin") /\ "spawn_bin" \notin GotLabel
        /\ sys_send(GPID_DIR, "request")
    BY <1>6 DEF main_spawn, MainMove, Label, BootLabel, LoadLabel, GotLabel,
                SysDirLocals, SysProcLocals, ShellLocals
  <2> QED BY <1>0, <1>m, <2>1, MainSends
<1>7. CASE spawn_lookup
  <2>1. /\ MainMove("spawn_lookup", "spawn_ino") /\ "spawn_ino" \notin GotLabel
        /\ \E m \in {"request", "lookup missing"} : sys_send(GPID_DIR, m)
    BY <1>7 DEF spawn_lookup, MainMove, Label, BootLabel, LoadLabel, GotLabel,
                SysDirLocals, SysProcLocals, ShellLocals
  <2> QED BY <1>0, <1>m, <2>1, MainSends
<1>8. CASE spawn_failed
  <2>1. /\ MainMove("spawn_found", "main_recv") /\ "main_recv" \notin GotLabel
        /\ sys_send(GPID_SHELL, "CMD_ERROR")
    BY <1>8 DEF spawn_failed, SpawnReply, MainMove, Label, BootLabel, LoadLabel, GotLabel,
                SysDirLocals, SysProcLocals, ShellLocals
  <2> QED BY <1>0, <1>m, <2>1, MainSends
<1>9. CASE load_send
  <2>1. /\ MainMove("load_send", "load_recv") /\ "load_recv" \notin GotLabel
        /\ sys_send(GPID_FILE, "request")
    BY <1>9 DEF load_send, MainMove, Label, BootLabel, LoadLabel, GotLabel,
                SysDirLocals, SysProcLocals, ShellLocals
  <2> QED BY <1>0, <1>m, <2>1, MainSends
<1>10. CASE spawn_reply
  <2>1. /\ MainMove("spawn_reply", "main_recv") /\ "main_recv" \notin GotLabel
        /\ sys_send(GPID_SHELL, "CMD_OK")
    BY <1>10 DEF spawn_reply, SpawnReply, MainMove, Label, BootLabel, LoadLabel, GotLabel,
                SysDirLocals, SysProcLocals, ShellLocals
  <2> QED BY <1>0, <1>m, <2>1, MainSends
<1>11. CASE exit_notice
  <2>1. /\ MainMove("exit_notice", "main_recv") /\ "main_recv" \notin GotLabel
        /\ sys_send(GPID_SHELL, "PROC_EXIT")
    BY <1>11 DEF exit_notice, MainMove, Label, BootLabel, LoadLabel, GotLabel,
                SysDirLocals, SysProcLocals, ShellLocals
  <2> QED BY <1>0, <1>m, <2>1, MainSends
<1> QED BY <1>1, <1>2, <1>3, <1>4, <1>5, <1>6, <1>7, <1>8, <1>9, <1>10, <1>11
        DEF MainCall

\* Process p, which is not sys_proc, goes from label k to label l.
Move(p, k, l) ==
    /\ p \in Pid /\ p # GPID_PROCESS /\ proc_curr_idx = pid2idx(p)
    /\ PcOf(p) = k /\ Goto(l) /\ l \in Label
    /\ UNCHANGED <<booting, app_pid, scenario>>
    /\ \/ UNCHANGED dir_client /\ (p = GPID_DIR /\ l \in DirWait => k \in DirWait)
       \/ Known(dir_client')

LEMMA Receives ==
    ASSUME CallInv, ProgInv, NEW p, NEW k, NEW l, Move(p, k, l),
           NEW s \in 0 .. GPID_SHELL, sys_recv(s),
           p \in Servers => k \in UpLabel(p) /\ l \in UpLabel(p)
    PROVE  Next /\ ProgInv'
<1>1. Posts(p, IPC!Recv(s), l) /\ Next BY RecvPosts DEF Move
<1>2. Proper(p, IPC!Recv(s), l) BY DEF Proper
<1>3. p \in Servers => ServerPosts(p, IPC!Recv(s), l)
  BY DEF Move, ServerPosts, IPC!Recv, IPC!Send
<1> QED BY <1>1, <1>2, <1>3, PostKeeps DEF Move

LEMMA Sends ==
    ASSUME CallInv, ProgInv, NEW p, NEW k, NEW l, Move(p, k, l),
           NEW q, NEW m \in Contents, sys_send(q, m), Known(q), l \notin GotLabel,
           m # PROC_EXIT,
           p \in Servers => ServerPosts(p, IPC!Send(q, m), l)
    PROVE  Next /\ ProgInv'
<1>0. q \in Pid BY DEF Known
<1>1. Posts(p, IPC!Send(q, m), l) /\ Next BY <1>0, SendPosts DEF Move
<1>2. Proper(p, IPC!Send(q, m), l) BY <1>0 DEF Proper
<1> QED BY <1>1, <1>2, PostKeeps DEF Move

LEMMA Quiet ==
    ASSUME CallInv, ProgInv, NEW p, NEW k, NEW l, Move(p, k, l),
           (InUserSpace /\ UNCHANGED vars) \/ sys_yield,
           l \notin GotLabel, p \notin Servers
    PROVE  [Next]_vars /\ ProgInv'
<1>1. Posts(p, calls[p], l) /\ [Next]_vars BY QuietPosts DEF Move
<1>2. Proper(p, calls[p], l) BY DEF Proper
<1> QED BY <1>1, <1>2, PostKeeps DEF Move

\* The process that a server answers is there.
LEMMA SenderKnown ==
    ASSUME CallInv, ProgInv, InUserSpace, NEW p \in Pid, proc_curr_idx = pid2idx(p),
           PcOf(p) \in GotLabel
    PROVE  Known(Sender)
<1>1. calls[p] = IPC!Run(Sender, Received) BY Running, Caller
<1>2. calls[p].mode = "run" /\ calls[p].peer = Sender BY <1>1 DEF IPC!Run
<1> QED BY <1>2 DEF ProgInv, Answers

LEMMA ServerKeeps ==
    ASSUME CallInv, ProgInv, NEW p \in Servers \ {GPID_DIR}, NEW got,
           got \in UpLabel(p) \cap GotLabel,
           {got, InitLabel(p), RecvLabel(p)} \subseteq Label,
           RecvLabel(p) \notin GotLabel,
           Server(p, InitLabel(p), RecvLabel(p), got)
    PROVE  Next /\ ProgInv'
<1>0. /\ p \in Pid /\ p # GPID_PROCESS /\ RecvLabel(p) \in UpLabel(p)
      /\ "initialized" \in Contents /\ "ok" \in Contents
      /\ "initialized" # PROC_EXIT /\ "ok" # PROC_EXIT
      /\ 0 \in 0 .. GPID_SHELL
  <2>1. "initialized" \in Contents /\ "ok" \in Contents BY Sizes DEF Message
  <2> QED BY <2>1, Labels, Sizes
<1>1. UNCHANGED <<booting, app_pid, scenario, dir_client>>
  BY DEF Server, SysProcLocals, SysDirLocals, ShellLocals
<1>2. CASE At(p, InitLabel(p)) /\ sys_send(GPID_PROCESS, "initialized")
           /\ Goto(RecvLabel(p))
  <2>1. Move(p, InitLabel(p), RecvLabel(p))
    BY <1>0, <1>1, <1>2 DEF At, Move, PcOf
  <2>2. Known(GPID_PROCESS)
    <3>1. InUserSpace /\ curr_pid = p BY <1>0, <1>2, Running DEF At, sys_send
    <3> QED BY <1>0, <3>1, Sizes, RunnerKnows
  <2>3. ServerPosts(p, IPC!Send(GPID_PROCESS, "initialized"), RecvLabel(p))
    BY <2>1 DEF Move, ServerPosts
  <2> QED BY <1>0, <1>2, <2>1, <2>2, <2>3, Sends
<1>3. CASE At(p, RecvLabel(p)) /\ sys_recv(0) /\ Goto(got)
  <2>1. Move(p, RecvLabel(p), got)
    BY <1>0, <1>1, <1>3 DEF At, Move, PcOf
  <2> QED BY <1>0, <1>3, <2>1, Receives
<1>4. CASE At(p, got) /\ sys_send(Sender, "ok") /\ Goto(RecvLabel(p))
  <2>1. Move(p, got, RecvLabel(p))
    BY <1>0, <1>1, <1>4 DEF At, Move, PcOf
  <2>2. Known(Sender)
    BY <1>0, <1>4, <2>1, SenderKnown DEF Move, sys_send
  <2>3. PICK q : q = Sender OBVIOUS
  <2>4. ServerPosts(p, IPC!Send(q, "ok"), RecvLabel(p))
    BY <1>0, <2>1 DEF Move, ServerPosts, IPC!Send
  <2> QED BY <1>0, <1>4, <2>1, <2>2, <2>3, <2>4, Sends
<1> QED BY <1>2, <1>3, <1>4 DEF Server

LEMMA FileKeeps == ASSUME CallInv, ProgInv, sys_file \/ sys_net
                   PROVE  Next /\ ProgInv'
<1>1. CASE sys_file
  <2>1. /\ GPID_FILE \in Servers \ {GPID_DIR}
        /\ InitLabel(GPID_FILE) = "file_init" /\ RecvLabel(GPID_FILE) = "file_recv"
        /\ UpLabel(GPID_FILE) = {"file_recv", "file_got"}
    BY Sizes DEF Servers, InitLabel, EntryOf, RecvLabel, UpLabel
  <2>2. Server(GPID_FILE, InitLabel(GPID_FILE), RecvLabel(GPID_FILE), "file_got")
    BY <1>1, <2>1 DEF sys_file
  <2> QED BY <2>1, <2>2, ServerKeeps DEF GotLabel, Label
<1>2. CASE sys_net
  <2>1. /\ GPID_NET \in Servers \ {GPID_DIR}
        /\ InitLabel(GPID_NET) = "net_init" /\ RecvLabel(GPID_NET) = "net_recv"
        /\ UpLabel(GPID_NET) = {"net_recv", "net_got"}
    BY Sizes DEF Servers, InitLabel, EntryOf, RecvLabel, UpLabel
  <2>2. Server(GPID_NET, InitLabel(GPID_NET), RecvLabel(GPID_NET), "net_got")
    BY <1>2, <2>1 DEF sys_net
  <2> QED BY <2>1, <2>2, ServerKeeps DEF GotLabel, Label
<1> QED BY <1>1, <1>2

LEMMA DirKeeps == ASSUME CallInv, ProgInv, sys_dir PROVE Next /\ ProgInv'
<1>0. /\ GPID_DIR \in Pid /\ GPID_DIR # GPID_PROCESS /\ GPID_DIR \in Servers
      /\ InitLabel(GPID_DIR) = "dir_init" /\ RecvLabel(GPID_DIR) = "dir_recv"
      /\ UpLabel(GPID_DIR) = {"dir_recv", "dir_got", "dir_block", "dir_reply"}
      /\ 0 \in 0 .. GPID_SHELL /\ GPID_FILE \in 0 .. GPID_SHELL
  BY Sizes DEF Servers, InitLabel, EntryOf, RecvLabel, UpLabel
<1>m. /\ {"initialized", "request", "DIR_ERROR", "ok"} \subseteq Contents
      /\ PROC_EXIT = "PROC_EXIT"
  BY Sizes DEF Message
<1>k. ASSUME InUserSpace, proc_curr_idx = pid2idx(GPID_DIR)
      PROVE  Known(GPID_PROCESS) /\ Known(GPID_FILE)
  BY <1>0, <1>k, Sizes, Running, RunnerKnows
<1>1. CASE dir_init
  <2>1. Move(GPID_DIR, "dir_init", "dir_recv")
    BY <1>0, <1>1 DEF dir_init, Move, At, PcOf, Label, DirWait, SysProcLocals,
                      SysDirLocals, ShellLocals
  <2>2. sys_send(GPID_PROCESS, "initialized") /\ Known(GPID_PROCESS)
    BY <1>1, <1>k, <2>1 DEF dir_init, Move, sys_send
  <2>3. ServerPosts(GPID_DIR, IPC!Send(GPID_PROCESS, "initialized"), "dir_recv")
    BY <1>0, <2>1 DEF Move, ServerPosts
  <2> QED BY <1>m, <2>1, <2>2, <2>3, Sends DEF GotLabel
<1>2. CASE dir_recv
  <2>1. Move(GPID_DIR, "dir_recv", "dir_got") /\ sys_recv(0)
    BY <1>0, <1>2 DEF dir_recv, Move, At, PcOf, Label, DirWait, SysProcLocals,
                      SysDirLocals, ShellLocals
  <2> QED BY <1>0, <2>1, Receives
<1>3. CASE dir_read
  <2>1. At(GPID_DIR, "dir_got") /\ sys_send(GPID_FILE, "request")
    BY <1>3 DEF dir_read
  <2>2. Known(Sender) /\ Known(GPID_FILE)
    BY <1>0, <1>k, <2>1, SenderKnown DEF At, PcOf, GotLabel, sys_send
  <2>3. Known(dir_client') BY <1>3, <2>2 DEF dir_read
  <2>4. Move(GPID_DIR, "dir_got", "dir_block")
    BY <1>0, <1>3, <2>3 DEF dir_read, Move, At, PcOf, Label, SysProcLocals,
                            ShellLocals
  <2>5. ServerPosts(GPID_DIR, IPC!Send(GPID_FILE, "request"), "dir_block")
    BY <1>0, <2>4 DEF Move, ServerPosts, IPC!Send
  <2> QED BY <1>m, <2>1, <2>2, <2>4, <2>5, Sends DEF GotLabel
<1>4. CASE dir_block
  <2>1. Move(GPID_DIR, "dir_block", "dir_reply") /\ sys_recv(GPID_FILE)
    BY <1>0, <1>4 DEF dir_block, Move, At, PcOf, Label, DirWait, SysProcLocals,
                      SysDirLocals, ShellLocals
  <2> QED BY <1>0, <2>1, Receives
<1>5. CASE dir_reply
  <2>1. Move(GPID_DIR, "dir_reply", "dir_recv")
    BY <1>0, <1>5 DEF dir_reply, Move, At, PcOf, Label, DirWait, SysProcLocals,
                      SysDirLocals, ShellLocals
  <2>2. PICK q : q = dir_client /\ Known(q)
    BY <2>1 DEF Move, ProgInv, DirClientKnown
  <2>3. PICK m \in {"DIR_ERROR", "ok"} : sys_send(q, m)
    BY <1>5, <2>2 DEF dir_reply
  <2>4. ServerPosts(GPID_DIR, IPC!Send(q, m), "dir_recv")
    BY <1>0, <2>1 DEF Move, ServerPosts, IPC!Send
  <2>5. m \in Contents /\ m # PROC_EXIT BY <1>m
  <2> QED BY <2>1, <2>2, <2>3, <2>4, <2>5, Sends DEF GotLabel
<1> QED BY <1>1, <1>2, <1>3, <1>4, <1>5 DEF sys_dir

LEMMA ShellKeeps == ASSUME CallInv, ProgInv, sys_shell PROVE [Next]_vars /\ ProgInv'
<1>0. /\ GPID_SHELL \in Pid /\ GPID_SHELL # GPID_PROCESS /\ GPID_SHELL \notin Servers
      /\ GPID_SHELL # GPID_DIR /\ GPID_PROCESS \in 0 .. GPID_SHELL
  BY Sizes DEF Servers
<1>l. UNCHANGED <<booting, app_pid, scenario, dir_client>>
  BY DEF sys_shell, tty_read, shell_send, shell_recv, shell_go_on, shell_wait,
         SysProcLocals, SysDirLocals, ShellLocals
<1>a. ASSUME NEW k, NEW l \in Label, At(GPID_SHELL, k), Goto(l)
      PROVE  Move(GPID_SHELL, k, l)
  BY <1>0, <1>l, <1>a DEF Move, At, PcOf
<1>1. CASE tty_read
  <2>1. PICK k \in {"shell_next", "shell_fg", "shell_reading"},
             l \in {"shell_reading", "shell_next"} :
           At(GPID_SHELL, k) /\ Goto(l)
    BY <1>1 DEF tty_read, ShellAtNext
  <2>2. l \in Label /\ l \notin GotLabel BY DEF Label, GotLabel
  <2> QED BY <1>0, <1>1, <1>a, <2>1, <2>2, Quiet DEF tty_read
<1>2. CASE shell_send
  <2>1. PICK k : At(GPID_SHELL, k) BY <1>2 DEF shell_send, ShellAtNext
  <2>2. PICK cmd \in scenario.commands :
           /\ sys_send(GPID_PROCESS, cmd)
           /\ Goto(IF cmd = "PROC_KILLALL" THEN "shell_next" ELSE "shell_recv")
    BY <1>2 DEF shell_send
  <2>3. PICK l \in {"shell_next", "shell_recv"} : Goto(l) BY <2>2
  <2>4. l \in Label /\ l \notin GotLabel BY DEF Label, GotLabel
  <2>5. cmd \in Spawn \cup {"PROC_KILLALL"}
    BY DEF ProgInv, ProgTypeOK, Scenario
  <2>6. cmd \in Contents /\ cmd # PROC_EXIT BY <2>5, Sizes DEF Message, Spawn
  <2>7. Known(GPID_PROCESS)
    <3>1. InUserSpace /\ curr_pid = GPID_SHELL
      BY <1>0, <2>1, <2>2, Running DEF At, sys_send
    <3> QED BY <3>1, Sizes, RunnerKnows
  <2> QED BY <1>0, <1>a, <2>1, <2>2, <2>3, <2>4, <2>6, <2>7, Sends
<1>3. CASE shell_recv
  <2>1. /\ At(GPID_SHELL, "shell_recv") /\ Goto("shell_reply")
        /\ sys_recv(GPID_PROCESS) /\ "shell_reply" \in Label
    BY <1>3 DEF shell_recv, Label
  <2> QED BY <1>0, <1>a, <2>1, Receives
<1>4. CASE shell_go_on
  <2>1. /\ At(GPID_SHELL, "shell_reply") /\ Goto("shell_next")
        /\ InUserSpace /\ UNCHANGED vars
    BY <1>4 DEF shell_go_on
  <2>2. "shell_next" \in Label /\ "shell_next" \notin GotLabel
    BY DEF Label, GotLabel
  <2> QED BY <1>0, <1>a, <2>1, <2>2, Quiet
<1>5. CASE shell_wait
  <2>1. /\ At(GPID_SHELL, "shell_reply") /\ Goto("shell_fg")
        /\ sys_recv(GPID_PROCESS) /\ "shell_fg" \in Label
    BY <1>5 DEF shell_wait, Label
  <2> QED BY <1>0, <1>a, <2>1, Receives
<1> QED BY <1>1, <1>2, <1>3, <1>4, <1>5 DEF sys_shell

LEMMA AppKeeps == ASSUME CallInv, ProgInv, app PROVE [Next]_vars /\ ProgInv'
<1>0. InUserSpace /\ UNCHANGED <<booting, app_pid, scenario, dir_client>>
  BY DEF app, dir_query, file_query, net_query, query, app_reply, app_sleep,
         app_sleep_yield, app_exit, app_exited, sys_send, sys_recv, sys_exit,
         sys_yield, SysProcLocals, SysDirLocals, ShellLocals
<1>1. PICK p \in Pid : p = curr_pid /\ proc_curr_idx = pid2idx(p) BY <1>0, Caller
<1>2. p >= GPID_USER_START
  BY <1>1 DEF app, dir_query, file_query, net_query, query, app_reply, app_sleep,
         app_sleep_yield, app_exit, app_exited, AtApp, InBody, IsApp
<1>3. /\ p # GPID_PROCESS /\ p \notin Servers /\ p # GPID_DIR
      /\ \A s \in Servers : s \in Pid /\ s <= p /\ s \in 0 .. GPID_SHELL
      /\ GPID_PROCESS \in Pid /\ GPID_PROCESS <= p
  BY <1>2, Sizes DEF Servers
<1>4. ASSUME NEW l \in Label, Goto(l) PROVE Move(p, PcOf(p), l)
  BY <1>0, <1>1, <1>3, <1>4 DEF Move
<1>5. ASSUME NEW s \in Servers, query(s) PROVE [Next]_vars /\ ProgInv'
  <2>1. sys_send(s, "request") /\ Goto(WaitLabel(s)) BY <1>5 DEF query
  <2>2. WaitLabel(s) \in Label /\ WaitLabel(s) \notin GotLabel
    BY DEF WaitLabel, Label, GotLabel
  <2>3. "request" \in Contents /\ "request" # PROC_EXIT BY Sizes DEF Message
  <2>4. Known(s) BY <1>0, <1>1, <1>3, RunnerKnows
  <2> QED BY <1>3, <1>4, <2>1, <2>2, <2>3, <2>4, Sends
<1>6. CASE dir_query \/ file_query \/ net_query
  BY <1>5, <1>6 DEF dir_query, file_query, net_query, Servers
<1>7. CASE app_reply
  <2>1. PICK s \in Servers : sys_recv(s) BY <1>7 DEF app_reply, Servers
  <2>2. Goto("app") /\ "app" \in Label BY <1>7 DEF app_reply, Label
  <2> QED BY <1>3, <1>4, <2>1, <2>2, Receives
<1>8. CASE app_sleep
  <2>1. /\ sys_send(GPID_PROCESS, "PROC_SLEEP") /\ Goto("sleep_yield")
        /\ "sleep_yield" \in Label /\ "sleep_yield" \notin GotLabel
    BY <1>8 DEF app_sleep, Label, GotLabel
  <2>2. "PROC_SLEEP" \in Contents /\ "PROC_SLEEP" # PROC_EXIT
    BY Sizes DEF Message
  <2>3. Known(GPID_PROCESS) BY <1>0, <1>1, <1>3, RunnerKnows
  <2> QED BY <1>3, <1>4, <2>1, <2>2, <2>3, Sends
<1>9. CASE app_sleep_yield
  <2>1. /\ sys_yield /\ Goto("slept") /\ "slept" \in Label /\ "slept" \notin GotLabel
    BY <1>9 DEF app_sleep_yield, Label, GotLabel
  <2> QED BY <1>3, <1>4, <2>1, Quiet
<1>10. CASE app_exited
  <2>1. /\ sys_yield /\ Goto("exited") /\ "exited" \in Label /\ "exited" \notin GotLabel
    BY <1>10 DEF app_exited, Label, GotLabel
  <2> QED BY <1>3, <1>4, <2>1, Quiet
<1>11. CASE app_exit
  <2>1. /\ sys_exit /\ Goto("exited") /\ "exited" \in Label /\ "exited" \notin GotLabel
    BY <1>11 DEF app_exit, Label, GotLabel
  <2> DEFINE v == IPC!Send(GPID_PROCESS, PROC_EXIT)
  <2>2. Posts(p, v, "exited") /\ Next BY <1>1, <2>1, ExitPosts
  <2>3. Known(GPID_PROCESS) BY <1>0, <1>1, <1>3, RunnerKnows
  <2>4. Proper(p, v, "exited")
    BY <1>2, <1>3, <2>1, <2>3, ContentAssumption DEF Proper
  <2> HIDE DEF v
  <2> QED BY <1>0, <1>3, <2>2, <2>4, PostKeeps
<1> QED BY <1>6, <1>7, <1>8, <1>9, <1>10, <1>11 DEF app

-----------------------------------------------------------------------------
(***************************************************************************)
(* The boot, and process management.                                       *)
(***************************************************************************)
\* sys_proc waits for the server it has just spawned.
LEMMA BootRecvKeeps == ASSUME CallInv, ProgInv, boot_recv PROVE Next /\ ProgInv'
<1>0. /\ OneLoading /\ SlotsInOrder /\ ServersReport /\ DirClientKnown
      /\ booting \in 2 .. 5 /\ ProgTypeOK
  BY Sizes DEF ProgInv, ProgTypeOK
<1>1. PICK b \in 2 .. 5 : b = booting BY <1>0
<1>2. /\ PcOf(GPID_PROCESS) = "boot_recv" /\ proc_curr_idx = pid2idx(GPID_PROCESS)
      /\ sys_recv(b) /\ booting' = b + 1 /\ Goto("boot_alloc")
      /\ UNCHANGED <<app_pid, scenario, dir_client>>
  BY <1>1 DEF boot_recv, At, PcOf, SysDirLocals, ShellLocals
<1>3. "boot_alloc" \in Label /\ GPID_PROCESS \in Pid /\ b \in 0 .. GPID_SHELL
  BY Sizes DEF Label
<1>4. Posts(GPID_PROCESS, IPC!Recv(b), "boot_alloc") /\ Next
  BY <1>2, <1>3, RecvPosts
<1>5. KnownInOrder' /\ Offers' /\ Answers' /\ ExitsAreOfApps' /\ CallsAreAccepted'
  BY <1>3, <1>4, PostTalk DEF Proper
<1>6. /\ calls'[GPID_PROCESS] = IPC!Recv(b)
      /\ \A q \in Pid : q # GPID_PROCESS => calls'[q] = calls[q]
      /\ \A q \in Pid : StatusOf(q)' = StatusOf(q)
  BY <1>3, <1>4, PostCall
<1>7. /\ PcOf(GPID_PROCESS)' = "boot_alloc" /\ pc' \in [Idx -> Label]
      /\ \A q \in Pid : q # GPID_PROCESS => PcOf(q)' = PcOf(q)
      /\ UNCHANGED pid
  BY <1>4 DEF Posts
<1>8. b # 5 BY <1>0, <1>1, <1>2, Sizes DEF SlotsInOrder
<1>9. ProgTypeOK' BY <1>0, <1>1, <1>2, <1>7, <1>8, Sizes DEF ProgTypeOK
<1>10. DirClientKnown'
  <2>1. GPID_DIR \in Pid /\ GPID_DIR # GPID_PROCESS BY Sizes
  <2> QED BY <1>0, <1>2, <1>7, <2>1 DEF DirClientKnown, Known
<1>11. OneLoading'
  BY <1>0, <1>2, <1>6, <1>7 DEF OneLoading, LoadLabel
<1>12. SlotsInOrder'
  <2>1. \A q \in Pid : Used(q)' <=> q <= b
    BY <1>0, <1>1, <1>2, <1>6 DEF SlotsInOrder, Used
  <2>2. \A q \in Pid : q <= b <=> q < b + 1 BY DEF Pid
  <2> QED BY <1>2, <1>7, <2>1, <2>2 DEF SlotsInOrder, BootLabel
<1>13. ServersReport'
  <2>1. ASSUME NEW s \in Servers
        PROVE  (Up(s) => Up(s)') /\ ServerPhase(s)'
    BY <1>0, <1>6, <1>7, <2>1, Labels DEF Up, ServerPhase, ServersReport
  <2>2. ASSUME NEW s \in Servers, s < b PROVE Up(s)
    BY <1>0, <1>1, <1>2, <2>2 DEF ServersReport
  <2>3. \A s \in Servers : /\ s < (b + 1) - 1 => s < b
                           /\ s = (b + 1) - 1 => s = b
    BY Labels
  <2> QED BY <1>2, <1>6, <1>7, <2>1, <2>2, <2>3 DEF ServersReport, BootLabel
<1> QED BY <1>4, <1>5, <1>9, <1>10, <1>11, <1>12, <1>13 DEF ProgInv

\* A step of sys_proc that starts or ends processes keeps what the messages
\* promise, if it forgets no pid.
LEMMA ManageTalk ==
    ASSUME ProgInv, \A q : Known(q) => Known(q)', PcOf(GPID_PROCESS)' \notin GotLabel,
           \A q \in Pid :
              \/ calls'[q] = IPC!Dead
              \/ calls'[q].mode = "run" /\ PcOf(q)' \notin GotLabel
              \/ calls'[q] = calls[q] /\ PcOf(q)' = PcOf(q)
    PROVE  Offers' /\ Answers' /\ ExitsAreOfApps'
<1>1. Offers' BY DEF ProgInv, Offers, IPC!Dead
<1>2. Answers' BY DEF ProgInv, Answers, IPC!Dead
<1>3. ExitsAreOfApps' BY DEF ExitsAreOfApps, GotLabel
<1> QED BY <1>1, <1>2, <1>3

\* A slot in use carries its pid.
LEMMA UsedKnown ==
    ASSUME CallInv, NEW q \in Pid, Used(q)
    PROVE  Known(q)
<1>1. pid2idx(q) \in Idx /\ idx2pid(pid2idx(q)) = q BY PidSlots
<1> QED BY <1>1 DEF Used, StatusOf, CallInv, Inv, SlotPid, Known

\* What proc_alloc does, in terms of pids.
LEMMA AllocSlots ==
    ASSUME CallInv, proc_alloc
    PROVE  /\ calls' = calls /\ Next
           /\ \/ \E n \in Pid :
                    /\ StatusOf(n) = "PROC_UNUSED"
                    /\ \A q \in Pid : ~Used(q) => n <= q
                    /\ StatusOf(n)' = "PROC_LOADING"
                    /\ \A q \in Pid : q # n => StatusOf(q)' = StatusOf(q)
                    /\ \A q : Known(q)' <=> Known(q) \/ q = n
                    /\ pid2idx(n) \in Unused
                    /\ \A j \in Unused : pid2idx(n) <= j
                    /\ fatal' = "none"
              \/ /\ Unused = {} /\ fatal' = "proc_alloc: reach the limit"
                 /\ UNCHANGED <<pid, status>>
<1>0. /\ pid \in [Idx -> 0 .. MAX_NPROCESS] /\ status \in [Idx -> Status]
      /\ fatal = "none"
  BY DEF CallInv, Inv, TypeOK, proc_alloc, InSysProc, InUserSpace
<1>1. calls' = calls /\ Next BY AllocCalls DEF Next, ManageStep
<1>2. ASSUME NEW i \in Unused, \A j \in Unused : i <= j,
             pid' = [pid EXCEPT ![i] = idx2pid(i)],
             status' = [status EXCEPT ![i] = "PROC_LOADING"], UNCHANGED fatal
      PROVE  \E n \in Pid :
                    /\ StatusOf(n) = "PROC_UNUSED"
                    /\ \A q \in Pid : ~Used(q) => n <= q
                    /\ StatusOf(n)' = "PROC_LOADING"
                    /\ \A q \in Pid : q # n => StatusOf(q)' = StatusOf(q)
                    /\ \A q : Known(q)' <=> Known(q) \/ q = n
                    /\ pid2idx(n) \in Unused
                    /\ \A j \in Unused : pid2idx(n) <= j
                    /\ fatal' = "none"
  <2>1. i \in Idx /\ status[i] = "PROC_UNUSED" BY DEF Unused
  <2>2. PICK n \in Pid : n = idx2pid(i) /\ pid2idx(n) = i BY <2>1, PidSlots
  <2>3. \A q \in Pid : pid2idx(q) \in Idx /\ (q # n => pid2idx(q) # i)
    BY <2>2, PidSlots
  <2>4. ASSUME NEW q \in Pid, ~Used(q) PROVE n <= q
    <3>1. pid2idx(q) \in Unused BY <2>3, <2>4 DEF Used, StatusOf, Unused
    <3> QED BY <1>2, <2>2, <3>1 DEF Pid, pid2idx
  <2>5. \A q \in Pid : q # n => StatusOf(q)' = StatusOf(q)
    BY <1>0, <1>2, <2>1, <2>3 DEF StatusOf
  <2>6. ASSUME NEW q PROVE Known(q)' <=> Known(q) \/ q = n
    BY <1>0, <1>2, <2>1, <2>2, <2>3 DEF Known
  <2> QED BY <1>0, <1>2, <2>1, <2>2, <2>4, <2>5, <2>6 DEF StatusOf
<1> QED BY <1>1, <1>2 DEF proc_alloc

\* proc_alloc keeps the slots in order and the messages' promises.
LEMMA AllocTalk ==
    ASSUME CallInv, ProgInv, proc_alloc, NEW l \in Label \ GotLabel, Goto(l)
    PROVE  /\ KnownInOrder' /\ Offers' /\ Answers' /\ ExitsAreOfApps'
           /\ CallsAreAccepted' /\ pc' \in [Idx -> Label]
           /\ PcOf(GPID_PROCESS)' = l
           /\ \A q \in Pid : q # GPID_PROCESS => PcOf(q)' = PcOf(q)
           /\ \A q : Known(q) => Known(q)'
           /\ calls[GPID_PROCESS].mode = "run"
<1>0. GPID_PROCESS \in Pid /\ proc_curr_idx = pid2idx(GPID_PROCESS) /\ InUserSpace
  <2>1. proc_curr_idx = pid2idx(GPID_PROCESS) /\ InUserSpace
    BY DEF proc_alloc, InSysProc
  <2> QED BY <2>1, Sizes
<1>1. calls[GPID_PROCESS].mode = "run" BY <1>0, Running, Caller DEF IPC!Run
<1>2. /\ pc' \in [Idx -> Label] /\ PcOf(GPID_PROCESS)' = l
      /\ \A q \in Pid : q # GPID_PROCESS => PcOf(q)' = PcOf(q)
  BY <1>0, GotoFacts DEF ProgInv, ProgTypeOK
<1>3. \A q : Known(q) => Known(q)' BY AllocSlots DEF Known
<1>4. calls' = calls BY AllocSlots
<1>5. Offers' /\ Answers' /\ ExitsAreOfApps'
  BY <1>1, <1>2, <1>3, <1>4, ManageTalk
<1>6. CallsAreAccepted' BY AllocSlots DEF CallsAreAccepted
<1>7. KnownInOrder'
  <2>1. CASE \A q : Known(q)' <=> Known(q)
    BY <2>1 DEF ProgInv, KnownInOrder
  <2>2. ASSUME NEW n \in Pid, \A q : Known(q)' <=> Known(q) \/ q = n,
               \A q \in Pid : ~Used(q) => n <= q
        PROVE  KnownInOrder'
    <3>1. ASSUME NEW q \in Pid, q <= n PROVE Known(q)'
      <4>1. q = n \/ Used(q) BY <2>2, <3>1 DEF Pid
      <4> QED BY <2>2, <4>1, UsedKnown
    <3> QED BY <2>2, <3>1 DEF ProgInv, KnownInOrder
  <2> QED BY <2>1, <2>2, AllocSlots DEF Known
<1> QED BY <1>1, <1>2, <1>3, <1>5, <1>6, <1>7

\* The boot takes the slot that it expects.
LEMMA BootAllocKeeps == ASSUME CallInv, ProgInv, boot_alloc PROVE Next /\ ProgInv'
<1>0. /\ OneLoading /\ SlotsInOrder /\ ServersReport /\ DirClientKnown /\ ProgTypeOK
  BY DEF ProgInv
<1>1. PICK b \in 2 .. 5 : b = booting BY <1>0, Sizes DEF ProgTypeOK
<1>2. /\ PcOf(GPID_PROCESS) = "boot_alloc" /\ proc_alloc /\ Goto("boot_ready")
      /\ UNCHANGED <<booting, app_pid, scenario, dir_client>>
  BY DEF boot_alloc, At, PcOf, SysProcLocals, SysDirLocals, ShellLocals
<1>3. "boot_ready" \in Label \ GotLabel BY DEF Label, GotLabel
<1>4. /\ KnownInOrder' /\ Offers' /\ Answers' /\ ExitsAreOfApps'
      /\ CallsAreAccepted' /\ pc' \in [Idx -> Label]
      /\ PcOf(GPID_PROCESS)' = "boot_ready"
      /\ \A q \in Pid : q # GPID_PROCESS => PcOf(q)' = PcOf(q)
      /\ \A q : Known(q) => Known(q)'
      /\ calls[GPID_PROCESS].mode = "run"
  BY <1>2, <1>3, AllocTalk
<1>5. Next /\ calls' = calls BY <1>2, AllocSlots
<1>6. \A q \in Pid : Used(q) <=> q < b BY <1>0, <1>1, <1>2 DEF SlotsInOrder
<1>7. b \in Pid /\ ~Used(b) BY <1>6, Sizes
<1>8. PICK n \in Pid :
          /\ StatusOf(n) = "PROC_UNUSED"
          /\ \A q \in Pid : ~Used(q) => n <= q
          /\ StatusOf(n)' = "PROC_LOADING"
          /\ \A q \in Pid : q # n => StatusOf(q)' = StatusOf(q)
          /\ fatal' = "none"
  <2>1. pid2idx(b) \in Unused
    BY <1>7, PidSlots DEF Used, StatusOf, Unused
  <2> QED BY <1>2, <2>1, AllocSlots
<1>9. n = b
  <2>1. ~Used(n) /\ n <= b BY <1>7, <1>8 DEF Used
  <2> QED BY <1>6, <1>7, <2>1 DEF Pid
<1>10. ProgTypeOK' BY <1>0, <1>2, <1>4 DEF ProgTypeOK
<1>11. DirClientKnown'
  <2>1. GPID_DIR \in Pid /\ GPID_DIR # GPID_PROCESS BY Sizes
  <2> QED BY <1>0, <1>2, <1>4, <2>1 DEF DirClientKnown
<1>12. OneLoading'
  <2>1. \A q \in Pid : StatusOf(q)' = "PROC_LOADING" => q = b
    BY <1>0, <1>2, <1>8, <1>9 DEF OneLoading, LoadLabel
  <2> QED BY <1>1, <1>2, <1>4, <2>1 DEF OneLoading, LoadLabel
<1>13. SlotsInOrder'
  <2>1. \A q \in Pid : Used(q)' <=> Used(q) \/ q = b
    BY <1>8, <1>9 DEF Used
  <2>2. \A q \in Pid : Used(q)' <=> q <= b BY <1>6, <2>1 DEF Pid
  <2> QED BY <1>1, <1>2, <1>4, <2>2 DEF SlotsInOrder, BootLabel
<1>14. ServersReport'
  <2>1. ASSUME NEW s \in Servers PROVE (Up(s) => Up(s)') /\ ServerPhase(s)'
    <3>1. CASE s = b
      <4>1. ~Up(s) BY <1>7, <3>1 DEF Up, Used
      <4>2. ServerPhase(s)' BY <1>8, <1>9, <3>1 DEF ServerPhase
      <4> QED BY <4>1, <4>2
    <3>2. CASE s # b
      BY <1>0, <1>4, <1>5, <1>8, <1>9, <2>1, <3>2, Labels
      DEF Up, ServerPhase, ServersReport
    <3> QED BY <3>1, <3>2
  <2>2. ASSUME NEW s \in Servers, s < b PROVE Up(s)
    <3>1. s < b - 1 \/ s = b - 1 BY <2>2, Labels
    <3>2. calls[GPID_PROCESS] # IPC!Recv(s) BY <1>4 DEF IPC!Recv
    <3> QED BY <1>0, <1>1, <1>2, <3>1, <3>2 DEF ServersReport
  <2> QED BY <1>1, <1>2, <1>4, <2>1, <2>2 DEF ServersReport, BootLabel
<1> QED BY <1>4, <1>5, <1>10, <1>11, <1>12, <1>13, <1>14 DEF ProgInv

\* An application is loaded into a slot behind the system processes.
LEMMA SpawnAllocKeeps == ASSUME CallInv, ProgInv, spawn_alloc PROVE Next /\ ProgInv'
<1>0. /\ OneLoading /\ SlotsInOrder /\ ServersReport /\ DirClientKnown /\ ProgTypeOK
  BY DEF ProgInv
<1>1. /\ PcOf(GPID_PROCESS) = "spawn_found" /\ proc_alloc /\ Goto("load_send")
      /\ app_pid' = IF Unused = {} THEN app_pid
                    ELSE idx2pid(CHOOSE i \in Unused : \A j \in Unused : i <= j)
      /\ UNCHANGED <<booting, scenario, dir_client>>
  BY DEF spawn_alloc, At, PcOf, SysDirLocals, ShellLocals
<1>2. "load_send" \in Label \ GotLabel BY DEF Label, GotLabel
<1>3. /\ KnownInOrder' /\ Offers' /\ Answers' /\ ExitsAreOfApps'
      /\ CallsAreAccepted' /\ pc' \in [Idx -> Label]
      /\ PcOf(GPID_PROCESS)' = "load_send"
      /\ \A q \in Pid : q # GPID_PROCESS => PcOf(q)' = PcOf(q)
      /\ \A q : Known(q) => Known(q)'
  BY <1>1, <1>2, AllocTalk
<1>4. Next /\ calls' = calls BY <1>1, AllocSlots
<1>5. DirClientKnown'
  <2>1. GPID_DIR \in Pid /\ GPID_DIR # GPID_PROCESS BY Sizes
  <2> QED BY <1>0, <1>1, <1>3, <2>1 DEF DirClientKnown
<1>6. /\ \A q \in GPID_PROCESS .. GPID_SHELL : Used(q) /\ q \in Pid
      /\ \A q \in Pid : StatusOf(q) # "PROC_LOADING"
      /\ \A s \in Servers : Up(s)
  <2>1. \A q \in GPID_PROCESS .. GPID_SHELL : q \in Pid BY Sizes
  <2> QED BY <1>0, <1>1, <2>1
          DEF SlotsInOrder, BootLabel, OneLoading, LoadLabel, ServersReport
<1>7. ASSUME app_pid' \in 0 .. MAX_NPROCESS,
             fatal' = "none" => app_pid' \in GPID_USER_START .. MAX_NPROCESS,
             \A q \in Pid : StatusOf(q)' = "PROC_LOADING" => q = app_pid',
             \A q \in GPID_PROCESS .. GPID_SHELL : StatusOf(q)' = StatusOf(q)
      PROVE  ProgTypeOK' /\ OneLoading' /\ SlotsInOrder' /\ ServersReport'
  <2>1. ProgTypeOK' BY <1>0, <1>1, <1>3, <1>7 DEF ProgTypeOK
  <2>2. OneLoading' BY <1>3, <1>7 DEF OneLoading, LoadLabel
  <2>3. SlotsInOrder' BY <1>3, <1>6, <1>7 DEF SlotsInOrder, BootLabel, Used
  <2>4. ASSUME NEW s \in Servers PROVE Up(s)'
    <3>1. s \in GPID_PROCESS .. GPID_SHELL /\ s \in Pid /\ s # GPID_PROCESS
      BY Labels, Sizes DEF Servers
    <3> QED BY <1>3, <1>4, <1>6, <1>7, <3>1 DEF Up
  <2>5. ServersReport' BY <1>3, <2>4 DEF ServersReport, ServerPhase, BootLabel
  <2> QED BY <2>1, <2>2, <2>3, <2>5
<1>8. ASSUME NEW n \in Pid, StatusOf(n) = "PROC_UNUSED",
             \A q \in Pid : q # n => StatusOf(q)' = StatusOf(q),
             pid2idx(n) \in Unused, \A j \in Unused : pid2idx(n) <= j
      PROVE  ProgTypeOK' /\ OneLoading' /\ SlotsInOrder' /\ ServersReport'
  <2>1. app_pid' = n
    <3>1. PICK i : i = CHOOSE k \in Unused : \A j \in Unused : k <= j OBVIOUS
    <3>2. i \in Unused /\ \A j \in Unused : i <= j BY <1>8, <3>1
    <3>3. i = pid2idx(n) BY <1>8, <3>2 DEF Unused, Idx, Pid, pid2idx
    <3> QED BY <1>1, <1>8, <3>1, <3>3, PidSlots
  <2>2. n \notin GPID_PROCESS .. GPID_SHELL BY <1>6, <1>8 DEF Used
  <2>3. n \in GPID_USER_START .. MAX_NPROCESS /\ n \in 0 .. MAX_NPROCESS
    BY <2>2, Sizes
  <2> QED BY <1>6, <1>7, <1>8, <2>1, <2>2, <2>3
<1>9. ASSUME Unused = {}, fatal' = "proc_alloc: reach the limit",
             UNCHANGED <<pid, status>>
      PROVE  ProgTypeOK' /\ OneLoading' /\ SlotsInOrder' /\ ServersReport'
  <2>1. app_pid' = app_pid BY <1>1, <1>9
  <2> QED BY <1>0, <1>6, <1>7, <1>9, <2>1 DEF StatusOf, ProgTypeOK
<1>10. ProgTypeOK' /\ OneLoading' /\ SlotsInOrder' /\ ServersReport'
  BY <1>1, <1>8, <1>9, AllocSlots
<1> QED BY <1>3, <1>4, <1>5, <1>10 DEF ProgInv

\* sys_proc sets the label of one more process.
LEMMA TwoLabels ==
    ASSUME ProgInv, NEW p \in Pid, p # GPID_PROCESS, NEW x \in Label, NEW y \in Label,
           proc_curr_idx = pid2idx(GPID_PROCESS),
           pc' = [pc EXCEPT ![pid2idx(p)] = x, ![proc_curr_idx] = y]
    PROVE  /\ pc' \in [Idx -> Label]
           /\ PcOf(p)' = x /\ PcOf(GPID_PROCESS)' = y
           /\ \A q \in Pid : q \notin {p, GPID_PROCESS} => PcOf(q)' = PcOf(q)
<1>1. pc \in [Idx -> Label] BY DEF ProgInv, ProgTypeOK
<1>2. GPID_PROCESS \in Pid BY Sizes
<1>3. \A q, r \in Pid : pid2idx(q) \in Idx /\ (q # r => pid2idx(q) # pid2idx(r))
  BY PidSlots DEF Pid, pid2idx
<1> QED BY <1>1, <1>2, <1>3 DEF PcOf

\* What proc_set_ready does, in terms of pids.
LEMMA ReadySlots ==
    ASSUME CallInv, NEW p \in Pid, proc_set_ready(p)
    PROVE  /\ StatusOf(p) = "PROC_LOADING" /\ StatusOf(p)' = "PROC_READY"
           /\ \A q \in Pid : q # p => StatusOf(q)' = StatusOf(q)
           /\ calls'[p] = IPC!Born /\ \A q \in Pid : q # p => calls'[q] = calls[q]
           /\ UNCHANGED <<pid, fatal>> /\ Next
<1>1. calls' = [calls EXCEPT ![p] = IPC!Born] /\ DOMAIN calls = Pid
  BY ReadyCalls DEF calls
<1>2. status \in [Idx -> Status] BY DEF CallInv, Inv, TypeOK
<1>3. \A q \in Pid : pid2idx(q) \in Idx /\ (q # p => pid2idx(q) # pid2idx(p))
  BY PidSlots DEF Pid, pid2idx
<1> QED BY <1>1, <1>2, <1>3 DEF proc_set_ready, StatusOf, Next, ManageStep

\* A server starts, in the slot that the boot expects.
LEMMA BootReadyKeeps == ASSUME CallInv, ProgInv, boot_ready PROVE Next /\ ProgInv'
<1>0. /\ OneLoading /\ SlotsInOrder /\ ServersReport /\ DirClientKnown /\ ProgTypeOK
      /\ KnownInOrder /\ CallsAreAccepted
  BY DEF ProgInv
<1>1. PICK b \in 2 .. 5 : b = booting BY <1>0, Sizes DEF ProgTypeOK
<1>2. /\ PcOf(GPID_PROCESS) = "boot_ready" /\ proc_curr_idx = pid2idx(GPID_PROCESS)
      /\ UNCHANGED <<booting, app_pid, scenario, dir_client>>
  BY DEF boot_ready, At, PcOf, SysProcLocals, SysDirLocals, ShellLocals
<1>3. PICK p \in Pid :
         /\ proc_set_ready(p)
         /\ pc' = [pc EXCEPT ![pid2idx(p)] = EntryOf(b),
                             ![proc_curr_idx] = IF b = GPID_SHELL
                                                THEN "main_recv" ELSE "boot_recv"]
  BY <1>1 DEF boot_ready
<1>4. /\ StatusOf(p) = "PROC_LOADING" /\ StatusOf(p)' = "PROC_READY"
      /\ \A q \in Pid : q # p => StatusOf(q)' = StatusOf(q)
      /\ calls'[p] = IPC!Born /\ \A q \in Pid : q # p => calls'[q] = calls[q]
      /\ UNCHANGED <<pid, fatal>> /\ Next
  BY <1>3, ReadySlots
<1>5. p = b /\ p # GPID_PROCESS
  BY <1>0, <1>1, <1>2, <1>4, Sizes DEF OneLoading
<1>6. PICK l \in {"main_recv", "boot_recv"} :
         l = IF b = GPID_SHELL THEN "main_recv" ELSE "boot_recv"
  OBVIOUS
<1>7. l \in Label /\ EntryOf(b) \in Label \ GotLabel /\ l \notin GotLabel
      /\ l \notin LoadLabel /\ l \notin {"boot_ready", "boot_alloc"}
      /\ (l \in BootLabel <=> b # GPID_SHELL)
  BY <1>6 DEF Label, GotLabel, LoadLabel, BootLabel, EntryOf
<1>8. /\ pc' \in [Idx -> Label]
      /\ PcOf(p)' = EntryOf(b) /\ PcOf(GPID_PROCESS)' = l
      /\ \A q \in Pid : q \notin {p, GPID_PROCESS} => PcOf(q)' = PcOf(q)
  BY <1>2, <1>3, <1>5, <1>6, <1>7, TwoLabels
<1>9. GPID_PROCESS \in Pid /\ calls[GPID_PROCESS].mode = "run"
  <2>1. InUserSpace BY <1>3 DEF proc_set_ready, InSysProc
  <2>2. GPID_PROCESS \in Pid BY Sizes
  <2> QED BY <1>2, <2>1, <2>2, Running, Caller DEF IPC!Run
<1>10. Offers' /\ Answers' /\ ExitsAreOfApps'
  <2>1. calls'[p].mode = "run" BY <1>4 DEF IPC!Born, IPC!Run
  <2>2. ASSUME NEW q \in Pid
        PROVE  \/ calls'[q].mode = "run" /\ PcOf(q)' \notin GotLabel
               \/ calls'[q] = calls[q] /\ PcOf(q)' = PcOf(q)
    BY <1>4, <1>5, <1>7, <1>8, <1>9, <2>1
  <2>3. \A q : Known(q) => Known(q)' BY <1>4 DEF Known
  <2> QED BY <1>7, <1>8, <2>2, <2>3, ManageTalk
<1>11. ProgTypeOK' BY <1>0, <1>2, <1>8 DEF ProgTypeOK
<1>12. KnownInOrder' /\ CallsAreAccepted'
  BY <1>0, <1>4 DEF KnownInOrder, Known, CallsAreAccepted
<1>13. ASSUME NEW s \in Servers
       PROVE  /\ s < b => Up(s) /\ Up(s)'
              /\ s = b => ServerPhase(s)'
              /\ s > b => ServerPhase(s)'
  <2>1. CASE s < b
    <3>1. Up(s) /\ s # p /\ s \in Pid /\ s # GPID_PROCESS
      BY <1>0, <1>1, <1>2, <1>5, <2>1, Labels DEF ServersReport
    <3>2. Up(s)' BY <1>4, <1>8, <3>1 DEF Up
    <3> QED BY <2>1, <3>1, <3>2, Labels
  <2>2. CASE s = b
    <3>1. ServerPhase(s)'
      BY <1>4, <1>5, <1>8, <2>2 DEF ServerPhase, InitLabel, IPC!Born, IPC!Run
    <3> QED BY <2>2, <3>1, Labels
  <2>3. CASE s > b
    <3>1. ServerPhase(s) /\ s # p /\ s \in Pid /\ s # GPID_PROCESS
      BY <1>0, <1>5, <2>3, Labels DEF ServersReport
    <3>2. ServerPhase(s)' BY <1>4, <1>8, <3>1 DEF ServerPhase, Up
    <3> QED BY <2>3, <3>2, Labels
  <2> QED BY <2>1, <2>2, <2>3
<1>14. ServersReport'
  <2>1. \A s \in Servers : (s < b \/ s = b \/ s > b) /\ (b = GPID_SHELL => s < b)
    BY Labels, Sizes DEF Servers
  <2>2. \A s \in Servers : ServerPhase(s)' BY <1>13, <2>1 DEF ServerPhase
  <2> QED BY <1>1, <1>2, <1>7, <1>8, <1>13, <2>1, <2>2 DEF ServersReport
<1>15. DirClientKnown'
  <2>1. GPID_DIR \in Pid /\ GPID_DIR # GPID_PROCESS BY Sizes
  <2>2. EntryOf(b) \notin {"dir_block", "dir_reply"} BY DEF EntryOf
  <2> QED BY <1>0, <1>2, <1>4, <1>8, <2>1, <2>2 DEF DirClientKnown, Known
<1>16. OneLoading'
  <2>1. \A q \in Pid : StatusOf(q)' # "PROC_LOADING"
    BY <1>0, <1>1, <1>2, <1>4, <1>5 DEF OneLoading
  <2> QED BY <1>7, <1>8, <2>1 DEF OneLoading
<1>17. SlotsInOrder'
  <2>1. \A q \in Pid : Used(q)' <=> q <= b
    BY <1>0, <1>1, <1>2, <1>4 DEF SlotsInOrder, Used
  <2>2. b = GPID_SHELL => \A q \in GPID_PROCESS .. GPID_SHELL : q \in Pid /\ q <= b
    BY Sizes
  <2> QED BY <1>1, <1>2, <1>6, <1>7, <1>8, <2>1, <2>2 DEF SlotsInOrder
<1> QED BY <1>4, <1>10, <1>11, <1>12, <1>14, <1>15, <1>16, <1>17 DEF ProgInv

\* sys_proc, past the boot, starts or ends applications only.
LEMMA AppsChange ==
    ASSUME CallInv, ProgInv, PcOf(GPID_PROCESS) \notin BootLabel,
           PcOf(GPID_PROCESS)' \notin BootLabel \cup GotLabel,
           pc' \in [Idx -> Label],
           UNCHANGED <<pid, fatal, booting, app_pid, scenario, dir_client>>,
           calls'[GPID_PROCESS].mode = "run",
           StatusOf(GPID_PROCESS)' = StatusOf(GPID_PROCESS),
           \A q \in GPID_FILE .. GPID_SHELL :
              /\ PcOf(q)' = PcOf(q) /\ calls'[q] = calls[q]
              /\ StatusOf(q)' = StatusOf(q),
           \A q \in GPID_USER_START .. MAX_NPROCESS :
              \/ calls'[q] = IPC!Dead
              \/ calls'[q].mode = "run" /\ PcOf(q)' \notin GotLabel
              \/ calls'[q] = calls[q] /\ PcOf(q)' = PcOf(q),
           PcOf(GPID_PROCESS)' \in LoadLabel =>
              app_pid \in GPID_USER_START .. MAX_NPROCESS,
           \A q \in Pid : StatusOf(q)' = "PROC_LOADING" =>
              PcOf(GPID_PROCESS)' \in LoadLabel /\ q = app_pid
    PROVE  ProgInv'
<1>0. /\ SlotsInOrder /\ ServersReport /\ DirClientKnown /\ ProgTypeOK
      /\ KnownInOrder /\ CallsAreAccepted
  BY DEF ProgInv
<1>1. /\ GPID_DIR \in GPID_FILE .. GPID_SHELL
      /\ \A s \in Servers : s \in GPID_FILE .. GPID_SHELL
      /\ \A q \in Pid : \/ q = GPID_PROCESS \/ q \in GPID_FILE .. GPID_SHELL
                        \/ q \in GPID_USER_START .. MAX_NPROCESS
      /\ \A q \in GPID_PROCESS .. GPID_SHELL :
            q = GPID_PROCESS \/ q \in GPID_FILE .. GPID_SHELL
  BY Sizes DEF Servers
<1>2. Offers' /\ Answers' /\ ExitsAreOfApps'
  <2>1. \A q : Known(q) => Known(q)' BY DEF Known
  <2> QED BY <1>1, <2>1, ManageTalk
<1>3. KnownInOrder' /\ CallsAreAccepted'
  BY <1>0 DEF KnownInOrder, Known, CallsAreAccepted
<1>4. ProgTypeOK' BY <1>0 DEF ProgTypeOK
<1>5. DirClientKnown' BY <1>0, <1>1 DEF DirClientKnown, Known
<1>6. OneLoading' BY DEF OneLoading, BootLabel
<1>7. SlotsInOrder' BY <1>0, <1>1 DEF SlotsInOrder, BootLabel, Used
<1>8. ServersReport'
  <2>1. \A s \in Servers : Up(s)' BY <1>0, <1>1 DEF ServersReport, Up
  <2> QED BY <2>1 DEF ServersReport, ServerPhase, BootLabel
<1> QED BY <1>2, <1>3, <1>4, <1>5, <1>6, <1>7, <1>8 DEF ProgInv

LEMMA Ranges ==
    /\ GPID_PROCESS \in Pid
    /\ \A q \in GPID_FILE .. GPID_SHELL :
          /\ q \in Pid /\ q # GPID_PROCESS /\ q \in GPID_PROCESS .. GPID_SHELL
          /\ q \notin GPID_USER_START .. MAX_NPROCESS /\ q < GPID_USER_START
    /\ \A q \in GPID_USER_START .. MAX_NPROCESS : q \in Pid /\ q # GPID_PROCESS
    /\ GPID_PROCESS \notin GPID_USER_START .. MAX_NPROCESS
BY Sizes

\* In user space sys_proc computes.
LEMMA MainComputes ==
    ASSUME CallInv, InSysProc
    PROVE  calls[GPID_PROCESS] = IPC!Run(Sender, Received)
           /\ calls[GPID_PROCESS].mode = "run"
BY Running, Caller, Ranges DEF InSysProc, IPC!Run

LEMMA LoadDoneKeeps == ASSUME CallInv, ProgInv, load_done PROVE Next /\ ProgInv'
<1>1. /\ PcOf(GPID_PROCESS) = "load_send" /\ proc_curr_idx = pid2idx(GPID_PROCESS)
      /\ elf_load(app_pid) /\ Goto("spawn_ready")
      /\ UNCHANGED <<booting, app_pid, scenario, dir_client>>
  BY DEF load_done, At, PcOf, SysProcLocals, SysDirLocals, ShellLocals
<1>2. InSysProc /\ UNCHANGED <<pid, fatal, status>> /\ fatal = "none"
  BY <1>1 DEF elf_load, InSysProc, InUserSpace
<1>3. PICK a \in GPID_USER_START .. MAX_NPROCESS : a = app_pid
  BY <1>1, <1>2 DEF ProgInv, OneLoading, LoadLabel
<1>4. elf_load(a) /\ a \in Pid BY <1>1, <1>3, Ranges
<1>5. calls' = calls BY <1>4, LoadCalls
<1>6. Next BY <1>4 DEF Next, ManageStep
<1>7. /\ pc' \in [Idx -> Label] /\ PcOf(GPID_PROCESS)' = "spawn_ready"
      /\ \A q \in Pid : q # GPID_PROCESS => PcOf(q)' = PcOf(q)
  <2>1. "spawn_ready" \in Label BY DEF Label
  <2> QED BY <1>1, <2>1, GotoFacts, Ranges DEF ProgInv, ProgTypeOK
<1>8. \A q \in Pid : StatusOf(q)' = "PROC_LOADING" => q = app_pid
  BY <1>1, <1>2 DEF ProgInv, OneLoading, StatusOf
<1>9. /\ PcOf(GPID_PROCESS) \notin BootLabel
      /\ PcOf(GPID_PROCESS)' \notin BootLabel \cup GotLabel
      /\ PcOf(GPID_PROCESS)' \in LoadLabel
  BY <1>1, <1>7 DEF BootLabel, GotLabel, LoadLabel
<1>10. \A q \in Pid : StatusOf(q)' = StatusOf(q) BY <1>2 DEF StatusOf
<1>11. calls'[GPID_PROCESS].mode = "run" BY <1>2, <1>5, MainComputes
<1>12. ProgInv'
  BY <1>1, <1>2, <1>3, <1>5, <1>7, <1>8, <1>9, <1>10, <1>11, Ranges, AppsChange
<1> QED BY <1>6, <1>12

LEMMA SpawnReadyKeeps == ASSUME CallInv, ProgInv, spawn_ready PROVE Next /\ ProgInv'
<1>1. /\ PcOf(GPID_PROCESS) = "spawn_ready" /\ proc_curr_idx = pid2idx(GPID_PROCESS)
      /\ proc_set_ready(app_pid)
      /\ pc' = [pc EXCEPT ![pid2idx(app_pid)] = "app",
                          ![proc_curr_idx] = "spawn_reply"]
      /\ UNCHANGED <<booting, app_pid, scenario, dir_client>>
  BY DEF spawn_ready, At, PcOf, SysProcLocals, SysDirLocals, ShellLocals
<1>2. InSysProc /\ fatal = "none"
  BY <1>1 DEF proc_set_ready, InSysProc, InUserSpace
<1>3. PICK a \in GPID_USER_START .. MAX_NPROCESS : a = app_pid
  BY <1>1, <1>2 DEF ProgInv, OneLoading, LoadLabel
<1>4. proc_set_ready(a) /\ a \in Pid /\ a # GPID_PROCESS BY <1>1, <1>3, Ranges
<1>5. /\ StatusOf(a)' = "PROC_READY"
      /\ \A q \in Pid : q # a => StatusOf(q)' = StatusOf(q)
      /\ calls'[a] = IPC!Born /\ \A q \in Pid : q # a => calls'[q] = calls[q]
      /\ UNCHANGED <<pid, fatal>> /\ Next
  BY <1>4, ReadySlots
<1>6. /\ "app" \in Label /\ "spawn_reply" \in Label /\ "app" \notin GotLabel
      /\ "spawn_reply" \notin BootLabel \cup GotLabel
      /\ "spawn_reply" \notin LoadLabel
      /\ "spawn_ready" \notin BootLabel /\ "spawn_ready" # "boot_ready"
  BY DEF Label, BootLabel, GotLabel, LoadLabel
<1>7. /\ pc' \in [Idx -> Label]
      /\ PcOf(a)' = "app" /\ PcOf(GPID_PROCESS)' = "spawn_reply"
      /\ \A q \in Pid : q \notin {a, GPID_PROCESS} => PcOf(q)' = PcOf(q)
  BY <1>1, <1>3, <1>4, <1>6, TwoLabels
<1>8. \A q \in Pid : StatusOf(q)' # "PROC_LOADING"
  BY <1>1, <1>3, <1>5, <1>6 DEF ProgInv, OneLoading
<1>9. calls'[GPID_PROCESS].mode = "run" /\ calls'[a].mode = "run"
  BY <1>2, <1>4, <1>5, Ranges, MainComputes DEF IPC!Born, IPC!Run
<1>10. ProgInv'
  BY <1>1, <1>3, <1>4, <1>5, <1>6, <1>7, <1>8, <1>9, Ranges, AppsChange
<1> QED BY <1>5, <1>10

\* An exit that sys_proc obeys frees an application.
LEMMA ExitKeeps == ASSUME CallInv, ProgInv, main_exit PROVE Next /\ ProgInv'
<1>1. /\ PcOf(GPID_PROCESS) = "main_got" /\ proc_curr_idx = pid2idx(GPID_PROCESS)
      /\ Received = PROC_EXIT /\ proc_free(Sender)
      /\ UNCHANGED <<booting, app_pid, scenario, dir_client>>
  <2>1. PROC_EXIT = "PROC_EXIT" BY Sizes
  <2> QED BY <2>1 DEF main_exit, Exit, At, PcOf, SysProcLocals, SysDirLocals,
                      ShellLocals
<1>2. PICK l \in {"exit_notice", "main_recv"} :
         pc' = [pc EXCEPT ![pid2idx(Sender)] = NoProcess, ![proc_curr_idx] = l]
  BY DEF main_exit, Exit
<1>3. InSysProc /\ UNCHANGED <<pid, fatal>> BY <1>1 DEF proc_free
<1>4. PICK p : p = Sender OBVIOUS
<1>5. p \in GPID_USER_START .. MAX_NPROCESS
  <2>1. calls[GPID_PROCESS] = IPC!Run(Sender, Received) BY <1>3, MainComputes
  <2>2. /\ calls[GPID_PROCESS].mode = "run" /\ calls[GPID_PROCESS].peer = p
        /\ calls[GPID_PROCESS].content = PROC_EXIT
    BY <1>1, <1>4, <2>1 DEF IPC!Run
  <2>3. p >= GPID_USER_START BY <1>1, <2>2 DEF ProgInv, ExitsAreOfApps
  <2>4. p \in Pid
    BY <1>1, <2>2, Ranges DEF ProgInv, Answers, GotLabel, Known
  <2> QED BY <2>3, <2>4, Sizes
<1>6. proc_free(p) /\ p \in Pid /\ p # GPID_PROCESS BY <1>1, <1>4, <1>5, Ranges
<1>7. Next BY <1>5, <1>6 DEF Next, ManageStep
<1>8. /\ \A i \in Idx : status'[i] = IF idx2pid(i) \in {p} THEN "PROC_UNUSED"
                                     ELSE status[i]
      /\ calls' = [q \in Pid |-> IF q \in {p} THEN IPC!Dead ELSE calls[q]]
  BY <1>5, <1>6, FreeOneCalls
<1>9. /\ \A q \in Pid : StatusOf(q)' = IF q = p THEN "PROC_UNUSED" ELSE StatusOf(q)
      /\ \A q \in Pid : calls'[q] = IF q = p THEN IPC!Dead ELSE calls[q]
  BY <1>8, PidSlots DEF StatusOf
<1>10. /\ NoProcess \in Label /\ l \in Label /\ l \notin BootLabel \cup GotLabel
       /\ l \notin LoadLabel /\ "main_got" \notin BootLabel \cup LoadLabel
  BY DEF Label, BootLabel, GotLabel, LoadLabel
<1>11. /\ pc' \in [Idx -> Label] /\ PcOf(GPID_PROCESS)' = l
       /\ \A q \in Pid : q \notin {p, GPID_PROCESS} => PcOf(q)' = PcOf(q)
  BY <1>1, <1>2, <1>4, <1>6, <1>10, TwoLabels
<1>12. \A q \in Pid : StatusOf(q)' # "PROC_LOADING"
  BY <1>1, <1>9, <1>10 DEF ProgInv, OneLoading, LoadLabel
<1>13. calls'[GPID_PROCESS].mode = "run"
  BY <1>3, <1>6, <1>9, Ranges, MainComputes
<1>14. /\ \A q \in GPID_FILE .. GPID_SHELL : q # p
       /\ GPID_PROCESS \in Pid /\ GPID_PROCESS # p
  BY <1>5, Ranges
<1>15. ProgInv'
  BY <1>1, <1>3, <1>9, <1>10, <1>11, <1>12, <1>13, <1>14, Ranges, AppsChange
<1> QED BY <1>7, <1>15

LEMMA KillKeeps == ASSUME CallInv, ProgInv, main_killall PROVE Next /\ ProgInv'
<1>1. /\ PcOf(GPID_PROCESS) = "main_got" /\ proc_curr_idx = pid2idx(GPID_PROCESS)
      /\ proc_free_all
      /\ pc' = [i \in Idx |-> IF i = proc_curr_idx THEN "main_recv"
                              ELSE IF pid[i] >= GPID_USER_START THEN NoProcess
                              ELSE pc[i]]
      /\ UNCHANGED <<booting, app_pid, scenario, dir_client>>
  BY DEF main_killall, At, PcOf, SysProcLocals, SysDirLocals, ShellLocals
<1>2. InSysProc /\ UNCHANGED <<pid, fatal>> /\ Next
  BY <1>1 DEF proc_free_all, Next, ManageStep
<1>3. PICK S \in SUBSET (GPID_USER_START .. MAX_NPROCESS) :
         /\ \A i \in Idx : idx2pid(i) \in S <=> pid[i] >= GPID_USER_START
         /\ \A i \in Idx : status'[i] = IF idx2pid(i) \in S THEN "PROC_UNUSED"
                                        ELSE status[i]
         /\ calls' = [q \in Pid |-> IF q \in S THEN IPC!Dead ELSE calls[q]]
  BY <1>1, FreeAllCalls
<1>4. /\ \A q \in Pid : StatusOf(q)' = IF q \in S THEN "PROC_UNUSED" ELSE StatusOf(q)
      /\ \A q \in Pid : calls'[q] = IF q \in S THEN IPC!Dead ELSE calls[q]
      /\ \A q \in Pid : q \in S <=> pid[pid2idx(q)] >= GPID_USER_START
  BY <1>3, PidSlots DEF StatusOf
<1>5. /\ NoProcess \in Label /\ "main_recv" \in Label
      /\ "main_recv" \notin BootLabel \cup GotLabel
      /\ "main_recv" \notin LoadLabel /\ "main_got" \notin BootLabel \cup LoadLabel
      /\ "main_got" # "boot_ready"
  BY DEF Label, BootLabel, GotLabel, LoadLabel
<1>6. /\ pc' \in [Idx -> Label] /\ PcOf(GPID_PROCESS)' = "main_recv"
      /\ \A q \in Pid : q \notin S /\ q # GPID_PROCESS => PcOf(q)' = PcOf(q)
  <2>1. pc \in [Idx -> Label] BY DEF ProgInv, ProgTypeOK
  <2>2. \A q \in Pid : pid2idx(q) \in Idx
    BY PidSlots
  <2>3. ASSUME NEW q \in Pid, q # GPID_PROCESS
        PROVE  pid2idx(q) # pid2idx(GPID_PROCESS)
    BY <2>3, PidSlots, Ranges
  <2> QED BY <1>1, <1>4, <1>5, <2>1, <2>2, <2>3, Ranges DEF PcOf
<1>7. \A q \in Pid : StatusOf(q)' # "PROC_LOADING"
  BY <1>1, <1>4, <1>5 DEF ProgInv, OneLoading
<1>8. /\ \A q \in GPID_FILE .. GPID_SHELL : q \notin S
      /\ GPID_PROCESS \in Pid /\ GPID_PROCESS \notin S
  BY Ranges
<1>9. calls'[GPID_PROCESS].mode = "run" BY <1>2, <1>4, <1>8, MainComputes
<1>10. ProgInv'
  BY <1>1, <1>2, <1>4, <1>5, <1>6, <1>7, <1>8, <1>9, Ranges, AppsChange
<1> QED BY <1>2, <1>10

-----------------------------------------------------------------------------
(***************************************************************************)
(* Traps.                                                                  *)
(***************************************************************************)
\* The kernel neither starts nor ends a process in a trap.
LEMMA TrapSlots ==
    ASSUME CallInv, Trap
    PROVE  /\ UNCHANGED pid /\ fatal = "none"
           /\ \A q \in Pid, x \in {"PROC_UNUSED", "PROC_LOADING"} :
                 StatusOf(q)' = x <=> StatusOf(q) = x
<1>0. /\ TypeOK /\ SlotPid /\ OnlyCurrentRuns /\ status \in [Idx -> Status]
  BY DEF CallInv, Inv, TypeOK
<1>1. UNCHANGED pid /\ fatal = "none"
  BY DEF Trap, intr_ctrl_c, intr_soft, intr_timer, proc_syscall
<1>2. PICK c \in Idx : c = proc_curr_idx /\ status[c] = "PROC_RUNNING"
  BY <1>0, <1>1 DEF TypeOK, OnlyCurrentRuns
<1>3. ASSUME NEW st \in [Idx -> Status], proc_yield(st),
             \A i \in Idx : st[i] = "PROC_RUNNING" => i = proc_curr_idx,
             \A i \in Idx, x \in {"PROC_UNUSED", "PROC_LOADING"} :
                st[i] = x <=> status[i] = x
      PROVE  \A i \in Idx, x \in {"PROC_UNUSED", "PROC_LOADING"} :
                status'[i] = x <=> status[i] = x
  <2>1. \A i \in Idx, s \in Parked : status'[i] = s <=> st[i] = s
    BY <1>0, <1>1, <1>3, YieldFacts
  <2> QED BY <1>3, <2>1 DEF Parked
<1>4. ASSUME NEW j \in Idx, NEW x \in {"PROC_WAIT_TO_SEND", "PROC_WAIT_TO_RECV",
                                       "PROC_RUNNABLE"},
             status[j] \notin {"PROC_UNUSED", "PROC_LOADING"},
             proc_yield([status EXCEPT ![j] = x])
      PROVE  \A i \in Idx, y \in {"PROC_UNUSED", "PROC_LOADING"} :
                status'[i] = y <=> status[i] = y
  <2> DEFINE st == [status EXCEPT ![j] = x]
  <2>1. st \in [Idx -> Status] BY <1>0 DEF Status
  <2>2. /\ \A i \in Idx : st[i] = "PROC_RUNNING" => i = proc_curr_idx
        /\ \A i \in Idx, y \in {"PROC_UNUSED", "PROC_LOADING"} :
                st[i] = y <=> status[i] = y
    BY <1>0, <1>1, <1>4 DEF OnlyCurrentRuns
  <2>3. proc_yield(st) BY <1>4
  <2> HIDE DEF st
  <2> QED BY <1>3, <2>1, <2>2, <2>3
<1>5. ASSUME proc_yield(status)
      PROVE  \A i \in Idx, x \in {"PROC_UNUSED", "PROC_LOADING"} :
                status'[i] = x <=> status[i] = x
  BY <1>0, <1>1, <1>3, <1>5 DEF OnlyCurrentRuns
<1>6. \A i \in Idx, x \in {"PROC_UNUSED", "PROC_LOADING"} :
         status'[i] = x <=> status[i] = x
  <2>1. CASE UNCHANGED status BY <2>1
  <2>2. CASE intr_timer BY <1>5, <2>1, <2>2 DEF intr_timer
  <2>3. CASE intr_ctrl_c BY <2>1, <2>3 DEF intr_ctrl_c
  <2>4. CASE intr_soft
    <3>1. CASE proc_send /\ sc[c].type = "SYS_SEND"
      <4>1. sc[c].receiver \in Pid
        BY <1>2, <2>4, <3>1 DEF intr_soft, CallInv, Inv, SyscallPending, WellFormed
      <4>2. PICK r \in Idx : r = pid2idx(sc[c].receiver) BY <4>1, PidSlots
      <4>3. \/ UNCHANGED status
            \/ proc_yield([status EXCEPT ![c] = "PROC_WAIT_TO_SEND"])
            \/ /\ status[r] = "PROC_WAIT_TO_RECV"
               /\ proc_yield([status EXCEPT ![r] = "PROC_RUNNABLE"])
        BY <1>2, <3>1, <4>2 DEF proc_send, WaitsFor
      <4> QED BY <1>2, <1>4, <2>1, <4>3
    <3>2. CASE proc_recv
      <4>1. \/ proc_yield([status EXCEPT ![c] = "PROC_WAIT_TO_RECV"])
            \/ \E s \in Idx : /\ status[s] = "PROC_WAIT_TO_SEND"
                              /\ proc_yield([status EXCEPT ![s] = "PROC_RUNNABLE"])
        BY <1>2, <3>2 DEF proc_recv, Senders
      <4> QED BY <1>2, <1>4, <4>1
    <3> QED BY <1>2, <1>5, <2>4, <3>1, <3>2 DEF intr_soft, proc_syscall
  <2> QED BY <2>2, <2>3, <2>4 DEF Trap
<1> QED BY <1>1, <1>6, PidSlots DEF StatusOf

\* The receiver of a send that the kernel carries out is there.
LEMMA TrapAccepted ==
    ASSUME CallInv, ProgInv, Trap
    PROVE  CallsAreAccepted'
<1>0. fatal = "none" BY TrapSlots
<1>1. ASSUME NEW st, proc_yield(st) PROVE CallsAreAccepted'
  BY <1>0, <1>1 DEF proc_yield, CallsAreAccepted
<1>2. PICK c \in Idx : c = proc_curr_idx BY DEF CallInv, Inv, TypeOK
<1>3. CASE sc[c].type = "SYS_SEND" /\ proc_send
  <2>1. View(c) /\ status[c] = "PROC_RUNNING" BY <1>0, <1>2, Before
  <2>2. CallOf(c) = IPC!Send(sc[c].receiver, sc[c].content)
    BY <1>3, <2>1 DEF View, Active
  <2>3. PICK p \in Pid : p = idx2pid(c) /\ pid2idx(p) = c BY PidSlots
  <2>4. calls[p].mode = "send" /\ calls[p].peer = sc[c].receiver
    BY <2>2, <2>3 DEF calls, IPC!Send
  <2>5. Known(sc[c].receiver) BY <2>4 DEF ProgInv, Offers
  <2> QED BY <1>1, <1>2, <1>3, <2>5 DEF proc_send, Known
<1>4. CASE proc_recv BY <1>1, <1>4 DEF proc_recv
<1> QED BY <1>0, <1>1, <1>2, <1>3, <1>4
        DEF Trap, intr_ctrl_c, intr_timer, intr_soft, proc_syscall, CallsAreAccepted

\* A process that has a call is there.
LEMMA CallersAreUsed ==
    ASSUME NEW p \in Pid
    PROVE  StatusOf(p) \in {"PROC_UNUSED", "PROC_LOADING"} => calls[p].mode = "dead"
BY DEF calls, CallOf, StatusOf

\* A message that moves keeps the promises.
LEMMA MoveKeeps ==
    ASSUME CallInv, ProgInv, UNCHANGED <<pid, pc, booting>>,
           \A r \in Pid, x \in {"PROC_UNUSED", "PROC_LOADING"} :
              StatusOf(r)' = x <=> StatusOf(r) = x,
           NEW p \in Pid, NEW q \in Pid, IPC!Transfer(p, q)
    PROVE  Offers' /\ Answers' /\ ExitsAreOfApps' /\ ServersReport'
<1>0. Offers /\ Answers /\ ExitsAreOfApps /\ ServersReport BY DEF ProgInv
<1>1. PICK m : m = calls[p].content OBVIOUS
<1>2. /\ calls[p].mode = "send" /\ calls[p].peer = q
      /\ calls[q].mode = "recv" /\ calls[q].peer \in {0, p} /\ p # q
      /\ calls' = [calls EXCEPT ![p] = IPC!Run(p, m), ![q] = IPC!Run(p, m)]
  BY <1>1 DEF IPC!Transfer, IPC!Matches, IPC!Any
<1>3. /\ calls'[p] = IPC!Run(p, m) /\ calls'[q] = IPC!Run(p, m)
      /\ \A r \in Pid : r \notin {p, q} => calls'[r] = calls[r]
  <2>1. DOMAIN calls = Pid BY DEF calls
  <2> QED BY <1>2, <2>1
<1>4. /\ calls'[p].mode = "run" /\ calls'[p].peer = p /\ calls'[p].content = m
      /\ calls'[q].mode = "run" /\ calls'[q].peer = p /\ calls'[q].content = m
  BY <1>3 DEF IPC!Run
<1>5. /\ \A r \in Pid : PcOf(r)' = PcOf(r)
      /\ \A r : Known(r)' <=> Known(r)
  BY DEF PcOf, Known
<1>6. Known(p) /\ PcOf(p) \notin GotLabel
  BY <1>0, <1>2, CallersAreUsed, UsedKnown DEF Used, Offers
<1>7. Offers' BY <1>0, <1>3, <1>4, <1>5 DEF Offers
<1>8. Answers' BY <1>0, <1>3, <1>4, <1>5, <1>6 DEF Answers
<1>9. ExitsAreOfApps'
  <2>1. CASE p = GPID_PROCESS
    BY <1>5, <1>6, <2>1, Ranges DEF ExitsAreOfApps, GotLabel
  <2>2. CASE q = GPID_PROCESS
    BY <1>0, <1>1, <1>2, <1>4, <2>2 DEF ExitsAreOfApps, Offers
  <2>3. CASE GPID_PROCESS \notin {p, q}
    BY <1>0, <1>3, <1>5, <2>3, Ranges DEF ExitsAreOfApps
  <2> QED BY <2>1, <2>2, <2>3
<1>10. ASSUME NEW s \in Servers
       PROVE  /\ Up(s) => Up(s)'
              /\ ServerPhase(s)'
              /\ s = p => Up(s)'
  <2>1. s \in Pid /\ ServerPhase(s) BY <1>0, Labels DEF ServersReport
  <2>2. \/ calls'[s] = calls[s] /\ s # p /\ s # q
        \/ calls'[s].mode = "run" /\ calls[s].mode # "run" /\ s \in {p, q}
    BY <1>2, <1>3, <1>4, <2>1
  <2>3. /\ PcOf(s)' = PcOf(s)
        /\ StatusOf(s)' \in {"PROC_UNUSED", "PROC_LOADING"} <=>
           StatusOf(s) \in {"PROC_UNUSED", "PROC_LOADING"}
    BY <1>5, <2>1
  <2>4. calls'[s].mode = "run" => calls'[s] # IPC!Send(GPID_PROCESS, "initialized")
    BY DEF IPC!Send
  <2>5. Up(s) => Up(s)' BY <2>2, <2>3, <2>4 DEF Up
  <2>6. s = p => Up(s)'
    BY <1>2, <2>1, <2>2, <2>3, <2>4, Labels, CallersAreUsed
    DEF ServerPhase, Up
  <2>7. ServerPhase(s)'
    <3>1. CASE s = p BY <2>6, <3>1 DEF ServerPhase
    <3>2. CASE s = q
      <4>1. ~(PcOf(s) = RecvLabel(s) /\ calls[s] = IPC!Send(GPID_PROCESS, "initialized"))
        BY <1>2, <3>2 DEF IPC!Send
      <4> QED BY <1>2, <2>1, <2>3, <2>5, <3>2, <4>1 DEF ServerPhase
    <3>3. CASE s \notin {p, q}
      BY <2>1, <2>2, <2>3, <2>5, <3>3 DEF ServerPhase
    <3> QED BY <3>1, <3>2, <3>3
  <2> QED BY <2>5, <2>6, <2>7
<1>11. ASSUME NEW s \in Servers, calls[GPID_PROCESS] = IPC!Recv(s)
       PROVE  Up(s)' \/ calls'[GPID_PROCESS] = IPC!Recv(s)
  <2>1. calls[GPID_PROCESS].mode = "recv" /\ calls[GPID_PROCESS].peer = s
    BY <1>11 DEF IPC!Recv
  <2>2. s # 0 BY Labels, Sizes DEF Servers
  <2>3. CASE q = GPID_PROCESS BY <1>2, <1>10, <2>1, <2>2, <2>3
  <2>4. CASE q # GPID_PROCESS BY <1>2, <1>3, <1>11, <2>1, <2>4, Ranges
  <2> QED BY <2>3, <2>4
<1>12. ServersReport'
  BY <1>0, <1>5, <1>10, <1>11, Ranges DEF ServersReport
<1> QED BY <1>7, <1>8, <1>9, <1>12

\* The same for a step that changes no call and no label but that of an
\* application.
LEMMA StillKeeps ==
    ASSUME CallInv, ProgInv, UNCHANGED <<pid, booting>>, calls' = calls,
           \A r \in Pid, x \in {"PROC_UNUSED", "PROC_LOADING"} :
              StatusOf(r)' = x <=> StatusOf(r) = x,
           \A r \in Pid : PcOf(r)' # PcOf(r) =>
              r >= GPID_USER_START /\ PcOf(r)' \notin GotLabel
    PROVE  Offers' /\ Answers' /\ ExitsAreOfApps' /\ ServersReport'
<1>0. Offers /\ Answers /\ ExitsAreOfApps /\ ServersReport BY DEF ProgInv
<1>1. \A r : Known(r)' <=> Known(r) BY DEF Known
<1>2. /\ PcOf(GPID_PROCESS)' = PcOf(GPID_PROCESS)
      /\ \A s \in Servers : s \in Pid /\ PcOf(s)' = PcOf(s)
  <2>1. ~(GPID_PROCESS >= GPID_USER_START) BY Sizes
  <2>2. \A s \in Servers : s \in Pid /\ ~(s >= GPID_USER_START)
    BY Sizes DEF Servers
  <2> QED BY <2>1, <2>2, Ranges
<1>3. Offers' BY <1>0, <1>1 DEF Offers
<1>4. Answers' BY <1>0, <1>1 DEF Answers
<1>5. ExitsAreOfApps' BY <1>0, <1>2 DEF ExitsAreOfApps
<1>6. ASSUME NEW s \in Servers PROVE (Up(s) => Up(s)') /\ ServerPhase(s)'
  <2>1. ServerPhase(s) BY <1>0 DEF ServersReport
  <2>2. StatusOf(s)' \in {"PROC_UNUSED", "PROC_LOADING"} <=>
        StatusOf(s) \in {"PROC_UNUSED", "PROC_LOADING"}
    BY <1>2
  <2>3. Up(s) => Up(s)' BY <1>2, <2>2 DEF Up
  <2> QED BY <1>2, <2>1, <2>2, <2>3 DEF ServerPhase
<1>7. ServersReport' BY <1>0, <1>2, <1>6 DEF ServersReport
<1> QED BY <1>3, <1>4, <1>5, <1>7

\* The rest of the invariant speaks of the slots.
LEMMA TrapOrder ==
    ASSUME CallInv, ProgInv, Trap, pc' \in [Idx -> Label],
           UNCHANGED <<booting, app_pid, scenario, dir_client>>,
           \A r \in Pid : r < GPID_USER_START => PcOf(r)' = PcOf(r)
    PROVE  ProgTypeOK' /\ KnownInOrder' /\ DirClientKnown' /\ OneLoading'
           /\ SlotsInOrder' /\ CallsAreAccepted'
<1>0. /\ ProgTypeOK /\ KnownInOrder /\ DirClientKnown /\ OneLoading /\ SlotsInOrder
  BY DEF ProgInv
<1>1. /\ UNCHANGED pid /\ fatal = "none"
      /\ \A q \in Pid : /\ Used(q)' <=> Used(q)
                        /\ StatusOf(q)' = "PROC_LOADING" <=> StatusOf(q) = "PROC_LOADING"
  BY TrapSlots DEF Used
<1>2. /\ PcOf(GPID_PROCESS)' = PcOf(GPID_PROCESS) /\ PcOf(GPID_DIR)' = PcOf(GPID_DIR)
      /\ \A q \in GPID_PROCESS .. GPID_SHELL : q \in Pid
  BY Sizes
<1>3. ProgTypeOK' BY <1>0 DEF ProgTypeOK
<1>4. KnownInOrder' BY <1>0, <1>1 DEF KnownInOrder, Known
<1>5. DirClientKnown' BY <1>0, <1>1, <1>2 DEF DirClientKnown, Known
<1>6. OneLoading' BY <1>0, <1>1, <1>2 DEF OneLoading
<1>7. SlotsInOrder' BY <1>0, <1>1, <1>2 DEF SlotsInOrder
<1> QED BY <1>3, <1>4, <1>5, <1>6, <1>7, TrapAccepted

LEMMA TrapKeeps ==
    ASSUME CallInv, ProgInv, ctrl_c \/ syscall \/ timer
    PROVE  Next /\ ProgInv'
<1>1. CASE ctrl_c
  <2>1. /\ intr_ctrl_c /\ Goto("exit") /\ Trap /\ fatal = "none"
        /\ UNCHANGED <<booting, app_pid, scenario, dir_client>>
        /\ UNCHANGED <<pid, status, sc, from_sender_pid, to_receiver_pid, fatal,
                       proc_curr_idx>>
    BY <1>1 DEF ctrl_c, intr_ctrl_c, Trap, SysProcLocals, SysDirLocals, ShellLocals
  <2>2. PICK p \in Pid : p = curr_pid /\ proc_curr_idx = pid2idx(p)
    BY <2>1, Before, PidSlots
  <2>3. p >= GPID_USER_START BY <2>1, <2>2 DEF intr_ctrl_c
  <2>4. "exit" \in Label /\ "exit" \notin GotLabel BY DEF Label, GotLabel
  <2>5. /\ pc' \in [Idx -> Label] /\ PcOf(p)' = "exit"
        /\ \A q \in Pid : q # p => PcOf(q)' = PcOf(q)
    BY <2>1, <2>2, <2>4, GotoFacts DEF ProgInv, ProgTypeOK
  <2>6. calls' = calls BY <2>1 DEF calls, CallOf, Sending
  <2>7. \A r \in Pid : r < GPID_USER_START => PcOf(r)' = PcOf(r)
    BY <2>3, <2>5, Sizes
  <2>8. Offers' /\ Answers' /\ ExitsAreOfApps' /\ ServersReport'
    BY <2>1, <2>3, <2>4, <2>5, <2>6, StillKeeps DEF StatusOf
  <2>9. ProgTypeOK' /\ KnownInOrder' /\ DirClientKnown' /\ OneLoading'
        /\ SlotsInOrder' /\ CallsAreAccepted'
    BY <2>1, <2>5, <2>7, TrapOrder
  <2> QED BY <2>1, <2>8, <2>9 DEF ProgInv, Next
<1>2. CASE syscall \/ timer
  <2>1. Trap /\ UNCHANGED <<pc, booting, app_pid, scenario, dir_client>>
    BY <1>2 DEF syscall, timer, Trap, progVars
  <2>2. pc' \in [Idx -> Label] /\ \A r \in Pid : PcOf(r)' = PcOf(r)
    BY <2>1 DEF ProgInv, ProgTypeOK, PcOf
  <2>3. ProgTypeOK' /\ KnownInOrder' /\ DirClientKnown' /\ OneLoading'
        /\ SlotsInOrder' /\ CallsAreAccepted'
    BY <2>1, <2>2, TrapOrder
  <2>4. UNCHANGED pid /\ \A r \in Pid, x \in {"PROC_UNUSED", "PROC_LOADING"} :
                             StatusOf(r)' = x <=> StatusOf(r) = x
    BY <2>1, TrapSlots
  <2>5. CASE calls' = calls
    BY <2>1, <2>2, <2>3, <2>4, <2>5, StillKeeps DEF ProgInv, Next
  <2>6. CASE Moves
    BY <2>1, <2>3, <2>4, <2>6, MoveKeeps DEF Moves, ProgInv, Next
  <2> QED BY <2>1, <2>5, <2>6, SimTrap
<1> QED BY <1>1, <1>2

-----------------------------------------------------------------------------
(***************************************************************************)
(* The theorems.                                                           *)
(***************************************************************************)
LEMMA ProgInit == EgosInit => CallInv /\ ProgInv
<1> SUFFICES ASSUME EgosInit PROVE ProgInv BY CallInvInit DEF EgosInit
<1>0. Init /\ CallInv BY CallInvInit DEF EgosInit
<1>1. /\ \A p \in Pid : /\ PcOf(p) = IF p = GPID_PROCESS THEN "boot_alloc"
                                     ELSE NoProcess
                        /\ StatusOf(p) = IF p = GPID_PROCESS THEN "PROC_RUNNING"
                                         ELSE "PROC_UNUSED"
                        /\ Known(p) <=> p = GPID_PROCESS
  <2>1. \A p \in Pid : pid2idx(p) \in Idx /\ (pid2idx(p) = 0 <=> p = GPID_PROCESS)
    BY SizeAssumption DEF Pid, Idx, pid2idx, GPID_PROCESS
  <2>2. \A p \in Pid : p # 0 BY DEF Pid
  <2> QED BY <1>0, <2>1, <2>2 DEF EgosInit, Init, PcOf, StatusOf, Known
<1>2. GPID_PROCESS \in Pid /\ PcOf(GPID_PROCESS) = "boot_alloc"
  BY <1>1, Ranges
<1>3. \A p \in Pid : PcOf(p) \notin GotLabel /\ PcOf(p) \notin {"dir_block", "dir_reply"}
  BY <1>1 DEF GotLabel, NoProcess
<1>4. \A p \in Pid : calls[p].mode # "send"
  <2>1. ASSUME NEW p \in Pid PROVE CallOf(pid2idx(p)).mode # "send"
    <3>1. pid2idx(p) \in Idx BY PidSlots
    <3>2. View(pid2idx(p)) BY <1>0, <3>1, CallView DEF Init
    <3> QED BY <1>0, <1>1, <3>1, <3>2
            DEF StatusOf, Init, FreshPage, View, Active, IPC!Dead, IPC!Run
  <2> QED BY <2>1 DEF calls
<1>5. ProgTypeOK
  <2>1. pc \in [Idx -> Label] BY DEF EgosInit, Label
  <2>2. scenario \in Scenario BY EgosAssumption DEF EgosInit
  <2>3. booting \in GPID_FILE .. GPID_SHELL /\ app_pid \in 0 .. MAX_NPROCESS
        /\ dir_client \in 0 .. MAX_NPROCESS
    BY Sizes DEF EgosInit
  <2> QED BY <2>1, <2>2, <2>3 DEF ProgTypeOK
<1>6. KnownInOrder BY <1>1, Sizes DEF KnownInOrder
<1>7. Offers /\ Answers /\ ExitsAreOfApps BY <1>2, <1>3, <1>4
      DEF Offers, Answers, ExitsAreOfApps
<1>8. DirClientKnown
  <2>1. GPID_DIR \in Pid BY Sizes
  <2> QED BY <1>3, <2>1 DEF DirClientKnown
<1>9. OneLoading BY <1>1, <1>2 DEF OneLoading, LoadLabel
<1>10. SlotsInOrder
  <2>1. booting = 2 /\ GPID_PROCESS = 1 BY Sizes DEF EgosInit
  <2>2. \A p \in Pid : p = 1 <=> p < 2 BY DEF Pid
  <2> QED BY <1>1, <1>2, <2>1, <2>2 DEF SlotsInOrder, Used, BootLabel
<1>11. ServersReport
  <2>1. \A s \in Servers : ServerPhase(s)
    BY <1>1, Labels DEF ServerPhase
  <2>2. \A s \in Servers : ~(s < booting - 1) /\ s # booting - 1
    BY Sizes DEF Servers, EgosInit
  <2> QED BY <1>2, <2>1, <2>2 DEF ServersReport, BootLabel
<1>12. CallsAreAccepted BY <1>0 DEF Init, CallsAreAccepted
<1> QED BY <1>5, <1>6, <1>7, <1>8, <1>9, <1>10, <1>11, <1>12 DEF ProgInv

\* Every step of a program is one that the kernel's specification allows, and
\* keeps the invariant.
LEMMA ProgStep ==
    CallInv /\ ProgInv /\ [EgosNext]_allVars => [Next]_vars /\ CallInv' /\ ProgInv'
<1> SUFFICES ASSUME CallInv, ProgInv, [EgosNext]_allVars
             PROVE  [Next]_vars /\ ProgInv'
  BY CallInvStep
<1>1. CASE sys_proc
  BY <1>1, MainCallKeeps, BootRecvKeeps, BootAllocKeeps, SpawnAllocKeeps,
     BootReadyKeeps, LoadDoneKeeps, SpawnReadyKeeps, ExitKeeps, KillKeeps
  DEF sys_proc, MainCall
<1>2. CASE UNCHANGED allVars
  <2>1. UNCHANGED vars /\ UNCHANGED progVars BY <1>2 DEF allVars
  <2>2. calls' = calls BY <2>1 DEF vars, calls, CallOf, Sending
  <2>3. UNCHANGED <<status, pid, fatal, pc, booting, app_pid, dir_client, scenario>>
    BY <2>1 DEF vars, progVars
  <2>4. ProgInv'
    BY <2>2, <2>3, ZenonT(60)
    DEF ProgInv, ProgTypeOK, KnownInOrder, Offers, Answers, ExitsAreOfApps,
        DirClientKnown, OneLoading, SlotsInOrder, ServersReport, CallsAreAccepted,
        ServerPhase, Up, Used, Known, PcOf, StatusOf
  <2> QED BY <2>1, <2>4
<1> QED BY <1>1, <1>2, FileKeeps, DirKeeps, ShellKeeps, AppKeeps, TrapKeeps
        DEF EgosNext

\* The programs' invariant holds in every reachable state.
THEOREM EgosInvariance == EgosSpec => [](CallInv /\ ProgInv)
<1>1. CallInv /\ ProgInv /\ [EgosNext]_allVars => (CallInv /\ ProgInv)'
  BY ProgStep
<1> QED BY ProgInit, <1>1, PTL DEF EgosSpec

\* The system processes and the applications use the kernel as its
\* specification assumes.  In particular sys_proc, which obeys whatever
\* PROC_EXIT message it is sent, only ever frees applications, and nobody
\* sends to or frees a pid outside the process table.
THEOREM EgosUsesKernel == EgosSpec => Spec
<1>1. EgosInit => Init BY DEF EgosInit
<1> QED BY <1>1, ProgStep, EgosInvariance, PTL DEF EgosSpec, Spec

\* Hence what is proved of the kernel for arbitrary processes holds of egos.
THEOREM EgosRendezvous ==
    EgosSpec => ImplementsRendezvous /\ NoOvertaking /\ []NoMissedRendezvous
BY EgosUsesKernel, KernelImplementsRendezvous, BoundedBypass,
   RendezvousNeverMissed, PTL

\* Neither the assertion of proc_send on its receiver nor that of sys_recv on
\* its sender fails, whatever the users type and whenever applications exit
\* or are killed: a server's answer to a client that is gone still names a
\* slot that has had a process.
THEOREM EgosCallsAccepted == EgosSpec => []CallsAreAccepted
BY EgosInvariance, PTL DEF ProgInv

\* All three servers have reported to sys_proc and are in their loops, at the
\* pids that servers.h fixes, before the shell or an application has a slot.
THEOREM EgosServersFirst == EgosSpec => []ServersBootFirst
<1>1. CallInv /\ ProgInv => ServersBootFirst
  <2> SUFFICES ASSUME CallInv, ProgInv, NEW p \in Pid, p >= GPID_SHELL,
                      StatusOf(p) # "PROC_UNUSED"
               PROVE  /\ PcOf(GPID_FILE) \in {"file_recv", "file_got"}
                      /\ PcOf(GPID_DIR) \in {"dir_recv", "dir_got", "dir_block", "dir_reply"}
                      /\ PcOf(GPID_NET) \in {"net_recv", "net_got"}
                      /\ \A s \in Servers :
                            ~ /\ StatusOf(s) = "PROC_WAIT_TO_SEND"
                              /\ to_receiver_pid[pid2idx(s)] = GPID_PROCESS
                              /\ sc[pid2idx(s)].content = "initialized"
    BY DEF ServersBootFirst
  <2>1. PICK b \in 2 .. 5 : b = booting BY Sizes DEF ProgInv, ProgTypeOK
  <2>2. SlotsInOrder /\ ServersReport /\ Used(p) BY DEF ProgInv, Used
  <2>3. \A s \in Servers : Up(s)
    <3>1. CASE PcOf(GPID_PROCESS) = "boot_alloc"
      BY <2>1, <2>2, <3>1, Sizes DEF SlotsInOrder
    <3>2. CASE PcOf(GPID_PROCESS) \in {"boot_ready", "boot_recv"}
      <4>1. p <= b BY <2>1, <2>2, <3>2 DEF SlotsInOrder
      <4>2. b = 5 BY <4>1, Sizes
      <4>3. \A s \in Servers : s < b BY <4>2, Sizes DEF Servers
      <4> QED BY <2>1, <2>2, <3>2, <4>3 DEF ServersReport
    <3>3. CASE PcOf(GPID_PROCESS) \notin BootLabel
      BY <2>2, <3>3 DEF ServersReport
    <3> QED BY <3>1, <3>2, <3>3 DEF BootLabel
  <2>4. /\ UpLabel(GPID_FILE) = {"file_recv", "file_got"}
        /\ UpLabel(GPID_DIR) = {"dir_recv", "dir_got", "dir_block", "dir_reply"}
        /\ UpLabel(GPID_NET) = {"net_recv", "net_got"}
    BY Sizes DEF UpLabel
  <2>5. ASSUME NEW s \in Servers, StatusOf(s) = "PROC_WAIT_TO_SEND",
               to_receiver_pid[pid2idx(s)] = GPID_PROCESS,
               sc[pid2idx(s)].content = "initialized"
        PROVE  FALSE
    <3>1. s \in Pid BY Labels
    <3>2. calls[s] = IPC!Send(GPID_PROCESS, "initialized")
      BY <2>5, <3>1 DEF calls, CallOf, StatusOf, IPC!Send
    <3> QED BY <2>3, <3>2 DEF Up
  <2> QED BY <2>3, <2>4, <2>5 DEF Up, Servers
<1> QED BY <1>1, EgosInvariance, PTL

-----------------------------------------------------------------------------
(***************************************************************************)
(* The dialogues: who asks whom for what, and who is about to answer.      *)
(* All of it is stated of calls, where being blocked is invisible.         *)
(***************************************************************************)
\* Nobody is killed between its request to a server and the reply: there are
\* no requests, or ctrl+c comes between calls and killall meets no
\* application, because there are none in the background.
CleanKills(s) ==
    \/ s.servers = {}
    \/ /\ s.ctrl_c # "any time"
       /\ "PROC_KILLALL" \in s.commands => "SPAWN &" \notin s.commands

\* A foreground command that fails leaves no running application behind in
\* app_pid: there are no such commands or none in the background.
CleanFailures(s) ==
    "SPAWN missing" \in s.commands => "SPAWN &" \notin s.commands

MainLabel ==
    {"boot_alloc", "boot_ready", "boot_recv", "main_recv", "main_got",
     "spawn_bin", "spawn_lookup", "spawn_ino", "spawn_found", "load_send",
     "load_recv", "spawn_ready", "spawn_reply", "exit_notice"}

ShellLabel ==
    {"shell_next", "shell_fg", "shell_reading", "shell_recv", "shell_reply"}

AppLabel == {"app", "slept", "sleep_yield", "exit", "exited"}

\* Where the program of process p can be.
Role(p) ==
    IF p = GPID_PROCESS THEN MainLabel
    ELSE IF p = GPID_FILE THEN {"file_init", "file_recv", "file_got"}
    ELSE IF p = GPID_DIR
    THEN {"dir_init", "dir_recv", "dir_got", "dir_block", "dir_reply"}
    ELSE IF p = GPID_NET THEN {"net_init", "net_recv", "net_got"}
    ELSE IF p = GPID_SHELL THEN ShellLabel
    ELSE AppLabel \cup {WaitLabel(s) : s \in scenario.servers}

Roles ==
    \A p \in Pid : IF calls[p].mode = "dead" THEN PcOf(p) = NoProcess
                   ELSE PcOf(p) \in Role(p)

\* A program that continues at label l may be sending m to q.
MaySend(l, q, m) ==
    \/ /\ l \in {"file_recv", "net_recv", "dir_recv"}
       /\ (q = GPID_PROCESS /\ m = "initialized") \/ m = "ok"
    \/ l = "dir_recv" /\ m = "DIR_ERROR"
    \/ l = "dir_block" /\ q = GPID_FILE /\ m = "request"
    \/ l = "main_recv" /\ q = GPID_SHELL /\ m \in {"CMD_OK", "CMD_ERROR", "PROC_EXIT"}
    \/ /\ l \in {"spawn_bin", "spawn_ino"} /\ q = GPID_DIR
       /\ m \in {"request", "lookup missing"}
    \/ l = "load_recv" /\ q = GPID_FILE /\ m = "request"
    \/ /\ l = "shell_next" /\ q = GPID_PROCESS /\ m = "PROC_KILLALL"
       /\ m \in scenario.commands
    \/ l = "shell_recv" /\ q = GPID_PROCESS /\ m \in Spawn /\ m = shell_cmd
    \/ l = WaitLabel(q) /\ q \in scenario.servers /\ m = "request"
    \/ l \in {"sleep_yield", "exit"} /\ q = GPID_PROCESS /\ m = "PROC_SLEEP"
    \/ l \in {"exited", "exit"} /\ q = GPID_PROCESS /\ m = "PROC_EXIT"
    \/ /\ l = "exit" /\ q \in scenario.servers /\ m = "request"
       /\ ~CleanKills(scenario)

\* A program that continues at label l may be receiving from s.
MayRecv(l, s) ==
    \/ l \in GotLabel /\ s = 0
    \/ l \in {"spawn_lookup", "spawn_found"} /\ s = GPID_DIR
    \/ l \in {"load_send", "dir_reply"} /\ s = GPID_FILE
    \/ l \in {"shell_reply", "shell_fg"} /\ s = GPID_PROCESS
    \/ l \in {"app", "exit"} /\ s \in scenario.servers
    \/ l = "boot_alloc" /\ s \in Servers

\* Every call is the one that the program makes there.
Script ==
    \A p \in Pid :
       /\ calls[p].mode = "send" => MaySend(PcOf(p), calls[p].peer, calls[p].content)
       /\ calls[p].mode = "recv" => MayRecv(PcOf(p), calls[p].peer)

\* Where process p is between its request to server s and the receive of the
\* reply.
AskLabel(p, s) ==
    IF p = GPID_PROCESS
    THEN IF s = GPID_DIR THEN {"spawn_bin", "spawn_ino"}
         ELSE IF s = GPID_FILE THEN {"load_recv"} ELSE {}
    ELSE IF p = GPID_DIR THEN IF s = GPID_FILE THEN {"dir_block"} ELSE {}
    ELSE IF p >= GPID_USER_START THEN {WaitLabel(s)} ELSE {}

\* The request of p to server s has been taken, and p has no reply yet.
Expects(p, s) ==
    \/ calls[p].mode = "recv" /\ calls[p].peer = s
    \/ calls[p].mode = "run" /\ PcOf(p) \in AskLabel(p, s)

TakeLabel == {"file_got", "dir_got", "net_got"}

\* Server s has taken a request of p and looks at it.
Takes(s, p) ==
    PcOf(s) \in TakeLabel /\ calls[s].mode = "run" /\ calls[s].peer = p

\* Server s replies to p.
Replies(s, p) ==
    /\ calls[s].mode = "send" /\ calls[s].peer = p
    /\ calls[s].content \in {"ok", "DIR_ERROR"}

\* Server s is at work on the request of p.
Serves(s, p) ==
    \/ Takes(s, p)
    \/ s = GPID_DIR /\ PcOf(s) \in DirWait /\ dir_client = p
    \/ Replies(s, p)

\* Whoever expects a reply is being served.
Served ==
    \A s \in Servers, p \in Pid :
       Expects(p, s) /\ ~(p = GPID_PROCESS /\ PcOf(p) = "boot_alloc") => Serves(s, p)

\* A server works for processes that expect its reply: always for the system
\* processes, and for applications if nobody is killed in between.
Wanted ==
    \A s \in Servers, p \in Pid :
       Serves(s, p) /\ (p < GPID_USER_START \/ CleanKills(scenario)) => Expects(p, s)

\* sys_proc is about to receive the report of server s, or waits for it.
Awaits(s) ==
    \/ PcOf(GPID_PROCESS) = "boot_recv" /\ s = booting
    \/ /\ PcOf(GPID_PROCESS) = "boot_alloc"
       /\ calls[GPID_PROCESS].mode = "recv" /\ calls[GPID_PROCESS].peer = s

\* During the boot sys_proc computes, or waits for the server it has just
\* started; that server does not pass its report before sys_proc takes it.
BootWait ==
    /\ PcOf(GPID_PROCESS) \in BootLabel =>
          \/ calls[GPID_PROCESS].mode = "run"
          \/ /\ PcOf(GPID_PROCESS) = "boot_alloc" /\ calls[GPID_PROCESS].mode = "recv"
             /\ calls[GPID_PROCESS].peer = booting - 1
    /\ \A s \in Servers : Awaits(s) => ~Up(s)

\* The process that sys_proc is about to free has entered exit(), and waits
\* for nobody.
Exiting ==
    /\ PcOf(GPID_PROCESS) = "main_got" /\ calls[GPID_PROCESS].mode = "run"
    /\ calls[GPID_PROCESS].content = "PROC_EXIT"
    => /\ PcOf(calls[GPID_PROCESS].peer) \in {"exit", "exited"}
       /\ calls[calls[GPID_PROCESS].peer].mode \in {"run", "send"}

ServerInv == Roles /\ Script /\ Served /\ Wanted /\ BootWait /\ Exiting

\* A label tells whose program it belongs to.
LEMMA Who ==
    ASSUME Roles, NEW p \in Pid
    PROVE  /\ PcOf(p) \in MainLabel => p = GPID_PROCESS
           /\ PcOf(p) \in {"file_init", "file_recv", "file_got"} => p = GPID_FILE
           /\ PcOf(p) \in {"dir_init", "dir_recv", "dir_got", "dir_block", "dir_reply"}
              => p = GPID_DIR
           /\ PcOf(p) \in {"net_init", "net_recv", "net_got"} => p = GPID_NET
           /\ PcOf(p) \in ShellLabel => p = GPID_SHELL
           /\ PcOf(p) \in AppLabel \cup {"wait_file", "wait_dir", "wait_net"}
              => p >= GPID_USER_START
<1>0. PcOf(p) = NoProcess \/ PcOf(p) \in Role(p) BY DEF Roles
<1>1. \A s : WaitLabel(s) \in {"wait_file", "wait_dir", "wait_net"} BY DEF WaitLabel
<1>2. p \in {GPID_PROCESS, GPID_FILE, GPID_DIR, GPID_NET, GPID_SHELL}
      \/ p >= GPID_USER_START
  BY Sizes
<1> QED BY <1>0, <1>1, <1>2 DEF Role, MainLabel, ShellLabel, AppLabel, NoProcess

\* The servers that applications may call are servers.
LEMMA ScenarioServers ==
    ASSUME ProgInv
    PROVE  scenario.servers \subseteq Servers
BY DEF ProgInv, ProgTypeOK, Scenario, Servers

LEMMA Distinct ==
    /\ GPID_PROCESS = 1 /\ GPID_SHELL = 5 /\ GPID_USER_START = 6
    /\ GPID_PROCESS \notin Servers /\ GPID_SHELL \notin Servers /\ 0 \notin Servers
    /\ GPID_PROCESS # GPID_SHELL /\ GPID_FILE # GPID_DIR /\ GPID_FILE # GPID_NET
    /\ GPID_DIR # GPID_NET
    /\ {GPID_FILE, GPID_DIR, GPID_NET, GPID_PROCESS, GPID_SHELL} \subseteq Pid
    /\ Servers = {GPID_FILE, GPID_DIR, GPID_NET}
    /\ \A s \in Servers : s \in Pid /\ s < GPID_USER_START
    /\ \A p \in Pid : p # 0 /\ p \in Nat
BY Sizes DEF Servers

\* A step that changes nobody's expectations, and nobody's work.
KeepsExpects(p) ==
    \A s \in Servers :
       /\ Expects(p, s) => Expects(p, s)'
       /\ Expects(p, s)' => Expects(p, s) \/ (p = GPID_PROCESS /\ PcOf(p)' = "boot_alloc")

KeepsServes(s) == \A p \in Pid : Serves(s, p)' <=> Serves(s, p)

LEMMA AllKept ==
    ASSUME Served, Wanted, UNCHANGED scenario,
           \A p \in Pid : KeepsExpects(p), \A s \in Servers : KeepsServes(s),
           \/ PcOf(GPID_PROCESS)' = PcOf(GPID_PROCESS)
           \/ calls[GPID_PROCESS].mode = "run"
    PROVE  Served' /\ Wanted'
<1>1. ASSUME NEW s \in Servers, NEW p \in Pid, Expects(p, s)',
             ~(p = GPID_PROCESS /\ PcOf(p)' = "boot_alloc")
      PROVE  Serves(s, p)'
  <2>1. Expects(p, s) BY <1>1 DEF KeepsExpects
  <2>2. ~(p = GPID_PROCESS /\ PcOf(p) = "boot_alloc")
    BY <1>1, <2>1 DEF Expects, AskLabel
  <2> QED BY <2>1, <2>2 DEF Served, KeepsServes
<1>2. ASSUME NEW s \in Servers, NEW p \in Pid, Serves(s, p)',
             p < GPID_USER_START \/ CleanKills(scenario)
      PROVE  Expects(p, s)'
  BY <1>2 DEF Wanted, KeepsServes, KeepsExpects
<1>3. CleanKills(scenario)' <=> CleanKills(scenario) BY DEF CleanKills
<1> QED BY <1>1, <1>2, <1>3 DEF Served, Wanted

\* A posted call follows the script.
LEMMA PostScript ==
    ASSUME ServerInv, NEW p \in Pid, NEW v, NEW l, Posts(p, v, l), l \in Role(p),
           v.mode \in {"send", "recv", "run"},
           UNCHANGED scenario, p # GPID_SHELL => UNCHANGED shell_cmd,
           v.mode = "send" => MaySend(l, v.peer, v.content)',
           v.mode = "recv" => MayRecv(l, v.peer)
    PROVE  Roles' /\ Script'
<1>0. Roles /\ Script BY DEF ServerInv
<1>1. /\ calls'[p] = v /\ \A q \in Pid : q # p => calls'[q] = calls[q]
      /\ PcOf(p)' = l /\ \A q \in Pid : q # p => PcOf(q)' = PcOf(q)
  BY PostCall DEF Posts
<1>2. \A q : Role(q)' = Role(q) BY DEF Role
<1>3. Roles' BY <1>0, <1>1, <1>2 DEF Roles
<1>4. \A k, s : MayRecv(k, s)' <=> MayRecv(k, s) BY DEF MayRecv
<1>5. ASSUME NEW q \in Pid, q # p, calls[q].mode = "send"
      PROVE  MaySend(PcOf(q), calls[q].peer, calls[q].content)'
  <2>1. MaySend(PcOf(q), calls[q].peer, calls[q].content)
    BY <1>0, <1>5 DEF Script
  <2>2. PcOf(q) = "shell_recv" => q = GPID_SHELL BY <1>0, Who DEF ShellLabel
  <2>3. PcOf(q)' = PcOf(q) /\ calls'[q] = calls[q] BY <1>1, <1>5
  <2>4. CASE PcOf(q) = "shell_recv"
    BY <1>5, <2>1, <2>2, <2>3, <2>4 DEF MaySend, WaitLabel
  <2>5. CASE PcOf(q) # "shell_recv"
    <3>1. CleanKills(scenario)' <=> CleanKills(scenario) BY DEF CleanKills
    <3> QED BY <2>1, <2>3, <2>5, <3>1, ZenonT(60) DEF MaySend
  <2> QED BY <2>4, <2>5
<1>6. Script'
  <2>1. ASSUME NEW q \in Pid, calls'[q].mode = "send"
        PROVE  MaySend(PcOf(q), calls[q].peer, calls[q].content)'
    BY <1>1, <1>5, <2>1
  <2>2. ASSUME NEW q \in Pid, calls'[q].mode = "recv"
        PROVE  MayRecv(PcOf(q), calls[q].peer)'
    BY <1>0, <1>1, <1>4, <2>2 DEF Script
  <2> QED BY <2>1, <2>2 DEF Script
<1> QED BY <1>3, <1>6

\* The part of the invariant that a posted call leaves to check.
LEMMA PostServer ==
    ASSUME CallInv, ProgInv, ServerInv, NEW p \in Pid, NEW v, NEW l, Posts(p, v, l),
           l \in Role(p), v.mode \in {"send", "recv", "run"},
           UNCHANGED <<scenario, booting>>,
           p # GPID_SHELL => UNCHANGED shell_cmd, p # GPID_DIR => UNCHANGED dir_client,
           v.mode = "send" => MaySend(l, v.peer, v.content)',
           v.mode = "recv" => MayRecv(l, v.peer),
           KeepsExpects(p), p \in Servers => KeepsServes(p) /\ ServerPosts(p, v, l),
           p = GPID_PROCESS =>
              PcOf(p) \notin BootLabel /\ l \notin BootLabel
              /\ (v.mode = "run" => l # "main_got"),
           PcOf(p) \in {"exit", "exited"} =>
              l \in {"exit", "exited"} /\ v.mode \in {"run", "send"}
    PROVE  ServerInv'
<1>0. Roles /\ Script /\ Served /\ Wanted /\ BootWait /\ Exiting BY DEF ServerInv
<1>1. /\ calls'[p] = v /\ \A q \in Pid : q # p => calls'[q] = calls[q]
      /\ calls[p].mode = "run"
      /\ PcOf(p)' = l /\ \A q \in Pid : q # p => PcOf(q)' = PcOf(q)
      /\ \A q \in Pid : StatusOf(q)' = StatusOf(q)
  BY PostCall DEF Posts
<1>2. Roles' /\ Script' BY PostScript
<1>3. Served' /\ Wanted'
  <2>1. ASSUME NEW q \in Pid PROVE KeepsExpects(q)
    BY <1>1, <2>1 DEF KeepsExpects, Expects, AskLabel
  <2>2. ASSUME NEW s \in Servers PROVE KeepsServes(s)
    <3>1. CASE s = p BY <3>1
    <3>2. CASE s # p
      BY <1>1, <3>2, Distinct DEF KeepsServes, Serves, Takes, Replies
    <3> QED BY <3>1, <3>2
  <2> QED BY <1>0, <1>1, <2>1, <2>2, AllKept, Distinct
<1>4. BootWait'
  <2>1. CASE p = GPID_PROCESS
    <3>1. PcOf(GPID_PROCESS)' \notin BootLabel BY <1>1, <2>1
    <3> QED BY <3>1 DEF BootWait, Awaits, BootLabel
  <2>2. CASE p # GPID_PROCESS
    <3>1. /\ calls'[GPID_PROCESS] = calls[GPID_PROCESS]
          /\ PcOf(GPID_PROCESS)' = PcOf(GPID_PROCESS)
      BY <1>1, <2>2, Distinct
    <3>2. ASSUME NEW s \in Servers, Awaits(s)' PROVE ~Up(s)'
      <4>1. ~Up(s) /\ s \in Pid BY <1>0, <3>1, <3>2, Distinct DEF BootWait, Awaits
      <4>2. CASE p # s BY <1>1, <4>1, <4>2 DEF Up
      <4>3. CASE p = s
        <5>1. calls[p] # IPC!Send(GPID_PROCESS, "initialized")
          BY <1>1 DEF IPC!Send
        <5>2. StatusOf(p) \notin {"PROC_UNUSED", "PROC_LOADING"}
          BY <1>1, CallersAreUsed
        <5>3. PcOf(p) \notin UpLabel(p) BY <4>1, <4>3, <5>1, <5>2 DEF Up
        <5> QED BY <1>1, <4>3, <5>3 DEF ServerPosts, Up
      <4> QED BY <4>2, <4>3
    <3> QED BY <1>0, <3>1, <3>2 DEF BootWait
  <2> QED BY <2>1, <2>2
<1>5. Exiting'
  <2>1. SUFFICES ASSUME PcOf(GPID_PROCESS)' = "main_got",
                        calls'[GPID_PROCESS].mode = "run",
                        calls'[GPID_PROCESS].content = "PROC_EXIT"
                 PROVE  /\ PcOf(calls[GPID_PROCESS].peer)' \in {"exit", "exited"}
                        /\ calls'[calls'[GPID_PROCESS].peer].mode \in {"run", "send"}
    BY DEF Exiting
  <2>2. p # GPID_PROCESS BY <1>1, <2>1
  <2>3. PICK r : r = calls[GPID_PROCESS].peer OBVIOUS
  <2>4. /\ calls'[GPID_PROCESS] = calls[GPID_PROCESS]
        /\ PcOf(GPID_PROCESS) = "main_got" /\ calls[GPID_PROCESS].mode = "run"
        /\ calls[GPID_PROCESS].content = "PROC_EXIT"
    BY <1>1, <2>1, <2>2, Distinct
  <2>5. r \in Pid
    BY <2>3, <2>4, Distinct DEF ProgInv, Answers, GotLabel, Known
  <2>6. PcOf(r) \in {"exit", "exited"} /\ calls[r].mode \in {"run", "send"}
    BY <1>0, <2>3, <2>4 DEF Exiting
  <2>7. PcOf(r)' \in {"exit", "exited"} /\ calls'[r].mode \in {"run", "send"}
    BY <1>1, <2>5, <2>6
  <2> QED BY <2>3, <2>4, <2>7 DEF PcOf
<1> QED BY <1>2, <1>3, <1>4, <1>5 DEF ServerInv

-----------------------------------------------------------------------------
(***************************************************************************)
(* The steps of the programs, in terms of the calls.                       *)
(***************************************************************************)
\* Process p goes from label k to label l and posts the call v.
Says(p, k, v, l) == Posts(p, v, l) /\ PcOf(p) = k

ServerTalk(p, init, wait, got) ==
    /\ \/ Says(p, init, IPC!Send(GPID_PROCESS, "initialized"), wait)
       \/ Says(p, wait, IPC!Recv(0), got)
       \/ Says(p, got, IPC!Send(calls[p].peer, "ok"), wait)
    /\ UNCHANGED <<SysProcLocals, SysDirLocals, ShellLocals>>

LEMMA ServerSays ==
    ASSUME CallInv, ProgInv, NEW p \in Servers, NEW init \in Label, NEW wait \in Label,
           NEW got \in Label \cap GotLabel, Server(p, init, wait, got)
    PROVE  ServerTalk(p, init, wait, got)
<1>0. /\ p \in Pid /\ GPID_PROCESS \in Pid /\ 0 \in 0 .. GPID_SHELL
      /\ "initialized" \in Contents /\ "ok" \in Contents
  <2>1. "initialized" \in Contents /\ "ok" \in Contents BY Sizes DEF Message
  <2> QED BY <2>1, Labels, Sizes
<1>1. CASE At(p, init) /\ sys_send(GPID_PROCESS, "initialized") /\ Goto(wait)
  <2>1. Posts(p, IPC!Send(GPID_PROCESS, "initialized"), wait)
    BY <1>0, <1>1, SendPosts DEF At
  <2> QED BY <1>1, <2>1 DEF Server, ServerTalk, Says, At, PcOf
<1>2. CASE At(p, wait) /\ sys_recv(0) /\ Goto(got)
  <2>1. Posts(p, IPC!Recv(0), got) BY <1>0, <1>2, RecvPosts DEF At
  <2> QED BY <1>2, <2>1 DEF Server, ServerTalk, Says, At, PcOf
<1>3. CASE At(p, got) /\ sys_send(Sender, "ok") /\ Goto(wait)
  <2>1. proc_curr_idx = pid2idx(p) /\ PcOf(p) = got /\ InUserSpace
    BY <1>3 DEF At, PcOf, sys_send
  <2>2. Sender \in Pid BY <1>0, <2>1, SenderKnown DEF Known
  <2>3. PICK q \in Pid : q = Sender BY <2>2
  <2>4. Posts(p, IPC!Send(q, "ok"), wait) BY <1>0, <1>3, <2>1, <2>3, SendPosts
  <2>5. calls[p].peer = q BY <1>0, <2>3, <2>4, PostCall
  <2> QED BY <2>1, <2>4, <2>5 DEF Server, ServerTalk, Says
<1> QED BY <1>1, <1>2, <1>3 DEF Server

DirTalk ==
    /\ \/ /\ Says(GPID_DIR, "dir_init", IPC!Send(GPID_PROCESS, "initialized"), "dir_recv")
          /\ UNCHANGED SysDirLocals
       \/ /\ Says(GPID_DIR, "dir_recv", IPC!Recv(0), "dir_got")
          /\ UNCHANGED SysDirLocals
       \/ /\ Says(GPID_DIR, "dir_got", IPC!Send(GPID_FILE, "request"), "dir_block")
          /\ dir_client' = calls[GPID_DIR].peer /\ dir_req' = calls[GPID_DIR].content
       \/ /\ Says(GPID_DIR, "dir_block", IPC!Recv(GPID_FILE), "dir_reply")
          /\ UNCHANGED SysDirLocals
       \/ \E m \in {"DIR_ERROR", "ok"} :
             /\ m = "DIR_ERROR" <=> dir_req = "lookup missing"
             /\ Says(GPID_DIR, "dir_reply", IPC!Send(dir_client, m), "dir_recv")
             /\ UNCHANGED SysDirLocals
    /\ UNCHANGED <<SysProcLocals, ShellLocals>>

LEMMA DirSays == ASSUME CallInv, ProgInv, sys_dir PROVE DirTalk
<1>0. /\ GPID_DIR \in Pid /\ GPID_PROCESS \in Pid /\ GPID_FILE \in Pid
      /\ 0 \in 0 .. GPID_SHELL /\ GPID_FILE \in 0 .. GPID_SHELL
  BY Sizes
<1>m. {"initialized", "request", "DIR_ERROR", "ok"} \subseteq Contents
  BY Sizes DEF Message
<1>l. {"dir_recv", "dir_got", "dir_block", "dir_reply"} \subseteq Label BY DEF Label
<1>1. CASE dir_init
  <2>1. Posts(GPID_DIR, IPC!Send(GPID_PROCESS, "initialized"), "dir_recv")
    BY <1>0, <1>m, <1>l, <1>1, SendPosts DEF dir_init, At
  <2> QED BY <1>1, <2>1 DEF dir_init, DirTalk, Says, At, PcOf
<1>2. CASE dir_recv
  <2>1. Posts(GPID_DIR, IPC!Recv(0), "dir_got")
    BY <1>0, <1>l, <1>2, RecvPosts DEF dir_recv, At
  <2> QED BY <1>2, <2>1 DEF dir_recv, DirTalk, Says, At, PcOf
<1>3. CASE dir_read
  <2>1. Posts(GPID_DIR, IPC!Send(GPID_FILE, "request"), "dir_block")
    BY <1>0, <1>m, <1>l, <1>3, SendPosts DEF dir_read, At
  <2>2. calls[GPID_DIR].peer = Sender /\ calls[GPID_DIR].content = Received
    BY <1>0, <2>1, PostCall
  <2> QED BY <1>3, <2>1, <2>2 DEF dir_read, DirTalk, Says, At, PcOf
<1>4. CASE dir_block
  <2>1. Posts(GPID_DIR, IPC!Recv(GPID_FILE), "dir_reply")
    BY <1>0, <1>l, <1>4, RecvPosts DEF dir_block, At
  <2> QED BY <1>4, <2>1 DEF dir_block, DirTalk, Says, At, PcOf
<1>5. CASE dir_reply
  <2>1. proc_curr_idx = pid2idx(GPID_DIR) /\ PcOf(GPID_DIR) = "dir_reply"
    BY <1>5 DEF dir_reply, At, PcOf
  <2>2. PICK q \in Pid : q = dir_client
    BY <2>1 DEF ProgInv, DirClientKnown, Known
  <2>3. PICK m \in {"DIR_ERROR", "ok"} :
           sys_send(q, m) /\ (m = "DIR_ERROR" <=> dir_req = "lookup missing")
    BY <1>5, <2>2 DEF dir_reply
  <2>4. Posts(GPID_DIR, IPC!Send(q, m), "dir_recv")
    BY <1>0, <1>m, <1>l, <1>5, <2>1, <2>3, SendPosts DEF dir_reply
  <2> QED BY <1>5, <2>1, <2>2, <2>3, <2>4 DEF dir_reply, DirTalk, Says
<1> QED BY <1>1, <1>2, <1>3, <1>4, <1>5 DEF sys_dir

\* sys_proc posts the call v.
MainSays(k, v, l) == Says(GPID_PROCESS, k, v, l)

MainTalk ==
    /\ \/ /\ UNCHANGED <<req, shell_waiting>>
          /\ \/ MainSays("main_recv", IPC!Recv(0), "main_got")
             \/ MainSays("spawn_bin", IPC!Recv(GPID_DIR), "spawn_lookup")
             \/ \E m \in {"request", "lookup missing"} :
                   /\ m = "lookup missing" <=> req \in Missing
                   /\ MainSays("spawn_lookup", IPC!Send(GPID_DIR, m), "spawn_ino")
             \/ MainSays("spawn_ino", IPC!Recv(GPID_DIR), "spawn_found")
             \/ MainSays("load_send", IPC!Send(GPID_FILE, "request"), "load_recv")
             \/ MainSays("load_recv", IPC!Recv(GPID_FILE), "load_send")
             \/ /\ MainSays("main_got", IPC!Recv(0), "main_got")
                /\ calls[GPID_PROCESS].content = "PROC_SLEEP"
             \/ MainSays("exit_notice", IPC!Send(GPID_SHELL, "PROC_EXIT"), "main_recv")
       \/ /\ MainSays("main_got", IPC!Send(GPID_DIR, "request"), "spawn_bin")
          /\ calls[GPID_PROCESS].content \in Spawn
          /\ req' = calls[GPID_PROCESS].content /\ UNCHANGED shell_waiting
       \/ /\ \/ /\ MainSays("spawn_found", IPC!Send(GPID_SHELL, "CMD_ERROR"), "main_recv")
                /\ calls[GPID_PROCESS].content = "DIR_ERROR"
             \/ MainSays("spawn_reply", IPC!Send(GPID_SHELL, "CMD_OK"), "main_recv")
          /\ shell_waiting' = (req \notin Background) /\ UNCHANGED req
    /\ UNCHANGED <<booting, app_pid, SysDirLocals, ShellLocals>>

LEMMA MainCalls ==
    ASSUME CallInv, ProgInv, NEW k, NEW l \in Label, At(GPID_PROCESS, k), Goto(l)
    PROVE  /\ \A s \in 0 .. GPID_SHELL : sys_recv(s) => MainSays(k, IPC!Recv(s), l)
           /\ \A q \in Pid, m \in Contents :
                 sys_send(q, m) => MainSays(k, IPC!Send(q, m), l)
           /\ InUserSpace => calls[GPID_PROCESS].content = Received
<1>0. /\ GPID_PROCESS \in Pid /\ proc_curr_idx = pid2idx(GPID_PROCESS)
      /\ PcOf(GPID_PROCESS) = k
  BY Sizes DEF At, PcOf
<1>1. ASSUME NEW s \in 0 .. GPID_SHELL, sys_recv(s)
      PROVE  MainSays(k, IPC!Recv(s), l)
  BY <1>0, <1>1, RecvPosts DEF MainSays, Says
<1>2. ASSUME NEW q \in Pid, NEW m \in Contents, sys_send(q, m)
      PROVE  MainSays(k, IPC!Send(q, m), l)
  BY <1>0, <1>2, SendPosts DEF MainSays, Says
<1>3. InUserSpace => calls[GPID_PROCESS].content = Received
  BY <1>0, Running, Caller DEF IPC!Run
<1> QED BY <1>1, <1>2, <1>3

LEMMA MainTalks == ASSUME CallInv, ProgInv, MainCall PROVE MainTalk
<1>0. /\ 0 \in 0 .. GPID_SHELL /\ GPID_FILE \in 0 .. GPID_SHELL
      /\ GPID_DIR \in 0 .. GPID_SHELL
      /\ GPID_FILE \in Pid /\ GPID_DIR \in Pid /\ GPID_SHELL \in Pid
  BY Sizes
<1>m. /\ "request" \in Contents /\ "lookup missing" \in Contents
      /\ "CMD_OK" \in Contents /\ "CMD_ERROR" \in Contents
      /\ "PROC_EXIT" \in Contents
  BY Sizes DEF Message
<1>l. /\ "main_got" \in Label /\ "spawn_lookup" \in Label /\ "spawn_ino" \in Label
      /\ "spawn_found" \in Label /\ "load_recv" \in Label /\ "load_send" \in Label
      /\ "main_recv" \in Label /\ "spawn_bin" \in Label
  BY DEF Label
<1>i. InUserSpace
  BY DEF MainCall, main_recv, main_sleep, spawn_bin, spawn_ino, load_recv, main_spawn,
         spawn_lookup, spawn_failed, SpawnReply, load_send, spawn_reply, exit_notice,
         sys_send, sys_recv
<1>u. UNCHANGED <<booting, app_pid, SysDirLocals, ShellLocals>>
  BY DEF MainCall, main_recv, main_sleep, spawn_bin, spawn_ino, load_recv, main_spawn,
         spawn_lookup, spawn_failed, SpawnReply, load_send, spawn_reply, exit_notice,
         SysProcLocals
<1>1. CASE main_recv
  BY <1>0, <1>l, <1>u, <1>1, MainCalls DEF main_recv, MainTalk, SysProcLocals
<1>2. CASE main_sleep
  BY <1>0, <1>l, <1>u, <1>i, <1>2, MainCalls DEF main_sleep, MainTalk, SysProcLocals
<1>3. CASE spawn_bin
  BY <1>0, <1>l, <1>u, <1>3, MainCalls DEF spawn_bin, MainTalk, SysProcLocals
<1>4. CASE spawn_ino
  BY <1>0, <1>l, <1>u, <1>4, MainCalls DEF spawn_ino, MainTalk, SysProcLocals
<1>5. CASE load_recv
  BY <1>0, <1>l, <1>u, <1>5, MainCalls DEF load_recv, MainTalk, SysProcLocals
<1>6. CASE main_spawn
  BY <1>0, <1>m, <1>l, <1>u, <1>i, <1>6, MainCalls DEF main_spawn, MainTalk
<1>7. CASE spawn_lookup
  <2>1. PICK m \in {"request", "lookup missing"} :
           sys_send(GPID_DIR, m) /\ (m = "lookup missing" <=> req \in Missing)
    BY <1>7 DEF spawn_lookup
  <2>2. MainSays("spawn_lookup", IPC!Send(GPID_DIR, m), "spawn_ino")
    BY <1>0, <1>m, <1>l, <1>7, <2>1, MainCalls DEF spawn_lookup
  <2> QED BY <1>u, <1>7, <2>1, <2>2 DEF spawn_lookup, MainTalk, SysProcLocals
<1>8. CASE spawn_failed
  BY <1>0, <1>m, <1>l, <1>u, <1>i, <1>8, MainCalls
  DEF spawn_failed, SpawnReply, MainTalk
<1>9. CASE load_send
  BY <1>0, <1>m, <1>l, <1>u, <1>9, MainCalls DEF load_send, MainTalk
<1>10. CASE spawn_reply
  BY <1>0, <1>m, <1>l, <1>u, <1>10, MainCalls DEF spawn_reply, SpawnReply, MainTalk
<1>11. CASE exit_notice
  BY <1>0, <1>m, <1>l, <1>u, <1>11, MainCalls DEF exit_notice, MainTalk, SysProcLocals
<1> QED BY <1>1, <1>2, <1>3, <1>4, <1>5, <1>6, <1>7, <1>8, <1>9, <1>10, <1>11
        DEF MainCall

ShellTalk ==
    /\ \/ /\ UNCHANGED shell_cmd
          /\ \/ /\ \E k \in {"shell_next", "shell_fg"} :
                      Says(GPID_SHELL, k, calls[GPID_SHELL], "shell_reading")
             \/ Says(GPID_SHELL, "shell_reading", calls[GPID_SHELL], "shell_next")
             \/ Says(GPID_SHELL, "shell_recv", IPC!Recv(GPID_PROCESS), "shell_reply")
             \/ /\ Says(GPID_SHELL, "shell_reply", calls[GPID_SHELL], "shell_next")
                /\ \/ calls[GPID_SHELL].content # "CMD_OK"
                   \/ shell_cmd \in Background
             \/ /\ Says(GPID_SHELL, "shell_reply", IPC!Recv(GPID_PROCESS), "shell_fg")
                /\ calls[GPID_SHELL].content = "CMD_OK" /\ shell_cmd \notin Background
       \/ \E k \in {"shell_next", "shell_fg"} :
             /\ shell_cmd' \in scenario.commands
             /\ Says(GPID_SHELL, k, IPC!Send(GPID_PROCESS, shell_cmd'),
                     IF shell_cmd' = "PROC_KILLALL" THEN "shell_next" ELSE "shell_recv")
    /\ UNCHANGED <<SysProcLocals, SysDirLocals, scenario>>

LEMMA ShellTalks == ASSUME CallInv, ProgInv, sys_shell PROVE ShellTalk
<1>0. GPID_SHELL \in Pid /\ GPID_PROCESS \in Pid /\ GPID_PROCESS \in 0 .. GPID_SHELL
  BY Sizes
<1>l. /\ "shell_next" \in Label /\ "shell_recv" \in Label /\ "shell_reading" \in Label
      /\ "shell_reply" \in Label /\ "shell_fg" \in Label
  BY DEF Label
<1>u. UNCHANGED <<SysProcLocals, SysDirLocals, scenario>>
  BY DEF sys_shell, tty_read, shell_send, shell_recv, shell_go_on, shell_wait, ShellLocals
<1>a. ASSUME NEW k, NEW l \in Label, At(GPID_SHELL, k), Goto(l), InUserSpace
      PROVE  /\ UNCHANGED vars => Says(GPID_SHELL, k, calls[GPID_SHELL], l)
             /\ sys_recv(GPID_PROCESS) => Says(GPID_SHELL, k, IPC!Recv(GPID_PROCESS), l)
             /\ \A m \in Contents : sys_send(GPID_PROCESS, m) =>
                    Says(GPID_SHELL, k, IPC!Send(GPID_PROCESS, m), l)
             /\ calls[GPID_SHELL].content = Received
  <2>1. proc_curr_idx = pid2idx(GPID_SHELL) /\ PcOf(GPID_SHELL) = k
    BY <1>a DEF At, PcOf
  <2>2. UNCHANGED vars => Says(GPID_SHELL, k, calls[GPID_SHELL], l)
    BY <1>0, <1>a, <2>1, QuietPosts DEF Says
  <2>3. sys_recv(GPID_PROCESS) => Says(GPID_SHELL, k, IPC!Recv(GPID_PROCESS), l)
    BY <1>0, <1>a, <2>1, RecvPosts DEF Says
  <2>4. ASSUME NEW m \in Contents, sys_send(GPID_PROCESS, m)
        PROVE  Says(GPID_SHELL, k, IPC!Send(GPID_PROCESS, m), l)
    BY <1>0, <1>a, <2>1, <2>4, SendPosts DEF Says
  <2>5. calls[GPID_SHELL].content = Received
    BY <1>0, <1>a, <2>1, Running, Caller DEF IPC!Run
  <2> QED BY <2>2, <2>3, <2>4, <2>5
<1>1. CASE tty_read
  <2>1. CASE ShellAtNext /\ Goto("shell_reading")
    BY <1>l, <1>u, <1>a, <1>1, <2>1 DEF tty_read, ShellAtNext, ShellTalk, ShellLocals
  <2>2. CASE At(GPID_SHELL, "shell_reading") /\ Goto("shell_next")
    BY <1>l, <1>u, <1>a, <1>1, <2>2 DEF tty_read, ShellTalk, ShellLocals
  <2> QED BY <1>1, <2>1, <2>2 DEF tty_read
<1>2. CASE shell_send
  <2>1. PICK k \in {"shell_next", "shell_fg"} : At(GPID_SHELL, k)
    BY <1>2 DEF shell_send, ShellAtNext
  <2>2. PICK cmd \in scenario.commands :
           /\ shell_cmd' = cmd /\ sys_send(GPID_PROCESS, cmd)
           /\ Goto(IF cmd = "PROC_KILLALL" THEN "shell_next" ELSE "shell_recv")
    BY <1>2 DEF shell_send
  <2>3. PICK l \in Label : l = IF cmd = "PROC_KILLALL" THEN "shell_next" ELSE "shell_recv"
    BY <1>l
  <2>4. cmd \in Contents
    <3>1. cmd \in Spawn \cup {"PROC_KILLALL"} BY DEF ProgInv, ProgTypeOK, Scenario
    <3> QED BY <3>1, Sizes DEF Message
  <2>5. Says(GPID_SHELL, k, IPC!Send(GPID_PROCESS, cmd), l)
    BY <1>a, <2>1, <2>2, <2>3, <2>4 DEF sys_send
  <2> QED BY <1>u, <2>1, <2>2, <2>3, <2>5 DEF ShellTalk
<1>3. CASE shell_recv
  BY <1>l, <1>u, <1>a, <1>3 DEF shell_recv, sys_recv, ShellTalk, ShellLocals
<1>4. CASE shell_go_on
  BY <1>l, <1>u, <1>a, <1>4 DEF shell_go_on, ShellTalk, ShellLocals
<1>5. CASE shell_wait
  BY <1>l, <1>u, <1>a, <1>5 DEF shell_wait, sys_recv, ShellTalk, ShellLocals
<1> QED BY <1>1, <1>2, <1>3, <1>4, <1>5 DEF sys_shell

\* What application p does.
AppTalk(p) ==
    \/ \E k \in {"app", "slept"}, s \in scenario.servers :
          Says(p, k, IPC!Send(s, "request"), WaitLabel(s))
    \/ \E s \in Servers : Says(p, WaitLabel(s), IPC!Recv(s), "app")
    \/ \E k \in {"app", "slept"} :
          Says(p, k, IPC!Send(GPID_PROCESS, "PROC_SLEEP"), "sleep_yield")
    \/ Says(p, "sleep_yield", calls[p], "slept")
    \/ \E k \in {"app", "slept", "exit"} :
          Says(p, k, IPC!Send(GPID_PROCESS, "PROC_EXIT"), "exited")
    \/ Says(p, "exited", calls[p], "exited")

LEMMA AppTalks ==
    ASSUME CallInv, ProgInv, app
    PROVE  /\ \E p \in GPID_USER_START .. MAX_NPROCESS : AppTalk(p)
           /\ UNCHANGED <<SysProcLocals, SysDirLocals, ShellLocals>>
<1>0. InUserSpace /\ UNCHANGED <<SysProcLocals, SysDirLocals, ShellLocals>>
  BY DEF app, dir_query, file_query, net_query, query, app_reply, app_sleep,
         app_sleep_yield, app_exit, app_exited, sys_send, sys_recv, sys_exit, sys_yield
<1>1. PICK p \in Pid : p = curr_pid /\ proc_curr_idx = pid2idx(p) BY <1>0, Caller
<1>2. IsApp
  BY DEF app, dir_query, file_query, net_query, query, app_reply, app_sleep,
         app_sleep_yield, app_exit, app_exited, AtApp, InBody
<1>3. p \in GPID_USER_START .. MAX_NPROCESS BY <1>1, <1>2, Sizes DEF IsApp
<1>4. /\ \A s \in Servers : s \in Pid /\ s \in 0 .. GPID_SHELL
      /\ GPID_PROCESS \in Pid /\ PROC_EXIT = "PROC_EXIT"
      /\ "request" \in Contents /\ "PROC_SLEEP" \in Contents
  <2>1. "request" \in Contents /\ "PROC_SLEEP" \in Contents BY Sizes DEF Message
  <2> QED BY <2>1, Sizes DEF Servers
<1>5. PcOf(p) = pc[proc_curr_idx] BY <1>1 DEF PcOf
<1>6. ASSUME NEW s \in Servers, query(s) PROVE AppTalk(p)
  <2>1. WaitLabel(s) \in Label BY DEF WaitLabel, Label
  <2>2. /\ sys_send(s, "request") /\ Goto(WaitLabel(s)) /\ s \in scenario.servers
        /\ PcOf(p) \in {"app", "slept"}
    BY <1>5, <1>6 DEF query, InBody
  <2>3. Posts(p, IPC!Send(s, "request"), WaitLabel(s))
    BY <1>1, <1>4, <2>1, <2>2, SendPosts
  <2> QED BY <2>2, <2>3 DEF AppTalk, Says
<1>7. CASE dir_query \/ file_query \/ net_query
  BY <1>0, <1>3, <1>6, <1>7 DEF dir_query, file_query, net_query, Servers
<1>8. CASE app_reply
  <2>1. PICK s \in Servers : AtApp(WaitLabel(s)) /\ sys_recv(s)
    BY <1>8 DEF app_reply, Servers
  <2>2. Goto("app") /\ "app" \in Label BY <1>8 DEF app_reply, Label
  <2>3. Posts(p, IPC!Recv(s), "app") BY <1>1, <1>4, <2>1, <2>2, RecvPosts
  <2> QED BY <1>0, <1>3, <1>5, <2>1, <2>3 DEF AppTalk, Says, AtApp
<1>9. CASE app_sleep
  <2>1. /\ sys_send(GPID_PROCESS, "PROC_SLEEP") /\ Goto("sleep_yield")
        /\ "sleep_yield" \in Label /\ PcOf(p) \in {"app", "slept"}
    BY <1>5, <1>9 DEF app_sleep, Label, InBody
  <2>2. Posts(p, IPC!Send(GPID_PROCESS, "PROC_SLEEP"), "sleep_yield")
    BY <1>1, <1>4, <2>1, SendPosts
  <2> QED BY <1>0, <1>3, <2>1, <2>2 DEF AppTalk, Says
<1>10. CASE app_sleep_yield
  <2>1. /\ sys_yield /\ Goto("slept") /\ "slept" \in Label /\ PcOf(p) = "sleep_yield"
    BY <1>5, <1>10 DEF app_sleep_yield, Label, AtApp
  <2>2. Posts(p, calls[p], "slept") BY <1>1, <2>1, QuietPosts
  <2> QED BY <1>0, <1>3, <2>1, <2>2 DEF AppTalk, Says
<1>11. CASE app_exited
  <2>1. /\ sys_yield /\ Goto("exited") /\ "exited" \in Label /\ PcOf(p) = "exited"
    BY <1>5, <1>11 DEF app_exited, Label, AtApp
  <2>2. Posts(p, calls[p], "exited") BY <1>1, <2>1, QuietPosts
  <2> QED BY <1>0, <1>3, <2>1, <2>2 DEF AppTalk, Says
<1>12. CASE app_exit
  <2>1. /\ sys_exit /\ Goto("exited") /\ "exited" \in Label
        /\ PcOf(p) \in {"app", "slept", "exit"}
    BY <1>5, <1>12 DEF app_exit, Label, AtApp, InBody
  <2>2. Posts(p, IPC!Send(GPID_PROCESS, "PROC_EXIT"), "exited")
    BY <1>1, <1>4, <2>1, ExitPosts
  <2> QED BY <1>0, <1>3, <2>1, <2>2 DEF AppTalk, Says
<1> QED BY <1>7, <1>8, <1>9, <1>10, <1>11, <1>12 DEF app

\* What the poster of a call expects.
LEMMA SaysExpects ==
    ASSUME NEW p \in Pid, NEW k, NEW v, NEW l, Says(p, k, v, l),
           \A s \in Servers :
              k \in AskLabel(p, s) <=>
                 \/ v.mode = "recv" /\ v.peer = s
                 \/ v.mode = "run" /\ l \in AskLabel(p, s)
    PROVE  KeepsExpects(p)
<1>1. /\ calls'[p] = v /\ calls[p].mode = "run" /\ PcOf(p) = k /\ PcOf(p)' = l
  BY PostCall DEF Says, Posts
<1> QED BY <1>1 DEF KeepsExpects, Expects

\* The modes of calls.
LEMMA Modes ==
    /\ \A s : IPC!Recv(s).mode = "recv" /\ IPC!Recv(s).peer = s
    /\ \A q, m : /\ IPC!Send(q, m).mode = "send" /\ IPC!Send(q, m).peer = q
                 /\ IPC!Send(q, m).content = m
    /\ \A q, m : /\ IPC!Run(q, m).mode = "run" /\ IPC!Run(q, m).peer = q
                 /\ IPC!Run(q, m).content = m
    /\ IPC!Dead.mode = "dead" /\ IPC!Born.mode = "run"
BY DEF IPC!Recv, IPC!Send, IPC!Run, IPC!Dead, IPC!Born

LEMMA AskLabels ==
    /\ \A s \in Servers : s # GPID_PROCESS
    /\ \A s \in Servers :
          /\ "spawn_bin" \in AskLabel(GPID_PROCESS, s) <=> s = GPID_DIR
          /\ "spawn_ino" \in AskLabel(GPID_PROCESS, s) <=> s = GPID_DIR
          /\ "load_recv" \in AskLabel(GPID_PROCESS, s) <=> s = GPID_FILE
          /\ \A l : l \notin {"spawn_bin", "spawn_ino", "load_recv"} =>
                l \notin AskLabel(GPID_PROCESS, s)
          /\ "dir_block" \in AskLabel(GPID_DIR, s) <=> s = GPID_FILE
          /\ \A l : l # "dir_block" => l \notin AskLabel(GPID_DIR, s)
          /\ AskLabel(GPID_FILE, s) = {} /\ AskLabel(GPID_NET, s) = {}
          /\ AskLabel(GPID_SHELL, s) = {}
          /\ \A p \in GPID_USER_START .. MAX_NPROCESS : AskLabel(p, s) = {WaitLabel(s)}
BY Sizes DEF AskLabel, Servers

\* sys_file and sys_net keep the dialogues.
LEMMA ServerTalkKeeps ==
    ASSUME CallInv, ProgInv, ServerInv, NEW p \in {GPID_FILE, GPID_NET},
           NEW init, NEW wait, NEW got, ServerTalk(p, init, wait, got),
           Role(p) = {init, wait, got}, init = InitLabel(p),
           wait = RecvLabel(p), UpLabel(p) = {wait, got},
           got \in TakeLabel, got \in GotLabel, wait \notin TakeLabel,
           init \notin TakeLabel, wait \in {"file_recv", "net_recv"},
           {init, got} \cap {"exit", "exited"} = {}
    PROVE  ServerInv'
<1>0. /\ p \in Pid /\ p \in Servers /\ p # GPID_PROCESS /\ p # GPID_SHELL /\ p # GPID_DIR
      /\ \A s \in Servers : AskLabel(p, s) = {} /\ s # 0
      /\ UNCHANGED <<scenario, booting, shell_cmd, dir_client>>
  <2>1. UNCHANGED <<scenario, booting, shell_cmd, dir_client>>
    BY DEF ServerTalk, SysProcLocals, SysDirLocals, ShellLocals
  <2> QED BY <2>1, Distinct, AskLabels
<1>1. CASE Says(p, init, IPC!Send(GPID_PROCESS, "initialized"), wait)
  <2>1. PICK v : v = IPC!Send(GPID_PROCESS, "initialized") OBVIOUS
  <2>2. v.mode = "send" /\ v.peer = GPID_PROCESS /\ v.content = "initialized"
    BY <2>1, Modes
  <2>3. /\ Posts(p, v, wait) /\ PcOf(p) = init /\ PcOf(p)' = wait
        /\ calls[p].mode = "run" /\ calls'[p] = v
    BY <1>0, <1>1, <2>1, PostCall DEF Says, Posts
  <2>4. KeepsExpects(p) BY <1>0, <1>1, <2>1, <2>2, SaysExpects
  <2>5. KeepsServes(p)
    BY <1>0, <2>2, <2>3 DEF KeepsServes, Serves, Takes, Replies
  <2>6. ServerPosts(p, v, wait) BY <2>1, <2>3 DEF ServerPosts
  <2>7. MaySend(wait, v.peer, v.content)' BY <2>2 DEF MaySend
  <2> QED BY <1>0, <2>2, <2>3, <2>4, <2>5, <2>6, <2>7, PostServer
<1>2. CASE Says(p, wait, IPC!Recv(0), got)
  <2>1. PICK v : v = IPC!Recv(0) OBVIOUS
  <2>2. v.mode = "recv" /\ v.peer = 0 BY <2>1, Modes
  <2>3. /\ Posts(p, v, got) /\ PcOf(p) = wait /\ PcOf(p)' = got
        /\ calls[p].mode = "run" /\ calls'[p] = v
    BY <1>0, <1>2, <2>1, PostCall DEF Says, Posts
  <2>4. KeepsExpects(p) BY <1>0, <1>2, <2>1, <2>2, SaysExpects
  <2>5. KeepsServes(p)
    BY <1>0, <2>2, <2>3 DEF KeepsServes, Serves, Takes, Replies
  <2>6. ServerPosts(p, v, got)
    BY <2>2, <2>3, Modes DEF ServerPosts
  <2>7. MayRecv(got, v.peer) BY <2>2 DEF MayRecv
  <2> QED BY <1>0, <2>2, <2>3, <2>4, <2>5, <2>6, <2>7, PostServer
<1>3. CASE Says(p, got, IPC!Send(calls[p].peer, "ok"), wait)
  <2>1. PICK v : v = IPC!Send(calls[p].peer, "ok") OBVIOUS
  <2>2. v.mode = "send" /\ v.peer = calls[p].peer /\ v.content = "ok"
    BY <2>1, Modes
  <2>3. /\ Posts(p, v, wait) /\ PcOf(p) = got /\ PcOf(p)' = wait
        /\ calls[p].mode = "run" /\ calls'[p] = v
    BY <1>0, <1>3, <2>1, PostCall DEF Says, Posts
  <2>4. KeepsExpects(p) BY <1>0, <1>3, <2>1, <2>2, SaysExpects
  <2>5. KeepsServes(p)
    BY <1>0, <2>2, <2>3 DEF KeepsServes, Serves, Takes, Replies
  <2>6. ServerPosts(p, v, wait)
    BY <2>2, <2>3, Modes DEF ServerPosts
  <2>7. MaySend(wait, v.peer, v.content)' BY <2>2 DEF MaySend
  <2> QED BY <1>0, <2>2, <2>3, <2>4, <2>5, <2>6, <2>7, PostServer
<1> QED BY <1>1, <1>2, <1>3 DEF ServerTalk

LEMMA FileServer ==
    ASSUME CallInv, ProgInv, ServerInv, sys_file \/ sys_net PROVE ServerInv'
<1>1. CASE sys_file
  <2>1. /\ GPID_FILE \in Servers
        /\ InitLabel(GPID_FILE) = "file_init" /\ RecvLabel(GPID_FILE) = "file_recv"
        /\ UpLabel(GPID_FILE) = {"file_recv", "file_got"}
        /\ Role(GPID_FILE) = {"file_init", "file_recv", "file_got"}
    BY Sizes DEF Servers, InitLabel, EntryOf, RecvLabel, UpLabel, Role
  <2>2. /\ "file_init" \in Label /\ "file_recv" \in Label
        /\ "file_got" \in Label \cap GotLabel
    BY DEF Label, GotLabel
  <2>3. Server(GPID_FILE, "file_init", "file_recv", "file_got") BY <1>1 DEF sys_file
  <2>4. ServerTalk(GPID_FILE, "file_init", "file_recv", "file_got")
    BY <2>1, <2>2, <2>3, ServerSays
  <2> QED BY <2>1, <2>4, ServerTalkKeeps DEF TakeLabel, GotLabel
<1>2. CASE sys_net
  <2>1. /\ GPID_NET \in Servers
        /\ InitLabel(GPID_NET) = "net_init" /\ RecvLabel(GPID_NET) = "net_recv"
        /\ UpLabel(GPID_NET) = {"net_recv", "net_got"}
        /\ Role(GPID_NET) = {"net_init", "net_recv", "net_got"}
    BY Sizes DEF Servers, InitLabel, EntryOf, RecvLabel, UpLabel, Role
  <2>2. /\ "net_init" \in Label /\ "net_recv" \in Label
        /\ "net_got" \in Label \cap GotLabel
    BY DEF Label, GotLabel
  <2>3. Server(GPID_NET, "net_init", "net_recv", "net_got") BY <1>2 DEF sys_net
  <2>4. ServerTalk(GPID_NET, "net_init", "net_recv", "net_got")
    BY <2>1, <2>2, <2>3, ServerSays
  <2> QED BY <2>1, <2>4, ServerTalkKeeps DEF TakeLabel, GotLabel
<1> QED BY <1>1, <1>2

\* sys_dir keeps the dialogues, its own with sys_file included.
LEMMA DirServer == ASSUME CallInv, ProgInv, ServerInv, sys_dir PROVE ServerInv'
<1>0. /\ GPID_DIR \in Pid /\ GPID_DIR \in Servers /\ GPID_DIR # GPID_PROCESS
      /\ GPID_DIR # GPID_SHELL /\ GPID_DIR # GPID_FILE
      /\ \A s \in Servers : s # 0 /\ s # GPID_PROCESS
      /\ InitLabel(GPID_DIR) = "dir_init" /\ RecvLabel(GPID_DIR) = "dir_recv"
      /\ UpLabel(GPID_DIR) = {"dir_recv", "dir_got", "dir_block", "dir_reply"}
      /\ Role(GPID_DIR) =
            {"dir_init", "dir_recv", "dir_got", "dir_block", "dir_reply"}
  BY Sizes DEF Servers, InitLabel, EntryOf, RecvLabel, UpLabel, Role
<1>u. DirTalk /\ UNCHANGED <<scenario, booting, shell_cmd>>
  BY DirSays DEF DirTalk, SysProcLocals, ShellLocals
<1>a. ASSUME NEW k \in {"dir_init", "dir_recv", "dir_got", "dir_block", "dir_reply"},
             NEW v, NEW l \in {"dir_recv", "dir_got", "dir_block", "dir_reply"},
             Says(GPID_DIR, k, v, l), KeepsServes(GPID_DIR),
             v.mode = "send" => MaySend(l, v.peer, v.content)',
             v.mode = "recv" => MayRecv(l, v.peer), v.mode \in {"send", "recv"},
             \A s \in Servers : k = "dir_block" /\ s = GPID_FILE <=>
                v.mode = "recv" /\ v.peer = s,
             IF k = "dir_init"
             THEN l = "dir_recv" /\ v = IPC!Send(GPID_PROCESS, "initialized")
             ELSE v # IPC!Send(GPID_PROCESS, "initialized")
      PROVE  ServerInv'
  <2>1. KeepsExpects(GPID_DIR) BY <1>0, <1>a, SaysExpects, AskLabels
  <2>2. ServerPosts(GPID_DIR, v, l) BY <1>0, <1>a DEF ServerPosts, Says
  <2>3. Posts(GPID_DIR, v, l) /\ PcOf(GPID_DIR) = k BY <1>a DEF Says
  <2> QED BY <1>0, <1>u, <1>a, <2>1, <2>2, <2>3, PostServer
<1>1. CASE /\ Says(GPID_DIR, "dir_init", IPC!Send(GPID_PROCESS, "initialized"), "dir_recv")
           /\ UNCHANGED SysDirLocals
  <2>1. PICK v : v = IPC!Send(GPID_PROCESS, "initialized") OBVIOUS
  <2>2. v.mode = "send" /\ v.peer = GPID_PROCESS /\ v.content = "initialized"
    BY <2>1, Modes
  <2>3. /\ PcOf(GPID_DIR) = "dir_init" /\ PcOf(GPID_DIR)' = "dir_recv"
        /\ calls[GPID_DIR].mode = "run" /\ calls'[GPID_DIR] = v
    BY <1>0, <1>1, <2>1, PostCall DEF Says, Posts
  <2>4. KeepsServes(GPID_DIR)
    BY <1>0, <1>1, <2>2, <2>3
    DEF KeepsServes, Serves, Takes, Replies, TakeLabel, DirWait, SysDirLocals
  <2>5. MaySend("dir_recv", v.peer, v.content)' BY <2>2 DEF MaySend
  <2> QED BY <1>0, <1>1, <1>a, <2>1, <2>2, <2>4, <2>5
<1>2. CASE Says(GPID_DIR, "dir_recv", IPC!Recv(0), "dir_got") /\ UNCHANGED SysDirLocals
  <2>1. PICK v : v = IPC!Recv(0) OBVIOUS
  <2>2. v.mode = "recv" /\ v.peer = 0 BY <2>1, Modes
  <2>3. /\ PcOf(GPID_DIR) = "dir_recv" /\ PcOf(GPID_DIR)' = "dir_got"
        /\ calls[GPID_DIR].mode = "run" /\ calls'[GPID_DIR] = v
    BY <1>0, <1>2, <2>1, PostCall DEF Says, Posts
  <2>4. KeepsServes(GPID_DIR)
    BY <1>0, <1>2, <2>2, <2>3
    DEF KeepsServes, Serves, Takes, Replies, TakeLabel, DirWait, SysDirLocals
  <2>5. MayRecv("dir_got", v.peer) BY <2>2 DEF MayRecv, GotLabel
  <2>6. v # IPC!Send(GPID_PROCESS, "initialized") BY <2>2, Modes
  <2> QED BY <1>0, <1>2, <1>a, <2>1, <2>2, <2>4, <2>5, <2>6
<1>3. CASE /\ Says(GPID_DIR, "dir_got", IPC!Send(GPID_FILE, "request"), "dir_block")
           /\ dir_client' = calls[GPID_DIR].peer
  <2>1. PICK v : v = IPC!Send(GPID_FILE, "request") OBVIOUS
  <2>2. v.mode = "send" /\ v.peer = GPID_FILE /\ v.content = "request"
    BY <2>1, Modes
  <2>3. /\ PcOf(GPID_DIR) = "dir_got" /\ PcOf(GPID_DIR)' = "dir_block"
        /\ calls[GPID_DIR].mode = "run" /\ calls'[GPID_DIR] = v
    BY <1>0, <1>3, <2>1, PostCall DEF Says, Posts
  <2>4. KeepsServes(GPID_DIR)
    BY <1>0, <1>3, <2>2, <2>3
    DEF KeepsServes, Serves, Takes, Replies, TakeLabel, DirWait
  <2>5. MaySend("dir_block", v.peer, v.content)' BY <2>2 DEF MaySend
  <2>6. v # IPC!Send(GPID_PROCESS, "initialized") BY <2>2, Modes
  <2> QED BY <1>0, <1>3, <1>a, <2>1, <2>2, <2>4, <2>5, <2>6
<1>4. CASE /\ Says(GPID_DIR, "dir_block", IPC!Recv(GPID_FILE), "dir_reply")
           /\ UNCHANGED SysDirLocals
  <2>1. PICK v : v = IPC!Recv(GPID_FILE) OBVIOUS
  <2>2. v.mode = "recv" /\ v.peer = GPID_FILE BY <2>1, Modes
  <2>3. /\ PcOf(GPID_DIR) = "dir_block" /\ PcOf(GPID_DIR)' = "dir_reply"
        /\ calls[GPID_DIR].mode = "run" /\ calls'[GPID_DIR] = v
    BY <1>0, <1>4, <2>1, PostCall DEF Says, Posts
  <2>4. KeepsServes(GPID_DIR)
    BY <1>0, <1>4, <2>2, <2>3
    DEF KeepsServes, Serves, Takes, Replies, TakeLabel, DirWait, SysDirLocals
  <2>5. MayRecv("dir_reply", v.peer) BY <2>2 DEF MayRecv
  <2>6. v # IPC!Send(GPID_PROCESS, "initialized") BY <2>2, Modes
  <2> QED BY <1>0, <1>4, <1>a, <2>1, <2>2, <2>4, <2>5, <2>6
<1>5. ASSUME NEW m \in {"DIR_ERROR", "ok"},
             Says(GPID_DIR, "dir_reply", IPC!Send(dir_client, m), "dir_recv"),
             UNCHANGED SysDirLocals
      PROVE  ServerInv'
  <2>1. PICK v : v = IPC!Send(dir_client, m) OBVIOUS
  <2>2. v.mode = "send" /\ v.peer = dir_client /\ v.content = m
    BY <2>1, Modes
  <2>3. /\ PcOf(GPID_DIR) = "dir_reply" /\ PcOf(GPID_DIR)' = "dir_recv"
        /\ calls[GPID_DIR].mode = "run" /\ calls'[GPID_DIR] = v
    BY <1>0, <1>5, <2>1, PostCall DEF Says, Posts
  <2>4. KeepsServes(GPID_DIR)
    BY <1>0, <1>5, <2>2, <2>3
    DEF KeepsServes, Serves, Takes, Replies, TakeLabel, DirWait, SysDirLocals
  <2>5. MaySend("dir_recv", v.peer, v.content)' BY <2>2 DEF MaySend
  <2>6. v # IPC!Send(GPID_PROCESS, "initialized") BY <2>2, Modes
  <2> QED BY <1>0, <1>5, <1>a, <2>1, <2>2, <2>4, <2>5, <2>6
<1> QED BY <1>u, <1>1, <1>2, <1>3, <1>4, <1>5 DEF DirTalk

\* sys_proc keeps the dialogues while it serves requests.
LEMMA MainServer == ASSUME CallInv, ProgInv, ServerInv, MainCall PROVE ServerInv'
<1>0. /\ GPID_PROCESS \in Pid /\ GPID_PROCESS \notin Servers /\ GPID_PROCESS # GPID_SHELL
      /\ GPID_PROCESS # GPID_DIR /\ Role(GPID_PROCESS) = MainLabel
      /\ \A s \in Servers : s # 0
      /\ GPID_DIR \in Servers /\ GPID_FILE \in Servers /\ GPID_DIR # GPID_FILE
  BY Distinct DEF Role
<1>u. MainTalk /\ UNCHANGED <<scenario, booting, shell_cmd, dir_client>>
  BY MainTalks DEF MainTalk, SysDirLocals, ShellLocals
<1>a. ASSUME NEW k, NEW v, NEW l \in MainLabel, MainSays(k, v, l),
             k \notin BootLabel, l \notin BootLabel, k \notin {"exit", "exited"},
             v.mode \in {"send", "recv"},
             v.mode = "send" => MaySend(l, v.peer, v.content)',
             v.mode = "recv" => MayRecv(l, v.peer),
             \A s \in Servers : k \in AskLabel(GPID_PROCESS, s) <=>
                v.mode = "recv" /\ v.peer = s
      PROVE  ServerInv'
  <2>1. KeepsExpects(GPID_PROCESS) BY <1>0, <1>a, SaysExpects DEF MainSays
  <2>2. Posts(GPID_PROCESS, v, l) /\ PcOf(GPID_PROCESS) = k BY <1>a DEF Says, MainSays
  <2> QED BY <1>0, <1>u, <1>a, <2>1, <2>2, PostServer
<1>b. ASSUME NEW k \in MainLabel, NEW l \in MainLabel, NEW s,
             MainSays(k, IPC!Recv(s), l), MayRecv(l, s),
             k \notin BootLabel, l \notin BootLabel,
             \A t \in Servers : k \in AskLabel(GPID_PROCESS, t) <=> t = s
      PROVE  ServerInv'
  <2>1. PICK v : v = IPC!Recv(s) OBVIOUS
  <2>2. v.mode = "recv" /\ v.peer = s BY <2>1, Modes
  <2>3. k \notin {"exit", "exited"} BY DEF MainLabel
  <2> QED BY <1>a, <1>b, <2>1, <2>2, <2>3
<1>c. ASSUME NEW k \in MainLabel, NEW l \in MainLabel, NEW q, NEW m,
             MainSays(k, IPC!Send(q, m), l), MaySend(l, q, m)',
             k \notin BootLabel, l \notin BootLabel,
             \A t \in Servers : k \notin AskLabel(GPID_PROCESS, t)
      PROVE  ServerInv'
  <2>1. PICK v : v = IPC!Send(q, m) OBVIOUS
  <2>2. v.mode = "send" /\ v.peer = q /\ v.content = m BY <2>1, Modes
  <2>3. k \notin {"exit", "exited"} BY DEF MainLabel
  <2> QED BY <1>a, <1>c, <2>1, <2>2, <2>3
<1>l. ASSUME NEW l \in {"main_recv", "main_got", "spawn_bin", "spawn_lookup", "spawn_ino",
                        "spawn_found", "load_send", "load_recv", "spawn_reply",
                        "exit_notice"}
      PROVE  l \in MainLabel /\ l \notin BootLabel
  BY <1>l DEF MainLabel, BootLabel
<1>r. /\ MayRecv("main_got", 0) /\ MayRecv("spawn_lookup", GPID_DIR)
      /\ MayRecv("spawn_found", GPID_DIR) /\ MayRecv("load_send", GPID_FILE)
  BY DEF MayRecv, GotLabel
<1>s. /\ MaySend("spawn_bin", GPID_DIR, "request")'
      /\ \A m \in {"request", "lookup missing"} : MaySend("spawn_ino", GPID_DIR, m)'
      /\ MaySend("load_recv", GPID_FILE, "request")'
      /\ \A m \in {"CMD_OK", "CMD_ERROR", "PROC_EXIT"} :
            MaySend("main_recv", GPID_SHELL, m)'
  BY DEF MaySend
<1>1. CASE MainSays("main_recv", IPC!Recv(0), "main_got")
           \/ MainSays("main_got", IPC!Recv(0), "main_got")
  BY <1>0, <1>b, <1>l, <1>r, <1>1, AskLabels
<1>2. CASE MainSays("spawn_bin", IPC!Recv(GPID_DIR), "spawn_lookup")
  BY <1>0, <1>b, <1>l, <1>r, <1>2, AskLabels
<1>3. CASE MainSays("spawn_ino", IPC!Recv(GPID_DIR), "spawn_found")
  BY <1>0, <1>b, <1>l, <1>r, <1>3, AskLabels
<1>4. CASE MainSays("load_recv", IPC!Recv(GPID_FILE), "load_send")
  BY <1>0, <1>b, <1>l, <1>r, <1>4, AskLabels
<1>5. CASE MainSays("main_got", IPC!Send(GPID_DIR, "request"), "spawn_bin")
  BY <1>c, <1>l, <1>s, <1>5, AskLabels, ZenonT(60)
<1>6. ASSUME NEW m \in {"request", "lookup missing"},
             MainSays("spawn_lookup", IPC!Send(GPID_DIR, m), "spawn_ino")
      PROVE  ServerInv'
  BY <1>c, <1>l, <1>s, <1>6, AskLabels, ZenonT(60)
<1>7. CASE MainSays("load_send", IPC!Send(GPID_FILE, "request"), "load_recv")
  BY <1>c, <1>l, <1>s, <1>7, AskLabels, ZenonT(60)
<1>8. ASSUME NEW k \in {"exit_notice", "spawn_found", "spawn_reply"},
             NEW m \in {"CMD_OK", "CMD_ERROR", "PROC_EXIT"},
             MainSays(k, IPC!Send(GPID_SHELL, m), "main_recv")
      PROVE  ServerInv'
  BY <1>c, <1>l, <1>s, <1>8, AskLabels, ZenonT(60)
<1> QED BY <1>u, <1>1, <1>2, <1>3, <1>4, <1>5, <1>6, <1>7, <1>8 DEF MainTalk

LEMMA ShellServer == ASSUME CallInv, ProgInv, ServerInv, sys_shell PROVE ServerInv'
<1>0. /\ GPID_SHELL \in Pid /\ GPID_SHELL \notin Servers /\ GPID_PROCESS # GPID_SHELL
      /\ GPID_SHELL # GPID_DIR /\ GPID_PROCESS \notin Servers
      /\ Role(GPID_SHELL) = ShellLabel
      /\ \A s \in Servers : AskLabel(GPID_SHELL, s) = {}
  <2>1. Role(GPID_SHELL) = ShellLabel BY Sizes DEF Role
  <2> QED BY <2>1, Distinct, AskLabels
<1>u. ShellTalk /\ UNCHANGED <<scenario, booting, dir_client>>
  BY ShellTalks DEF ShellTalk, SysDirLocals, SysProcLocals
<1>a. ASSUME NEW k \in ShellLabel, NEW v, NEW l \in ShellLabel, Says(GPID_SHELL, k, v, l),
             v.mode \in {"send", "recv", "run"},
             v.mode = "send" => MaySend(l, v.peer, v.content)',
             v.mode = "recv" => MayRecv(l, v.peer) /\ v.peer = GPID_PROCESS
      PROVE  ServerInv'
  <2>1. KeepsExpects(GPID_SHELL)
    <3>1. \A s \in Servers : k \in AskLabel(GPID_SHELL, s) <=>
             \/ v.mode = "recv" /\ v.peer = s
             \/ v.mode = "run" /\ l \in AskLabel(GPID_SHELL, s)
      BY <1>0, <1>a
    <3> QED BY <1>0, <1>a, <3>1, SaysExpects
  <2>2. Posts(GPID_SHELL, v, l) /\ PcOf(GPID_SHELL) = k BY <1>a DEF Says
  <2>3. k \notin {"exit", "exited"} BY DEF ShellLabel
  <2> QED BY <1>0, <1>u, <1>a, <2>1, <2>2, <2>3, PostServer
<1>b. ASSUME NEW k \in ShellLabel, NEW l \in ShellLabel,
             Says(GPID_SHELL, k, calls[GPID_SHELL], l)
      PROVE  ServerInv'
  <2>1. PICK v : v = calls[GPID_SHELL] OBVIOUS
  <2>2. v.mode = "run" BY <1>0, <1>b, <2>1, PostCall DEF Says
  <2> QED BY <1>a, <1>b, <2>1, <2>2
<1>c. ASSUME NEW k \in ShellLabel, NEW l \in {"shell_reply", "shell_fg"},
             Says(GPID_SHELL, k, IPC!Recv(GPID_PROCESS), l)
      PROVE  ServerInv'
  <2>1. PICK v : v = IPC!Recv(GPID_PROCESS) OBVIOUS
  <2>2. v.mode = "recv" /\ v.peer = GPID_PROCESS BY <2>1, Modes
  <2>3. MayRecv(l, GPID_PROCESS) /\ l \in ShellLabel BY DEF MayRecv, ShellLabel
  <2> QED BY <1>a, <1>c, <2>1, <2>2, <2>3
<1>d. ASSUME NEW k \in ShellLabel, shell_cmd' \in scenario.commands,
             Says(GPID_SHELL, k, IPC!Send(GPID_PROCESS, shell_cmd'),
                  IF shell_cmd' = "PROC_KILLALL" THEN "shell_next" ELSE "shell_recv")
      PROVE  ServerInv'
  <2>1. PICK m : m = shell_cmd' OBVIOUS
  <2>2. PICK v : v = IPC!Send(GPID_PROCESS, m) OBVIOUS
  <2>3. v.mode = "send" /\ v.peer = GPID_PROCESS /\ v.content = m BY <2>2, Modes
  <2>4. m \in Spawn \cup {"PROC_KILLALL"}
    BY <1>d, <2>1 DEF ProgInv, ProgTypeOK, Scenario
  <2>5. PICK l \in {"shell_next", "shell_recv"} :
           l = IF m = "PROC_KILLALL" THEN "shell_next" ELSE "shell_recv"
    OBVIOUS
  <2>6. MaySend(l, GPID_PROCESS, m)' BY <1>u, <1>d, <2>1, <2>4, <2>5 DEF MaySend
  <2>7. l \in ShellLabel BY DEF ShellLabel
  <2> QED BY <1>a, <1>d, <2>1, <2>2, <2>3, <2>5, <2>6, <2>7
<1>l. {"shell_next", "shell_fg", "shell_reading", "shell_recv", "shell_reply"}
         \subseteq ShellLabel
  BY DEF ShellLabel
<1> QED BY <1>u, <1>b, <1>c, <1>d, <1>l DEF ShellTalk

LEMMA AppServer == ASSUME CallInv, ProgInv, ServerInv, app PROVE ServerInv'
<1>u. /\ \E p \in GPID_USER_START .. MAX_NPROCESS : AppTalk(p)
      /\ UNCHANGED <<scenario, booting, shell_cmd, dir_client>>
  BY AppTalks DEF SysProcLocals, SysDirLocals, ShellLocals
<1>0. PICK p \in GPID_USER_START .. MAX_NPROCESS : AppTalk(p) BY <1>u
<1>1. /\ p \in Pid /\ p \notin Servers /\ p # GPID_PROCESS /\ p # GPID_SHELL
      /\ p # GPID_DIR /\ p # GPID_FILE /\ p # GPID_NET
      /\ scenario.servers \subseteq Servers
      /\ Role(p) = AppLabel \cup {WaitLabel(s) : s \in scenario.servers}
      /\ GPID_PROCESS \notin Servers
  <2>1. /\ p \in Pid /\ p \notin Servers /\ p # GPID_PROCESS /\ p # GPID_SHELL
        /\ p # GPID_DIR /\ p # GPID_FILE /\ p # GPID_NET
    BY Sizes DEF Servers
  <2> QED BY <2>1, ScenarioServers, Distinct DEF Role
<1>2. /\ \A s \in Servers : AskLabel(p, s) = {WaitLabel(s)}
      /\ \A s \in Servers : WaitLabel(s) \notin AppLabel
      /\ \A s \in Servers : WaitLabel(s) \notin {"exit", "exited"}
      /\ \A s, t \in Servers : WaitLabel(s) = WaitLabel(t) <=> s = t
  <2>1. \A s \in Servers : AskLabel(p, s) = {WaitLabel(s)} BY AskLabels
  <2> QED BY <2>1, Sizes DEF WaitLabel, AppLabel, Servers
<1>3. \A s \in Servers : PcOf(p) = WaitLabel(s) => s \in scenario.servers
  <2>1. PcOf(p) = NoProcess \/ PcOf(p) \in Role(p) BY <1>1 DEF ServerInv, Roles
  <2>2. \A s \in Servers : WaitLabel(s) # NoProcess BY DEF NoProcess, WaitLabel
  <2>3. ASSUME NEW s \in Servers, PcOf(p) = WaitLabel(s) PROVE s \in scenario.servers
    <3>1. PICK t \in scenario.servers : PcOf(p) = WaitLabel(t)
      BY <1>1, <1>2, <2>1, <2>2, <2>3
    <3> QED BY <1>1, <1>2, <2>3, <3>1, ZenonT(60)
  <2> QED BY <2>3
<1>a. ASSUME NEW k, NEW v, NEW l \in Role(p), Says(p, k, v, l),
             v.mode \in {"send", "recv", "run"},
             v.mode = "send" => MaySend(l, v.peer, v.content)',
             v.mode = "recv" => MayRecv(l, v.peer),
             \A s \in Servers : k = WaitLabel(s) <=>
                \/ v.mode = "recv" /\ v.peer = s
                \/ v.mode = "run" /\ l = WaitLabel(s),
             k \in {"exit", "exited"} => l = "exited" /\ v.mode \in {"run", "send"}
      PROVE  ServerInv'
  <2>1. KeepsExpects(p)
    <3>1. \A s \in Servers : k \in AskLabel(p, s) <=>
             \/ v.mode = "recv" /\ v.peer = s
             \/ v.mode = "run" /\ l \in AskLabel(p, s)
      BY <1>2, <1>a
    <3> QED BY <1>1, <1>a, <3>1, SaysExpects
  <2>2. Posts(p, v, l) /\ PcOf(p) = k BY <1>a DEF Says
  <2> QED BY <1>u, <1>1, <1>a, <2>1, <2>2, PostServer
<1>4. ASSUME NEW k \in {"app", "slept"}, NEW s \in scenario.servers,
             Says(p, k, IPC!Send(s, "request"), WaitLabel(s))
      PROVE  ServerInv'
  <2>1. PICK v : v = IPC!Send(s, "request") OBVIOUS
  <2>2. v.mode = "send" /\ v.peer = s /\ v.content = "request" BY <2>1, Modes
  <2>3. MaySend(WaitLabel(s), s, "request")' BY <1>u DEF MaySend
  <2>4. \A t \in Servers : k # WaitLabel(t) BY <1>2 DEF AppLabel
  <2>5. WaitLabel(s) \in Role(p) BY <1>1
  <2> QED BY <1>4, <1>a, <2>1, <2>2, <2>3, <2>4, <2>5
<1>5. ASSUME NEW s \in Servers, Says(p, WaitLabel(s), IPC!Recv(s), "app")
      PROVE  ServerInv'
  <2>1. PICK v : v = IPC!Recv(s) OBVIOUS
  <2>2. v.mode = "recv" /\ v.peer = s BY <2>1, Modes
  <2>3. s \in scenario.servers BY <1>3, <1>5 DEF Says
  <2>4. MayRecv("app", s) BY <2>3 DEF MayRecv
  <2>5. "app" \in Role(p) BY <1>1 DEF AppLabel
  <2> QED BY <1>2, <1>5, <1>a, <2>1, <2>2, <2>4, <2>5
<1>6. ASSUME NEW k \in {"app", "slept"},
             Says(p, k, IPC!Send(GPID_PROCESS, "PROC_SLEEP"), "sleep_yield")
      PROVE  ServerInv'
  <2>1. PICK v : v = IPC!Send(GPID_PROCESS, "PROC_SLEEP") OBVIOUS
  <2>2. v.mode = "send" /\ v.peer = GPID_PROCESS /\ v.content = "PROC_SLEEP"
    BY <2>1, Modes
  <2>3. MaySend("sleep_yield", GPID_PROCESS, "PROC_SLEEP")' BY DEF MaySend
  <2>4. \A t \in Servers : k # WaitLabel(t) BY <1>2 DEF AppLabel
  <2>5. "sleep_yield" \in Role(p) BY <1>1 DEF AppLabel
  <2> QED BY <1>6, <1>a, <2>1, <2>2, <2>3, <2>4, <2>5
<1>7. ASSUME NEW k \in {"app", "slept", "exit"},
             Says(p, k, IPC!Send(GPID_PROCESS, "PROC_EXIT"), "exited")
      PROVE  ServerInv'
  <2>1. PICK v : v = IPC!Send(GPID_PROCESS, "PROC_EXIT") OBVIOUS
  <2>2. v.mode = "send" /\ v.peer = GPID_PROCESS /\ v.content = "PROC_EXIT"
    BY <2>1, Modes
  <2>3. MaySend("exited", GPID_PROCESS, "PROC_EXIT")' BY DEF MaySend
  <2>4. \A t \in Servers : k # WaitLabel(t) BY <1>2 DEF AppLabel
  <2>5. "exited" \in Role(p) BY <1>1 DEF AppLabel
  <2> QED BY <1>7, <1>a, <2>1, <2>2, <2>3, <2>4, <2>5
<1>8. ASSUME NEW k \in {"sleep_yield", "exited"}, NEW l \in {"slept", "exited"},
             Says(p, k, calls[p], l), k = "exited" => l = "exited"
      PROVE  ServerInv'
  <2>1. PICK v : v = calls[p] OBVIOUS
  <2>2. v.mode = "run" BY <1>1, <1>8, <2>1, PostCall DEF Says
  <2>4. \A t \in Servers : k # WaitLabel(t) /\ l # WaitLabel(t) BY <1>2 DEF AppLabel
  <2>5. l \in Role(p) BY <1>1 DEF AppLabel
  <2> QED BY <1>8, <1>a, <2>1, <2>2, <2>4, <2>5
<1> QED BY <1>0, <1>4, <1>5, <1>6, <1>7, <1>8 DEF AppTalk

\* sys_proc computes, and starts or ends the processes of D.
Manages(D, k, l) ==
    /\ PcOf(GPID_PROCESS) = k /\ PcOf(GPID_PROCESS)' = l
    /\ calls[GPID_PROCESS].mode = "run" /\ calls'[GPID_PROCESS] = calls[GPID_PROCESS]
    /\ l \in MainLabel /\ l # "main_got"
    /\ k \notin {"spawn_bin", "spawn_ino", "load_recv"}
    /\ l \notin {"spawn_bin", "spawn_ino", "load_recv"}
    /\ GPID_PROCESS \notin D
    /\ \A q \in Pid \ D : q # GPID_PROCESS => calls'[q] = calls[q] /\ PcOf(q)' = PcOf(q)
    /\ UNCHANGED <<scenario, shell_cmd, dir_client>>

\* What it takes for the processes of D.
LEMMA ManageServer ==
    ASSUME ServerInv, NEW D \in SUBSET Pid, NEW k, NEW l, Manages(D, k, l),
           \A q \in D :
              \/ calls'[q].mode = "dead" /\ PcOf(q)' = NoProcess
              \/ /\ calls'[q].mode = "run" /\ PcOf(q)' \in Role(q)
                 /\ \A s \in Servers : PcOf(q)' \notin AskLabel(q, s),
           \A q \in D, s \in Servers :
              q < GPID_USER_START \/ CleanKills(scenario) => ~Expects(q, s),
           \A s \in Servers \cap D, p \in Pid : ~Serves(s, p) /\ ~Serves(s, p)',
           l \in BootLabel => BootWait'
    PROVE  ServerInv'
<1>0. Roles /\ Script /\ Served /\ Wanted /\ BootWait BY DEF ServerInv
<1>1. /\ calls[GPID_PROCESS].mode = "run" /\ calls'[GPID_PROCESS] = calls[GPID_PROCESS]
      /\ PcOf(GPID_PROCESS) = k /\ PcOf(GPID_PROCESS)' = l /\ GPID_PROCESS \notin D
      /\ \A q \in Pid : q \notin D /\ q # GPID_PROCESS =>
            calls'[q] = calls[q] /\ PcOf(q)' = PcOf(q)
      /\ UNCHANGED <<scenario, shell_cmd, dir_client>>
      /\ l \in MainLabel /\ l # "main_got"
      /\ \A s \in Servers : k \notin AskLabel(GPID_PROCESS, s) /\ l \notin AskLabel(GPID_PROCESS, s)
  BY AskLabels DEF Manages
<1>2. Roles'
  <2>1. \A q : Role(q)' = Role(q) BY <1>1 DEF Role
  <2>2. l \in Role(GPID_PROCESS) BY <1>1 DEF Role
  <2>3. ASSUME NEW q \in Pid
        PROVE  IF calls'[q].mode = "dead" THEN PcOf(q)' = NoProcess
               ELSE PcOf(q)' \in Role(q)
    <3>1. CASE q \in D BY <3>1
    <3>2. CASE q = GPID_PROCESS BY <1>1, <2>2, <3>2
    <3>3. CASE q \notin D /\ q # GPID_PROCESS BY <1>0, <1>1, <3>3 DEF Roles
    <3> QED BY <3>1, <3>2, <3>3
  <2> QED BY <2>1, <2>3 DEF Roles
<1>3. Script'
  <2>1. ASSUME NEW q \in Pid, calls'[q].mode \in {"send", "recv"}
        PROVE  q \notin D /\ q # GPID_PROCESS
    BY <1>1, <2>1
  <2>2. \A a, b, c : MaySend(a, b, c)' <=> MaySend(a, b, c)
    <3>1. CleanKills(scenario)' <=> CleanKills(scenario) BY <1>1 DEF CleanKills
    <3> QED BY <1>1, <3>1 DEF MaySend
  <2>3. \A a, b : MayRecv(a, b)' <=> MayRecv(a, b) BY <1>1 DEF MayRecv
  <2> QED BY <1>0, <1>1, <2>1, <2>2, <2>3 DEF Script
<1>4. ASSUME NEW p \in Pid, NEW s \in Servers
      PROVE  /\ Expects(p, s)' => p \notin D /\ Expects(p, s)
             /\ p \notin D => (Expects(p, s)' <=> Expects(p, s))
             /\ Serves(s, p)' <=> Serves(s, p)
  <2>1. p \in D => ~Expects(p, s)' BY DEF Expects
  <2>2. p \notin D => (Expects(p, s)' <=> Expects(p, s)) BY <1>1 DEF Expects
  <2>3. s \in Pid /\ s # GPID_PROCESS BY Distinct
  <2>4. s \notin D => (Serves(s, p)' <=> Serves(s, p))
    BY <1>1, <2>3 DEF Serves, Takes, Replies
  <2> QED BY <2>1, <2>2, <2>4
<1>5. Served'
  <2>1. ASSUME NEW p \in Pid, NEW s \in Servers, Expects(p, s)' PROVE Serves(s, p)'
    <3>1. p # GPID_PROCESS BY <1>1, <2>1 DEF Expects
    <3> QED BY <1>0, <1>4, <2>1, <3>1 DEF Served
  <2> QED BY <2>1 DEF Served
<1>6. Wanted'
  <2>1. CleanKills(scenario)' <=> CleanKills(scenario) BY <1>1 DEF CleanKills
  <2>2. ASSUME NEW p \in Pid, NEW s \in Servers, Serves(s, p)',
               p < GPID_USER_START \/ CleanKills(scenario)
        PROVE  Expects(p, s)'
    <3>1. Expects(p, s) BY <1>0, <1>4, <2>2 DEF Wanted
    <3>2. p \notin D BY <2>2, <3>1
    <3> QED BY <1>4, <3>1, <3>2
  <2> QED BY <2>1, <2>2 DEF Wanted
<1>7. BootWait'
  <2>1. CASE l \in BootLabel BY <2>1
  <2>2. CASE l \notin BootLabel BY <1>1, <2>2 DEF BootWait, Awaits, BootLabel
  <2> QED BY <2>1, <2>2
<1>8. Exiting' BY <1>1 DEF Exiting
<1> QED BY <1>2, <1>3, <1>5, <1>6, <1>7, <1>8 DEF ServerInv

LEMMA DeadCalls ==
    ASSUME NEW q \in Pid
    PROVE  calls[q].mode = "dead" <=> StatusOf(q) \in {"PROC_UNUSED", "PROC_LOADING"}
BY DEF calls, CallOf, StatusOf

\* Nobody expects anything of a process that is not there, or is served by it.
LEMMA DeadIsSilent ==
    ASSUME ServerInv, NEW q \in Pid, calls[q].mode = "dead"
    PROVE  /\ \A s \in Servers : ~Expects(q, s)
           /\ \A p \in Pid : ~Serves(q, p)
<1>1. PcOf(q) = NoProcess BY DEF ServerInv, Roles
<1> QED BY <1>1 DEF Expects, Serves, Takes, Replies, TakeLabel, DirWait, NoProcess

\* The steps of sys_proc that only allocate or load a process.
LEMMA AllocServer ==
    ASSUME CallInv, ProgInv, ServerInv, boot_alloc \/ spawn_alloc \/ load_done
    PROVE  ServerInv'
<1>1. PICK k \in {"boot_alloc", "spawn_found", "load_send"},
           l \in {"boot_ready", "load_send", "spawn_ready"} :
         /\ At(GPID_PROCESS, k) /\ Goto(l) /\ (k = "boot_alloc" <=> l = "boot_ready")
         /\ UNCHANGED <<scenario, shell_cmd, dir_client, booting>>
  BY DEF boot_alloc, spawn_alloc, load_done, SysProcLocals, SysDirLocals, ShellLocals
<1>2. InSysProc
  BY DEF boot_alloc, spawn_alloc, load_done, proc_alloc, elf_load
<1>3. calls' = calls
  <2>1. CASE load_done
    <3>1. elf_load(app_pid) /\ PcOf(GPID_PROCESS) = "load_send"
      BY <2>1 DEF load_done, At, PcOf
    <3>2. PICK a \in Pid : a = app_pid
      BY <1>2, <3>1, Ranges DEF ProgInv, OneLoading, LoadLabel, InSysProc, InUserSpace
    <3> QED BY <3>1, <3>2, LoadCalls
  <2> QED BY <2>1, AllocSlots DEF boot_alloc, spawn_alloc
<1>4. /\ PcOf(GPID_PROCESS) = k /\ PcOf(GPID_PROCESS)' = l
      /\ \A q \in Pid : q # GPID_PROCESS => PcOf(q)' = PcOf(q)
  <2>1. l \in Label /\ proc_curr_idx = pid2idx(GPID_PROCESS) BY <1>1 DEF Label, At
  <2> QED BY <1>1, <2>1, GotoFacts, Ranges DEF ProgInv, ProgTypeOK, At, PcOf
<1>5. calls[GPID_PROCESS].mode = "run" BY <1>2, MainComputes
<1>6. Manages({}, k, l) BY <1>1, <1>3, <1>4, <1>5 DEF Manages, MainLabel
<1>7. l \in BootLabel => BootWait'
  <2>1. ASSUME l \in BootLabel PROVE l = "boot_ready" BY <2>1 DEF BootLabel
  <2>2. l = "boot_ready" => BootWait' BY <1>3, <1>4, <1>5 DEF BootWait, Awaits
  <2> QED BY <2>1, <2>2
<1> QED BY <1>6, <1>7, ManageServer

LEMMA BootRecvServer == ASSUME CallInv, ProgInv, ServerInv, boot_recv PROVE ServerInv'
<1>0. Roles /\ Script /\ Served /\ Wanted /\ BootWait BY DEF ServerInv
<1>1. PICK b \in 2 .. 5 : b = booting BY Sizes DEF ProgInv, ProgTypeOK
<1>2. /\ PcOf(GPID_PROCESS) = "boot_recv" /\ proc_curr_idx = pid2idx(GPID_PROCESS)
      /\ sys_recv(b) /\ booting' = b + 1 /\ Goto("boot_alloc")
      /\ UNCHANGED <<scenario, shell_cmd, dir_client>>
  BY <1>1 DEF boot_recv, At, PcOf, SysDirLocals, ShellLocals
<1>3. "boot_alloc" \in Label /\ GPID_PROCESS \in Pid /\ b \in 0 .. GPID_SHELL
  BY Sizes DEF Label
<1>4. Posts(GPID_PROCESS, IPC!Recv(b), "boot_alloc") BY <1>2, <1>3, RecvPosts
<1>5. PICK v : v = IPC!Recv(b) OBVIOUS
<1>6. /\ v.mode = "recv" /\ v.peer = b
      /\ calls'[GPID_PROCESS] = v /\ calls[GPID_PROCESS].mode = "run"
      /\ \A q \in Pid : q # GPID_PROCESS => calls'[q] = calls[q]
      /\ \A q \in Pid : StatusOf(q)' = StatusOf(q)
      /\ PcOf(GPID_PROCESS)' = "boot_alloc"
      /\ \A q \in Pid : q # GPID_PROCESS => PcOf(q)' = PcOf(q)
  BY <1>3, <1>4, <1>5, PostCall, Modes DEF Posts
<1>7. b \in Servers
  <2>1. b # 5 BY <1>1, <1>2, Sizes DEF ProgInv, SlotsInOrder
  <2> QED BY <2>1, Sizes DEF Servers
<1>8. Roles' /\ Script'
  <2>1. "boot_alloc" \in Role(GPID_PROCESS) BY DEF Role, MainLabel
  <2>2. MayRecv("boot_alloc", b) BY <1>7 DEF MayRecv
  <2> QED BY <1>2, <1>3, <1>4, <1>5, <1>6, <2>1, <2>2, Distinct, PostScript
<1>9. Served' /\ Wanted'
  <2>1. ASSUME NEW q \in Pid PROVE KeepsExpects(q)
    <3>1. CASE q # GPID_PROCESS BY <1>6, <3>1 DEF KeepsExpects, Expects
    <3>2. CASE q = GPID_PROCESS
      BY <1>2, <1>6, <3>2, AskLabels DEF KeepsExpects, Expects
    <3> QED BY <3>1, <3>2
  <2>2. ASSUME NEW s \in Servers PROVE KeepsServes(s)
    BY <1>2, <1>6, Distinct DEF KeepsServes, Serves, Takes, Replies
  <2> QED BY <1>0, <1>2, <1>6, <2>1, <2>2, AllKept
<1>10. BootWait'
  <2>1. b = (b + 1) - 1 OBVIOUS
  <2>2. ~Up(b) BY <1>0, <1>1, <1>2, <1>7 DEF BootWait, Awaits
  <2>3. ~Up(b)' BY <1>6, <1>7, <2>2, Distinct DEF Up
  <2>4. \A s \in Servers : Awaits(s)' => s = b BY <1>6 DEF Awaits
  <2> QED BY <1>2, <1>6, <2>1, <2>3, <2>4 DEF BootWait, BootLabel
<1>11. Exiting' BY <1>6 DEF Exiting
<1> QED BY <1>8, <1>9, <1>10, <1>11 DEF ServerInv

LEMMA BootReadyServer == ASSUME CallInv, ProgInv, ServerInv, boot_ready PROVE ServerInv'
<1>1. PICK b \in 2 .. 5 : b = booting BY Sizes DEF ProgInv, ProgTypeOK
<1>2. /\ PcOf(GPID_PROCESS) = "boot_ready" /\ proc_curr_idx = pid2idx(GPID_PROCESS)
      /\ UNCHANGED <<booting, scenario, shell_cmd, dir_client>>
  BY DEF boot_ready, At, PcOf, SysProcLocals, SysDirLocals, ShellLocals
<1>3. PICK p \in Pid :
         /\ proc_set_ready(p)
         /\ pc' = [pc EXCEPT ![pid2idx(p)] = EntryOf(b),
                             ![proc_curr_idx] = IF b = GPID_SHELL
                                                THEN "main_recv" ELSE "boot_recv"]
  BY <1>1 DEF boot_ready
<1>4. /\ StatusOf(p) = "PROC_LOADING"
      /\ calls'[p] = IPC!Born /\ \A q \in Pid : q # p => calls'[q] = calls[q]
  BY <1>3, ReadySlots
<1>5. p = b /\ p # GPID_PROCESS
  BY <1>1, <1>2, <1>4, Sizes DEF ProgInv, OneLoading
<1>6. PICK l \in {"main_recv", "boot_recv"} :
         l = IF b = GPID_SHELL THEN "main_recv" ELSE "boot_recv"
  OBVIOUS
<1>7. /\ PcOf(p)' = EntryOf(b) /\ PcOf(GPID_PROCESS)' = l
      /\ \A q \in Pid : q \notin {p, GPID_PROCESS} => PcOf(q)' = PcOf(q)
  <2>1. l \in Label /\ EntryOf(b) \in Label BY <1>6 DEF Label, EntryOf
  <2> QED BY <1>2, <1>3, <1>5, <1>6, <2>1, TwoLabels
<1>8. GPID_PROCESS \in Pid /\ calls[GPID_PROCESS].mode = "run"
  BY <1>3, MainComputes, Ranges DEF proc_set_ready
<1>9. calls[p].mode = "dead" BY <1>4, DeadCalls
<1>10. Manages({p}, "boot_ready", l)
  BY <1>2, <1>4, <1>5, <1>6, <1>7, <1>8 DEF Manages, MainLabel
<1>11. calls'[p].mode = "run" BY <1>4, Modes
<1>12. /\ EntryOf(b) \in Role(p) /\ \A s \in Servers : EntryOf(b) \notin AskLabel(p, s)
       /\ EntryOf(b) \notin TakeLabel \cup DirWait
       /\ b \in Servers => EntryOf(b) \notin UpLabel(b)
  <2>1. EntryOf(b) \in Role(p) BY <1>5, Sizes DEF EntryOf, Role, ShellLabel
  <2>2. \A s \in Servers : EntryOf(b) \notin AskLabel(p, s)
    BY <1>5, Sizes DEF AskLabel, EntryOf
  <2>3. EntryOf(b) \notin TakeLabel \cup DirWait BY DEF EntryOf, TakeLabel, DirWait
  <2> QED BY <2>1, <2>2, <2>3, Labels DEF InitLabel
<1>13. \A q \in Pid : ~Serves(p, q)'
  BY <1>7, <1>11, <1>12 DEF Serves, Takes, Replies
<1>14. l \in BootLabel => BootWait'
  <2>1. SUFFICES ASSUME l = "boot_recv" PROVE BootWait'
    BY <1>6 DEF BootLabel
  <2>2. \A s \in Servers : Awaits(s)' => s = p BY <1>1, <1>2, <1>5, <1>7, <2>1 DEF Awaits
  <2>3. p \in Servers => ~Up(p)' BY <1>5, <1>7, <1>12 DEF Up
  <2>4. calls'[GPID_PROCESS].mode = "run" BY <1>4, <1>5, <1>8
  <2> QED BY <2>2, <2>3, <2>4 DEF BootWait
<1> QED BY <1>7, <1>9, <1>10, <1>11, <1>12, <1>13, <1>14, DeadIsSilent, ManageServer

LEMMA SpawnReadyServer ==
    ASSUME CallInv, ProgInv, ServerInv, spawn_ready PROVE ServerInv'
<1>1. /\ PcOf(GPID_PROCESS) = "spawn_ready" /\ proc_curr_idx = pid2idx(GPID_PROCESS)
      /\ proc_set_ready(app_pid)
      /\ pc' = [pc EXCEPT ![pid2idx(app_pid)] = "app",
                          ![proc_curr_idx] = "spawn_reply"]
      /\ UNCHANGED <<scenario, shell_cmd, dir_client>>
  BY DEF spawn_ready, At, PcOf, SysProcLocals, SysDirLocals, ShellLocals
<1>2. InSysProc /\ fatal = "none"
  BY <1>1 DEF proc_set_ready, InSysProc, InUserSpace
<1>3. PICK a \in GPID_USER_START .. MAX_NPROCESS : a = app_pid
  BY <1>1, <1>2 DEF ProgInv, OneLoading, LoadLabel
<1>4. /\ proc_set_ready(a) /\ a \in Pid /\ a # GPID_PROCESS /\ a \notin Servers
      /\ a # GPID_FILE /\ a # GPID_DIR /\ a # GPID_NET /\ a # GPID_SHELL
  BY <1>1, <1>3, Ranges, Sizes DEF Servers
<1>5. /\ StatusOf(a) = "PROC_LOADING"
      /\ calls'[a] = IPC!Born /\ \A q \in Pid : q # a => calls'[q] = calls[q]
  BY <1>4, ReadySlots
<1>6. "app" \in Label /\ "spawn_reply" \in Label BY DEF Label
<1>7. /\ PcOf(a)' = "app" /\ PcOf(GPID_PROCESS)' = "spawn_reply"
      /\ \A q \in Pid : q \notin {a, GPID_PROCESS} => PcOf(q)' = PcOf(q)
  BY <1>1, <1>3, <1>4, <1>6, TwoLabels
<1>8. calls[GPID_PROCESS].mode = "run" /\ GPID_PROCESS \in Pid
  BY <1>2, MainComputes, Ranges
<1>9. calls[a].mode = "dead" /\ calls'[a].mode = "run"
  BY <1>4, <1>5, DeadCalls, Modes
<1>10. Manages({a}, "spawn_ready", "spawn_reply")
  BY <1>1, <1>4, <1>5, <1>7, <1>8 DEF Manages, MainLabel
<1>11. "app" \in Role(a) /\ \A s \in Servers : "app" \notin AskLabel(a, s)
  BY <1>4, AskLabels DEF Role, AppLabel, WaitLabel
<1> QED BY <1>4, <1>7, <1>9, <1>10, <1>11, DeadIsSilent, ManageServer DEF BootLabel

\* A process that asks, or sends to a server.
LEMMA Asking ==
    ASSUME ProgInv, ServerInv, NEW p \in Pid, calls[p].mode = "send"
    PROVE  /\ \A s \in Servers : PcOf(p) \in AskLabel(p, s) => calls[p].peer = s
           /\ calls[p].peer \in Servers =>
                 \/ Replies(p, calls[p].peer) /\ p \in Servers
                 \/ PcOf(p) \in AskLabel(p, calls[p].peer)
                 \/ p >= GPID_USER_START /\ ~CleanKills(scenario)
<1>0. PICK l : l = PcOf(p) OBVIOUS
<1>1. PICK q : q = calls[p].peer OBVIOUS
<1>2. PICK m : m = calls[p].content OBVIOUS
<1>3. MaySend(l, q, m) BY <1>0, <1>1, <1>2 DEF ServerInv, Script
<1>4. /\ l \in MainLabel => p = GPID_PROCESS
      /\ l \in {"file_init", "file_recv", "file_got"} => p = GPID_FILE
      /\ l \in {"dir_init", "dir_recv", "dir_got", "dir_block", "dir_reply"} => p = GPID_DIR
      /\ l \in {"net_init", "net_recv", "net_got"} => p = GPID_NET
      /\ l \in ShellLabel => p = GPID_SHELL
      /\ l \in AppLabel \cup {"wait_file", "wait_dir", "wait_net"} => p >= GPID_USER_START
  BY <1>0, Who DEF ServerInv
<1>5. scenario.servers \subseteq Servers BY ScenarioServers
<1>6. ASSUME NEW s \in Servers, l \in AskLabel(p, s) PROVE q = s
  <2>1. CASE p = GPID_PROCESS
    <3>1. \/ l \in {"spawn_bin", "spawn_ino"} /\ s = GPID_DIR
          \/ l = "load_recv" /\ s = GPID_FILE
      BY <1>6, <2>1, AskLabels
    <3>2. CASE l = "load_recv" BY <1>3, <3>1, <3>2 DEF MaySend, WaitLabel
    <3>3. CASE l = "spawn_bin" BY <1>3, <3>1, <3>3 DEF MaySend, WaitLabel
    <3>4. CASE l = "spawn_ino" BY <1>3, <3>1, <3>4 DEF MaySend, WaitLabel
    <3> QED BY <3>1, <3>2, <3>3, <3>4
  <2>2. CASE p = GPID_DIR
    <3>1. l = "dir_block" /\ s = GPID_FILE BY <1>6, <2>2, AskLabels
    <3> QED BY <1>3, <3>1 DEF MaySend, WaitLabel
  <2>3. CASE p >= GPID_USER_START
    <3>1. l = WaitLabel(s) BY <1>6, <2>3, AskLabels, Sizes
    <3>2. l \in {"wait_file", "wait_dir", "wait_net"} BY <3>1 DEF WaitLabel
    <3>3. l = WaitLabel(q) /\ q \in Servers BY <1>3, <1>5, <3>2 DEF MaySend
    <3> QED BY <3>1, <3>3, Distinct DEF WaitLabel
  <2>4. p \in {GPID_PROCESS, GPID_DIR, GPID_FILE, GPID_NET, GPID_SHELL}
        \/ p >= GPID_USER_START
    BY Sizes
  <2> QED BY <1>6, <2>1, <2>2, <2>3, <2>4, AskLabels
<1>7. ASSUME q \in Servers
      PROVE  \/ Replies(p, q) /\ p \in Servers
             \/ l \in AskLabel(p, q)
             \/ p >= GPID_USER_START /\ ~CleanKills(scenario)
  <2>0. q # GPID_PROCESS /\ q # GPID_SHELL BY <1>7, Distinct
  <2>1. CASE l \in {"file_recv", "net_recv", "dir_recv"}
    <3>1. m \in {"ok", "DIR_ERROR"} BY <1>3, <2>0, <2>1 DEF MaySend, WaitLabel
    <3> QED BY <1>1, <1>2, <1>4, <2>1, <3>1, Distinct DEF Replies
  <2>2. CASE l = "dir_block"
    <3>1. q = GPID_FILE BY <1>3, <2>2 DEF MaySend, WaitLabel
    <3> QED BY <1>4, <1>7, <2>2, <3>1, AskLabels
  <2>3. CASE l \in {"spawn_bin", "spawn_ino", "load_recv"}
    <3>1. IF l = "load_recv" THEN q = GPID_FILE ELSE q = GPID_DIR
      BY <1>3, <2>3 DEF MaySend, WaitLabel
    <3>2. p = GPID_PROCESS BY <1>4, <2>3 DEF MainLabel
    <3> QED BY <1>7, <2>3, <3>1, <3>2, AskLabels
  <2>4. CASE l = WaitLabel(q) /\ q \in scenario.servers
    <3>1. p >= GPID_USER_START BY <1>4, <2>4 DEF WaitLabel
    <3>2. p \in GPID_USER_START .. MAX_NPROCESS BY <3>1, Sizes
    <3> QED BY <1>7, <2>4, <3>2, AskLabels
  <2>5. CASE l = "exit" /\ ~CleanKills(scenario)
    BY <1>4, <2>5 DEF AppLabel
  <2> QED BY <1>3, <2>0, <2>1, <2>2, <2>3, <2>4, <2>5 DEF MaySend
<1> QED BY <1>0, <1>1, <1>6, <1>7

\* A process that receives asks nobody; a server receives from anyone at the
\* top of its loop, and from sys_file only in sys_dir.
LEMMA Receiving ==
    ASSUME ProgInv, ServerInv, NEW q \in Pid, calls[q].mode = "recv"
    PROVE  /\ \A s \in Servers : PcOf(q) \notin AskLabel(q, s)
           /\ PcOf(q) \in TakeLabel => calls[q].peer = 0
           /\ q \in Servers /\ PcOf(q) \notin TakeLabel =>
                 q = GPID_DIR /\ PcOf(q) = "dir_reply" /\ calls[q].peer = GPID_FILE
<1>0. PICK l : l = PcOf(q) OBVIOUS
<1>1. PICK s : s = calls[q].peer OBVIOUS
<1>2. MayRecv(l, s) BY <1>0, <1>1 DEF ServerInv, Script
<1>3. l \notin {"spawn_bin", "spawn_ino", "load_recv", "dir_block", "wait_file", "wait_dir",
               "wait_net"}
  BY <1>2 DEF MayRecv, GotLabel
<1>4. \A t \in Servers : l \notin AskLabel(q, t) BY <1>3 DEF AskLabel, WaitLabel
<1>5. l \in TakeLabel => s = 0 BY <1>2 DEF MayRecv, TakeLabel
<1>6. ASSUME q \in Servers, l \notin TakeLabel
      PROVE  q = GPID_DIR /\ l = "dir_reply" /\ s = GPID_FILE
  <2>1. l \in Role(q) BY <1>0 DEF ServerInv, Roles
  <2>2. l \in {"file_init", "file_recv", "net_init", "net_recv", "dir_init", "dir_recv",
               "dir_block", "dir_reply"}
    BY <1>6, <2>1, Distinct DEF Role, TakeLabel
  <2>3. l = "dir_reply" /\ s = GPID_FILE BY <1>2, <2>2 DEF MayRecv, GotLabel
  <2> QED BY <1>0, <2>3, Who DEF ServerInv
<1> QED BY <1>0, <1>1, <1>4, <1>5, <1>6

\* A message moves from p to q.
Exchange(p, q, m) ==
    /\ calls[p].mode = "send" /\ calls[p].peer = q /\ calls[p].content = m
    /\ calls[q].mode = "recv" /\ calls[q].peer \in {0, p} /\ p # q
    /\ calls'[p].mode = "run" /\ calls'[p].peer = p /\ calls'[p].content = m
    /\ calls'[q].mode = "run" /\ calls'[q].peer = p /\ calls'[q].content = m
    /\ \A r \in Pid : r \notin {p, q} => calls'[r] = calls[r]

LEMMA Exchanges ==
    ASSUME NEW p \in Pid, NEW q \in Pid, IPC!Transfer(p, q)
    PROVE  Exchange(p, q, calls[p].content)
<1>1. PICK m : m = calls[p].content OBVIOUS
<1>2. /\ calls[p].mode = "send" /\ calls[p].peer = q
      /\ calls[q].mode = "recv" /\ calls[q].peer \in {0, p} /\ p # q
      /\ calls' = [calls EXCEPT ![p] = IPC!Run(p, m), ![q] = IPC!Run(p, m)]
  BY <1>1 DEF IPC!Transfer, IPC!Matches, IPC!Any
<1>3. /\ calls'[p] = IPC!Run(p, m) /\ calls'[q] = IPC!Run(p, m)
      /\ \A r \in Pid : r \notin {p, q} => calls'[r] = calls[r]
  <2>1. DOMAIN calls = Pid BY DEF calls
  <2> QED BY <1>2, <2>1
<1>4. /\ calls'[p].mode = "run" /\ calls'[p].peer = p /\ calls'[p].content = m
      /\ calls'[q].mode = "run" /\ calls'[q].peer = p /\ calls'[q].content = m
  <2>1. PICK v : v = IPC!Run(p, m) OBVIOUS
  <2>2. v.mode = "run" /\ v.peer = p /\ v.content = m BY <2>1, Modes
  <2> QED BY <1>3, <2>1, <2>2
<1> QED BY <1>1, <1>2, <1>3, <1>4 DEF Exchange

LEMMA ExchangeServer ==
    ASSUME CallInv, ProgInv, ServerInv, UNCHANGED progVars,
           \A r \in Pid, x \in {"PROC_UNUSED", "PROC_LOADING"} :
              StatusOf(r)' = x <=> StatusOf(r) = x,
           NEW p \in Pid, NEW q \in Pid, NEW m, Exchange(p, q, m)
    PROVE  ServerInv'
<1>0. Roles /\ Script /\ Served /\ Wanted /\ BootWait /\ Exiting BY DEF ServerInv
<1>1. /\ UNCHANGED <<pc, booting, dir_client, shell_cmd, scenario>>
      /\ \A r : PcOf(r)' = PcOf(r)
  BY DEF progVars, PcOf
<1>2. /\ calls[p].mode = "send" /\ calls[p].peer = q /\ calls[p].content = m
      /\ calls[q].mode = "recv" /\ calls[q].peer \in {0, p} /\ p # q
      /\ calls'[p].mode = "run" /\ calls'[p].peer = p /\ calls'[p].content = m
      /\ calls'[q].mode = "run" /\ calls'[q].peer = p /\ calls'[q].content = m
      /\ \A r \in Pid : r \notin {p, q} => calls'[r] = calls[r]
  BY DEF Exchange
<1>3. Roles'
  <2>1. \A r : Role(r)' = Role(r) BY <1>1 DEF Role
  <2> QED BY <1>0, <1>1, <1>2, <2>1 DEF Roles
<1>4. Script'
  <2>1. CleanKills(scenario)' <=> CleanKills(scenario) BY <1>1 DEF CleanKills
  <2>2. \A a, b, c : MaySend(a, b, c)' <=> MaySend(a, b, c) BY <1>1, <2>1 DEF MaySend
  <2>3. \A a, b : MayRecv(a, b)' <=> MayRecv(a, b) BY <1>1 DEF MayRecv
  <2> QED BY <1>0, <1>1, <1>2, <2>2, <2>3 DEF Script
<1>5. PcOf(p) \notin GotLabel /\ TakeLabel \subseteq GotLabel
  BY <1>2 DEF ProgInv, Offers, TakeLabel, GotLabel
<1>6. /\ \A s \in Servers : PcOf(p) \in AskLabel(p, s) => q = s
      /\ q \in Servers =>
            \/ Replies(p, q) /\ p \in Servers
            \/ PcOf(p) \in AskLabel(p, q)
            \/ p >= GPID_USER_START /\ ~CleanKills(scenario)
      /\ \A s \in Servers : PcOf(q) \notin AskLabel(q, s)
      /\ PcOf(q) \in TakeLabel => calls[q].peer = 0
      /\ q \in Servers /\ PcOf(q) \notin TakeLabel =>
            q = GPID_DIR /\ PcOf(q) = "dir_reply" /\ calls[q].peer = GPID_FILE
  BY <1>2, Asking, Receiving
<1>7. ASSUME NEW s \in Servers, NEW x \in Pid
      PROVE  /\ Expects(x, s)' => Expects(x, s) \/ (x = p /\ s = q /\ PcOf(p) \in AskLabel(p, q))
             /\ x \notin {p, q} => (Expects(x, s)' <=> Expects(x, s))
             /\ s \notin {p, q} => (Serves(s, x)' <=> Serves(s, x))
             /\ ~Expects(p, s) /\ ~Expects(q, s)' /\ (Expects(q, s) => s = p)
  <2>1. x \notin {p, q} => (Expects(x, s)' <=> Expects(x, s))
    BY <1>1, <1>2 DEF Expects
  <2>2. s \notin {p, q} => (Serves(s, x)' <=> Serves(s, x))
    BY <1>1, <1>2, Distinct DEF Serves, Takes, Replies
  <2>3. ~Expects(p, s) /\ ~Expects(q, s)' /\ (Expects(q, s) => s = p)
    BY <1>1, <1>2, <1>6, Distinct DEF Expects
  <2>4. Expects(p, s)' => s = q /\ PcOf(p) \in AskLabel(p, q)
    BY <1>1, <1>2, <1>6 DEF Expects
  <2> QED BY <2>1, <2>2, <2>3, <2>4
<1>8. Served'
  <2>1. ASSUME NEW s \in Servers, NEW x \in Pid, Expects(x, s)',
               ~(x = GPID_PROCESS /\ PcOf(x)' = "boot_alloc")
        PROVE  Serves(s, x)'
    <3>1. CASE x = p /\ s = q /\ PcOf(p) \in AskLabel(p, q)
      <4>1. PcOf(q) \in TakeLabel
        <5>1. SUFFICES ASSUME PcOf(q) \notin TakeLabel PROVE FALSE OBVIOUS
        <5>2. calls[q].peer = GPID_FILE BY <1>6, <2>1, <3>1, <5>1
        <5>3. p = GPID_FILE BY <1>2, <5>2, Distinct
        <5> QED BY <2>1, <3>1, <5>3, AskLabels
      <4> QED BY <1>1, <1>2, <3>1, <4>1 DEF Serves, Takes
    <3>2. CASE Expects(x, s)
      <4>1. Serves(s, x) BY <1>0, <1>1, <2>1, <3>2 DEF Served
      <4>2. x # p /\ x # q BY <1>7, <2>1, <3>2
      <4>3. CASE s \notin {p, q} BY <1>7, <4>1, <4>3
      <4>4. CASE s \in {p, q}
        <5>1. ~Takes(s, x) /\ ~Replies(s, x)
          BY <1>2, <4>2, <4>4 DEF Takes, Replies
        <5>2. s = GPID_DIR /\ PcOf(s) \in DirWait /\ dir_client = x
          BY <4>1, <5>1 DEF Serves
        <5> QED BY <1>1, <5>2 DEF Serves
      <4> QED BY <4>3, <4>4
    <3> QED BY <1>7, <2>1, <3>1, <3>2
  <2> QED BY <2>1 DEF Served
<1>9. Wanted'
  <2>0. CleanKills(scenario)' <=> CleanKills(scenario) BY <1>1 DEF CleanKills
  <2>1. ASSUME NEW s \in Servers, NEW x \in Pid, Serves(s, x)',
               x < GPID_USER_START \/ CleanKills(scenario)
        PROVE  Expects(x, s)'
    <3>1. CASE Serves(s, x)
      <4>1. Expects(x, s) BY <1>0, <2>1, <3>1 DEF Wanted
      <4>2. x # p BY <1>7, <4>1
      <4>3. x # q
        <5>1. SUFFICES ASSUME x = q PROVE FALSE OBVIOUS
        <5>2. s = p BY <1>7, <4>1, <5>1
        <5>3. ~Takes(s, x)' /\ ~Replies(s, x)' BY <1>1, <1>2, <1>5, <5>2 DEF Takes, Replies
        <5>4. s = GPID_DIR /\ PcOf(s) \in DirWait
          BY <1>1, <2>1, <5>3 DEF Serves
        <5>5. MaySend(PcOf(p), q, m) BY <1>0, <1>2 DEF Script
        <5>6. q = GPID_FILE BY <5>2, <5>4, <5>5 DEF MaySend, DirWait, WaitLabel
        <5>7. calls[q].peer = p
          BY <1>2, <4>1, <5>1, <5>2, <1>6 DEF Expects
        <5>8. PcOf(q) \in TakeLabel BY <1>6, <5>6, Distinct
        <5> QED BY <1>6, <5>7, <5>8, Distinct
      <4> QED BY <1>7, <4>1, <4>2, <4>3
    <3>2. CASE ~Serves(s, x)
      <4>1. s \in {p, q} BY <1>7, <2>1, <3>2
      <4>2. Takes(s, x)'
        BY <1>1, <1>2, <2>1, <3>2, <4>1 DEF Serves, Replies
      <4>3. s = q /\ x = p /\ PcOf(q) \in TakeLabel
        BY <1>1, <1>2, <1>5, <4>1, <4>2 DEF Takes
      <4>4. CASE Replies(p, q) /\ p \in Servers
        <5>1. q < GPID_USER_START BY <2>1, <4>3, Distinct
        <5>2. Expects(q, p) BY <1>0, <4>4, <5>1 DEF Wanted, Serves
        <5>3. calls[q].peer = p BY <1>2, <5>2 DEF Expects
        <5> QED BY <1>6, <4>3, <5>3, Distinct
      <4>5. CASE PcOf(p) \in AskLabel(p, q)
        BY <1>1, <1>2, <4>3, <4>5 DEF Expects
      <4>6. CASE p >= GPID_USER_START /\ ~CleanKills(scenario)
        BY <2>1, <4>3, <4>6, Sizes
      <4> QED BY <1>6, <2>1, <4>3, <4>4, <4>5, <4>6
    <3> QED BY <3>1, <3>2
  <2> QED BY <2>0, <2>1 DEF Wanted
<1>10. BootWait'
  <2>1. ASSUME PcOf(GPID_PROCESS) \in BootLabel PROVE p # GPID_PROCESS
    BY <1>0, <1>2, <2>1 DEF BootWait
  <2>2. ASSUME NEW s \in Servers, Awaits(s)' PROVE ~Up(s)'
    <3>1. "boot_recv" \in BootLabel /\ "boot_alloc" \in BootLabel BY DEF BootLabel
    <3>2. PcOf(GPID_PROCESS) \in BootLabel BY <1>1, <2>2, <3>1 DEF Awaits
    <3>3. Awaits(s) /\ (PcOf(GPID_PROCESS) = "boot_alloc" => q # GPID_PROCESS)
      BY <1>1, <1>2, <2>1, <2>2, <3>2, Distinct DEF Awaits
    <3>4. ~Up(s) /\ ServerPhase(s)
      BY <1>0, <3>3 DEF BootWait, ProgInv, ServersReport
    <3>5. q # GPID_PROCESS
      BY <1>0, <1>2, <3>2, <3>3 DEF BootWait
    <3>6. s \in Pid BY Distinct
    <3>7. s # p
      <4>1. SUFFICES ASSUME s = p PROVE FALSE OBVIOUS
      <4>2. StatusOf(p) \notin {"PROC_UNUSED", "PROC_LOADING"} BY <1>2, CallersAreUsed
      <4>3. calls[p] = IPC!Send(GPID_PROCESS, "initialized")
        BY <1>2, <3>4, <4>1, <4>2 DEF ServerPhase
      <4> QED BY <1>2, <3>5, <4>3, Modes
    <3>8. s # q
      <4>1. SUFFICES ASSUME s = q PROVE FALSE OBVIOUS
      <4>2. StatusOf(q) \notin {"PROC_UNUSED", "PROC_LOADING"} BY <1>2, CallersAreUsed
      <4>3. calls[q] = IPC!Send(GPID_PROCESS, "initialized")
        BY <1>2, <3>4, <4>1, <4>2 DEF ServerPhase
      <4> QED BY <1>2, <4>3, Modes
    <3> QED BY <1>1, <1>2, <3>4, <3>6, <3>7, <3>8 DEF Up
  <2>3. \/ calls'[GPID_PROCESS].mode = "run"
        \/ calls'[GPID_PROCESS] = calls[GPID_PROCESS]
    BY <1>2, Distinct
  <2> QED BY <1>0, <1>1, <2>2, <2>3 DEF BootWait
<1>11. Exiting'
  <2>1. SUFFICES ASSUME PcOf(GPID_PROCESS) = "main_got",
                        calls'[GPID_PROCESS].mode = "run",
                        calls'[GPID_PROCESS].content = "PROC_EXIT"
                 PROVE  /\ PcOf(calls'[GPID_PROCESS].peer) \in {"exit", "exited"}
                        /\ calls'[calls'[GPID_PROCESS].peer].mode \in {"run", "send"}
    <3>1. \A r : PcOf(r)' = PcOf(r) BY <1>1
    <3> QED BY <1>1 DEF Exiting, PcOf
  <2>2. p # GPID_PROCESS BY <1>5, <2>1 DEF GotLabel
  <2>3. CASE q = GPID_PROCESS
    <3>1. MaySend(PcOf(p), GPID_PROCESS, "PROC_EXIT") BY <1>0, <1>2, <2>1, <2>3 DEF Script
    <3>2. PICK k : k = PcOf(p) OBVIOUS
    <3>3. GPID_PROCESS \notin scenario.servers BY ScenarioServers, Distinct
    <3>4. MaySend(k, GPID_PROCESS, "PROC_EXIT") => k \in {"exit", "exited"}
      BY <3>3, Distinct DEF MaySend, Spawn
    <3>5. PcOf(p) \in {"exit", "exited"} BY <3>1, <3>2, <3>4
    <3> QED BY <1>2, <2>3, <3>5
  <2>4. CASE q # GPID_PROCESS
    <3>1. calls'[GPID_PROCESS] = calls[GPID_PROCESS] BY <1>2, <2>2, <2>4, Distinct
    <3>2. PICK r : r = calls[GPID_PROCESS].peer OBVIOUS
    <3>3. r \in Pid
      BY <2>1, <3>1, <3>2, Distinct DEF ProgInv, Answers, GotLabel, Known
    <3>4. PcOf(r) \in {"exit", "exited"} /\ calls[r].mode \in {"run", "send"}
      BY <1>0, <2>1, <3>1, <3>2 DEF Exiting
    <3> QED BY <1>2, <3>1, <3>2, <3>3, <3>4
  <2> QED BY <2>3, <2>4
<1> QED BY <1>3, <1>4, <1>8, <1>9, <1>10, <1>11 DEF ServerInv

-----------------------------------------------------------------------------
(***************************************************************************)
(* Processes that end, and ctrl+c.                                         *)
(***************************************************************************)
\* sys_proc, at main_got, frees the applications of D and goes on at l.
Frees(D, l) ==
    /\ PcOf(GPID_PROCESS) = "main_got" /\ PcOf(GPID_PROCESS)' = l
    /\ calls[GPID_PROCESS].mode = "run" /\ calls'[GPID_PROCESS] = calls[GPID_PROCESS]
    /\ D \subseteq GPID_USER_START .. MAX_NPROCESS
    /\ \A q \in D : /\ calls'[q].mode = "dead" /\ PcOf(q)' = NoProcess
                    /\ StatusOf(q)' = "PROC_UNUSED"
    /\ \A q \in Pid : q \notin D => calls'[q] = calls[q] /\ StatusOf(q)' = StatusOf(q)
    /\ \A q \in Pid : q \notin D /\ q # GPID_PROCESS => PcOf(q)' = PcOf(q)
    /\ UNCHANGED <<SysProcLocals, SysDirLocals, ShellLocals>>

LEMMA ExitFrees ==
    ASSUME CallInv, ProgInv, main_exit
    PROVE  \E p \in GPID_USER_START .. MAX_NPROCESS :
              /\ calls[GPID_PROCESS].peer = p /\ calls[GPID_PROCESS].content = "PROC_EXIT"
              /\ Frees({p}, IF shell_waiting /\ app_pid = p THEN "exit_notice"
                            ELSE "main_recv")
<1>1. /\ PcOf(GPID_PROCESS) = "main_got" /\ proc_curr_idx = pid2idx(GPID_PROCESS)
      /\ Received = "PROC_EXIT" /\ proc_free(Sender)
      /\ UNCHANGED <<SysProcLocals, SysDirLocals, ShellLocals>>
  BY DEF main_exit, Exit, At, PcOf
<1>2. PICK p : p = Sender OBVIOUS
<1>3. PICK l \in {"exit_notice", "main_recv"} :
         /\ l = IF shell_waiting /\ app_pid = p THEN "exit_notice" ELSE "main_recv"
         /\ pc' = [pc EXCEPT ![pid2idx(p)] = NoProcess, ![proc_curr_idx] = l]
  BY <1>2 DEF main_exit, Exit
<1>4. InSysProc BY <1>1 DEF proc_free
<1>5. /\ calls[GPID_PROCESS].mode = "run" /\ calls[GPID_PROCESS].peer = p
      /\ calls[GPID_PROCESS].content = "PROC_EXIT" /\ PROC_EXIT = "PROC_EXIT"
  <2>1. calls[GPID_PROCESS] = IPC!Run(Sender, Received) BY <1>4, MainComputes
  <2> QED BY <1>1, <1>2, <2>1, Sizes DEF IPC!Run
<1>6. p \in GPID_USER_START .. MAX_NPROCESS
  <2>1. p >= GPID_USER_START BY <1>1, <1>5 DEF ProgInv, ExitsAreOfApps
  <2>2. p \in Pid BY <1>1, <1>5, Ranges DEF ProgInv, Answers, GotLabel, Known
  <2> QED BY <2>1, <2>2, Sizes
<1>7. proc_free(p) /\ p \in Pid /\ p # GPID_PROCESS /\ GPID_PROCESS \in Pid
  BY <1>1, <1>2, <1>6, Ranges
<1>8. /\ \A i \in Idx : status'[i] = IF idx2pid(i) \in {p} THEN "PROC_UNUSED"
                                     ELSE status[i]
      /\ calls' = [q \in Pid |-> IF q \in {p} THEN IPC!Dead ELSE calls[q]]
  BY <1>6, <1>7, FreeOneCalls
<1>9. /\ \A q \in Pid : StatusOf(q)' = IF q = p THEN "PROC_UNUSED" ELSE StatusOf(q)
      /\ \A q \in Pid : calls'[q] = IF q = p THEN IPC!Dead ELSE calls[q]
  BY <1>8, PidSlots DEF StatusOf
<1>10. NoProcess \in Label /\ l \in Label BY DEF Label
<1>11. /\ PcOf(p)' = NoProcess /\ PcOf(GPID_PROCESS)' = l
       /\ \A q \in Pid : q \notin {p, GPID_PROCESS} => PcOf(q)' = PcOf(q)
  BY <1>1, <1>3, <1>7, <1>10, TwoLabels
<1>12. calls'[p].mode = "dead" BY <1>7, <1>9, Modes
<1>13. Frees({p}, l) BY <1>1, <1>5, <1>6, <1>7, <1>9, <1>11, <1>12 DEF Frees
<1> QED BY <1>3, <1>5, <1>6, <1>13

LEMMA KillFrees ==
    ASSUME CallInv, ProgInv, main_killall
    PROVE  /\ calls[GPID_PROCESS].content = "PROC_KILLALL"
           /\ \E D : Frees(D, "main_recv")
           /\ \A q \in GPID_USER_START .. MAX_NPROCESS : StatusOf(q)' = "PROC_UNUSED"
<1>1. /\ PcOf(GPID_PROCESS) = "main_got" /\ proc_curr_idx = pid2idx(GPID_PROCESS)
      /\ proc_free_all /\ Received = "PROC_KILLALL"
      /\ pc' = [i \in Idx |-> IF i = proc_curr_idx THEN "main_recv"
                              ELSE IF pid[i] >= GPID_USER_START THEN NoProcess
                              ELSE pc[i]]
      /\ UNCHANGED <<SysProcLocals, SysDirLocals, ShellLocals>>
  BY DEF main_killall, At, PcOf
<1>2. InSysProc BY <1>1 DEF proc_free_all
<1>3. PICK S \in SUBSET (GPID_USER_START .. MAX_NPROCESS) :
         /\ \A i \in Idx : idx2pid(i) \in S <=> pid[i] >= GPID_USER_START
         /\ \A i \in Idx : status'[i] = IF idx2pid(i) \in S THEN "PROC_UNUSED"
                                        ELSE status[i]
         /\ calls' = [q \in Pid |-> IF q \in S THEN IPC!Dead ELSE calls[q]]
  BY <1>1, FreeAllCalls
<1>4. /\ \A q \in Pid : StatusOf(q)' = IF q \in S THEN "PROC_UNUSED" ELSE StatusOf(q)
      /\ \A q \in Pid : calls'[q] = IF q \in S THEN IPC!Dead ELSE calls[q]
      /\ \A q \in Pid : q \in S <=> pid[pid2idx(q)] >= GPID_USER_START
  BY <1>3, PidSlots DEF StatusOf
<1>5. /\ GPID_PROCESS \in Pid /\ GPID_PROCESS \notin S /\ S \subseteq Pid
      /\ \A q \in GPID_USER_START .. MAX_NPROCESS : q \in Pid
  BY Ranges, Sizes
<1>6. /\ PcOf(GPID_PROCESS)' = "main_recv"
      /\ \A q \in Pid : q # GPID_PROCESS =>
            PcOf(q)' = IF q \in S THEN NoProcess ELSE PcOf(q)
  <2>1. \A q \in Pid : pid2idx(q) \in Idx BY PidSlots
  <2>2. ASSUME NEW q \in Pid, q # GPID_PROCESS
        PROVE  pid2idx(q) # pid2idx(GPID_PROCESS)
    BY <2>2, PidSlots, Ranges
  <2> QED BY <1>1, <1>4, <1>5, <2>1, <2>2 DEF PcOf
<1>7. calls[GPID_PROCESS].mode = "run" /\ calls[GPID_PROCESS].content = "PROC_KILLALL"
  <2>1. calls[GPID_PROCESS] = IPC!Run(Sender, Received) BY <1>2, MainComputes
  <2> QED BY <1>1, <2>1 DEF IPC!Run
<1>8. \A q \in S : calls'[q].mode = "dead" BY <1>4, <1>5, Modes
<1>9. Frees(S, "main_recv") BY <1>1, <1>4, <1>5, <1>6, <1>7, <1>8 DEF Frees
<1>10. ASSUME NEW q \in GPID_USER_START .. MAX_NPROCESS PROVE StatusOf(q)' = "PROC_UNUSED"
  <2>1. CASE q \in S BY <1>4, <1>5, <2>1
  <2>2. CASE q \notin S
    <3>1. q \in Pid BY <1>5
    <3>2. ~(pid[pid2idx(q)] >= GPID_USER_START) BY <1>4, <2>2, <3>1
    <3>3. q >= GPID_USER_START BY Sizes
    <3>4. ~Known(q) BY <3>2, <3>3 DEF Known
    <3>5. ~Used(q) BY <3>1, <3>4, UsedKnown
    <3> QED BY <1>4, <2>2, <3>1, <3>5 DEF Used
  <2> QED BY <2>1, <2>2
<1> QED BY <1>7, <1>9, <1>10

\* What freeing the applications of D takes.
LEMMA FreeServer ==
    ASSUME ServerInv, NEW D, NEW l \in {"main_recv", "exit_notice"}, Frees(D, l),
           \A q \in D, s \in Servers : CleanKills(scenario) => ~Expects(q, s)
    PROVE  ServerInv'
<1>1. Manages(D, "main_got", l)
  <2>1. GPID_PROCESS \notin D BY Sizes DEF Frees
  <2>2. UNCHANGED <<scenario, shell_cmd, dir_client>>
    BY DEF Frees, SysDirLocals, ShellLocals
  <2> QED BY <2>1, <2>2 DEF Frees, Manages, MainLabel
<1>2. D \subseteq Pid /\ \A q \in D : q \notin Servers /\ ~(q < GPID_USER_START)
  BY Sizes DEF Frees, Servers
<1>3. \A q \in D : calls'[q].mode = "dead" /\ PcOf(q)' = NoProcess BY DEF Frees
<1>4. l \notin BootLabel BY DEF BootLabel
<1> QED BY <1>1, <1>2, <1>3, <1>4, ManageServer

LEMMA ExitServer == ASSUME CallInv, ProgInv, ServerInv, main_exit PROVE ServerInv'
<1>1. PICK p \in GPID_USER_START .. MAX_NPROCESS :
         /\ calls[GPID_PROCESS].peer = p /\ calls[GPID_PROCESS].content = "PROC_EXIT"
         /\ Frees({p}, IF shell_waiting /\ app_pid = p THEN "exit_notice" ELSE "main_recv")
  BY ExitFrees
<1>2. PICK l \in {"main_recv", "exit_notice"} : Frees({p}, l) BY <1>1
<1>3. PcOf(p) \in {"exit", "exited"} /\ calls[p].mode \in {"run", "send"}
  BY <1>1, <1>2 DEF Frees, ServerInv, Exiting
<1>4. \A s \in Servers : ~Expects(p, s) BY <1>3, AskLabels DEF Expects, WaitLabel
<1> QED BY <1>2, <1>4, FreeServer

\* An application that calls no server expects no reply.
LEMMA NoClients ==
    ASSUME ProgInv, ServerInv, scenario.servers = {}, NEW p \in GPID_USER_START .. MAX_NPROCESS,
           NEW s \in Servers
    PROVE  ~Expects(p, s)
<1>0. /\ p \in Pid /\ p # GPID_PROCESS /\ p # GPID_SHELL
      /\ p # GPID_DIR /\ p # GPID_FILE /\ p # GPID_NET
  BY Sizes
<1>1. PICK l : l = PcOf(p) OBVIOUS
<1>2. l = NoProcess \/ l \in AppLabel
  <2>1. l = NoProcess \/ l \in Role(p) BY <1>0, <1>1 DEF ServerInv, Roles
  <2> QED BY <1>0, <2>1 DEF Role
<1>3. calls[p].mode = "recv" => calls[p].peer # s
  <2>1. PICK q : q = calls[p].peer OBVIOUS
  <2>2. calls[p].mode = "recv" => MayRecv(l, q)
    BY <1>0, <1>1, <2>1 DEF ServerInv, Script
  <2>3. ~MayRecv(l, q) BY <1>2 DEF MayRecv, AppLabel, NoProcess, GotLabel
  <2> QED BY <2>2, <2>3
<1>4. l \notin AskLabel(p, s) BY <1>2, AskLabels, ZenonT(60) DEF AppLabel, WaitLabel, NoProcess
<1> QED BY <1>1, <1>3, <1>4 DEF Expects

\* killall meets no client of a server, if nobody is to be killed in a call.
NoVictims ==
    /\ PcOf(GPID_PROCESS) = "main_got" /\ calls[GPID_PROCESS].mode = "run"
    /\ calls[GPID_PROCESS].content = "PROC_KILLALL"
    /\ CleanKills(scenario) /\ scenario.servers # {}
    => \A p \in GPID_USER_START .. MAX_NPROCESS : ~Used(p)

LEMMA KillServer ==
    ASSUME CallInv, ProgInv, ServerInv, NoVictims, main_killall PROVE ServerInv'
<1>1. PICK D : Frees(D, "main_recv") BY KillFrees
<1>2. calls[GPID_PROCESS].content = "PROC_KILLALL" BY KillFrees
<1>3. ASSUME NEW q \in D, NEW s \in Servers, CleanKills(scenario) PROVE ~Expects(q, s)
  <2>1. q \in GPID_USER_START .. MAX_NPROCESS /\ q \in Pid
    BY <1>1, Sizes DEF Frees
  <2>2. CASE scenario.servers = {} BY <2>1, <2>2, NoClients
  <2>3. CASE scenario.servers # {}
    <3>1. ~Used(q) BY <1>1, <1>2, <1>3, <2>1, <2>3 DEF NoVictims, Frees
    <3>2. calls[q].mode = "dead" BY <2>1, <3>1, DeadCalls DEF Used
    <3> QED BY <2>1, <3>2, DeadIsSilent
  <2> QED BY <2>2, <2>3
<1> QED BY <1>1, <1>3, FreeServer

\* ctrl+c sends process p to exit().
Kills(p) ==
    /\ calls[p].mode # "dead" /\ calls' = calls
    /\ \A q \in Pid : StatusOf(q)' = StatusOf(q)
    /\ PcOf(p)' = "exit" /\ \A q \in Pid : q # p => PcOf(q)' = PcOf(q)
    /\ scenario.ctrl_c # "any time" => PcOf(p) \notin {"wait_file", "wait_dir", "wait_net"}
    /\ PcOf(GPID_SHELL) # "shell_reading"
    /\ UNCHANGED <<SysProcLocals, SysDirLocals, ShellLocals>>

LEMMA CtrlKills ==
    ASSUME CallInv, ProgInv, ctrl_c
    PROVE  \E p \in GPID_USER_START .. MAX_NPROCESS : Kills(p)
<1>1. /\ intr_ctrl_c /\ Goto("exit") /\ fatal = "none"
      /\ UNCHANGED <<pid, status, sc, from_sender_pid, to_receiver_pid, fatal,
                     proc_curr_idx>>
      /\ UNCHANGED <<SysProcLocals, SysDirLocals, ShellLocals>>
      /\ PcOf(GPID_SHELL) # "shell_reading"
  BY DEF ctrl_c, intr_ctrl_c, PcOf
<1>2. PICK p \in Pid : p = curr_pid /\ proc_curr_idx = pid2idx(p)
  BY <1>1, Before, PidSlots
<1>3. p \in GPID_USER_START .. MAX_NPROCESS BY <1>1, <1>2, Sizes DEF intr_ctrl_c
<1>4. "exit" \in Label BY DEF Label
<1>5. PcOf(p)' = "exit" /\ \A q \in Pid : q # p => PcOf(q)' = PcOf(q)
  BY <1>1, <1>2, <1>4, GotoFacts DEF ProgInv, ProgTypeOK
<1>6. calls' = calls BY <1>1 DEF calls, CallOf, Sending
<1>7. \A q \in Pid : StatusOf(q)' = StatusOf(q) BY <1>1 DEF StatusOf
<1>8. calls[p].mode # "dead"
  <2>1. status[proc_curr_idx] = "PROC_RUNNING" BY <1>1, Before
  <2> QED BY <1>2, <2>1, DeadCalls DEF StatusOf
<1>9. scenario.ctrl_c # "any time" => PcOf(p) \notin {"wait_file", "wait_dir", "wait_net"}
  BY <1>2 DEF ctrl_c, PcOf
<1> QED BY <1>1, <1>3, <1>5, <1>6, <1>7, <1>8, <1>9 DEF Kills

LEMMA CtrlServer == ASSUME CallInv, ProgInv, ServerInv, ctrl_c PROVE ServerInv'
<1>0. Roles /\ Script /\ Served /\ Wanted /\ BootWait /\ Exiting BY DEF ServerInv
<1>1. PICK p \in GPID_USER_START .. MAX_NPROCESS : Kills(p) BY CtrlKills
<1>2. /\ p \in Pid /\ p \notin Servers /\ p # GPID_PROCESS /\ p # GPID_SHELL
      /\ p # GPID_DIR /\ p # GPID_FILE /\ p # GPID_NET
      /\ scenario.servers \subseteq Servers
  <2>1. /\ p \in Pid /\ p \notin Servers /\ p # GPID_PROCESS /\ p # GPID_SHELL
        /\ p # GPID_DIR /\ p # GPID_FILE /\ p # GPID_NET
    BY Sizes DEF Servers
  <2> QED BY <2>1, ScenarioServers
<1>3. /\ calls[p].mode # "dead" /\ calls' = calls
      /\ \A q \in Pid : StatusOf(q)' = StatusOf(q)
      /\ PcOf(p)' = "exit" /\ \A q \in Pid : q # p => PcOf(q)' = PcOf(q)
      /\ UNCHANGED <<scenario, booting, shell_cmd, dir_client>>
  BY <1>1 DEF Kills, SysProcLocals, SysDirLocals, ShellLocals
<1>4. PICK l : l = PcOf(p) OBVIOUS
<1>5. l \in AppLabel \cup {WaitLabel(s) : s \in scenario.servers}
  BY <1>0, <1>2, <1>3, <1>4 DEF Roles, Role
<1>6. \A s \in scenario.servers : l = WaitLabel(s) => ~CleanKills(scenario)
  BY <1>1, <1>4 DEF Kills, WaitLabel, CleanKills
<1>7. CleanKills(scenario)' <=> CleanKills(scenario) BY <1>3 DEF CleanKills
<1>8. Roles'
  <2>1. \A r : Role(r)' = Role(r) BY <1>3 DEF Role
  <2>2. "exit" \in Role(p) BY <1>2 DEF Role, AppLabel
  <2> QED BY <1>0, <1>2, <1>3, <2>1, <2>2 DEF Roles
<1>9. Script'
  <2>1. \A a, b, c : MaySend(a, b, c)' <=> MaySend(a, b, c) BY <1>3, <1>7 DEF MaySend
  <2>2. \A a, b : MayRecv(a, b)' <=> MayRecv(a, b) BY <1>3 DEF MayRecv
  <2>3. ASSUME NEW q, NEW m, MaySend(l, q, m) PROVE MaySend("exit", q, m)
    <3>1. CASE l \in AppLabel BY <2>3, <3>1 DEF MaySend, AppLabel, WaitLabel
    <3>2. ASSUME NEW s \in scenario.servers, l = WaitLabel(s) PROVE MaySend("exit", q, m)
      <4>1. l \in {"wait_file", "wait_dir", "wait_net"} BY <3>2 DEF WaitLabel
      <4>2. q \in scenario.servers /\ m = "request" BY <2>3, <4>1 DEF MaySend
      <4> QED BY <1>6, <3>2, <4>2 DEF MaySend
    <3> QED BY <1>5, <3>1, <3>2
  <2>4. ASSUME NEW q, MayRecv(l, q) PROVE MayRecv("exit", q)
    <3>1. CASE l \in AppLabel BY <2>4, <3>1 DEF MayRecv, AppLabel, GotLabel
    <3>2. ASSUME NEW s \in scenario.servers, l = WaitLabel(s) PROVE MayRecv("exit", q)
      BY <2>4, <3>2 DEF MayRecv, GotLabel, WaitLabel
    <3> QED BY <1>5, <3>1, <3>2
  <2>5. ASSUME NEW q \in Pid, calls'[q].mode = "send"
        PROVE  MaySend(PcOf(q), calls[q].peer, calls[q].content)'
    <3>1. MaySend(PcOf(q), calls[q].peer, calls[q].content) BY <1>0, <1>3, <2>5 DEF Script
    <3> QED BY <1>3, <1>4, <2>1, <2>3, <3>1
  <2>6. ASSUME NEW q \in Pid, calls'[q].mode = "recv"
        PROVE  MayRecv(PcOf(q), calls[q].peer)'
    <3>1. MayRecv(PcOf(q), calls[q].peer) BY <1>0, <1>3, <2>6 DEF Script
    <3> QED BY <1>3, <1>4, <2>2, <2>4, <3>1
  <2> QED BY <2>5, <2>6 DEF Script
<1>10. ASSUME NEW s \in Servers, NEW q \in Pid
       PROVE  /\ Expects(q, s)' => Expects(q, s)
              /\ CleanKills(scenario) /\ Expects(q, s) => Expects(q, s)'
              /\ q # p => (Expects(q, s)' <=> Expects(q, s))
              /\ Serves(s, q)' <=> Serves(s, q)
  <2>1. Serves(s, q)' <=> Serves(s, q)
    BY <1>2, <1>3, Distinct DEF Serves, Takes, Replies
  <2>2. q # p => (Expects(q, s)' <=> Expects(q, s)) BY <1>3 DEF Expects
  <2>3. AskLabel(p, s) = {WaitLabel(s)} /\ "exit" # WaitLabel(s)
    BY AskLabels DEF WaitLabel
  <2>4. Expects(p, s)' => Expects(p, s) BY <1>3, <2>3 DEF Expects
  <2>5. ASSUME CleanKills(scenario) PROVE l # WaitLabel(s)
    <3>1. SUFFICES ASSUME l = WaitLabel(s) PROVE FALSE OBVIOUS
    <3>2. l \notin AppLabel BY <3>1 DEF WaitLabel, AppLabel
    <3> QED BY <1>5, <1>6, <2>5, <3>2
  <2>6. CleanKills(scenario) /\ Expects(p, s) => Expects(p, s)'
    BY <1>3, <1>4, <2>3, <2>5 DEF Expects
  <2> QED BY <2>1, <2>2, <2>4, <2>6
<1>11. Served'
  <2>1. ASSUME NEW s \in Servers, NEW q \in Pid, Expects(q, s)',
               ~(q = GPID_PROCESS /\ PcOf(q)' = "boot_alloc")
        PROVE  Serves(s, q)'
    BY <1>0, <1>2, <1>3, <1>10, <2>1 DEF Served
  <2> QED BY <2>1 DEF Served
<1>12. Wanted'
  <2>1. ASSUME NEW s \in Servers, NEW q \in Pid, Serves(s, q)',
               q < GPID_USER_START \/ CleanKills(scenario)
        PROVE  Expects(q, s)'
    <3>1. Expects(q, s) BY <1>0, <1>10, <2>1 DEF Wanted
    <3>2. q = p => CleanKills(scenario) BY <2>1, Sizes
    <3> QED BY <1>10, <3>1, <3>2
  <2> QED BY <1>7, <2>1 DEF Wanted
<1>13. BootWait'
  <2>1. PcOf(GPID_PROCESS)' = PcOf(GPID_PROCESS) BY <1>2, <1>3, Distinct
  <2>2. ASSUME NEW s \in Servers PROVE /\ Awaits(s)' <=> Awaits(s)
                                       /\ Up(s)' <=> Up(s)
    <3>1. PcOf(s)' = PcOf(s) /\ StatusOf(s)' = StatusOf(s) BY <1>2, <1>3, Distinct
    <3> QED BY <1>3, <2>1, <3>1 DEF Awaits, Up
  <2> QED BY <1>0, <1>3, <2>1, <2>2 DEF BootWait
<1>14. Exiting'
  <2>1. PcOf(GPID_PROCESS)' = PcOf(GPID_PROCESS) BY <1>2, <1>3, Distinct
  <2>2. SUFFICES ASSUME PcOf(GPID_PROCESS) = "main_got", calls[GPID_PROCESS].mode = "run",
                        calls[GPID_PROCESS].content = "PROC_EXIT"
                 PROVE  PcOf(calls[GPID_PROCESS].peer)' \in {"exit", "exited"}
    BY <1>0, <1>3, <2>1 DEF Exiting
  <2>3. PICK r : r = calls[GPID_PROCESS].peer OBVIOUS
  <2>4. r \in Pid BY <2>2, <2>3, Distinct DEF ProgInv, Answers, GotLabel, Known
  <2>5. PcOf(r) \in {"exit", "exited"} BY <1>0, <2>2, <2>3 DEF Exiting
  <2>6. PcOf(r)' \in {"exit", "exited"} BY <1>3, <2>4, <2>5
  <2> QED BY <1>3, <2>3, <2>6 DEF PcOf
<1> QED BY <1>8, <1>9, <1>11, <1>12, <1>13, <1>14 DEF ServerInv

\* Nothing that the invariant speaks of changes.
LEMMA StillServer ==
    ASSUME ServerInv, calls' = calls, UNCHANGED progVars,
           \A r \in Pid, x \in {"PROC_UNUSED", "PROC_LOADING"} :
              StatusOf(r)' = x <=> StatusOf(r) = x
    PROVE  ServerInv'
<1>0. Roles /\ Script /\ Served /\ Wanted /\ BootWait /\ Exiting BY DEF ServerInv
<1>1. /\ UNCHANGED <<pc, booting, dir_client, shell_cmd, scenario>>
      /\ \A r : PcOf(r)' = PcOf(r)
  BY DEF progVars, PcOf
<1>2. Roles'
  <2>1. \A r : Role(r)' = Role(r) BY <1>1 DEF Role
  <2> QED BY <1>0, <1>1, <2>1 DEF Roles
<1>3. CleanKills(scenario)' <=> CleanKills(scenario) BY <1>1 DEF CleanKills
<1>4. Script'
  <2>2. \A a, b, c : MaySend(a, b, c)' <=> MaySend(a, b, c) BY <1>1, <1>3 DEF MaySend
  <2>3. \A a, b : MayRecv(a, b)' <=> MayRecv(a, b) BY <1>1 DEF MayRecv
  <2> QED BY <1>0, <1>1, <2>2, <2>3 DEF Script
<1>5. ASSUME NEW s \in Servers, NEW q \in Pid
      PROVE  (Expects(q, s)' <=> Expects(q, s)) /\ (Serves(s, q)' <=> Serves(s, q))
  BY <1>1 DEF Expects, Serves, Takes, Replies
<1>6. Served' /\ Wanted' BY <1>0, <1>1, <1>3, <1>5 DEF Served, Wanted
<1>7. BootWait'
  <2>1. ASSUME NEW s \in Servers PROVE (Awaits(s)' <=> Awaits(s)) /\ (Up(s)' <=> Up(s))
    <3>1. s \in Pid BY Distinct
    <3> QED BY <1>1, <3>1 DEF Awaits, Up
  <2> QED BY <1>0, <1>1, <2>1 DEF BootWait
<1>8. Exiting'
  <2>1. PcOf(calls[GPID_PROCESS].peer)' = PcOf(calls[GPID_PROCESS].peer)
    BY <1>1 DEF PcOf
  <2> QED BY <1>0, <1>1, <2>1 DEF Exiting
<1> QED BY <1>2, <1>4, <1>6, <1>7, <1>8 DEF ServerInv

\* A trap that is not a ctrl+c moves a message or nothing.
TrapMoves ==
    \/ calls' = calls
    \/ \E p, q \in Pid : \E m : Exchange(p, q, m)

LEMMA TrapTalks ==
    ASSUME CallInv, ProgInv, syscall \/ timer
    PROVE  /\ UNCHANGED progVars /\ TrapMoves
           /\ \A r \in Pid, x \in {"PROC_UNUSED", "PROC_LOADING"} :
                 StatusOf(r)' = x <=> StatusOf(r) = x
<1>1. Trap /\ UNCHANGED progVars BY DEF syscall, timer, Trap
<1>2. Moves => TrapMoves
  <2>1. SUFFICES ASSUME NEW p \in Pid, NEW q \in Pid, IPC!Transfer(p, q) PROVE TrapMoves
    BY DEF Moves
  <2>2. Exchange(p, q, calls[p].content) BY <2>1, Exchanges
  <2> QED BY <2>2 DEF TrapMoves
<1> QED BY <1>1, <1>2, SimTrap, TrapSlots DEF TrapMoves

LEMMA TrapServer == ASSUME CallInv, ProgInv, ServerInv, syscall \/ timer PROVE ServerInv'
<1>1. /\ UNCHANGED progVars /\ TrapMoves
      /\ \A r \in Pid, x \in {"PROC_UNUSED", "PROC_LOADING"} :
            StatusOf(r)' = x <=> StatusOf(r) = x
  BY TrapTalks
<1>2. CASE calls' = calls BY <1>1, <1>2, StillServer
<1>3. CASE \E p, q \in Pid : \E m : Exchange(p, q, m)
  <2>1. PICK p \in Pid, q \in Pid : \E m : Exchange(p, q, m) BY <1>3
  <2>2. PICK m : Exchange(p, q, m) BY <2>1
  <2> QED BY <1>1, <2>2, ExchangeServer
<1> QED BY <1>1, <1>2, <1>3 DEF TrapMoves

LEMMA StutterTalks ==
    ASSUME UNCHANGED allVars
    PROVE  /\ UNCHANGED progVars /\ calls' = calls
           /\ \A r \in Pid : StatusOf(r)' = StatusOf(r)
<1>1. UNCHANGED vars /\ UNCHANGED progVars BY DEF allVars
<1> QED BY <1>1 DEF vars, calls, CallOf, Sending, StatusOf

LEMMA ServerStep ==
    ASSUME CallInv, ProgInv, ServerInv, NoVictims, [EgosNext]_allVars
    PROVE  ServerInv'
<1>1. CASE sys_proc
  BY <1>1, MainServer, AllocServer, BootRecvServer, BootReadyServer, SpawnReadyServer,
     ExitServer, KillServer
  DEF sys_proc, MainCall
<1>2. CASE UNCHANGED allVars BY <1>2, StutterTalks, StillServer
<1> QED BY <1>1, <1>2, FileServer, DirServer, ShellServer, AppServer, CtrlServer, TrapServer
        DEF EgosNext

LEMMA ServerInit == ASSUME EgosInit PROVE ServerInv
<1>1. Init /\ GPID_PROCESS \in Pid BY Ranges DEF EgosInit
<1>2. \A p \in Pid : /\ PcOf(p) = IF p = GPID_PROCESS THEN "boot_alloc" ELSE NoProcess
                     /\ StatusOf(p) = IF p = GPID_PROCESS THEN "PROC_RUNNING"
                                      ELSE "PROC_UNUSED"
  <2>1. \A p \in Pid : pid2idx(p) \in Idx /\ (pid2idx(p) = 0 <=> p = GPID_PROCESS)
    BY SizeAssumption DEF Pid, Idx, pid2idx, GPID_PROCESS
  <2> QED BY <1>1, <2>1 DEF EgosInit, Init, PcOf, StatusOf
<1>3. \A p \in Pid : p # GPID_PROCESS => calls[p].mode = "dead" BY <1>2, DeadCalls
<1>4. calls[GPID_PROCESS].mode = "run"
  <2>1. pid2idx(GPID_PROCESS) \in Idx BY <1>1, PidSlots
  <2>2. View(pid2idx(GPID_PROCESS)) BY <1>1, <2>1, CallView DEF Init
  <2>3. CallOf(pid2idx(GPID_PROCESS)).mode = "run"
    BY <1>1, <1>2, <2>1, <2>2 DEF StatusOf, Init, FreshPage, View, Active, IPC!Run
  <2> QED BY <1>1, <2>3 DEF calls
<1>5. Roles BY <1>1, <1>2, <1>3, <1>4 DEF Roles, Role, MainLabel
<1>6. Script BY <1>3, <1>4 DEF Script
<1>7. \A s \in Servers, p \in Pid : ~Expects(p, s)
  <2>1. \A s \in Servers : "boot_alloc" \notin AskLabel(GPID_PROCESS, s) BY AskLabels
  <2> QED BY <1>1, <1>2, <1>3, <1>4, <2>1 DEF Expects
<1>8. \A s \in Servers, p \in Pid : ~Serves(s, p)
  BY <1>2, <1>3, Distinct DEF Serves, Takes, Replies, DirWait, NoProcess
<1>9. Served /\ Wanted BY <1>7, <1>8 DEF Served, Wanted
<1>10. BootWait BY <1>1, <1>2, <1>4 DEF BootWait, Awaits
<1>11. Exiting BY <1>1, <1>2 DEF Exiting
<1> QED BY <1>5, <1>6, <1>9, <1>10, <1>11 DEF ServerInv

-----------------------------------------------------------------------------
(***************************************************************************)
(* The dialogue of sys_shell and sys_proc: which request sys_proc handles, *)
(* whether the shell waits for a foreground command, and which             *)
(* applications there are.                                                 *)
(***************************************************************************)
SpawnLabel ==
    {"spawn_bin", "spawn_lookup", "spawn_ino", "spawn_found", "spawn_reply"} \cup LoadLabel

\* The request of the shell has been taken, and the shell has no reply yet.
Asked ==
    \/ PcOf(GPID_SHELL) = "shell_recv" /\ calls[GPID_SHELL].mode = "run"
    \/ PcOf(GPID_SHELL) = "shell_reply" /\ calls[GPID_SHELL].mode = "recv"

\* sys_proc has taken the message m and looks at it.
Got(m) ==
    /\ PcOf(GPID_PROCESS) = "main_got" /\ calls[GPID_PROCESS].mode = "run"
    /\ calls[GPID_PROCESS].content = m

\* sys_proc sends m to the shell.
Answering(m) ==
    /\ calls[GPID_PROCESS].mode = "send" /\ calls[GPID_PROCESS].peer = GPID_SHELL
    /\ calls[GPID_PROCESS].content = m

\* sys_proc handles a request to spawn, up to its reply.
Spawning ==
    \/ \E m \in Spawn : Got(m)
    \/ PcOf(GPID_PROCESS) \in SpawnLabel
    \/ Answering("CMD_OK") \/ Answering("CMD_ERROR")

\* sys_proc handles a request exactly while the shell waits for its reply,
\* and it is the shell's command.
Dialogue ==
    /\ Asked <=> Spawning
    /\ PcOf(GPID_PROCESS) \in SpawnLabel => req = shell_cmd
    /\ \A m \in Spawn : Got(m) => m = shell_cmd /\ calls[GPID_PROCESS].peer = GPID_SHELL
    /\ PcOf(GPID_SHELL) \in {"shell_recv", "shell_reply"} =>
          shell_cmd \in scenario.commands /\ shell_cmd \in Spawn

\* The shell has been told that its foreground command runs, and not that it
\* is over.
ShellFg ==
    \/ /\ PcOf(GPID_SHELL) = "shell_reply" /\ calls[GPID_SHELL].mode = "run"
       /\ calls[GPID_SHELL].content = "CMD_OK" /\ shell_cmd \notin Background
    \/ PcOf(GPID_SHELL) = "shell_fg" /\ calls[GPID_SHELL].mode = "recv"

\* The same, or it is being told that the command runs.
Fg == ShellFg \/ (Answering("CMD_OK") /\ shell_cmd \notin Background)

\* sys_proc reports an exit to the shell.
Notice == PcOf(GPID_PROCESS) = "exit_notice" \/ Answering("PROC_EXIT")

\* p is an application, loaded or being loaded.
Live(p) == p \in GPID_USER_START .. MAX_NPROCESS /\ Used(p)

Loading == PcOf(GPID_PROCESS) \in LoadLabel \cup {"spawn_reply"}

\* An exit is reported to a shell that waits for it.
NoticeWanted ==
    /\ CleanFailures(scenario) /\ Notice => ShellFg
    /\ Notice => ~Live(app_pid)

\* What sys_proc remembers of the foreground command of a waiting shell.
FgKnown ==
    /\ ShellFg => shell_waiting
    /\ ShellFg => Live(app_pid) \/ Notice
    /\ PcOf(GPID_PROCESS) = "spawn_reply" \/ Answering("CMD_OK") => Live(app_pid)
    /\ Answering("CMD_OK") \/ Answering("CMD_ERROR") =>
          (shell_waiting <=> shell_cmd \notin Background)

\* What sys_proc takes for a foreground command is one.
FgOnly ==
    CleanFailures(scenario) /\ shell_waiting /\ Live(app_pid) /\ ~Loading => Fg

\* Without background commands there is one application at a time, and the
\* shell waits for it.
OneApp ==
    "SPAWN &" \notin scenario.commands =>
       \A p \in GPID_USER_START .. MAX_NPROCESS :
          Used(p) => p = app_pid /\ (Loading \/ Fg)

\* killall comes while the shell waits for no foreground command.
KillOutside ==
    Got("PROC_KILLALL") =>
       /\ PcOf(GPID_SHELL) \in {"shell_next", "shell_reading", "shell_recv"}
       /\ "PROC_KILLALL" \in scenario.commands

Looking == PcOf(GPID_PROCESS) \in {"spawn_ino", "spawn_found"}

\* On its way from sys_proc through sys_dir and back, a lookup of a program
\* that does not exist stays one, and sys_proc loads no such program.
Lookup ==
    /\ PcOf(GPID_PROCESS) = "spawn_ino" /\ calls[GPID_PROCESS].mode = "send" =>
          (calls[GPID_PROCESS].content = "lookup missing" <=> req \in Missing)
    /\ Looking /\ Takes(GPID_DIR, GPID_PROCESS) =>
          (calls[GPID_DIR].content = "lookup missing" <=> req \in Missing)
    /\ Looking /\ PcOf(GPID_DIR) \in DirWait /\ dir_client = GPID_PROCESS =>
          (dir_req = "lookup missing" <=> req \in Missing)
    /\ Looking /\ Replies(GPID_DIR, GPID_PROCESS) =>
          (calls[GPID_DIR].content = "DIR_ERROR" <=> req \in Missing)
    /\ PcOf(GPID_PROCESS) = "spawn_found" /\ calls[GPID_PROCESS].mode = "run" =>
          (calls[GPID_PROCESS].content = "DIR_ERROR" <=> req \in Missing)
    /\ Loading => req \notin Missing

ShellInv ==
    Dialogue /\ NoticeWanted /\ FgKnown /\ FgOnly /\ OneApp /\ KillOutside

\* Process p does nothing.
Same(p) == calls'[p] = calls[p] /\ PcOf(p)' = PcOf(p)

LEMMA ShellFrame ==
    ASSUME ShellInv, Same(GPID_PROCESS), Same(GPID_SHELL),
           UNCHANGED <<req, app_pid, shell_waiting, shell_cmd, scenario>>,
           \A p \in GPID_USER_START .. MAX_NPROCESS : Used(p)' <=> Used(p)
    PROVE  ShellInv'
<1>1. /\ \A m : (Got(m)' <=> Got(m)) /\ (Answering(m)' <=> Answering(m))
      /\ Asked' <=> Asked
      /\ PcOf(GPID_PROCESS)' = PcOf(GPID_PROCESS) /\ PcOf(GPID_SHELL)' = PcOf(GPID_SHELL)
      /\ ShellFg' <=> ShellFg
  BY DEF Same, Got, Answering, Asked, ShellFg
<1>2. /\ Fg' <=> Fg
      /\ Notice' <=> Notice
      /\ Spawning' <=> Spawning
      /\ Loading' <=> Loading
  BY <1>1 DEF Fg, Notice, Spawning, Loading
<1>3. Live(app_pid)' <=> Live(app_pid) BY DEF Live
<1>4. CleanFailures(scenario)' <=> CleanFailures(scenario) BY DEF CleanFailures
<1>5. Dialogue' BY <1>1, <1>2 DEF ShellInv, Dialogue, Same
<1>6. NoticeWanted' BY <1>1, <1>2, <1>3, <1>4 DEF ShellInv, NoticeWanted
<1>7. FgKnown' BY <1>1, <1>2, <1>3 DEF ShellInv, FgKnown
<1>8. FgOnly' BY <1>1, <1>2, <1>3, <1>4 DEF ShellInv, FgOnly
<1>9. OneApp' BY <1>1, <1>2 DEF ShellInv, OneApp
<1>10. KillOutside' BY <1>1 DEF ShellInv, KillOutside
<1> QED BY <1>5, <1>6, <1>7, <1>8, <1>9, <1>10 DEF ShellInv

LEMMA LookupFrame ==
    ASSUME Lookup, Same(GPID_PROCESS), Same(GPID_DIR),
           UNCHANGED <<req, dir_client, dir_req>>
    PROVE  Lookup'
BY DEF Lookup, Same, Looking, Loading, Takes, Replies

\* A step of sys_proc after which it handles no lookup and loads nothing.
LEMMA LookupOver ==
    ASSUME PcOf(GPID_PROCESS)' \notin {"spawn_ino", "spawn_found", "spawn_reply"},
           PcOf(GPID_PROCESS)' \notin LoadLabel
    PROVE  Lookup'
BY DEF Lookup, Looking, Loading

\* killall meets no client.
LEMMA Victims == ASSUME ShellInv PROVE NoVictims
<1>1. SUFFICES ASSUME Got("PROC_KILLALL"), CleanKills(scenario), scenario.servers # {},
                      NEW p \in GPID_USER_START .. MAX_NPROCESS, Used(p)
               PROVE  FALSE
  BY DEF NoVictims, Got
<1>2. "SPAWN &" \notin scenario.commands
  BY <1>1 DEF CleanKills, ShellInv, KillOutside
<1>3. Loading \/ Fg BY <1>1, <1>2 DEF ShellInv, OneApp
<1>4. ~Loading BY <1>1 DEF Loading, LoadLabel, Got
<1>5. ~Answering("CMD_OK") BY <1>1 DEF Answering, Got
<1>6. ~ShellFg BY <1>1 DEF ShellInv, KillOutside, ShellFg
<1> QED BY <1>3, <1>4, <1>5, <1>6 DEF Fg

\* Who posts a call leaves the others alone.
LEMMA SaysSame ==
    ASSUME NEW p \in Pid, NEW k, NEW v, NEW l, Says(p, k, v, l)
    PROVE  /\ \A q \in Pid : q # p => Same(q)
           /\ \A q \in Pid : StatusOf(q)' = StatusOf(q)
           /\ calls[p].mode = "run" /\ PcOf(p) = k /\ calls'[p] = v /\ PcOf(p)' = l
BY PostCall DEF Says, Posts, Same

\* The steps of sys_file, sys_net and the applications concern neither the
\* shell nor a lookup.
Aside ==
    /\ Same(GPID_PROCESS) /\ Same(GPID_DIR) /\ Same(GPID_SHELL)
    /\ \A q \in Pid : Used(q)' <=> Used(q)
    /\ UNCHANGED <<SysProcLocals, SysDirLocals, ShellLocals>>

LEMMA AsideSteps ==
    ASSUME CallInv, ProgInv, sys_file \/ sys_net \/ app \/ ctrl_c
    PROVE  Aside
<1>0. {GPID_PROCESS, GPID_DIR, GPID_SHELL} \subseteq Pid BY Distinct
<1>a. ASSUME NEW p \in Pid, p \notin {GPID_PROCESS, GPID_DIR, GPID_SHELL}, NEW k, NEW v, NEW l,
             Says(p, k, v, l), UNCHANGED <<SysProcLocals, SysDirLocals, ShellLocals>>
      PROVE  Aside
  BY <1>0, <1>a, SaysSame DEF Aside, Used
<1>1. CASE sys_file
  <2>1. /\ GPID_FILE \in Servers /\ "file_init" \in Label /\ "file_recv" \in Label
        /\ "file_got" \in Label \cap GotLabel
    BY Distinct DEF Label, GotLabel
  <2>2. ServerTalk(GPID_FILE, "file_init", "file_recv", "file_got")
    BY <1>1, <2>1, ServerSays DEF sys_file
  <2>3. GPID_FILE \in Pid /\ GPID_FILE \notin {GPID_PROCESS, GPID_DIR, GPID_SHELL} BY Sizes
  <2> QED BY <1>a, <2>2, <2>3 DEF ServerTalk
<1>2. CASE sys_net
  <2>1. /\ GPID_NET \in Servers /\ "net_init" \in Label /\ "net_recv" \in Label
        /\ "net_got" \in Label \cap GotLabel
    BY Distinct DEF Label, GotLabel
  <2>2. ServerTalk(GPID_NET, "net_init", "net_recv", "net_got")
    BY <1>2, <2>1, ServerSays DEF sys_net
  <2>3. GPID_NET \in Pid /\ GPID_NET \notin {GPID_PROCESS, GPID_DIR, GPID_SHELL} BY Sizes
  <2> QED BY <1>a, <2>2, <2>3 DEF ServerTalk
<1>3. CASE app
  <2>1. PICK p \in GPID_USER_START .. MAX_NPROCESS : AppTalk(p) BY <1>3, AppTalks
  <2>2. UNCHANGED <<SysProcLocals, SysDirLocals, ShellLocals>> BY <1>3, AppTalks
  <2>3. p \in Pid /\ p \notin {GPID_PROCESS, GPID_DIR, GPID_SHELL} BY Sizes
  <2> QED BY <1>a, <2>1, <2>2, <2>3 DEF AppTalk
<1>4. CASE ctrl_c
  <2>1. PICK p \in GPID_USER_START .. MAX_NPROCESS : Kills(p) BY <1>4, CtrlKills
  <2>2. p \notin {GPID_PROCESS, GPID_DIR, GPID_SHELL} BY Sizes
  <2> QED BY <1>0, <2>1, <2>2 DEF Kills, Aside, Same, Used
<1> QED BY <1>1, <1>2, <1>3, <1>4

LEMMA AsideKeeps == ASSUME ShellInv, Lookup, Aside PROVE ShellInv' /\ Lookup'
<1>1. /\ UNCHANGED <<req, app_pid, shell_waiting, shell_cmd, scenario, dir_client, dir_req>>
      /\ Same(GPID_PROCESS) /\ Same(GPID_DIR) /\ Same(GPID_SHELL)
  BY DEF Aside, SysProcLocals, SysDirLocals, ShellLocals
<1>2. \A p \in GPID_USER_START .. MAX_NPROCESS : Used(p)' <=> Used(p)
  BY Sizes DEF Aside
<1>3. Lookup' BY <1>1, LookupFrame
<1>4. ShellInv' BY <1>1, <1>2, ShellFrame
<1> QED BY <1>3, <1>4

\* sys_dir passes a lookup on.
LEMMA DirLookup ==
    ASSUME CallInv, ProgInv, ShellInv, Lookup, sys_dir PROVE ShellInv' /\ Lookup'
<1>0. GPID_DIR \in Pid /\ GPID_PROCESS # GPID_DIR /\ GPID_PROCESS # GPID_FILE
      /\ GPID_SHELL # GPID_DIR /\ GPID_PROCESS \in Pid /\ GPID_SHELL \in Pid
  BY Sizes
<1>u. DirTalk /\ UNCHANGED <<req, app_pid, shell_waiting, shell_cmd, scenario>>
  BY DirSays DEF DirTalk, SysProcLocals, ShellLocals
<1>1. PICK k, v, l : Says(GPID_DIR, k, v, l) BY <1>u DEF DirTalk
<1>2. /\ Same(GPID_PROCESS) /\ Same(GPID_SHELL)
      /\ \A q \in Pid : StatusOf(q)' = StatusOf(q)
  BY <1>0, <1>1, SaysSame
<1>3. ShellInv'
  <2>1. \A p \in GPID_USER_START .. MAX_NPROCESS : Used(p)' <=> Used(p)
    BY <1>2, Sizes DEF Used
  <2> QED BY <1>u, <1>2, <2>1, ShellFrame
<1>4. /\ Looking' <=> Looking
      /\ calls'[GPID_PROCESS] = calls[GPID_PROCESS]
      /\ PcOf(GPID_PROCESS)' = PcOf(GPID_PROCESS) /\ (Loading' <=> Loading)
  BY <1>2 DEF Same, Looking, Loading
<1>5. SUFFICES
        /\ Looking /\ Takes(GPID_DIR, GPID_PROCESS)' =>
              (calls'[GPID_DIR].content = "lookup missing" <=> req \in Missing)
        /\ Looking /\ PcOf(GPID_DIR)' \in DirWait /\ dir_client' = GPID_PROCESS =>
              (dir_req' = "lookup missing" <=> req \in Missing)
        /\ Looking /\ Replies(GPID_DIR, GPID_PROCESS)' =>
              (calls'[GPID_DIR].content = "DIR_ERROR" <=> req \in Missing)
  BY <1>u, <1>3, <1>4 DEF Lookup
<1>6. CASE Says(GPID_DIR, "dir_init", IPC!Send(GPID_PROCESS, "initialized"), "dir_recv")
  <2>1. PICK w : w = IPC!Send(GPID_PROCESS, "initialized") OBVIOUS
  <2>2. w.mode = "send" /\ w.content = "initialized" BY <2>1, Modes
  <2>3. calls'[GPID_DIR] = w /\ PcOf(GPID_DIR)' = "dir_recv" BY <1>0, <1>6, <2>1, SaysSame
  <2> QED BY <2>2, <2>3 DEF Takes, Replies, DirWait
<1>7. CASE Says(GPID_DIR, "dir_recv", IPC!Recv(0), "dir_got")
  <2>1. PICK w : w = IPC!Recv(0) OBVIOUS
  <2>2. w.mode = "recv" BY <2>1, Modes
  <2>3. calls'[GPID_DIR] = w /\ PcOf(GPID_DIR)' = "dir_got" BY <1>0, <1>7, <2>1, SaysSame
  <2> QED BY <2>2, <2>3 DEF Takes, Replies, DirWait
<1>8. CASE /\ Says(GPID_DIR, "dir_got", IPC!Send(GPID_FILE, "request"), "dir_block")
           /\ dir_client' = calls[GPID_DIR].peer /\ dir_req' = calls[GPID_DIR].content
  <2>1. PICK w : w = IPC!Send(GPID_FILE, "request") OBVIOUS
  <2>2. w.mode = "send" /\ w.peer = GPID_FILE BY <2>1, Modes
  <2>3. calls'[GPID_DIR] = w /\ PcOf(GPID_DIR)' = "dir_block"
        /\ PcOf(GPID_DIR) = "dir_got" /\ calls[GPID_DIR].mode = "run"
    BY <1>0, <1>8, <2>1, SaysSame
  <2>4. ~Takes(GPID_DIR, GPID_PROCESS)' /\ ~Replies(GPID_DIR, GPID_PROCESS)'
    BY <1>0, <2>2, <2>3 DEF Takes, Replies
  <2>5. dir_client' = GPID_PROCESS => Takes(GPID_DIR, GPID_PROCESS)
    BY <1>8, <2>3 DEF Takes, TakeLabel
  <2> QED BY <1>8, <2>4, <2>5 DEF Lookup
<1>9. CASE /\ Says(GPID_DIR, "dir_block", IPC!Recv(GPID_FILE), "dir_reply")
           /\ UNCHANGED SysDirLocals
  <2>1. PICK w : w = IPC!Recv(GPID_FILE) OBVIOUS
  <2>2. w.mode = "recv" BY <2>1, Modes
  <2>3. calls'[GPID_DIR] = w /\ PcOf(GPID_DIR) = "dir_block"
    BY <1>0, <1>9, <2>1, SaysSame
  <2> QED BY <1>9, <2>2, <2>3 DEF Takes, Replies, DirWait, Lookup, SysDirLocals
<1>10. ASSUME NEW m \in {"DIR_ERROR", "ok"}, m = "DIR_ERROR" <=> dir_req = "lookup missing",
              Says(GPID_DIR, "dir_reply", IPC!Send(dir_client, m), "dir_recv")
       PROVE  /\ ~Takes(GPID_DIR, GPID_PROCESS)' /\ PcOf(GPID_DIR)' \notin DirWait
              /\ Looking /\ Replies(GPID_DIR, GPID_PROCESS)' =>
                    (calls'[GPID_DIR].content = "DIR_ERROR" <=> req \in Missing)
  <2>1. PICK w : w = IPC!Send(dir_client, m) OBVIOUS
  <2>2. w.mode = "send" /\ w.content = m /\ w.peer = dir_client BY <2>1, Modes
  <2>3. calls'[GPID_DIR] = w /\ PcOf(GPID_DIR)' = "dir_recv" /\ PcOf(GPID_DIR) = "dir_reply"
    BY <1>0, <1>10, <2>1, SaysSame
  <2> QED BY <1>10, <2>2, <2>3 DEF Takes, Replies, DirWait, Lookup, TakeLabel
<1> QED BY <1>u, <1>6, <1>7, <1>8, <1>9, <1>10 DEF DirTalk

\* What a step of the shell has to keep.
LEMMA ShellMoves ==
    ASSUME ShellInv, Same(GPID_PROCESS), UNCHANGED <<req, app_pid, shell_waiting, scenario>>,
           \A p \in GPID_USER_START .. MAX_NPROCESS : Used(p)' <=> Used(p),
           Asked' <=> Asked, ShellFg' <=> ShellFg, UNCHANGED shell_cmd \/ ~Asked,
           PcOf(GPID_SHELL)' \in {"shell_recv", "shell_reply"} =>
              shell_cmd' \in scenario.commands /\ shell_cmd' \in Spawn,
           Got("PROC_KILLALL") =>
              PcOf(GPID_SHELL)' \in {"shell_next", "shell_reading", "shell_recv"}
    PROVE  ShellInv'
<1>0. Dialogue /\ NoticeWanted /\ FgKnown /\ FgOnly /\ OneApp /\ KillOutside BY DEF ShellInv
<1>1. /\ \A m : (Got(m)' <=> Got(m)) /\ (Answering(m)' <=> Answering(m))
      /\ PcOf(GPID_PROCESS)' = PcOf(GPID_PROCESS)
  BY DEF Same, Got, Answering
<1>2. /\ Notice' <=> Notice
      /\ Spawning' <=> Spawning
      /\ Loading' <=> Loading
  BY <1>1 DEF Notice, Spawning, Loading
<1>3. Live(app_pid)' <=> Live(app_pid) BY DEF Live
<1>4. CleanFailures(scenario)' <=> CleanFailures(scenario) BY DEF CleanFailures
<1>5. UNCHANGED shell_cmd \/ ~Spawning BY <1>0 DEF Dialogue
<1>6. Fg' <=> Fg BY <1>1, <1>5 DEF Fg, Spawning
<1>7. Dialogue' BY <1>0, <1>1, <1>2, <1>5 DEF Dialogue, Spawning, Same
<1>8. NoticeWanted' BY <1>0, <1>2, <1>3, <1>4 DEF NoticeWanted
<1>9. FgKnown' BY <1>0, <1>1, <1>2, <1>3, <1>5 DEF FgKnown, Spawning
<1>10. FgOnly' BY <1>0, <1>2, <1>3, <1>4, <1>6 DEF FgOnly
<1>11. OneApp' BY <1>0, <1>2, <1>6 DEF OneApp
<1>12. KillOutside' BY <1>0, <1>1 DEF KillOutside
<1> QED BY <1>7, <1>8, <1>9, <1>10, <1>11, <1>12 DEF ShellInv

LEMMA ShellKeepsTalk ==
    ASSUME CallInv, ProgInv, ShellInv, Lookup, sys_shell PROVE ShellInv' /\ Lookup'
<1>0. GPID_SHELL \in Pid /\ GPID_PROCESS # GPID_SHELL /\ GPID_DIR # GPID_SHELL
      /\ GPID_PROCESS \in Pid /\ GPID_DIR \in Pid
  BY Sizes
<1>u. /\ ShellTalk
      /\ UNCHANGED <<req, app_pid, shell_waiting, scenario, dir_client, dir_req>>
  BY ShellTalks DEF ShellTalk, SysProcLocals, SysDirLocals
<1>1. PICK k, v, l : Says(GPID_SHELL, k, v, l) BY <1>u DEF ShellTalk
<1>2. /\ Same(GPID_PROCESS) /\ Same(GPID_DIR) /\ calls[GPID_SHELL].mode = "run"
      /\ calls'[GPID_SHELL] = v /\ PcOf(GPID_SHELL) = k /\ PcOf(GPID_SHELL)' = l
      /\ \A q \in Pid : StatusOf(q)' = StatusOf(q)
  BY <1>0, <1>1, SaysSame
<1>3. Lookup' BY <1>u, <1>2, LookupFrame
<1>4. \A p \in GPID_USER_START .. MAX_NPROCESS : Used(p)' <=> Used(p)
  BY <1>2, Sizes DEF Used
<1>d. Dialogue /\ KillOutside BY DEF ShellInv
<1>e. Asked => ~Got("PROC_KILLALL")
  <2>1. Got("PROC_KILLALL") => ~Spawning
    BY DEF Got, Spawning, Answering, SpawnLabel, LoadLabel, Spawn
  <2> QED BY <1>d, <2>1 DEF Dialogue
<1>5. CASE /\ UNCHANGED shell_cmd
           /\ \E a \in {"shell_next", "shell_fg"} :
                 Says(GPID_SHELL, a, calls[GPID_SHELL], "shell_reading")
  <2>1. PICK a \in {"shell_next", "shell_fg"} :
               Says(GPID_SHELL, a, calls[GPID_SHELL], "shell_reading")
    BY <1>5
  <2>2. /\ PcOf(GPID_SHELL) = a /\ PcOf(GPID_SHELL)' = "shell_reading"
        /\ calls'[GPID_SHELL] = calls[GPID_SHELL]
    BY <1>0, <2>1, SaysSame
  <2>3. ~Asked /\ ~Asked' /\ ~ShellFg /\ ~ShellFg' BY <1>2, <2>2 DEF Asked, ShellFg
  <2>4. ShellInv' BY <1>u, <1>2, <1>4, <1>5, <2>2, <2>3, ShellMoves
  <2> QED BY <1>3, <2>4
<1>6. CASE /\ UNCHANGED shell_cmd
           /\ Says(GPID_SHELL, "shell_reading", calls[GPID_SHELL], "shell_next")
  <2>2. /\ PcOf(GPID_SHELL) = "shell_reading" /\ PcOf(GPID_SHELL)' = "shell_next"
        /\ calls'[GPID_SHELL] = calls[GPID_SHELL]
    BY <1>0, <1>6, SaysSame
  <2>3. ~Asked /\ ~Asked' /\ ~ShellFg /\ ~ShellFg' BY <1>2, <2>2 DEF Asked, ShellFg
  <2>4. ShellInv' BY <1>u, <1>2, <1>4, <1>6, <2>2, <2>3, ShellMoves
  <2> QED BY <1>3, <2>4
<1>7. CASE /\ UNCHANGED shell_cmd
           /\ Says(GPID_SHELL, "shell_recv", IPC!Recv(GPID_PROCESS), "shell_reply")
  <2>1. PICK w : w = IPC!Recv(GPID_PROCESS) OBVIOUS
  <2>2. w.mode = "recv" BY <2>1, Modes
  <2>3. /\ PcOf(GPID_SHELL) = "shell_recv" /\ PcOf(GPID_SHELL)' = "shell_reply"
        /\ calls'[GPID_SHELL] = w
    BY <1>0, <1>7, <2>1, SaysSame
  <2>4. Asked /\ Asked' /\ ~ShellFg /\ ~ShellFg' BY <1>2, <2>2, <2>3 DEF Asked, ShellFg
  <2>5. shell_cmd \in scenario.commands /\ shell_cmd \in Spawn BY <1>d, <2>3 DEF Dialogue
  <2>6. ShellInv' BY <1>u, <1>2, <1>4, <1>7, <1>e, <2>3, <2>4, <2>5, ShellMoves
  <2> QED BY <1>3, <2>6
<1>8. CASE /\ UNCHANGED shell_cmd
           /\ Says(GPID_SHELL, "shell_reply", calls[GPID_SHELL], "shell_next")
           /\ calls[GPID_SHELL].content # "CMD_OK" \/ shell_cmd \in Background
  <2>2. /\ PcOf(GPID_SHELL) = "shell_reply" /\ PcOf(GPID_SHELL)' = "shell_next"
        /\ calls'[GPID_SHELL] = calls[GPID_SHELL]
    BY <1>0, <1>8, SaysSame
  <2>3. ~Asked /\ ~Asked' /\ ~ShellFg /\ ~ShellFg' BY <1>2, <1>8, <2>2 DEF Asked, ShellFg
  <2>4. ShellInv' BY <1>u, <1>2, <1>4, <1>8, <2>2, <2>3, ShellMoves
  <2> QED BY <1>3, <2>4
<1>9. CASE /\ UNCHANGED shell_cmd
           /\ Says(GPID_SHELL, "shell_reply", IPC!Recv(GPID_PROCESS), "shell_fg")
           /\ calls[GPID_SHELL].content = "CMD_OK" /\ shell_cmd \notin Background
  <2>1. PICK w : w = IPC!Recv(GPID_PROCESS) OBVIOUS
  <2>2. w.mode = "recv" BY <2>1, Modes
  <2>3. /\ PcOf(GPID_SHELL) = "shell_reply" /\ PcOf(GPID_SHELL)' = "shell_fg"
        /\ calls'[GPID_SHELL] = w
    BY <1>0, <1>9, <2>1, SaysSame
  <2>4. ~Asked /\ ~Asked' /\ ShellFg /\ ShellFg' BY <1>2, <1>9, <2>2, <2>3 DEF Asked, ShellFg
  <2>5. ~Got("PROC_KILLALL") BY <1>d, <2>3 DEF KillOutside
  <2>6. ShellInv' BY <1>u, <1>2, <1>4, <1>9, <2>3, <2>4, <2>5, ShellMoves
  <2> QED BY <1>3, <2>6
<1>10. ASSUME NEW a \in {"shell_next", "shell_fg"}, shell_cmd' \in scenario.commands,
              Says(GPID_SHELL, a, IPC!Send(GPID_PROCESS, shell_cmd'),
                   IF shell_cmd' = "PROC_KILLALL" THEN "shell_next" ELSE "shell_recv")
       PROVE  ShellInv' /\ Lookup'
  <2>1. PICK m : m = shell_cmd' OBVIOUS
  <2>2. PICK w : w = IPC!Send(GPID_PROCESS, m) OBVIOUS
  <2>3. w.mode = "send" BY <2>2, Modes
  <2>4. PICK b \in {"shell_next", "shell_recv"} :
           b = IF m = "PROC_KILLALL" THEN "shell_next" ELSE "shell_recv"
    OBVIOUS
  <2>5. PcOf(GPID_SHELL) = a /\ PcOf(GPID_SHELL)' = b /\ calls'[GPID_SHELL] = w
    BY <1>0, <1>10, <2>1, <2>2, <2>4, SaysSame
  <2>6. ~Asked /\ ~Asked' /\ ~ShellFg /\ ~ShellFg' BY <1>2, <2>3, <2>5 DEF Asked, ShellFg
  <2>7. m \in Spawn \cup {"PROC_KILLALL"}
    BY <1>10, <2>1 DEF ProgInv, ProgTypeOK, Scenario
  <2>8. ShellInv' BY <1>u, <1>2, <1>4, <1>10, <2>1, <2>4, <2>5, <2>6, <2>7, ShellMoves
  <2> QED BY <1>3, <2>8
<1> QED BY <1>u, <1>5, <1>6, <1>7, <1>8, <1>9, <1>10 DEF ShellTalk

\* What a call of sys_proc has to keep, other than its reply to the shell.
LEMMA MainShift ==
    ASSUME ShellInv, NEW k, NEW v, NEW l, MainSays(k, v, l),
           v.mode # "run", v.mode = "send" /\ v.peer = GPID_SHELL => v.content = "PROC_EXIT",
           (v.mode = "send" /\ v.peer = GPID_SHELL) <=> k = "exit_notice", l # "exit_notice",
           l \in SpawnLabel <=> (k \in SpawnLabel \/ \E m \in Spawn : Got(m)),
           l # "spawn_reply", l \in LoadLabel <=> (k \in LoadLabel \cup {"spawn_reply"}),
           k \in SpawnLabel => UNCHANGED req,
           \A m \in Spawn : Got(m) => req' = m,
           UNCHANGED <<shell_waiting, app_pid, shell_cmd, scenario>>
    PROVE  ShellInv'
<1>0. Dialogue /\ NoticeWanted /\ FgKnown /\ FgOnly /\ OneApp /\ KillOutside BY DEF ShellInv
<1>1. GPID_PROCESS \in Pid /\ GPID_SHELL \in Pid /\ GPID_SHELL # GPID_PROCESS
  BY Distinct
<1>2. /\ Same(GPID_SHELL) /\ calls[GPID_PROCESS].mode = "run"
      /\ calls'[GPID_PROCESS] = v /\ PcOf(GPID_PROCESS) = k /\ PcOf(GPID_PROCESS)' = l
      /\ \A q \in Pid : StatusOf(q)' = StatusOf(q)
  BY <1>1, SaysSame DEF MainSays
<1>3. \A p \in GPID_USER_START .. MAX_NPROCESS : Used(p)' <=> Used(p)
  BY <1>2, Sizes DEF Used
<1>4. /\ Asked' <=> Asked
      /\ ShellFg' <=> ShellFg
      /\ PcOf(GPID_SHELL)' = PcOf(GPID_SHELL)
  BY <1>2 DEF Asked, ShellFg, Same
<1>5. /\ \A m : ~Got(m)' /\ ~Answering(m)
      /\ ~Answering("CMD_OK")' /\ ~Answering("CMD_ERROR")'
      /\ Answering("PROC_EXIT")' <=> k = "exit_notice"
  BY <1>2 DEF Got, Answering
<1>6. /\ Spawning' <=> Spawning
      /\ Notice' <=> Notice
      /\ Loading' <=> Loading
      /\ Fg' <=> Fg
  BY <1>2, <1>4, <1>5 DEF Spawning, Notice, Loading, Fg
<1>7. Live(app_pid)' <=> Live(app_pid) BY <1>3 DEF Live
<1>8. CleanFailures(scenario)' <=> CleanFailures(scenario) BY DEF CleanFailures
<1>9. Dialogue'
  <2>1. l \in SpawnLabel => req' = shell_cmd BY <1>0, <1>2 DEF Dialogue
  <2> QED BY <1>0, <1>2, <1>4, <1>5, <1>6, <2>1 DEF Dialogue
<1>10. NoticeWanted' BY <1>0, <1>4, <1>6, <1>7, <1>8 DEF NoticeWanted
<1>11. FgKnown' BY <1>0, <1>2, <1>4, <1>5, <1>6, <1>7 DEF FgKnown
<1>12. FgOnly' BY <1>0, <1>6, <1>7, <1>8 DEF FgOnly
<1>13. OneApp' BY <1>0, <1>3, <1>6 DEF OneApp
<1>14. KillOutside' BY <1>5 DEF KillOutside
<1> QED BY <1>9, <1>10, <1>11, <1>12, <1>13, <1>14 DEF ShellInv

\* The reply to the shell.
LEMMA MainReply ==
    ASSUME ShellInv, Lookup, NEW k \in {"spawn_found", "spawn_reply"}, NEW m,
           m = (IF k = "spawn_found" THEN "CMD_ERROR" ELSE "CMD_OK"),
           MainSays(k, IPC!Send(GPID_SHELL, m), "main_recv"),
           k = "spawn_found" => calls[GPID_PROCESS].content = "DIR_ERROR",
           shell_waiting' = (req \notin Background),
           UNCHANGED <<req, app_pid, shell_cmd, scenario>>
    PROVE  ShellInv'
<1>0. Dialogue /\ NoticeWanted /\ FgKnown /\ FgOnly /\ OneApp /\ KillOutside BY DEF ShellInv
<1>1. GPID_PROCESS \in Pid /\ GPID_SHELL \in Pid /\ GPID_SHELL # GPID_PROCESS
  BY Distinct
<1>a. PICK v : v = IPC!Send(GPID_SHELL, m) OBVIOUS
<1>b. v.mode = "send" /\ v.peer = GPID_SHELL /\ v.content = m BY <1>a, Modes
<1>2. /\ Same(GPID_SHELL) /\ calls[GPID_PROCESS].mode = "run"
      /\ calls'[GPID_PROCESS] = v /\ PcOf(GPID_PROCESS) = k
      /\ PcOf(GPID_PROCESS)' = "main_recv"
      /\ \A q \in Pid : StatusOf(q)' = StatusOf(q)
  BY <1>1, <1>a, SaysSame DEF MainSays
<1>3. \A p \in GPID_USER_START .. MAX_NPROCESS : Used(p)' <=> Used(p)
  BY <1>2, Sizes DEF Used
<1>4. /\ Asked' <=> Asked
      /\ ShellFg' <=> ShellFg
      /\ PcOf(GPID_SHELL)' = PcOf(GPID_SHELL)
  BY <1>2 DEF Asked, ShellFg, Same
<1>5. /\ \A x : ~Got(x)' /\ ~Answering(x) /\ ~Got(x)
      /\ \A x : Answering(x)' <=> x = m
  BY <1>2, <1>b DEF Got, Answering
<1>6. Spawning /\ Spawning' /\ ~Notice' /\ ~Loading'
  BY <1>2, <1>5 DEF Spawning, Notice, Loading, SpawnLabel, LoadLabel
<1>7. Asked /\ ~ShellFg /\ req = shell_cmd
      /\ shell_cmd \in scenario.commands /\ shell_cmd \in Spawn
  <2>1. Asked /\ req = shell_cmd BY <1>0, <1>2, <1>6 DEF Dialogue, SpawnLabel
  <2>2. ~ShellFg /\ PcOf(GPID_SHELL) \in {"shell_recv", "shell_reply"}
    BY <2>1 DEF Asked, ShellFg
  <2> QED BY <1>0, <2>1, <2>2 DEF Dialogue
<1>8. Live(app_pid)' <=> Live(app_pid) BY <1>3 DEF Live
<1>9. /\ k = "spawn_found" => req \in Missing /\ ~Loading
      /\ k = "spawn_reply" => req \notin Missing
  BY <1>2 DEF Lookup, Loading, LoadLabel
<1>10. Fg' <=> (k = "spawn_reply" /\ shell_cmd \notin Background)
  BY <1>4, <1>5, <1>7 DEF Fg
<1>11. ~Fg BY <1>5, <1>7 DEF Fg
<1>12. shell_waiting' <=> shell_cmd \notin Background BY <1>7
<1>13. Dialogue'
  <2>1. "main_recv" \notin SpawnLabel BY DEF SpawnLabel, LoadLabel
  <2> QED BY <1>0, <1>2, <1>4, <1>5, <1>6, <1>7, <2>1 DEF Dialogue
<1>14. NoticeWanted' BY <1>6 DEF NoticeWanted
<1>15. FgKnown'
  <2>1. Answering("CMD_OK")' => Live(app_pid) BY <1>0, <1>2, <1>5 DEF FgKnown
  <2> QED BY <1>2, <1>4, <1>7, <1>8, <1>12, <2>1 DEF FgKnown
<1>16. FgOnly'
  <2>1. SUFFICES ASSUME CleanFailures(scenario), shell_waiting', Live(app_pid) PROVE Fg'
    <3>1. CleanFailures(scenario)' <=> CleanFailures(scenario) BY DEF CleanFailures
    <3> QED BY <1>8, <3>1 DEF FgOnly
  <2>2. CASE k = "spawn_reply" BY <1>10, <1>12, <2>1, <2>2
  <2>3. CASE k = "spawn_found"
    <3>1. shell_cmd = "SPAWN missing"
      BY <1>7, <1>9, <1>12, <2>1, <2>3 DEF Missing, Background
    <3>2. "SPAWN &" \notin scenario.commands BY <1>7, <2>1, <3>1 DEF CleanFailures
    <3>3. Loading \/ Fg BY <1>0, <2>1, <3>2 DEF OneApp, Live
    <3> QED BY <1>9, <1>11, <2>3, <3>3
  <2> QED BY <2>2, <2>3
<1>17. OneApp'
  <2>1. SUFFICES ASSUME "SPAWN &" \notin scenario.commands,
                        NEW p \in GPID_USER_START .. MAX_NPROCESS, Used(p)
                 PROVE  p = app_pid /\ Fg'
    BY <1>3 DEF OneApp
  <2>2. p = app_pid /\ (Loading \/ Fg) BY <1>0, <2>1 DEF OneApp
  <2>3. k = "spawn_reply" BY <1>9, <1>11, <2>2
  <2>4. shell_cmd \notin Background
    BY <1>7, <1>9, <2>1, <2>3 DEF Background, Missing
  <2> QED BY <1>10, <2>2, <2>3, <2>4
<1>18. KillOutside' BY <1>5 DEF KillOutside
<1> QED BY <1>13, <1>14, <1>15, <1>16, <1>17, <1>18 DEF ShellInv

LEMMA MainLookup ==
    ASSUME CallInv, ProgInv, ServerInv, Lookup, MainCall PROVE Lookup'
<1>0. GPID_PROCESS \in Pid /\ GPID_DIR \in Pid /\ GPID_DIR # GPID_PROCESS
      /\ GPID_DIR \in Servers /\ GPID_PROCESS < GPID_USER_START
  BY Distinct, Sizes
<1>u. MainTalk /\ UNCHANGED <<dir_client, dir_req>>
  BY MainTalks DEF MainTalk, SysDirLocals
<1>a. ASSUME NEW k, NEW v, NEW l, MainSays(k, v, l)
      PROVE  /\ Same(GPID_DIR) /\ calls[GPID_PROCESS].mode = "run"
             /\ calls'[GPID_PROCESS] = v /\ PcOf(GPID_PROCESS) = k
             /\ PcOf(GPID_PROCESS)' = l
             /\ Takes(GPID_DIR, GPID_PROCESS)' <=> Takes(GPID_DIR, GPID_PROCESS)
             /\ Replies(GPID_DIR, GPID_PROCESS)' <=> Replies(GPID_DIR, GPID_PROCESS)
  <2>1. /\ Same(GPID_DIR) /\ calls[GPID_PROCESS].mode = "run"
        /\ calls'[GPID_PROCESS] = v /\ PcOf(GPID_PROCESS) = k
        /\ PcOf(GPID_PROCESS)' = l
    BY <1>0, <1>a, SaysSame DEF MainSays
  <2> QED BY <2>1 DEF Same, Takes, Replies
<1>b. ASSUME NEW k, NEW v,
             NEW l \in {"main_got", "spawn_lookup", "spawn_bin", "main_recv"},
             MainSays(k, v, l)
      PROVE  Lookup'
  <2>1. PcOf(GPID_PROCESS)' = l BY <1>a, <1>b
  <2>2. l \notin {"spawn_ino", "spawn_found", "spawn_reply"} /\ l \notin LoadLabel
    BY DEF LoadLabel
  <2> QED BY <2>1, <2>2, LookupOver
<1>1. ASSUME NEW m \in {"request", "lookup missing"}, m = "lookup missing" <=> req \in Missing,
             UNCHANGED req, MainSays("spawn_lookup", IPC!Send(GPID_DIR, m), "spawn_ino")
      PROVE  Lookup'
  <2>1. PICK v : v = IPC!Send(GPID_DIR, m) OBVIOUS
  <2>2. v.mode = "send" /\ v.content = m BY <2>1 DEF IPC!Send
  <2>3. /\ Same(GPID_DIR) /\ calls[GPID_PROCESS].mode = "run"
        /\ calls'[GPID_PROCESS] = v /\ PcOf(GPID_PROCESS) = "spawn_lookup"
        /\ PcOf(GPID_PROCESS)' = "spawn_ino"
        /\ Takes(GPID_DIR, GPID_PROCESS)' <=> Takes(GPID_DIR, GPID_PROCESS)
        /\ Replies(GPID_DIR, GPID_PROCESS)' <=> Replies(GPID_DIR, GPID_PROCESS)
    BY <1>1, <1>a, <2>1
  <2>4. ~Expects(GPID_PROCESS, GPID_DIR) BY <1>0, <2>3, AskLabels DEF Expects
  <2>5. ~Serves(GPID_DIR, GPID_PROCESS) BY <1>0, <2>4 DEF ServerInv, Wanted
  <2>6. ~Loading' BY <2>3 DEF Loading, LoadLabel
  <2> QED BY <1>u, <1>1, <2>2, <2>3, <2>5, <2>6 DEF Lookup, Serves, Same
<1>2. ASSUME UNCHANGED req, MainSays("spawn_ino", IPC!Recv(GPID_DIR), "spawn_found")
      PROVE  Lookup'
  <2>1. PICK v : v = IPC!Recv(GPID_DIR) OBVIOUS
  <2>2. v.mode = "recv" BY <2>1, Modes
  <2>3. /\ Same(GPID_DIR)
        /\ calls'[GPID_PROCESS] = v /\ PcOf(GPID_PROCESS) = "spawn_ino"
        /\ PcOf(GPID_PROCESS)' = "spawn_found"
        /\ Takes(GPID_DIR, GPID_PROCESS)' <=> Takes(GPID_DIR, GPID_PROCESS)
        /\ Replies(GPID_DIR, GPID_PROCESS)' <=> Replies(GPID_DIR, GPID_PROCESS)
    BY <1>2, <1>a, <2>1
  <2>4. ~Loading' /\ Looking BY <2>3 DEF Loading, LoadLabel, Looking
  <2> QED BY <1>u, <1>2, <2>2, <2>3, <2>4 DEF Lookup, Same
<1>3. ASSUME UNCHANGED req, NEW k \in {"load_send", "load_recv"}, NEW v,
             NEW l \in {"load_send", "load_recv"}, MainSays(k, v, l)
      PROVE  Lookup'
  <2>1. PcOf(GPID_PROCESS) = k /\ PcOf(GPID_PROCESS)' = l BY <1>3, <1>a
  <2>2. Loading /\ l \notin {"spawn_ino", "spawn_found"} BY <2>1 DEF Loading, LoadLabel
  <2> QED BY <1>3, <2>1, <2>2 DEF Lookup, Looking
<1> QED BY <1>u, <1>b, <1>1, <1>2, <1>3 DEF MainTalk

LEMMA MainKeepsTalk ==
    ASSUME CallInv, ProgInv, ShellInv, Lookup, MainCall PROVE ShellInv'
<1>0. GPID_PROCESS \in Pid /\ GPID_DIR # GPID_SHELL /\ GPID_FILE # GPID_SHELL BY Distinct
<1>u. MainTalk /\ UNCHANGED <<app_pid, shell_cmd, scenario>>
  BY MainTalks DEF MainTalk, ShellLocals
<1>a. ASSUME NEW k, NEW v, NEW l, MainSays(k, v, l)
      PROVE  calls[GPID_PROCESS].mode = "run" /\ PcOf(GPID_PROCESS) = k
  BY <1>0, <1>a, SaysSame DEF MainSays
<1>s. /\ \A l \in SpawnLabel : l # "main_got" /\ l # "main_recv" /\ l # "exit_notice"
      /\ {"spawn_bin", "spawn_lookup", "spawn_ino", "spawn_found", "load_send",
          "load_recv"} \subseteq SpawnLabel \ {"spawn_reply"}
      /\ {"load_send", "load_recv"} \subseteq LoadLabel
      /\ \A l \in LoadLabel : l \in {"load_send", "load_recv", "spawn_ready"}
  BY DEF SpawnLabel, LoadLabel
<1>1. ASSUME NEW k \in {"main_recv", "main_got"}, MainSays(k, IPC!Recv(0), "main_got"),
             k = "main_got" => calls[GPID_PROCESS].content = "PROC_SLEEP",
             UNCHANGED shell_waiting
      PROVE  ShellInv'
  <2>1. PICK v : v = IPC!Recv(0) OBVIOUS
  <2>2. v.mode = "recv" BY <2>1, Modes
  <2>3. \A m \in Spawn : ~Got(m) BY <1>1, <1>a DEF Got, Spawn
  <2>4. k \notin SpawnLabel /\ k \notin LoadLabel /\ "main_got" \notin SpawnLabel
        /\ "main_got" \notin LoadLabel /\ k # "spawn_reply" /\ k # "exit_notice"
    BY DEF SpawnLabel, LoadLabel
  <2> QED BY <1>u, <1>1, <2>1, <2>2, <2>3, <2>4, MainShift
<1>2. ASSUME NEW k \in {"spawn_bin", "spawn_lookup", "spawn_ino", "load_send", "load_recv"},
             NEW l \in {"spawn_lookup", "spawn_ino", "spawn_found", "load_recv", "load_send"},
             NEW v, v.mode # "run", v.mode = "send" => v.peer # GPID_SHELL,
             MainSays(k, v, l), UNCHANGED <<req, shell_waiting>>,
             l \in LoadLabel <=> k \in LoadLabel
      PROVE  ShellInv'
  <2>3. \A m \in Spawn : ~Got(m) BY <1>2, <1>a DEF Got
  <2>4. k \in SpawnLabel /\ l \in SpawnLabel /\ k # "spawn_reply" /\ k # "exit_notice"
    BY DEF SpawnLabel, LoadLabel
  <2> QED BY <1>u, <1>2, <2>3, <2>4, MainShift
<1>3. ASSUME MainSays("spawn_bin", IPC!Recv(GPID_DIR), "spawn_lookup")
             \/ MainSays("spawn_ino", IPC!Recv(GPID_DIR), "spawn_found")
             \/ MainSays("load_recv", IPC!Recv(GPID_FILE), "load_send"),
             UNCHANGED <<req, shell_waiting>>
      PROVE  ShellInv'
  <2>1. \A s : IPC!Recv(s).mode = "recv" BY Modes
  <2>2. "spawn_bin" \notin LoadLabel /\ "spawn_lookup" \notin LoadLabel
        /\ "spawn_ino" \notin LoadLabel /\ "spawn_found" \notin LoadLabel
    BY DEF LoadLabel
  <2> QED BY <1>2, <1>3, <1>s, <2>1, <2>2
<1>4. ASSUME NEW m, MainSays("spawn_lookup", IPC!Send(GPID_DIR, m), "spawn_ino"),
             UNCHANGED <<req, shell_waiting>>
      PROVE  ShellInv'
  <2>1. PICK v : v = IPC!Send(GPID_DIR, m) OBVIOUS
  <2>2. v.mode = "send" /\ v.peer = GPID_DIR BY <2>1, Modes
  <2>3. "spawn_lookup" \notin LoadLabel /\ "spawn_ino" \notin LoadLabel BY DEF LoadLabel
  <2> QED BY <1>0, <1>2, <1>4, <2>1, <2>2, <2>3
<1>5. ASSUME MainSays("load_send", IPC!Send(GPID_FILE, "request"), "load_recv"),
             UNCHANGED <<req, shell_waiting>>
      PROVE  ShellInv'
  <2>1. PICK v : v = IPC!Send(GPID_FILE, "request") OBVIOUS
  <2>2. v.mode = "send" /\ v.peer = GPID_FILE BY <2>1, Modes
  <2> QED BY <1>0, <1>2, <1>5, <1>s, <2>1, <2>2
<1>6. ASSUME MainSays("exit_notice", IPC!Send(GPID_SHELL, "PROC_EXIT"), "main_recv"),
             UNCHANGED shell_waiting
      PROVE  ShellInv'
  <2>1. PICK v : v = IPC!Send(GPID_SHELL, "PROC_EXIT") OBVIOUS
  <2>2. v.mode = "send" /\ v.peer = GPID_SHELL /\ v.content = "PROC_EXIT" BY <2>1, Modes
  <2>3. \A m \in Spawn : ~Got(m) BY <1>6, <1>a DEF Got
  <2>4. "main_recv" \notin SpawnLabel /\ "main_recv" \notin LoadLabel
        /\ "exit_notice" \notin SpawnLabel /\ "exit_notice" \notin LoadLabel
    BY DEF SpawnLabel, LoadLabel
  <2> QED BY <1>u, <1>6, <2>1, <2>2, <2>3, <2>4, MainShift
<1>7. ASSUME MainSays("main_got", IPC!Send(GPID_DIR, "request"), "spawn_bin"),
             calls[GPID_PROCESS].content \in Spawn, req' = calls[GPID_PROCESS].content,
             UNCHANGED shell_waiting
      PROVE  ShellInv'
  <2>1. PICK v : v = IPC!Send(GPID_DIR, "request") OBVIOUS
  <2>2. v.mode = "send" /\ v.peer = GPID_DIR BY <2>1, Modes
  <2>3. /\ \E m \in Spawn : Got(m)
        /\ \A m \in Spawn : Got(m) => req' = m
    BY <1>7, <1>a DEF Got
  <2>4. "spawn_bin" \in SpawnLabel /\ "spawn_bin" \notin LoadLabel
        /\ "main_got" \notin SpawnLabel /\ "main_got" \notin LoadLabel
    BY DEF SpawnLabel, LoadLabel
  <2> QED BY <1>0, <1>u, <1>7, <2>1, <2>2, <2>3, <2>4, MainShift
<1>8. ASSUME \/ /\ MainSays("spawn_found", IPC!Send(GPID_SHELL, "CMD_ERROR"), "main_recv")
                /\ calls[GPID_PROCESS].content = "DIR_ERROR"
             \/ MainSays("spawn_reply", IPC!Send(GPID_SHELL, "CMD_OK"), "main_recv"),
             shell_waiting' = (req \notin Background), UNCHANGED req
      PROVE  ShellInv'
  BY <1>u, <1>8, MainReply
<1> QED BY <1>u, <1>1, <1>3, <1>4, <1>5, <1>6, <1>7, <1>8 DEF MainTalk

\* During the boot there is no application and no request.
LEMMA BootIsQuiet ==
    ASSUME ProgInv, ShellInv, PcOf(GPID_PROCESS) \in BootLabel,
           calls[GPID_PROCESS].mode # "send"
    PROVE  /\ \A p \in GPID_USER_START .. MAX_NPROCESS : ~Used(p)
           /\ ~Spawning /\ ~Asked /\ ~ShellFg
<1>1. ASSUME NEW p \in GPID_USER_START .. MAX_NPROCESS PROVE ~Used(p)
  <2>1. p \in Pid /\ booting \in 2 .. 5 /\ p >= 6 /\ ~(p <= booting) /\ ~(p < booting)
    BY Sizes DEF ProgInv, ProgTypeOK
  <2> QED BY <2>1 DEF ProgInv, SlotsInOrder, BootLabel
<1>2. ~Spawning BY DEF Spawning, Got, Answering, BootLabel, SpawnLabel, LoadLabel
<1>3. ~Asked BY <1>2 DEF ShellInv, Dialogue
<1>4. ~ShellFg
  <2>1. ~Live(app_pid) BY <1>1 DEF Live
  <2>2. ~Notice BY DEF Notice, Answering, BootLabel
  <2> QED BY <2>1, <2>2 DEF ShellInv, FgKnown
<1> QED BY <1>1, <1>2, <1>3, <1>4

LEMMA BootTalk ==
    ASSUME ShellInv, UNCHANGED <<shell_cmd, scenario>>,
           PcOf(GPID_PROCESS)' \in BootLabel \cup {"main_recv"},
           calls'[GPID_PROCESS].mode # "send",
           Same(GPID_SHELL) \/ PcOf(GPID_SHELL)' = "shell_next", ~Asked, ~ShellFg,
           \A p \in GPID_USER_START .. MAX_NPROCESS : ~Used(p)'
    PROVE  ShellInv' /\ Lookup'
<1>1. ~Asked' /\ ~ShellFg' BY DEF Same, Asked, ShellFg
<1>2. /\ ~Spawning' /\ ~Notice' /\ \A m : ~Got(m)' /\ ~Answering(m)'
      /\ PcOf(GPID_PROCESS)' \notin SpawnLabel
  BY DEF Spawning, Notice, Got, Answering, BootLabel, SpawnLabel, LoadLabel
<1>3. ~Live(app_pid)' BY DEF Live
<1>4. Dialogue' BY <1>1, <1>2 DEF Dialogue, ShellInv, Same
<1>5. NoticeWanted' /\ FgOnly' BY <1>2, <1>3 DEF NoticeWanted, FgOnly
<1>6. FgKnown'
  <2>1. PcOf(GPID_PROCESS)' # "spawn_reply" BY DEF BootLabel
  <2> QED BY <1>1, <1>2, <2>1 DEF FgKnown
<1>7. OneApp' /\ KillOutside' BY <1>2 DEF OneApp, KillOutside
<1>8. Lookup'
  <2>1. PcOf(GPID_PROCESS)' \notin {"spawn_ino", "spawn_found", "spawn_reply"}
        /\ PcOf(GPID_PROCESS)' \notin LoadLabel
    BY DEF BootLabel, LoadLabel
  <2> QED BY <2>1, LookupOver
<1> QED BY <1>4, <1>5, <1>6, <1>7, <1>8 DEF ShellInv

LEMMA BootKeepsTalk ==
    ASSUME CallInv, ProgInv, ShellInv, boot_alloc \/ boot_recv \/ boot_ready
    PROVE  ShellInv' /\ Lookup'
<1>0. /\ GPID_PROCESS \in Pid /\ GPID_SHELL \in Pid /\ GPID_SHELL # GPID_PROCESS
      /\ \A p \in GPID_USER_START .. MAX_NPROCESS : p \in Pid
      /\ PcOf(GPID_PROCESS) \in BootLabel
      /\ UNCHANGED <<shell_cmd, scenario>>
  <2>1. PcOf(GPID_PROCESS) \in BootLabel
    BY DEF boot_alloc, boot_recv, boot_ready, At, PcOf, BootLabel
  <2>2. UNCHANGED <<shell_cmd, scenario>>
    BY DEF boot_alloc, boot_recv, boot_ready, ShellLocals
  <2> QED BY <2>1, <2>2, Sizes
<1>1. calls[GPID_PROCESS].mode = "run"
  <2>1. InSysProc
    BY DEF boot_alloc, boot_recv, boot_ready, At, proc_alloc, sys_recv, proc_set_ready,
           InSysProc
  <2> QED BY <2>1, MainComputes
<1>2. /\ \A p \in GPID_USER_START .. MAX_NPROCESS : ~Used(p)
      /\ ~Asked /\ ~ShellFg
  BY <1>0, <1>1, BootIsQuiet
<1>3. CASE boot_alloc
  <2>1. proc_alloc /\ Goto("boot_ready") /\ proc_curr_idx = pid2idx(GPID_PROCESS)
    BY <1>3 DEF boot_alloc, At
  <2>2. /\ PcOf(GPID_PROCESS)' = "boot_ready"
        /\ \A q \in Pid : q # GPID_PROCESS => PcOf(q)' = PcOf(q)
    BY <1>0, <2>1, GotoFacts DEF ProgInv, ProgTypeOK, Label
  <2>3. calls' = calls BY <2>1, AllocSlots
  <2>4. ProgInv' BY <1>3, BootAllocKeeps
  <2>5. ASSUME NEW p \in GPID_USER_START .. MAX_NPROCESS PROVE ~Used(p)'
    <3>1. /\ booting' \in 2 .. 5 /\ p >= 6 /\ ~(p <= booting')
      BY <2>4, Sizes DEF ProgInv, ProgTypeOK
    <3> QED BY <1>0, <2>2, <2>4, <3>1 DEF ProgInv, SlotsInOrder
  <2>6. Same(GPID_SHELL) BY <1>0, <2>2, <2>3 DEF Same
  <2>7. "boot_ready" \in BootLabel BY DEF BootLabel
  <2> QED BY <1>0, <1>1, <1>2, <2>2, <2>3, <2>5, <2>6, <2>7, BootTalk
<1>4. CASE boot_recv
  <2>1. PICK b \in 0 .. GPID_SHELL : b = booting BY Sizes DEF ProgInv, ProgTypeOK
  <2>2. Posts(GPID_PROCESS, IPC!Recv(b), "boot_alloc")
    BY <1>0, <1>4, <2>1, RecvPosts DEF boot_recv, At, Label
  <2>3. Says(GPID_PROCESS, PcOf(GPID_PROCESS), IPC!Recv(b), "boot_alloc")
    BY <2>2 DEF Says
  <2>4. /\ Same(GPID_SHELL) /\ calls'[GPID_PROCESS] = IPC!Recv(b)
        /\ PcOf(GPID_PROCESS)' = "boot_alloc"
        /\ \A q \in Pid : StatusOf(q)' = StatusOf(q)
    BY <1>0, <2>3, SaysSame
  <2>5. calls'[GPID_PROCESS].mode = "recv" BY <2>4, Modes
  <2>6. "boot_alloc" \in BootLabel BY DEF BootLabel
  <2>7. \A p \in GPID_USER_START .. MAX_NPROCESS : ~Used(p)' BY <1>0, <1>2, <2>4 DEF Used
  <2> QED BY <1>0, <1>2, <2>4, <2>5, <2>6, <2>7, BootTalk
<1>5. CASE boot_ready
  <2>1. PICK b \in 2 .. 5 : b = booting BY Sizes DEF ProgInv, ProgTypeOK
  <2>2. PICK p \in Pid :
         /\ proc_set_ready(p)
         /\ pc' = [pc EXCEPT ![pid2idx(p)] = EntryOf(b),
                             ![proc_curr_idx] = IF b = GPID_SHELL
                                                THEN "main_recv" ELSE "boot_recv"]
    BY <1>5, <2>1 DEF boot_ready
  <2>3. PcOf(GPID_PROCESS) = "boot_ready" /\ proc_curr_idx = pid2idx(GPID_PROCESS)
    BY <1>5 DEF boot_ready, At, PcOf
  <2>4. /\ StatusOf(p) = "PROC_LOADING"
        /\ \A q \in Pid : q # p => calls'[q] = calls[q] /\ StatusOf(q)' = StatusOf(q)
    BY <2>2, ReadySlots
  <2>5. p = b /\ p # GPID_PROCESS
    BY <2>1, <2>3, <2>4, Sizes DEF ProgInv, OneLoading
  <2>6. PICK l \in {"main_recv", "boot_recv"} :
           l = IF b = GPID_SHELL THEN "main_recv" ELSE "boot_recv"
    OBVIOUS
  <2>7. /\ PcOf(p)' = EntryOf(b) /\ PcOf(GPID_PROCESS)' = l
        /\ \A q \in Pid : q \notin {p, GPID_PROCESS} => PcOf(q)' = PcOf(q)
    <3>1. l \in Label /\ EntryOf(b) \in Label BY DEF Label, EntryOf
    <3> QED BY <2>2, <2>3, <2>5, <2>6, <3>1, TwoLabels
  <2>8. Same(GPID_SHELL) \/ PcOf(GPID_SHELL)' = "shell_next"
    <3>1. CASE p = GPID_SHELL
      <4>1. EntryOf(b) = "shell_next" BY <2>5, <3>1, Sizes DEF EntryOf
      <4> QED BY <2>7, <3>1, <4>1
    <3>2. CASE p # GPID_SHELL BY <1>0, <2>4, <2>7, <3>2 DEF Same
    <3> QED BY <3>1, <3>2
  <2>9. \A q \in GPID_USER_START .. MAX_NPROCESS : ~Used(q)'
    <3>1. \A q \in GPID_USER_START .. MAX_NPROCESS : q # p BY <2>5, Sizes
    <3> QED BY <1>0, <1>2, <2>4, <3>1 DEF Used
  <2>10. l \in BootLabel \cup {"main_recv"} BY DEF BootLabel
  <2>11. calls'[GPID_PROCESS].mode # "send" BY <1>0, <1>1, <2>4, <2>5
  <2> QED BY <1>0, <1>2, <2>7, <2>8, <2>9, <2>10, <2>11, BootTalk
<1> QED BY <1>3, <1>4, <1>5

\* What the steps that load an application have to keep.
LEMMA LoadTalk ==
    ASSUME ShellInv, Lookup, UNCHANGED <<req, shell_waiting, shell_cmd, scenario>>,
           Same(GPID_SHELL), calls[GPID_PROCESS].mode = "run",
           calls'[GPID_PROCESS] = calls[GPID_PROCESS],
           \/ PcOf(GPID_PROCESS) = "spawn_found" /\ calls[GPID_PROCESS].content # "DIR_ERROR"
           \/ PcOf(GPID_PROCESS) \in LoadLabel,
           PcOf(GPID_PROCESS)' \in LoadLabel \cup {"spawn_reply"},
           "SPAWN &" \notin scenario.commands =>
              \A p \in GPID_USER_START .. MAX_NPROCESS : Used(p)' => p = app_pid',
           PcOf(GPID_PROCESS)' = "spawn_reply" => Live(app_pid)'
    PROVE  ShellInv' /\ Lookup'
<1>0. Dialogue BY DEF ShellInv
<1>1. /\ PcOf(GPID_PROCESS) \in SpawnLabel /\ PcOf(GPID_PROCESS)' \in SpawnLabel
      /\ PcOf(GPID_PROCESS)' \notin {"main_got", "exit_notice", "spawn_ino", "spawn_found"}
  BY DEF SpawnLabel, LoadLabel
<1>2. Spawning /\ Spawning' /\ Asked /\ req = shell_cmd
  BY <1>0, <1>1 DEF Spawning, Dialogue
<1>3. Asked' /\ ~ShellFg' BY <1>2 DEF Asked, ShellFg, Same
<1>4. ~Notice' /\ Loading' /\ \A m : ~Got(m)' /\ ~Answering(m)'
  BY <1>1 DEF Notice, Loading, Got, Answering
<1>5. Dialogue' BY <1>0, <1>2, <1>3, <1>4 DEF Dialogue, Same
<1>6. NoticeWanted' /\ FgOnly' /\ KillOutside' BY <1>4 DEF NoticeWanted, FgOnly, KillOutside
<1>7. FgKnown' BY <1>3, <1>4 DEF FgKnown
<1>8. OneApp' BY <1>4 DEF OneApp
<1>9. Lookup'
  <2>1. req \notin Missing BY DEF Lookup, Loading
  <2> QED BY <1>1, <2>1 DEF Lookup, Looking
<1> QED BY <1>5, <1>6, <1>7, <1>8, <1>9 DEF ShellInv

LEMMA SpawnAllocTalk ==
    ASSUME CallInv, ProgInv, ShellInv, Lookup, spawn_alloc PROVE ShellInv' /\ Lookup'
<1>0. /\ GPID_PROCESS \in Pid /\ GPID_SHELL \in Pid /\ GPID_SHELL # GPID_PROCESS
      /\ \A p \in GPID_USER_START .. MAX_NPROCESS : p \in Pid
  BY Sizes
<1>1. /\ PcOf(GPID_PROCESS) = "spawn_found" /\ proc_alloc /\ Goto("load_send")
      /\ proc_curr_idx = pid2idx(GPID_PROCESS) /\ Received # "DIR_ERROR"
      /\ app_pid' = IF Unused = {} THEN app_pid
                    ELSE idx2pid(CHOOSE i \in Unused : \A j \in Unused : i <= j)
      /\ UNCHANGED <<req, shell_waiting, shell_cmd, scenario>>
  BY DEF spawn_alloc, At, PcOf, ShellLocals
<1>2. calls[GPID_PROCESS].mode = "run" /\ calls[GPID_PROCESS].content # "DIR_ERROR"
  <2>1. InSysProc BY <1>1 DEF proc_alloc
  <2>2. calls[GPID_PROCESS] = IPC!Run(Sender, Received) BY <2>1, MainComputes
  <2> QED BY <1>1, <2>2, Modes
<1>3. /\ PcOf(GPID_PROCESS)' = "load_send"
      /\ \A q \in Pid : q # GPID_PROCESS => PcOf(q)' = PcOf(q)
  BY <1>0, <1>1, GotoFacts DEF ProgInv, ProgTypeOK, Label
<1>4. calls' = calls BY <1>1, AllocSlots
<1>5. ASSUME "SPAWN &" \notin scenario.commands, NEW p \in GPID_USER_START .. MAX_NPROCESS
      PROVE  ~Used(p)
  <2>1. Asked
    <3>1. Spawning BY <1>1 DEF Spawning, SpawnLabel
    <3> QED BY <3>1 DEF ShellInv, Dialogue
  <2>2. ~Fg BY <1>2, <2>1 DEF Fg, Answering, Asked, ShellFg
  <2>3. ~Loading BY <1>1 DEF Loading, LoadLabel
  <2> QED BY <1>5, <2>2, <2>3 DEF ShellInv, OneApp
<1>6. ASSUME "SPAWN &" \notin scenario.commands, NEW p \in GPID_USER_START .. MAX_NPROCESS,
             Used(p)'
      PROVE  p = app_pid'
  <2>1. ~Used(p) /\ p \in Pid BY <1>0, <1>5, <1>6
  <2>2. PICK n \in Pid :
           /\ StatusOf(n) = "PROC_UNUSED"
           /\ \A q \in Pid : q # n => StatusOf(q)' = StatusOf(q)
           /\ pid2idx(n) \in Unused
           /\ \A j \in Unused : pid2idx(n) <= j
    <3>1. ~(UNCHANGED <<pid, status>>) BY <1>6, <2>1 DEF Used, StatusOf
    <3> QED BY <1>1, <3>1, AllocSlots
  <2>3. p = n BY <1>6, <2>1, <2>2 DEF Used
  <2>4. app_pid' = n
    <3>1. PICK c : c = CHOOSE i \in Unused : \A j \in Unused : i <= j OBVIOUS
    <3>2. c \in Unused /\ \A j \in Unused : c <= j BY <2>2, <3>1
    <3>3. c = pid2idx(n)
      <4>1. \A j \in Unused : j \in Int BY DEF Unused, Idx
      <4> QED BY <2>2, <3>2, <4>1
    <3>4. idx2pid(c) = n BY <3>3, PidSlots
    <3> QED BY <1>1, <2>2, <3>1, <3>4
  <2> QED BY <2>3, <2>4
<1>7. Same(GPID_SHELL) BY <1>0, <1>3, <1>4 DEF Same
<1>8. "load_send" \in LoadLabel /\ "load_send" # "spawn_reply" BY DEF LoadLabel
<1> QED BY <1>1, <1>2, <1>3, <1>4, <1>6, <1>7, <1>8, LoadTalk

LEMMA LoadKeepsTalk ==
    ASSUME CallInv, ProgInv, ShellInv, Lookup, load_done \/ spawn_ready
    PROVE  ShellInv' /\ Lookup'
<1>0. /\ GPID_PROCESS \in Pid /\ GPID_SHELL \in Pid /\ GPID_SHELL # GPID_PROCESS
      /\ \A p \in GPID_USER_START .. MAX_NPROCESS : p \in Pid
  BY Sizes
<1>1. /\ PcOf(GPID_PROCESS) \in LoadLabel /\ InSysProc /\ fatal = "none"
      /\ proc_curr_idx = pid2idx(GPID_PROCESS)
      /\ UNCHANGED <<req, shell_waiting, shell_cmd, scenario, app_pid>>
  BY DEF load_done, spawn_ready, At, PcOf, ShellLocals, SysProcLocals, LoadLabel,
         elf_load, proc_set_ready, InSysProc, InUserSpace
<1>2. calls[GPID_PROCESS].mode = "run" BY <1>1, MainComputes
<1>3. PICK a \in GPID_USER_START .. MAX_NPROCESS : a = app_pid
  BY <1>1 DEF ProgInv, OneLoading
<1>4. a \in Pid /\ a # GPID_PROCESS /\ a # GPID_SHELL BY <1>3, Sizes
<1>5. "SPAWN &" \notin scenario.commands =>
         \A p \in GPID_USER_START .. MAX_NPROCESS : Used(p) => p = app_pid
  BY DEF ShellInv, OneApp
<1>6. CASE load_done
  <2>1. elf_load(a) /\ Goto("spawn_ready") BY <1>3, <1>6 DEF load_done
  <2>2. calls' = calls BY <1>4, <2>1, LoadCalls
  <2>3. /\ PcOf(GPID_PROCESS)' = "spawn_ready"
        /\ \A q \in Pid : q # GPID_PROCESS => PcOf(q)' = PcOf(q)
    BY <1>0, <1>1, <2>1, GotoFacts DEF ProgInv, ProgTypeOK, Label
  <2>4. \A q \in Pid : Used(q)' <=> Used(q) BY <2>1 DEF elf_load, Used, StatusOf
  <2>5. Same(GPID_SHELL) BY <1>0, <2>2, <2>3 DEF Same
  <2>6. "spawn_ready" \in LoadLabel /\ "spawn_ready" # "spawn_reply" BY DEF LoadLabel
  <2> QED BY <1>0, <1>1, <1>2, <1>5, <2>2, <2>3, <2>4, <2>5, <2>6, LoadTalk
<1>7. CASE spawn_ready
  <2>1. /\ proc_set_ready(a)
        /\ pc' = [pc EXCEPT ![pid2idx(a)] = "app", ![proc_curr_idx] = "spawn_reply"]
    BY <1>3, <1>7 DEF spawn_ready
  <2>2. /\ StatusOf(a) = "PROC_LOADING" /\ StatusOf(a)' = "PROC_READY"
        /\ \A q \in Pid : q # a => StatusOf(q)' = StatusOf(q) /\ calls'[q] = calls[q]
    BY <1>4, <2>1, ReadySlots
  <2>3. /\ PcOf(GPID_PROCESS)' = "spawn_reply"
        /\ \A q \in Pid : q \notin {a, GPID_PROCESS} => PcOf(q)' = PcOf(q)
    <3>1. "app" \in Label /\ "spawn_reply" \in Label BY DEF Label
    <3> QED BY <1>1, <1>4, <2>1, <3>1, TwoLabels
  <2>4. \A q \in Pid : Used(q)' <=> Used(q) BY <1>4, <2>2 DEF Used
  <2>5. Same(GPID_SHELL) BY <1>0, <1>4, <2>2, <2>3 DEF Same
  <2>6. Live(app_pid)' BY <1>1, <1>3, <2>2 DEF Live, Used
  <2>7. calls'[GPID_PROCESS] = calls[GPID_PROCESS] BY <1>0, <1>4, <2>2
  <2> QED BY <1>0, <1>1, <1>2, <1>5, <2>3, <2>4, <2>5, <2>6, <2>7, LoadTalk
<1> QED BY <1>6, <1>7

\* What it takes to free the applications of D.
LEMMA FreeTalk ==
    ASSUME ShellInv, NEW D, NEW l \in {"main_recv", "exit_notice"}, Frees(D, l),
           \A m \in Spawn : ~Got(m),
           ShellFg => Live(app_pid)' \/ l = "exit_notice",
           l = "exit_notice" => ~Live(app_pid)' /\ (CleanFailures(scenario) => ShellFg)
    PROVE  ShellInv' /\ Lookup'
<1>0. Dialogue /\ NoticeWanted /\ FgKnown /\ FgOnly /\ OneApp /\ KillOutside BY DEF ShellInv
<1>1. /\ PcOf(GPID_PROCESS) = "main_got" /\ PcOf(GPID_PROCESS)' = l
      /\ calls[GPID_PROCESS].mode = "run" /\ calls'[GPID_PROCESS] = calls[GPID_PROCESS]
      /\ UNCHANGED <<req, app_pid, shell_waiting, shell_cmd, scenario>>
  BY DEF Frees, SysProcLocals, ShellLocals
<1>2. Same(GPID_SHELL)
  <2>1. GPID_SHELL \in Pid /\ GPID_SHELL \notin D /\ GPID_SHELL # GPID_PROCESS
    BY Sizes DEF Frees
  <2> QED BY <2>1 DEF Same, Frees
<1>3. \A p \in GPID_USER_START .. MAX_NPROCESS : Used(p)' => Used(p)
  <2>1. \A p \in GPID_USER_START .. MAX_NPROCESS : p \in Pid BY Sizes
  <2> QED BY <2>1 DEF Frees, Used
<1>4. /\ Asked' <=> Asked
      /\ ShellFg' <=> ShellFg
      /\ PcOf(GPID_SHELL)' = PcOf(GPID_SHELL)
  BY <1>1, <1>2 DEF Asked, ShellFg, Same
<1>5. /\ \A m : ~Got(m)' /\ ~Answering(m) /\ ~Answering(m)'
      /\ l \notin SpawnLabel /\ "main_got" \notin SpawnLabel /\ l # "spawn_reply"
      /\ l \notin LoadLabel /\ "main_got" \notin LoadLabel
  BY <1>1 DEF Got, Answering, SpawnLabel, LoadLabel
<1>6. /\ ~Spawning /\ ~Spawning'
      /\ Notice' <=> l = "exit_notice"
      /\ ~Notice
      /\ ~Loading /\ ~Loading'
      /\ Fg' <=> Fg
  BY <1>1, <1>4, <1>5 DEF Spawning, Notice, Loading, Fg
<1>7. Live(app_pid)' => Live(app_pid) BY <1>1, <1>3 DEF Live
<1>8. CleanFailures(scenario)' <=> CleanFailures(scenario) BY <1>1 DEF CleanFailures
<1>9. Dialogue' BY <1>0, <1>1, <1>4, <1>5, <1>6 DEF Dialogue
<1>10. NoticeWanted' BY <1>4, <1>6, <1>8 DEF NoticeWanted
<1>11. FgKnown' BY <1>0, <1>1, <1>4, <1>5, <1>6 DEF FgKnown
<1>12. FgOnly' BY <1>0, <1>1, <1>6, <1>7, <1>8 DEF FgOnly
<1>13. OneApp' BY <1>0, <1>1, <1>3, <1>6 DEF OneApp
<1>14. KillOutside' BY <1>5 DEF KillOutside
<1>15. Lookup' BY <1>1, <1>5, LookupOver
<1> QED BY <1>9, <1>10, <1>11, <1>12, <1>13, <1>14, <1>15 DEF ShellInv

LEMMA ExitTalk ==
    ASSUME CallInv, ProgInv, ServerInv, ShellInv, main_exit PROVE ShellInv' /\ Lookup'
<1>1. PICK p \in GPID_USER_START .. MAX_NPROCESS :
         /\ calls[GPID_PROCESS].peer = p /\ calls[GPID_PROCESS].content = "PROC_EXIT"
         /\ Frees({p}, IF shell_waiting /\ app_pid = p THEN "exit_notice" ELSE "main_recv")
  BY ExitFrees
<1>2. PICK l \in {"main_recv", "exit_notice"} :
         Frees({p}, l) /\ (l = "exit_notice" <=> shell_waiting /\ app_pid = p)
  BY <1>1
<1>3. p \in Pid BY Sizes
<1>4. /\ PcOf(GPID_PROCESS) = "main_got" /\ calls[GPID_PROCESS].mode = "run"
      /\ UNCHANGED app_pid
      /\ \A q \in Pid : StatusOf(q)' = IF q = p THEN "PROC_UNUSED" ELSE StatusOf(q)
  BY <1>2, <1>3 DEF Frees, SysProcLocals
<1>5. Live(p)
  <2>1. calls[p].mode \in {"run", "send"} BY <1>1, <1>4 DEF ServerInv, Exiting
  <2> QED BY <1>3, <2>1, CallersAreUsed DEF Live, Used
<1>6. \A m \in Spawn : ~Got(m) BY <1>1 DEF Got, Spawn
<1>7. ~Notice /\ ~Loading /\ \A m : ~Answering(m)
  BY <1>4 DEF Notice, Loading, LoadLabel, Answering
<1>8. ASSUME l = "exit_notice"
      PROVE  ~Live(app_pid)' /\ (CleanFailures(scenario) => ShellFg)
  <2>1. ~Live(app_pid)' BY <1>2, <1>3, <1>4, <1>8 DEF Live, Used
  <2>2. CleanFailures(scenario) => Fg BY <1>2, <1>5, <1>7, <1>8 DEF ShellInv, FgOnly
  <2> QED BY <1>7, <2>1, <2>2 DEF Fg
<1>9. ASSUME ShellFg, l # "exit_notice" PROVE Live(app_pid)'
  <2>1. shell_waiting /\ Live(app_pid) BY <1>7, <1>9 DEF ShellInv, FgKnown
  <2>2. app_pid # p BY <1>2, <1>9, <2>1
  <2>3. app_pid \in Pid BY <2>1, Sizes DEF Live
  <2> QED BY <1>4, <2>1, <2>2, <2>3 DEF Live, Used
<1> QED BY <1>2, <1>6, <1>8, <1>9, FreeTalk

LEMMA KillTalk ==
    ASSUME CallInv, ProgInv, ShellInv, main_killall PROVE ShellInv' /\ Lookup'
<1>1. PICK D : Frees(D, "main_recv") BY KillFrees
<1>2. Got("PROC_KILLALL") BY <1>1, KillFrees DEF Got, Frees
<1>3. \A m \in Spawn : ~Got(m) BY <1>2 DEF Got, Spawn
<1>4. ~ShellFg BY <1>2 DEF ShellInv, KillOutside, ShellFg
<1> QED BY <1>1, <1>3, <1>4, FreeTalk

\* Who may talk to sys_proc and the shell.
LEMMA ShellPeers ==
    ASSUME ProgInv, ServerInv, NEW p \in Pid, NEW q \in Pid, NEW m, Exchange(p, q, m)
    PROVE  /\ q = GPID_SHELL =>
                 /\ p = GPID_PROCESS /\ PcOf(p) = "main_recv"
                 /\ PcOf(q) \in {"shell_reply", "shell_fg"}
                 /\ m \in {"CMD_OK", "CMD_ERROR", "PROC_EXIT"}
           /\ p = GPID_SHELL =>
                 /\ q = GPID_PROCESS /\ PcOf(q) = "main_got"
                 /\ \/ PcOf(p) = "shell_recv" /\ m \in Spawn /\ m = shell_cmd
                    \/ PcOf(p) = "shell_next" /\ m = "PROC_KILLALL" /\ m \in scenario.commands
           /\ p # GPID_SHELL /\ q = GPID_PROCESS => m \notin Spawn /\ m # "PROC_KILLALL"
           /\ p = GPID_PROCESS => PcOf(p) # "main_got"
<1>0. GPID_PROCESS \in Pid /\ GPID_SHELL \in Pid /\ GPID_SHELL # GPID_PROCESS
      /\ GPID_PROCESS \notin Servers /\ GPID_SHELL \notin Servers /\ 0 \notin Pid
      /\ scenario.servers \subseteq Servers
      /\ GPID_SHELL \notin {GPID_FILE, GPID_DIR, GPID_NET}
      /\ GPID_PROCESS \notin {GPID_FILE, GPID_DIR, GPID_NET}
  BY Distinct, ScenarioServers
<1>1. PICK k : k = PcOf(p) OBVIOUS
<1>2. PICK l : l = PcOf(q) OBVIOUS
<1>3. PICK s : s = calls[q].peer OBVIOUS
<1>4. /\ MaySend(k, q, m) /\ MayRecv(l, s) /\ s \in {0, p} /\ p # q
      /\ calls[p].mode = "send" /\ calls[q].mode = "recv"
  BY <1>1, <1>2, <1>3 DEF ServerInv, Script, Exchange
<1>5. /\ k \in MainLabel => p = GPID_PROCESS
      /\ k \in ShellLabel <=> p = GPID_SHELL
      /\ l \in MainLabel <=> q = GPID_PROCESS
      /\ l \in ShellLabel <=> q = GPID_SHELL
      /\ k \in AppLabel \cup {"wait_file", "wait_dir", "wait_net"} => p >= GPID_USER_START
  <2>1. k \in Role(p) /\ l \in Role(q) BY <1>1, <1>2, <1>4 DEF ServerInv, Roles
  <2>2. /\ k \in MainLabel => p = GPID_PROCESS
        /\ k \in ShellLabel => p = GPID_SHELL
        /\ l \in MainLabel => q = GPID_PROCESS
        /\ l \in ShellLabel => q = GPID_SHELL
        /\ k \in AppLabel \cup {"wait_file", "wait_dir", "wait_net"} => p >= GPID_USER_START
    BY <1>1, <1>2, Who DEF ServerInv
  <2>3. /\ Role(GPID_PROCESS) = MainLabel
        /\ Role(GPID_SHELL) = ShellLabel
    BY <1>0 DEF Role
  <2> QED BY <2>1, <2>2, <2>3
<1>6. \A x : WaitLabel(x) \in {"wait_file", "wait_dir", "wait_net"} BY DEF WaitLabel
<1>7. ASSUME q = GPID_SHELL
      PROVE  /\ p = GPID_PROCESS /\ k = "main_recv" /\ l \in {"shell_reply", "shell_fg"}
             /\ m \in {"CMD_OK", "CMD_ERROR", "PROC_EXIT"}
  <2>1. l \in ShellLabel BY <1>5, <1>7
  <2>2. l \in {"shell_reply", "shell_fg"} /\ s = GPID_PROCESS
    BY <1>4, <2>1 DEF MayRecv, ShellLabel, GotLabel
  <2>3. p = GPID_PROCESS BY <1>0, <1>4, <2>2
  <2>4. k \in MainLabel
    <3>1. k \in Role(p) BY <1>1, <1>4 DEF ServerInv, Roles
    <3> QED BY <2>3, <3>1 DEF Role
  <2>5. k = "main_recv" /\ m \in {"CMD_OK", "CMD_ERROR", "PROC_EXIT"}
    BY <1>0, <1>4, <1>6, <1>7, <2>4 DEF MaySend, MainLabel
  <2> QED BY <2>2, <2>3, <2>5
<1>8. ASSUME p = GPID_SHELL
      PROVE  /\ q = GPID_PROCESS /\ l = "main_got"
             /\ \/ k = "shell_recv" /\ m \in Spawn /\ m = shell_cmd
                \/ k = "shell_next" /\ m = "PROC_KILLALL" /\ m \in scenario.commands
  <2>1. k \in ShellLabel BY <1>5, <1>8
  <2>2. /\ q = GPID_PROCESS
        /\ \/ k = "shell_recv" /\ m \in Spawn /\ m = shell_cmd
           \/ k = "shell_next" /\ m = "PROC_KILLALL" /\ m \in scenario.commands
    BY <1>4, <1>6, <2>1 DEF MaySend, ShellLabel
  <2>3. l \in MainLabel BY <1>5, <2>2
  <2>4. s \in {0, GPID_SHELL} BY <1>4, <1>8
  <2>5. s \notin {GPID_FILE, GPID_DIR, GPID_NET} /\ s \notin scenario.servers /\ s \notin Servers
    BY <1>0, <2>4, Distinct
  <2>6. l = "main_got"
    BY <1>4, <2>3, <2>5 DEF MayRecv, MainLabel, GotLabel
  <2> QED BY <2>2, <2>6
<1>9. ASSUME p # GPID_SHELL, q = GPID_PROCESS PROVE m \notin Spawn /\ m # "PROC_KILLALL"
  <2>1. k \notin ShellLabel BY <1>5, <1>9
  <2>2. q # GPID_DIR /\ q # GPID_FILE /\ q # GPID_SHELL BY <1>0, <1>9
  <2>3. m \in {"initialized", "ok", "DIR_ERROR", "request", "PROC_SLEEP", "PROC_EXIT"}
    BY <1>4, <2>1, <2>2 DEF MaySend, ShellLabel
  <2> QED BY <2>3 DEF Spawn
<1>10. p = GPID_PROCESS => k # "main_got"
  BY <1>4, <1>6 DEF MaySend
<1> QED BY <1>1, <1>2, <1>7, <1>8, <1>9, <1>10

LEMMA ExchangeTalk ==
    ASSUME CallInv, ProgInv, ServerInv, ShellInv, UNCHANGED progVars,
           \A r \in Pid : Used(r)' <=> Used(r),
           NEW p \in Pid, NEW q \in Pid, NEW m, Exchange(p, q, m)
    PROVE  ShellInv'
<1>0. Dialogue /\ NoticeWanted /\ FgKnown /\ FgOnly /\ OneApp /\ KillOutside BY DEF ShellInv
<1>1. /\ UNCHANGED <<req, app_pid, shell_waiting, shell_cmd, scenario>>
      /\ PcOf(GPID_PROCESS)' = PcOf(GPID_PROCESS) /\ PcOf(GPID_SHELL)' = PcOf(GPID_SHELL)
  BY DEF progVars, PcOf
<1>2. /\ calls[p].mode = "send" /\ calls[p].peer = q /\ calls[p].content = m
      /\ calls[q].mode = "recv" /\ p # q
      /\ calls'[p].mode = "run"
      /\ calls'[q].mode = "run" /\ calls'[q].peer = p /\ calls'[q].content = m
      /\ \A r \in Pid : r \notin {p, q} => calls'[r] = calls[r]
  BY DEF Exchange
<1>3. GPID_PROCESS \in Pid /\ GPID_SHELL \in Pid /\ GPID_SHELL # GPID_PROCESS BY Distinct
<1>4. \A r \in GPID_USER_START .. MAX_NPROCESS : Used(r)' <=> Used(r) BY Sizes
<1>5. Live(app_pid)' <=> Live(app_pid) BY <1>1, <1>4 DEF Live
<1>6. CleanFailures(scenario)' <=> CleanFailures(scenario) BY <1>1 DEF CleanFailures
<1>7. Loading' <=> Loading BY <1>1 DEF Loading
<1>8. CASE GPID_PROCESS \notin {p, q}
  <2>1. GPID_SHELL \notin {p, q} BY <1>8, ShellPeers
  <2>2. Same(GPID_SHELL) /\ Same(GPID_PROCESS) BY <1>1, <1>2, <1>3, <1>8, <2>1 DEF Same
  <2> QED BY <1>1, <1>4, <2>2, ShellFrame
<1>9. CASE q = GPID_PROCESS
  <2>1. /\ \A x : ~Got(x) /\ ~Answering(x) /\ ~Answering(x)'
        /\ \A x : Got(x)' <=> PcOf(GPID_PROCESS) = "main_got" /\ x = m
    BY <1>1, <1>2, <1>9 DEF Got, Answering
  <2>2. /\ ShellFg' <=> ShellFg
        /\ p # GPID_SHELL => (Asked' <=> Asked)
        /\ p = GPID_SHELL => ~Asked
        /\ p = GPID_SHELL => (Asked' <=> PcOf(GPID_SHELL) = "shell_recv")
    <3>1. CASE p = GPID_SHELL
      <4>1. PcOf(GPID_SHELL) \in {"shell_recv", "shell_next"} BY <3>1, ShellPeers
      <4> QED BY <1>1, <1>2, <3>1, <4>1 DEF ShellFg, Asked
    <3>2. CASE p # GPID_SHELL
      <4>1. calls'[GPID_SHELL] = calls[GPID_SHELL] BY <1>2, <1>3, <1>9, <3>2
      <4> QED BY <1>1, <3>2, <4>1 DEF ShellFg, Asked
    <3> QED BY <3>1, <3>2
  <2>3. /\ Notice' <=> Notice
        /\ Fg' <=> Fg
    BY <1>1, <2>1, <2>2 DEF Notice, Fg
  <2>4. Dialogue' /\ KillOutside'
    <3>1. CASE p = GPID_SHELL
      <4>1. /\ PcOf(GPID_PROCESS) = "main_got"
            /\ \/ PcOf(GPID_SHELL) = "shell_recv" /\ m \in Spawn /\ m = shell_cmd
               \/ /\ PcOf(GPID_SHELL) = "shell_next" /\ m = "PROC_KILLALL"
                  /\ m \in scenario.commands
        BY <1>9, <3>1, ShellPeers
      <4>2. PcOf(GPID_PROCESS) \notin SpawnLabel BY <4>1 DEF SpawnLabel, LoadLabel
      <4>3. Spawning' <=> m \in Spawn BY <1>1, <2>1, <4>1, <4>2 DEF Spawning
      <4>4. "PROC_KILLALL" \notin Spawn BY DEF Spawn
      <4>5. Asked' <=> Spawning' BY <2>2, <3>1, <4>1, <4>3, <4>4
      <4>6. /\ \A x \in Spawn : Got(x)' => x = shell_cmd
            /\ calls'[GPID_PROCESS].peer = GPID_SHELL
        BY <1>2, <1>9, <2>1, <3>1, <4>1, <4>4
      <4>7. Dialogue' BY <1>0, <1>1, <4>2, <4>5, <4>6 DEF Dialogue
      <4>8. KillOutside' BY <1>1, <2>1, <4>1, <4>4 DEF KillOutside
      <4> QED BY <4>7, <4>8
    <3>2. CASE p # GPID_SHELL
      <4>1. m \notin Spawn /\ m # "PROC_KILLALL" BY <1>9, <3>2, ShellPeers
      <4>2. \A x \in Spawn : ~Got(x)' BY <2>1, <4>1
      <4>3. Spawning' <=> Spawning BY <1>1, <2>1, <4>2 DEF Spawning
      <4>4. Dialogue' BY <1>0, <1>1, <2>2, <3>2, <4>2, <4>3 DEF Dialogue
      <4>5. KillOutside' BY <2>1, <4>1 DEF KillOutside
      <4> QED BY <4>4, <4>5
    <3> QED BY <3>1, <3>2
  <2>5. NoticeWanted' BY <1>0, <1>5, <1>6, <2>2, <2>3 DEF NoticeWanted
  <2>6. FgKnown' BY <1>0, <1>1, <1>5, <2>1, <2>2, <2>3 DEF FgKnown
  <2>7. FgOnly' BY <1>0, <1>1, <1>5, <1>6, <1>7, <2>3 DEF FgOnly
  <2>8. OneApp' BY <1>0, <1>1, <1>4, <1>7, <2>3 DEF OneApp
  <2> QED BY <2>4, <2>5, <2>6, <2>7, <2>8 DEF ShellInv
<1>10. CASE p = GPID_PROCESS /\ q # GPID_SHELL
  <2>1. calls'[GPID_SHELL] = calls[GPID_SHELL] BY <1>2, <1>3, <1>10
  <2>2. PcOf(GPID_PROCESS) # "main_got" BY <1>10, ShellPeers
  <2>3. \A x : ~Got(x) /\ ~Got(x)' /\ ~Answering(x) /\ ~Answering(x)'
    BY <1>1, <1>2, <1>10, <2>2 DEF Got, Answering
  <2>4. /\ Asked' <=> Asked
        /\ ShellFg' <=> ShellFg
    BY <1>1, <2>1 DEF Asked, ShellFg
  <2>5. /\ Notice' <=> Notice
        /\ Fg' <=> Fg
        /\ Spawning' <=> Spawning
    BY <1>1, <2>3, <2>4 DEF Notice, Fg, Spawning
  <2>6. Dialogue' BY <1>0, <1>1, <2>3, <2>4, <2>5 DEF Dialogue
  <2>7. KillOutside' BY <2>3 DEF KillOutside
  <2>8. NoticeWanted' BY <1>0, <1>5, <1>6, <2>4, <2>5 DEF NoticeWanted
  <2>9. FgKnown' BY <1>0, <1>1, <1>5, <2>3, <2>4, <2>5 DEF FgKnown
  <2>10. FgOnly' BY <1>0, <1>1, <1>5, <1>6, <1>7, <2>5 DEF FgOnly
  <2>11. OneApp' BY <1>0, <1>1, <1>4, <1>7, <2>5 DEF OneApp
  <2> QED BY <2>6, <2>7, <2>8, <2>9, <2>10, <2>11 DEF ShellInv
<1>11. CASE p = GPID_PROCESS /\ q = GPID_SHELL
  <2>1. /\ PcOf(GPID_PROCESS) = "main_recv"
        /\ PcOf(GPID_SHELL) \in {"shell_reply", "shell_fg"}
        /\ m \in {"CMD_OK", "CMD_ERROR", "PROC_EXIT"}
    BY <1>11, ShellPeers
  <2>2. /\ \A x : ~Got(x) /\ ~Got(x)' /\ ~Answering(x)'
        /\ \A x : Answering(x) <=> x = m
    BY <1>1, <1>2, <1>11, <2>1 DEF Got, Answering
  <2>3. PcOf(GPID_PROCESS) \notin SpawnLabel /\ ~Loading
    BY <2>1 DEF SpawnLabel, LoadLabel, Loading
  <2>4. /\ ~Spawning' /\ ~Asked' /\ ~Notice'
        /\ Spawning <=> m # "PROC_EXIT"
        /\ Notice <=> m = "PROC_EXIT"
        /\ Asked <=> PcOf(GPID_SHELL) = "shell_reply"
    BY <1>1, <1>2, <1>11, <2>1, <2>2, <2>3 DEF Spawning, Asked, Notice
  <2>5. PcOf(GPID_SHELL) = "shell_reply" <=> m # "PROC_EXIT" BY <1>0, <2>4 DEF Dialogue
  <2>6. /\ ShellFg' <=> (m = "CMD_OK" /\ shell_cmd \notin Background)
        /\ ShellFg <=> m = "PROC_EXIT"
    BY <1>1, <1>2, <1>11, <2>1, <2>5 DEF ShellFg
  <2>7. /\ m # "PROC_EXIT" => (Fg' <=> Fg)
        /\ m = "PROC_EXIT" => ~Live(app_pid) /\ ~Fg'
    BY <1>0, <1>1, <2>2, <2>4, <2>6 DEF Fg, NoticeWanted
  <2>8. Dialogue' BY <1>0, <1>1, <2>2, <2>3, <2>4 DEF Dialogue
  <2>9. KillOutside' BY <2>2 DEF KillOutside
  <2>10. NoticeWanted' BY <2>4 DEF NoticeWanted
  <2>11. FgKnown'
    <3>1. ShellFg' => shell_waiting /\ Live(app_pid) BY <1>0, <2>2, <2>6 DEF FgKnown
    <3> QED BY <1>1, <1>5, <2>1, <2>2, <3>1 DEF FgKnown
  <2>12. FgOnly' BY <1>0, <1>1, <1>5, <1>6, <1>7, <2>7 DEF FgOnly
  <2>13. OneApp'
    <3>1. SUFFICES ASSUME "SPAWN &" \notin scenario.commands,
                          NEW r \in GPID_USER_START .. MAX_NPROCESS, Used(r)
                   PROVE  r = app_pid /\ Fg'
      BY <1>1, <1>4 DEF OneApp
    <3>2. r = app_pid /\ Fg BY <1>0, <2>3, <3>1 DEF OneApp
    <3>3. Live(app_pid) BY <3>1, <3>2 DEF Live
    <3> QED BY <2>7, <3>2, <3>3
  <2> QED BY <2>8, <2>9, <2>10, <2>11, <2>12, <2>13 DEF ShellInv
<1> QED BY <1>8, <1>9, <1>10, <1>11

LEMMA ExchangeLookup ==
    ASSUME ProgInv, ServerInv, Lookup, UNCHANGED progVars,
           NEW p \in Pid, NEW q \in Pid, NEW m, Exchange(p, q, m)
    PROVE  Lookup'
<1>0. /\ GPID_PROCESS \in Pid /\ GPID_DIR \in Pid /\ GPID_DIR # GPID_PROCESS
      /\ GPID_DIR \in Servers /\ GPID_DIR # 0 /\ GPID_DIR # GPID_FILE
      /\ GPID_PROCESS # GPID_FILE
  BY Distinct
<1>1. /\ UNCHANGED <<req, dir_client, dir_req>>
      /\ PcOf(GPID_PROCESS)' = PcOf(GPID_PROCESS) /\ PcOf(GPID_DIR)' = PcOf(GPID_DIR)
  BY DEF progVars, PcOf
<1>2. /\ calls[p].mode = "send" /\ calls[p].peer = q /\ calls[p].content = m
      /\ calls[q].mode = "recv" /\ calls[q].peer \in {0, p} /\ p # q
      /\ calls'[p].mode = "run" /\ calls'[p].peer = p
      /\ calls'[q].mode = "run" /\ calls'[q].peer = p /\ calls'[q].content = m
      /\ \A r \in Pid : r \notin {p, q} => calls'[r] = calls[r]
  BY DEF Exchange
<1>3. /\ Loading' <=> Loading
      /\ Looking' <=> Looking
  BY <1>1 DEF Loading, Looking
<1>4. \A x : WaitLabel(x) \in {"wait_file", "wait_dir", "wait_net"} BY DEF WaitLabel
<1>5. ASSUME p = GPID_PROCESS
      PROVE  PcOf(GPID_PROCESS) # "spawn_found" /\ (Looking => q = GPID_DIR)
  <2>1. PICK k : k = PcOf(p) OBVIOUS
  <2>2. MaySend(k, q, m) BY <1>2, <2>1 DEF ServerInv, Script
  <2>3. k # "spawn_found" BY <1>4, <2>2 DEF MaySend
  <2>4. k = "spawn_ino" => q = GPID_DIR BY <1>4, <2>2 DEF MaySend
  <2> QED BY <1>5, <2>1, <2>3, <2>4 DEF Looking
<1>6. ASSUME q = GPID_PROCESS, PcOf(GPID_PROCESS) = "spawn_found"
      PROVE  p = GPID_DIR /\ calls[q].peer = GPID_DIR
  <2>1. PICK s : s = calls[q].peer OBVIOUS
  <2>2. MayRecv("spawn_found", s) BY <1>2, <1>6, <2>1 DEF ServerInv, Script
  <2>3. s = GPID_DIR BY <2>2 DEF MayRecv, GotLabel
  <2> QED BY <1>0, <1>2, <2>1, <2>3
<1>7. CASE p = GPID_PROCESS /\ ~Looking
  <2>1. PcOf(GPID_PROCESS)' \notin {"spawn_ino", "spawn_found"} BY <1>1, <1>7 DEF Looking
  <2> QED BY <1>1, <1>3, <1>7, <2>1 DEF Lookup
<1>8. CASE p = GPID_PROCESS /\ Looking
  <2>1. q = GPID_DIR /\ PcOf(GPID_PROCESS) = "spawn_ino" BY <1>5, <1>8 DEF Looking
  <2>2. m = "lookup missing" <=> req \in Missing BY <1>2, <1>8, <2>1 DEF Lookup
  <2>3. ~Replies(GPID_DIR, GPID_PROCESS)' BY <1>2, <2>1 DEF Replies
  <2>4. calls'[GPID_PROCESS].mode = "run" /\ calls'[GPID_DIR].content = m BY <1>2, <1>8, <2>1
  <2> QED BY <1>1, <1>3, <2>1, <2>2, <2>3, <2>4 DEF Lookup
<1>9. CASE q = GPID_PROCESS /\ p # GPID_DIR
  <2>1. calls'[GPID_DIR] = calls[GPID_DIR] BY <1>0, <1>2, <1>9
  <2>2. /\ Takes(GPID_DIR, GPID_PROCESS)' <=> Takes(GPID_DIR, GPID_PROCESS)
        /\ Replies(GPID_DIR, GPID_PROCESS)' <=> Replies(GPID_DIR, GPID_PROCESS)
    BY <1>1, <2>1 DEF Takes, Replies
  <2>3. calls'[GPID_PROCESS].mode = "run" /\ PcOf(GPID_PROCESS) # "spawn_found"
    BY <1>2, <1>6, <1>9
  <2> QED BY <1>1, <1>3, <2>1, <2>2, <2>3 DEF Lookup
<1>10. CASE q = GPID_PROCESS /\ p = GPID_DIR
  <2>1. /\ calls'[GPID_PROCESS].mode = "run" /\ calls'[GPID_PROCESS].content = m
        /\ calls'[GPID_DIR].mode = "run" /\ calls'[GPID_DIR].peer = GPID_DIR
    BY <1>2, <1>10
  <2>2. ~Takes(GPID_DIR, GPID_PROCESS)' /\ ~Replies(GPID_DIR, GPID_PROCESS)'
    BY <1>0, <2>1 DEF Takes, Replies
  <2>3. ASSUME PcOf(GPID_PROCESS) = "spawn_found" PROVE m = "DIR_ERROR" <=> req \in Missing
    <3>1. Expects(GPID_PROCESS, GPID_DIR) BY <1>2, <1>6, <1>10, <2>3 DEF Expects
    <3>2. Serves(GPID_DIR, GPID_PROCESS)
      BY <1>0, <2>3, <3>1 DEF ServerInv, Served
    <3>3. PcOf(GPID_DIR) \notin DirWait
      <4>1. PICK k : k = PcOf(p) OBVIOUS
      <4>2. MaySend(k, q, m) BY <1>2, <4>1 DEF ServerInv, Script
      <4>3. k \notin {"dir_block", "dir_reply"} BY <1>0, <1>4, <1>10, <4>2 DEF MaySend
      <4> QED BY <1>10, <4>1, <4>3 DEF DirWait
    <3>4. Replies(GPID_DIR, GPID_PROCESS)
      BY <1>2, <1>10, <3>2, <3>3 DEF Serves, Takes
    <3> QED BY <1>2, <1>10, <2>3, <3>4 DEF Lookup, Looking
  <2> QED BY <1>1, <1>3, <2>1, <2>2, <2>3 DEF Lookup
<1>11. CASE GPID_PROCESS \notin {p, q}
  <2>1. calls'[GPID_PROCESS] = calls[GPID_PROCESS] BY <1>0, <1>2, <1>11
  <2>2. Takes(GPID_DIR, GPID_PROCESS)' =>
           Takes(GPID_DIR, GPID_PROCESS) /\ calls'[GPID_DIR] = calls[GPID_DIR]
    BY <1>0, <1>1, <1>2, <1>11 DEF Takes
  <2>3. Replies(GPID_DIR, GPID_PROCESS)' =>
           Replies(GPID_DIR, GPID_PROCESS) /\ calls'[GPID_DIR] = calls[GPID_DIR]
    BY <1>0, <1>1, <1>2, <1>11 DEF Replies
  <2> QED BY <1>1, <1>3, <2>1, <2>2, <2>3 DEF Lookup
<1> QED BY <1>7, <1>8, <1>9, <1>10, <1>11

\* Nothing that the invariants speak of changes.
LEMMA StillTalk ==
    ASSUME ShellInv, Lookup, calls' = calls, UNCHANGED progVars,
           \A r \in Pid : Used(r)' <=> Used(r)
    PROVE  ShellInv' /\ Lookup'
<1>1. UNCHANGED <<pc, req, app_pid, shell_waiting, shell_cmd, scenario, dir_client, dir_req>>
  BY DEF progVars
<1>2. \A p : Same(p) BY <1>1 DEF Same, PcOf
<1>3. \A p \in GPID_USER_START .. MAX_NPROCESS : Used(p)' <=> Used(p) BY Sizes
<1>4. ShellInv' BY <1>1, <1>2, <1>3, ShellFrame
<1>5. Lookup' BY <1>1, <1>2, LookupFrame
<1> QED BY <1>4, <1>5

LEMMA TrapKeepsTalk ==
    ASSUME CallInv, ProgInv, ServerInv, ShellInv, Lookup, syscall \/ timer
    PROVE  ShellInv' /\ Lookup'
<1>1. UNCHANGED progVars /\ TrapMoves BY TrapTalks
<1>2. ASSUME NEW r \in Pid PROVE Used(r)' <=> Used(r)
  BY TrapTalks DEF Used
<1>3. CASE calls' = calls BY <1>1, <1>2, <1>3, StillTalk
<1>4. CASE \E p, q \in Pid : \E m : Exchange(p, q, m)
  <2>1. PICK p \in Pid, q \in Pid : \E m : Exchange(p, q, m) BY <1>4
  <2>2. PICK m : Exchange(p, q, m) BY <2>1
  <2>3. ShellInv' BY <1>1, <1>2, <2>2, ExchangeTalk
  <2>4. Lookup' BY <1>1, <2>2, ExchangeLookup
  <2> QED BY <2>3, <2>4
<1> QED BY <1>1, <1>3, <1>4 DEF TrapMoves

LEMMA TalkStep ==
    ASSUME CallInv, ProgInv, ServerInv, ShellInv, Lookup, [EgosNext]_allVars
    PROVE  ShellInv' /\ Lookup'
<1>1. CASE MainCall BY <1>1, MainKeepsTalk, MainLookup
<1>2. CASE sys_proc
  BY <1>1, <1>2, SpawnAllocTalk, BootKeepsTalk, LoadKeepsTalk, ExitTalk, KillTalk
  DEF sys_proc, MainCall
<1>3. CASE UNCHANGED allVars
  <2>1. \A r \in Pid : Used(r)' <=> Used(r) BY <1>3, StutterTalks DEF Used
  <2> QED BY <1>3, <2>1, StutterTalks, StillTalk
<1>4. CASE sys_file \/ sys_net \/ app \/ ctrl_c BY <1>4, AsideSteps, AsideKeeps
<1> QED BY <1>2, <1>3, <1>4, DirLookup, ShellKeepsTalk, TrapKeepsTalk DEF EgosNext

LEMMA TalkInit == ASSUME EgosInit PROVE ShellInv /\ Lookup
<1>0. /\ GPID_PROCESS \in Pid /\ GPID_SHELL \in Pid /\ GPID_DIR \in Pid
      /\ GPID_SHELL # GPID_PROCESS /\ GPID_DIR # GPID_PROCESS
  BY Distinct
<1>1. \A p \in Pid : /\ PcOf(p) = IF p = GPID_PROCESS THEN "boot_alloc" ELSE NoProcess
                     /\ p # GPID_PROCESS => ~Used(p)
  <2>1. \A p \in Pid : pid2idx(p) \in Idx /\ (pid2idx(p) = 0 <=> p = GPID_PROCESS)
    BY SizeAssumption DEF Pid, Idx, pid2idx, GPID_PROCESS
  <2> QED BY <2>1 DEF EgosInit, Init, PcOf, StatusOf, Used
<1>2. /\ PcOf(GPID_PROCESS) = "boot_alloc" /\ PcOf(GPID_SHELL) = NoProcess
      /\ PcOf(GPID_DIR) = NoProcess
  BY <1>0, <1>1
<1>3. calls[GPID_PROCESS].mode # "send"
  <2>1. BootWait /\ ProgInv BY ServerInit, ProgInit DEF ServerInv
  <2> QED BY <1>2, <2>1 DEF BootWait, BootLabel
<1>4. ASSUME NEW p \in GPID_USER_START .. MAX_NPROCESS PROVE ~Used(p)
  <2>1. p \in Pid /\ p # GPID_PROCESS BY Sizes
  <2> QED BY <1>1, <2>1
<1>5. ~Asked /\ ~ShellFg /\ ~Live(app_pid)
  BY <1>2, <1>4 DEF Asked, ShellFg, Live, NoProcess
<1>6. /\ ~Spawning /\ ~Notice /\ ~Loading /\ ~Looking
      /\ \A m : ~Got(m) /\ ~Answering(m)
      /\ PcOf(GPID_PROCESS) \notin SpawnLabel
  BY <1>2, <1>3 DEF Spawning, Notice, Loading, Looking, Got, Answering, SpawnLabel, LoadLabel
<1>7. Dialogue BY <1>2, <1>5, <1>6 DEF Dialogue, NoProcess
<1>8. NoticeWanted /\ FgKnown /\ FgOnly /\ OneApp /\ KillOutside
  BY <1>2, <1>4, <1>5, <1>6 DEF NoticeWanted, FgKnown, FgOnly, OneApp, KillOutside
<1>9. Lookup BY <1>2, <1>6 DEF Lookup
<1> QED BY <1>7, <1>8, <1>9 DEF ShellInv

TalkInv == CallInv /\ ProgInv /\ ServerInv /\ ShellInv /\ Lookup

\* In every reachable state, whatever the users type, whoever is killed and
\* however many slots there are: every process is at a place of its program
\* and makes the call that the program makes there; whoever expects the
\* reply of a server is being served; servers work for system processes that
\* expect it (and for applications, if no kill comes in between); sys_proc
\* and the shell agree on the command in the foreground and on the outcome
\* of the lookup (sys_proc.c, sys_shell.c, sys_dir.c, sys_file.c).
THEOREM EgosDialogues == EgosSpec => []TalkInv
<1>1. EgosInit => TalkInv
  BY ProgInit, ServerInit, TalkInit DEF TalkInv
<1>2. TalkInv /\ [EgosNext]_allVars => TalkInv'
  <2>1. SUFFICES ASSUME CallInv, ProgInv, ServerInv, ShellInv, Lookup, [EgosNext]_allVars
                 PROVE  TalkInv'
    BY DEF TalkInv
  <2>2. CallInv' /\ ProgInv' BY <2>1, ProgStep
  <2>3. ServerInv' BY <2>1, Victims, ServerStep
  <2>4. ShellInv' /\ Lookup' BY <2>1, TalkStep
  <2> QED BY <2>2, <2>3, <2>4 DEF TalkInv
<1> QED BY <1>1, <1>2, PTL DEF EgosSpec

\* What the mode of a call says of the process table.
LEMMA ModeView ==
    ASSUME CallInv, CallsAreAccepted, NEW p \in Pid
    PROVE  /\ calls[p].mode = "run" => sc[pid2idx(p)].sender = calls[p].peer
           /\ calls[p].mode = "send" => SendingTo(p, calls[p].peer)
           /\ calls[p].mode = "recv" =>
                 \/ /\ StatusOf(p) = "PROC_WAIT_TO_RECV"
                    /\ from_sender_pid[pid2idx(p)] = calls[p].peer
                 \/ /\ sc[pid2idx(p)].type = "SYS_RECV"
                    /\ sc[pid2idx(p)].sender = calls[p].peer
           /\ StatusOf(p) = "PROC_WAIT_TO_SEND" =>
                 calls[p] = IPC!Send(to_receiver_pid[pid2idx(p)], sc[pid2idx(p)].content)
           /\ StatusOf(p) = "PROC_WAIT_TO_RECV" =>
                 calls[p] = IPC!Recv(from_sender_pid[pid2idx(p)])
           /\ StatusOf(p) \in {"PROC_UNUSED", "PROC_LOADING"} => calls[p].mode = "dead"
           /\ calls[p].mode \in {"send", "recv", "dead", "run"}
<1>1. PICK i \in Idx : i = pid2idx(p) BY PidSlots
<1>2. calls[p] = CallOf(i) /\ View(i)
  BY <1>1, CallView DEF calls, CallsAreAccepted
<1>3. status[i] \in Status /\ StatusOf(p) = status[i]
  BY <1>1 DEF CallInv, Inv, TypeOK, StatusOf
<1>4. CASE status[i] \in {"PROC_UNUSED", "PROC_LOADING"}
  <2>1. calls[p].mode = "dead" BY <1>2, <1>4 DEF View, IPC!Dead
  <2> QED BY <1>3, <1>4, <2>1
<1>5. CASE status[i] = "PROC_WAIT_TO_SEND"
  <2>1. calls[p] = IPC!Send(to_receiver_pid[i], sc[i].content) BY <1>2, <1>5 DEF View
  <2>2. calls[p].mode = "send" /\ calls[p].peer = to_receiver_pid[i] BY <2>1, Modes
  <2> QED BY <1>1, <1>3, <1>5, <2>1, <2>2 DEF SendingTo
<1>6. CASE status[i] = "PROC_WAIT_TO_RECV"
  <2>1. calls[p] = IPC!Recv(from_sender_pid[i]) BY <1>2, <1>6 DEF View
  <2>2. calls[p].mode = "recv" /\ calls[p].peer = from_sender_pid[i] BY <2>1, Modes
  <2> QED BY <1>1, <1>3, <1>6, <2>1, <2>2
<1>7. CASE status[i] \in Active
  <2>0. StatusOf(p) \notin {"PROC_WAIT_TO_SEND", "PROC_WAIT_TO_RECV", "PROC_UNUSED",
                            "PROC_LOADING"}
    BY <1>3, <1>7 DEF Active
  <2>1. CASE sc[i].type = "SYS_SEND"
    <3>1. calls[p] = IPC!Send(sc[i].receiver, sc[i].content) BY <1>2, <1>7, <2>1 DEF View
    <3>2. calls[p].mode = "send" /\ calls[p].peer = sc[i].receiver BY <3>1, Modes
    <3> QED BY <1>1, <2>0, <2>1, <3>2 DEF SendingTo
  <2>2. CASE sc[i].type = "SYS_RECV"
    <3>1. calls[p] = IPC!Recv(sc[i].sender) BY <1>2, <1>7, <2>2 DEF View
    <3>2. calls[p].mode = "recv" /\ calls[p].peer = sc[i].sender BY <3>1, Modes
    <3> QED BY <1>1, <2>0, <2>2, <3>2
  <2>3. CASE sc[i].type \notin {"SYS_SEND", "SYS_RECV"}
    <3>1. calls[p] = IPC!Run(sc[i].sender, sc[i].content) BY <1>2, <1>7, <2>3 DEF View
    <3>2. calls[p].mode = "run" /\ calls[p].peer = sc[i].sender BY <3>1, Modes
    <3> QED BY <1>1, <2>0, <3>2
  <2> QED BY <2>1, <2>2, <2>3
<1> QED BY <1>3, <1>4, <1>5, <1>6, <1>7 DEF Status, Active

\* A server at work is one in the sense of the property.
LEMMA ServesIsServing ==
    ASSUME CallInv, ProgInv, ServerInv, NEW s \in Servers, NEW p \in Pid, Serves(s, p)
    PROVE  Serving(s, p)
<1>0. s \in Pid /\ CallsAreAccepted BY Distinct DEF ProgInv
<1>1. CASE Takes(s, p)
  <2>1. Took(s, p) BY <1>0, <1>1, ModeView DEF Takes, Took
  <2>2. PcOf(s) \in TakeLabel BY <1>1 DEF Takes
  <2>3. /\ PcOf(s) = "file_got" => s = GPID_FILE
        /\ PcOf(s) = "dir_got" => s = GPID_DIR
        /\ PcOf(s) = "net_got" => s = GPID_NET
    BY <1>0, Who DEF ServerInv
  <2> QED BY <2>1, <2>2, <2>3 DEF Serving, TakeLabel
<1>2. CASE s = GPID_DIR /\ PcOf(s) \in DirWait /\ dir_client = p
  BY <1>2 DEF Serving, DirWait
<1>3. CASE Replies(s, p)
  BY <1>0, <1>3, ModeView DEF Replies, Serving
<1> QED BY <1>1, <1>2, <1>3 DEF Serves

\* During the boot: the server that sys_proc waits for is on its way to
\* report.
LEMMA BootServes ==
    ASSUME CallInv, ProgInv, ServerInv, PcOf(GPID_PROCESS) = "boot_alloc",
           NEW s \in Servers, calls[GPID_PROCESS].mode = "recv", calls[GPID_PROCESS].peer = s
    PROVE  \/ PcOf(s) = InitLabel(s) /\ calls[s].mode = "run"
           \/ calls[s] = IPC!Send(GPID_PROCESS, "initialized")
<1>1. ~Up(s) /\ ServerPhase(s)
  BY DEF ServerInv, BootWait, Awaits, ProgInv, ServersReport
<1>2. s = booting - 1 BY DEF ServerInv, BootWait, BootLabel
<1>3. s \in Pid /\ booting \in 2 .. 5 BY Distinct, Sizes DEF ProgInv, ProgTypeOK
<1>4. Used(s)
  <2>1. s < booting BY <1>2, <1>3
  <2> QED BY <1>3, <2>1 DEF ProgInv, SlotsInOrder
<1>5. StatusOf(s) # "PROC_LOADING" BY <1>3 DEF ProgInv, OneLoading, LoadLabel
<1> QED BY <1>1, <1>4, <1>5 DEF ServerPhase, Used

LEMMA WaiterServed ==
    ASSUME TalkInv, NEW p \in Pid, NEW s, calls[p].mode = "recv", calls[p].peer = s, s # 0
    PROVE  Serving(s, p)
<1>0. /\ CallInv /\ ProgInv /\ ServerInv /\ ShellInv /\ CallsAreAccepted
      /\ GPID_PROCESS \in Pid /\ GPID_PROCESS \notin Servers
  BY Distinct DEF TalkInv, ProgInv
<1>1. PICK l : l = PcOf(p) OBVIOUS
<1>2. MayRecv(l, s) BY <1>0, <1>1 DEF ServerInv, Script
<1>3. CASE l = "boot_alloc"
  <2>1. p = GPID_PROCESS BY <1>0, <1>1, <1>3, Who DEF ServerInv, MainLabel
  <2>2. s \in Servers BY <1>2, <1>3 DEF MayRecv, GotLabel
  <2>3. s \in Pid BY <2>2, Distinct
  <2>4. CASE PcOf(s) = InitLabel(s)
    BY <2>2, <2>4 DEF InitLabel, EntryOf, Serving, Servers
  <2>5. CASE calls[s] = IPC!Send(GPID_PROCESS, "initialized")
    <3>1. calls[s].mode = "send" /\ calls[s].peer = p BY <2>1, <2>5, Modes
    <3> QED BY <1>0, <2>3, <3>1, ModeView DEF Serving
  <2> QED BY <1>0, <1>1, <1>3, <2>1, <2>2, <2>4, <2>5, BootServes
<1>4. CASE s \in Servers /\ l # "boot_alloc"
  <2>1. Expects(p, s) BY DEF Expects
  <2>2. Serves(s, p) BY <1>0, <1>1, <1>4, <2>1 DEF ServerInv, Served
  <2> QED BY <1>0, <1>4, <2>2, ServesIsServing
<1>5. CASE l \in {"shell_reply", "shell_fg"} /\ s = GPID_PROCESS
  <2>1. p = GPID_SHELL BY <1>0, <1>1, <1>5, Who DEF ServerInv, ShellLabel
  <2>2. ASSUME NEW m, Answering(m) PROVE Serving(s, p)
    BY <1>0, <1>5, <2>1, <2>2, ModeView DEF Answering, Serving
  <2>3. CASE l = "shell_reply"
    <3>1. Spawning BY <1>0, <1>1, <2>1, <2>3 DEF Asked, ShellInv, Dialogue
    <3>2. ASSUME NEW m \in Spawn, Got(m) PROVE Serving(s, p)
      <4>1. calls[s].peer = p /\ calls[s].mode = "run" /\ PcOf(s) = "main_got"
        BY <1>0, <1>5, <2>1, <3>2 DEF ShellInv, Dialogue, Got
      <4>2. Took(s, p) BY <1>0, <1>5, <4>1, ModeView DEF Took
      <4> QED BY <1>5, <4>1, <4>2 DEF Serving
    <3>3. ASSUME PcOf(GPID_PROCESS) \in SpawnLabel PROVE Serving(s, p)
      BY <1>5, <3>3 DEF SpawnLabel, LoadLabel, Serving
    <3> QED BY <2>2, <3>1, <3>2, <3>3 DEF Spawning
  <2>4. CASE l = "shell_fg"
    <3>1. Live(app_pid) \/ Notice BY <1>0, <1>1, <2>1, <2>4 DEF ShellFg, ShellInv, FgKnown
    <3>2. CASE Live(app_pid) BY <1>1, <1>5, <2>4, <3>2 DEF Live, Used, Serving
    <3>3. CASE PcOf(GPID_PROCESS) = "exit_notice" BY <1>5, <3>3 DEF Serving
    <3> QED BY <2>2, <3>1, <3>2, <3>3 DEF Notice
  <2> QED BY <1>5, <2>3, <2>4
<1>6. GPID_DIR \in Servers /\ GPID_FILE \in Servers /\ scenario.servers \subseteq Servers
  BY <1>0, Distinct, ScenarioServers
<1> QED BY <1>2, <1>3, <1>4, <1>5, <1>6 DEF MayRecv

\* A process blocked in a receive from one particular process waits for
\* somebody who is there and at work on its request: the query functions of
\* the servers library (servers.c) and the shell's wait for a foreground
\* command never wait for a reply that nobody owes them.
THEOREM EgosWaitersServed == EgosSpec => []WaitersAreServed
<1>1. TalkInv => WaitersAreServed
  <2>1. SUFFICES ASSUME TalkInv, NEW i \in Idx, status[i] = "PROC_WAIT_TO_RECV",
                        from_sender_pid[i] # 0
                 PROVE  Serving(from_sender_pid[i], idx2pid(i))
    BY DEF WaitersAreServed
  <2>2. PICK p \in Pid : p = idx2pid(i) /\ pid2idx(p) = i
    BY SizeAssumption DEF Idx, Pid, idx2pid, pid2idx
  <2>3. CallInv /\ CallsAreAccepted BY <2>1 DEF TalkInv, ProgInv
  <2>4. calls[p] = IPC!Recv(from_sender_pid[i]) BY <2>1, <2>2, <2>3, ModeView DEF StatusOf
  <2>5. calls[p].mode = "recv" /\ calls[p].peer = from_sender_pid[i] BY <2>4, Modes
  <2> QED BY <2>1, <2>2, <2>5, WaiterServed
<1> QED BY <1>1, EgosDialogues, PTL

\* sys_proc sends its PROC_EXIT notice (sys_proc.c, case PROC_EXIT) only while
\* the shell waits for a foreground command.  The hypothesis is needed: a
\* foreground command that is not found leaves app_pid at an application in
\* the background, as the run stale_wait shows.
THEOREM EgosNotices == EgosSpec => [](CleanFailures(scenario) => NoticeOnlyForForeground)
<1>1. TalkInv => (CleanFailures(scenario) => NoticeOnlyForForeground)
  <2>1. SUFFICES ASSUME TalkInv, CleanFailures(scenario), PcOf(GPID_PROCESS) = "exit_notice"
                 PROVE  ShellWaitsForeground
    BY DEF NoticeOnlyForForeground
  <2>2. ShellFg BY <2>1 DEF TalkInv, ShellInv, NoticeWanted, Notice
  <2>3. CASE PcOf(GPID_SHELL) = "shell_fg" /\ calls[GPID_SHELL].mode = "recv"
    <3>1. CallInv /\ CallsAreAccepted /\ GPID_SHELL \in Pid
      BY <2>1, Distinct DEF TalkInv, ProgInv
    <3> QED BY <2>3, <3>1, ModeView DEF ShellWaitsForeground
  <2> QED BY <2>2, <2>3 DEF ShellFg, ShellWaitsForeground
<1> QED BY <1>1, EgosDialogues, PTL

\* A server that has reported and sends to a process that is not a server
\* replies to it.
LEMMA ServerSends ==
    ASSUME ProgInv, ServerInv, NEW s \in Servers, calls[s].mode = "send"
    PROVE  \/ calls[s].peer = GPID_PROCESS /\ calls[s].content = "initialized"
           \/ s = GPID_DIR /\ calls[s].peer = GPID_FILE
           \/ Replies(s, calls[s].peer)
<1>1. PICK k : k = PcOf(s) OBVIOUS
<1>2. PICK q : q = calls[s].peer OBVIOUS
<1>3. PICK m : m = calls[s].content OBVIOUS
<1>4. s \in Pid BY Distinct
<1>5. MaySend(k, q, m) BY <1>1, <1>2, <1>3, <1>4 DEF ServerInv, Script
<1>6. k \in Role(s) BY <1>1, <1>4 DEF ServerInv, Roles
<1>7. \A x : WaitLabel(x) \in {"wait_file", "wait_dir", "wait_net"} BY DEF WaitLabel
<1>8. k \in {"file_init", "file_recv", "file_got", "net_init", "net_recv", "net_got",
             "dir_init", "dir_recv", "dir_got", "dir_block", "dir_reply"}
  BY <1>6, Distinct DEF Role
<1>9. \/ q = GPID_PROCESS /\ m = "initialized"
      \/ k = "dir_block" /\ q = GPID_FILE
      \/ m \in {"ok", "DIR_ERROR"}
  BY <1>5, <1>7, <1>8 DEF MaySend
<1>10. k = "dir_block" => s = GPID_DIR BY <1>1, <1>4, Who DEF ServerInv
<1> QED BY <1>2, <1>3, <1>9, <1>10 DEF Replies

\* No process is blocked on a send to a process blocked on a receive that
\* takes it.
LEMMA NoMatch ==
    ASSUME CallInv, NEW p \in Pid, NEW q \in Pid,
           StatusOf(p) = "PROC_WAIT_TO_SEND", to_receiver_pid[pid2idx(p)] = q,
           StatusOf(q) = "PROC_WAIT_TO_RECV", from_sender_pid[pid2idx(q)] \in {0, p}
    PROVE  FALSE
<1>1. pid2idx(p) \in Idx /\ pid2idx(q) \in Idx /\ idx2pid(pid2idx(p)) = p
      /\ idx2pid(pid2idx(q)) = q
  BY PidSlots
<1> QED BY <1>1 DEF CallInv, Inv, NoMissedRendezvous, WaitsFor, StatusOf

\* A server blocked on a reply to an application has a client that is about
\* to receive it, if no application is killed between its request and the
\* reply.  The hypothesis is needed: the run orphan shows a ctrl+c there
\* that leaves the server blocked for good (sys_file.c, sys_dir.c, sys_net.c).
THEOREM EgosReplies == EgosSpec => [](CleanKills(scenario) => ReplyIsWanted)
<1>1. TalkInv => (CleanKills(scenario) => ReplyIsWanted)
  <2>1. SUFFICES ASSUME TalkInv, CleanKills(scenario), NEW s \in Servers,
                        NEW p \in GPID_USER_START .. MAX_NPROCESS,
                        StatusOf(s) = "PROC_WAIT_TO_SEND", to_receiver_pid[pid2idx(s)] = p
                 PROVE  \/ PcOf(p) = WaitLabel(s)
                        \/ sc[pid2idx(p)].type = "SYS_RECV" /\ sc[pid2idx(p)].sender = s
    BY DEF ReplyIsWanted
  <2>2. /\ CallInv /\ ProgInv /\ ServerInv /\ CallsAreAccepted /\ s \in Pid
        /\ p \in Pid /\ p # GPID_PROCESS /\ p # GPID_FILE /\ p # GPID_DIR
    BY <2>1, Distinct, Sizes DEF TalkInv, ProgInv
  <2>3. calls[s] = IPC!Send(p, sc[pid2idx(s)].content) BY <2>1, <2>2, ModeView
  <2>4. calls[s].mode = "send" /\ calls[s].peer = p BY <2>3, Modes
  <2>5. Replies(s, p) BY <2>2, <2>4, ServerSends
  <2>6. Expects(p, s) BY <2>1, <2>2, <2>5 DEF ServerInv, Wanted, Serves
  <2>7. CASE calls[p].mode = "run" /\ PcOf(p) \in AskLabel(p, s)
    BY <2>1, <2>7, AskLabels
  <2>8. CASE calls[p].mode = "recv" /\ calls[p].peer = s
    <3>1. \/ /\ StatusOf(p) = "PROC_WAIT_TO_RECV" /\ from_sender_pid[pid2idx(p)] = s
          \/ sc[pid2idx(p)].type = "SYS_RECV" /\ sc[pid2idx(p)].sender = s
      BY <2>2, <2>8, ModeView
    <3> QED BY <2>1, <2>2, <3>1, NoMatch
  <2> QED BY <2>6, <2>7, <2>8 DEF Expects
<1> QED BY <1>1, EgosDialogues, PTL

(***************************************************************************)
(* No deadlock.                                                            *)
(***************************************************************************)
\* Nobody can run.
Stuck == Schedulable(status) = {}

\* In a stuck state every call is blocked in the kernel, and no two match.
LEMMA StuckCalls ==
    ASSUME CallInv, CallsAreAccepted, Stuck
    PROVE  /\ \A p \in Pid : \/ calls[p].mode \in {"send", "recv"}
                             \/ /\ calls[p].mode = "dead"
                                /\ StatusOf(p) \in {"PROC_UNUSED", "PROC_LOADING"}
           /\ \A p, q \in Pid :
                 ~ /\ calls[p].mode = "send" /\ calls[p].peer = q
                   /\ calls[q].mode = "recv" /\ calls[q].peer \in {0, p}
<1>1. ASSUME NEW p \in Pid
      PROVE  \/ /\ StatusOf(p) \in {"PROC_UNUSED", "PROC_LOADING"} /\ calls[p].mode = "dead"
             \/ /\ StatusOf(p) = "PROC_WAIT_TO_SEND" /\ calls[p].mode = "send"
                /\ calls[p].peer = to_receiver_pid[pid2idx(p)]
             \/ /\ StatusOf(p) = "PROC_WAIT_TO_RECV" /\ calls[p].mode = "recv"
                /\ calls[p].peer = from_sender_pid[pid2idx(p)]
  <2>1. pid2idx(p) \in Idx BY PidSlots
  <2>2. StatusOf(p) \in Status BY <2>1 DEF CallInv, Inv, TypeOK, StatusOf
  <2>3. StatusOf(p) \notin {"PROC_READY", "PROC_RUNNING", "PROC_RUNNABLE"}
    BY <2>1 DEF Stuck, Schedulable, StatusOf
  <2>4. CASE StatusOf(p) = "PROC_WAIT_TO_SEND"
    <3>1. calls[p] = IPC!Send(to_receiver_pid[pid2idx(p)], sc[pid2idx(p)].content)
      BY <2>4, ModeView
    <3> QED BY <2>4, <3>1, Modes
  <2>5. CASE StatusOf(p) = "PROC_WAIT_TO_RECV"
    <3>1. calls[p] = IPC!Recv(from_sender_pid[pid2idx(p)]) BY <2>5, ModeView
    <3> QED BY <2>5, <3>1, Modes
  <2> QED BY <2>2, <2>3, <2>4, <2>5, ModeView DEF Status
<1>2. ASSUME NEW p \in Pid, NEW q \in Pid, calls[p].mode = "send", calls[p].peer = q,
             calls[q].mode = "recv", calls[q].peer \in {0, p}
      PROVE  FALSE
  BY <1>1, <1>2, NoMatch
<1> QED BY <1>1, <1>2

\* A call in mode "send" is one.
LEMMA SendIsSend ==
    ASSUME CallInv, CallsAreAccepted, NEW p \in Pid, calls[p].mode = "send"
    PROVE  calls[p] = IPC!Send(calls[p].peer, calls[p].content)
<1>1. PICK i \in Idx : i = pid2idx(p) BY PidSlots
<1>2. calls[p] = CallOf(i) /\ View(i) /\ status[i] \in Status
  BY <1>1, CallView DEF calls, CallsAreAccepted, CallInv, Inv, TypeOK
<1>3. \E q, m : calls[p] = IPC!Send(q, m)
  BY <1>2, Modes DEF View, Status, Active
<1>4. PICK q, m : calls[p] = IPC!Send(q, m) BY <1>3
<1> QED BY <1>4, Modes

\* The same of the programs.
StuckFacts ==
    /\ CallInv /\ ProgInv /\ ServerInv /\ ShellInv
    /\ CleanKills(scenario) /\ CleanFailures(scenario)
    /\ \A p \in Pid : \/ calls[p].mode \in {"send", "recv"}
                      \/ /\ calls[p].mode = "dead"
                         /\ StatusOf(p) \in {"PROC_UNUSED", "PROC_LOADING"}
    /\ \A p, q \in Pid :
          ~ /\ calls[p].mode = "send" /\ calls[p].peer = q
            /\ calls[q].mode = "recv" /\ calls[q].peer \in {0, p}

\* The boot never gets stuck.
LEMMA BootNotStuck == ASSUME StuckFacts PROVE PcOf(GPID_PROCESS) \notin BootLabel
<1>0. /\ CallInv /\ ProgInv /\ ServerInv /\ GPID_PROCESS \in Pid
      /\ \A p \in Pid : calls[p].mode # "run"
      /\ \A p, q \in Pid :
          ~ /\ calls[p].mode = "send" /\ calls[p].peer = q
            /\ calls[q].mode = "recv" /\ calls[q].peer \in {0, p}
  BY Distinct DEF StuckFacts
<1>1. SUFFICES ASSUME PcOf(GPID_PROCESS) \in BootLabel PROVE FALSE OBVIOUS
<1>2. PcOf(GPID_PROCESS) = "boot_alloc" /\ calls[GPID_PROCESS].mode = "recv"
  BY <1>0, <1>1 DEF ServerInv, BootWait
<1>3. PICK s : s = calls[GPID_PROCESS].peer OBVIOUS
<1>4. s \in Servers
  <2>1. MayRecv("boot_alloc", s) BY <1>0, <1>2, <1>3 DEF ServerInv, Script
  <2> QED BY <2>1 DEF MayRecv, GotLabel
<1>5. s \in Pid BY <1>4, Distinct
<1>6. calls[s] = IPC!Send(GPID_PROCESS, "initialized")
  BY <1>0, <1>2, <1>3, <1>4, <1>5, BootServes
<1>7. calls[s].mode = "send" /\ calls[s].peer = GPID_PROCESS BY <1>6, Modes
<1> QED BY <1>0, <1>2, <1>3, <1>5, <1>7

\* A stuck server replies to nobody: whoever it replies to waits for it.
LEMMA NoReply ==
    ASSUME StuckFacts, NEW s \in Servers, calls[s].mode = "send"
    PROVE  s = GPID_DIR /\ calls[s].peer = GPID_FILE
<1>0. /\ CallInv /\ ProgInv /\ ServerInv /\ CleanKills(scenario) /\ s \in Pid
      /\ \A p \in Pid : calls[p].mode # "run"
      /\ \A p, q \in Pid :
          ~ /\ calls[p].mode = "send" /\ calls[p].peer = q
            /\ calls[q].mode = "recv" /\ calls[q].peer \in {0, p}
  BY Distinct DEF StuckFacts
<1>1. Up(s) BY <1>0, BootNotStuck DEF ProgInv, ServersReport
<1>2. CASE calls[s].peer = GPID_PROCESS /\ calls[s].content = "initialized"
  <2>1. calls[s] = IPC!Send(calls[s].peer, calls[s].content)
    BY <1>0, SendIsSend DEF ProgInv
  <2> QED BY <1>1, <1>2, <2>1 DEF Up
<1>3. CASE Replies(s, calls[s].peer)
  <2>1. PICK q : q = calls[s].peer OBVIOUS
  <2>2. q \in Pid BY <1>0, <2>1 DEF ProgInv, Offers, Known
  <2>3. Expects(q, s) BY <1>0, <1>3, <2>1, <2>2 DEF ServerInv, Wanted, Serves
  <2>4. calls[q].mode = "recv" /\ calls[q].peer = s BY <1>0, <2>2, <2>3 DEF Expects
  <2> QED BY <1>0, <2>1, <2>2, <2>4
<1> QED BY <1>0, <1>2, <1>3, ServerSends

\* All servers are at the top of their loops.
LEMMA ServersIdle ==
    ASSUME StuckFacts, NEW s \in Servers
    PROVE  calls[s].mode = "recv" /\ calls[s].peer = 0 /\ PcOf(s) \in TakeLabel
<1>0. /\ CallInv /\ ProgInv /\ ServerInv /\ Servers \subseteq Pid
      /\ \A p \in Pid : \/ calls[p].mode \in {"send", "recv"}
                        \/ StatusOf(p) \in {"PROC_UNUSED", "PROC_LOADING"}
      /\ \A p, q \in Pid :
          ~ /\ calls[p].mode = "send" /\ calls[p].peer = q
            /\ calls[q].mode = "recv" /\ calls[q].peer \in {0, p}
  BY Distinct DEF StuckFacts
<1>1. \A t \in Servers : calls[t].mode \in {"send", "recv"}
  <2>1. \A t \in Servers : Up(t) BY <1>0, BootNotStuck DEF ProgInv, ServersReport
  <2> QED BY <1>0, <2>1 DEF Up
<1>2. /\ GPID_FILE \in Servers /\ GPID_DIR \in Servers /\ GPID_FILE # GPID_DIR
      /\ GPID_DIR # GPID_PROCESS
  BY Distinct
<1>3. /\ calls[GPID_FILE].mode = "recv" /\ calls[GPID_FILE].peer = 0
      /\ PcOf(GPID_FILE) \in TakeLabel
  <2>1. calls[GPID_FILE].mode = "recv" BY <1>1, <1>2, NoReply
  <2> QED BY <1>0, <1>2, <2>1, Receiving
<1>4. calls[s].mode = "recv"
  <2>1. SUFFICES ASSUME calls[s].mode = "send" PROVE FALSE BY <1>1
  <2>2. s = GPID_DIR /\ calls[s].peer = GPID_FILE BY <2>1, NoReply
  <2> QED BY <1>0, <1>2, <1>3, <2>1, <2>2
<1>5. PcOf(s) \in TakeLabel
  <2>1. SUFFICES ASSUME PcOf(s) \notin TakeLabel PROVE FALSE OBVIOUS
  <2>2. s = GPID_DIR /\ calls[s].peer = GPID_FILE BY <1>0, <1>4, <2>1, Receiving
  <2>3. Expects(GPID_DIR, GPID_FILE) BY <1>4, <2>2 DEF Expects
  <2>4. Serves(GPID_FILE, GPID_DIR) BY <1>0, <1>2, <2>3 DEF ServerInv, Served
  <2> QED BY <1>2, <1>3, <2>4 DEF Serves, Takes, Replies
<1> QED BY <1>0, <1>4, <1>5, Receiving

\* So nobody waits for a server, or sends to one.
LEMMA NobodyAsks ==
    ASSUME StuckFacts, NEW p \in Pid, NEW s \in Servers
    PROVE  /\ ~(calls[p].mode = "recv" /\ calls[p].peer = s)
           /\ ~(calls[p].mode = "send" /\ calls[p].peer = s)
<1>0. ServerInv /\ s \in Pid BY Distinct DEF StuckFacts
<1>1. calls[s].mode = "recv" /\ calls[s].peer = 0 /\ PcOf(s) \in TakeLabel BY ServersIdle
<1>2. ~(calls[p].mode = "send" /\ calls[p].peer = s) BY <1>0, <1>1 DEF StuckFacts
<1>3. ASSUME calls[p].mode = "recv", calls[p].peer = s PROVE FALSE
  <2>1. Expects(p, s) BY <1>3 DEF Expects
  <2>2. ~(p = GPID_PROCESS /\ PcOf(p) = "boot_alloc") BY BootNotStuck DEF BootLabel
  <2>3. Serves(s, p) BY <1>0, <2>1, <2>2 DEF ServerInv, Served
  <2>4. PcOf(s) \notin DirWait BY <1>1 DEF TakeLabel, DirWait
  <2> QED BY <1>1, <2>3, <2>4 DEF Serves, Takes, Replies
<1> QED BY <1>2, <1>3

\* sys_proc is at the top of its loop as well.
LEMMA MainIdle ==
    ASSUME StuckFacts
    PROVE  /\ PcOf(GPID_PROCESS) = "main_got"
           /\ calls[GPID_PROCESS].mode = "recv" /\ calls[GPID_PROCESS].peer = 0
<1>0. /\ ProgInv /\ ServerInv /\ ShellInv /\ CleanFailures(scenario)
      /\ GPID_PROCESS \in Pid /\ GPID_SHELL \in Pid
      /\ {GPID_FILE, GPID_DIR} \subseteq Servers /\ scenario.servers \subseteq Servers
      /\ GPID_SHELL \notin {GPID_FILE, GPID_DIR, GPID_NET, GPID_PROCESS}
      /\ GPID_PROCESS \notin Servers
      /\ \A p \in Pid : calls[p].mode # "run"
      /\ \A p, q \in Pid :
          ~ /\ calls[p].mode = "send" /\ calls[p].peer = q
            /\ calls[q].mode = "recv" /\ calls[q].peer \in {0, p}
  BY Distinct, ScenarioServers DEF StuckFacts
<1>1. PICK l : l = PcOf(GPID_PROCESS) OBVIOUS
<1>2. PICK q : q = calls[GPID_PROCESS].peer OBVIOUS
<1>3. PICK m : m = calls[GPID_PROCESS].content OBVIOUS
<1>4. calls[GPID_PROCESS].mode # "dead"
  <2>1. SUFFICES ASSUME calls[GPID_PROCESS].mode = "dead" PROVE FALSE OBVIOUS
  <2>2. PcOf(GPID_PROCESS) = NoProcess BY <1>0, <2>1 DEF ServerInv, Roles
  <2>3. Used(GPID_PROCESS)
    <3>1. GPID_PROCESS \in GPID_PROCESS .. GPID_SHELL BY Sizes
    <3> QED BY <1>0, <3>1, BootNotStuck DEF ProgInv, SlotsInOrder
  <2>4. StatusOf(GPID_PROCESS) # "PROC_LOADING"
    BY <1>0, <2>2 DEF ProgInv, OneLoading, LoadLabel, NoProcess
  <2> QED BY <1>0, <2>1, <2>3, <2>4 DEF StuckFacts, Used
<1>5. l \in MainLabel /\ l \notin BootLabel
  BY <1>0, <1>1, <1>4, BootNotStuck DEF ServerInv, Roles, Role
<1>6. \A x : WaitLabel(x) \in {"wait_file", "wait_dir", "wait_net"} BY DEF WaitLabel
<1>7. calls[GPID_PROCESS].mode # "send"
  <2>1. SUFFICES ASSUME calls[GPID_PROCESS].mode = "send" PROVE FALSE OBVIOUS
  <2>2. MaySend(l, q, m) BY <1>0, <1>1, <1>2, <1>3, <2>1 DEF ServerInv, Script
  <2>3. q \notin Servers BY <1>0, <1>2, <2>1, NobodyAsks
  <2>4. q = GPID_SHELL /\ m \in {"CMD_OK", "CMD_ERROR", "PROC_EXIT"}
    BY <1>0, <1>5, <1>6, <2>2, <2>3 DEF MaySend, MainLabel
  <2>5. Answering(m) BY <1>2, <1>3, <2>1, <2>4 DEF Answering
  <2>6. PcOf(GPID_SHELL) \in {"shell_reply", "shell_fg"} /\ calls[GPID_SHELL].mode = "recv"
    <3>1. CASE m # "PROC_EXIT"
      <4>1. Asked BY <1>0, <2>4, <2>5, <3>1 DEF Spawning, ShellInv, Dialogue
      <4> QED BY <1>0, <4>1 DEF Asked
    <3>2. CASE m = "PROC_EXIT"
      <4>1. ShellFg BY <1>0, <2>5, <3>2 DEF Notice, ShellInv, NoticeWanted
      <4> QED BY <1>0, <4>1 DEF ShellFg
    <3> QED BY <3>1, <3>2
  <2>7. calls[GPID_SHELL].peer = GPID_PROCESS
    <3>1. PICK s : s = calls[GPID_SHELL].peer OBVIOUS
    <3>2. PICK k : k = PcOf(GPID_SHELL) OBVIOUS
    <3>3. MayRecv(k, s) BY <1>0, <2>6, <3>1, <3>2 DEF ServerInv, Script
    <3>4. k \in {"shell_reply", "shell_fg"} BY <2>6, <3>2
    <3> QED BY <3>1, <3>3, <3>4 DEF MayRecv, GotLabel
  <2> QED BY <1>0, <1>2, <2>1, <2>4, <2>6, <2>7
<1>8. calls[GPID_PROCESS].mode = "recv" BY <1>0, <1>4, <1>7 DEF StuckFacts
<1>9. MayRecv(l, q) BY <1>0, <1>1, <1>2, <1>8 DEF ServerInv, Script
<1>10. q \notin Servers BY <1>0, <1>2, <1>8, NobodyAsks
<1>11. l = "main_got" /\ q = 0
  BY <1>0, <1>5, <1>9, <1>10 DEF MayRecv, MainLabel, BootLabel, GotLabel
<1> QED BY <1>1, <1>2, <1>8, <1>11

\* There is always a process that can run: the waits of sys_proc, the
\* servers, the shell and the applications for each other never close into a
\* cycle.
LEMMA NoDeadlock ==
    ASSUME TalkInv, CleanKills(scenario), CleanFailures(scenario)
    PROVE  Schedulable(status) # {}
<1>0. SUFFICES ASSUME Stuck PROVE FALSE BY DEF Stuck
<1>1. CallInv /\ ProgInv /\ ServerInv /\ ShellInv /\ CallsAreAccepted
  BY DEF TalkInv, ProgInv
<1>2. StuckFacts BY <1>0, <1>1, StuckCalls DEF StuckFacts
<1>3. /\ PcOf(GPID_PROCESS) = "main_got"
      /\ calls[GPID_PROCESS].mode = "recv" /\ calls[GPID_PROCESS].peer = 0
  BY <1>2, MainIdle
<1>4. GPID_PROCESS \in Pid /\ GPID_SHELL \in Pid /\ scenario.servers \subseteq Servers
      /\ GPID_FILE \in Servers /\ GPID_DIR \in Servers
  BY <1>1, Distinct, ScenarioServers
<1>5. \A p \in Pid : StatusOf(p) # "PROC_LOADING"
  BY <1>1, <1>3 DEF ProgInv, OneLoading, LoadLabel
<1>6. ASSUME NEW p \in Pid, Used(p), p >= GPID_SHELL
      PROVE  calls[p].mode = "recv" /\ calls[p].peer = GPID_PROCESS
  <2>1. calls[p].mode \in {"send", "recv"} BY <1>2, <1>5, <1>6 DEF StuckFacts, Used
  <2>2. PICK l : l = PcOf(p) OBVIOUS
  <2>3. PICK q : q = calls[p].peer OBVIOUS
  <2>4. PICK m : m = calls[p].content OBVIOUS
  <2>5. q \notin Servers BY <1>2, <2>1, <2>3, NobodyAsks
  <2>6. l \in ShellLabel \cup AppLabel \cup {"wait_file", "wait_dir", "wait_net"}
    <3>1. l \in Role(p) BY <1>1, <2>1, <2>2 DEF ServerInv, Roles
    <3>2. p \notin {GPID_PROCESS, GPID_FILE, GPID_DIR, GPID_NET} BY <1>6, Sizes
    <3> QED BY <3>1, <3>2 DEF Role, WaitLabel
  <2>7. ASSUME calls[p].mode = "send" PROVE FALSE
    <3>1. MaySend(l, q, m) BY <1>1, <2>2, <2>3, <2>4, <2>7 DEF ServerInv, Script
    <3>2. q = GPID_PROCESS
      BY <1>4, <2>5, <2>6, <3>1 DEF MaySend, ShellLabel, AppLabel
    <3> QED BY <1>2, <1>3, <1>4, <2>3, <2>7, <3>2 DEF StuckFacts
  <2>8. calls[p].mode = "recv" BY <2>1, <2>7
  <2>9. MayRecv(l, q) BY <1>1, <2>2, <2>3, <2>8 DEF ServerInv, Script
  <2>10. q = GPID_PROCESS
    BY <1>4, <2>5, <2>6, <2>9 DEF MayRecv, ShellLabel, AppLabel, GotLabel
  <2> QED BY <2>3, <2>8, <2>10
<1>7. ASSUME NEW p \in GPID_USER_START .. MAX_NPROCESS, Used(p) PROVE FALSE
  <2>1. p \in Pid /\ p >= GPID_SHELL /\ p # GPID_SHELL BY Sizes
  <2>2. calls[p].mode = "recv" /\ calls[p].peer = GPID_PROCESS BY <1>6, <1>7, <2>1
  <2>3. PICK l : l = PcOf(p) OBVIOUS
  <2>4. MayRecv(l, GPID_PROCESS) BY <1>1, <2>1, <2>2, <2>3 DEF ServerInv, Script
  <2>5. GPID_PROCESS \notin Servers /\ GPID_PROCESS # 0 BY Distinct
  <2>6. l \in {"shell_reply", "shell_fg"} BY <1>4, <2>4, <2>5 DEF MayRecv
  <2> QED BY <1>1, <2>1, <2>3, <2>6, Who DEF ServerInv, ShellLabel
<1>8. calls[GPID_SHELL].mode = "recv" /\ calls[GPID_SHELL].peer = GPID_PROCESS
  <2>1. Used(GPID_SHELL)
    <3>1. GPID_SHELL \in GPID_PROCESS .. GPID_SHELL BY Sizes
    <3> QED BY <1>1, <1>2, <3>1, BootNotStuck DEF ProgInv, SlotsInOrder
  <2> QED BY <1>4, <1>6, <2>1, Sizes
<1>9. PcOf(GPID_SHELL) \in {"shell_reply", "shell_fg"}
  <2>1. PICK l : l = PcOf(GPID_SHELL) OBVIOUS
  <2>2. MayRecv(l, GPID_PROCESS) BY <1>1, <1>4, <1>8, <2>1 DEF ServerInv, Script
  <2>3. GPID_PROCESS \notin Servers /\ GPID_PROCESS # 0 BY Distinct
  <2> QED BY <1>4, <2>1, <2>2, <2>3 DEF MayRecv
<1>10. CASE PcOf(GPID_SHELL) = "shell_reply"
  <2>1. Spawning BY <1>1, <1>8, <1>10 DEF Asked, ShellInv, Dialogue
  <2> QED BY <1>3, <2>1 DEF Spawning, Got, Answering, SpawnLabel, LoadLabel
<1>11. CASE PcOf(GPID_SHELL) = "shell_fg"
  <2>1. Live(app_pid) \/ Notice BY <1>1, <1>8, <1>11 DEF ShellFg, ShellInv, FgKnown
  <2>2. ~Live(app_pid) BY <1>7 DEF Live
  <2> QED BY <1>3, <2>1, <2>2 DEF Notice, Answering
<1> QED BY <1>9, <1>10, <1>11

\* The machine stops in proc_yield only when nobody can run.
StopsStuck == fatal = "proc_yield: no runnable process" => Stuck

LEMMA StopsStuckStep == ASSUME StopsStuck, [Next]_vars PROVE StopsStuck'
<1>1. CASE UNCHANGED vars BY <1>1 DEF vars, StopsStuck, Stuck, Schedulable
<1>2. ASSUME NEW st, fatal = "none", proc_yield(st) PROVE StopsStuck'
  <2>1. CASE Schedulable(st) = {} /\ status' = st
    BY <2>1 DEF StopsStuck, Stuck, Schedulable
  <2>2. CASE fatal' = fatal BY <1>2, <2>2 DEF StopsStuck
  <2> QED BY <1>2, <2>1, <2>2 DEF proc_yield
<1>3. CASE intr_timer
  <2>1. fatal = "none" /\ (UNCHANGED fatal \/ proc_yield(status)) BY <1>3 DEF intr_timer
  <2> QED BY <1>2, <2>1 DEF StopsStuck
<1>4. CASE intr_soft
  <2>1. /\ fatal = "none"
        /\ \/ fatal' = "proc_send: no such receiver"
           \/ \E st : proc_yield(st)
    BY <1>4, Zenon DEF intr_soft, proc_syscall, proc_recv, proc_send
  <2> QED BY <1>2, <2>1 DEF StopsStuck
<1>5. CASE intr_ctrl_c BY <1>5 DEF intr_ctrl_c, StopsStuck
<1>6. CASE SyscallStep
  BY <1>6 DEF SyscallStep, sys_yield, sys_send, sys_recv, sys_exit, sys_invoke, InUserSpace,
              StopsStuck
<1>7. CASE ManageStep
  BY <1>7 DEF ManageStep, proc_alloc, elf_load, proc_set_ready, proc_free, proc_free_all,
              InSysProc, InUserSpace, StopsStuck
<1> QED BY <1>1, <1>3, <1>4, <1>5, <1>6, <1>7 DEF Next, Trap

\* The system never deadlocks and no assertion of the kernel fails: whenever
\* proc_yield scans the table (scheduler.c) it finds a process to
\* run.  The two hypotheses exclude the scenarios of the findings:
\* a kill between a request and its reply, and a failed foreground command
\* while an application runs in the background.
THEOREM EgosStaysUp ==
    EgosSpec => [](CleanKills(scenario) /\ CleanFailures(scenario) => SystemStaysUp)
<1>1. EgosSpec => []StopsStuck
  <2>1. Init => StopsStuck BY DEF Init, StopsStuck
  <2> QED BY <2>1, StopsStuckStep, EgosUsesKernel, PTL DEF Spec
<1>2. TalkInv /\ StopsStuck => (CleanKills(scenario) /\ CleanFailures(scenario) => SystemStaysUp)
  <2>1. SUFFICES ASSUME TalkInv, StopsStuck, CleanKills(scenario), CleanFailures(scenario)
                 PROVE  SystemStaysUp
    OBVIOUS
  <2>2. fatal # "proc_yield: no runnable process"
    BY <2>1, NoDeadlock DEF StopsStuck, Stuck
  <2>3. fatal \in Fatal /\ CallsAreAccepted
    BY <2>1 DEF TalkInv, CallInv, Inv, TypeOK, ProgInv
  <2> QED BY <2>2, <2>3 DEF SystemStaysUp, Fatal, CallsAreAccepted
<1> QED BY <1>1, <1>2, EgosDialogues, PTL

\* A process blocked in a receive still names the sender it waits for in its
\* system call structure.
KeepsSender ==
    \A i \in Idx : status[i] = "PROC_WAIT_TO_RECV" => sc[i].sender = from_sender_pid[i]

LEMMA KeepsSenderYield ==
    ASSUME TypeOK, fatal = "none", NEW st \in [Idx -> Status],
           \A i \in Idx : st[i] = "PROC_RUNNING" => i = proc_curr_idx, proc_yield(st),
           \A i \in Idx : st[i] = "PROC_WAIT_TO_RECV" => sc'[i].sender = from_sender_pid'[i]
    PROVE  KeepsSender'
<1>1. \A i \in Idx, s \in Parked : status'[i] = s <=> st[i] = s BY YieldFacts
<1> QED BY <1>1 DEF KeepsSender, Parked, Waiting

LEMMA KeepsSenderSoft == ASSUME Inv, KeepsSender, intr_soft PROVE KeepsSender'
<1>0. PICK c \in Idx : c = proc_curr_idx BY DEF Inv, TypeOK
<1>1. /\ TypeOK /\ SlotPid /\ OnlyCurrentRuns /\ fatal = "none" /\ msip
      /\ status \in [Idx -> Status] /\ from_sender_pid \in [Idx -> 0 .. MAX_NPROCESS]
      /\ sc \in [Idx -> Syscall]
  BY DEF Inv, TypeOK, intr_soft
<1>2. /\ status[c] = "PROC_RUNNING"
      /\ ScTaken \in [Idx -> Syscall] /\ ScSigned \in [Idx -> Syscall]
      /\ \A i \in Idx : i # c => ScTaken[i] = sc[i] /\ ScSigned[i] = sc[i]
      /\ \A i \in Idx : status[i] = "PROC_RUNNING" => i = c
  BY <1>0, <1>1, ScFacts DEF OnlyCurrentRuns
<1>3. ScTaken[c].sender = sc[c].sender BY <1>0, <1>1 DEF ScTaken, Syscall
<1>4. ASSUME NEW w \in Waiting, NEW st, st = [status EXCEPT ![c] = w]
      PROVE  /\ st \in [Idx -> Status] /\ st[c] = w
             /\ \A i \in Idx : i # c => st[i] = status[i]
             /\ \A i \in Idx : st[i] = "PROC_RUNNING" => i = c
  BY <1>1, <1>2, <1>4 DEF Waiting, Status
<1>5. ASSUME NEW r \in Idx, r # c, NEW st, st = [status EXCEPT ![r] = "PROC_RUNNABLE"]
      PROVE  /\ st \in [Idx -> Status] /\ st[r] = "PROC_RUNNABLE"
             /\ \A i \in Idx : i # r => st[i] = status[i]
             /\ \A i \in Idx : st[i] = "PROC_RUNNING" => i = c
  BY <1>1, <1>2, <1>5 DEF Status
<1>6. CASE sc[c].type = "SYS_SEND" /\ proc_send /\ UNCHANGED from_sender_pid
  <2>1. PICK r : r = pid2idx(sc[c].receiver) OBVIOUS
  <2>2. r \in Idx
    BY <1>0, <1>1, <1>6, <2>1, PidSlots DEF Inv, SyscallPending, WellFormed
  <2>3. CASE sc' = ScSigned /\ UNCHANGED status
    BY <1>2, <1>6, <2>3 DEF KeepsSender
  <2>4. CASE sc' = ScSigned /\ proc_yield([status EXCEPT ![c] = "PROC_WAIT_TO_SEND"])
    <3>1. PICK st : st = [status EXCEPT ![c] = "PROC_WAIT_TO_SEND"] OBVIOUS
    <3>2. /\ st \in [Idx -> Status] /\ st[c] = "PROC_WAIT_TO_SEND"
          /\ \A i \in Idx : i # c => st[i] = status[i]
          /\ \A i \in Idx : st[i] = "PROC_RUNNING" => i = c
      BY <1>4, <3>1 DEF Waiting
    <3>3. proc_yield(st) BY <2>4, <3>1
    <3>4. \A i \in Idx : st[i] = "PROC_WAIT_TO_RECV" => sc'[i].sender = from_sender_pid'[i]
      BY <1>2, <1>6, <2>4, <3>2 DEF KeepsSender
    <3> QED BY <1>0, <1>1, <3>2, <3>3, <3>4, KeepsSenderYield
  <2>5. CASE /\ WaitsFor(r, curr_pid) /\ sc' = msgcpy(ScSigned, c, r)
             /\ proc_yield([status EXCEPT ![r] = "PROC_RUNNABLE"])
    <3>0. r # c BY <1>2, <2>5 DEF WaitsFor
    <3>1. PICK st : st = [status EXCEPT ![r] = "PROC_RUNNABLE"] OBVIOUS
    <3>2. /\ st \in [Idx -> Status] /\ st[r] = "PROC_RUNNABLE"
          /\ \A i \in Idx : i # r => st[i] = status[i]
          /\ \A i \in Idx : st[i] = "PROC_RUNNING" => i = c
      BY <1>5, <2>2, <3>0, <3>1
    <3>3. proc_yield(st) BY <2>5, <3>1
    <3>4. \A i \in Idx : i # r => sc'[i] = ScSigned[i] BY <1>2, <2>2, <2>5, MsgcpyFacts
    <3>5. \A i \in Idx : st[i] = "PROC_WAIT_TO_RECV" => sc'[i].sender = from_sender_pid'[i]
      BY <1>2, <1>6, <3>2, <3>4 DEF KeepsSender
    <3> QED BY <1>0, <1>1, <3>2, <3>3, <3>5, KeepsSenderYield
  <2> QED BY <1>0, <1>6, <2>1, <2>3, <2>4, <2>5 DEF proc_send
<1>7. CASE sc[c].type = "SYS_RECV" /\ proc_recv
  <2>1. /\ from_sender_pid'[c] = sc[c].sender
        /\ \A i \in Idx : i # c => from_sender_pid'[i] = from_sender_pid[i]
    <3>1. from_sender_pid' = [from_sender_pid EXCEPT ![c] = sc[c].sender]
      BY <1>0, <1>7 DEF proc_recv
    <3> QED BY <1>1, <3>1
  <2>2. CASE sc' = ScTaken /\ proc_yield([status EXCEPT ![c] = "PROC_WAIT_TO_RECV"])
    <3>1. PICK st : st = [status EXCEPT ![c] = "PROC_WAIT_TO_RECV"] OBVIOUS
    <3>2. /\ st \in [Idx -> Status] /\ st[c] = "PROC_WAIT_TO_RECV"
          /\ \A i \in Idx : i # c => st[i] = status[i]
          /\ \A i \in Idx : st[i] = "PROC_RUNNING" => i = c
      BY <1>4, <3>1 DEF Waiting
    <3>3. proc_yield(st) BY <2>2, <3>1
    <3>4. \A i \in Idx : st[i] = "PROC_WAIT_TO_RECV" => sc'[i].sender = from_sender_pid'[i]
      BY <1>2, <1>3, <2>1, <2>2, <3>2 DEF KeepsSender
    <3> QED BY <1>0, <1>1, <3>2, <3>3, <3>4, KeepsSenderYield
  <2>3. ASSUME NEW s \in Senders(sc[c].sender), sc' = msgcpy(ScTaken, s, c),
               proc_yield([status EXCEPT ![s] = "PROC_RUNNABLE"])
        PROVE  KeepsSender'
    <3>0. s \in Idx /\ s # c BY <1>2, <2>3 DEF Senders
    <3>1. PICK st : st = [status EXCEPT ![s] = "PROC_RUNNABLE"] OBVIOUS
    <3>2. /\ st \in [Idx -> Status] /\ st[s] = "PROC_RUNNABLE"
          /\ \A i \in Idx : i # s => st[i] = status[i]
          /\ \A i \in Idx : st[i] = "PROC_RUNNING" => i = c
      BY <1>5, <3>0, <3>1, ZenonT(60)
    <3>3. proc_yield(st) BY <2>3, <3>1
    <3>4. \A i \in Idx : i # c => sc'[i] = ScTaken[i] BY <1>2, <2>3, <3>0, MsgcpyFacts
    <3>5. \A i \in Idx : st[i] = "PROC_WAIT_TO_RECV" => sc'[i].sender = from_sender_pid'[i]
      BY <1>2, <2>1, <3>2, <3>4 DEF KeepsSender
    <3> QED BY <1>0, <1>1, <3>2, <3>3, <3>5, KeepsSenderYield
  <2> QED BY <1>0, <1>7, <2>2, <2>3 DEF proc_recv
<1>8. CASE sc' = ScTaken /\ proc_yield(status) /\ UNCHANGED from_sender_pid
  <2>1. \A i \in Idx : status[i] = "PROC_WAIT_TO_RECV" => sc'[i].sender = from_sender_pid'[i]
    BY <1>2, <1>8 DEF KeepsSender
  <2> QED BY <1>0, <1>1, <1>2, <1>8, <2>1, KeepsSenderYield
<1> QED BY <1>0, <1>6, <1>7, <1>8 DEF intr_soft, proc_syscall

LEMMA KeepsSenderStep == ASSUME Inv, KeepsSender, [Next]_vars PROVE KeepsSender'
<1>1. CASE UNCHANGED vars BY <1>1 DEF vars, KeepsSender
<1>2. TypeOK /\ OnlyCurrentRuns BY DEF Inv
<1>3. CASE intr_timer
  <2>1. CASE UNCHANGED status BY <1>3, <2>1 DEF intr_timer, KeepsSender
  <2>2. CASE proc_yield(status)
    <3>1. fatal = "none" /\ status \in [Idx -> Status] BY <1>2, <1>3 DEF intr_timer, TypeOK
    <3>2. \A i \in Idx : status[i] = "PROC_RUNNING" => i = proc_curr_idx
      BY <1>2, <3>1 DEF OnlyCurrentRuns
    <3>3. \A i \in Idx : status[i] = "PROC_WAIT_TO_RECV" => sc'[i].sender = from_sender_pid'[i]
      BY <1>3 DEF intr_timer, KeepsSender
    <3> QED BY <1>2, <2>2, <3>1, <3>2, <3>3, KeepsSenderYield
  <2> QED BY <1>3, <2>1, <2>2 DEF intr_timer
<1>4. CASE intr_soft BY <1>4, KeepsSenderSoft
<1>5. CASE intr_ctrl_c BY <1>5 DEF intr_ctrl_c, KeepsSender
<1>6. CASE SyscallStep
  <2>1. /\ fatal = "none" /\ UNCHANGED <<status, from_sender_pid>>
        /\ \/ UNCHANGED sc
           \/ \E call : sc' = [sc EXCEPT ![proc_curr_idx] = call]
    BY <1>6 DEF SyscallStep, sys_yield, sys_send, sys_recv, sys_exit, sys_invoke, InUserSpace
  <2>2. \A i \in Idx : status[i] = "PROC_WAIT_TO_RECV" => sc'[i] = sc[i]
    BY <1>2, <2>1 DEF OnlyCurrentRuns, TypeOK
  <2> QED BY <2>1, <2>2 DEF KeepsSender
<1>7. CASE ManageStep
  <2>1. /\ UNCHANGED from_sender_pid
        /\ \A i \in Idx : status'[i] = "PROC_WAIT_TO_RECV" =>
              status[i] = "PROC_WAIT_TO_RECV" /\ sc'[i] = sc[i]
    <3>1. CASE proc_alloc \/ proc_free_all
      BY <1>2, <3>1 DEF proc_alloc, proc_free_all, TypeOK
    <3>2. CASE \E p \in Pid : proc_set_ready(p)
      BY <1>2, <3>2 DEF proc_set_ready, TypeOK
    <3>3. CASE \E p \in Pid : elf_load(p)
      BY <1>2, <3>3 DEF elf_load, TypeOK
    <3>4. CASE \E p \in GPID_USER_START .. MAX_NPROCESS : proc_free(p)
      BY <1>2, <3>4 DEF proc_free, TypeOK
    <3> QED BY <1>7, <3>1, <3>2, <3>3, <3>4 DEF ManageStep
  <2> QED BY <2>1 DEF KeepsSender
<1> QED BY <1>1, <1>3, <1>4, <1>5, <1>6, <1>7 DEF Next, Trap

-----------------------------------------------------------------------------
(***************************************************************************)
(* sys_sleep: the application that yields after PROC_SLEEP does not get    *)
(* the CPU back before sys_proc, which sits in slot 0, has had it.         *)
(***************************************************************************)
\* sys_proc has received the PROC_SLEEP of p, and not looked at it.
Owes(p) ==
    /\ PcOf(GPID_PROCESS) = "main_got" /\ calls[GPID_PROCESS].mode = "run"
    /\ calls[GPID_PROCESS].peer = p /\ calls[GPID_PROCESS].content = "PROC_SLEEP"

\* sys_proc gives the CPU away only in a send or a receive.
MainYields == proc_curr_idx = 0 /\ msip => sc[0].type # "SYS_YIELD"

\* While sys_proc owes p the handling of its PROC_SLEEP, and p has called
\* sys_yield, the scan of proc_yield is between the slot of p and slot 0.
SleepTurn ==
    \A p \in GPID_USER_START .. MAX_NPROCESS :
       fatal = "none" /\ Owes(p) /\ PcOf(p) = "slept" =>
          \/ proc_curr_idx = 0
          \/ proc_curr_idx > pid2idx(p)
          \/ proc_curr_idx = pid2idx(p) /\ msip

SleepInv == KeepsSender /\ MainYields /\ SleepTurn

LEMMA MainYieldsStep ==
    ASSUME CallInv, ProgInv, MainYields, [EgosNext]_allVars PROVE MainYields'
<1>0. TypeOK BY DEF CallInv, Inv
<1>1. [Next]_vars BY ProgStep
<1>2. pid2idx(GPID_PROCESS) = 0 /\ 0 \in Idx BY Sizes, PidSlots DEF pid2idx
<1>3. ASSUME NEW call, sys_invoke(call), call.type # "SYS_YIELD" PROVE MainYields'
  BY <1>0, <1>3 DEF MainYields, sys_invoke, TypeOK
<1>4. ASSUME NEW q, NEW m, sys_send(q, m) PROVE MainYields'
  <2>1. PICK call : call = SendCall(q, m) OBVIOUS
  <2>2. call.type = "SYS_SEND" BY <1>0, <2>1 DEF SendCall, TypeOK, Syscall
  <2>3. sys_invoke(call) BY <1>4, <2>1 DEF sys_send
  <2> QED BY <1>3, <2>2, <2>3
<1>5. ASSUME NEW s, sys_recv(s) PROVE MainYields'
  <2>1. PICK call : call = [sc[proc_curr_idx] EXCEPT !.type = "SYS_RECV", !.sender = s] OBVIOUS
  <2>2. call.type = "SYS_RECV" BY <1>0, <2>1 DEF TypeOK, Syscall
  <2>3. CASE sys_invoke(call) BY <1>3, <2>2, <2>3
  <2>4. CASE UNCHANGED msip BY <1>5, <2>4 DEF sys_recv, InUserSpace, MainYields
  <2> QED BY <1>5, <2>1, <2>3, <2>4 DEF sys_recv
<1>6. CASE ManageStep
  <2>1. ~msip' BY <1>6 DEF ManageStep, proc_alloc, elf_load, proc_set_ready, proc_free,
                         proc_free_all, InSysProc, InUserSpace
  <2> QED BY <2>1 DEF MainYields
<1>7. CASE sys_proc
  <2>1. CASE boot_alloc \/ spawn_alloc BY <1>6, <2>1 DEF boot_alloc, spawn_alloc, ManageStep
  <2>2. CASE boot_ready \/ spawn_ready \/ load_done \/ main_exit \/ main_killall
    <3>1. ~msip'
      BY <2>2 DEF boot_ready, spawn_ready, load_done, main_exit, Exit, main_killall,
                  elf_load, proc_set_ready, proc_free, proc_free_all, InSysProc, InUserSpace
    <3> QED BY <3>1 DEF MainYields
  <2>3. CASE boot_recv \/ main_recv \/ main_sleep \/ spawn_bin \/ spawn_ino \/ load_recv
    BY <1>5, <2>3 DEF boot_recv, main_recv, main_sleep, spawn_bin, spawn_ino, load_recv
  <2>4. CASE main_spawn \/ spawn_lookup \/ spawn_failed \/ load_send \/ spawn_reply \/ exit_notice
    BY <1>4, <2>4 DEF main_spawn, spawn_lookup, spawn_failed, load_send, spawn_reply,
                      exit_notice, SpawnReply
  <2> QED BY <1>7, <2>1, <2>2, <2>3, <2>4 DEF sys_proc
<1>8. CASE intr_soft \/ intr_timer
  BY <1>8 DEF intr_soft, proc_syscall, intr_timer, MainYields
<1>9. CASE UNCHANGED <<proc_curr_idx, msip, sc>> BY <1>9 DEF MainYields
<1>10. CASE SyscallStep /\ proc_curr_idx # 0
  BY <1>10 DEF SyscallStep, sys_yield, sys_send, sys_recv, sys_exit, sys_invoke, MainYields
<1>11. CASE proc_curr_idx # 0
  BY <1>1, <1>6, <1>8, <1>9, <1>10, <1>11 DEF Next, Trap, vars, intr_ctrl_c
<1>12. CASE sys_file \/ sys_net \/ sys_dir \/ sys_shell
  <2>1. \A s \in {GPID_FILE, GPID_NET, GPID_DIR, GPID_SHELL} : pid2idx(s) # 0
    BY Sizes DEF pid2idx
  <2>2. proc_curr_idx # 0
    BY <1>12, <2>1 DEF sys_file, sys_net, Server, sys_dir, dir_init, dir_recv, dir_read,
       dir_block, dir_reply, sys_shell, tty_read, shell_send, shell_recv, shell_go_on,
       shell_wait, ShellAtNext, At
  <2> QED BY <1>11, <2>2
<1>13. CASE app
  <2>1. InUserSpace /\ IsApp
    BY <1>13 DEF app, dir_query, file_query, net_query, query, app_reply, app_sleep,
             app_sleep_yield, app_exit, app_exited, AtApp, InBody,
             sys_send, sys_recv, sys_exit, sys_yield
  <2>2. proc_curr_idx = pid2idx(curr_pid) /\ curr_pid \in Pid BY <2>1, Caller
  <2>3. proc_curr_idx # 0 BY <2>1, <2>2, Sizes DEF IsApp, pid2idx
  <2> QED BY <1>11, <2>3
<1>14. CASE ctrl_c BY <1>9, <1>14 DEF ctrl_c, intr_ctrl_c
<1>15. CASE UNCHANGED allVars BY <1>9, <1>15 DEF allVars, vars
<1> QED BY <1>7, <1>8, <1>12, <1>13, <1>14, <1>15 DEF EgosNext, syscall, timer

\* A process that can run and waits for the CPU in slot 0 gets it before any
\* slot below the current one.
LEMMA TowardsMain ==
    ASSUME CallInv, [Next]_vars, fatal' = "none", status[0] \in Active, proc_curr_idx # 0
    PROVE  \/ proc_curr_idx' = 0
           \/ proc_curr_idx' > proc_curr_idx
           \/ proc_curr_idx' = proc_curr_idx /\ (msip => msip')
<1>1. CASE ~Yields BY <1>1 DEF Yields
<1>2. CASE Yields
  <2>1. Next BY <1>2 DEF Yields, vars
  <2>2. 0 \in Schedulable(status) BY Sizes, PidSlots DEF Schedulable, Active, Idx
  <2>3. Order(0) BY <1>2, <2>1, <2>2, BypassStep DEF CallInv
  <2>4. CASE proc_curr_idx' = 0 BY <2>4
  <2>5. CASE Dist(proc_curr_idx', 0) < Dist(proc_curr_idx, 0) /\ proc_curr_idx' # 0
    <3>0. CallInv' BY CallInvStep
    <3>1. proc_curr_idx \in Idx /\ proc_curr_idx' \in Idx
      BY <3>0 DEF CallInv, Inv, TypeOK
    <3>2. ASSUME NEW c \in Idx, NEW d \in Idx, Dist(d, 0) < Dist(c, 0) PROVE d > c
      BY <3>2, SizeAssumption DEF Idx, Dist
    <3> QED BY <2>5, <3>1, <3>2
  <2> QED BY <2>3, <2>4, <2>5 DEF Order
<1> QED BY <1>1, <1>2

\* sys_proc is not preempted.
LEMMA MainStays ==
    ASSUME CallInv, MainYields, [Next]_vars, fatal = "none", proc_curr_idx = 0,
           calls[GPID_PROCESS].mode = "run"
    PROVE  proc_curr_idx' = 0
<1>0. /\ pid2idx(GPID_PROCESS) = 0 /\ 0 \in Idx /\ idx2pid(0) = GPID_PROCESS
      /\ GPID_PROCESS \in Pid /\ GPID_PROCESS < GPID_SHELL
  BY Sizes, PidSlots DEF pid2idx
<1>1. /\ View(0) /\ status[0] = "PROC_RUNNING" /\ curr_pid = GPID_PROCESS
  BY <1>0, Before
<1>2. CASE intr_soft
  <2>1. msip /\ WellFormed(sc[0]) /\ sc[0].type # "SYS_YIELD"
    BY <1>2 DEF intr_soft, CallInv, Inv, SyscallPending, MainYields
  <2>2. sc[0].type \in {"SYS_SEND", "SYS_RECV"}
    BY <1>2, <2>1 DEF intr_soft, proc_syscall
  <2>3. CallOf(0).mode # "run"
    BY <1>1, <2>2 DEF View, Active, IPC!Send, IPC!Recv
  <2>4. calls[GPID_PROCESS] = CallOf(0) BY <1>0 DEF calls
  <2> QED BY <2>3, <2>4
<1>3. CASE intr_timer
  <2>1. ~(curr_pid >= GPID_SHELL) BY <1>0, <1>1, Sizes
  <2> QED BY <1>3, <2>1 DEF intr_timer
<1>4. CASE intr_ctrl_c BY <1>4 DEF intr_ctrl_c
<1>5. CASE SyscallStep
  BY <1>5 DEF SyscallStep, sys_yield, sys_send, sys_recv, sys_exit, sys_invoke
<1>6. CASE ManageStep
  BY <1>6 DEF ManageStep, proc_alloc, elf_load, proc_set_ready, proc_free, proc_free_all
<1>7. CASE UNCHANGED vars BY <1>7 DEF vars
<1> QED BY <1>2, <1>3, <1>4, <1>5, <1>6, <1>7 DEF Next, Trap

\* The steps of the servers and the shell leave every other process as it is.
LEMMA SystemSays ==
    ASSUME CallInv, ProgInv, sys_file \/ sys_net \/ sys_dir \/ sys_shell
    PROVE  \A p \in Pid \ {GPID_FILE, GPID_NET, GPID_DIR, GPID_SHELL} : Same(p)
<1>0. /\ {GPID_FILE, GPID_NET, GPID_DIR, GPID_SHELL} \subseteq Pid
      /\ GPID_FILE \in Servers /\ GPID_NET \in Servers
  BY Distinct
<1>1. ASSUME NEW s \in {GPID_FILE, GPID_NET, GPID_DIR, GPID_SHELL}, NEW k, NEW v, NEW l,
             Says(s, k, v, l)
      PROVE  \A p \in Pid \ {GPID_FILE, GPID_NET, GPID_DIR, GPID_SHELL} : Same(p)
  BY <1>0, <1>1, SaysSame
<1>2. CASE sys_file
  <2>1. "file_init" \in Label /\ "file_recv" \in Label /\ "file_got" \in Label \cap GotLabel
    BY DEF Label, GotLabel
  <2>2. ServerTalk(GPID_FILE, "file_init", "file_recv", "file_got")
    BY <1>0, <1>2, <2>1, ServerSays DEF sys_file
  <2> QED BY <1>1, <2>2 DEF ServerTalk
<1>3. CASE sys_net
  <2>1. "net_init" \in Label /\ "net_recv" \in Label /\ "net_got" \in Label \cap GotLabel
    BY DEF Label, GotLabel
  <2>2. ServerTalk(GPID_NET, "net_init", "net_recv", "net_got")
    BY <1>0, <1>3, <2>1, ServerSays DEF sys_net
  <2> QED BY <1>1, <2>2 DEF ServerTalk
<1>4. CASE sys_dir
  <2>1. DirTalk BY <1>4, DirSays
  <2> QED BY <1>1, <2>1 DEF DirTalk
<1>5. CASE sys_shell
  <2>1. ShellTalk BY <1>5, ShellTalks
  <2> QED BY <1>1, <2>1 DEF ShellTalk
<1> QED BY <1>2, <1>3, <1>4, <1>5

\* sys_proc comes to owe p in a step after which it has the CPU, or p has
\* just called sys_yield.
LEMMA NewDebt ==
    ASSUME CallInv, ProgInv, ServerInv, [EgosNext]_allVars, fatal' = "none",
           NEW p \in GPID_USER_START .. MAX_NPROCESS,
           Owes(p)', PcOf(p)' = "slept", ~(Owes(p) /\ PcOf(p) = "slept")
    PROVE  proc_curr_idx' = 0 \/ (proc_curr_idx' = pid2idx(p) /\ msip')
<1>0. /\ p \in Pid /\ GPID_PROCESS \in Pid /\ p # GPID_PROCESS
      /\ p \notin {GPID_FILE, GPID_NET, GPID_DIR, GPID_SHELL}
      /\ GPID_PROCESS \notin {GPID_FILE, GPID_NET, GPID_DIR, GPID_SHELL}
      /\ pid2idx(GPID_PROCESS) = 0
  BY Sizes DEF pid2idx
<1>1. ~(Same(p) /\ Same(GPID_PROCESS)) BY DEF Same, Owes
<1>2. CASE sys_proc
  <2>1. proc_curr_idx = 0
    BY <1>0, <1>2 DEF sys_proc, boot_alloc, boot_ready, boot_recv, main_recv, main_spawn,
       main_sleep, main_exit, Exit, main_killall, spawn_bin, spawn_lookup, spawn_ino,
       spawn_failed, spawn_alloc, load_send, load_recv, load_done, spawn_ready, spawn_reply,
       exit_notice, At
  <2>2. UNCHANGED proc_curr_idx
    <3>1. ASSUME NEW q, NEW m, sys_send(q, m) PROVE UNCHANGED proc_curr_idx
      BY <3>1 DEF sys_send, sys_invoke
    <3>2. ASSUME NEW s, sys_recv(s) PROVE UNCHANGED proc_curr_idx
      BY <3>2 DEF sys_recv, sys_invoke
    <3>3. CASE boot_alloc \/ spawn_alloc \/ boot_ready \/ spawn_ready \/ load_done \/ main_exit
               \/ main_killall
      BY <3>3 DEF boot_alloc, spawn_alloc, boot_ready, spawn_ready, load_done, main_exit, Exit,
         main_killall, proc_alloc, elf_load, proc_set_ready, proc_free, proc_free_all
    <3>4. CASE boot_recv \/ main_recv \/ main_sleep \/ spawn_bin \/ spawn_ino \/ load_recv
      BY <3>2, <3>4 DEF boot_recv, main_recv, main_sleep, spawn_bin, spawn_ino, load_recv
    <3>5. CASE main_spawn \/ spawn_lookup \/ spawn_failed \/ load_send \/ spawn_reply
               \/ exit_notice
      BY <3>1, <3>5 DEF main_spawn, spawn_lookup, spawn_failed, load_send, spawn_reply,
                        exit_notice, SpawnReply
    <3> QED BY <1>2, <3>3, <3>4, <3>5 DEF sys_proc
  <2> QED BY <2>1, <2>2
<1>3. CASE sys_file \/ sys_net \/ sys_dir \/ sys_shell BY <1>0, <1>1, <1>3, SystemSays
<1>4. CASE app
  <2>1. PICK a \in GPID_USER_START .. MAX_NPROCESS : AppTalk(a) BY <1>4, AppTalks
  <2>2. PICK k, v, l : Says(a, k, v, l) BY <2>1 DEF AppTalk
  <2>3. a \in Pid /\ a # GPID_PROCESS BY Ranges
  <2>4. a = p BY <1>0, <1>1, <2>2, <2>3, SaysSame
  <2>5. proc_curr_idx = pid2idx(p) BY <2>2, <2>4 DEF Says, Posts
  <2>6. UNCHANGED proc_curr_idx /\ msip'
    <3>1. \A call : sys_invoke(call) => UNCHANGED proc_curr_idx /\ msip'
      BY DEF sys_invoke
    <3>2. \A q, m : sys_send(q, m) => UNCHANGED proc_curr_idx /\ msip' BY <3>1 DEF sys_send
    <3>3. \A s : sys_recv(s) => UNCHANGED proc_curr_idx /\ msip' BY <3>1 DEF sys_recv
    <3> QED BY <1>4, <3>1, <3>2, <3>3
            DEF app, dir_query, file_query, net_query, query, app_reply, app_sleep,
                app_sleep_yield, app_exit, app_exited, sys_exit, sys_yield
  <2> QED BY <2>5, <2>6
<1>5. CASE ctrl_c
  <2>1. PICK a \in GPID_USER_START .. MAX_NPROCESS : Kills(a) BY <1>5, CtrlKills
  <2>2. a # p BY <2>1 DEF Kills
  <2>3. GPID_PROCESS # a BY Ranges
  <2> QED BY <1>0, <1>1, <2>1, <2>2, <2>3 DEF Kills, Same
<1>6. CASE syscall \/ timer
  <2>1. UNCHANGED progVars /\ TrapMoves BY <1>6, TrapTalks
  <2>2. PcOf(p)' = PcOf(p) /\ PcOf(GPID_PROCESS)' = PcOf(GPID_PROCESS)
    BY <2>1 DEF progVars, PcOf
  <2>a. PICK a \in Pid, b \in Pid : \E m : Exchange(a, b, m)
    BY <1>1, <2>1, <2>2 DEF TrapMoves, Same
  <2>3. PICK m : Exchange(a, b, m) BY <2>a
  <2>4. /\ calls'[GPID_PROCESS].peer = p /\ calls'[GPID_PROCESS].content = "PROC_SLEEP"
        /\ PcOf(p) = "slept" /\ calls'[GPID_PROCESS] # calls[GPID_PROCESS]
    BY <2>2 DEF Owes
  <2>5. b = GPID_PROCESS /\ a = p /\ m = "PROC_SLEEP"
    BY <1>0, <2>3, <2>4 DEF Exchange
  <2>6. MaySend("slept", GPID_PROCESS, "PROC_SLEEP")
    BY <2>3, <2>4, <2>5 DEF Exchange, ServerInv, Script
  <2>7. \A s : WaitLabel(s) # "slept" BY DEF WaitLabel
  <2> QED BY <2>6, <2>7 DEF MaySend
<1>7. CASE UNCHANGED allVars
  <2>1. UNCHANGED progVars /\ calls' = calls BY <1>7, StutterTalks
  <2> QED BY <1>1, <2>1 DEF progVars, PcOf, Same
<1> QED BY <1>2, <1>3, <1>4, <1>5, <1>6, <1>7 DEF EgosNext

LEMMA SleepStep ==
    ASSUME CallInv, ProgInv, ServerInv, SleepInv, [EgosNext]_allVars PROVE SleepInv'
<1>0. [Next]_vars BY ProgStep
<1>1. KeepsSender' BY <1>0, KeepsSenderStep DEF SleepInv, CallInv
<1>2. MainYields' BY MainYieldsStep DEF SleepInv
<1>3. ASSUME NEW p \in GPID_USER_START .. MAX_NPROCESS, fatal' = "none", Owes(p)',
             PcOf(p)' = "slept"
      PROVE  \/ proc_curr_idx' = 0
             \/ proc_curr_idx' > pid2idx(p)
             \/ proc_curr_idx' = pid2idx(p) /\ msip'
  <2>1. CASE ~(Owes(p) /\ PcOf(p) = "slept") BY <1>3, <2>1, NewDebt
  <2>2. CASE Owes(p) /\ PcOf(p) = "slept"
    <3>1. fatal = "none"
      BY <1>0, <1>3 DEF Next, Trap, intr_soft, intr_timer, intr_ctrl_c, SyscallStep,
         ManageStep, sys_yield, sys_send, sys_recv, sys_exit, proc_alloc, elf_load,
         proc_set_ready, proc_free, proc_free_all, InSysProc, InUserSpace, vars
    <3>2. calls[GPID_PROCESS].mode = "run" BY <2>2 DEF Owes
    <3>3. CASE proc_curr_idx = 0 BY <1>0, <3>1, <3>2, <3>3, MainStays DEF SleepInv
    <3>4. CASE proc_curr_idx # 0
      <4>1. /\ pid2idx(GPID_PROCESS) = 0 /\ 0 \in Idx /\ GPID_PROCESS \in Pid
        BY Sizes, PidSlots DEF pid2idx
      <4>2. View(0) /\ status[0] \in Active \cup Parked BY <3>1, <4>1, Before
      <4>3. CallOf(0).mode = "run" BY <3>2, <4>1 DEF calls
      <4>4. status[0] \in Active
        BY <4>2, <4>3 DEF View, Parked, Waiting, IPC!Dead, IPC!Send, IPC!Recv
      <4>5. \/ proc_curr_idx' = 0
            \/ proc_curr_idx' > proc_curr_idx
            \/ proc_curr_idx' = proc_curr_idx /\ (msip => msip')
        BY <1>0, <1>3, <3>4, <4>4, TowardsMain
      <4>6. \/ proc_curr_idx > pid2idx(p)
            \/ proc_curr_idx = pid2idx(p) /\ msip
        BY <2>2, <3>1, <3>4 DEF SleepInv, SleepTurn
      <4>7. CallInv' BY <1>0, CallInvStep
      <4>8. proc_curr_idx \in Int /\ proc_curr_idx' \in Int /\ pid2idx(p) \in Int
        BY <4>7, SizeAssumption, Sizes DEF CallInv, Inv, TypeOK, Idx, pid2idx
      <4> QED BY <4>5, <4>6, <4>8
    <3> QED BY <3>3, <3>4
  <2> QED BY <2>1, <2>2
<1>4. \A p \in GPID_USER_START .. MAX_NPROCESS : pid2idx(p)' = pid2idx(p) BY DEF pid2idx
<1>5. SleepTurn' BY <1>3, <1>4 DEF SleepTurn
<1> QED BY <1>1, <1>2, <1>5 DEF SleepInv

LEMMA SleepInit == ASSUME EgosInit PROVE SleepInv
<1>1. KeepsSender BY DEF EgosInit, Init, KeepsSender
<1>2. MainYields BY DEF EgosInit, Init, MainYields
<1>3. PcOf(GPID_PROCESS) # "main_got"
  <2>1. pid2idx(GPID_PROCESS) = 0 /\ 0 \in Idx BY Sizes, PidSlots DEF pid2idx
  <2> QED BY <2>1 DEF EgosInit, PcOf
<1>4. SleepTurn BY <1>3 DEF SleepTurn, Owes
<1> QED BY <1>1, <1>2, <1>4 DEF SleepInv

LEMMA SleepHandled == ASSUME TalkInv, SleepInv PROVE SleepIsHandled
<1>0. CallInv /\ ProgInv /\ ServerInv BY DEF TalkInv
<1>1. SUFFICES ASSUME InUserSpace, AtApp("slept"), PcOf(GPID_PROCESS) = "main_got",
                      sc[pid2idx(GPID_PROCESS)].content = "PROC_SLEEP",
                      sc[pid2idx(GPID_PROCESS)].sender = curr_pid
               PROVE  FALSE
  BY DEF SleepIsHandled
<1>2. PICK p \in Pid : p = curr_pid /\ proc_curr_idx = pid2idx(p) BY <1>0, <1>1, Caller
<1>3. p \in GPID_USER_START .. MAX_NPROCESS /\ PcOf(p) = "slept"
  BY <1>1, <1>2, Sizes DEF AtApp, IsApp, PcOf
<1>4. /\ pid2idx(GPID_PROCESS) = 0 /\ 0 \in Idx /\ GPID_PROCESS \in Pid
      /\ pid2idx(p) # 0 /\ p # 0
  <2>1. pid2idx(GPID_PROCESS) = 0 /\ GPID_PROCESS \in Pid BY Sizes DEF pid2idx
  <2>2. pid2idx(p) # 0 /\ p # 0 BY <1>3, Sizes DEF pid2idx
  <2> QED BY <2>1, <2>2, PidSlots
<1>5. fatal = "none" /\ ~msip BY <1>1 DEF InUserSpace
<1>6. View(0) /\ status[0] \in Active \cup Parked /\ sc[0].type = "SYS_UNUSED"
  BY <1>0, <1>2, <1>4, <1>5, Before
<1>7. calls[GPID_PROCESS] = CallOf(0) BY <1>4 DEF calls
<1>8. CASE status[0] \in Active
  <2>1. CallOf(0) = IPC!Run(p, "PROC_SLEEP") BY <1>1, <1>2, <1>4, <1>6, <1>8 DEF View
  <2>2. Owes(p) BY <1>1, <1>7, <2>1 DEF Owes, IPC!Run
  <2>3. ~(proc_curr_idx > pid2idx(p)) BY <1>2, <1>3, Sizes DEF pid2idx
  <2> QED BY <1>2, <1>3, <1>4, <1>5, <2>2, <2>3 DEF SleepInv, SleepTurn
<1>9. CASE status[0] = "PROC_WAIT_TO_SEND"
  <2>1. calls[GPID_PROCESS].mode = "send" BY <1>6, <1>7, <1>9 DEF View, IPC!Send
  <2> QED BY <1>0, <1>1, <1>4, <2>1 DEF ProgInv, Offers, GotLabel
<1>10. CASE status[0] = "PROC_WAIT_TO_RECV"
  <2>1. from_sender_pid[0] = p BY <1>1, <1>2, <1>4, <1>10 DEF SleepInv, KeepsSender
  <2>2. calls[GPID_PROCESS].mode = "recv" /\ calls[GPID_PROCESS].peer = p
    BY <1>6, <1>7, <1>10, <2>1 DEF View, IPC!Recv
  <2>3. MayRecv("main_got", p) BY <1>0, <1>1, <1>4, <2>2 DEF ServerInv, Script
  <2> QED BY <1>4, <2>3 DEF MayRecv
<1>11. CASE status[0] \in {"PROC_UNUSED", "PROC_LOADING"}
  <2>1. calls[GPID_PROCESS].mode = "dead" BY <1>6, <1>7, <1>11 DEF View, IPC!Dead
  <2>2. PcOf(GPID_PROCESS) = NoProcess BY <1>0, <1>4, <2>1 DEF ServerInv, Roles
  <2> QED BY <1>1, <2>2 DEF NoProcess
<1> QED BY <1>6, <1>8, <1>9, <1>10, <1>11 DEF Parked, Waiting

\* What sys_sleep assumes of the scheduler (syscall.c: PROC_SLEEP is sent,
\* then sys_yield): when the yield returns, sys_proc has handled the request,
\* wherever the application sits in the process table and whatever else runs.
THEOREM EgosSleep == EgosSpec => []SleepIsHandled
<1>1. EgosInit => SleepInv BY SleepInit
<1>2. TalkInv /\ SleepInv /\ [EgosNext]_allVars => SleepInv'
  BY SleepStep DEF TalkInv
<1>3. TalkInv /\ SleepInv => SleepIsHandled BY SleepHandled
<1> QED BY <1>1, <1>2, <1>3, EgosDialogues, PTL DEF EgosSpec

=============================================================================
