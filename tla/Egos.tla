-------------------------------- MODULE Egos --------------------------------
(***************************************************************************)
(* The egos system: the grass kernel running the programs of its system    *)
(* processes, which form a microkernel operating system over sys_send and  *)
(* sys_recv:                                                               *)
(*   sys_proc  (pid 1)  boots the servers, spawns, frees and kills apps    *)
(*   sys_file  (pid 2)  answers inode reads                                *)
(*   sys_dir   (pid 3)  answers lookups, reading directories from sys_file *)
(*   sys_net   (pid 4)  answers packet sends and receives                  *)
(*   sys_shell (pid 5)  reads commands, asks sys_proc to run them          *)
(*   user applications (pid 6 and up) call the servers, sleep and exit.    *)
(*                                                                         *)
(* Each program step is a step of Grass together with a move of the        *)
(* program: pc[i] is where process i goes on when its system call returns. *)
(* What a server computes is not modelled, only whether it succeeds.       *)
(* Definitions named X_without_Y or X_with_Y are wrong versions of X.      *)
(***************************************************************************)
EXTENDS Grass

CONSTANTS
    Scenarios,    \* what the user and the applications may do, see below
    NREADS        \* number of file reads that loading an application takes

GPID_FILE == 2
GPID_DIR  == 3
GPID_NET  == 4

\* A PROC_SPAWN request names a program that exists or not, and carries a
\* trailing & or not.
Spawn == {"SPAWN", "SPAWN &", "SPAWN missing", "SPAWN missing &"}
Missing == {"SPAWN missing", "SPAWN missing &"}
Background == {"SPAWN &", "SPAWN missing &"}

Message == Spawn \cup
    {"PROC_EXIT", "PROC_SLEEP", "PROC_KILLALL", "CMD_OK", "CMD_ERROR",
     "initialized", "request", "lookup missing", "ok", "DIR_ERROR"}

(***************************************************************************)
(* A behaviour of the system follows one scenario:                         *)
(*   commands   the kinds of command the user types                        *)
(*   servers    the servers that applications call                         *)
(*   sleep      whether applications call sys_sleep                        *)
(*   ctrl_c     when the user types ctrl+c: "never", "any time" or         *)
(*              "between calls", that is not while an application has sent *)
(*              a request and not yet asked for its reply                  *)
(***************************************************************************)
Scenario ==
    [commands : SUBSET (Spawn \cup {"PROC_KILLALL"}),
     servers  : SUBSET {GPID_FILE, GPID_DIR, GPID_NET},
     sleep    : BOOLEAN,
     ctrl_c   : {"never", "between calls", "any time"}]

ASSUME EgosAssumption ==
    /\ GPID_SHELL = 5 /\ GPID_USER_START = 6
    /\ Contents = Message /\ PROC_EXIT = "PROC_EXIT"
    /\ Scenarios \subseteq Scenario
    /\ NREADS \in Nat \ {0}

VARIABLES
    pc,             \* where each process continues
    booting,        \* sys_proc: the pid that the next sys_spawn should get
    req,            \* sys_proc: the spawn request being handled
    reads,          \* sys_proc: file reads done by elf_load
    app_pid,        \* sys_proc: pid of the last application allocated
    shell_waiting,  \* sys_proc: the last request was for the foreground
    dir_client,     \* sys_dir: the sender of the request being handled
    dir_req,        \* sys_dir: that request
    shell_cmd,      \* sys_shell: the command being run
    scenario        \* the scenario of this behaviour; never changes

progVars == <<pc, booting, req, reads, app_pid, shell_waiting, dir_client,
              dir_req, shell_cmd, scenario>>
allVars == <<vars, progVars>>

NoProcess == "no process"

EgosInit ==
    /\ Init
    /\ pc = [i \in Idx |-> IF i = 0 THEN "boot_alloc" ELSE NoProcess]
    /\ booting = GPID_FILE
    /\ req = "SPAWN" /\ reads = 0
    /\ app_pid = 0 /\ shell_waiting = FALSE
    /\ dir_client = 0 /\ dir_req = "request"
    /\ shell_cmd = "SPAWN"
    /\ scenario \in Scenarios

\* Process p is the one that runs, and its program is at label l.
At(p, l) == proc_curr_idx = pid2idx(p) /\ pc[proc_curr_idx] = l

Goto(l) == pc' = [pc EXCEPT ![proc_curr_idx] = l]

\* The message the last sys_recv of the running process returned.
Received == sc[proc_curr_idx].content
Sender   == sc[proc_curr_idx].sender

SysProcLocals == <<booting, req, reads, app_pid, shell_waiting>>
SysDirLocals  == <<dir_client, dir_req>>
ShellLocals   == <<shell_cmd, scenario>>

-----------------------------------------------------------------------------
(***************************************************************************)
(* sys_proc (apps/system/sys_proc.c).                                      *)
(***************************************************************************)
\* The program that the k-th sys_spawn loads, whatever pid it gets.
EntryOf(k) == IF k = GPID_FILE THEN "file_init"
              ELSE IF k = GPID_DIR THEN "dir_init"
              ELSE IF k = GPID_NET THEN "net_init"
              ELSE "shell_next"

\* sys_spawn(): allocate, load from the raw disk, set ready.
boot_alloc ==
    /\ At(GPID_PROCESS, "boot_alloc")
    /\ proc_alloc
    /\ Goto("boot_ready")
    /\ UNCHANGED <<SysProcLocals, SysDirLocals, ShellLocals>>

boot_ready ==
    /\ At(GPID_PROCESS, "boot_ready")
    /\ \E p \in Pid :
          /\ proc_set_ready(p)
          /\ pc' = [pc EXCEPT ![pid2idx(p)] = EntryOf(booting),
                              ![proc_curr_idx] = IF booting = GPID_SHELL
                                                 THEN "main_recv"
                                                 ELSE "boot_recv"]
    /\ UNCHANGED <<SysProcLocals, SysDirLocals, ShellLocals>>

\* The server just spawned is not waited for.
boot_recv_without_wait ==
    /\ At(GPID_PROCESS, "boot_recv")
    /\ InUserSpace
    /\ booting' = booting + 1
    /\ Goto("boot_alloc")
    /\ UNCHANGED <<vars, req, reads, app_pid, shell_waiting, SysDirLocals,
                   ShellLocals>>

\* Wait for the notification of the server just spawned.
boot_recv ==
    /\ At(GPID_PROCESS, "boot_recv")
    /\ sys_recv(booting)
    /\ booting' = booting + 1
    /\ Goto("boot_alloc")
    /\ UNCHANGED <<req, reads, app_pid, shell_waiting, SysDirLocals, ShellLocals>>

main_recv ==
    /\ At(GPID_PROCESS, "main_recv")
    /\ sys_recv(0)
    /\ Goto("main_got")
    /\ UNCHANGED <<SysProcLocals, SysDirLocals, ShellLocals>>

\* PROC_SPAWN: app_spawn() first looks up "bin/".
main_spawn ==
    /\ At(GPID_PROCESS, "main_got") /\ Received \in Spawn
    /\ req' = Received
    /\ sys_send(GPID_DIR, "request")
    /\ Goto("spawn_bin")
    /\ UNCHANGED <<booting, reads, app_pid, shell_waiting, SysDirLocals, ShellLocals>>

spawn_bin ==
    /\ At(GPID_PROCESS, "spawn_bin")
    /\ sys_recv(GPID_DIR)
    /\ Goto("spawn_lookup")
    /\ UNCHANGED <<SysProcLocals, SysDirLocals, ShellLocals>>

\* Look up the program in bin/.
spawn_lookup ==
    /\ At(GPID_PROCESS, "spawn_lookup")
    /\ sys_send(GPID_DIR, IF req \in Missing THEN "lookup missing" ELSE "request")
    /\ Goto("spawn_ino")
    /\ UNCHANGED <<SysProcLocals, SysDirLocals, ShellLocals>>

spawn_ino ==
    /\ At(GPID_PROCESS, "spawn_ino")
    /\ sys_recv(GPID_DIR)
    /\ Goto("spawn_found")
    /\ UNCHANGED <<SysProcLocals, SysDirLocals, ShellLocals>>

\* Every command counts as a foreground command.
SpawnReply_without_background(reply) ==
    /\ shell_waiting' = TRUE
    /\ sys_send(GPID_SHELL, reply)
    /\ Goto("main_recv")
    /\ UNCHANGED <<booting, req, reads, app_pid, SysDirLocals, ShellLocals>>

\* The reply to the shell; shell_waiting is set whether or not the spawn
\* succeeded, and app_pid is left as it was when it did not.
SpawnReply(reply) ==
    /\ shell_waiting' = (req \notin Background)
    /\ sys_send(GPID_SHELL, reply)
    /\ Goto("main_recv")
    /\ UNCHANGED <<booting, req, reads, app_pid, SysDirLocals, ShellLocals>>

spawn_failed ==
    /\ At(GPID_PROCESS, "spawn_found") /\ Received = "DIR_ERROR"
    /\ SpawnReply("CMD_ERROR")

spawn_alloc ==
    /\ At(GPID_PROCESS, "spawn_found") /\ Received # "DIR_ERROR"
    /\ proc_alloc
    /\ app_pid' = IF Unused = {} THEN app_pid
                  ELSE idx2pid(CHOOSE i \in Unused : \A j \in Unused : i <= j)
    /\ reads' = 0
    /\ Goto("load_send")
    /\ UNCHANGED <<booting, req, shell_waiting, SysDirLocals, ShellLocals>>

\* elf_load() reads the program from sys_file, NREADS times.
load_send ==
    /\ At(GPID_PROCESS, "load_send") /\ reads < NREADS
    /\ sys_send(GPID_FILE, "request")
    /\ reads' = reads + 1
    /\ Goto("load_recv")
    /\ UNCHANGED <<booting, req, app_pid, shell_waiting, SysDirLocals, ShellLocals>>

load_recv ==
    /\ At(GPID_PROCESS, "load_recv")
    /\ sys_recv(GPID_FILE)
    /\ Goto("load_send")
    /\ UNCHANGED <<SysProcLocals, SysDirLocals, ShellLocals>>

load_done ==
    /\ At(GPID_PROCESS, "load_send") /\ reads = NREADS
    /\ elf_load(app_pid)
    /\ Goto("spawn_ready")
    /\ UNCHANGED <<SysProcLocals, SysDirLocals, ShellLocals>>

spawn_ready ==
    /\ At(GPID_PROCESS, "spawn_ready")
    /\ proc_set_ready(app_pid)
    /\ pc' = [pc EXCEPT ![pid2idx(app_pid)] = "app",
                        ![proc_curr_idx] = "spawn_reply"]
    /\ UNCHANGED <<SysProcLocals, SysDirLocals, ShellLocals>>

spawn_reply ==
    /\ At(GPID_PROCESS, "spawn_reply")
    /\ SpawnReply("CMD_OK")

\* PROC_SLEEP: proc_on_sleep() is empty under the NAIVE scheduler.  The next
\* sys_recv follows at once.
main_sleep ==
    /\ At(GPID_PROCESS, "main_got") /\ Received = "PROC_SLEEP"
    /\ sys_recv(0)
    /\ Goto("main_got")
    /\ UNCHANGED <<SysProcLocals, SysDirLocals, ShellLocals>>

\* PROC_EXIT: free the sender, and tell the shell if Notify.
Exit(Notify) ==
    /\ At(GPID_PROCESS, "main_got") /\ Received = "PROC_EXIT"
    /\ proc_free(Sender)
    /\ pc' = [pc EXCEPT ![pid2idx(Sender)] = NoProcess,
                        ![proc_curr_idx] = IF Notify THEN "exit_notice"
                                           ELSE "main_recv"]
    /\ UNCHANGED <<SysProcLocals, SysDirLocals, ShellLocals>>

main_exit_without_notice == Exit(FALSE)

\* The sender keeps its slot.
main_exit_without_free ==
    /\ At(GPID_PROCESS, "main_got") /\ Received = "PROC_EXIT"
    /\ InUserSpace
    /\ Goto(IF shell_waiting /\ app_pid = Sender THEN "exit_notice"
            ELSE "main_recv")
    /\ UNCHANGED <<vars, SysProcLocals, SysDirLocals, ShellLocals>>

main_exit == Exit(shell_waiting /\ app_pid = Sender)

\* Tell the shell that its foreground command is over.  The reply is the
\* request's buffer, still of type PROC_EXIT.
exit_notice ==
    /\ At(GPID_PROCESS, "exit_notice")
    /\ sys_send(GPID_SHELL, "PROC_EXIT")
    /\ Goto("main_recv")
    /\ UNCHANGED <<SysProcLocals, SysDirLocals, ShellLocals>>

main_killall ==
    /\ At(GPID_PROCESS, "main_got") /\ Received = "PROC_KILLALL"
    /\ proc_free_all
    /\ pc' = [i \in Idx |-> IF i = proc_curr_idx THEN "main_recv"
                            ELSE IF pid[i] >= GPID_USER_START THEN NoProcess
                            ELSE pc[i]]
    /\ UNCHANGED <<SysProcLocals, SysDirLocals, ShellLocals>>

sys_proc ==
    \/ boot_alloc \/ boot_ready \/ boot_recv
    \/ main_recv \/ main_spawn \/ main_sleep \/ main_exit \/ main_killall
    \/ spawn_bin \/ spawn_lookup \/ spawn_ino \/ spawn_failed \/ spawn_alloc
    \/ load_send \/ load_recv \/ load_done \/ spawn_ready \/ spawn_reply
    \/ exit_notice

-----------------------------------------------------------------------------
(***************************************************************************)
(* sys_file and sys_net: notify sys_proc, then answer one request after    *)
(* the other (apps/system/sys_file.c, apps/system/sys_net.c).              *)
(***************************************************************************)
Server(p, init, wait, got) ==
    /\ \/ At(p, init) /\ sys_send(GPID_PROCESS, "initialized") /\ Goto(wait)
       \/ At(p, wait) /\ sys_recv(0) /\ Goto(got)
       \/ At(p, got) /\ sys_send(Sender, "ok") /\ Goto(wait)
    /\ UNCHANGED <<SysProcLocals, SysDirLocals, ShellLocals>>

sys_file == Server(GPID_FILE, "file_init", "file_recv", "file_got")
sys_net  == Server(GPID_NET, "net_init", "net_recv", "net_got")

(***************************************************************************)
(* sys_dir: every lookup reads the directory from sys_file                 *)
(* (apps/system/sys_dir.c).                                                *)
(***************************************************************************)
dir_init ==
    /\ At(GPID_DIR, "dir_init")
    /\ sys_send(GPID_PROCESS, "initialized")
    /\ Goto("dir_recv")
    /\ UNCHANGED <<SysProcLocals, SysDirLocals, ShellLocals>>

dir_recv ==
    /\ At(GPID_DIR, "dir_recv")
    /\ sys_recv(0)
    /\ Goto("dir_got")
    /\ UNCHANGED <<SysProcLocals, SysDirLocals, ShellLocals>>

dir_read ==
    /\ At(GPID_DIR, "dir_got")
    /\ dir_client' = Sender
    /\ dir_req' = Received
    /\ sys_send(GPID_FILE, "request")
    /\ Goto("dir_block")
    /\ UNCHANGED <<SysProcLocals, ShellLocals>>

dir_block ==
    /\ At(GPID_DIR, "dir_block")
    /\ sys_recv(GPID_FILE)
    /\ Goto("dir_reply")
    /\ UNCHANGED <<SysProcLocals, SysDirLocals, ShellLocals>>

dir_reply ==
    /\ At(GPID_DIR, "dir_reply")
    /\ sys_send(dir_client,
                IF dir_req = "lookup missing" THEN "DIR_ERROR" ELSE "ok")
    /\ Goto("dir_recv")
    /\ UNCHANGED <<SysProcLocals, SysDirLocals, ShellLocals>>

sys_dir == dir_init \/ dir_recv \/ dir_read \/ dir_block \/ dir_reply

-----------------------------------------------------------------------------
(***************************************************************************)
(* sys_shell (apps/system/sys_shell.c).  At "shell_next" the shell goes on *)
(* with the next command, of the line just read or of a batch, or reads a  *)
(* line; "shell_fg" is the same place, reached from the wait for a         *)
(* foreground command.                                                     *)
(***************************************************************************)
ShellAtNext == \E l \in {"shell_next", "shell_fg"} : At(GPID_SHELL, l)

\* tty_read() marks the terminal as being read, so that ctrl+c goes to the
\* line and not to an application, until the line is complete.
tty_read ==
    /\ InUserSpace
    /\ \/ ShellAtNext /\ Goto("shell_reading")
       \/ At(GPID_SHELL, "shell_reading") /\ Goto("shell_next")
    /\ UNCHANGED <<vars, SysProcLocals, SysDirLocals, ShellLocals>>

shell_send ==
    /\ ShellAtNext
    /\ \E cmd \in scenario.commands :
          /\ shell_cmd' = cmd
          /\ sys_send(GPID_PROCESS, cmd)
          /\ Goto(IF cmd = "PROC_KILLALL" THEN "shell_next" ELSE "shell_recv")
    /\ UNCHANGED <<SysProcLocals, SysDirLocals, scenario>>

shell_recv ==
    /\ At(GPID_SHELL, "shell_recv")
    /\ sys_recv(GPID_PROCESS)
    /\ Goto("shell_reply")
    /\ UNCHANGED <<SysProcLocals, SysDirLocals, ShellLocals>>

\* An error, or a command in the background: go on.
shell_go_on ==
    /\ InUserSpace
    /\ At(GPID_SHELL, "shell_reply")
    /\ Received # "CMD_OK" \/ shell_cmd \in Background
    /\ Goto("shell_next")
    /\ UNCHANGED <<vars, SysProcLocals, SysDirLocals, ShellLocals>>

shell_wait ==
    /\ At(GPID_SHELL, "shell_reply")
    /\ Received = "CMD_OK" /\ shell_cmd \notin Background
    /\ sys_recv(GPID_PROCESS)
    /\ Goto("shell_fg")
    /\ UNCHANGED <<SysProcLocals, SysDirLocals, ShellLocals>>

sys_shell == tty_read \/ shell_send \/ shell_recv \/ shell_go_on \/ shell_wait

-----------------------------------------------------------------------------
(***************************************************************************)
(* User applications: calls to the servers (library/servers/servers.c),    *)
(* sys_sleep and exit, in any order.                                       *)
(***************************************************************************)
WaitLabel(s) == IF s = GPID_FILE THEN "wait_file"
                ELSE IF s = GPID_DIR THEN "wait_dir"
                ELSE "wait_net"

IsApp == curr_pid >= GPID_USER_START
AtApp(l) == IsApp /\ pc[proc_curr_idx] = l
InBody == IsApp /\ pc[proc_curr_idx] \in {"app", "slept"}

\* Send the request to server s, then receive from s.
query_without_receive(s) ==
    /\ InBody /\ s \in scenario.servers
    /\ sys_send(s, "request")
    /\ Goto("app")
    /\ UNCHANGED <<SysProcLocals, SysDirLocals, ShellLocals>>

query(s) ==
    /\ InBody /\ s \in scenario.servers
    /\ sys_send(s, "request")
    /\ Goto(WaitLabel(s))
    /\ UNCHANGED <<SysProcLocals, SysDirLocals, ShellLocals>>

dir_query  == query(GPID_DIR)
file_query == query(GPID_FILE)
net_query  == query(GPID_NET)

app_reply ==
    /\ \E s \in {GPID_FILE, GPID_DIR, GPID_NET} :
          AtApp(WaitLabel(s)) /\ sys_recv(s)
    /\ Goto("app")
    /\ UNCHANGED <<SysProcLocals, SysDirLocals, ShellLocals>>

\* sys_sleep that returns without yielding.
app_sleep_without_yield ==
    /\ InBody /\ scenario.sleep
    /\ sys_send(GPID_PROCESS, "PROC_SLEEP")
    /\ Goto("slept")
    /\ UNCHANGED <<SysProcLocals, SysDirLocals, ShellLocals>>

app_sleep ==
    /\ InBody /\ scenario.sleep
    /\ sys_send(GPID_PROCESS, "PROC_SLEEP")
    /\ Goto("sleep_yield")
    /\ UNCHANGED <<SysProcLocals, SysDirLocals, ShellLocals>>

\* The sys_yield that ends sys_sleep.
app_sleep_yield ==
    /\ AtApp("sleep_yield")
    /\ sys_yield
    /\ Goto("slept")
    /\ UNCHANGED <<SysProcLocals, SysDirLocals, ShellLocals>>

app_exit ==
    /\ InBody \/ AtApp("exit")
    /\ sys_exit
    /\ Goto("exited")
    /\ UNCHANGED <<SysProcLocals, SysDirLocals, ShellLocals>>

app_exited ==
    /\ AtApp("exited")
    /\ sys_yield
    /\ Goto("exited")
    /\ UNCHANGED <<SysProcLocals, SysDirLocals, ShellLocals>>

app == dir_query \/ file_query \/ net_query \/ app_reply
       \/ app_sleep \/ app_sleep_yield \/ app_exit \/ app_exited

-----------------------------------------------------------------------------
(***************************************************************************)
(* Traps.                                                                  *)
(***************************************************************************)
\* tty_intr() ignores the keyboard while the shell reads a line.
ctrl_c ==
    /\ \/ scenario.ctrl_c = "any time"
       \/ /\ scenario.ctrl_c = "between calls"
          /\ pc[proc_curr_idx] \notin {"wait_file", "wait_dir", "wait_net"}
    /\ pc[pid2idx(GPID_SHELL)] # "shell_reading"
    /\ intr_ctrl_c
    /\ Goto("exit")
    /\ UNCHANGED <<SysProcLocals, SysDirLocals, ShellLocals>>

syscall == intr_soft /\ UNCHANGED progVars

timer == intr_timer /\ UNCHANGED progVars

EgosNext ==
    sys_proc \/ sys_file \/ sys_net \/ sys_dir \/ sys_shell \/ app
    \/ ctrl_c \/ syscall \/ timer

EgosSpec == EgosInit /\ [][EgosNext]_allVars

-----------------------------------------------------------------------------
(***************************************************************************)
(* Properties.                                                             *)
(***************************************************************************)
PcOf(p) == pc[pid2idx(p)]
StatusOf(p) == status[pid2idx(p)]

\* The system never stops: no wait among the system processes closes into a
\* cycle that leaves proc_yield without a runnable process, no assertion of
\* the kernel fails.  Running out of process slots is the one FATAL that the
\* user can cause.
SystemStaysUp == fatal \in {"none", "proc_alloc: reach the limit"}

Servers == {GPID_FILE, GPID_DIR, GPID_NET}

\* The servers answer at the pids that servers.h fixes, although proc_alloc
\* hands out pids, and each is initialised before anyone can call it: the
\* shell and every application start after all three have reported.
ServersBootFirst ==
    \A p \in Pid : p >= GPID_SHELL /\ StatusOf(p) # "PROC_UNUSED" =>
       /\ PcOf(GPID_FILE) \in {"file_recv", "file_got"}
       /\ PcOf(GPID_DIR) \in {"dir_recv", "dir_got", "dir_block", "dir_reply"}
       /\ PcOf(GPID_NET) \in {"net_recv", "net_got"}
       /\ \A s \in Servers : ~ /\ StatusOf(s) = "PROC_WAIT_TO_SEND"
                               /\ to_receiver_pid[pid2idx(s)] = GPID_PROCESS
                               /\ sc[pid2idx(s)].content = "initialized"

\* Process s has called sys_send to p and the call has not completed.
SendingTo(s, p) ==
    \/ StatusOf(s) = "PROC_WAIT_TO_SEND" /\ to_receiver_pid[pid2idx(s)] = p
    \/ sc[pid2idx(s)].type = "SYS_SEND" /\ sc[pid2idx(s)].receiver = p

\* Process s has received from p, and not received anything since.
Took(s, p) == sc[pid2idx(s)].sender = p

\* Process s is at work on something that ends in a message to p.
Serving(s, p) ==
    \/ SendingTo(s, p)
    \/ s = GPID_FILE /\ \/ PcOf(s) = "file_init"
                        \/ PcOf(s) = "file_got" /\ Took(s, p)
    \/ s = GPID_NET /\ \/ PcOf(s) = "net_init"
                       \/ PcOf(s) = "net_got" /\ Took(s, p)
    \/ s = GPID_DIR /\ \/ PcOf(s) = "dir_init"
                       \/ PcOf(s) = "dir_got" /\ Took(s, p)
                       \/ PcOf(s) \in {"dir_block", "dir_reply"} /\ dir_client = p
    \/ /\ s = GPID_PROCESS
       /\ \/ PcOf(s) = "main_got" /\ Took(s, p)
          \/ PcOf(s) \in {"spawn_bin", "spawn_lookup", "spawn_ino",
                          "spawn_found", "load_send", "load_recv",
                          "spawn_ready", "spawn_reply", "exit_notice"}
          \/ PcOf(p) = "shell_fg" /\ StatusOf(app_pid) # "PROC_UNUSED"

\* No lost wake-up across the RPCs: a process blocked in a receive from a
\* named process is being served by it, so the message it waits for is on
\* its way.  In particular the shell waits for a foreground command only
\* while that command lives or its exit is being reported.
WaitersAreServed ==
    fatal = "none" =>
       \A i \in Idx :
          status[i] = "PROC_WAIT_TO_RECV" /\ from_sender_pid[i] # 0 =>
             Serving(from_sender_pid[i], idx2pid(i))

\* The shell has been told that its command runs in the foreground, or is
\* about to be, and has not been told that it is over.
ShellWaitsForeground ==
    \/ PcOf(GPID_SHELL) = "shell_reply" /\ shell_cmd \notin Background
    \/ /\ PcOf(GPID_SHELL) = "shell_fg"
       /\ \/ StatusOf(GPID_SHELL) = "PROC_WAIT_TO_RECV"
          \/ sc[pid2idx(GPID_SHELL)].type = "SYS_RECV"

\* sys_proc reports an exit to the shell only while the shell waits for its
\* foreground command, so the report never blocks sys_proc on a shell that
\* will not receive it: background processes, and the second exit of a process
\* that is killed while it exits, are not reported (sys_proc.c, PROC_EXIT).
NoticeOnlyForForeground ==
    PcOf(GPID_PROCESS) = "exit_notice" => ShellWaitsForeground

\* A server blocked on its reply to an application has a client that is
\* about to receive it, so the server will come back to its loop
\* (sys_file.c, sys_dir.c, sys_net.c: "Wait for ... requests").
ReplyIsWanted ==
    \A s \in Servers, p \in GPID_USER_START .. MAX_NPROCESS :
       StatusOf(s) = "PROC_WAIT_TO_SEND" /\ to_receiver_pid[pid2idx(s)] = p =>
          \/ PcOf(p) = WaitLabel(s)
          \/ sc[pid2idx(p)].type = "SYS_RECV" /\ sc[pid2idx(p)].sender = s

\* The assumption that sys_sleep states (syscall.c): when its sys_yield
\* returns, sys_proc has run and handled the PROC_SLEEP request.
SleepIsHandled ==
    InUserSpace /\ AtApp("slept") =>
       ~ /\ PcOf(GPID_PROCESS) = "main_got"
         /\ sc[pid2idx(GPID_PROCESS)].content = "PROC_SLEEP"
         /\ sc[pid2idx(GPID_PROCESS)].sender = curr_pid

-----------------------------------------------------------------------------
(***************************************************************************)
(* Liveness.  Interrupts are delivered; sys_proc and the servers run until *)
(* their next system call, because the timer does not preempt them; the    *)
(* shell and the applications are preempted, but a time slice is long      *)
(* enough for the few instructions between two system calls, so a step     *)
(* that is offered again and again is taken.  Applications are assumed to  *)
(* terminate: an application that keeps running exits in the end.          *)
(***************************************************************************)
Apps == pid2idx(GPID_USER_START) .. pid2idx(MAX_NPROCESS)

Fairness ==
    /\ WF_allVars(syscall) /\ WF_allVars(timer)
    /\ WF_allVars(sys_proc) /\ WF_allVars(sys_dir)
    /\ WF_allVars(sys_file) /\ WF_allVars(sys_net)
    /\ SF_allVars(shell_recv \/ shell_go_on \/ shell_wait)
    /\ \A i \in Apps :
          /\ SF_allVars(proc_curr_idx = i /\ (app_reply \/ app_sleep_yield))
          /\ SF_allVars(proc_curr_idx = i /\ app_exit)

EgosLive == EgosSpec /\ Fairness

\* Every command ends: after the shell has sent a request to sys_proc it
\* comes back to read or run the next command, through the lookups, the
\* loading, the run and the exit of the application (sys_shell.c, main).
ShellComesBack ==
    (PcOf(GPID_SHELL) = "shell_recv") ~> (InUserSpace /\ ShellAtNext)

\* A server blocked on a reply gets rid of it and goes on serving.
ServersReturn ==
    \A s \in Servers :
       (StatusOf(s) = "PROC_WAIT_TO_SEND") ~> (StatusOf(s) # "PROC_WAIT_TO_SEND")

\* A process that has entered exit(), on its own or after a ctrl+c, is
\* freed, and its slot can be allocated again (sys_proc.c, PROC_EXIT).
ExitIsFinal ==
    \A i \in Apps : (pc[i] \in {"exit", "exited"}) ~> (status[i] = "PROC_UNUSED")
=============================================================================
