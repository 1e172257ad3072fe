------------------------------ MODULE GrassIPC ------------------------------
(***************************************************************************)
(* The grass kernel implements Rendezvous.  A call counts as posted from   *)
(* the moment its process raises MSIP, and as completed when the kernel    *)
(* copies the message; being blocked in the kernel, on either side, is     *)
(* invisible.                                                              *)
(***************************************************************************)
EXTENDS Grass

\* Process i is inside a send that the kernel has not blocked (or never will:
\* the assertion on the receiver stopped the machine).
Sending(i) ==
    \/ sc[i].type = "SYS_SEND"
    \/ fatal = "proc_send: no such receiver" /\ i = proc_curr_idx

CallOf(i) ==
    IF status[i] \in {"PROC_UNUSED", "PROC_LOADING"}
    THEN [mode |-> "dead", peer |-> 0, content |-> NoContent]
    ELSE IF status[i] = "PROC_WAIT_TO_SEND"
    THEN [mode |-> "send", peer |-> to_receiver_pid[i], content |-> sc[i].content]
    ELSE IF status[i] = "PROC_WAIT_TO_RECV"
    THEN [mode |-> "recv", peer |-> from_sender_pid[i], content |-> NoContent]
    ELSE IF Sending(i)
    THEN [mode |-> "send", peer |-> sc[i].receiver, content |-> sc[i].content]
    ELSE IF sc[i].type = "SYS_RECV"
    THEN [mode |-> "recv", peer |-> sc[i].sender, content |-> NoContent]
    ELSE [mode |-> "run", peer |-> sc[i].sender, content |-> sc[i].content]

calls == [p \in Pid |-> CallOf(pid2idx(p))]

IPC == INSTANCE Rendezvous
         WITH ipc <- calls, Proc <- Pid, First <- GPID_PROCESS,
              Mortal <- GPID_USER_START .. MAX_NPROCESS

\* The kernel's system calls and traps implement synchronous message passing:
\* no message is lost, repeated, altered or given to another process, and no
\* send or receive completes alone (syscall.c, proc_send and proc_recv).
ImplementsRendezvous == IPC!Spec
=============================================================================
