------------------------------ MODULE MCKernel ------------------------------
(***************************************************************************)
(* GrassIPC for TLC.  The kernel never clears from_sender_pid,             *)
(* to_receiver_pid or the system call structures, so states multiply by    *)
(* bytes nothing will read again: the waits of a process that is not       *)
(* blocked, and the message of a process that has neither a call in        *)
(* progress nor, through calls, just completed one.  View identifies two   *)
(* states that differ only in those.                                       *)
(***************************************************************************)
EXTENDS GrassIPC

HasCall(i) ==
    \/ status[i] = "PROC_WAIT_TO_SEND"
    \/ sc[i].type \in {"SYS_SEND", "SYS_RECV"}

View ==
    <<proc_curr_idx, pid, status, msip, fatal, mepc, calls,
      [i \in Idx |-> IF HasCall(i) THEN sc[i]
                     ELSE IF status[i] = "PROC_LOADING"
                          THEN <<sc[i] = FreshPage>> ELSE <<sc[i].type>>]>>
=============================================================================
