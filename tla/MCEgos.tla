------------------------------- MODULE MCEgos -------------------------------
(***************************************************************************)
(* Egos for TLC.  View identifies states that differ only in what nothing  *)
(* reads before writing it: fields of the process table and of the system  *)
(* call structures that belong to a call that is over, and locals of a     *)
(* program outside the part of it that uses them.                          *)
(***************************************************************************)
EXTENDS Egos

\* Applications in the foreground or not that call all the servers, and get
\* ctrl+c between their calls; and applications that call no server, with
\* killall, failing background commands and ctrl+c at any time.
CallsAndKills ==
    {[commands |-> {"SPAWN", "SPAWN &"}, servers |-> Servers,
      sleep |-> TRUE, ctrl_c |-> "between calls"],
     [commands |-> {"SPAWN", "SPAWN &", "SPAWN missing &", "PROC_KILLALL"},
      servers |-> {}, sleep |-> TRUE, ctrl_c |-> "any time"]}

\* One command after the other, that may not exist, fail or be killed.
OneAtATime ==
    {[commands |-> {"SPAWN", "SPAWN missing", "PROC_KILLALL"},
      servers |-> {GPID_FILE, GPID_DIR}, sleep |-> TRUE,
      ctrl_c |-> "between calls"]}

\* A background command, and a foreground command that does not exist.
FailedForeground ==
    {[commands |-> {"SPAWN &", "SPAWN missing"}, servers |-> {},
      sleep |-> FALSE, ctrl_c |-> "never"]}

\* ctrl+c while an application calls sys_file.
KilledInCall ==
    {[commands |-> {"SPAWN"}, servers |-> {GPID_FILE}, sleep |-> FALSE,
      ctrl_c |-> "any time"]}

\* Where a program looks at the message last received.
Reads == {"main_got", "spawn_found", "file_got", "net_got", "dir_got",
          "shell_reply"}

CallView(i) ==
    CASE sc[i].type = "SYS_RECV" -> <<"recv", sc[i].sender>>
      [] sc[i].type = "SYS_SEND" -> <<"send", sc[i].receiver, sc[i].content>>
      [] sc[i].type = "SYS_YIELD" -> <<"yield">>
      [] status[i] = "PROC_WAIT_TO_SEND" ->
            <<"blocked", to_receiver_pid[i], sc[i].content>>
      [] status[i] = "PROC_WAIT_TO_RECV" -> <<"waiting", from_sender_pid[i]>>
      [] i \in Schedulable(status) /\ sc[i].type = "SYS_UNUSED" /\ pc[i] \in Reads ->
            <<"got", sc[i].sender, sc[i].content>>
      [] OTHER -> <<>>

View ==
    <<scenario, proc_curr_idx, pid, status, mepc, msip, fatal, pc, booting,
      app_pid, shell_waiting, shell_cmd, [i \in Idx |-> CallView(i)],
      IF pc[0] \in {"spawn_bin", "spawn_lookup", "spawn_ino", "spawn_found",
                    "load_send", "load_recv", "spawn_ready", "spawn_reply"}
      THEN <<req, reads>> ELSE <<>>,
      IF PcOf(GPID_DIR) \in {"dir_block", "dir_reply"}
      THEN <<dir_client, dir_req>> ELSE <<>> >>
=============================================================================
