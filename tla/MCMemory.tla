------------------------------ MODULE MCMemory ------------------------------
(***************************************************************************)
(* Memory for TLC.  View leaves out what is overwritten before it is read: *)
(* the content of the pages whose process is at the exec addresses, and    *)
(* the saved stacks of processes that run or do not exist.                 *)
(***************************************************************************)
EXTENDS MemoryIsolation

View ==
    <<bitmap, app_pages, curr_vm_pid, exec, stack, curr_pid, ready, started,
      loading, paddrs, stray, fatal,
      [q \in Page \ PagesOf(curr_vm_pid) |-> content[q]],
      [p \in started \ {curr_pid} |-> proc_stack[p]]>>
=============================================================================
