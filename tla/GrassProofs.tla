---------------------------- MODULE GrassProofs ----------------------------
(***************************************************************************)
(* Proofs about the grass kernel, for every number of slots, every set of  *)
(* message contents and every behaviour of the processes: its invariants,  *)
(* bounded bypass, and that it implements Rendezvous.                      *)
(***************************************************************************)
EXTENDS GrassIPC, TLAPS

\* The inductive invariant: the parts need each other.
Inv ==
    /\ TypeOK
    /\ OnlyCurrentRuns
    /\ SlotPid
    /\ SyscallPending
    /\ BlockedSenderKeepsMessage
    /\ NoMissedRendezvous

Waiting == {"PROC_WAIT_TO_SEND", "PROC_WAIT_TO_RECV"}

\* Statuses that the scheduler neither looks for nor sets.
Parked == {"PROC_UNUSED", "PROC_LOADING"} \cup Waiting

-----------------------------------------------------------------------------
(***************************************************************************)
(* Arithmetic of the scan.                                                 *)
(***************************************************************************)
\* The scan of proc_yield stays inside proc_set, and wraps around once.
LEMMA SlotRange ==
    ASSUME proc_curr_idx \in Idx, NEW k \in 1 .. MAX_NPROCESS
    PROVE  /\ Slot(k) \in Idx
           /\ Slot(k) = IF proc_curr_idx + k < MAX_NPROCESS
                        THEN proc_curr_idx + k
                        ELSE proc_curr_idx + k - MAX_NPROCESS
<1> DEFINE c == proc_curr_idx
<1>1. MAX_NPROCESS \in Nat /\ MAX_NPROCESS > 0 /\ c \in Nat /\ c < MAX_NPROCESS
      /\ k \in Nat /\ 1 <= k /\ k <= MAX_NPROCESS
  BY SizeAssumption DEF Idx, GPID_PROCESS
<1>2. (c + k) % MAX_NPROCESS = IF c + k < MAX_NPROCESS THEN c + k
                               ELSE c + k - MAX_NPROCESS
  BY <1>1, SMTT(30)
<1> QED BY <1>1, <1>2 DEF Slot, Idx

\* The scan reaches slot i at iteration Dist(proc_curr_idx, i).
LEMMA SlotOfDist ==
    ASSUME proc_curr_idx \in Idx, NEW i \in Idx
    PROVE  /\ Dist(proc_curr_idx, i) \in 1 .. MAX_NPROCESS
           /\ Slot(Dist(proc_curr_idx, i)) = i
<1>1. Dist(proc_curr_idx, i) \in 1 .. MAX_NPROCESS
  BY SizeAssumption DEF Dist, Idx
<1> QED BY <1>1, SlotRange, SizeAssumption DEF Dist, Idx

-----------------------------------------------------------------------------
(***************************************************************************)
(* What proc_yield does to the table, whatever statuses it is called with. *)
(***************************************************************************)
\* proc_yield keeps the types, gives the CPU to the one process it marks
\* PROC_RUNNING, and leaves blocked and unused processes as they are.
LEMMA YieldFacts ==
    ASSUME TypeOK, fatal = "none",
           NEW st \in [Idx -> Status],
           \A i \in Idx : st[i] = "PROC_RUNNING" => i = proc_curr_idx,
           proc_yield(st)
    PROVE  /\ proc_curr_idx' \in Idx
           /\ status' \in [Idx -> Status]
           /\ mepc' \in [Idx -> CodePoint]
           /\ fatal' \in Fatal
           /\ OnlyCurrentRuns'
           /\ \A i \in Idx, s \in Parked : status'[i] = s <=> st[i] = s
<1>1. CASE /\ Schedulable(st) = {}
           /\ fatal' = "proc_yield: no runnable process"
           /\ status' = st
           /\ UNCHANGED <<proc_curr_idx, mepc>>
  BY <1>1 DEF TypeOK, Fatal, OnlyCurrentRuns
<1>2. ASSUME NEW k \in 1 .. MAX_NPROCESS,
             FirstSchedulable(st, k),
             proc_curr_idx' = Slot(k),
             status' = SwitchTo(st, Slot(k)),
             mepc' = IF st[Slot(k)] = "PROC_READY"
                     THEN [mepc EXCEPT ![Slot(k)] = "app"] ELSE mepc,
             UNCHANGED fatal
      PROVE  /\ proc_curr_idx' \in Idx
             /\ status' \in [Idx -> Status]
             /\ mepc' \in [Idx -> CodePoint]
             /\ fatal' \in Fatal
             /\ OnlyCurrentRuns'
             /\ \A i \in Idx, s \in Parked : status'[i] = s <=> st[i] = s
  <2> DEFINE n == Slot(k)
  <2>1. n \in Idx BY SlotRange DEF TypeOK
  <2>2. st[n] \in {"PROC_READY", "PROC_RUNNING", "PROC_RUNNABLE"}
    BY <1>2 DEF FirstSchedulable, Schedulable
  <2> HIDE DEF n
  <2>3. status' = [i \in Idx |->
                     IF i = n THEN "PROC_RUNNING"
                     ELSE IF i = proc_curr_idx /\ st[i] = "PROC_RUNNING"
                          THEN "PROC_RUNNABLE" ELSE st[i]]
    BY <1>2 DEF SwitchTo, n
  <2>4. \A i \in Idx : \/ i = n /\ status'[i] = "PROC_RUNNING"
                       \/ /\ i # n /\ i = proc_curr_idx
                          /\ st[i] = "PROC_RUNNING"
                          /\ status'[i] = "PROC_RUNNABLE"
                       \/ /\ i # n
                          /\ ~ (i = proc_curr_idx /\ st[i] = "PROC_RUNNING")
                          /\ status'[i] = st[i]
    BY <2>3
  <2>5. status' \in [Idx -> Status] BY <2>3 DEF Status
  <2>6. proc_curr_idx' = n /\ n \in Idx BY <1>2, <2>1 DEF n
  <2>7. mepc' \in [Idx -> CodePoint] BY <1>2, <2>1 DEF TypeOK, CodePoint, n
  <2>8. fatal' \in Fatal BY <1>2 DEF TypeOK
  <2>9. OnlyCurrentRuns' BY <2>4, <2>6 DEF OnlyCurrentRuns
  <2>10. \A i \in Idx, s \in Parked : status'[i] = s <=> st[i] = s
    BY <2>2, <2>4 DEF Parked, Waiting
  <2> QED BY <2>5, <2>6, <2>7, <2>8, <2>9, <2>10
<1> QED BY <1>1, <1>2 DEF proc_yield

-----------------------------------------------------------------------------
(***************************************************************************)
(* Init and the steps of Next, one lemma for each kind of step.            *)
(***************************************************************************)
\* The state grass main() leaves satisfies the invariant.
LEMMA InvInit == Init => Inv
<1> SUFFICES ASSUME Init PROVE Inv OBVIOUS
<1> USE SizeAssumption, ContentAssumption DEF Init, GPID_PROCESS
<1>1. TypeOK
  <2>1. proc_curr_idx \in Idx BY DEF Idx
  <2>2. pid \in [Idx -> 0 .. MAX_NPROCESS] OBVIOUS
  <2>3. status \in [Idx -> Status] BY DEF Status
  <2>4. from_sender_pid \in [Idx -> 0 .. MAX_NPROCESS] OBVIOUS
  <2>5. to_receiver_pid \in [Idx -> 0 .. MAX_NPROCESS] OBVIOUS
  <2>6. mepc \in [Idx -> CodePoint] BY DEF CodePoint
  <2>7. FreshPage \in Syscall BY DEF FreshPage, Syscall, SyscallType
  <2>8. sc \in [Idx -> Syscall] BY <2>7
  <2>9. fatal \in Fatal BY DEF Fatal
  <2> QED BY <2>1, <2>2, <2>3, <2>4, <2>5, <2>6, <2>8, <2>9 DEF TypeOK
<1>2. OnlyCurrentRuns BY DEF OnlyCurrentRuns
<1>3. SlotPid BY DEF SlotPid, idx2pid
<1>4. SyscallPending BY DEF SyscallPending
<1>5. BlockedSenderKeepsMessage BY DEF BlockedSenderKeepsMessage
<1>6. NoMissedRendezvous BY DEF NoMissedRendezvous
<1> QED BY <1>1, <1>2, <1>3, <1>4, <1>5, <1>6 DEF Inv

\* Filling the system call structure of the running process and raising MSIP
\* disturbs no blocked process: the running process is not blocked.
LEMMA InvInvoke ==
    ASSUME Inv, InUserSpace,
           NEW call \in Syscall, WellFormed(call),
           sys_invoke(call), mepc' \in [Idx -> CodePoint]
    PROVE  Inv'
<1>1. TypeOK' BY DEF Inv, TypeOK, sys_invoke
<1>2. OnlyCurrentRuns' BY DEF Inv, OnlyCurrentRuns, sys_invoke
<1>3. SlotPid' BY DEF Inv, SlotPid, sys_invoke
<1>4. SyscallPending' BY DEF Inv, TypeOK, SyscallPending, sys_invoke
<1>5. BlockedSenderKeepsMessage'
  <2>1. status[proc_curr_idx] = "PROC_RUNNING"
    BY DEF Inv, TypeOK, OnlyCurrentRuns, InUserSpace
  <2>2. \A i \in Idx : i # proc_curr_idx => sc'[i] = sc[i]
    BY DEF Inv, TypeOK, sys_invoke
  <2> QED BY <2>1, <2>2 DEF Inv, BlockedSenderKeepsMessage, sys_invoke
<1>6. NoMissedRendezvous'
  BY DEF Inv, NoMissedRendezvous, WaitsFor, sys_invoke
<1> QED BY <1>1, <1>2, <1>3, <1>4, <1>5, <1>6 DEF Inv

\* The user-level half of every system call preserves the invariant.
LEMMA InvSyscallStep == Inv /\ SyscallStep => Inv'
<1> SUFFICES ASSUME Inv, SyscallStep PROVE Inv' OBVIOUS
<1>0. TypeOK /\ proc_curr_idx \in Idx /\ sc[proc_curr_idx] \in Syscall
  BY DEF Inv, TypeOK
<1>1. CASE sys_yield
  <2>1. [sc[proc_curr_idx] EXCEPT !.type = "SYS_YIELD"] \in Syscall
    BY <1>0 DEF Syscall, SyscallType
  <2>2. WellFormed([sc[proc_curr_idx] EXCEPT !.type = "SYS_YIELD"])
    BY <1>0 DEF Syscall, WellFormed
  <2> QED BY <1>0, <1>1, <2>1, <2>2, InvInvoke DEF sys_yield, TypeOK
<1>2. ASSUME NEW q \in Pid, NEW m \in Contents
      PROVE  /\ SendCall(q, m) \in Syscall
             /\ WellFormed(SendCall(q, m))
  <2>1. q \in 0 .. MAX_NPROCESS BY SizeAssumption DEF Pid
  <2>2. m \in Contents \cup {NoContent} OBVIOUS
  <2>3. SendCall(q, m) \in Syscall
    BY <1>0, <2>1, <2>2 DEF SendCall, Syscall, SyscallType
  <2>4. /\ SendCall(q, m).type = "SYS_SEND"
        /\ SendCall(q, m).receiver = q
        /\ SendCall(q, m).content = m
    BY <1>0 DEF SendCall, Syscall
  <2> QED BY <2>3, <2>4 DEF WellFormed
<1>3. ASSUME NEW q \in Pid, NEW m \in Contents, sys_send(q, m) PROVE Inv'
  BY <1>0, <1>2, <1>3, InvInvoke DEF sys_send, TypeOK
<1>4. ASSUME NEW s \in 0 .. MAX_NPROCESS, sys_recv(s) PROVE Inv'
  <2>1. CASE s < MAX_NPROCESS
    <3> DEFINE call == [sc[proc_curr_idx] EXCEPT !.type = "SYS_RECV",
                                                 !.sender = s]
    <3>1. call \in Syscall /\ WellFormed(call)
      BY <1>0, <2>1 DEF Syscall, SyscallType, WellFormed
    <3>2. ~ (s >= MAX_NPROCESS) BY <2>1, SizeAssumption
    <3>3. InUserSpace /\ sys_invoke(call) /\ UNCHANGED mepc
      BY <1>4, <3>2, Zenon DEF sys_recv
    <3> QED BY <1>0, <3>1, <3>3, InvInvoke DEF TypeOK
  <2>2. CASE /\ fatal' = "sys_recv: sender out of range"
             /\ UNCHANGED <<proc_curr_idx, pid, status, from_sender_pid,
                            to_receiver_pid, mepc, sc, msip>>
    BY <2>2 DEF Inv, TypeOK, Fatal, OnlyCurrentRuns, SlotPid, SyscallPending,
                BlockedSenderKeepsMessage, NoMissedRendezvous, WaitsFor
  <2> QED BY <1>4, <2>1, <2>2 DEF sys_recv
<1>5. CASE sys_exit
  <2>1. GPID_PROCESS \in Pid BY SizeAssumption DEF Pid, GPID_PROCESS
  <2>2. mepc' \in [Idx -> CodePoint]
    BY <1>0, <1>5 DEF sys_exit, TypeOK, CodePoint
  <2> QED BY <1>2, <1>5, <2>1, <2>2, InvInvoke, ContentAssumption DEF sys_exit
<1> QED BY <1>1, <1>3, <1>4, <1>5 DEF SyscallStep

\* What a handler that ends in proc_yield owes: st, the statuses it calls
\* proc_yield with, still describes blocked senders whose message is in place
\* and leaves no matching sender and receiver both blocked.
LEMMA InvYield ==
    ASSUME Inv, fatal = "none",
           NEW st \in [Idx -> Status],
           \A i \in Idx : st[i] = "PROC_RUNNING" => i = proc_curr_idx,
           \A i \in Idx : status[i] = "PROC_UNUSED" => st[i] = "PROC_UNUSED",
           pid' = pid,
           msip' = FALSE,
           from_sender_pid' \in [Idx -> 0 .. MAX_NPROCESS],
           to_receiver_pid' \in [Idx -> 0 .. MAX_NPROCESS],
           sc' \in [Idx -> Syscall],
           \A i \in Idx : st[i] = "PROC_WAIT_TO_SEND" =>
              /\ sc'[i].sender = idx2pid(i)
              /\ sc'[i].receiver = to_receiver_pid'[i]
              /\ sc'[i].content \in Contents,
           \A i, j \in Idx :
              ~ /\ st[i] = "PROC_WAIT_TO_SEND"
                /\ to_receiver_pid'[i] = idx2pid(j)
                /\ st[j] = "PROC_WAIT_TO_RECV"
                /\ from_sender_pid'[j] \in {0, idx2pid(i)},
           proc_yield(st)
    PROVE  Inv'
<1>1. /\ proc_curr_idx' \in Idx
      /\ status' \in [Idx -> Status]
      /\ mepc' \in [Idx -> CodePoint]
      /\ fatal' \in Fatal
      /\ OnlyCurrentRuns'
      /\ \A i \in Idx, s \in Parked : status'[i] = s <=> st[i] = s
  BY YieldFacts DEF Inv
<1>2. \A i \in Idx :
        /\ status'[i] = "PROC_UNUSED" <=> st[i] = "PROC_UNUSED"
        /\ status'[i] = "PROC_WAIT_TO_SEND" <=> st[i] = "PROC_WAIT_TO_SEND"
        /\ status'[i] = "PROC_WAIT_TO_RECV" <=> st[i] = "PROC_WAIT_TO_RECV"
  BY <1>1 DEF Parked, Waiting
<1>3. TypeOK' BY <1>1 DEF Inv, TypeOK
<1>4. SlotPid' BY <1>2 DEF Inv, SlotPid
<1>5. SyscallPending' BY DEF SyscallPending
<1>6. BlockedSenderKeepsMessage' BY <1>2 DEF BlockedSenderKeepsMessage
<1>7. NoMissedRendezvous' BY <1>2 DEF NoMissedRendezvous, WaitsFor
<1> QED BY <1>1, <1>3, <1>4, <1>5, <1>6, <1>7 DEF Inv

\* Taking the call out of the structure, and signing it, keeps its type and
\* leaves the other structures alone.
LEMMA ScFacts ==
    ASSUME TypeOK, SlotPid, fatal = "none", OnlyCurrentRuns
    PROVE  /\ curr_pid = idx2pid(proc_curr_idx)
           /\ curr_pid \in Pid
           /\ status[proc_curr_idx] = "PROC_RUNNING"
           /\ ScTaken \in [Idx -> Syscall]
           /\ ScSigned \in [Idx -> Syscall]
           /\ \A i \in Idx : i # proc_curr_idx =>
                 ScTaken[i] = sc[i] /\ ScSigned[i] = sc[i]
           /\ ScSigned[proc_curr_idx].sender = curr_pid
           /\ ScSigned[proc_curr_idx].receiver = sc[proc_curr_idx].receiver
           /\ ScSigned[proc_curr_idx].content = sc[proc_curr_idx].content
<1>1. proc_curr_idx \in Idx /\ sc \in [Idx -> Syscall] BY DEF TypeOK
<1>2. status[proc_curr_idx] = "PROC_RUNNING" BY <1>1 DEF OnlyCurrentRuns
<1>3. curr_pid = idx2pid(proc_curr_idx) BY <1>1, <1>2 DEF SlotPid, curr_pid
<1>4. curr_pid \in Pid /\ curr_pid \in 0 .. MAX_NPROCESS
  BY <1>1, <1>3, SizeAssumption DEF idx2pid, Idx, Pid
<1>5. ScTaken \in [Idx -> Syscall]
  BY <1>1 DEF ScTaken, Syscall, SyscallType
<1>6. \A i \in Idx : i # proc_curr_idx => ScTaken[i] = sc[i]
  BY <1>1 DEF ScTaken
<1>7. /\ ScTaken[proc_curr_idx].receiver = sc[proc_curr_idx].receiver
      /\ ScTaken[proc_curr_idx].content = sc[proc_curr_idx].content
  BY <1>1 DEF ScTaken, Syscall
<1>8. ScSigned \in [Idx -> Syscall]
  BY <1>1, <1>4, <1>5 DEF ScSigned, Syscall
<1>9. \A i \in Idx : i # proc_curr_idx => ScSigned[i] = sc[i]
  BY <1>1, <1>5, <1>6 DEF ScSigned
<1>10. /\ ScSigned[proc_curr_idx].sender = curr_pid
       /\ ScSigned[proc_curr_idx].receiver = ScTaken[proc_curr_idx].receiver
       /\ ScSigned[proc_curr_idx].content = ScTaken[proc_curr_idx].content
  BY <1>1, <1>5 DEF ScSigned, Syscall
<1> QED BY <1>2, <1>3, <1>4, <1>5, <1>6, <1>7, <1>8, <1>9, <1>10

\* msgcpy changes the structure of the destination only, and makes its
\* message equal to that of the source.
LEMMA MsgcpyFacts ==
    ASSUME NEW s \in [Idx -> Syscall], NEW src \in Idx, NEW dst \in Idx
    PROVE  /\ msgcpy(s, src, dst) \in [Idx -> Syscall]
           /\ \A i \in Idx : i # dst => msgcpy(s, src, dst)[i] = s[i]
           /\ msgcpy(s, src, dst)[dst].sender = s[src].sender
           /\ msgcpy(s, src, dst)[dst].receiver = s[src].receiver
           /\ msgcpy(s, src, dst)[dst].content = s[src].content
           /\ msgcpy(s, src, dst)[dst].type = s[dst].type
<1> DEFINE s1 == [s EXCEPT ![dst].sender = s[src].sender]
           s2 == [s1 EXCEPT ![dst].receiver = s[src].receiver]
           s3 == [s2 EXCEPT ![dst].content = s[src].content]
<1>0. s[src] \in Syscall /\ s[dst] \in Syscall OBVIOUS
<1>1. s1 \in [Idx -> Syscall] BY <1>0 DEF Syscall
<1>2. /\ \A i \in Idx : i # dst => s1[i] = s[i]
      /\ s1[dst].sender = s[src].sender /\ s1[dst].type = s[dst].type
  BY <1>0 DEF Syscall
<1> HIDE DEF s1
<1>3. s2 \in [Idx -> Syscall] BY <1>0, <1>1 DEF Syscall
<1>4. /\ \A i \in Idx : i # dst => s2[i] = s1[i]
      /\ s2[dst].receiver = s[src].receiver /\ s2[dst].type = s1[dst].type
      /\ s2[dst].sender = s1[dst].sender
  BY <1>0, <1>1 DEF Syscall
<1> HIDE DEF s2
<1>5. s3 \in [Idx -> Syscall] BY <1>0, <1>3 DEF Syscall
<1>6. /\ \A i \in Idx : i # dst => s3[i] = s2[i]
      /\ s3[dst].content = s[src].content /\ s3[dst].type = s2[dst].type
      /\ s3[dst].sender = s2[dst].sender /\ s3[dst].receiver = s2[dst].receiver
  BY <1>0, <1>3 DEF Syscall
<1>7. msgcpy(s, src, dst) = s3 BY DEF msgcpy, s1, s2, s3
<1> HIDE DEF s3
<1> QED BY <1>2, <1>4, <1>5, <1>6, <1>7

\* proc_send: the sender blocks only on a receiver that does not accept it,
\* and otherwise the receiver leaves its wait with the message.
LEMMA InvSend ==
    ASSUME Inv, fatal = "none", msip, msip' = FALSE, pid' = pid,
           sc[proc_curr_idx].type = "SYS_SEND",
           proc_send, UNCHANGED from_sender_pid
    PROVE  Inv'
<1> DEFINE c == proc_curr_idx
           receiver == sc[c].receiver
           r == pid2idx(receiver)
<1>0. TypeOK /\ SlotPid /\ OnlyCurrentRuns /\ c \in Idx BY DEF Inv, TypeOK
<1>1. receiver \in Pid /\ sc[c].content \in Contents
  BY DEF Inv, SyscallPending, WellFormed
<1>2. r \in Idx /\ idx2pid(r) = receiver /\ receiver \in 0 .. MAX_NPROCESS
  BY <1>1, SizeAssumption DEF pid2idx, idx2pid, Idx, Pid
<1>3. /\ curr_pid = idx2pid(c)
      /\ status[c] = "PROC_RUNNING"
      /\ ScSigned \in [Idx -> Syscall]
      /\ \A i \in Idx : i # c => ScSigned[i] = sc[i]
      /\ ScSigned[c].sender = curr_pid
      /\ ScSigned[c].receiver = receiver
      /\ ScSigned[c].content = sc[c].content
  BY <1>0, ScFacts
<1>4. /\ status \in [Idx -> Status]
      /\ \A i \in Idx : status[i] = "PROC_RUNNING" => i = c
  BY <1>0 DEF TypeOK, OnlyCurrentRuns
<1>5. from_sender_pid' \in [Idx -> 0 .. MAX_NPROCESS] BY <1>0 DEF TypeOK
<1>6. CASE /\ sc' = ScSigned
           /\ fatal' = "proc_send: no such receiver"
           /\ UNCHANGED <<proc_curr_idx, status, to_receiver_pid, mepc>>
  <2>1. TypeOK' BY <1>0, <1>3, <1>6 DEF TypeOK, Fatal
  <2>2. OnlyCurrentRuns' BY <1>6 DEF OnlyCurrentRuns
  <2>3. SlotPid' BY <1>0, <1>6 DEF SlotPid
  <2>4. SyscallPending' BY DEF SyscallPending
  <2>5. BlockedSenderKeepsMessage'
    BY <1>3, <1>6 DEF Inv, BlockedSenderKeepsMessage
  <2>6. NoMissedRendezvous' BY <1>6 DEF Inv, NoMissedRendezvous, WaitsFor
  <2> QED BY <2>1, <2>2, <2>3, <2>4, <2>5, <2>6 DEF Inv
<1>7. CASE /\ ~WaitsFor(r, curr_pid)
           /\ sc' = ScSigned
           /\ to_receiver_pid' = [to_receiver_pid EXCEPT ![c] = receiver]
           /\ proc_yield([status EXCEPT ![c] = "PROC_WAIT_TO_SEND"])
  <2> DEFINE st == [status EXCEPT ![c] = "PROC_WAIT_TO_SEND"]
  <2>1. /\ st \in [Idx -> Status]
        /\ st[c] = "PROC_WAIT_TO_SEND"
        /\ \A i \in Idx : i # c => st[i] = status[i]
    BY <1>0, <1>4 DEF Status
  <2>2. /\ to_receiver_pid' \in [Idx -> 0 .. MAX_NPROCESS]
        /\ to_receiver_pid'[c] = receiver
        /\ \A i \in Idx : i # c => to_receiver_pid'[i] = to_receiver_pid[i]
    BY <1>0, <1>2, <1>7 DEF TypeOK
  <2> HIDE DEF st
  <2>3. /\ \A i \in Idx : st[i] = "PROC_RUNNING" => i = c
        /\ \A i \in Idx : status[i] = "PROC_UNUSED" => st[i] = "PROC_UNUSED"
    BY <1>3, <1>4, <2>1
  <2>4. ASSUME NEW i \in Idx, st[i] = "PROC_WAIT_TO_SEND"
        PROVE  /\ sc'[i].sender = idx2pid(i)
               /\ sc'[i].receiver = to_receiver_pid'[i]
               /\ sc'[i].content \in Contents
    BY <1>1, <1>3, <1>7, <2>1, <2>2, <2>4 DEF Inv, BlockedSenderKeepsMessage
  <2>5. ASSUME NEW i \in Idx, NEW j \in Idx,
               st[i] = "PROC_WAIT_TO_SEND",
               to_receiver_pid'[i] = idx2pid(j),
               st[j] = "PROC_WAIT_TO_RECV",
               from_sender_pid'[j] \in {0, idx2pid(i)}
        PROVE  FALSE
    <3>1. j # c /\ status[j] = "PROC_WAIT_TO_RECV" BY <2>1, <2>5
    <3>2. CASE i = c
      <4>1. j = r BY <1>2, <2>2, <2>5, <3>2 DEF idx2pid, Idx
      <4> QED BY <1>3, <1>7, <2>5, <3>1, <3>2, <4>1 DEF WaitsFor
    <3>3. CASE i # c
      BY <2>1, <2>2, <2>5, <3>1, <3>3 DEF Inv, NoMissedRendezvous, WaitsFor
    <3> QED BY <3>2, <3>3
  <2>6. proc_yield(st) BY <1>7 DEF st
  <2>7. sc' \in [Idx -> Syscall] BY <1>3, <1>7
  <2> QED BY <1>5, <2>1, <2>2, <2>3, <2>4, <2>5, <2>6, <2>7, InvYield
<1>8. CASE /\ WaitsFor(r, curr_pid)
           /\ sc' = msgcpy(ScSigned, c, r)
           /\ UNCHANGED to_receiver_pid
           /\ proc_yield([status EXCEPT ![r] = "PROC_RUNNABLE"])
  <2> DEFINE st == [status EXCEPT ![r] = "PROC_RUNNABLE"]
  <2>0. status[r] = "PROC_WAIT_TO_RECV" BY <1>8 DEF WaitsFor
  <2> HIDE DEF r
  <2>1. /\ st \in [Idx -> Status]
        /\ st[r] = "PROC_RUNNABLE"
        /\ \A i \in Idx : i # r => st[i] = status[i]
    BY <1>2, <1>4 DEF Status
  <2>2. /\ sc' \in [Idx -> Syscall]
        /\ \A i \in Idx : i # r => sc'[i] = ScSigned[i]
    BY <1>0, <1>2, <1>3, <1>8, MsgcpyFacts
  <2> HIDE DEF st
  <2>3. /\ \A i \in Idx : st[i] = "PROC_RUNNING" => i = c
        /\ \A i \in Idx : status[i] = "PROC_UNUSED" => st[i] = "PROC_UNUSED"
    BY <1>4, <2>0, <2>1
  <2>4. ASSUME NEW i \in Idx, st[i] = "PROC_WAIT_TO_SEND"
        PROVE  /\ sc'[i].sender = idx2pid(i)
               /\ sc'[i].receiver = to_receiver_pid'[i]
               /\ sc'[i].content \in Contents
    <3>1. i # r /\ i # c /\ status[i] = "PROC_WAIT_TO_SEND"
      BY <1>3, <2>0, <2>1, <2>4
    <3> QED BY <1>3, <1>8, <2>2, <3>1 DEF Inv, BlockedSenderKeepsMessage
  <2>5. ASSUME NEW i \in Idx, NEW j \in Idx,
               st[i] = "PROC_WAIT_TO_SEND",
               to_receiver_pid'[i] = idx2pid(j),
               st[j] = "PROC_WAIT_TO_RECV",
               from_sender_pid'[j] \in {0, idx2pid(i)}
        PROVE  FALSE
    <3>1. status[i] = "PROC_WAIT_TO_SEND" /\ status[j] = "PROC_WAIT_TO_RECV"
      BY <2>0, <2>1, <2>5
    <3> QED BY <1>8, <2>5, <3>1 DEF Inv, NoMissedRendezvous, WaitsFor
  <2>6. proc_yield(st) BY <1>8 DEF st
  <2>7. to_receiver_pid' \in [Idx -> 0 .. MAX_NPROCESS]
    BY <1>0, <1>8 DEF TypeOK
  <2> QED BY <1>5, <2>1, <2>2, <2>3, <2>4, <2>5, <2>6, <2>7, InvYield
<1> QED BY <1>6, <1>7, <1>8 DEF proc_send

\* proc_recv: the receiver blocks only when no blocked sender matches, and
\* otherwise the chosen sender leaves its wait.
LEMMA InvRecv ==
    ASSUME Inv, fatal = "none", msip, msip' = FALSE, pid' = pid,
           sc[proc_curr_idx].type = "SYS_RECV",
           proc_recv, UNCHANGED to_receiver_pid
    PROVE  Inv'
<1> DEFINE c == proc_curr_idx
           exp == sc[c].sender
           senders == Senders(exp)
<1>0. TypeOK /\ SlotPid /\ OnlyCurrentRuns /\ c \in Idx BY DEF Inv, TypeOK
<1>1. exp \in 0 .. MAX_NPROCESS BY <1>0 DEF TypeOK, Syscall
<1>3. /\ curr_pid = idx2pid(c)
      /\ status[c] = "PROC_RUNNING"
      /\ ScTaken \in [Idx -> Syscall]
      /\ \A i \in Idx : i # c => ScTaken[i] = sc[i]
  BY <1>0, ScFacts
<1>4. /\ status \in [Idx -> Status]
      /\ \A i \in Idx : status[i] = "PROC_RUNNING" => i = c
  BY <1>0 DEF TypeOK, OnlyCurrentRuns
<1>5. to_receiver_pid' \in [Idx -> 0 .. MAX_NPROCESS] BY <1>0 DEF TypeOK
<1>6. /\ from_sender_pid' \in [Idx -> 0 .. MAX_NPROCESS]
      /\ from_sender_pid'[c] = exp
      /\ \A i \in Idx : i # c => from_sender_pid'[i] = from_sender_pid[i]
  BY <1>0, <1>1 DEF TypeOK, proc_recv
<1>7. CASE /\ senders = {}
           /\ sc' = ScTaken
           /\ proc_yield([status EXCEPT ![c] = "PROC_WAIT_TO_RECV"])
  <2> DEFINE st == [status EXCEPT ![c] = "PROC_WAIT_TO_RECV"]
  <2>1. /\ st \in [Idx -> Status]
        /\ st[c] = "PROC_WAIT_TO_RECV"
        /\ \A i \in Idx : i # c => st[i] = status[i]
    BY <1>0, <1>4 DEF Status
  <2> HIDE DEF st
  <2>3. /\ \A i \in Idx : st[i] = "PROC_RUNNING" => i = c
        /\ \A i \in Idx : status[i] = "PROC_UNUSED" => st[i] = "PROC_UNUSED"
    BY <1>3, <1>4, <2>1
  <2>4. ASSUME NEW i \in Idx, st[i] = "PROC_WAIT_TO_SEND"
        PROVE  /\ sc'[i].sender = idx2pid(i)
               /\ sc'[i].receiver = to_receiver_pid'[i]
               /\ sc'[i].content \in Contents
    <3>1. i # c /\ status[i] = "PROC_WAIT_TO_SEND" BY <2>1, <2>4
    <3> QED BY <1>3, <1>7, <3>1 DEF Inv, BlockedSenderKeepsMessage
  <2>5. ASSUME NEW i \in Idx, NEW j \in Idx,
               st[i] = "PROC_WAIT_TO_SEND",
               to_receiver_pid'[i] = idx2pid(j),
               st[j] = "PROC_WAIT_TO_RECV",
               from_sender_pid'[j] \in {0, idx2pid(i)}
        PROVE  FALSE
    <3>1. i # c /\ status[i] = "PROC_WAIT_TO_SEND" BY <2>1, <2>5
    <3>2. CASE j = c
      <4>1. exp \in {0, idx2pid(i)} BY <1>6, <2>5, <3>2
      <4>2. to_receiver_pid[i] = curr_pid BY <1>3, <2>5, <3>2
      <4> QED BY <1>7, <3>1, <4>1, <4>2 DEF Senders
    <3>3. CASE j # c
      BY <1>6, <2>1, <2>5, <3>1, <3>3 DEF Inv, NoMissedRendezvous, WaitsFor
    <3> QED BY <3>2, <3>3
  <2>6. proc_yield(st) BY <1>7 DEF st
  <2>7. sc' \in [Idx -> Syscall] BY <1>3, <1>7
  <2> QED BY <1>5, <1>6, <2>1, <2>3, <2>4, <2>5, <2>6, <2>7, InvYield
<1>8. ASSUME NEW s \in senders,
             sc' = msgcpy(ScTaken, s, c),
             proc_yield([status EXCEPT ![s] = "PROC_RUNNABLE"])
      PROVE  Inv'
  <2> DEFINE st == [status EXCEPT ![s] = "PROC_RUNNABLE"]
  <2>0. s \in Idx /\ status[s] = "PROC_WAIT_TO_SEND" BY <1>8 DEF Senders
  <2>1. /\ st \in [Idx -> Status]
        /\ st[s] = "PROC_RUNNABLE"
        /\ \A i \in Idx : i # s => st[i] = status[i]
    BY <1>4, <2>0 DEF Status
  <2>2. /\ sc' \in [Idx -> Syscall]
        /\ \A i \in Idx : i # c => sc'[i] = ScTaken[i]
    BY <1>0, <1>3, <1>8, <2>0, MsgcpyFacts
  <2> HIDE DEF st
  <2>3. /\ \A i \in Idx : st[i] = "PROC_RUNNING" => i = c
        /\ \A i \in Idx : status[i] = "PROC_UNUSED" => st[i] = "PROC_UNUSED"
    BY <1>4, <2>0, <2>1
  <2>4. ASSUME NEW i \in Idx, st[i] = "PROC_WAIT_TO_SEND"
        PROVE  /\ sc'[i].sender = idx2pid(i)
               /\ sc'[i].receiver = to_receiver_pid'[i]
               /\ sc'[i].content \in Contents
    <3>1. i # c /\ status[i] = "PROC_WAIT_TO_SEND" BY <1>3, <2>0, <2>1, <2>4
    <3> QED BY <1>3, <2>2, <3>1 DEF Inv, BlockedSenderKeepsMessage
  <2>5. ASSUME NEW i \in Idx, NEW j \in Idx,
               st[i] = "PROC_WAIT_TO_SEND",
               to_receiver_pid'[i] = idx2pid(j),
               st[j] = "PROC_WAIT_TO_RECV",
               from_sender_pid'[j] \in {0, idx2pid(i)}
        PROVE  FALSE
    <3>1. /\ status[i] = "PROC_WAIT_TO_SEND"
          /\ status[j] = "PROC_WAIT_TO_RECV" /\ j # c
      BY <1>3, <2>0, <2>1, <2>5
    <3> QED BY <1>6, <2>5, <3>1 DEF Inv, NoMissedRendezvous, WaitsFor
  <2>6. proc_yield(st) BY <1>8 DEF st
  <2> QED BY <1>5, <1>6, <2>1, <2>2, <2>3, <2>4, <2>5, <2>6, InvYield
<1> QED BY <1>7, <1>8 DEF proc_recv

\* A yield that blocks nobody: SYS_YIELD and the preemption by the timer.
LEMMA InvPlainYield ==
    ASSUME Inv, fatal = "none", proc_yield(status),
           pid' = pid, msip' = FALSE,
           UNCHANGED <<from_sender_pid, to_receiver_pid>>,
           sc' \in [Idx -> Syscall],
           \A i \in Idx : i # proc_curr_idx => sc'[i] = sc[i]
    PROVE  Inv'
<1>1. /\ status \in [Idx -> Status]
      /\ from_sender_pid' \in [Idx -> 0 .. MAX_NPROCESS]
      /\ to_receiver_pid' \in [Idx -> 0 .. MAX_NPROCESS]
  BY DEF Inv, TypeOK
<1>2. \A i \in Idx : status[i] = "PROC_RUNNING" <=> i = proc_curr_idx
  BY DEF Inv, OnlyCurrentRuns
<1>3. \A i \in Idx : status[i] = "PROC_WAIT_TO_SEND" =>
        /\ sc'[i].sender = idx2pid(i)
        /\ sc'[i].receiver = to_receiver_pid'[i]
        /\ sc'[i].content \in Contents
  BY <1>2 DEF Inv, BlockedSenderKeepsMessage
<1>4. \A i, j \in Idx :
        ~ /\ status[i] = "PROC_WAIT_TO_SEND"
          /\ to_receiver_pid'[i] = idx2pid(j)
          /\ status[j] = "PROC_WAIT_TO_RECV"
          /\ from_sender_pid'[j] \in {0, idx2pid(i)}
  BY DEF Inv, NoMissedRendezvous, WaitsFor
<1> QED BY <1>1, <1>2, <1>3, <1>4, InvYield

\* Every trap preserves the invariant.
LEMMA InvTrap == Inv /\ Trap => Inv'
<1> SUFFICES ASSUME Inv, Trap PROVE Inv' OBVIOUS
<1>0. TypeOK /\ SlotPid /\ OnlyCurrentRuns BY DEF Inv
<1>1. CASE intr_ctrl_c
  <2>1. mepc' \in [Idx -> CodePoint]
    BY <1>0, <1>1 DEF TypeOK, CodePoint, intr_ctrl_c
  <2> QED
    BY <1>1, <2>1 DEF Inv, TypeOK, OnlyCurrentRuns, SlotPid, SyscallPending,
       BlockedSenderKeepsMessage, NoMissedRendezvous, WaitsFor, intr_ctrl_c
<1>2. CASE intr_soft
  <2>0. fatal = "none" /\ msip /\ msip' = FALSE /\ pid' = pid
    BY <1>2 DEF intr_soft, proc_syscall
  <2>1. CASE /\ sc[proc_curr_idx].type = "SYS_RECV"
             /\ proc_recv /\ UNCHANGED to_receiver_pid
    BY <2>0, <2>1, InvRecv
  <2>2. CASE /\ sc[proc_curr_idx].type = "SYS_SEND"
             /\ proc_send /\ UNCHANGED from_sender_pid
    BY <2>0, <2>2, InvSend
  <2>3. CASE /\ sc' = ScTaken /\ proc_yield(status)
             /\ UNCHANGED <<from_sender_pid, to_receiver_pid>>
    <3>1. /\ ScTaken \in [Idx -> Syscall]
          /\ \A i \in Idx : i # proc_curr_idx => ScTaken[i] = sc[i]
      BY <1>0, <2>0, ScFacts
    <3> QED BY <2>0, <2>3, <3>1, InvPlainYield
  <2> QED BY <1>2, <2>1, <2>2, <2>3 DEF intr_soft, proc_syscall
<1>3. CASE intr_timer
  <2>0. /\ fatal = "none" /\ msip = FALSE /\ msip' = FALSE
        /\ UNCHANGED <<pid, from_sender_pid, to_receiver_pid, sc>>
    BY <1>0, <1>3 DEF intr_timer, TypeOK
  <2>1. CASE UNCHANGED <<proc_curr_idx, status, mepc, fatal>>
    BY <2>0, <2>1 DEF Inv, TypeOK, OnlyCurrentRuns, SlotPid, SyscallPending,
       BlockedSenderKeepsMessage, NoMissedRendezvous, WaitsFor
  <2>2. CASE proc_yield(status)
    <3>1. sc' \in [Idx -> Syscall] BY <1>0, <2>0 DEF TypeOK
    <3> QED BY <2>0, <2>2, <3>1, InvPlainYield
  <2> QED BY <1>3, <2>1, <2>2 DEF intr_timer
<1> QED BY <1>1, <1>2, <1>3 DEF Trap

\* The process management calls of sys_proc preserve the invariant: they
\* move processes other than sys_proc between statuses that no rendezvous
\* depends on, and only user applications are freed.
LEMMA InvManage == Inv /\ ManageStep => Inv'
<1> SUFFICES ASSUME Inv, ManageStep PROVE Inv' OBVIOUS
<1>0. /\ TypeOK /\ SlotPid /\ OnlyCurrentRuns
      /\ status \in [Idx -> Status] /\ sc \in [Idx -> Syscall]
      /\ pid \in [Idx -> 0 .. MAX_NPROCESS]
  BY DEF Inv, TypeOK
\* Changes of status that keep the invariant.
<1>1. ASSUME InSysProc,
             status' \in [Idx -> Status],
             pid' \in [Idx -> 0 .. MAX_NPROCESS],
             \A i \in Idx :
                \/ status'[i] = status[i] /\ pid'[i] = pid[i]
                \/ /\ i # proc_curr_idx
                   /\ status'[i] \in {"PROC_UNUSED", "PROC_LOADING", "PROC_READY"}
                   /\ pid'[i] \in {0, idx2pid(i)}
                   /\ status'[i] # "PROC_UNUSED" => pid'[i] = idx2pid(i),
             UNCHANGED <<proc_curr_idx, from_sender_pid, to_receiver_pid,
                         mepc, sc, msip, fatal>>
      PROVE  Inv'
  <2>1. TypeOK' BY <1>0, <1>1 DEF TypeOK
  <2>2. OnlyCurrentRuns' BY <1>0, <1>1 DEF OnlyCurrentRuns
  <2>3. SlotPid' BY <1>0, <1>1 DEF SlotPid
  <2>4. SyscallPending' BY <1>1 DEF SyscallPending, InSysProc, InUserSpace
  <2>5. BlockedSenderKeepsMessage'
    BY <1>1 DEF Inv, BlockedSenderKeepsMessage
  <2>6. NoMissedRendezvous' BY <1>1 DEF Inv, NoMissedRendezvous, WaitsFor
  <2> QED BY <2>1, <2>2, <2>3, <2>4, <2>5, <2>6 DEF Inv
<1>2. InSysProc => status[0] = "PROC_RUNNING" /\ proc_curr_idx = 0
  BY <1>0, SizeAssumption DEF InSysProc, InUserSpace, OnlyCurrentRuns, Idx,
     pid2idx, GPID_PROCESS
<1>3. CASE proc_alloc
  <2>1. ASSUME NEW i \in Unused,
               pid' = [pid EXCEPT ![i] = idx2pid(i)],
               status' = [status EXCEPT ![i] = "PROC_LOADING"],
               UNCHANGED fatal
        PROVE  Inv'
    <3>1. i \in Idx /\ status[i] = "PROC_UNUSED" BY DEF Unused
    <3>2. idx2pid(i) \in 0 .. MAX_NPROCESS
      BY <3>1, SizeAssumption DEF idx2pid, Idx
    <3>3. status' \in [Idx -> Status] /\ pid' \in [Idx -> 0 .. MAX_NPROCESS]
      BY <1>0, <2>1, <3>1, <3>2 DEF Status
    <3>4. InSysProc /\ UNCHANGED <<proc_curr_idx, from_sender_pid,
                                   to_receiver_pid, mepc, sc, msip, fatal>>
      BY <1>3, <2>1 DEF proc_alloc
    <3>5. i # proc_curr_idx BY <1>2, <3>1, <3>4
    <3>6. \A j \in Idx :
             \/ status'[j] = status[j] /\ pid'[j] = pid[j]
             \/ /\ j # proc_curr_idx
                /\ status'[j] \in {"PROC_UNUSED", "PROC_LOADING", "PROC_READY"}
                /\ pid'[j] \in {0, idx2pid(j)}
                /\ status'[j] # "PROC_UNUSED" => pid'[j] = idx2pid(j)
      BY <1>0, <2>1, <3>1, <3>5
    <3> QED BY <1>1, <3>3, <3>4, <3>6
  <2>2. CASE /\ fatal' = "proc_alloc: reach the limit"
             /\ UNCHANGED <<pid, status>>
    <3>1. UNCHANGED <<proc_curr_idx, from_sender_pid, to_receiver_pid, mepc,
                      sc, msip>>
      BY <1>3 DEF proc_alloc
    <3> QED BY <2>2, <3>1 DEF Inv, TypeOK, Fatal, OnlyCurrentRuns, SlotPid,
          SyscallPending, BlockedSenderKeepsMessage, NoMissedRendezvous,
          WaitsFor
  <2> QED BY <1>3, <2>1, <2>2 DEF proc_alloc
<1>4. ASSUME NEW p \in Pid, elf_load(p) PROVE Inv'
  <2>1. pid2idx(p) \in Idx BY SizeAssumption DEF pid2idx, Pid, Idx
  <2>2. FreshPage \in Syscall
    BY SizeAssumption DEF FreshPage, Syscall, SyscallType
  <2>3. sc' \in [Idx -> Syscall] BY <1>0, <1>4, <2>2 DEF elf_load
  <2>4. \A i \in Idx : status[i] # "PROC_LOADING" => sc'[i] = sc[i]
    BY <1>0, <1>4, <2>1 DEF elf_load
  <2> QED BY <1>4, <2>3, <2>4 DEF Inv, TypeOK, OnlyCurrentRuns, SlotPid,
        SyscallPending, BlockedSenderKeepsMessage, NoMissedRendezvous,
        WaitsFor, elf_load, InSysProc, InUserSpace
<1>5. ASSUME NEW p \in Pid, proc_set_ready(p) PROVE Inv'
  <2>1. pid2idx(p) \in Idx BY SizeAssumption DEF pid2idx, Pid, Idx
  <2>2. InSysProc /\ status[pid2idx(p)] = "PROC_LOADING"
    BY <1>5 DEF proc_set_ready
  <2>3. status' \in [Idx -> Status] /\ pid' = pid
    BY <1>0, <1>5 DEF proc_set_ready, Status
  <2>4. \A i \in Idx :
           \/ status'[i] = status[i] /\ pid'[i] = pid[i]
           \/ /\ i # proc_curr_idx
              /\ status'[i] \in {"PROC_UNUSED", "PROC_LOADING", "PROC_READY"}
              /\ pid'[i] \in {0, idx2pid(i)}
              /\ status'[i] # "PROC_UNUSED" => pid'[i] = idx2pid(i)
    BY <1>0, <1>2, <1>5, <2>1, <2>2, <2>3 DEF proc_set_ready, SlotPid
  <2> QED BY <1>0, <1>1, <1>5, <2>2, <2>3, <2>4 DEF proc_set_ready
<1>6. ASSUME NEW p \in GPID_USER_START .. MAX_NPROCESS, proc_free(p)
      PROVE  Inv'
  <2>1. pid2idx(p) \in Idx /\ pid2idx(p) # 0
    BY SizeAssumption DEF pid2idx, Idx, GPID_PROCESS
  <2>2. InSysProc BY <1>6 DEF proc_free
  <2>3. status' \in [Idx -> Status] /\ pid' = pid
    BY <1>0, <1>6 DEF proc_free, Status
  <2>4. \A i \in Idx :
           \/ status'[i] = status[i] /\ pid'[i] = pid[i]
           \/ /\ i # proc_curr_idx
              /\ status'[i] \in {"PROC_UNUSED", "PROC_LOADING", "PROC_READY"}
              /\ pid'[i] \in {0, idx2pid(i)}
              /\ status'[i] # "PROC_UNUSED" => pid'[i] = idx2pid(i)
    BY <1>0, <1>2, <1>6, <2>1, <2>2, <2>3 DEF proc_free, SlotPid
  <2> QED BY <1>0, <1>1, <1>6, <2>2, <2>3, <2>4 DEF proc_free
<1>7. CASE proc_free_all
  <2>1. InSysProc /\ pid' = pid BY <1>7 DEF proc_free_all
  <2>2. status' \in [Idx -> Status] BY <1>0, <1>7 DEF proc_free_all, Status
  <2>3. \A i \in Idx : pid[i] >= GPID_USER_START => i # 0
    BY <1>0, SizeAssumption DEF SlotPid, idx2pid, Idx, GPID_PROCESS
  <2>4. \A i \in Idx :
           \/ status'[i] = status[i] /\ pid'[i] = pid[i]
           \/ /\ i # proc_curr_idx
              /\ status'[i] \in {"PROC_UNUSED", "PROC_LOADING", "PROC_READY"}
              /\ pid'[i] \in {0, idx2pid(i)}
              /\ status'[i] # "PROC_UNUSED" => pid'[i] = idx2pid(i)
    BY <1>0, <1>2, <1>7, <2>1, <2>3 DEF proc_free_all, SlotPid
  <2> QED BY <1>0, <1>1, <1>7, <2>1, <2>2, <2>4 DEF proc_free_all
<1> QED BY <1>3, <1>4, <1>5, <1>6, <1>7 DEF ManageStep

-----------------------------------------------------------------------------
(***************************************************************************)
(* The safety theorems.                                                    *)
(***************************************************************************)
\* Every step of the kernel and of the processes keeps the invariant.
LEMMA InvStep == Inv /\ [Next]_vars => Inv'
<1> SUFFICES ASSUME Inv, [Next]_vars PROVE Inv' OBVIOUS
<1>1. CASE Next BY <1>1, InvSyscallStep, InvManage, InvTrap DEF Next
<1>2. CASE UNCHANGED vars
  BY <1>2 DEF vars, Inv, TypeOK, OnlyCurrentRuns, SlotPid, SyscallPending,
     BlockedSenderKeepsMessage, NoMissedRendezvous, WaitsFor
<1> QED BY <1>1, <1>2

\* The invariant holds in every reachable state.
THEOREM Invariance == Spec => []Inv
BY InvInit, InvStep, PTL DEF Spec

\* Every variable of the kernel always has its type.
THEOREM TypeCorrect == Spec => []TypeOK
BY Invariance, PTL DEF Inv

\* No send and receive that match are ever both left blocked.
THEOREM RendezvousNeverMissed == Spec => []NoMissedRendezvous
BY Invariance, PTL DEF Inv

\* The message a blocked sender offers is the one it sent, under its own pid.
THEOREM BlockedSenderSafe == Spec => []BlockedSenderKeepsMessage
BY Invariance, PTL DEF Inv

\* The CPU is always with the one process marked PROC_RUNNING.
THEOREM OneRunning == Spec => []OnlyCurrentRuns
BY Invariance, PTL DEF Inv

\* A slot in use always carries the pid of its index, through every order of
\* proc_alloc and proc_free.
THEOREM SlotsCarryPids == Spec => []SlotPid
BY Invariance, PTL DEF Inv

\* proc_syscall is only ever entered with a system call it can serve.
THEOREM SyscallServable == Spec => []SyscallPending
BY Invariance, PTL DEF Inv

-----------------------------------------------------------------------------
(***************************************************************************)
(* Bounded bypass.                                                         *)
(***************************************************************************)
\* The scan gives the CPU to the first process it meets, so every other one
\* it could have chosen is further on, and closer to the new position.
LEMMA YieldOrder ==
    ASSUME TypeOK, fatal' = "none",
           NEW st \in [Idx -> Status], proc_yield(st),
           NEW i \in Schedulable(st)
    PROVE  proc_curr_idx' = i \/ Dist(proc_curr_idx', i) < Dist(proc_curr_idx, i)
<1> DEFINE c == proc_curr_idx
           d == Dist(c, i)
<1>0. c \in Idx /\ i \in Idx BY DEF TypeOK, Schedulable
<1>1. PICK k \in 1 .. MAX_NPROCESS :
         FirstSchedulable(st, k) /\ proc_curr_idx' = Slot(k)
  BY DEF proc_yield
<1>2. d \in 1 .. MAX_NPROCESS /\ Slot(d) = i BY <1>0, SlotOfDist
<1>3. ~ (d \in 1 .. k - 1) BY <1>1, <1>2 DEF FirstSchedulable
<1>4. d >= k BY <1>2, <1>3
<1>5. CASE d = k BY <1>1, <1>2, <1>5
<1>6. CASE d > k
  <2>1. Slot(k) = IF c + k < MAX_NPROCESS THEN c + k
                  ELSE c + k - MAX_NPROCESS
    BY <1>0, SlotRange
  <2>2. Dist(Slot(k), i) = d - k
    BY <1>0, <1>2, <1>6, <2>1, SizeAssumption DEF Dist, Idx
  <2> QED BY <1>1, <1>2, <2>2
<1> QED BY <1>2, <1>4, <1>5, <1>6

\* Where the scan finds the CPU relative to process i after a step.
Order(i) ==
    \/ proc_curr_idx' = i
    \/ Dist(proc_curr_idx', i) < Dist(proc_curr_idx, i)
    \/ i = proc_curr_idx /\ status'[i] \in {"PROC_WAIT_TO_SEND", "PROC_WAIT_TO_RECV"}

\* A step that gives the CPU away.
LEMMA BypassStep ==
    ASSUME Inv, Next, Yields, fatal' = "none", NEW i \in Schedulable(status)
    PROVE  Order(i)
<1> DEFINE c == proc_curr_idx
<1>0. TypeOK /\ i \in Idx /\ c \in Idx /\ status \in [Idx -> Status]
      /\ status[i] \in {"PROC_READY", "PROC_RUNNING", "PROC_RUNNABLE"}
  BY DEF Inv, TypeOK, Schedulable
<1>1. ASSUME proc_yield(status) PROVE Order(i)
  BY <1>0, <1>1, YieldOrder DEF Order
<1>2. ASSUME NEW j \in Idx, proc_yield([status EXCEPT ![j] = "PROC_RUNNABLE"])
      PROVE  Order(i)
  <2> DEFINE st == [status EXCEPT ![j] = "PROC_RUNNABLE"]
  <2>1. st \in [Idx -> Status] BY <1>0 DEF Status
  <2>2. i \in Schedulable(st) BY <1>0, <1>2 DEF Schedulable
  <2> HIDE DEF st
  <2>3. proc_yield(st) BY <1>2 DEF st
  <2> QED BY <1>0, <2>1, <2>2, <2>3, YieldOrder DEF Order
<1>3. ASSUME NEW w \in Waiting, proc_yield([status EXCEPT ![c] = w]),
             fatal = "none"
      PROVE  Order(i)
  <2> DEFINE st == [status EXCEPT ![c] = w]
  <2>1. st \in [Idx -> Status] BY <1>0 DEF Status, Waiting
  <2>2. /\ \A j \in Idx : j # c => st[j] = status[j]
        /\ st[c] = w
    BY <1>0
  <2> HIDE DEF st
  <2>3. proc_yield(st) BY <1>3 DEF st
  <2>4. CASE i # c
    <3>1. i \in Schedulable(st) BY <1>0, <2>2, <2>4 DEF Schedulable
    <3> QED BY <1>0, <2>1, <2>3, <3>1, YieldOrder DEF Order
  <2>5. CASE i = c
    <3>1. \A j \in Idx : st[j] = "PROC_RUNNING" => j = c
      BY <1>3, <2>2 DEF Inv, OnlyCurrentRuns, Waiting
    <3>2. \A j \in Idx, s \in Parked : status'[j] = s <=> st[j] = s
      BY <1>0, <1>3, <2>1, <2>3, <3>1, YieldFacts
    <3>3. status'[c] = w BY <1>0, <2>2, <3>2 DEF Parked
    <3> QED BY <2>5, <3>3 DEF Waiting, Order
  <2> QED BY <2>4, <2>5
<1>4. CASE SyscallStep
  BY <1>4 DEF SyscallStep, sys_yield, sys_send, sys_recv, sys_exit,
     sys_invoke, InUserSpace, Yields
<1>5. CASE ManageStep
  BY <1>5 DEF ManageStep, proc_alloc, elf_load, proc_set_ready,
     proc_free, proc_free_all, InSysProc, InUserSpace, Yields
<1>6. CASE intr_ctrl_c BY <1>6 DEF intr_ctrl_c, Yields
<1>7. CASE intr_timer
  <2>1. ~msip BY <1>7 DEF intr_timer
  <2>2. CASE UNCHANGED proc_curr_idx /\ UNCHANGED msip
    BY <2>1, <2>2 DEF Yields
  <2> QED BY <1>1, <1>7, <2>2 DEF intr_timer
<1>8. CASE intr_soft
  <2>0. fatal = "none" /\ msip BY <1>8 DEF intr_soft
  <2>1. CASE sc[c].type = "SYS_SEND" /\ proc_send
    <3>1. sc[c].receiver \in Pid
      BY <2>0, <2>1 DEF Inv, SyscallPending, WellFormed
    <3>2. pid2idx(sc[c].receiver) \in Idx
      BY <3>1, SizeAssumption DEF pid2idx, Pid, Idx
    <3>3. "PROC_WAIT_TO_SEND" \in Waiting BY DEF Waiting
    <3>4. fatal' # "proc_send: no such receiver" OBVIOUS
    <3>5. \/ proc_yield([status EXCEPT ![c] = "PROC_WAIT_TO_SEND"])
          \/ proc_yield([status EXCEPT ![pid2idx(sc[c].receiver)] = "PROC_RUNNABLE"])
      BY <2>1, <3>4, Zenon DEF proc_send
    <3> QED BY <1>2, <1>3, <2>0, <3>2, <3>3, <3>5
  <2>2. CASE sc[c].type = "SYS_RECV" /\ proc_recv
    <3>1. "PROC_WAIT_TO_RECV" \in Waiting BY DEF Waiting
    <3>2. \/ proc_yield([status EXCEPT ![c] = "PROC_WAIT_TO_RECV"])
          \/ \E s \in Idx : proc_yield([status EXCEPT ![s] = "PROC_RUNNABLE"])
      BY <2>2, Zenon DEF proc_recv, Senders
    <3> QED BY <1>2, <1>3, <2>0, <3>1, <3>2
  <2>3. CASE proc_yield(status) BY <1>1, <2>3
  <2> QED BY <1>8, <2>1, <2>2, <2>3 DEF intr_soft, proc_syscall
<1> QED BY <1>4, <1>5, <1>6, <1>7, <1>8 DEF Next, Trap

\* Every step that gives the CPU away respects the scan order.
THEOREM BoundedBypass == Spec => NoOvertaking
<1>1. Inv /\ [Next]_vars =>
        [Yields /\ fatal' = "none" =>
           \A i \in Schedulable(status) : Order(i)]_vars
  BY BypassStep
<1> QED BY <1>1, Invariance, PTL DEF Spec, NoOvertaking, Order

-----------------------------------------------------------------------------
(***************************************************************************)
(* The kernel implements Rendezvous.                                       *)
(***************************************************************************)
\* Only the process that holds the CPU has a call that the kernel has not
\* seen, and only until the software interrupt is taken.
OnlyCallerAsks ==
    \A i \in Idx : sc[i].type # "SYS_UNUSED" => i = proc_curr_idx /\ msip

\* The statuses of a process that computes.
Active == {"PROC_READY", "PROC_RUNNING", "PROC_RUNNABLE"}

\* What the mapping needs of a state.
CallInv == Inv /\ OnlyCallerAsks

-----------------------------------------------------------------------------
(***************************************************************************)
(* The calls of a process, by its status.                                  *)
(***************************************************************************)
\* The mapping of a process that is not there, blocked, or computing.
View(i) ==
    /\ status[i] \in {"PROC_UNUSED", "PROC_LOADING"} => CallOf(i) = IPC!Dead
    /\ status[i] = "PROC_WAIT_TO_SEND" =>
          CallOf(i) = IPC!Send(to_receiver_pid[i], sc[i].content)
    /\ status[i] = "PROC_WAIT_TO_RECV" => CallOf(i) = IPC!Recv(from_sender_pid[i])
    /\ status[i] \in Active =>
          /\ sc[i].type = "SYS_SEND" =>
                CallOf(i) = IPC!Send(sc[i].receiver, sc[i].content)
          /\ sc[i].type = "SYS_RECV" => CallOf(i) = IPC!Recv(sc[i].sender)
          /\ sc[i].type \notin {"SYS_SEND", "SYS_RECV"} =>
                CallOf(i) = IPC!Run(sc[i].sender, sc[i].content)

\* CallOf is what View says, unless the machine has stopped inside a send.
LEMMA CallView ==
    fatal # "proc_send: no such receiver" => \A i \in Idx : View(i)
BY ZenonT(60) DEF View, CallOf, Sending, Active, IPC!Dead, IPC!Send, IPC!Recv, IPC!Run

\* The same after a step.
LEMMA CallViewNext ==
    fatal' # "proc_send: no such receiver" => \A i \in Idx : View(i)'
<1>1. (fatal # "proc_send: no such receiver" => \A i \in Idx : View(i))'
  BY CallView, PTL
<1> QED BY <1>1

\* A process whose fields are left alone has the call it had.
LEMMA SameCall ==
    ASSUME NEW i \in Idx, status[i] \in Status, View(i), View(i)',
           status'[i] = status[i], sc'[i] = sc[i],
           from_sender_pid'[i] = from_sender_pid[i],
           to_receiver_pid'[i] = to_receiver_pid[i]
    PROVE  CallOf(i)' = CallOf(i)
<1>1. CASE status[i] \in {"PROC_UNUSED", "PROC_LOADING"} BY <1>1 DEF View
<1>2. CASE status[i] = "PROC_WAIT_TO_SEND" BY <1>2 DEF View
<1>3. CASE status[i] = "PROC_WAIT_TO_RECV" BY <1>3 DEF View
<1>4. CASE status[i] \in Active BY <1>4 DEF View
<1> QED BY <1>1, <1>2, <1>3, <1>4 DEF Status, Active

\* The mapping keeps the pids apart.
LEMMA PidSlots ==
    /\ \A p \in Pid : pid2idx(p) \in Idx /\ idx2pid(pid2idx(p)) = p
    /\ \A i \in Idx : idx2pid(i) \in Pid /\ pid2idx(idx2pid(i)) = i
BY SizeAssumption DEF Pid, Idx, pid2idx, idx2pid

\* A step that changes no call is a stutter.
LEMMA NoCallChanges ==
    ASSUME \A i \in Idx : CallOf(i)' = CallOf(i)
    PROVE  calls' = calls
BY PidSlots DEF calls

\* A step that changes the call of one process.
LEMMA OneCallChanges ==
    ASSUME NEW c \in Idx, NEW v, CallOf(c)' = v,
           \A i \in Idx : i # c => CallOf(i)' = CallOf(i)
    PROVE  calls' = [calls EXCEPT ![idx2pid(c)] = v]
<1>1. ASSUME NEW p \in Pid
      PROVE  calls'[p] = IF p = idx2pid(c) THEN v ELSE calls[p]
  BY PidSlots DEF calls
<1> QED BY <1>1, PidSlots DEF calls

\* A step that changes the calls of two processes.
LEMMA TwoCallsChange ==
    ASSUME NEW s \in Idx, NEW r \in Idx, NEW v, s # r,
           CallOf(s)' = v, CallOf(r)' = v,
           \A i \in Idx : i \notin {s, r} => CallOf(i)' = CallOf(i)
    PROVE  calls' = [calls EXCEPT ![idx2pid(s)] = v, ![idx2pid(r)] = v]
<1>1. ASSUME NEW p \in Pid
      PROVE  calls'[p] = IF p \in {idx2pid(s), idx2pid(r)} THEN v ELSE calls[p]
  BY PidSlots DEF calls
<1> QED BY <1>1, PidSlots DEF calls

-----------------------------------------------------------------------------
(***************************************************************************)
(* The structure of a process other than the caller holds no call.         *)
(***************************************************************************)
\* The kernel resets the type of the one call there is.
LEMMA TypesReset ==
    ASSUME CallInv
    PROVE  \A i \in Idx : /\ ScTaken[i].type = "SYS_UNUSED"
                          /\ ScSigned[i].type = "SYS_UNUSED"
<1>1. proc_curr_idx \in Idx /\ sc \in [Idx -> Syscall] BY DEF CallInv, Inv, TypeOK
<1>2. ASSUME NEW i \in Idx PROVE ScTaken[i].type = "SYS_UNUSED"
  BY <1>1 DEF ScTaken, CallInv, OnlyCallerAsks, Syscall
<1>3. ScTaken \in [Idx -> Syscall] BY <1>1 DEF ScTaken, Syscall, SyscallType
<1>4. ASSUME NEW i \in Idx PROVE ScSigned[i].type = ScTaken[i].type
  BY <1>1, <1>3 DEF ScSigned, Syscall
<1> QED BY <1>2, <1>4

\* After a system call has been served no call is left.
LEMMA NoneAskAfterTrap ==
    ASSUME CallInv, intr_soft
    PROVE  \A i \in Idx : sc'[i].type = "SYS_UNUSED"
<1> DEFINE c == proc_curr_idx
<1>0. TypeOK /\ SlotPid /\ OnlyCurrentRuns /\ c \in Idx /\ fatal = "none" /\ msip
  BY DEF CallInv, Inv, TypeOK, intr_soft
<1>1. ScTaken \in [Idx -> Syscall] /\ ScSigned \in [Idx -> Syscall]
  BY <1>0, ScFacts
<1>2. CASE sc' = ScTaken \/ sc' = ScSigned BY <1>2, TypesReset
<1>3. ASSUME NEW r \in Idx, sc' = msgcpy(ScSigned, c, r)
      PROVE  \A i \in Idx : sc'[i].type = "SYS_UNUSED"
  <2>1. /\ \A i \in Idx : i # r => sc'[i] = ScSigned[i]
        /\ sc'[r].type = ScSigned[r].type
    BY <1>0, <1>1, <1>3, MsgcpyFacts
  <2> QED BY <2>1, TypesReset
<1>4. ASSUME NEW s \in Idx, sc' = msgcpy(ScTaken, s, c)
      PROVE  \A i \in Idx : sc'[i].type = "SYS_UNUSED"
  <2>1. /\ \A i \in Idx : i # c => sc'[i] = ScTaken[i]
        /\ sc'[c].type = ScTaken[c].type
    BY <1>0, <1>1, <1>4, MsgcpyFacts
  <2> QED BY <1>0, <2>1, TypesReset
<1>5. CASE sc[c].type = "SYS_SEND" /\ proc_send
  <2>1. sc[c].receiver \in Pid
    BY <1>0, <1>5 DEF CallInv, Inv, SyscallPending, WellFormed
  <2>2. pid2idx(sc[c].receiver) \in Idx BY <2>1, PidSlots
  <2>3. sc' = ScSigned \/ sc' = msgcpy(ScSigned, c, pid2idx(sc[c].receiver))
    BY <1>5 DEF proc_send
  <2> QED BY <1>2, <1>3, <2>2, <2>3
<1>6. CASE proc_recv
  <2>1. sc' = ScTaken \/ \E s \in Idx : sc' = msgcpy(ScTaken, s, c)
    BY <1>6 DEF proc_recv, Senders
  <2> QED BY <1>2, <1>4, <2>1
<1> QED BY <1>2, <1>5, <1>6 DEF intr_soft, proc_syscall

\* Every step keeps the strengthened invariant.
LEMMA CallInvInit == Init => CallInv
BY InvInit DEF CallInv, Init, OnlyCallerAsks, FreshPage

LEMMA CallInvStep == CallInv /\ [Next]_vars => CallInv'
<1> SUFFICES ASSUME CallInv, [Next]_vars PROVE OnlyCallerAsks'
  BY InvStep DEF CallInv
<1>0. /\ OnlyCallerAsks /\ proc_curr_idx \in Idx /\ sc \in [Idx -> Syscall]
      /\ msip \in BOOLEAN
  BY DEF CallInv, Inv, TypeOK
<1>1. CASE UNCHANGED <<sc, proc_curr_idx, msip>>
  BY <1>0, <1>1 DEF OnlyCallerAsks
<1>2. ASSUME NEW call, sys_invoke(call) PROVE OnlyCallerAsks'
  BY <1>0, <1>2 DEF OnlyCallerAsks, sys_invoke
<1>3. CASE SyscallStep
  BY <1>1, <1>2, <1>3 DEF SyscallStep, sys_yield, sys_send, sys_recv, sys_exit
<1>4. CASE ManageStep
  <2>1. ASSUME NEW p \in Pid, elf_load(p) PROVE OnlyCallerAsks'
    BY <1>0, <2>1 DEF elf_load, OnlyCallerAsks, FreshPage, InSysProc, InUserSpace
  <2> QED BY <1>1, <1>4, <2>1
          DEF ManageStep, proc_alloc, proc_set_ready, proc_free, proc_free_all
<1>5. CASE intr_ctrl_c BY <1>1, <1>5 DEF intr_ctrl_c
<1>6. CASE intr_soft BY <1>6, NoneAskAfterTrap DEF OnlyCallerAsks
<1>7. CASE intr_timer
  BY <1>0, <1>7 DEF intr_timer, OnlyCallerAsks
<1> QED BY <1>1, <1>3, <1>4, <1>5, <1>6, <1>7 DEF Next, Trap, vars

\* The strengthened invariant holds in every reachable state.
THEOREM CallInvariance == Spec => []CallInv
BY CallInvInit, CallInvStep, PTL DEF Spec

-----------------------------------------------------------------------------
(***************************************************************************)
(* The steps of the kernel, mapped.                                        *)
(***************************************************************************)
\* Before a step: what View says, with no call for all but the caller.
LEMMA Before ==
    ASSUME CallInv, fatal = "none"
    PROVE  /\ proc_curr_idx \in Idx /\ status[proc_curr_idx] = "PROC_RUNNING"
           /\ curr_pid = idx2pid(proc_curr_idx) /\ curr_pid \in Pid
           /\ \A i \in Idx : View(i) /\ status[i] \in Active \cup Parked
           /\ \A i \in Idx : i # proc_curr_idx \/ ~msip => sc[i].type = "SYS_UNUSED"
<1>1. TypeOK /\ SlotPid /\ OnlyCurrentRuns BY DEF CallInv, Inv
<1>2. proc_curr_idx \in Idx BY <1>1 DEF TypeOK
<1>3. \A i \in Idx : View(i) BY CallView
<1>4. \A i \in Idx : status[i] \in Active \cup Parked
  BY <1>1 DEF TypeOK, Status, Active, Parked, Waiting
<1>5. \A i \in Idx : i # proc_curr_idx \/ ~msip => sc[i].type = "SYS_UNUSED"
  BY DEF CallInv, OnlyCallerAsks
<1>6. /\ curr_pid = idx2pid(proc_curr_idx) /\ curr_pid \in Pid
      /\ status[proc_curr_idx] = "PROC_RUNNING"
  BY <1>1, ScFacts
<1> QED BY <1>2, <1>3, <1>4, <1>5, <1>6

\* The user half of a system call changes the call of the caller only.
LEMMA Posted ==
    ASSUME CallInv, InUserSpace, NEW c \in Idx, c = proc_curr_idx,
           NEW call \in Syscall, sys_invoke(call)
    PROVE  /\ CallOf(c) = IPC!Run(sc[c].sender, sc[c].content)
           /\ calls[idx2pid(c)].mode = "run" /\ idx2pid(c) \in Pid
           /\ \A i \in Idx : i # c => CallOf(i)' = CallOf(i)
           /\ call.type = "SYS_SEND" =>
                 CallOf(c)' = IPC!Send(call.receiver, call.content)
           /\ call.type = "SYS_RECV" => CallOf(c)' = IPC!Recv(call.sender)
           /\ call.type = "SYS_YIELD" =>
                 CallOf(c)' = IPC!Run(call.sender, call.content)
<1>0. fatal = "none" /\ ~msip BY DEF InUserSpace
<1>1. status[c] = "PROC_RUNNING" /\ View(c) /\ sc[c].type = "SYS_UNUSED"
  BY <1>0, Before
<1>2. sc \in [Idx -> Syscall] BY DEF CallInv, Inv, TypeOK
<1>3. /\ sc'[c] = call /\ \A i \in Idx : i # c => sc'[i] = sc[i]
      /\ UNCHANGED <<status, from_sender_pid, to_receiver_pid, fatal>>
  BY <1>2 DEF sys_invoke
<1>4. CallOf(c) = IPC!Run(sc[c].sender, sc[c].content)
  BY <1>1 DEF View, Active
<1>5. calls[idx2pid(c)].mode = "run" BY <1>4, PidSlots DEF calls, IPC!Run
<1>6. \A i \in Idx : View(i)' BY <1>0, <1>3, CallViewNext
<1>7. ASSUME NEW i \in Idx, i # c PROVE CallOf(i)' = CallOf(i)
  <2>1. View(i) /\ status[i] \in Status BY <1>0, Before DEF CallInv, Inv, TypeOK
  <2> QED BY <1>3, <1>6, <1>7, <2>1, SameCall
<1>8. status'[c] \in Active BY <1>1, <1>3 DEF Active
<1>9. /\ call.type = "SYS_SEND" => CallOf(c)' = IPC!Send(call.receiver, call.content)
      /\ call.type = "SYS_RECV" => CallOf(c)' = IPC!Recv(call.sender)
      /\ call.type = "SYS_YIELD" => CallOf(c)' = IPC!Run(call.sender, call.content)
  BY <1>3, <1>6, <1>8 DEF View
<1> QED BY <1>4, <1>5, <1>7, <1>9, PidSlots

\* A send is posted.
LEMMA PostSendCalls ==
    ASSUME CallInv, InUserSpace, NEW q \in Pid, NEW m \in Contents,
           NEW c \in Idx, c = proc_curr_idx, sys_invoke(SendCall(q, m))
    PROVE  /\ calls[idx2pid(c)] = IPC!Run(sc[c].sender, sc[c].content)
           /\ calls[idx2pid(c)].mode = "run" /\ idx2pid(c) \in Pid
           /\ calls' = [calls EXCEPT ![idx2pid(c)] = IPC!Send(q, m)]
<1>2. sc[c] \in Syscall BY DEF CallInv, Inv, TypeOK
<1>3. SendCall(q, m) \in Syscall
  <2>1. q \in 0 .. MAX_NPROCESS BY SizeAssumption DEF Pid
  <2>2. m \in Contents \cup {NoContent} OBVIOUS
  <2> QED BY <1>2, <2>1, <2>2 DEF SendCall, Syscall, SyscallType
<1>4. /\ SendCall(q, m).type = "SYS_SEND"
      /\ SendCall(q, m).receiver = q /\ SendCall(q, m).content = m
  BY <1>2 DEF SendCall, Syscall
<1>5. /\ CallOf(c) = IPC!Run(sc[c].sender, sc[c].content)
      /\ calls[idx2pid(c)].mode = "run" /\ idx2pid(c) \in Pid
      /\ \A i \in Idx : i # c => CallOf(i)' = CallOf(i)
      /\ CallOf(c)' = IPC!Send(q, m)
  BY <1>3, <1>4, Posted
<1>6. calls' = [calls EXCEPT ![idx2pid(c)] = IPC!Send(q, m)]
  BY <1>5, OneCallChanges
<1> QED BY <1>5, <1>6, PidSlots DEF calls

\* A receive is posted.
LEMMA PostRecvCalls ==
    ASSUME CallInv, InUserSpace, NEW s \in 0 .. MAX_NPROCESS,
           NEW c \in Idx, c = proc_curr_idx,
           sys_invoke([sc[c] EXCEPT !.type = "SYS_RECV", !.sender = s])
    PROVE  /\ calls[idx2pid(c)] = IPC!Run(sc[c].sender, sc[c].content)
           /\ calls[idx2pid(c)].mode = "run" /\ idx2pid(c) \in Pid
           /\ calls' = [calls EXCEPT ![idx2pid(c)] = IPC!Recv(s)]
<1> DEFINE call == [sc[c] EXCEPT !.type = "SYS_RECV", !.sender = s]
<1>1. sc[c] \in Syscall BY DEF CallInv, Inv, TypeOK
<1>2. call \in Syscall /\ call.type = "SYS_RECV" /\ call.sender = s
  BY <1>1 DEF Syscall, SyscallType
<1> HIDE DEF call
<1>3. /\ CallOf(c) = IPC!Run(sc[c].sender, sc[c].content)
      /\ calls[idx2pid(c)].mode = "run" /\ idx2pid(c) \in Pid
      /\ \A i \in Idx : i # c => CallOf(i)' = CallOf(i)
      /\ CallOf(c)' = IPC!Recv(s)
  BY <1>2, Posted DEF call
<1>4. calls' = [calls EXCEPT ![idx2pid(c)] = IPC!Recv(s)]
  BY <1>3, OneCallChanges
<1> QED BY <1>3, <1>4, PidSlots DEF calls

\* A yield is invisible.
LEMMA YieldCalls ==
    ASSUME CallInv, sys_yield
    PROVE  calls' = calls
<1>0. PICK c \in Idx : c = proc_curr_idx /\ sc[c] \in Syscall
  BY DEF CallInv, Inv, TypeOK
<1> DEFINE call == [sc[c] EXCEPT !.type = "SYS_YIELD"]
<1>1. /\ call \in Syscall /\ call.type = "SYS_YIELD"
      /\ call.sender = sc[c].sender /\ call.content = sc[c].content
  BY <1>0 DEF Syscall, SyscallType
<1>2. InUserSpace /\ sys_invoke(call) BY <1>0 DEF sys_yield
<1> HIDE DEF call
<1>3. /\ CallOf(c)' = IPC!Run(sc[c].sender, sc[c].content)
      /\ CallOf(c) = IPC!Run(sc[c].sender, sc[c].content)
      /\ \A i \in Idx : i # c => CallOf(i)' = CallOf(i)
  BY <1>0, <1>1, <1>2, Posted
<1> QED BY <1>3, NoCallChanges

\* The user half of every system call posts a call or is invisible.
LEMMA SimSyscall == CallInv /\ SyscallStep => IPC!Next \/ calls' = calls
<1> SUFFICES ASSUME CallInv, SyscallStep PROVE IPC!Next \/ calls' = calls
  OBVIOUS
<1>0. PICK c \in Idx : c = proc_curr_idx BY DEF CallInv, Inv, TypeOK
<1>1. CASE sys_yield BY <1>1, YieldCalls
<1>2. ASSUME NEW q \in Pid, NEW m \in Contents, InUserSpace,
             sys_invoke(SendCall(q, m))
      PROVE  IPC!Next
  <2>1. /\ calls[idx2pid(c)].mode = "run" /\ idx2pid(c) \in Pid
        /\ calls' = [calls EXCEPT ![idx2pid(c)] = IPC!Send(q, m)]
    BY <1>0, <1>2, PostSendCalls
  <2>2. IPC!PostSend(idx2pid(c), q, m) BY <2>1 DEF IPC!PostSend
  <2> QED BY <2>1, <2>2 DEF IPC!Next
<1>3. ASSUME NEW s \in 0 .. MAX_NPROCESS, sys_recv(s)
      PROVE  IPC!Next \/ calls' = calls
  <2> DEFINE call == [sc[c] EXCEPT !.type = "SYS_RECV", !.sender = s]
  <2>1. CASE InUserSpace /\ sys_invoke(call)
    <3>1. /\ calls[idx2pid(c)].mode = "run" /\ idx2pid(c) \in Pid
          /\ calls' = [calls EXCEPT ![idx2pid(c)] = IPC!Recv(s)]
      BY <1>0, <2>1, PostRecvCalls
    <3>2. IPC!PostRecv(idx2pid(c), s) BY <3>1 DEF IPC!PostRecv
    <3>3. s \in Pid \cup {IPC!Any} BY SizeAssumption DEF Pid, IPC!Any
    <3> QED BY <3>1, <3>2, <3>3 DEF IPC!Next
  <2>2. CASE /\ fatal' = "sys_recv: sender out of range" /\ fatal = "none"
             /\ UNCHANGED <<proc_curr_idx, pid, status, from_sender_pid,
                            to_receiver_pid, mepc, sc, msip>>
    <3>1. ASSUME NEW i \in Idx PROVE CallOf(i)' = CallOf(i)
      <4>1. View(i) /\ View(i)' /\ status[i] \in Status
        BY <2>2, Before, CallViewNext DEF CallInv, Inv, TypeOK
      <4> QED BY <2>2, <4>1, SameCall
    <3> QED BY <3>1, NoCallChanges
  <2> QED BY <1>0, <1>3, <2>1, <2>2, Zenon DEF sys_recv, InUserSpace
<1>4. CASE sys_exit
  <2>1. GPID_PROCESS \in Pid BY SizeAssumption DEF Pid, GPID_PROCESS
  <2> QED BY <1>2, <1>4, <2>1, ContentAssumption DEF sys_exit
<1> QED BY <1>1, <1>2, <1>3, <1>4 DEF SyscallStep, sys_send

\* What the process management calls of sys_proc leave of the calls.
LEMMA ManageCalls ==
    ASSUME CallInv, ManageStep
    PROVE  /\ \A i \in Idx : View(i)'
           /\ \A i \in Idx : status'[i] = status[i] /\ sc'[i] = sc[i] =>
                 CallOf(i)' = CallOf(i)
           /\ \A i \in Idx : status[i] \in {"PROC_UNUSED", "PROC_LOADING"} =>
                 CallOf(i) = IPC!Dead
           /\ \A i \in Idx : status'[i] \in {"PROC_UNUSED", "PROC_LOADING"} =>
                 CallOf(i)' = IPC!Dead
<1>0. status \in [Idx -> Status] BY DEF CallInv, Inv, TypeOK
<1>1. fatal = "none" /\ \A i \in Idx : View(i)
  <2>1. fatal = "none"
    BY DEF ManageStep, proc_alloc, elf_load, proc_set_ready, proc_free,
           proc_free_all, InSysProc, InUserSpace
  <2> QED BY <2>1, Before
<1>2. \A i \in Idx : View(i)'
  <2>1. fatal' # "proc_send: no such receiver"
    BY <1>1 DEF ManageStep, proc_alloc, elf_load, proc_set_ready, proc_free,
                proc_free_all
  <2> QED BY <2>1, CallViewNext
<1>3. UNCHANGED <<from_sender_pid, to_receiver_pid>>
  BY DEF ManageStep, proc_alloc, elf_load, proc_set_ready, proc_free, proc_free_all
<1>4. ASSUME NEW i \in Idx, status'[i] = status[i], sc'[i] = sc[i]
      PROVE  CallOf(i)' = CallOf(i)
  BY <1>0, <1>1, <1>2, <1>3, <1>4, SameCall
<1>5. ASSUME NEW i \in Idx, status[i] \in {"PROC_UNUSED", "PROC_LOADING"}
      PROVE  CallOf(i) = IPC!Dead
  BY <1>1, <1>5 DEF View
<1>6. ASSUME NEW i \in Idx, status'[i] \in {"PROC_UNUSED", "PROC_LOADING"}
      PROVE  CallOf(i)' = IPC!Dead
  BY <1>2, <1>6 DEF View
<1> QED BY <1>2, <1>4, <1>5, <1>6

\* proc_alloc is invisible.
LEMMA AllocCalls ==
    ASSUME CallInv, proc_alloc
    PROVE  calls' = calls
<1>0. status \in [Idx -> Status] BY DEF CallInv, Inv, TypeOK
<1>1. ManageStep BY DEF ManageStep
<1>2. ASSUME NEW i \in Unused, UNCHANGED sc,
             status' = [status EXCEPT ![i] = "PROC_LOADING"]
      PROVE  calls' = calls
  <2>1. ASSUME NEW j \in Idx PROVE CallOf(j)' = CallOf(j)
    <3>1. CASE j = i
      <4>1. status[j] = "PROC_UNUSED" /\ status'[j] = "PROC_LOADING"
        BY <1>0, <1>2, <3>1 DEF Unused
      <4> QED BY <1>1, <4>1, ManageCalls
    <3>2. CASE j # i
      <4>1. status'[j] = status[j] /\ sc'[j] = sc[j] BY <1>0, <1>2, <3>2
      <4> QED BY <1>1, <4>1, ManageCalls
    <3> QED BY <3>1, <3>2
  <2> QED BY <2>1, NoCallChanges
<1>3. CASE UNCHANGED <<status, sc>>
  <2>1. \A j \in Idx : CallOf(j)' = CallOf(j) BY <1>1, <1>3, ManageCalls
  <2> QED BY <2>1, NoCallChanges
<1> QED BY <1>2, <1>3 DEF proc_alloc

\* So is elf_load.
LEMMA LoadCalls ==
    ASSUME CallInv, NEW p \in Pid, elf_load(p)
    PROVE  calls' = calls
<1>0. sc \in [Idx -> Syscall] BY DEF CallInv, Inv, TypeOK
<1>1. ManageStep BY DEF ManageStep
<1>2. /\ pid2idx(p) \in Idx /\ status[pid2idx(p)] = "PROC_LOADING"
      /\ UNCHANGED status
      /\ \A j \in Idx : j # pid2idx(p) => sc'[j] = sc[j]
  BY <1>0, PidSlots DEF elf_load
<1>3. ASSUME NEW j \in Idx PROVE CallOf(j)' = CallOf(j)
  <2>1. CASE j = pid2idx(p) BY <1>1, <1>2, <2>1, ManageCalls
  <2>2. CASE j # pid2idx(p) BY <1>1, <1>2, <2>2, ManageCalls
  <2> QED BY <2>1, <2>2
<1> QED BY <1>3, NoCallChanges

\* proc_set_ready starts a process.
LEMMA ReadyCalls ==
    ASSUME CallInv, NEW p \in Pid, proc_set_ready(p)
    PROVE  /\ calls[p] = IPC!Dead
           /\ calls' = [calls EXCEPT ![p] = IPC!Born]
<1> DEFINE i == pid2idx(p)
<1>0. status \in [Idx -> Status] BY DEF CallInv, Inv, TypeOK
<1>1. ManageStep BY DEF ManageStep
<1>2. /\ i \in Idx /\ status[i] = "PROC_LOADING" /\ sc[i] = FreshPage
      /\ status'[i] = "PROC_READY" /\ UNCHANGED sc
      /\ \A j \in Idx : j # i => status'[j] = status[j]
  BY <1>0, PidSlots DEF proc_set_ready
<1>3. idx2pid(i) = p BY PidSlots
<1> HIDE DEF i
<1>4. CallOf(i) = IPC!Dead BY <1>1, <1>2, ManageCalls
<1>5. View(i)' BY <1>1, <1>2, ManageCalls
<1>6. CallOf(i)' = IPC!Born BY <1>2, <1>5 DEF View, Active, FreshPage, IPC!Born
<1>7. \A j \in Idx : j # i => CallOf(j)' = CallOf(j)
  BY <1>1, <1>2, ManageCalls
<1>8. calls' = [calls EXCEPT ![idx2pid(i)] = IPC!Born]
  BY <1>2, <1>6, <1>7, OneCallChanges
<1>9. calls[p] = IPC!Dead BY <1>4, PidSlots DEF calls, i
<1> QED BY <1>3, <1>8, <1>9

\* proc_free ends some.
LEMMA FreeCalls ==
    ASSUME CallInv, ManageStep, NEW S \in SUBSET (GPID_USER_START .. MAX_NPROCESS),
           UNCHANGED sc,
           \A i \in Idx : status'[i] = IF idx2pid(i) \in S THEN "PROC_UNUSED"
                                      ELSE status[i]
    PROVE  calls' = [p \in Pid |-> IF p \in S THEN IPC!Dead ELSE calls[p]]
<1>1. ASSUME NEW p \in Pid
      PROVE  calls'[p] = IF p \in S THEN IPC!Dead ELSE calls[p]
  <2>1. calls'[p] = CallOf(pid2idx(p))' /\ calls[p] = CallOf(pid2idx(p))
    BY DEF calls
  <2>2. pid2idx(p) \in Idx /\ idx2pid(pid2idx(p)) = p BY PidSlots
  <2>3. CASE p \in S BY <2>1, <2>2, <2>3, ManageCalls
  <2>4. CASE p \notin S BY <2>1, <2>2, <2>4, ManageCalls
  <2> QED BY <2>3, <2>4
<1>2. calls' = [p \in Pid |-> calls'[p]] BY DEF calls
<1> QED BY <1>1, <1>2

\* proc_free(p) ends p.
LEMMA FreeOneCalls ==
    ASSUME CallInv, NEW p \in GPID_USER_START .. MAX_NPROCESS, proc_free(p)
    PROVE  /\ \A i \in Idx : status'[i] = IF idx2pid(i) \in {p} THEN "PROC_UNUSED"
                                          ELSE status[i]
           /\ calls' = [q \in Pid |-> IF q \in {p} THEN IPC!Dead ELSE calls[q]]
<1>1. p \in Pid BY SizeAssumption DEF Pid, GPID_PROCESS
<1>2. status \in [Idx -> Status] BY DEF CallInv, Inv, TypeOK
<1>3. UNCHANGED sc /\ \A i \in Idx :
         status'[i] = IF idx2pid(i) \in {p} THEN "PROC_UNUSED" ELSE status[i]
  BY <1>1, <1>2, PidSlots DEF proc_free
<1>4. {p} \in SUBSET (GPID_USER_START .. MAX_NPROCESS) /\ ManageStep
  BY DEF ManageStep
<1> QED BY <1>3, <1>4, FreeCalls

\* proc_free(-1) ends every application that has ever been there.
LEMMA FreeAllCalls ==
    ASSUME CallInv, proc_free_all
    PROVE  \E S \in SUBSET (GPID_USER_START .. MAX_NPROCESS) :
              /\ \A i \in Idx : idx2pid(i) \in S <=> pid[i] >= GPID_USER_START
              /\ \A i \in Idx : status'[i] = IF idx2pid(i) \in S THEN "PROC_UNUSED"
                                             ELSE status[i]
              /\ calls' = [q \in Pid |-> IF q \in S THEN IPC!Dead ELSE calls[q]]
<1> DEFINE S == {p \in GPID_USER_START .. MAX_NPROCESS :
                    pid[pid2idx(p)] >= GPID_USER_START}
<1>1. ASSUME NEW i \in Idx
      PROVE  pid[i] >= GPID_USER_START <=> idx2pid(i) \in S
  <2>1. pid[i] \in {0, idx2pid(i)} /\ pid2idx(idx2pid(i)) = i
    BY PidSlots DEF CallInv, Inv, SlotPid
  <2>2. idx2pid(i) \in 1 .. MAX_NPROCESS BY PidSlots DEF Pid
  <2> QED BY <2>1, <2>2, SizeAssumption DEF GPID_PROCESS
<1>2. UNCHANGED sc /\ \A i \in Idx :
         status'[i] = IF idx2pid(i) \in S THEN "PROC_UNUSED" ELSE status[i]
  BY <1>1 DEF proc_free_all
<1>3. S \in SUBSET (GPID_USER_START .. MAX_NPROCESS) OBVIOUS
<1>4. ManageStep BY DEF ManageStep
<1> HIDE DEF S
<1>5. calls' = [q \in Pid |-> IF q \in S THEN IPC!Dead ELSE calls[q]]
  BY <1>2, <1>3, <1>4, FreeCalls
<1> QED BY <1>1, <1>2, <1>3, <1>5

\* The process management calls of sys_proc start a process, end some, or are
\* invisible.
LEMMA SimManage == CallInv /\ ManageStep => IPC!Next \/ calls' = calls
<1> SUFFICES ASSUME CallInv, ManageStep PROVE IPC!Next \/ calls' = calls
  OBVIOUS
<1>1. CASE proc_alloc BY <1>1, AllocCalls
<1>2. ASSUME NEW p \in Pid, elf_load(p) PROVE calls' = calls
  BY <1>2, LoadCalls
<1>3. ASSUME NEW p \in Pid, proc_set_ready(p) PROVE IPC!Next
  <2>1. IPC!Spawn(p) BY <1>3, ReadyCalls DEF IPC!Spawn
  <2> QED BY <2>1 DEF IPC!Next
<1>4. ASSUME NEW S \in SUBSET (GPID_USER_START .. MAX_NPROCESS),
             calls' = [q \in Pid |-> IF q \in S THEN IPC!Dead ELSE calls[q]]
      PROVE  IPC!Next
  BY <1>4 DEF IPC!Next, IPC!Kill
<1>5. ASSUME NEW p \in GPID_USER_START .. MAX_NPROCESS, proc_free(p)
      PROVE  IPC!Next
  <2>1. {p} \in SUBSET (GPID_USER_START .. MAX_NPROCESS) OBVIOUS
  <2> QED BY <1>4, <1>5, <2>1, FreeOneCalls
<1>6. CASE proc_free_all BY <1>4, <1>6, FreeAllCalls
<1> QED BY <1>1, <1>2, <1>3, <1>5, <1>6 DEF ManageStep

\* After a trap that ends in proc_yield(st) the calls are those of st: being
\* given the CPU, or losing it, is invisible.
LEMMA AfterYield ==
    ASSUME CallInv, fatal = "none", NEW st \in [Idx -> Status],
           \A i \in Idx : st[i] = "PROC_RUNNING" => i = proc_curr_idx,
           \A i \in Idx : sc'[i].type = "SYS_UNUSED",
           proc_yield(st), NEW i \in Idx
    PROVE  /\ st[i] \in {"PROC_UNUSED", "PROC_LOADING"} => CallOf(i)' = IPC!Dead
           /\ st[i] = "PROC_WAIT_TO_SEND" =>
                 CallOf(i)' = IPC!Send(to_receiver_pid'[i], sc'[i].content)
           /\ st[i] = "PROC_WAIT_TO_RECV" =>
                 CallOf(i)' = IPC!Recv(from_sender_pid'[i])
           /\ st[i] \in Active =>
                 CallOf(i)' = IPC!Run(sc'[i].sender, sc'[i].content)
<1>1. fatal' # "proc_send: no such receiver" BY DEF proc_yield
<1>2. View(i)' BY <1>1, CallViewNext
<1>3. /\ status' \in [Idx -> Status]
      /\ \A s \in Parked : status'[i] = s <=> st[i] = s
  BY YieldFacts DEF CallInv, Inv
<1>4. /\ st[i] \in {"PROC_UNUSED", "PROC_LOADING"} =>
            status'[i] \in {"PROC_UNUSED", "PROC_LOADING"}
      /\ st[i] = "PROC_WAIT_TO_SEND" => status'[i] = "PROC_WAIT_TO_SEND"
      /\ st[i] = "PROC_WAIT_TO_RECV" => status'[i] = "PROC_WAIT_TO_RECV"
      /\ st[i] \in Active => status'[i] \in Active
  <2>1. status'[i] \in Status /\ st[i] \in Status BY <1>3
  <2> QED BY <1>3, <2>1 DEF Parked, Waiting, Active, Status
<1> QED BY <1>2, <1>4 DEF View

\* A process that a trap ending in proc_yield(st) does not concern.
LEMMA NotConcerned ==
    ASSUME CallInv, fatal = "none", NEW st \in [Idx -> Status],
           \A i \in Idx : st[i] = "PROC_RUNNING" => i = proc_curr_idx,
           \A i \in Idx : sc'[i].type = "SYS_UNUSED",
           proc_yield(st), NEW i \in Idx,
           st[i] = status[i], sc[i].type \notin {"SYS_SEND", "SYS_RECV"},
           sc'[i].sender = sc[i].sender, sc'[i].content = sc[i].content,
           to_receiver_pid'[i] = to_receiver_pid[i],
           from_sender_pid'[i] = from_sender_pid[i]
    PROVE  CallOf(i)' = CallOf(i)
<1>1. View(i) /\ status[i] \in Active \cup Parked BY Before
<1>2. CASE status[i] \in {"PROC_UNUSED", "PROC_LOADING"}
  BY <1>1, <1>2, AfterYield DEF View
<1>3. CASE status[i] = "PROC_WAIT_TO_SEND"
  BY <1>1, <1>3, AfterYield DEF View
<1>4. CASE status[i] = "PROC_WAIT_TO_RECV"
  BY <1>1, <1>4, AfterYield DEF View
<1>5. CASE status[i] \in Active
  BY <1>1, <1>5, AfterYield DEF View
<1> QED BY <1>1, <1>2, <1>3, <1>4, <1>5 DEF Parked, Waiting

\* A yield that concerns nobody: SYS_YIELD and the preemption by the timer.
LEMMA SimYield ==
    ASSUME CallInv, fatal = "none", proc_yield(status),
           sc[proc_curr_idx].type \notin {"SYS_SEND", "SYS_RECV"},
           sc' \in {sc, ScTaken}, \A i \in Idx : sc'[i].type = "SYS_UNUSED",
           UNCHANGED <<from_sender_pid, to_receiver_pid>>
    PROVE  calls' = calls
<1>1. /\ status \in [Idx -> Status] /\ sc \in [Idx -> Syscall]
      /\ proc_curr_idx \in Idx
      /\ \A i \in Idx : status[i] = "PROC_RUNNING" => i = proc_curr_idx
  BY DEF CallInv, Inv, TypeOK, OnlyCurrentRuns
<1>2. ASSUME NEW i \in Idx PROVE CallOf(i)' = CallOf(i)
  <2>1. sc'[i].sender = sc[i].sender /\ sc'[i].content = sc[i].content
    BY <1>1 DEF ScTaken, Syscall
  <2>2. sc[i].type \notin {"SYS_SEND", "SYS_RECV"} BY <1>1, Before
  <2> QED BY <1>1, <2>1, <2>2, NotConcerned
<1> QED BY <1>2, NoCallChanges
\* The assertion on the receiver stops the machine inside the send.
LEMMA SimStopped ==
    ASSUME CallInv, fatal = "none", sc[proc_curr_idx].type = "SYS_SEND",
           sc' = ScSigned, fatal' = "proc_send: no such receiver",
           UNCHANGED <<proc_curr_idx, status, from_sender_pid, to_receiver_pid>>
    PROVE  calls' = calls
<1>0. TypeOK /\ SlotPid /\ OnlyCurrentRuns BY DEF CallInv, Inv
<1>1. PICK c \in Idx : c = proc_curr_idx BY <1>0 DEF TypeOK
<1>2. /\ \A i \in Idx : i # c => sc'[i] = sc[i]
      /\ sc'[c].receiver = sc[c].receiver /\ sc'[c].content = sc[c].content
  BY <1>0, <1>1, ScFacts
<1>3. ASSUME NEW i \in Idx PROVE View(i) /\ (i # proc_curr_idx => View(i))'
  <2>1. View(i) BY Before
  <2>2. (i # proc_curr_idx => View(i))'
    BY DEF View, CallOf, Sending, Active, IPC!Dead, IPC!Send, IPC!Recv, IPC!Run
  <2> QED BY <2>1, <2>2
<1>4. ASSUME NEW i \in Idx, i # c PROVE CallOf(i)' = CallOf(i)
  <2>1. status[i] \in Status BY <1>0 DEF TypeOK
  <2> QED BY <1>1, <1>2, <1>3, <1>4, <2>1, SameCall
<1>5. CallOf(c) = IPC!Send(sc[c].receiver, sc[c].content)
  <2>1. View(c) /\ status[c] \in Active BY <1>1, Before DEF Active
  <2> QED BY <1>1, <2>1 DEF View
<1>6. CallOf(c)' = IPC!Send(sc[c].receiver, sc[c].content)
  <2>1. status'[c] = "PROC_RUNNING" BY <1>1, Before
  <2>2. Sending(c)' BY <1>1 DEF Sending
  <2>3. CallOf(c)' = [mode |-> "send", peer |-> sc'[c].receiver,
                      content |-> sc'[c].content]
    BY <2>1, <2>2 DEF CallOf
  <2> QED BY <1>2, <2>3 DEF IPC!Send
<1>7. \A i \in Idx : CallOf(i)' = CallOf(i) BY <1>4, <1>5, <1>6
<1> QED BY <1>7, NoCallChanges

\* A message has moved from one process to another.
Moves == \E p, q \in Pid : IPC!Transfer(p, q)

\* A message moves from s to r: both calls are over, and both hold it.
LEMMA SimTransfer ==
    ASSUME NEW s \in Idx, NEW r \in Idx, s # r, NEW m, NEW from \in {0, idx2pid(s)},
           CallOf(s) = IPC!Send(idx2pid(r), m), CallOf(r) = IPC!Recv(from),
           CallOf(s)' = IPC!Run(idx2pid(s), m), CallOf(r)' = IPC!Run(idx2pid(s), m),
           \A i \in Idx : i \notin {s, r} => CallOf(i)' = CallOf(i)
    PROVE  Moves
<1> DEFINE p == idx2pid(s)
           q == idx2pid(r)
<1>1. p \in Pid /\ q \in Pid BY PidSlots
<1>2. calls[p] = IPC!Send(q, m) /\ calls[q] = IPC!Recv(from)
  BY PidSlots DEF calls
<1>3. calls' = [calls EXCEPT ![p] = IPC!Run(p, m), ![q] = IPC!Run(p, m)]
  BY TwoCallsChange
<1> HIDE DEF p, q
<1>4. /\ calls[p].mode = "send" /\ calls[p].peer = q /\ calls[p].content = m
      /\ calls[q].mode = "recv" /\ calls[q].peer = from
  BY <1>2 DEF IPC!Send, IPC!Recv
<1>5. IPC!Matches(p, q) BY <1>4 DEF IPC!Matches, IPC!Any, p
<1>6. IPC!Transfer(p, q) BY <1>3, <1>4, <1>5 DEF IPC!Transfer
<1> QED BY <1>1, <1>6 DEF Moves

\* proc_send: blocking is invisible, and so is stopping; otherwise the
\* message moves to the receiver.
LEMMA SimSend ==
    ASSUME CallInv, intr_soft, sc[proc_curr_idx].type = "SYS_SEND",
           proc_send, UNCHANGED from_sender_pid
    PROVE  Moves \/ calls' = calls
<1>0. /\ TypeOK /\ SlotPid /\ OnlyCurrentRuns /\ fatal = "none" /\ msip
      /\ status \in [Idx -> Status]
  BY DEF CallInv, Inv, TypeOK, intr_soft
<1>1. PICK c \in Idx : c = proc_curr_idx BY <1>0 DEF TypeOK
<1>2. PICK receiver \in Pid : receiver = sc[c].receiver
  BY <1>0, <1>1 DEF CallInv, Inv, SyscallPending, WellFormed
<1>3. PICK r \in Idx : r = pid2idx(receiver) /\ idx2pid(r) = receiver
  BY PidSlots
<1>4. /\ curr_pid = idx2pid(c) /\ status[c] = "PROC_RUNNING"
      /\ ScSigned \in [Idx -> Syscall]
      /\ \A i \in Idx : i # c => ScSigned[i] = sc[i]
      /\ ScSigned[c].sender = idx2pid(c)
      /\ ScSigned[c].receiver = receiver
      /\ ScSigned[c].content = sc[c].content
  BY <1>0, <1>1, <1>2, ScFacts
<1>5. \A i \in Idx : sc'[i].type = "SYS_UNUSED" BY NoneAskAfterTrap
<1>6. /\ \A i \in Idx : View(i)
      /\ \A i \in Idx : i # c => sc[i].type = "SYS_UNUSED"
  BY <1>0, <1>1, Before
<1>7. CallOf(c) = IPC!Send(receiver, sc[c].content)
  BY <1>1, <1>2, <1>4, <1>6 DEF View, Active
<1>8. \A i \in Idx : status[i] = "PROC_RUNNING" => i = c
  BY <1>0, <1>1 DEF OnlyCurrentRuns
<1>9. CASE /\ sc' = ScSigned
           /\ fatal' = "proc_send: no such receiver"
           /\ UNCHANGED <<proc_curr_idx, status, to_receiver_pid>>
  BY <1>0, <1>9, SimStopped
<1>10. CASE /\ sc' = ScSigned
            /\ to_receiver_pid' = [to_receiver_pid EXCEPT ![c] = receiver]
            /\ proc_yield([status EXCEPT ![c] = "PROC_WAIT_TO_SEND"])
  <2> DEFINE st == [status EXCEPT ![c] = "PROC_WAIT_TO_SEND"]
  <2>1. /\ st \in [Idx -> Status] /\ st[c] = "PROC_WAIT_TO_SEND"
        /\ \A i \in Idx : i # c => st[i] = status[i]
    BY <1>0 DEF Status
  <2>2. /\ to_receiver_pid'[c] = receiver
        /\ \A i \in Idx : i # c => to_receiver_pid'[i] = to_receiver_pid[i]
    BY <1>0, <1>10 DEF TypeOK
  <2>3. proc_yield(st) BY <1>10
  <2> HIDE DEF st
  <2>4. \A i \in Idx : st[i] = "PROC_RUNNING" => i = proc_curr_idx
    BY <1>1, <1>8, <2>1
  <2>5. CallOf(c)' = IPC!Send(receiver, sc[c].content)
    BY <1>0, <1>4, <1>5, <1>10, <2>1, <2>2, <2>3, <2>4, AfterYield
  <2>6. ASSUME NEW i \in Idx, i # c PROVE CallOf(i)' = CallOf(i)
    <3>1. sc'[i] = sc[i] /\ sc[i].type = "SYS_UNUSED"
      BY <1>4, <1>6, <1>10, <2>6
    <3> QED BY <1>0, <1>5, <2>1, <2>2, <2>3, <2>4, <2>6, <3>1, NotConcerned
  <2> QED BY <1>7, <2>5, <2>6, NoCallChanges
<1>11. CASE /\ WaitsFor(r, curr_pid)
            /\ sc' = msgcpy(ScSigned, c, r)
            /\ UNCHANGED to_receiver_pid
            /\ proc_yield([status EXCEPT ![r] = "PROC_RUNNABLE"])
  <2> DEFINE st == [status EXCEPT ![r] = "PROC_RUNNABLE"]
  <2>1. /\ status[r] = "PROC_WAIT_TO_RECV" /\ r # c
        /\ from_sender_pid[r] \in {0, idx2pid(c)}
    BY <1>4, <1>11 DEF WaitsFor
  <2>2. /\ st \in [Idx -> Status] /\ st[r] = "PROC_RUNNABLE"
        /\ \A i \in Idx : i # r => st[i] = status[i]
    BY <1>0 DEF Status
  <2>3. proc_yield(st) BY <1>11
  <2> HIDE DEF st
  <2>4. \A i \in Idx : st[i] = "PROC_RUNNING" => i = proc_curr_idx
    BY <1>1, <1>8, <2>2
  <2>5. /\ \A i \in Idx : i # r => sc'[i] = ScSigned[i]
        /\ sc'[r].sender = idx2pid(c) /\ sc'[r].content = sc[c].content
    BY <1>4, <1>11, MsgcpyFacts
  <2>6. CallOf(r) = IPC!Recv(from_sender_pid[r]) BY <1>6, <2>1 DEF View
  <2>7. CallOf(r)' = IPC!Run(idx2pid(c), sc[c].content)
    BY <1>0, <1>5, <2>2, <2>3, <2>4, <2>5, AfterYield DEF Active
  <2>8. CallOf(c)' = IPC!Run(idx2pid(c), sc[c].content)
    <3>1. st[c] \in Active BY <1>4, <2>1, <2>2 DEF Active
    <3>2. sc'[c].sender = idx2pid(c) /\ sc'[c].content = sc[c].content
      BY <1>4, <2>1, <2>5
    <3> QED BY <1>0, <1>5, <2>2, <2>3, <2>4, <3>1, <3>2, AfterYield
  <2>9. ASSUME NEW i \in Idx, i \notin {c, r} PROVE CallOf(i)' = CallOf(i)
    <3>1. sc'[i] = sc[i] /\ sc[i].type = "SYS_UNUSED"
      BY <1>4, <1>6, <2>5, <2>9
    <3> QED BY <1>0, <1>5, <1>11, <2>2, <2>3, <2>4, <2>9, <3>1, NotConcerned
  <2> QED BY <1>3, <1>7, <2>1, <2>6, <2>7, <2>8, <2>9, SimTransfer
<1> QED BY <1>1, <1>2, <1>3, <1>9, <1>10, <1>11, Zenon DEF proc_send
\* proc_recv: blocking is invisible; otherwise the message of a blocked sender
\* moves to the caller.
LEMMA SimRecv ==
    ASSUME CallInv, intr_soft, sc[proc_curr_idx].type = "SYS_RECV",
           proc_recv, UNCHANGED to_receiver_pid
    PROVE  Moves \/ calls' = calls
<1>0. /\ TypeOK /\ SlotPid /\ OnlyCurrentRuns /\ fatal = "none" /\ msip
      /\ status \in [Idx -> Status]
  BY DEF CallInv, Inv, TypeOK, intr_soft
<1>1. PICK c \in Idx : c = proc_curr_idx BY <1>0 DEF TypeOK
<1>2. PICK exp \in 0 .. MAX_NPROCESS : exp = sc[c].sender
  BY <1>0 DEF TypeOK, Syscall
<1>3. /\ curr_pid = idx2pid(c) /\ status[c] = "PROC_RUNNING"
      /\ ScTaken \in [Idx -> Syscall]
      /\ \A i \in Idx : i # c => ScTaken[i] = sc[i]
  BY <1>0, <1>1, ScFacts
<1>4. /\ from_sender_pid'[c] = exp
      /\ \A i \in Idx : i # c => from_sender_pid'[i] = from_sender_pid[i]
  BY <1>0, <1>1, <1>2 DEF TypeOK, proc_recv
<1>5. \A i \in Idx : sc'[i].type = "SYS_UNUSED" BY NoneAskAfterTrap
<1>6. /\ \A i \in Idx : View(i)
      /\ \A i \in Idx : i # c => sc[i].type = "SYS_UNUSED"
  BY <1>0, <1>1, Before
<1>7. CallOf(c) = IPC!Recv(exp)
  BY <1>1, <1>2, <1>3, <1>6 DEF View, Active
<1>8. \A i \in Idx : status[i] = "PROC_RUNNING" => i = c
  BY <1>0, <1>1 DEF OnlyCurrentRuns
<1>9. CASE /\ sc' = ScTaken
           /\ proc_yield([status EXCEPT ![c] = "PROC_WAIT_TO_RECV"])
  <2> DEFINE st == [status EXCEPT ![c] = "PROC_WAIT_TO_RECV"]
  <2>1. /\ st \in [Idx -> Status] /\ st[c] = "PROC_WAIT_TO_RECV"
        /\ \A i \in Idx : i # c => st[i] = status[i]
    BY <1>0 DEF Status
  <2>2. proc_yield(st) BY <1>9
  <2> HIDE DEF st
  <2>3. \A i \in Idx : st[i] = "PROC_RUNNING" => i = proc_curr_idx
    BY <1>1, <1>8, <2>1
  <2>4. CallOf(c)' = IPC!Recv(exp)
    BY <1>0, <1>4, <1>5, <2>1, <2>2, <2>3, AfterYield
  <2>5. ASSUME NEW i \in Idx, i # c PROVE CallOf(i)' = CallOf(i)
    <3>1. sc'[i] = sc[i] /\ sc[i].type = "SYS_UNUSED"
      BY <1>3, <1>6, <1>9, <2>5
    <3> QED BY <1>0, <1>4, <1>5, <2>1, <2>2, <2>3, <2>5, <3>1, NotConcerned
  <2> QED BY <1>7, <2>4, <2>5, NoCallChanges
<1>10. ASSUME NEW s \in Senders(exp),
              sc' = msgcpy(ScTaken, s, c),
              proc_yield([status EXCEPT ![s] = "PROC_RUNNABLE"])
       PROVE  Moves
  <2> DEFINE st == [status EXCEPT ![s] = "PROC_RUNNABLE"]
  <2>1. /\ s \in Idx /\ status[s] = "PROC_WAIT_TO_SEND" /\ s # c
        /\ to_receiver_pid[s] = idx2pid(c) /\ exp \in {0, idx2pid(s)}
    BY <1>3, <1>10 DEF Senders
  <2>2. /\ st \in [Idx -> Status] /\ st[s] = "PROC_RUNNABLE"
        /\ \A i \in Idx : i # s => st[i] = status[i]
    BY <1>0, <2>1 DEF Status
  <2>3. proc_yield(st) BY <1>10
  <2> HIDE DEF st
  <2>4. \A i \in Idx : st[i] = "PROC_RUNNING" => i = proc_curr_idx
    BY <1>1, <1>8, <2>1, <2>2
  <2>5. sc[s].sender = idx2pid(s)
    BY <2>1 DEF CallInv, Inv, BlockedSenderKeepsMessage
  <2>6. /\ \A i \in Idx : i # c => sc'[i] = sc[i]
        /\ sc'[c].sender = idx2pid(s) /\ sc'[c].content = sc[s].content
    <3>1. ScTaken[s] = sc[s] BY <1>3, <2>1
    <3> QED BY <1>3, <1>10, <2>1, <2>5, <3>1, MsgcpyFacts
  <2>7. CallOf(s) = IPC!Send(idx2pid(c), sc[s].content)
    BY <1>6, <2>1 DEF View
  <2>8. CallOf(s)' = IPC!Run(idx2pid(s), sc[s].content)
    <3>1. st[s] \in Active BY <2>2 DEF Active
    <3>2. sc'[s] = sc[s] BY <2>1, <2>6
    <3> QED BY <1>0, <1>5, <2>1, <2>2, <2>3, <2>4, <2>5, <3>1, <3>2, AfterYield
  <2>9. CallOf(c)' = IPC!Run(idx2pid(s), sc[s].content)
    <3>1. st[c] \in Active BY <1>3, <2>1, <2>2 DEF Active
    <3> QED BY <1>0, <1>5, <2>2, <2>3, <2>4, <2>6, <3>1, AfterYield
  <2>10. ASSUME NEW i \in Idx, i \notin {s, c} PROVE CallOf(i)' = CallOf(i)
    <3>1. sc'[i] = sc[i] /\ sc[i].type = "SYS_UNUSED"
      BY <1>6, <2>6, <2>10
    <3> QED BY <1>0, <1>4, <1>5, <2>2, <2>3, <2>4, <2>10, <3>1, NotConcerned
  <2> QED BY <1>7, <2>1, <2>7, <2>8, <2>9, <2>10, SimTransfer
<1> QED BY <1>1, <1>2, <1>9, <1>10 DEF proc_recv

\* Every trap moves a message or is invisible.
LEMMA SimTrap == CallInv /\ Trap => Moves \/ calls' = calls
<1> SUFFICES ASSUME CallInv, Trap PROVE Moves \/ calls' = calls OBVIOUS
<1>1. ASSUME fatal = "none",
             UNCHANGED <<status, sc, from_sender_pid, to_receiver_pid, fatal>>
      PROVE  calls' = calls
  <2>1. ASSUME NEW i \in Idx PROVE CallOf(i)' = CallOf(i)
    <3>1. View(i) /\ View(i)' /\ status[i] \in Status
      BY <1>1, Before, CallViewNext DEF CallInv, Inv, TypeOK
    <3> QED BY <1>1, <3>1, SameCall
  <2> QED BY <2>1, NoCallChanges
<1>2. CASE intr_ctrl_c BY <1>1, <1>2 DEF intr_ctrl_c
<1>3. CASE intr_soft
  <2>1. CASE sc[proc_curr_idx].type = "SYS_SEND" BY <1>3, <2>1, SimSend
        DEF intr_soft, proc_syscall
  <2>2. CASE sc[proc_curr_idx].type = "SYS_RECV" BY <1>3, <2>2, SimRecv
        DEF intr_soft, proc_syscall
  <2>3. CASE sc[proc_curr_idx].type = "SYS_YIELD"
    BY <1>3, <2>3, NoneAskAfterTrap, SimYield DEF intr_soft, proc_syscall
  <2> QED BY <1>3, <2>1, <2>2, <2>3 DEF intr_soft, proc_syscall
<1>4. CASE intr_timer
  <2>1. CASE UNCHANGED <<status, fatal>> BY <1>1, <1>4, <2>1 DEF intr_timer
  <2>2. CASE proc_yield(status)
    <3>1. fatal = "none" /\ ~msip /\ UNCHANGED <<sc, from_sender_pid, to_receiver_pid>>
      BY <1>4 DEF intr_timer
    <3>2. proc_curr_idx \in Idx /\ \A i \in Idx : sc[i].type = "SYS_UNUSED"
      BY <3>1, Before
    <3> QED BY <2>2, <3>1, <3>2, SimYield
  <2> QED BY <1>4, <2>1, <2>2 DEF intr_timer
<1> QED BY <1>2, <1>3, <1>4 DEF Trap

-----------------------------------------------------------------------------
\* The grass kernel implements synchronous message passing: whatever the
\* processes do, and wherever interrupts, ctrl+c, exits and kills come in
\* between, a message is delivered once, unaltered, to the process it was sent
\* to and to a receive that accepts its sender, and completes both calls.
THEOREM KernelImplementsRendezvous == Spec => ImplementsRendezvous
<1>1. Init => IPC!Init
  <2> SUFFICES ASSUME Init PROVE IPC!Init OBVIOUS
  <2>1. ASSUME NEW p \in Pid
        PROVE  CallOf(pid2idx(p)) = IF p = GPID_PROCESS THEN IPC!Born ELSE IPC!Dead
    <3>1. /\ pid2idx(p) \in Idx /\ (pid2idx(p) = 0 <=> p = GPID_PROCESS)
      BY PidSlots, SizeAssumption DEF Pid, pid2idx, GPID_PROCESS
    <3>2. View(pid2idx(p)) BY <3>1, CallView DEF Init
    <3> QED BY <3>1, <3>2 DEF Init, View, Active, FreshPage, IPC!Born
  <2> QED BY <2>1 DEF calls, IPC!Init
<1>2. CallInv /\ [Next]_vars => [IPC!Next]_calls
  <2> SUFFICES ASSUME CallInv, [Next]_vars PROVE IPC!Next \/ calls' = calls
    OBVIOUS
  <2>1. CASE Next
    <3>1. Moves => IPC!Next BY DEF Moves, IPC!Next
    <3> QED BY <2>1, <3>1, SimSyscall, SimManage, SimTrap DEF Next
  <2>2. CASE UNCHANGED vars
    BY <2>2 DEF vars, calls, CallOf, Sending
  <2> QED BY <2>1, <2>2
<1> QED BY <1>1, <1>2, CallInvariance, PTL DEF Spec, IPC!Spec, ImplementsRendezvous
=============================================================================
