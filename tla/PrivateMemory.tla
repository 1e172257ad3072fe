--------------------------- MODULE PrivateMemory ---------------------------
(***************************************************************************)
(* What the memory layer promises: every process has a memory of its own.  *)
(* Only the running process changes its memory, except for the page of     *)
(* system call arguments, which the kernel overwrites with a message; a    *)
(* process is born with one of the given images, whatever the processes    *)
(* before it left behind.                                                  *)
(***************************************************************************)
EXTENDS Naturals

CONSTANTS
    Proc,      \* the pids
    First,     \* the pid that runs at boot
    Mortal,    \* the pids that can be freed
    Loc,       \* the locations of a process's memory
    MsgLoc,    \* the location that holds its system call arguments
    Val,       \* what a location can hold
    Images     \* the memories a process can be born with

VARIABLES
    running,   \* the pid that runs
    memory     \* the memory of each process, or NoMemory

NoMemory == <<>>

Alive(p) == memory[p] # NoMemory

Init ==
    /\ running = First
    /\ \E image \in Images :
          memory = [p \in Proc |-> IF p = First THEN image ELSE NoMemory]

Store(l, v) ==
    /\ UNCHANGED running
    /\ memory' = [memory EXCEPT ![running] = [@ EXCEPT ![l] = v]]

Switch(p) ==
    /\ running' = p
    /\ Alive(p)
    /\ UNCHANGED memory

Message(src, dst, p) ==
    /\ running' = p
    /\ Alive(src) /\ Alive(dst) /\ Alive(p)
    /\ memory' = [memory EXCEPT
                    ![dst] = [@ EXCEPT ![MsgLoc] = memory[src][MsgLoc]]]

Birth(p) ==
    /\ UNCHANGED running
    /\ ~Alive(p)
    /\ memory'[p] \in Images
    /\ memory' = [memory EXCEPT ![p] = memory'[p]]

Death(P) ==
    /\ UNCHANGED running
    /\ running \notin P
    /\ memory' = [p \in Proc |-> IF p \in P THEN NoMemory ELSE memory[p]]

Next ==
    \/ \E p \in Proc : Switch(p) \/ Birth(p)
    \/ \E l \in Loc, v \in Val : Store(l, v)
    \/ \E src, dst, p \in Proc : Message(src, dst, p)
    \/ \E P \in SUBSET Mortal : Death(P)

Spec == Init /\ [][Next]_<<running, memory>>
=============================================================================
