----------------------------- MODULE Rendezvous -----------------------------
(***************************************************************************)
(* What the grass kernel promises to processes that talk to each other:    *)
(* unbuffered, synchronous message passing.  A process posts a send or a   *)
(* receive; a message moves in one step that completes both calls, so it   *)
(* is delivered once, unchanged, to the process it was addressed to, and   *)
(* only to a receive that accepts its sender.                              *)
(***************************************************************************)
EXTENDS Naturals

CONSTANTS
    Proc,        \* the pids
    Mortal,      \* the pids whose process may exit or be killed
    First,       \* the pid that exists at boot
    Contents,    \* what a message can carry
    NoContent    \* no message yet

Any == 0  \* a receive from any sender

VARIABLE ipc  \* the state of the calls of each process

\* mode "dead": no process; "run": computing, its last completed call was the
\* exchange of `content' sent by `peer'; "send": offering `content' to `peer';
\* "recv": asking for a message of `peer'.
Dead       == [mode |-> "dead", peer |-> 0, content |-> NoContent]
Run(p, m)  == [mode |-> "run", peer |-> p, content |-> m]
Send(q, m) == [mode |-> "send", peer |-> q, content |-> m]
Recv(s)    == [mode |-> "recv", peer |-> s, content |-> NoContent]

Born == Run(0, NoContent)

Init == ipc = [p \in Proc |-> IF p = First THEN Born ELSE Dead]

PostSend(p, q, m) ==
    /\ ipc[p].mode = "run"
    /\ ipc' = [ipc EXCEPT ![p] = Send(q, m)]

PostRecv(p, s) ==
    /\ ipc[p].mode = "run"
    /\ ipc' = [ipc EXCEPT ![p] = Recv(s)]

Matches(p, q) ==
    /\ ipc[p].mode = "send" /\ ipc[p].peer = q
    /\ ipc[q].mode = "recv" /\ ipc[q].peer \in {Any, p}

Transfer(p, q) ==
    /\ Matches(p, q)
    /\ ipc' = [ipc EXCEPT ![p] = Run(p, ipc[p].content),
                          ![q] = Run(p, ipc[p].content)]

Spawn(p) ==
    /\ ipc[p] = Dead
    /\ ipc' = [ipc EXCEPT ![p] = Born]

Kill(S) == ipc' = [p \in Proc |-> IF p \in S THEN Dead ELSE ipc[p]]

Next ==
    \/ \E p, q \in Proc, m \in Contents : PostSend(p, q, m)
    \/ \E p \in Proc, s \in Proc \cup {Any} : PostRecv(p, s)
    \/ \E p, q \in Proc : Transfer(p, q)
    \/ \E p \in Proc : Spawn(p)
    \/ \E S \in SUBSET Mortal : Kill(S)

Spec == Init /\ [][Next]_ipc
=============================================================================
