------------------------------ MODULE Terminal ------------------------------
(***************************************************************************)
(* The terminal (earth/dev_tty.c) and the shell that reads from it         *)
(* (apps/system/sys_shell.c).  tty_read() runs in the shell, tty_intr() in *)
(* the trap of a user application; both take characters from the UART into *)
(* the same static variable.  The shell can be preempted, so an            *)
(* application it has left in the background may trap between any two of   *)
(* its steps.                                                              *)
(* Definitions named X_without_Y or X_with_Y are wrong versions of X.      *)
(***************************************************************************)
EXTENDS Integers, Sequences, SequencesExt, FiniteSets

CONSTANTS
    LEN,          \* length of the shell's buffer, 256 in the code
    NCMDS,        \* entries of cmds[], 10 in the code
    CMD_NARGS,    \* arguments of a request, 16
    CMD_ARG_LEN,  \* bytes of an argument, 32
    UART_FIFO,    \* characters that the UART holds
    MaxTyped,     \* characters the user types
    MaxEdits      \* ctrl+c and backspaces among them

ASSUME TerminalAssumption ==
    /\ LEN \in Nat /\ LEN >= 2
    /\ NCMDS \in Nat \ {0} /\ CMD_NARGS \in Nat \ {0} /\ CMD_ARG_LEN \in Nat \ {0}

Printable == {"a", " ", "(", ";", ")"}
CtrlC     == "^C"
Enter     == "cr"
Backspace == "del"
NUL       == "nul"
NoChar    == "-1"    \* what uart_getc() returns when nothing was typed

Char == Printable \cup {CtrlC, Enter, Backspace}

VARIABLES
    uart,        \* characters typed and not yet taken
    typed,       \* how many were typed
    edits,       \* ctrl+c and backspaces among them
    c, is_reading,           \* dev_tty.c
    pc, buf, i,              \* the shell and its tty_read()
    cmds, cmd_idx, max_idx,  \* parse_batch_cmds()
    bg,          \* an application, started with &, runs in the background
    due,         \* characters typed for the line being read and not yet in it
    line,        \* what the user sees on the line being read
    ended,       \* the character that ended the line
    raced,       \* c was overwritten before tty_read() returned
    ran          \* the requests sent for the line

tty  == <<uart, typed, edits, c, is_reading>>
shell == <<buf, i, cmds, cmd_idx, max_idx>>
vars == <<tty, pc, shell, bg, due, line, ended, raced, ran>>

\* The C string in a buffer.
CString(b) == SelectInSeq(b, LAMBDA ch : ch = NUL)
Str(b) == IF CString(b) = 0 THEN b ELSE SubSeq(b, 1, CString(b) - 1)

(***************************************************************************)
(* The pieces of s between separators, empty ones left out: what strtok()  *)
(* returns one after the other, and what a list of arguments means.        *)
(***************************************************************************)
Runs(s, sep) ==
    {r \in (1 .. Len(s)) \X (1 .. Len(s)) :
        /\ r[1] <= r[2]
        /\ \A k \in r[1] .. r[2] : s[k] # sep
        /\ r[1] = 1 \/ s[r[1] - 1] = sep
        /\ r[2] = Len(s) \/ s[r[2] + 1] = sep}

Pieces(s, sep) ==
    LET runs == Runs(s, sep)
        nth(n) == CHOOSE r \in runs : Cardinality({q \in runs : q[1] < r[1]}) = n - 1
    IN  [n \in 1 .. Cardinality(runs) |-> SubSeq(s, nth(n)[1], nth(n)[2])]

strtok(s) == Pieces(s, ";")

-----------------------------------------------------------------------------
(***************************************************************************)
(* The shell's parsers.                                                    *)
(***************************************************************************)
Batched(s) == Len(s) > 0 /\ s[1] = "(" /\ s[Len(s)] = ")"

\* The commands that parse_batch_cmds() copies into its table.
Copied(s) == IF Batched(s) THEN strtok(SubSeq(s, 2, Len(s) - 1)) ELSE <<s>>

\* One character of parse_request().
ParseChar(st, ch) ==
    IF st.bad THEN st
    ELSE IF ch # " "
    THEN LET idx == st.idx + 1
         IN  [st EXCEPT !.argv[st.nargs + 1] = Append(@, ch), !.idx = idx,
                        !.bad = idx >= CMD_ARG_LEN]
    ELSE IF st.idx # 0
    THEN [st EXCEPT !.idx = 0, !.nargs = @ + 1, !.bad = st.nargs + 1 >= CMD_NARGS]
    ELSE st

\* parse_request(): the arguments, or that it returns -1.
parse_request(s) ==
    LET st == FoldLeft(ParseChar,
                       [bad |-> FALSE, idx |-> 0, nargs |-> 0,
                        argv |-> [k \in 1 .. CMD_NARGS |-> <<>>]], s)
    IN  [bad |-> st.bad,
         argv |-> SubSeq(st.argv, 1, IF st.idx # 0 THEN st.nargs + 1 ELSE st.nargs)]

-----------------------------------------------------------------------------
Init ==
    /\ uart = <<>> /\ typed = 0 /\ edits = 0
    /\ c = NUL /\ is_reading = FALSE
    /\ pc = "batch"
    /\ buf = [k \in 1 .. LEN |-> IF k = 1 THEN "a" ELSE NUL]
    /\ i = 0
    /\ cmds = [k \in 0 .. NCMDS - 1 |-> <<>>] /\ cmd_idx = -1 /\ max_idx = -1
    /\ bg = FALSE
    /\ due = <<>> /\ line = <<"a">> /\ ended = Enter /\ raced = FALSE /\ ran = <<>>

\* The user types.
Type(ch) ==
    /\ typed < MaxTyped
    /\ Len(uart) < UART_FIFO
    /\ uart' = Append(uart, ch)
    /\ typed' = typed + 1
    /\ edits' = edits + (IF ch \in {CtrlC, Backspace} THEN 1 ELSE 0)
    /\ edits' <= MaxEdits
    /\ due' = IF is_reading THEN Append(due, ch) ELSE due
    /\ UNCHANGED <<c, is_reading, pc, shell, bg, line, ended, raced, ran>>

\* A character at the UART is looked at in a trap.
TakeInTrap ==
    /\ c' = IF uart = <<>> THEN NoChar ELSE Head(uart)
    /\ uart' = IF uart = <<>> THEN uart ELSE Tail(uart)
    /\ raced' = (raced \/ pc = "newline")
    /\ \/ bg /\ bg' = (c' # CtrlC) /\ UNCHANGED pc
       \/ pc = "waiting" /\ pc' = (IF c' = CtrlC THEN "batch" ELSE pc) /\ UNCHANGED bg
    /\ UNCHANGED <<typed, edits, is_reading, shell, due, line, ended, ran>>

\* The trap looks for ctrl+c also while a line is read.
tty_intr_without_is_reading == TakeInTrap

\* tty_intr() in the trap of an application: the one in the foreground while
\* the shell waits for it, or the one in the background.  Ctrl+c kills it.
tty_intr == ~is_reading /\ TakeInTrap

(***************************************************************************)
(* tty_read(): a character is taken from the UART in one step and looked   *)
(* at in another.  i counts from 0 as in the code.                         *)
(***************************************************************************)
ReadStart ==
    /\ pc = "prompt"
    /\ is_reading' = TRUE /\ i' = 0 /\ pc' = "reading"
    /\ due' = uart /\ line' = <<>> /\ ran' = <<>> /\ raced' = FALSE
    /\ UNCHANGED <<uart, typed, edits, c, buf, cmds, cmd_idx, max_idx, bg, ended>>

\* The inner loop is over when uart_getc() has found a character.
ReadTake ==
    /\ pc = "reading" /\ uart # <<>>
    /\ c' = Head(uart) /\ uart' = Tail(uart)
    /\ pc' = "taken"
    /\ UNCHANGED <<typed, edits, is_reading, shell, bg, due, line, ended, raced, ran>>

\* The index after a backspace, which i++ of the loop has still to raise.
AfterBackspace(k) == IF k # 0 THEN k - 2 ELSE k - 1

\* A line given up with ctrl+c stays in the buffer.
Terminated_without_discard(b, ch) == [b EXCEPT ![i + 1] = NUL]

\* Ctrl+c or Enter: the loop is over, the new line is yet to be printed.
Terminated(b, ch) ==
    [k \in 1 .. LEN |-> IF k = i + 1 \/ (k = 1 /\ ch = CtrlC) THEN NUL ELSE b[k]]

ReadEnd ==
    /\ pc = "taken" /\ c \in {CtrlC, Enter}
    /\ buf' = Terminated(buf, c)
    /\ is_reading' = FALSE /\ pc' = "newline"
    /\ due' = <<>> /\ ended' = c
    /\ UNCHANGED <<uart, typed, edits, c, i, cmds, cmd_idx, max_idx, bg, line, raced, ran>>

\* Any other character; the line also ends when the buffer is full.
ReadChar ==
    LET b  == [buf EXCEPT ![i + 1] = c]
        k  == (IF c = Backspace THEN AfterBackspace(i) ELSE i) + 1
        full == k = LEN - 1
    IN  /\ pc = "taken" /\ c \notin {CtrlC, Enter}
        /\ c' = IF c = Backspace THEN NUL ELSE c
        /\ buf' = IF full THEN [b EXCEPT ![LEN] = NUL] ELSE b
        /\ i' = k
        /\ is_reading' = ~full
        /\ pc' = IF full THEN "batch" ELSE "reading"
        /\ ended' = IF full THEN Enter ELSE ended
        /\ due' = IF full THEN <<>> ELSE Tail(due)
        /\ line' = IF c # Backspace THEN Append(line, c)
                   ELSE IF line = <<>> THEN line ELSE Front(line)
        /\ UNCHANGED <<uart, typed, edits, cmds, cmd_idx, max_idx, bg, raced, ran>>

\* return c == 0x03 ? 0 : i, and the shell reads again after 0.
ReadReturn ==
    /\ pc = "newline"
    /\ pc' = IF c = CtrlC \/ i = 0 THEN "prompt" ELSE "batch"
    /\ UNCHANGED <<tty, shell, bg, due, line, ended, raced, ran>>

(***************************************************************************)
(* parse_batch_cmds() and what main() does with the command it returns.    *)
(***************************************************************************)
\* The table and the indices after a new line was split.  The number of
\* commands is compared with NCMDS only after the copy, so one too many is
\* copied beyond the table.
NewBatch(s) ==
    LET copied == Copied(s)
    IN  [cmds |-> [k \in 0 .. NCMDS - 1 |-> IF k < Len(copied) THEN copied[k + 1]
                                                              ELSE cmds[k]],
         cmd_idx |-> 0, max_idx |-> Len(copied) - 1,
         stray |-> Len(copied) > NCMDS]

OldBatch ==
    [cmds |-> cmds, cmd_idx |-> cmd_idx, max_idx |-> max_idx, stray |-> FALSE]

\* What main() does with a command: an error message, or a request to
\* sys_proc.  The letters of a program's name are not modelled, so any command
\* may turn out to be one in the foreground, which is waited for, or one that
\* fails, one in the background or killall, after which main() goes on.
RunCmd(cmd) ==
    LET r == parse_request(cmd)
    IN  \/ r.bad /\ UNCHANGED <<pc, ran, bg>>
        \/ /\ ~r.bad /\ ran' = Append(ran, r.argv)
           /\ \/ pc' = "waiting" /\ UNCHANGED bg
              \/ pc' = "batch" /\ bg' \in BOOLEAN

NoMoreCmds == pc' = "prompt" /\ UNCHANGED <<ran, bg>>

\* The end of a batch leaves the indices alone.
BatchOver_without_reset(b) == cmd_idx' = b.cmd_idx /\ max_idx' = b.max_idx

BatchOver(b) == cmd_idx' = -1 /\ max_idx' = -1

\* The model ends at a stray copy: the message and the return NULL that follow
\* it in the code (lines 38 to 42) are not reached without one.
parse_batch_cmds ==
    /\ pc = "batch"
    /\ \E b \in {IF cmd_idx = -1 THEN NewBatch(Str(buf)) ELSE OldBatch} :
          /\ cmds' = b.cmds
          /\ \/ /\ b.stray /\ pc' = "stray"
                /\ UNCHANGED <<cmd_idx, max_idx, ran, bg>>
             \/ /\ ~b.stray /\ b.cmd_idx <= b.max_idx
                /\ cmd_idx' = b.cmd_idx + 1 /\ max_idx' = b.max_idx
                /\ RunCmd(b.cmds[b.cmd_idx])
             \/ /\ ~b.stray /\ b.cmd_idx > b.max_idx
                /\ BatchOver(b)
                /\ NoMoreCmds
    /\ UNCHANGED <<tty, buf, i, due, line, ended, raced>>

\* The command in the foreground terminates.
Finish ==
    /\ pc = "waiting" /\ pc' = "batch"
    /\ UNCHANGED <<tty, shell, bg, due, line, ended, raced, ran>>

Next ==
    /\ pc # "stray"
    /\ \/ \E ch \in Char : Type(ch)
       \/ tty_intr
       \/ ReadStart \/ ReadTake \/ ReadEnd \/ ReadChar \/ ReadReturn
       \/ parse_batch_cmds \/ Finish

Spec == Init /\ [][Next]_vars

-----------------------------------------------------------------------------
(***************************************************************************)
(* Properties.                                                             *)
(***************************************************************************)
\* What is typed for a line and not yet in it: no trap of an application takes
\* a character from the UART, nor puts another one in place of the one that
\* uart_getc() has found.
NothingStolen ==
    /\ pc = "reading" => due = uart
    /\ pc = "taken" => due = <<c>> \o uart

\* While a line is read, the buffer up to the index of tty_read() holds what
\* the user sees on it, backspaces taken into account, and every character
\* typed since it began is in it or still to come, in order, whatever traps
\* tty_intr() runs in.
LineAsEdited ==
    /\ NothingStolen
    /\ pc \in {"reading", "taken", "newline"} =>
          /\ i = Len(line)
          /\ pc = "newline" /\ ended = CtrlC => Str(buf) = <<>>
          /\ pc # "newline" \/ ended = Enter => SubSeq(buf, 1, i) = line

\* A line that was given up with ctrl+c never runs, not even when a trap
\* overwrites the character before tty_read() has looked at it for the
\* second time: at most an empty request is sent.
GivenUpNeverRuns ==
    ended = CtrlC /\ pc \notin {"reading", "taken"} => \A k \in DOMAIN ran : ran[k] = <<>>

\* The requests for a line, in the order of its commands: those that
\* parse_request() accepts, which are the ones whose arguments fit and, with
\* the largest number of arguments, do not end in a space.
Acceptable(s) ==
    LET args == Pieces(s, " ")
    IN  /\ \A k \in DOMAIN args : Len(args[k]) < CMD_ARG_LEN
        /\ Len(args) < CMD_NARGS \/ (Len(args) = CMD_NARGS /\ Last(s) # " ")

Expected(s) ==
    LET all == IF Batched(s) THEN Pieces(SubSeq(s, 2, Len(s) - 1), ";") ELSE <<s>>
        good == SelectSeq(all, Acceptable)
    IN  [k \in DOMAIN good |-> Pieces(good[k], " ")]

\* When the shell is done with a line, it has sent exactly the requests of
\* its commands, each once and in order; so a batch is never cut short or
\* continued with the next line.
CommandsInOrder ==
    pc = "prompt" /\ ended = Enter /\ line # <<>> /\ ~raced => ran = Expected(line)
=============================================================================
