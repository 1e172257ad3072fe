--------------------------- MODULE TerminalProofs ---------------------------
(***************************************************************************)
(* Proofs about the terminal and the shell, for buffers of any length and  *)
(* any number of commands in a line.                                       *)
(***************************************************************************)
EXTENDS Terminal, TLAPS

\* What a buffer holds.
Glyph == Char \cup {NUL}

PlacesOK ==
    /\ uart \in Seq(Char)
    /\ buf \in [1 .. LEN -> Glyph]
    /\ line \in Seq(Char)
    /\ pc \in {"prompt", "reading", "taken", "newline", "batch", "waiting", "stray"}
    /\ pc \in {"reading", "taken"} => is_reading
    /\ pc = "taken" => c \in Char
    /\ ended \in {Enter, CtrlC}
    /\ cmd_idx \in Int

\* The buffer up to the index is the line, which leaves two characters free
\* while it is read.
BufferIsLine ==
    /\ pc \in {"reading", "taken"} => i < LEN - 1
    /\ pc \in {"reading", "taken", "newline"} => i = Len(line)
    /\ pc \in {"reading", "taken"} \/ (pc = "newline" /\ ended = Enter) =>
          \A k \in 1 .. i : buf[k] = line[k]

\* A line is read between two batches, and nothing has run for it.
BetweenBatches ==
    /\ pc \in {"prompt", "reading", "taken", "newline"} => cmd_idx = -1
    /\ pc \in {"reading", "taken"} => ran = <<>>

\* A line that was given up leaves an empty buffer and at most one empty
\* command.
EmptyBatch ==
    ended = CtrlC /\ pc \notin {"reading", "taken"} =>
       /\ ran \in Seq({<<>>})
       /\ buf[1] = NUL
       /\ cmd_idx # -1 => cmd_idx = 1 /\ max_idx = 0

\* The inductive invariant.
TerminalInv ==
    PlacesOK /\ BufferIsLine /\ NothingStolen /\ BetweenBatches /\ EmptyBatch

-----------------------------------------------------------------------------
(***************************************************************************)
(* The empty line.                                                         *)
(***************************************************************************)
\* A buffer that begins with the end of a string holds the empty one.
LEMMA EmptyStr ==
    ASSUME NEW b \in [1 .. LEN -> Glyph], b[1] = NUL
    PROVE  Str(b) = <<>>
<1> DEFINE I == {k \in 1 .. Len(b) : b[k] = NUL}
<1>1. LEN \in Nat /\ LEN >= 2 /\ b \in Seq(Glyph) /\ Len(b) = LEN
  BY TerminalAssumption
<1>2. 1 \in I /\ \A k \in I : 1 <= k /\ k \in Int BY <1>1
<1>3. Min(I) = 1 BY <1>2 DEF Min
<1>4. CString(b) = 1 BY <1>2, <1>3 DEF CString, SelectInSeq
<1>5. SubSeq(b, 1, 0) = <<>> BY <1>1
<1> QED BY <1>4, <1>5 DEF Str

\* A fold over no characters leaves the first value.
LEMMA FoldNothing ==
    ASSUME NEW base
    PROVE  FoldLeft(ParseChar, base, <<>>) = base
<1> DEFINE step(it, s) == IF s = {} THEN base
                          ELSE ParseChar(it[s \ {Max(s)}], <<>>[Max(s)])
           iter == CHOOSE it : it = [s \in SUBSET {} |-> step(it, s)]
<1>1. DOMAIN <<>> = {} OBVIOUS
<1>2. \E it : it = [s \in SUBSET {} |-> step(it, s)]
  <2> DEFINE g == [s \in {{}} |-> base]
  <2>1. SUBSET {} = {{}} OBVIOUS
  <2>2. g = [s \in SUBSET {} |-> step(g, s)] BY <2>1
  <2> HIDE DEF g
  <2> QED BY <2>2
<1>3. iter = [s \in SUBSET {} |-> step(iter, s)] BY <1>2
<1>4. iter[{}] = base BY <1>3
<1> QED BY <1>1, <1>4 DEF FoldLeft, MapThenFoldSet

\* parse_request() makes an empty request of an empty command.
LEMMA ParseNothing == parse_request(<<>>) = [bad |-> FALSE, argv |-> <<>>]
<1> DEFINE first == [bad |-> FALSE, idx |-> 0, nargs |-> 0,
                     argv |-> [k \in 1 .. CMD_NARGS |-> <<>>]]
<1>1. FoldLeft(ParseChar, first, <<>>) = first BY FoldNothing
<1>2. parse_request(<<>>)
        = [bad |-> first.bad,
           argv |-> SubSeq(first.argv, 1, IF first.idx # 0 THEN first.nargs + 1
                                          ELSE first.nargs)]
  BY <1>1 DEF parse_request
<1>3. SubSeq(first.argv, 1, 0) = <<>> OBVIOUS
<1> QED BY <1>2, <1>3

\* parse_batch_cmds() makes one empty command of an empty line.
LEMMA BatchNothing ==
    ASSUME cmd_idx = -1
    PROVE  /\ ~NewBatch(<<>>).stray
           /\ NewBatch(<<>>).cmd_idx = 0 /\ NewBatch(<<>>).max_idx = 0
           /\ NewBatch(<<>>).cmds[0] = <<>>
<1>1. Copied(<<>>) = << <<>> >> BY DEF Copied, Batched
<1>2. Len(Copied(<<>>)) = 1 /\ Copied(<<>>)[1] = <<>> BY <1>1
<1>3. NCMDS \in Nat /\ NCMDS > 0 /\ 0 \in 0 .. NCMDS - 1 BY TerminalAssumption
<1>4. ~(1 > NCMDS) /\ 1 - 1 = 0 /\ 0 + 1 = 1 /\ 0 < 1 BY <1>3
<1> DEFINE table == [k \in 0 .. NCMDS - 1 |-> IF k < Len(Copied(<<>>))
                                              THEN Copied(<<>>)[k + 1] ELSE cmds[k]]
           over == Len(Copied(<<>>)) > NCMDS
<1>5. table[0] = <<>> BY <1>2, <1>3, <1>4
<1>6. ~over BY <1>2, <1>4
<1>7. NewBatch(<<>>) = [cmds |-> table, cmd_idx |-> 0,
                        max_idx |-> Len(Copied(<<>>)) - 1, stray |-> over]
  BY DEF NewBatch
<1> HIDE DEF table, over
<1>8. /\ NewBatch(<<>>).stray <=> over
      /\ NewBatch(<<>>).cmd_idx = 0
      /\ NewBatch(<<>>).max_idx = Len(Copied(<<>>)) - 1
      /\ NewBatch(<<>>).cmds = table
  BY <1>7
<1> QED BY <1>2, <1>4, <1>5, <1>6, <1>8

-----------------------------------------------------------------------------
(***************************************************************************)
(* The steps.                                                              *)
(***************************************************************************)
LEMMA TerminalInit == Init => TerminalInv
<1> SUFFICES ASSUME Init PROVE TerminalInv OBVIOUS
<1>1. PlacesOK
  <2>1. buf \in [1 .. LEN -> Glyph]
    BY DEF Init, Glyph, Char, Printable
  <2>2. line \in Seq(Char)
    <3>1. "a" \in Char BY DEF Char, Printable
    <3> QED BY <3>1 DEF Init
  <2>3. uart \in Seq(Char) BY DEF Init
  <2> QED BY <2>1, <2>2, <2>3 DEF Init, PlacesOK
<1>2. BufferIsLine /\ NothingStolen /\ BetweenBatches /\ EmptyBatch
  BY DEF Init, BufferIsLine, NothingStolen, BetweenBatches, EmptyBatch, Enter, CtrlC
<1> QED BY <1>1, <1>2 DEF TerminalInv

\* The user types.
LEMMA TypeKeeps ==
    ASSUME TerminalInv, NEW ch \in Char, Type(ch)
    PROVE  TerminalInv'
<1>1. /\ UNCHANGED <<c, is_reading, pc, buf, i, cmd_idx, max_idx, line, ended, ran>>
      /\ uart' = Append(uart, ch)
      /\ due' = IF is_reading THEN Append(due, ch) ELSE due
  BY DEF Type, shell
<1>2. uart \in Seq(Char) BY DEF TerminalInv, PlacesOK
<1>3. PlacesOK' BY <1>1, <1>2 DEF TerminalInv, PlacesOK
<1>4. NothingStolen'
  <2>1. CASE pc = "reading"
    <3>1. is_reading /\ due = uart BY <2>1 DEF TerminalInv, PlacesOK, NothingStolen
    <3> QED BY <1>1, <2>1, <3>1 DEF NothingStolen
  <2>2. CASE pc = "taken"
    <3>1. is_reading /\ due = <<c>> \o uart /\ c \in Char
      BY <2>2 DEF TerminalInv, PlacesOK, NothingStolen
    <3>2. Append(<<c>> \o uart, ch) = <<c>> \o Append(uart, ch) BY <1>2, <3>1
    <3> QED BY <1>1, <2>2, <3>1, <3>2 DEF NothingStolen
  <2> QED BY <1>1, <2>1, <2>2 DEF NothingStolen
<1>5. BufferIsLine' /\ BetweenBatches' /\ EmptyBatch'
  BY <1>1 DEF TerminalInv, BufferIsLine, BetweenBatches, EmptyBatch
<1> QED BY <1>3, <1>4, <1>5 DEF TerminalInv

\* A trap of an application, while no line is read.
LEMMA TrapKeeps ==
    ASSUME TerminalInv, tty_intr
    PROVE  TerminalInv'
<1>1. /\ ~is_reading /\ UNCHANGED is_reading
      /\ UNCHANGED <<buf, i, cmd_idx, max_idx, line, ended, ran>>
      /\ uart' = uart \/ (uart # <<>> /\ uart' = Tail(uart))
      /\ UNCHANGED pc \/ (pc = "waiting" /\ pc' = "batch")
  BY DEF tty_intr, TakeInTrap, shell
<1>2. pc \notin {"reading", "taken"} /\ pc' \notin {"reading", "taken"}
  BY <1>1 DEF TerminalInv, PlacesOK
<1>3. uart' \in Seq(Char)
  <2>1. uart \in Seq(Char) BY DEF TerminalInv, PlacesOK
  <2> QED BY <1>1, <2>1
<1>4. PlacesOK' BY <1>1, <1>2, <1>3 DEF TerminalInv, PlacesOK
<1>5. BufferIsLine' BY <1>1, <1>2 DEF TerminalInv, BufferIsLine
<1>6. NothingStolen' BY <1>2 DEF NothingStolen
<1>7. BetweenBatches' BY <1>1, <1>2 DEF TerminalInv, BetweenBatches
<1>8. EmptyBatch' BY <1>1, <1>2 DEF TerminalInv, EmptyBatch
<1> QED BY <1>4, <1>5, <1>6, <1>7, <1>8 DEF TerminalInv

\* A line begins.
LEMMA ReadStartKeeps ==
    ASSUME TerminalInv, ReadStart
    PROVE  TerminalInv'
<1>1. /\ pc = "prompt" /\ pc' = "reading" /\ i' = 0 /\ line' = <<>> /\ ran' = <<>>
      /\ is_reading' = TRUE /\ due' = uart
      /\ UNCHANGED <<uart, buf, cmd_idx, ended>>
  BY DEF ReadStart
<1>2. line' \in Seq(Char) /\ Len(line') = 0 BY <1>1
<1>3. PlacesOK' BY <1>1, <1>2 DEF TerminalInv, PlacesOK
<1>4. BufferIsLine' BY <1>1, <1>2, TerminalAssumption DEF BufferIsLine
<1>5. NothingStolen' BY <1>1 DEF NothingStolen
<1>6. BetweenBatches' BY <1>1 DEF TerminalInv, BetweenBatches
<1>7. EmptyBatch' BY <1>1 DEF EmptyBatch
<1> QED BY <1>3, <1>4, <1>5, <1>6, <1>7 DEF TerminalInv

\* A character is taken from the UART.
LEMMA ReadTakeKeeps ==
    ASSUME TerminalInv, ReadTake
    PROVE  TerminalInv'
<1>1. /\ pc = "reading" /\ pc' = "taken"
      /\ uart # <<>> /\ c' = Head(uart) /\ uart' = Tail(uart)
      /\ UNCHANGED <<is_reading, buf, i, cmd_idx, max_idx, due, line, ended, ran>>
  BY DEF ReadTake, shell
<1>2. uart \in Seq(Char) /\ is_reading /\ due = uart
  BY <1>1 DEF TerminalInv, PlacesOK, NothingStolen
<1>3. uart' \in Seq(Char) /\ c' \in Char BY <1>1, <1>2
<1>4. PlacesOK' BY <1>1, <1>2, <1>3 DEF TerminalInv, PlacesOK
<1>5. BufferIsLine' BY <1>1 DEF TerminalInv, BufferIsLine
<1>6. NothingStolen'
  <2>1. <<Head(uart)>> \o Tail(uart) = uart BY <1>1, <1>2
  <2> QED BY <1>1, <1>2, <2>1 DEF NothingStolen
<1>7. BetweenBatches' /\ EmptyBatch'
  BY <1>1 DEF TerminalInv, BetweenBatches, EmptyBatch
<1> QED BY <1>4, <1>5, <1>6, <1>7 DEF TerminalInv

\* A line ends with Enter or is given up.
LEMMA ReadEndKeeps ==
    ASSUME TerminalInv, ReadEnd
    PROVE  TerminalInv'
<1>1. PICK ch \in {CtrlC, Enter} : ch = c BY DEF ReadEnd
<1>2. /\ pc = "taken" /\ pc' = "newline" /\ ended' = ch
      /\ is_reading' = FALSE /\ buf' = Terminated(buf, ch)
      /\ UNCHANGED <<uart, i, cmd_idx, line, ran>>
  BY <1>1 DEF ReadEnd
<1>3. /\ uart \in Seq(Char) /\ buf \in [1 .. LEN -> Glyph] /\ line \in Seq(Char)
      /\ i < LEN - 1 /\ i = Len(line) /\ \A k \in 1 .. i : buf[k] = line[k]
  BY <1>2 DEF TerminalInv, PlacesOK, BufferIsLine
<1>4. i \in Nat /\ LEN \in Nat /\ LEN >= 2 BY <1>3, TerminalAssumption
<1>5. NothingStolen' BY <1>2 DEF NothingStolen
<1>6. /\ buf' \in [1 .. LEN -> Glyph]
      /\ ch = CtrlC => buf'[1] = NUL
      /\ ch # CtrlC => \A k \in 1 .. i : buf'[k] = buf[k]
  <2>1. buf' = [k \in 1 .. LEN |-> IF k = i + 1 \/ (k = 1 /\ ch = CtrlC) THEN NUL
                                   ELSE buf[k]]
    BY <1>2 DEF Terminated
  <2>2. NUL \in Glyph BY DEF Glyph
  <2>3. buf' \in [1 .. LEN -> Glyph] BY <1>3, <2>1, <2>2
  <2>4. ch = CtrlC => buf'[1] = NUL BY <1>4, <2>1
  <2>5. ASSUME ch # CtrlC, NEW k \in 1 .. i PROVE buf'[k] = buf[k]
    <3>1. k \in 1 .. LEN /\ k # i + 1 BY <1>3, <1>4
    <3> QED BY <2>1, <2>5, <3>1
  <2> QED BY <2>3, <2>4, <2>5
<1>7. PlacesOK' BY <1>2, <1>3, <1>6 DEF TerminalInv, PlacesOK
<1>8. Enter # CtrlC BY DEF Enter, CtrlC
<1>9. BufferIsLine' BY <1>2, <1>3, <1>6, <1>8 DEF BufferIsLine
<1>10. cmd_idx = -1 /\ ran = <<>> BY <1>2 DEF TerminalInv, BetweenBatches
<1>11. BetweenBatches' BY <1>2, <1>10 DEF BetweenBatches
<1>12. EmptyBatch'
  <2>1. <<>> \in Seq({<<>>}) OBVIOUS
  <2> QED BY <1>2, <1>6, <1>10, <2>1 DEF EmptyBatch
<1> QED BY <1>5, <1>7, <1>9, <1>11, <1>12 DEF TerminalInv

\* A character is added to the line or taken from it.
LEMMA ReadCharKeeps ==
    ASSUME TerminalInv, ReadChar
    PROVE  TerminalInv'
<1> DEFINE k == (IF c = Backspace THEN AfterBackspace(i) ELSE i) + 1
           full == k = LEN - 1
           b == [buf EXCEPT ![i + 1] = c]
<1>1. /\ pc = "taken" /\ UNCHANGED uart
      /\ buf' = IF full THEN [b EXCEPT ![LEN] = NUL] ELSE b
      /\ i' = k /\ pc' = (IF full THEN "batch" ELSE "reading")
      /\ is_reading' = ~full /\ due' = (IF full THEN <<>> ELSE Tail(due))
      /\ ended' = (IF full THEN Enter ELSE ended)
      /\ line' = IF c # Backspace THEN Append(line, c)
                 ELSE IF line = <<>> THEN line ELSE Front(line)
      /\ UNCHANGED <<cmd_idx, ran>>
  BY DEF ReadChar
<1>2. /\ uart \in Seq(Char) /\ buf \in [1 .. LEN -> Glyph] /\ line \in Seq(Char)
      /\ i < LEN - 1 /\ i = Len(line) /\ \A n \in 1 .. i : buf[n] = line[n]
      /\ ended \in {Enter, CtrlC} /\ cmd_idx = -1 /\ ran = <<>>
      /\ c \in Char /\ due = <<c>> \o uart
  BY <1>1 DEF TerminalInv, PlacesOK, BufferIsLine, NothingStolen, BetweenBatches
<1>3. i \in Nat /\ LEN \in Nat /\ LEN >= 2 BY <1>2, TerminalAssumption
<1>4. PICK ch \in Char : ch = c BY <1>2
<1>5. NothingStolen'
  <2>1. Tail(<<c>> \o uart) = uart BY <1>2
  <2> HIDE DEF full
  <2> QED BY <1>1, <1>2, <2>1 DEF NothingStolen
<1>6. /\ b \in [1 .. LEN -> Glyph]
      /\ \A n \in 1 .. i : b[n] = buf[n]
      /\ b[i + 1] = ch
  BY <1>2, <1>3, <1>4 DEF Glyph
<1>7. buf' \in [1 .. LEN -> Glyph]
  <2>1. NUL \in Glyph BY DEF Glyph
  <2> HIDE DEF b, full
  <2> QED BY <1>1, <1>6, <2>1
<1>8. /\ line' \in Seq(Char) /\ k = Len(line') /\ k \in Nat /\ k <= LEN - 1
      /\ \A n \in 1 .. k : b[n] = line'[n]
  <2>1. CASE ch # Backspace
    <3>1. line' = Append(line, ch) /\ k = i + 1 BY <1>1, <1>4, <2>1
    <3>2. /\ line' \in Seq(Char) /\ Len(line') = i + 1 /\ line'[i + 1] = ch
          /\ \A n \in 1 .. i : line'[n] = line[n]
      BY <1>2, <1>3, <3>1
    <3>3. ASSUME NEW n \in 1 .. i + 1 PROVE b[n] = line'[n]
      <4>1. n = i + 1 \/ n \in 1 .. i BY <1>3
      <4> HIDE DEF b
      <4>2. CASE n = i + 1
        <5>1. b[i + 1] = ch BY <1>6
        <5>2. line'[i + 1] = ch BY <3>2
        <5> QED BY <4>2, <5>1, <5>2, Zenon
      <4>3. CASE n \in 1 .. i
        <5>1. b[n] = buf[n] BY <1>6, <4>3
        <5>2. buf[n] = line[n] BY <1>2, <4>3
        <5>3. line'[n] = line[n] BY <3>2, <4>3
        <5> QED BY <5>1, <5>2, <5>3
      <4> QED BY <4>1, <4>2, <4>3
    <3>4. i + 1 \in Nat /\ i + 1 <= LEN - 1 BY <1>2, <1>3
    <3> HIDE DEF b, k
    <3> QED BY <3>1, <3>2, <3>3, <3>4
  <2>2. CASE ch = Backspace /\ line = <<>>
    <3>1. i = 0 BY <1>2, <2>2
    <3>2. k = 0 /\ line' = line BY <1>1, <1>4, <2>2, <3>1 DEF AfterBackspace
    <3> HIDE DEF b, k
    <3>3. line' \in Seq(Char) /\ Len(line') = 0 BY <1>2, <3>1, <3>2
    <3>4. k = 0 /\ 0 \in Nat /\ 0 <= LEN - 1 /\ 1 .. 0 = {} BY <1>3, <3>2
    <3>5. \A n \in 1 .. k : b[n] = line'[n] BY <3>4
    <3> QED BY <3>3, <3>4, <3>5
  <2>3. CASE ch = Backspace /\ line # <<>>
    <3>1. i # 0 BY <1>2, <2>3
    <3>2. k = i - 1 /\ line' = SubSeq(line, 1, i - 1)
      BY <1>1, <1>2, <1>3, <1>4, <2>3, <3>1 DEF AfterBackspace, Front
    <3>3. /\ line' \in Seq(Char) /\ Len(line') = i - 1
          /\ \A n \in 1 .. i - 1 : line'[n] = line[n]
      BY <1>2, <1>3, <3>1, <3>2
    <3>4. \A n \in 1 .. i - 1 : n \in 1 .. i BY <1>3
    <3> HIDE DEF b, k
    <3>5. \A n \in 1 .. i - 1 : b[n] = line'[n] BY <1>2, <1>6, <3>3, <3>4
    <3>6. i - 1 \in Nat /\ i - 1 <= LEN - 1 BY <1>2, <1>3, <3>1
    <3> QED BY <3>2, <3>3, <3>5, <3>6
  <2> QED BY <2>1, <2>2, <2>3
<1> HIDE DEF k, b
<1>9. PlacesOK'
  <2>1. pc' \in {"reading", "batch"} /\ (pc' = "reading" => is_reading')
    <3> HIDE DEF full
    <3> QED BY <1>1, Zenon
  <2>2. ended' \in {Enter, CtrlC} BY <1>1, <1>2
  <2> QED BY <1>1, <1>2, <1>7, <1>8, <2>1, <2>2 DEF PlacesOK
<1>10. BufferIsLine' BY <1>1, <1>3, <1>8 DEF BufferIsLine
<1>11. BetweenBatches' BY <1>1, <1>2 DEF BetweenBatches
<1>12. EmptyBatch' BY <1>1 DEF EmptyBatch, Enter, CtrlC
<1> QED BY <1>5, <1>9, <1>10, <1>11, <1>12 DEF TerminalInv

\* tty_read() returns.
LEMMA ReadReturnKeeps ==
    ASSUME TerminalInv, ReadReturn
    PROVE  TerminalInv'
<1>1. /\ pc = "newline" /\ pc' \in {"prompt", "batch"}
      /\ UNCHANGED <<uart, is_reading, buf, i, cmd_idx, max_idx, line, ended, ran>>
  BY DEF ReadReturn, tty, shell
<1>2. PlacesOK' BY <1>1 DEF TerminalInv, PlacesOK
<1>3. BufferIsLine' BY <1>1 DEF BufferIsLine
<1>4. BetweenBatches' BY <1>1 DEF TerminalInv, BetweenBatches
<1>5. EmptyBatch' BY <1>1 DEF TerminalInv, EmptyBatch
<1>6. NothingStolen' BY <1>1 DEF NothingStolen
<1> QED BY <1>2, <1>3, <1>4, <1>5, <1>6 DEF TerminalInv

\* A new batch starts at its first command.
LEMMA BatchStart ==
    ASSUME NEW s
    PROVE  NewBatch(s).cmd_idx = 0
<1> DEFINE over == Len(Copied(s)) > NCMDS
           table == [k \in 0 .. NCMDS - 1 |-> IF k < Len(Copied(s)) THEN Copied(s)[k + 1]
                                              ELSE cmds[k]]
<1>1. NewBatch(s) = [cmds |-> table, cmd_idx |-> 0,
                     max_idx |-> Len(Copied(s)) - 1, stray |-> over]
  BY DEF NewBatch
<1> HIDE DEF over, table
<1> QED BY <1>1

\* An empty command is sent as an empty request.
LEMMA RunNothing ==
    ASSUME RunCmd(<<>>)
    PROVE  ran' = Append(ran, <<>>)
<1>1. ~parse_request(<<>>).bad /\ parse_request(<<>>).argv = <<>> BY ParseNothing
<1> QED BY <1>1 DEF RunCmd

\* The next command of the batch, or its end.
LEMMA BatchKeeps ==
    ASSUME TerminalInv, parse_batch_cmds
    PROVE  TerminalInv'
<1>1. pc = "batch" /\ UNCHANGED <<uart, is_reading, buf, line, ended>>
  BY DEF parse_batch_cmds, tty
<1>2. PICK b : /\ b = IF cmd_idx = -1 THEN NewBatch(Str(buf)) ELSE OldBatch
               /\ \/ b.stray /\ pc' = "stray" /\ UNCHANGED <<cmd_idx, max_idx, ran>>
                  \/ /\ ~b.stray /\ b.cmd_idx <= b.max_idx
                     /\ cmd_idx' = b.cmd_idx + 1 /\ max_idx' = b.max_idx
                     /\ RunCmd(b.cmds[b.cmd_idx])
                  \/ /\ ~b.stray /\ b.cmd_idx > b.max_idx
                     /\ BatchOver(b) /\ NoMoreCmds
  BY DEF parse_batch_cmds
<1>3. cmd_idx \in Int BY DEF TerminalInv, PlacesOK
<1>4. b.cmd_idx \in Int
  <2>1. CASE cmd_idx = -1
    <3>1. PICK s : s = Str(buf) OBVIOUS
    <3>2. b = NewBatch(s) BY <1>2, <2>1, <3>1
    <3>3. b.cmd_idx = 0 BY <3>2, BatchStart
    <3> QED BY <3>3
  <2>2. CASE cmd_idx # -1 BY <1>2, <1>3, <2>2 DEF OldBatch
  <2> QED BY <2>1, <2>2
<1>5. \/ pc' = "prompt" /\ cmd_idx' = -1
      \/ pc' \in {"batch", "waiting", "stray"} /\ cmd_idx' \in Int
  <2>1. CASE pc' = "stray" /\ UNCHANGED <<cmd_idx, max_idx, ran>>
    BY <1>3, <2>1
  <2>2. CASE cmd_idx' = b.cmd_idx + 1 /\ RunCmd(b.cmds[b.cmd_idx])
    <3>1. pc' \in {"batch", "waiting"} BY <1>1, <2>2 DEF RunCmd
    <3>2. cmd_idx' \in Int BY <1>4, <2>2
    <3> QED BY <3>1, <3>2
  <2>3. CASE BatchOver(b) /\ NoMoreCmds BY <2>3 DEF BatchOver, NoMoreCmds
  <2> QED BY <1>2, <2>1, <2>2, <2>3
<1>6. PlacesOK' BY <1>1, <1>5 DEF TerminalInv, PlacesOK
<1>7. BufferIsLine' BY <1>5 DEF BufferIsLine
<1>8. BetweenBatches' BY <1>5 DEF BetweenBatches
<1>9. EmptyBatch'
  <2> SUFFICES ASSUME ended = CtrlC
               PROVE  /\ ran' \in Seq({<<>>}) /\ buf'[1] = NUL
                      /\ cmd_idx' # -1 => cmd_idx' = 1 /\ max_idx' = 0
    BY <1>1 DEF EmptyBatch
  <2>1. /\ ran \in Seq({<<>>}) /\ buf[1] = NUL
        /\ cmd_idx # -1 => cmd_idx = 1 /\ max_idx = 0
        /\ buf \in [1 .. LEN -> Glyph]
    BY <1>1 DEF TerminalInv, EmptyBatch, PlacesOK
  <2>2. CASE cmd_idx = -1
    <3>1. Str(buf) = <<>> BY <2>1, EmptyStr
    <3>2. b = NewBatch(<<>>) BY <1>2, <2>2, <3>1
    <3>3. ~b.stray /\ b.cmd_idx = 0 /\ b.max_idx = 0 /\ b.cmds[0] = <<>>
      BY <2>2, <3>2, BatchNothing
    <3>4. cmd_idx' = 1 /\ max_idx' = 0 /\ RunCmd(b.cmds[0]) BY <1>2, <3>3
    <3>5. RunCmd(<<>>) BY <3>3, <3>4
    <3>6. ran' = Append(ran, <<>>) BY <3>5, RunNothing
    <3>7. <<>> \in {<<>>} OBVIOUS
    <3>8. ran' \in Seq({<<>>}) BY <2>1, <3>6, <3>7
    <3> QED BY <1>1, <2>1, <3>4, <3>8
  <2>3. CASE cmd_idx # -1
    <3>1. b.cmd_idx = 1 /\ b.max_idx = 0 /\ ~b.stray
      BY <1>2, <2>1, <2>3 DEF OldBatch
    <3>2. BatchOver(b) /\ NoMoreCmds BY <1>2, <3>1
    <3> QED BY <1>1, <2>1, <3>2 DEF BatchOver, NoMoreCmds
  <2> QED BY <2>2, <2>3
<1>10. NothingStolen' BY <1>5 DEF NothingStolen
<1> QED BY <1>6, <1>7, <1>8, <1>9, <1>10 DEF TerminalInv

\* The command in the foreground is over.
LEMMA FinishKeeps ==
    ASSUME TerminalInv, Finish
    PROVE  TerminalInv'
<1>1. /\ pc = "waiting" /\ pc' = "batch"
      /\ UNCHANGED <<uart, is_reading, buf, i, cmd_idx, max_idx, line, ended, ran>>
  BY DEF Finish, tty, shell
<1>2. PlacesOK' BY <1>1 DEF TerminalInv, PlacesOK
<1>3. BufferIsLine' /\ NothingStolen' /\ BetweenBatches'
  BY <1>1 DEF BufferIsLine, NothingStolen, BetweenBatches
<1>4. EmptyBatch' BY <1>1 DEF TerminalInv, EmptyBatch
<1> QED BY <1>2, <1>3, <1>4 DEF TerminalInv

LEMMA TerminalStutter ==
    ASSUME TerminalInv, UNCHANGED vars
    PROVE  TerminalInv'
BY DEF TerminalInv, PlacesOK, BufferIsLine, NothingStolen, BetweenBatches, EmptyBatch,
       vars, tty, shell

-----------------------------------------------------------------------------
\* The shell's buffer, its indices and the line belong together in every
\* reachable state, whatever the traps of applications take from the UART.
THEOREM TerminalInvariance == Spec => []TerminalInv
<1>1. ASSUME TerminalInv, [Next]_vars PROVE TerminalInv'
  <2>1. CASE \E ch \in Char : Type(ch) BY <1>1, <2>1, TypeKeeps
  <2>2. CASE ReadStart BY <1>1, <2>2, ReadStartKeeps
  <2>3. CASE ReadEnd BY <1>1, <2>3, ReadEndKeeps
  <2>4. CASE ReadChar BY <1>1, <2>4, ReadCharKeeps
  <2>5. CASE ReadReturn BY <1>1, <2>5, ReadReturnKeeps
  <2>6. CASE parse_batch_cmds BY <1>1, <2>6, BatchKeeps
  <2>7. CASE Finish BY <1>1, <2>7, FinishKeeps
  <2>8. CASE tty_intr BY <1>1, <2>8, TrapKeeps
  <2>9. CASE ReadTake BY <1>1, <2>9, ReadTakeKeeps
  <2>10. CASE UNCHANGED vars BY <1>1, <2>10, TerminalStutter
  <2> QED BY <1>1, <2>1, <2>2, <2>3, <2>4, <2>5, <2>6, <2>7, <2>8,
           <2>9, <2>10 DEF Next
<1> QED BY <1>1, TerminalInit, PTL DEF Spec

\* tty_read() keeps in its buffer exactly what the user sees on the line,
\* backspaces taken into account, loses nothing that is typed for it to a trap
\* of an application, and empties the buffer of a line that is given up.
THEOREM LineEdited == Spec => []LineAsEdited
<1>1. TerminalInv => LineAsEdited
  <2> SUFFICES ASSUME TerminalInv, pc \in {"reading", "taken", "newline"}
               PROVE  /\ i = Len(line)
                      /\ pc = "newline" /\ ended = CtrlC => Str(buf) = <<>>
                      /\ pc # "newline" \/ ended = Enter => SubSeq(buf, 1, i) = line
    BY DEF TerminalInv, LineAsEdited
  <2>1. i = Len(line) /\ line \in Seq(Char) /\ buf \in [1 .. LEN -> Glyph]
    BY DEF TerminalInv, PlacesOK, BufferIsLine
  <2>2. ASSUME pc = "newline", ended = CtrlC PROVE Str(buf) = <<>>
    <3>1. buf[1] = NUL BY <2>2 DEF TerminalInv, EmptyBatch
    <3> QED BY <2>1, <3>1, EmptyStr
  <2>3. ASSUME pc # "newline" \/ ended = Enter PROVE SubSeq(buf, 1, i) = line
    <3>1. \A k \in 1 .. i : buf[k] = line[k]
      BY <2>3 DEF TerminalInv, BufferIsLine
    <3>2. i \in Nat BY <2>1
    <3>3. SubSeq(buf, 1, i) = [k \in 1 .. i |-> buf[k]] BY <3>2
    <3>4. line = [k \in 1 .. i |-> line[k]] BY <2>1
    <3> QED BY <3>1, <3>3, <3>4
  <2> QED BY <2>1, <2>2, <2>3
<1> QED BY <1>1, TerminalInvariance, PTL

\* A line that the user gave up with ctrl+c never runs: even when the trap of
\* an application overwrites the character that tty_read() tests last, at most
\* an empty request goes to sys_proc.
THEOREM GivenUp == Spec => []GivenUpNeverRuns
<1>1. TerminalInv => GivenUpNeverRuns
  <2> SUFFICES ASSUME TerminalInv, ended = CtrlC, pc \notin {"reading", "taken"},
                      NEW k \in DOMAIN ran
               PROVE  ran[k] = <<>>
    BY DEF GivenUpNeverRuns
  <2>1. ran \in Seq({<<>>}) BY DEF TerminalInv, EmptyBatch
  <2>2. ran[k] \in {<<>>} BY <2>1
  <2> QED BY <2>2
<1> QED BY <1>1, TerminalInvariance, PTL
=============================================================================
