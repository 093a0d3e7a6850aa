------------------------------ MODULE CmdProofs ------------------------------
(****************************************************************************)
(* Proofs about Cmd: what the order of the steps of main, filev_probe and   *)
(* filev_isbn comes to, and what the print handles promise, for any command *)
(* line, any files and any number of arguments.                             *)
(****************************************************************************)
EXTENDS Cmd, SharedProofs, SequenceTheorems

Places == {"main", "options", "table", "argv", "probe", "open", "lines", "exit", "crash"}

CmdTypeOK ==
    /\ cmd \in CommandLines
    /\ pc \in Places
    /\ n \in Nat /\ n > 0
    /\ any_rv \in {0, -1}
    /\ opened \in [begun : SUBSET Nat, ended : SUBSET Nat, unclosed : SUBSET Nat]

AllFound == \A k \in 1..Len(Operands) : ~Missing(Operands[k])

\* Until every operand has been probed nothing is opened.
NothingOpened ==
    pc \in {"main", "options", "table", "argv", "probe"} =>
        opened.begun = {} /\ opened.ended = {}

\* any_rv keeps the first failure: while it is 0 all operands so far are there.
ProbedSoFar ==
    /\ pc \in {"main", "options", "table", "argv"} => any_rv = 0
    /\ pc = "probe" /\ any_rv = 0 =>
          \A k \in 1..Len(Operands) : k < n => ~Missing(Operands[k])

FoundWhenOpened ==
    /\ pc = "open" => AllFound
    /\ opened.begun # {} => AllFound
    /\ pc = "lines" => IF Operands = <<>> THEN opened.begun = {} ELSE AllFound

\* The files are read one after the other.
EndedInOrder ==
    /\ pc = "open" => n <= Len(Operands) + 1 /\ opened.ended = 1..(n - 1)
    /\ pc = "lines" /\ Operands # <<>> => n <= Len(Operands) /\ opened.ended = 1..(n - 1)

CmdIInv ==
    /\ CmdTypeOK
    /\ NothingOpened
    /\ ProbedSoFar
    /\ FoundWhenOpened
    /\ EndedInOrder
    /\ ZeroMeansRead

\* The inductive invariant of what is printed.  Where messages go is settled
\* before anything is printed.
HandleSet ==
    IF pc = "main" THEN eprint_fh = "NULL" /\ said = <<>>
    ELSE eprint_fh = IF StderrRedirected = 0 THEN "stdout" ELSE "stderr"

Items ==
    {i \in [to : {"out", "err"}, answer : Nat, checked : BOOLEAN] :
        i.answer # 0 => i.to = "out"}

\* Items that are no answers.
Asides == {i \in Items : i.answer = 0}

IoRecord == [unwritten : Seq(Nat), files : [FilesOf(fds) -> Seq(Nat)]]

\* What has been sent to stdout: what its file holds and what is in the buffer.
Sent(s) == s.files[fds.out] \o s.unwritten

\* Of the first m items of list, those for stdout have been sent to it, in
\* order, and nothing is there twice; where both files are one, all have.
SentInOrder(s, list, m) ==
    LET w == Sent(s)
    IN  /\ \A i \in 1..Len(w) : w[i] \in 1..m
        /\ \A i, j \in 1..Len(w) : i < j => w[i] < w[j]
        /\ \A k \in 1..m : list[k].to = "out" => \E i \in 1..Len(w) : w[i] = k
        /\ fds.out = fds.err => Len(w) = m /\ \A i \in 1..Len(w) : w[i] = i

\* Of the first m items of list, the messages are in the file of stderr.
MessagesWritten(s, list, m) ==
    \A k \in 1..m : list[k].to = "err" =>
        \E i \in 1..Len(s.files[fds.err]) : s.files[fds.err][i] = k

Faithful(s, list, m) ==
    /\ s \in IoRecord
    /\ fds.out # Closed => SentInOrder(s, list, m)
    /\ fds.err # Closed /\ fds.out # fds.err => MessagesWritten(s, list, m)

PrintIInv ==
    /\ HandleSet
    /\ said \in Seq(Items)
    /\ Faithful(io, said, Len(said))
    /\ pc = "exit" => io.unwritten = <<>>

\* The good ones of the first m arguments have been answered, in order.
Answered(m) ==
    /\ \A k \in 1..Len(said) :
          said[k].answer # 0 => said[k].answer \in 1..m /\ Operands[said[k].answer] = "good"
    /\ \A i \in 1..m : Operands[i] = "good" => \E k \in 1..Len(said) : said[k].answer = i
    /\ \A j, k \in 1..Len(said) :
          said[j].answer # 0 /\ said[k].answer # 0 /\ j < k => said[j].answer < said[k].answer

\* An option that ends the process with status 0.
Informed == \E o \in 1..Len(cmd.opts) : cmd.opts[o] \in {"V", "h"}

AnswerIInv ==
    /\ pc \in {"main", "options", "table"} => Answered(0)
    /\ pc = "argv" => opt_argv /\ n <= Len(Operands) + 1
    /\ pc = "argv" /\ table = "good" => Answered(n - 1)
    /\ pc \in {"probe", "open", "lines"} => ~opt_argv
    /\ pc = "exit" /\ opt_argv /\ status = 0 /\ table = "good" /\ ~Informed =>
          Answered(Len(Operands))

-----------------------------------------------------------------------------
\* A step that prints goes on where it says, or the process dies of an abort.
LEMMA ContinueGoes ==
    ASSUME NEW where, NEW list, Continue(where, list)
    PROVE  pc' \in {where, "crash"} /\ status' = status
  BY DEF Continue, Crash

\* A step that ends the process gives its status, or dies of an abort.
LEMMA ExitGoes ==
    ASSUME NEW code, NEW list, Exit(code, list)
    PROVE  \/ pc' = "exit" /\ status' = code
           \/ pc' = "crash" /\ status' = status
  BY DEF Exit, Crash

\* A process that dies has no status.
LEMMA CrashGoes == Crash => pc' = "crash" /\ status' = status
  BY DEF Crash

\* The operands of a command line are a list.
LEMMA OperandsListed ==
    cmd \in CommandLines =>
        /\ Operands \in Seq(STRING) /\ Len(Operands) \in Nat
        /\ Operands # <<>> => Len(Operands) > 0
        /\ Operands = <<>> => Len(Operands) = 0
  <1> SUFFICES ASSUME cmd \in CommandLines
               PROVE  /\ Operands \in Seq(STRING) /\ Len(Operands) \in Nat
                      /\ Operands # <<>> => Len(Operands) > 0
                      /\ Operands = <<>> => Len(Operands) = 0
    OBVIOUS
  <1>1. Operands \in Seq(STRING)
    BY CommandAssumption DEF Operands
  <1> HIDE DEF Operands
  <1> QED
    BY <1>1

\* The invariant holds when the process starts.
LEMMA CmdInit == Init => CmdIInv
  BY DEF Init, CmdIInv, CmdTypeOK, Places, NothingOpened, ProbedSoFar, FoundWhenOpened,
         EndedInOrder, ZeroMeansRead

\* A step keeps the invariant.
LEMMA CmdStep == CmdIInv /\ [Next]_vars => CmdIInv'
  <1> SUFFICES ASSUME CmdIInv, [Next]_vars PROVE CmdIInv'
    OBVIOUS
  <1> USE DEF CmdIInv, CmdTypeOK, Places
  <1>1. /\ Operands \in Seq(STRING) /\ Len(Operands) \in Nat
        /\ Operands # <<>> => Len(Operands) > 0
        /\ Operands = <<>> => Len(Operands) = 0
    BY OperandsListed
  <1>2. CASE UNCHANGED vars
    BY <1>2 DEF vars, NothingOpened, ProbedSoFar, FoundWhenOpened, EndedInOrder,
                ZeroMeansRead, AllFound, Missing, Operands
  <1>3. CASE Buffering
    BY <1>3 DEF Buffering, NothingOpened, ProbedSoFar, FoundWhenOpened, EndedInOrder,
                ZeroMeansRead, AllFound, Missing, Operands
  <1> SUFFICES ASSUME Step PROVE CmdIInv'
    BY <1>2, <1>3 DEF Next
  <1>4. cmd' = cmd /\ files' = files /\ Operands' = Operands /\ (AllFound <=> AllFound')
    <2>1. cmd' = cmd /\ files' = files
      BY DEF Step, Main, Option, EndOfOptions, ParseTable, ArgvIsbn, ArgvEnd, Probe,
             ProbeEnd, OpenFile, NoMoreFiles, StreamLine, StreamEnd, input
    <2> QED
      BY <2>1 DEF Operands, AllFound, Missing
  \* Steps before the probe, and those of --argv, open nothing.
  <1>5. ASSUME UNCHANGED <<opened, any_rv>>, n' \in Nat, n' > 0, pc' \in Places,
               pc \in {"main", "options", "argv"},
               pc' \in {"main", "options", "table", "argv", "exit", "crash"}
        PROVE  CmdIInv'
    BY <1>4, <1>5 DEF NothingOpened, ProbedSoFar, FoundWhenOpened, EndedInOrder, ZeroMeansRead
  <1>6. CASE Main
    <2>1. pc' \in {"options", "crash"}
      BY <1>6, ContinueGoes DEF Main
    <2> QED
      BY <1>5, <1>6, <2>1 DEF Main
  <1>7. CASE Option
    <2>1. pc' \in {"options", "exit", "crash"}
      BY <1>7, ContinueGoes, ExitGoes DEF Option
    <2> QED
      BY <1>5, <1>7, <2>1 DEF Option
  <1>8. CASE EndOfOptions
    <2>1. pc' \in {"table", "exit", "crash"}
      BY <1>8, ContinueGoes, ExitGoes, CrashGoes DEF EndOfOptions
    <2> QED
      BY <1>5, <1>8, <2>1 DEF EndOfOptions, flags
  <1>9. CASE ParseTable
    <2>1. pc = "table" /\ n' = 1 /\ UNCHANGED <<opened, any_rv>>
      BY <1>9 DEF ParseTable
    <2>2. pc' \in {Mode, "exit", "crash"}
      BY <1>9, ContinueGoes, ExitGoes, CrashGoes DEF ParseTable
    <2>3. pc' \in {"argv", "probe", "lines", "exit", "crash"}
      BY <2>2 DEF Mode
    <2>4. pc' = "lines" => Operands = <<>>
      BY <2>2 DEF Mode
    <2> QED
      BY <1>1, <1>4, <2>1, <2>3, <2>4
         DEF NothingOpened, ProbedSoFar, FoundWhenOpened, EndedInOrder, ZeroMeansRead
  <1>10. CASE ArgvIsbn
    <2>1. pc' \in {"argv", "crash"}
      BY <1>10, ContinueGoes, CrashGoes DEF ArgvIsbn
    <2> QED
      BY <1>5, <1>10, <2>1 DEF ArgvIsbn
  <1>11. CASE ArgvEnd
    <2>1. pc' \in {"exit", "crash"}
      BY <1>11, ExitGoes DEF ArgvEnd
    <2> QED
      BY <1>5, <1>11, <2>1 DEF ArgvEnd
  <1>12. CASE Probe
    <2>1. pc = "probe" /\ n <= Len(Operands) /\ n' = n + 1 /\ opened' = opened
      BY <1>12 DEF Probe
    <2>2. pc' \in {"probe", "crash"}
      BY <1>12, ContinueGoes DEF Probe
    <2>3. any_rv' = Probed(Operands[n])
      BY <1>12 DEF Probe
    <2>4. any_rv' \in {0, -1} /\ (any_rv' = 0 => any_rv = 0 /\ ~Missing(Operands[n]))
      BY <2>3 DEF Probed
    <2>5. ProbedSoFar'
      <3> SUFFICES ASSUME any_rv' = 0, NEW k \in 1..Len(Operands), k < n'
                   PROVE  ~Missing(Operands[k])
        BY <1>4, <2>1, <2>2 DEF ProbedSoFar, Missing
      <3> QED
        BY <2>1, <2>4 DEF ProbedSoFar
    <2> QED
      BY <1>4, <2>1, <2>2, <2>4, <2>5
         DEF NothingOpened, FoundWhenOpened, EndedInOrder, ZeroMeansRead
  <1>13. CASE ProbeEnd
    <2>1. /\ pc = "probe" /\ n > Len(Operands) /\ n' = 1
          /\ UNCHANGED <<any_rv, opened>>
      BY <1>13 DEF ProbeEnd, flags
    <2>2. pc' \in {"open", "exit", "crash"} /\ (pc' = "open" => any_rv = 0)
      BY <1>13, ContinueGoes, ExitGoes DEF ProbeEnd
    <2>3. any_rv = 0 => AllFound
      BY <1>1, <2>1 DEF ProbedSoFar, AllFound
    <2>4. opened'.begun = {} /\ opened'.ended = {} /\ 1..(n' - 1) = {}
      BY <2>1 DEF NothingOpened
    <2> QED
      BY <1>1, <1>4, <2>1, <2>2, <2>3, <2>4
         DEF NothingOpened, ProbedSoFar, FoundWhenOpened, EndedInOrder, ZeroMeansRead
  <1>14. CASE OpenFile
    <2>1. pc = "open" /\ n <= Len(Operands) /\ any_rv' = any_rv /\ n' = n
      BY <1>14 DEF OpenFile, Unopened
    <2>2. AllFound /\ opened.ended = 1..(n - 1) /\ Operands # <<>>
      BY <1>1, <2>1 DEF FoundWhenOpened, EndedInOrder
    <2>3. CASE Unopened /\ UNCHANGED opened
      <3>1. \/ pc' = "exit" /\ status' = 2
            \/ pc' = "crash"
        BY <2>3, ExitGoes DEF Unopened
      <3> QED
        BY <1>4, <2>1, <2>2, <2>3, <3>1
           DEF NothingOpened, ProbedSoFar, FoundWhenOpened, EndedInOrder, ZeroMeansRead
    <2>4. CASE Continue("lines", <<>>) /\ opened' = [opened EXCEPT !.begun = @ \cup {n}]
      <3>1. pc' \in {"lines", "crash"}
        BY <2>4, ContinueGoes
      <3>2. /\ opened' \in [begun : SUBSET Nat, ended : SUBSET Nat, unclosed : SUBSET Nat]
            /\ opened'.ended = opened.ended
        BY <2>4
      <3> QED
        BY <1>4, <2>1, <2>2, <3>1, <3>2
           DEF NothingOpened, ProbedSoFar, FoundWhenOpened, EndedInOrder, ZeroMeansRead
    <2> QED
      BY <1>14, <2>3, <2>4 DEF OpenFile
  <1>15. CASE NoMoreFiles
    <2>1. pc = "open" /\ n > Len(Operands) /\ UNCHANGED <<n, any_rv, opened>>
      BY <1>15 DEF NoMoreFiles, flags
    <2>2. pc' \in {"exit", "crash"}
      BY <1>15, ExitGoes DEF NoMoreFiles
    <2>3. opened'.ended = 1..Len(Operands)
      <3>1. n - 1 = Len(Operands)
        BY <1>1, <2>1 DEF EndedInOrder
      <3> QED
        BY <2>1, <3>1 DEF EndedInOrder
    <2> QED
      BY <1>4, <2>1, <2>2, <2>3
         DEF NothingOpened, ProbedSoFar, FoundWhenOpened, EndedInOrder, ZeroMeansRead
  <1>16. CASE StreamLine
    <2>1. pc = "lines" /\ UNCHANGED <<n, any_rv, opened>>
      BY <1>16 DEF StreamLine, flags
    <2>2. pc' \in {"lines", "crash"}
      BY <1>16, ContinueGoes, CrashGoes DEF StreamLine
    <2> QED
      BY <1>4, <2>1, <2>2
         DEF NothingOpened, ProbedSoFar, FoundWhenOpened, EndedInOrder, ZeroMeansRead
  <1>17. CASE StreamEnd
    <2>1. pc = "lines" /\ any_rv' = any_rv
      BY <1>17 DEF StreamEnd, flags
    <2>2. CASE UNCHANGED <<n, opened>> /\ (debug \/ Operands = <<>>)
      <3>1. \/ pc' = "crash"
            \/ pc' = "exit" /\ Operands = <<>>
        BY <1>17, <2>2, ExitGoes, CrashGoes DEF StreamEnd
      <3> QED
        BY <1>4, <2>1, <2>2, <3>1
           DEF NothingOpened, ProbedSoFar, FoundWhenOpened, EndedInOrder, ZeroMeansRead
    <2>3. CASE /\ Operands # <<>> /\ Continue("open", <<>>) /\ n' = n + 1
               /\ opened' = [opened EXCEPT !.ended = @ \cup {n}]
      <3>1. pc' \in {"open", "crash"}
        BY <2>3, ContinueGoes
      <3>2. AllFound /\ n <= Len(Operands) /\ opened.ended = 1..(n - 1)
        BY <2>1, <2>3 DEF FoundWhenOpened, EndedInOrder
      <3>3. 1..(n' - 1) = 1..(n - 1) \cup {n}
        BY <2>3
      <3>4. /\ opened' \in [begun : SUBSET Nat, ended : SUBSET Nat, unclosed : SUBSET Nat]
            /\ opened'.ended = opened.ended \cup {n}
        BY <2>3
      <3>5. opened'.ended = 1..(n' - 1) /\ n' <= Len(Operands) + 1 /\ n' \in Nat /\ n' > 0
        BY <1>1, <2>3, <3>2, <3>3, <3>4
      <3>6. EndedInOrder'
        BY <1>4, <3>1, <3>5 DEF EndedInOrder
      <3>7. NothingOpened' /\ ProbedSoFar' /\ FoundWhenOpened' /\ ZeroMeansRead'
        BY <1>4, <3>1, <3>2 DEF NothingOpened, ProbedSoFar, FoundWhenOpened, ZeroMeansRead
      <3>8. CmdTypeOK'
        BY <1>4, <2>1, <3>1, <3>4, <3>5
      <3> QED
        BY <3>6, <3>7, <3>8
    <2>4. CASE /\ Operands # <<>> /\ Exit(0, <<Message>>) /\ n' = n
               /\ opened' = [opened EXCEPT !.ended = @ \cup {n}, !.unclosed = @ \cup {n}]
      <3>1. pc' \in {"exit", "crash"}
        BY <2>4, ExitGoes
      <3>2. /\ opened' \in [begun : SUBSET Nat, ended : SUBSET Nat, unclosed : SUBSET Nat]
            /\ n \in opened'.unclosed /\ AllFound
        BY <2>1, <2>4 DEF FoundWhenOpened
      <3> QED
        BY <1>4, <2>1, <2>4, <3>1, <3>2
           DEF NothingOpened, ProbedSoFar, FoundWhenOpened, EndedInOrder, ZeroMeansRead
    <2> QED
      BY <1>17, <2>2, <2>3, <2>4 DEF StreamEnd
  <1> QED
    BY <1>6, <1>7, <1>8, <1>9, <1>10, <1>11, <1>12, <1>13, <1>14, <1>15, <1>16, <1>17 DEF Step

\* The invariant of the command holds for any command line and any files.
THEOREM CmdInvariance == Spec => []CmdIInv
  BY CmdInit, CmdStep, PTL DEF Spec

\* No file is opened before every operand has been found: fname_probe of
\* filev_probe keeps its first failure in any_rv, and main asks for it.
THEOREM ProbesComeFirst == Spec => []ProbedFirst
  <1>1. CmdIInv => ProbedFirst
    BY DEF CmdIInv, FoundWhenOpened, AllFound, Missing, ProbedFirst
  <1> QED
    BY <1>1, CmdInvariance, PTL

\* A status of 0 after files were opened: filev_isbn has read them all to the
\* end, in order, or has stopped at an fclose that failed.
THEOREM ZeroAfterReading == Spec => []ZeroMeansRead
  <1>1. CmdIInv => ZeroMeansRead
    BY DEF CmdIInv
  <1> QED
    BY <1>1, CmdInvariance, PTL

-----------------------------------------------------------------------------
\* Put is what PutOne makes of one item after the other.
LEMMA PutFolds ==
    ASSUME NEW s, NEW list \in Seq(Items)
    PROVE  \E f : /\ f[0] = s
                  /\ \A k \in 1..Len(list) : f[k] = PutOne(f[k - 1], list, k)
                  /\ Put(s, list) = f[Len(list)]
  <1> DEFINE Body(f, m) == [k \in 0..m |-> IF k = 0 THEN s ELSE PutOne(f[k - 1], list, k)]
             S == {m \in Nat : \E f : f = Body(f, m)}
             F == CHOOSE first : first = Body(first, Len(list))
  <1>1. 0 \in S
    <2> DEFINE f == [k \in 0..0 |-> s]
    <2>1. f = Body(f, 0)
      OBVIOUS
    <2> QED
      BY <2>1
  <1>2. ASSUME NEW m \in S PROVE m + 1 \in S
    <2>1. PICK f : f = Body(f, m)
      OBVIOUS
    <2> DEFINE g == [k \in 0..(m + 1) |-> IF k = m + 1 THEN PutOne(f[m], list, m + 1) ELSE f[k]]
    <2>2. ASSUME NEW k \in 0..(m + 1)
          PROVE  g[k] = IF k = 0 THEN s ELSE PutOne(g[k - 1], list, k)
      <3>1. m \in Nat /\ g[k] = IF k = m + 1 THEN PutOne(f[m], list, m + 1) ELSE f[k]
        OBVIOUS
      <3>2. CASE k = m + 1
        <4>1. g[m] = f[m] /\ k # 0 /\ k - 1 = m
          BY <3>1, <3>2
        <4> HIDE DEF g
        <4> QED
          BY <3>1, <3>2, <4>1
      <3>3. CASE k = 0
        <4>1. f[0] = s
          BY <2>1, <3>1
        <4> HIDE DEF g
        <4> QED
          BY <3>1, <3>3, <4>1
      <3>4. CASE k # 0 /\ k # m + 1
        <4>1. k \in 0..m /\ k - 1 \in 0..(m + 1) /\ k - 1 # m + 1
          BY <3>1, <3>4
        <4>2. g[k - 1] = f[k - 1] /\ g[k] = f[k]
          BY <3>1, <3>4, <4>1
        <4>3. f[k] = PutOne(f[k - 1], list, k)
          BY <2>1, <3>4, <4>1
        <4> HIDE DEF g
        <4> QED
          BY <3>4, <4>2, <4>3
      <3> QED
        BY <3>2, <3>3, <3>4
    <2>3. g = [k \in 0..(m + 1) |-> g[k]]
      OBVIOUS
    <2> HIDE DEF g
    <2>4. g = Body(g, m + 1)
      BY <2>2, <2>3
    <2> QED
      BY <2>4
  <1> HIDE DEF Body
  <1>3. S = Nat
    BY <1>1, <1>2, SetInduction
  <1>4. Len(list) \in S
    <2>1. Len(list) \in Nat
      OBVIOUS
    <2> HIDE DEF S
    <2> QED
      BY <1>3, <2>1
  <1>5. F = Body(F, Len(list))
    BY <1>4
  <1>6. Put(s, list) = F[Len(list)]
    BY Zenon DEF Put, Body
  <1> HIDE DEF F
  <1>7. F = [k \in 0..Len(list) |-> IF k = 0 THEN s ELSE PutOne(F[k - 1], list, k)]
    BY <1>5 DEF Body
  <1>8. F[0] = s /\ \A k \in 1..Len(list) : F[k] = PutOne(F[k - 1], list, k)
    BY <1>7
  <1> QED
    BY <1>6, <1>8

\* Where a file ends and the buffer begins makes no difference.
LEMMA ConcatIsOne ==
    \A a, b, c \in Seq(Nat) : (a \o b) \o c = a \o (b \o c)
  BY ConcatAssociative, SMTT(30)

\* One more item in the buffer of stdout is one more that has been sent.
LEMMA AppendedLast ==
    ASSUME NEW a \in Seq(Nat), NEW u \in Seq(Nat), NEW x \in Nat
    PROVE  a \o Append(u, x) = Append(a \o u, x)
  <1>1. Append(u, x) = u \o <<x>> /\ Append(a \o u, x) = (a \o u) \o <<x>>
    BY AppendIsConcat, ConcatProperties
  <1>2. <<x>> \in Seq(Nat)
    OBVIOUS
  <1> QED
    BY <1>1, <1>2, ConcatAssociative

\* An item that goes to the buffer of stdout.
LEMMA ItemBuffered ==
    ASSUME NEW list, NEW m \in Nat, NEW s, Faithful(s, list, m),
           fds.out # fds.err => list[m + 1].to # "err"
    PROVE  Faithful([s EXCEPT !.unwritten = Append(@, m + 1)], list, m + 1)
  <1> DEFINE t == [s EXCEPT !.unwritten = Append(@, m + 1)]
  <1>1. s \in IoRecord
    BY DEF Faithful
  <1>2. t \in IoRecord /\ t.files = s.files /\ t.unwritten = Append(s.unwritten, m + 1)
    <2>1. s.unwritten \in Seq(Nat) /\ s.files \in [FilesOf(fds) -> Seq(Nat)]
      BY <1>1 DEF IoRecord
    <2> DEFINE u == Append(s.unwritten, m + 1)
    <2>2. u \in Seq(Nat)
      BY <2>1, AppendProperties
    <2>3. t = [s EXCEPT !.unwritten = u]
      OBVIOUS
    <2> HIDE DEF u
    <2>4. t \in IoRecord /\ t.files = s.files /\ t.unwritten = u
      BY <1>1, <2>1, <2>2, <2>3 DEF IoRecord
    <2> HIDE DEF t
    <2> QED
      BY <2>4 DEF u
  <1> HIDE DEF t
  <1>3. ASSUME fds.out # Closed PROVE SentInOrder(t, list, m + 1)
    <2>1. s.files[fds.out] \in Seq(Nat) /\ s.unwritten \in Seq(Nat)
      BY <1>1, <1>3 DEF IoRecord, FilesOf
    <2>2. Sent(t) = Append(Sent(s), m + 1)
      <3>1. s.files[fds.out] \o Append(s.unwritten, m + 1)
                = Append(s.files[fds.out] \o s.unwritten, m + 1)
        <4>1. m + 1 \in Nat
          OBVIOUS
        <4> QED
          BY <2>1, <4>1, AppendedLast
      <3> QED
        BY <1>2, <3>1 DEF Sent
    <2>3. Sent(s) \in Seq(Nat)
      BY <2>1, ConcatProperties DEF Sent
    <2>4. SentInOrder(s, list, m)
      BY <1>3 DEF Faithful
    <2> DEFINE w == Sent(s)
               v == Append(w, m + 1)
    <2>5. /\ Len(v) = Len(w) + 1 /\ Len(w) \in Nat /\ v[Len(v)] = m + 1
          /\ \A i \in 1..Len(w) : v[i] = w[i]
      BY <2>3
    <2>6. /\ \A i \in 1..Len(w) : w[i] \in 1..m
          /\ \A i, j \in 1..Len(w) : i < j => w[i] < w[j]
          /\ \A k \in 1..m : list[k].to = "out" => \E i \in 1..Len(w) : w[i] = k
          /\ fds.out = fds.err => Len(w) = m /\ \A i \in 1..Len(w) : w[i] = i
      BY <2>4 DEF SentInOrder
    <2> HIDE DEF v, w
    <2>7. \A i \in 1..Len(v) : v[i] \in 1..(m + 1)
      BY <2>5, <2>6
    <2>8. ASSUME NEW i \in 1..Len(v), NEW j \in 1..Len(v), i < j PROVE v[i] < v[j]
      <3>1. i \in 1..Len(w) /\ v[i] = w[i] /\ w[i] \in 1..m
        BY <2>5, <2>6, <2>8
      <3>2. CASE j = Len(v)
        BY <2>5, <3>1, <3>2
      <3>3. CASE j # Len(v)
        <4>1. j \in 1..Len(w) /\ v[j] = w[j]
          BY <2>5, <3>3
        <4> QED
          BY <2>6, <2>8, <3>1, <4>1
      <3> QED
        BY <3>2, <3>3
    <2>9. ASSUME NEW k \in 1..(m + 1), list[k].to = "out"
          PROVE  \E i \in 1..Len(v) : v[i] = k
      <3>1. CASE k = m + 1
        BY <2>5, <3>1
      <3>2. CASE k # m + 1
        <4>1. PICK i \in 1..Len(w) : w[i] = k
          BY <2>6, <2>9, <3>2
        <4>2. i \in 1..Len(v) /\ v[i] = k
          BY <2>5, <4>1
        <4> QED
          BY <4>2
      <3> QED
        BY <3>1, <3>2
    <2>10. fds.out = fds.err => Len(v) = m + 1 /\ \A i \in 1..Len(v) : v[i] = i
      BY <2>5, <2>6
    <2>11. Sent(t) = v
      BY <2>2 DEF v, w
    <2> QED
      BY <2>7, <2>8, <2>9, <2>10, <2>11 DEF SentInOrder
  <1>4. ASSUME fds.err # Closed, fds.out # fds.err PROVE MessagesWritten(t, list, m + 1)
    <2>1. MessagesWritten(s, list, m) /\ list[m + 1].to # "err"
      BY <1>4 DEF Faithful
    <2> QED
      BY <1>2, <2>1 DEF MessagesWritten
  <1>5. Faithful(t, list, m + 1)
    BY <1>2, <1>3, <1>4 DEF Faithful
  <1> QED
    BY <1>5 DEF t

\* An item that goes to the file of stderr, which stdout does not lead to.
LEMMA ItemWritten ==
    ASSUME NEW list, NEW m \in Nat, NEW s, Faithful(s, list, m),
           list[m + 1].to # "out", fds.out = fds.err => fds.out = Closed
    PROVE  Faithful(Written(s, fds.err, <<m + 1>>), list, m + 1)
  <1> DEFINE t == Written(s, fds.err, <<m + 1>>)
  <1>1. s \in IoRecord
    BY DEF Faithful
  <1>2. /\ t \in IoRecord
        /\ t.unwritten = s.unwritten
        /\ fds.out # Closed => t.files[fds.out] = s.files[fds.out]
        /\ fds.err # Closed => t.files[fds.err] = s.files[fds.err] \o <<m + 1>>
    <2>1. CASE fds.err = Closed
      BY <1>1, <2>1 DEF Written, IoRecord
    <2>2. CASE fds.err # Closed
      <3>1. fds.err \in FilesOf(fds) /\ s.files \in [FilesOf(fds) -> Seq(Nat)]
        BY <1>1, <2>2 DEF FilesOf, IoRecord
      <3>2. s.files[fds.err] \o <<m + 1>> \in Seq(Nat)
        <4>1. s.files[fds.err] \in Seq(Nat) /\ <<m + 1>> \in Seq(Nat)
          BY <3>1
        <4> QED
          BY <4>1, ConcatProperties
      <3>3. /\ t.files = [s.files EXCEPT ![fds.err] = @ \o <<m + 1>>]
            /\ t.unwritten = s.unwritten
            /\ t = [unwritten |-> t.unwritten, files |-> t.files]
        BY <1>1, <2>2 DEF Written, IoRecord
      <3> HIDE DEF t
      <3>4. t.files \in [FilesOf(fds) -> Seq(Nat)]
        BY <3>1, <3>2, <3>3
      <3>5. t \in IoRecord
        BY <1>1, <3>3, <3>4 DEF IoRecord
      <3>6. fds.out # Closed => t.files[fds.out] = s.files[fds.out]
        BY <2>2, <3>1, <3>3 DEF FilesOf
      <3> QED
        BY <3>1, <3>3, <3>5, <3>6
    <2> QED
      BY <2>1, <2>2
  <1> HIDE DEF t
  <1>3. ASSUME fds.out # Closed PROVE SentInOrder(t, list, m + 1)
    <2>1. Sent(t) = Sent(s) /\ SentInOrder(s, list, m) /\ fds.out # fds.err
      BY <1>2, <1>3 DEF Faithful, Sent
    <2>2. \A i \in 1..m : i \in 1..(m + 1)
      OBVIOUS
    <2>3. \A k \in 1..(m + 1) : k \in 1..m \/ k = m + 1
      OBVIOUS
    <2> QED
      BY <2>1, <2>2, <2>3 DEF SentInOrder
  <1>4. ASSUME fds.err # Closed, fds.out # fds.err PROVE MessagesWritten(t, list, m + 1)
    <2> DEFINE a == s.files[fds.err]
               b == t.files[fds.err]
    <2>1. a \in Seq(Nat) /\ b = a \o <<m + 1>>
      BY <1>1, <1>2, <1>4 DEF IoRecord, FilesOf
    <2>2. MessagesWritten(s, list, m)
      BY <1>4 DEF Faithful
    <2> HIDE DEF a, b
    <2>3. /\ Len(b) = Len(a) + 1 /\ Len(a) \in Nat /\ b[Len(a) + 1] = m + 1
          /\ \A i \in 1..Len(a) : b[i] = a[i]
      BY <2>1
    <2>4. \A k \in 1..m : list[k].to = "err" => \E i \in 1..Len(a) : a[i] = k
      BY <2>2 DEF MessagesWritten, a
    <2> SUFFICES ASSUME NEW k \in 1..(m + 1), list[k].to = "err"
                 PROVE  \E i \in 1..Len(b) : b[i] = k
      BY DEF MessagesWritten, b
    <2>5. CASE k = m + 1
      BY <2>3, <2>5
    <2>6. CASE k # m + 1
      <3>1. PICK i \in 1..Len(a) : a[i] = k
        BY <2>4, <2>6
      <3>2. i \in 1..Len(b) /\ b[i] = k
        BY <2>3, <3>1
      <3> QED
        BY <3>2
    <2> QED
      BY <2>5, <2>6
  <1>5. Faithful(t, list, m + 1)
    BY <1>2, <1>3, <1>4 DEF Faithful
  <1> QED
    BY <1>5 DEF t

\* One item, wherever it goes.
LEMMA ItemKeeps ==
    ASSUME eprint_fh = IF StderrRedirected = 0 THEN "stdout" ELSE "stderr",
           said \in Seq(Items), NEW list \in Seq(Items), NEW k \in 1..Len(list), NEW s,
           Faithful(s, said \o list, Len(said) + (k - 1))
    PROVE  Faithful(PutOne(s, list, k), said \o list, Len(said) + k)
  <1> DEFINE m == Len(said) + (k - 1)
             q == said \o list
  <1>1. m \in Nat /\ m + 1 = Len(said) + k /\ q[m + 1] = list[k]
    BY ConcatProperties, SMTT(30)
  <1>2. list[k].to \in {"out", "err"}
    <2>1. list[k] \in Items
      BY ElementOfSeq
    <2> QED
      BY <2>1 DEF Items
  <1>3. Faithful(s, q, m)
    OBVIOUS
  <1> HIDE DEF m, q
  <1>4. CASE Fh(list[k]) = "stdout"
    <2>1. fds.out # fds.err => q[m + 1].to # "err"
      BY <1>1, <1>4 DEF Fh, StderrRedirected
    <2>2. PutOne(s, list, k) = [s EXCEPT !.unwritten = Append(@, m + 1)]
      BY <1>1, <1>4 DEF PutOne
    <2>3. Faithful([s EXCEPT !.unwritten = Append(@, m + 1)], q, m + 1)
      BY <1>1, <1>3, <2>1, ItemBuffered
    <2> QED
      BY <1>1, <2>2, <2>3 DEF q
  <1>5. CASE Fh(list[k]) # "stdout"
    <2>1. q[m + 1].to # "out"
      BY <1>1, <1>5 DEF Fh
    <2>2. fds.out = fds.err => fds.out = Closed
      BY <1>2, <1>5 DEF Fh, StderrRedirected
    <2>3. PutOne(s, list, k) = Written(s, fds.err, <<m + 1>>)
      BY <1>1, <1>5 DEF PutOne
    <2>4. Faithful(Written(s, fds.err, <<m + 1>>), q, m + 1)
      BY <1>1, <1>3, <2>1, <2>2, ItemWritten
    <2> QED
      BY <1>1, <2>3, <2>4 DEF q
  <1> QED
    BY <1>4, <1>5

\* The items printed so far keep their places when more are printed.
LEMMA FaithfulToLonger ==
    ASSUME NEW list \in Seq(Items), NEW more \in Seq(Items), NEW s, Faithful(s, list, Len(list))
    PROVE  Faithful(s, list \o more, Len(list))
  <1>1. \A k \in 1..Len(list) : (list \o more)[k] = list[k]
    BY ConcatProperties
  <1> QED
    BY <1>1 DEF Faithful, SentInOrder, MessagesWritten

\* A list of items.
LEMMA PutKeeps ==
    ASSUME NEW list \in Seq(Items), said \in Seq(Items), Faithful(io, said, Len(said)),
           \/ eprint_fh = IF StderrRedirected = 0 THEN "stdout" ELSE "stderr"
           \/ list = <<>>
    PROVE  Faithful(Put(io, list), said \o list, Len(said \o list))
  <1>1. PICK f : /\ f[0] = io
                 /\ \A k \in 1..Len(list) : f[k] = PutOne(f[k - 1], list, k)
                 /\ Put(io, list) = f[Len(list)]
    BY PutFolds
  <1>2. Len(said) \in Nat /\ Len(list) \in Nat /\ Len(said \o list) = Len(said) + Len(list)
    BY ConcatProperties
  <1> DEFINE S == {k \in Nat : k <= Len(list) => Faithful(f[k], said \o list, Len(said) + k)}
  <1>3. 0 \in S
    <2>1. Faithful(io, said \o list, Len(said)) /\ Len(said) + 0 = Len(said)
      BY <1>2, FaithfulToLonger
    <2> QED
      BY <1>1, <2>1
  <1>4. ASSUME NEW k \in S PROVE k + 1 \in S
    <2> SUFFICES ASSUME k + 1 <= Len(list)
                 PROVE  Faithful(f[k + 1], said \o list, Len(said) + (k + 1))
      OBVIOUS
    <2>1. k + 1 \in 1..Len(list) /\ (k + 1) - 1 = k /\ list # <<>>
      BY <1>2
    <2>2. Faithful(f[k], said \o list, Len(said) + ((k + 1) - 1))
      BY <1>2, <2>1
    <2>3. f[k + 1] = PutOne(f[k], list, k + 1)
      BY <1>1, <2>1
    <2> QED
      BY <2>1, <2>2, <2>3, ItemKeeps
  <1>5. S = Nat
    BY <1>3, <1>4, SetInduction
  <1>6. Faithful(f[Len(list)], said \o list, Len(said) + Len(list))
    <2> HIDE DEF S
    <2>1. Len(list) \in S
      BY <1>2, <1>5
    <2> QED
      BY <1>2, <2>1 DEF S
  <1> QED
    BY <1>1, <1>2, <1>6

\* Writing out the buffer, or part of it, changes what has been sent to stdout
\* in nothing but its place.
LEMMA FlushKeeps ==
    ASSUME NEW list, NEW m \in Nat, NEW s, Faithful(s, list, m), NEW k \in 0..Len(s.unwritten)
    PROVE  /\ Faithful(Flushed(s, k), list, m)
           /\ k = Len(s.unwritten) => Flushed(s, k).unwritten = <<>>
  <1> DEFINE u == s.unwritten
             first == SubSeq(u, 1, k)
             rest == SubSeq(u, k + 1, Len(u))
             t == Flushed(s, k)
  <1>1. s \in IoRecord /\ u \in Seq(Nat) /\ s.files \in [FilesOf(fds) -> Seq(Nat)]
    BY DEF Faithful, IoRecord
  <1>2. first \in Seq(Nat) /\ rest \in Seq(Nat)
    BY <1>1
  <1>3. first \o rest = u
    <2>1. SubSeq(u, 1, Len(u)) = u
      BY <1>1, SubSeqFull
    <2> HIDE DEF u
    <2>2. 1 \in 1..Len(u) + 1 /\ k \in 1 - 1..Len(u) /\ Len(u) \in k..Len(u)
      BY <1>1 DEF u
    <2>3. SubSeq(u, 1, k) \o SubSeq(u, k + 1, Len(u)) = SubSeq(u, 1, Len(u))
      BY <1>1, <2>2, ConcatAdjacentSubSeq
    <2> QED
      BY <2>1, <2>3
  <1>4. k = Len(u) => rest = <<>>
    BY <1>1, SubSeqEmpty
  <1>5. t = [Written(s, fds.out, first) EXCEPT !.unwritten = rest]
    <2>1. Written(s, fds.out, first).unwritten = u
      BY <1>1 DEF Written, IoRecord
    <2> HIDE DEF first, u
    <2> QED
      BY <2>1 DEF Flushed, first, u
  <1> HIDE DEF t, u, first, rest
  <1>6. /\ t \in IoRecord
        /\ t.unwritten = rest
        /\ fds.out # Closed => t.files[fds.out] = s.files[fds.out] \o first
        /\ fds.err # Closed /\ fds.err # fds.out => t.files[fds.err] = s.files[fds.err]
    <2>1. CASE fds.out = Closed
      BY <1>1, <1>2, <1>5, <2>1 DEF Written, IoRecord
    <2>2. CASE fds.out # Closed
      <3>1. fds.out \in FilesOf(fds) /\ s.files[fds.out] \in Seq(Nat)
        BY <1>1, <2>2 DEF FilesOf
      <3>2. s.files[fds.out] \o first \in Seq(Nat)
        BY <1>2, <3>1, ConcatProperties
      <3>3. /\ t.files = [s.files EXCEPT ![fds.out] = @ \o first]
            /\ t.unwritten = rest
            /\ t = [unwritten |-> t.unwritten, files |-> t.files]
        BY <1>1, <1>5, <2>2 DEF Written, IoRecord
      <3>4. t.files \in [FilesOf(fds) -> Seq(Nat)]
        BY <1>1, <3>1, <3>2, <3>3
      <3>5. t \in IoRecord
        BY <1>2, <3>3, <3>4 DEF IoRecord
      <3>6. fds.err # Closed /\ fds.err # fds.out => t.files[fds.err] = s.files[fds.err]
        BY <1>1, <3>3 DEF FilesOf
      <3>7. t.files[fds.out] = s.files[fds.out] \o first
        BY <1>1, <3>1, <3>3
      <3> QED
        BY <3>3, <3>5, <3>6, <3>7
    <2> QED
      BY <2>1, <2>2
  <1>7. ASSUME fds.out # Closed PROVE SentInOrder(t, list, m)
    <2>1. s.files[fds.out] \in Seq(Nat)
      BY <1>1, <1>7 DEF FilesOf
    <2>2. (s.files[fds.out] \o first) \o rest = s.files[fds.out] \o (first \o rest)
      <3> DEFINE a == s.files[fds.out]
      <3>1. a \in Seq(Nat)
        BY <2>1
      <3> HIDE DEF a
      <3>2. (a \o first) \o rest = a \o (first \o rest)
        BY <1>2, <3>1, ConcatIsOne
      <3> QED
        BY <3>2 DEF a
    <2>3. Sent(t) = Sent(s)
      BY <1>3, <1>6, <1>7, <2>2 DEF Sent, u
    <2> QED
      BY <1>7, <2>3 DEF Faithful, SentInOrder
  <1>8. ASSUME fds.err # Closed, fds.out # fds.err PROVE MessagesWritten(t, list, m)
    BY <1>6, <1>8 DEF Faithful, MessagesWritten
  <1>9. Faithful(t, list, m)
    BY <1>6, <1>7, <1>8 DEF Faithful
  <1> QED
    BY <1>4, <1>6, <1>9 DEF t, u

-----------------------------------------------------------------------------
\* What the steps print are items.
LEMMA ListsOfItems ==
    ASSUME n \in Nat
    PROVE  /\ <<>> \in Seq(Asides) /\ <<Message>> \in Seq(Asides)
           /\ <<MessageLine>> \in Seq(Asides) /\ <<Message, MessageLine>> \in Seq(Asides)
           /\ <<Out(0)>> \in Seq(Asides) /\ <<OutText>> \in Seq(Asides)
           /\ <<Out(n)>> \in Seq(Items) /\ Out(n).answer = n
           /\ Seq(Asides) \subseteq Seq(Items)
           /\ \A a, b \in Seq(Asides) : a \o b \in Seq(Asides)
           /\ \A a, b \in Seq(Items) : a \o b \in Seq(Items)
  <1>1. /\ Message \in Asides /\ MessageLine \in Asides
        /\ Out(0) \in Asides /\ OutText \in Asides
        /\ Out(n) \in Items /\ Out(n).answer = n
    BY DEF Asides, Items, Message, MessageLine, Out, OutText
  <1>2. /\ \A a, b \in Seq(Asides) : a \o b \in Seq(Asides)
        /\ \A a, b \in Seq(Items) : a \o b \in Seq(Items)
    BY ConcatProperties
  <1>3. \A x, y \in Asides : <<x>> \in Seq(Asides) /\ <<x, y>> \in Seq(Asides)
    OBVIOUS
  <1>4. <<>> \in Seq(Asides) /\ \A x \in Items : <<x>> \in Seq(Items)
    OBVIOUS
  <1>5. Seq(Asides) \subseteq Seq(Items)
    BY SeqMonotonic DEF Asides
  <1> QED
    BY <1>1, <1>2, <1>3, <1>4, <1>5

\* A step prints a list of items, unless the process dies, and goes on or ends.
PrintsList(list) ==
    \/ \E where \in Places \ {"exit", "main"} : Continue(where, list)
    \/ \E code : Exit(code, list)

\* Every step prints a list of items, before which messages have their place,
\* unless the process dies in it; only argv_isbn prints answers.
LEMMA StepPrints ==
    ASSUME CmdIInv, Step
    PROVE  \/ Crash
           \/ \E list \in Seq(Items) : /\ pc = "main" => list = <<>>
                                       /\ ArgvIsbn \/ list \in Seq(Asides)
                                       /\ PrintsList(list)
  <1>1. n \in Nat /\ pc \in Places
    BY DEF CmdIInv, CmdTypeOK
  <1>2. /\ <<>> \in Seq(Asides) /\ <<Message>> \in Seq(Asides)
        /\ <<MessageLine>> \in Seq(Asides) /\ <<Message, MessageLine>> \in Seq(Asides)
        /\ <<Out(0)>> \in Seq(Asides) /\ <<OutText>> \in Seq(Asides)
        /\ <<Out(n)>> \in Seq(Items)
        /\ Seq(Asides) \subseteq Seq(Items)
        /\ \A a, b \in Seq(Asides) : a \o b \in Seq(Asides)
        /\ \A a, b \in Seq(Items) : a \o b \in Seq(Items)
    BY <1>1, ListsOfItems
  <1>3. /\ {"options", "table", "argv", "probe", "open", "lines"} \subseteq Places \ {"exit", "main"}
        /\ IfVerbose(<<MessageLine>>) \in Seq(Asides)
    BY <1>2 DEF Places, IfVerbose
  <1>4. CASE Main
    <2>1. Continue("options", <<>>)
      BY <1>4 DEF Main
    <2> QED
      BY <1>2, <1>3, <2>1 DEF PrintsList
  <1>5. CASE Option
    <2>1. pc = "options"
      BY <1>5 DEF Option
    <2>2. \/ Exit(0, <<Out(0)>>) \/ Exit(0, <<OutText>>) \/ Exit(2, <<Message>>)
          \/ Continue("options", <<Message>>) \/ Continue("options", <<>>)
      BY <1>5, <2>1 DEF Option
    <2> QED
      BY <1>2, <1>3, <2>1, <2>2 DEF PrintsList
  <1>6. CASE EndOfOptions
    <2> DEFINE dump == IF verbose' /\ Rest # <<>> THEN <<Message, MessageLine>> ELSE <<>>
               many == IF err_count > 10 THEN <<Message>> ELSE <<>>
               all == many \o dump \o <<Message, MessageLine>>
    <2>1. dump \in Seq(Asides) /\ many \in Seq(Asides)
      BY <1>2
    <2>2. \/ Exit(1, all)
          \/ Continue("table", dump)
          \/ Crash
      BY <1>6 DEF EndOfOptions
    <2>3. pc = "options"
      BY <1>6 DEF EndOfOptions
    <2>4. all \in Seq(Asides)
      <3> HIDE DEF dump, many
      <3>1. many \o dump \in Seq(Asides)
        BY <1>2, <2>1
      <3> QED
        BY <1>2, <3>1
    <2> HIDE DEF dump, many, all
    <2> QED
      BY <1>2, <1>3, <2>1, <2>2, <2>3, <2>4 DEF PrintsList
  <1>7. CASE ParseTable
    <2> DEFINE complaint == IF table = "good" THEN <<>> ELSE <<MessageLine>>
               list == complaint \o IfVerbose(<<MessageLine>>)
    <2>1. list \in Seq(Asides)
      <3>1. complaint \in Seq(Asides)
        BY <1>2
      <3> HIDE DEF complaint
      <3> QED
        BY <1>2, <1>3, <3>1
    <2>2. \/ Exit(2, list) \/ Continue(Mode, list)
          \/ \E code \in 1..2 : Exit(code, list)
          \/ Crash
      BY <1>7 DEF ParseTable
    <2>3. pc = "table" /\ Mode \in {"argv", "lines", "probe"}
      BY <1>7 DEF ParseTable, Mode
    <2> HIDE DEF list
    <2> QED
      BY <1>2, <1>3, <2>1, <2>2, <2>3 DEF PrintsList
  <1>8. CASE ArgvIsbn
    <2>1. PICK result \in Outcomes(Operands[n]) :
             IF result = "fault" THEN Crash
             ELSE Continue("argv", IfVerbose(<<MessageLine>>) \o Answer(result))
      BY <1>8 DEF ArgvIsbn
    <2>2. Answer(result) \in Seq(Items) /\ pc = "argv"
      BY <1>2, <1>8 DEF Answer, ArgvIsbn
    <2>3. IfVerbose(<<MessageLine>>) \o Answer(result) \in Seq(Items)
      BY <1>2, <1>3, <2>2
    <2> QED
      BY <1>3, <1>8, <2>1, <2>2, <2>3 DEF PrintsList
  <1>9. CASE ArgvEnd
    BY <1>2, <1>9 DEF ArgvEnd, PrintsList
  <1>10. CASE Probe
    <2>1. pc = "probe" /\ (Continue("probe", <<Message>>) \/ Continue("probe", <<>>))
      BY <1>10 DEF Probe
    <2> QED
      BY <1>2, <1>3, <2>1 DEF PrintsList
  <1>11. CASE ProbeEnd
    <2>1. pc = "probe" /\ (Exit(any_rv, <<>>) \/ Continue("open", <<>>))
      BY <1>11 DEF ProbeEnd
    <2> QED
      BY <1>2, <1>3, <2>1 DEF PrintsList
  <1>12. CASE OpenFile
    <2>1. pc = "open" /\ (Continue("lines", <<>>) \/ Exit(2, <<Message>>))
      BY <1>12 DEF OpenFile, Unopened
    <2> QED
      BY <1>2, <1>3, <2>1 DEF PrintsList
  <1>13. CASE NoMoreFiles
    BY <1>2, <1>13 DEF NoMoreFiles, PrintsList
  <1>14. CASE StreamLine
    <2>1. pc = "lines" /\ (Crash \/ Continue("lines", <<>>))
      BY <1>14 DEF StreamLine
    <2> QED
      BY <1>2, <1>3, <2>1 DEF PrintsList
  <1>15. CASE StreamEnd
    <2>1. /\ pc = "lines"
          /\ Crash \/ Exit(0, <<>>) \/ Continue("open", <<>>) \/ Exit(0, <<Message>>)
      BY <1>15 DEF StreamEnd
    <2> QED
      BY <1>2, <1>3, <2>1 DEF PrintsList
  <1> QED
    BY <1>4, <1>5, <1>6, <1>7, <1>8, <1>9, <1>10, <1>11, <1>12, <1>13, <1>14, <1>15 DEF Step

\* The state before a step and after it have the same files to print to.
LEMMA SameFiles ==
    ASSUME fds' = fds
    PROVE  Faithful(io, said, Len(said))' <=> Faithful(io', said', Len(said'))
  BY DEF Faithful, IoRecord, FilesOf, SentInOrder, Sent, MessagesWritten

\* The handles are set when the process starts, and nothing is printed yet.
LEMMA PrintStart == Init => PrintIInv
  <1> SUFFICES ASSUME Init PROVE PrintIInv
    OBVIOUS
  <1>1. /\ pc = "main" /\ eprint_fh = "NULL" /\ said = <<>>
        /\ io = [unwritten |-> <<>>, files |-> [f \in FilesOf(fds) |-> <<>>]]
    BY DEF Init, PrintInit
  <1>2. io \in IoRecord /\ io.unwritten = <<>> /\ Len(said) = 0
    BY <1>1 DEF IoRecord
  <1>3. ASSUME fds.out # Closed PROVE SentInOrder(io, said, 0)
    <2>1. io.files[fds.out] = <<>>
      BY <1>1, <1>3 DEF FilesOf
    <2>2. Sent(io) = <<>>
      BY <1>2, <2>1 DEF Sent
    <2> QED
      BY <2>2 DEF SentInOrder
  <1>4. MessagesWritten(io, said, 0)
    BY DEF MessagesWritten
  <1>5. Faithful(io, said, Len(said))
    BY <1>2, <1>3, <1>4 DEF Faithful
  <1> QED
    BY <1>1, <1>5 DEF PrintIInv, HandleSet

\* Every step keeps what is printed in order.
LEMMA PrintStep == CmdIInv /\ PrintIInv /\ [Next]_vars => PrintIInv'
  <1> SUFFICES ASSUME CmdIInv, PrintIInv, [Next]_vars PROVE PrintIInv'
    OBVIOUS
  <1> USE DEF PrintIInv
  <1>1. CASE UNCHANGED vars
    <2>1. UNCHANGED <<pc, eprint_fh, fds, io, said>>
      BY <1>1 DEF vars, printing
    <2>2. Faithful(io', said', Len(said'))
      BY <2>1
    <2> QED
      BY <2>1, <2>2, SameFiles DEF HandleSet, StderrRedirected
  <1>2. CASE Buffering
    <2>1. /\ UNCHANGED <<pc, eprint_fh, fds, said>> /\ pc # "exit"
          /\ \E k \in 1..Len(io.unwritten) : io' = Flushed(io, k)
      BY <1>2 DEF Buffering, Flush
    <2>2. Len(said) \in Nat
      OBVIOUS
    <2>3. PICK k \in 0..Len(io.unwritten) : io' = Flushed(io, k)
      BY <2>1
    <2>4. Faithful(io', said', Len(said'))
      BY <2>1, <2>2, <2>3, FlushKeeps
    <2> QED
      BY <2>1, <2>4, SameFiles DEF HandleSet, StderrRedirected
  <1>3. CASE Step
    <2>1. fds' = fds
      BY <1>3 DEF Step, Main, Option, EndOfOptions, ParseTable, ArgvIsbn, ArgvEnd, Probe,
                  ProbeEnd, OpenFile, NoMoreFiles, StreamLine, StreamEnd, input
    <2>2. /\ pc = "main" => SetEprintFh
          /\ pc # "main" => eprint_fh' = eprint_fh
      BY <1>3 DEF Step, Main, Option, EndOfOptions, ParseTable, ArgvIsbn, ArgvEnd, Probe,
                  ProbeEnd, OpenFile, NoMoreFiles, StreamLine, StreamEnd, flags
    <2>3. eprint_fh' = IF StderrRedirected = 0 THEN "stdout" ELSE "stderr"
      BY <2>2 DEF SetEprintFh, HandleSet
    <2>4. pc' # "main" => HandleSet'
      BY <2>1, <2>3 DEF HandleSet, StderrRedirected
    <2>5. CASE Crash
      <3>1. pc' = "crash" /\ UNCHANGED <<io, said>>
        BY <2>5 DEF Crash
      <3>2. Faithful(io', said', Len(said'))
        BY <3>1
      <3> QED
        BY <2>1, <2>4, <3>1, <3>2, SameFiles
    <2>6. ASSUME NEW list \in Seq(Items), pc = "main" => list = <<>>, PrintsList(list)
          PROVE  PrintIInv'
      <3>1. Faithful(Put(io, list), said \o list, Len(said \o list))
        BY <2>6, PutKeeps DEF HandleSet
      <3>2. said \o list \in Seq(Items)
        BY ConcatProperties
      <3>3. CASE \E where \in Places \ {"exit", "main"} : Continue(where, list)
        <4>1. CASE Crash
          BY <2>5, <4>1
        <4>2. CASE ~Crash
          <5>1. pc' \notin {"exit", "main"} /\ said' = said \o list /\ io' = Put(io, list)
            BY <3>3, <4>2 DEF Continue
          <5>2. Faithful(io', said', Len(said'))
            BY <3>1, <5>1
          <5> QED
            BY <2>1, <2>4, <3>2, <5>1, <5>2, SameFiles
        <4> QED
          BY <4>1, <4>2
      <3>4. CASE \E code : Exit(code, list)
        <4>1. CASE Crash
          BY <2>5, <4>1
        <4>2. CASE ~Crash
          <5> DEFINE s == Put(io, list)
          <5>1. /\ pc' = "exit" /\ said' = said \o list
                /\ io' = Flushed(s, Len(s.unwritten))
            BY <3>4, <4>2 DEF Exit
          <5>2. Len(s.unwritten) \in 0..Len(s.unwritten) /\ Len(said \o list) \in Nat
            BY <3>1, <3>2 DEF Faithful, IoRecord
          <5>3. Faithful(s, said \o list, Len(said \o list))
            BY <3>1
          <5> HIDE DEF s
          <5>4. /\ Faithful(Flushed(s, Len(s.unwritten)), said \o list, Len(said \o list))
                /\ Flushed(s, Len(s.unwritten)).unwritten = <<>>
            BY <5>2, <5>3, FlushKeeps
          <5>5. Faithful(io', said', Len(said')) /\ io'.unwritten = <<>>
            BY <5>1, <5>4
          <5> QED
            BY <2>1, <2>4, <3>2, <5>1, <5>5, SameFiles
        <4> QED
          BY <4>1, <4>2
      <3> QED
        BY <2>6, <3>3, <3>4 DEF PrintsList
    <2>7. CASE ~Crash
      <3>1. PICK list \in Seq(Items) : (pc = "main" => list = <<>>) /\ PrintsList(list)
        BY <1>3, <2>7, StepPrints
      <3> HIDE DEF PrintIInv
      <3> QED
        BY <2>6, <3>1
    <2> QED
      BY <2>5, <2>7
  <1> QED
    BY <1>1, <1>2, <1>3 DEF Next

\* What is printed, for any command line, files and handles.
THEOREM PrintInvariance == Spec => []PrintIInv
  BY PrintStart, PrintStep, CmdInvariance, PTL DEF Spec

\* Where stdout and stderr are one file, the file begins what was printed:
\* set_eprint_fh sends messages through the buffer of stdout.
THEOREM OneFileKeepsOrder == Spec => []OneFileInOrder
  <1>1. PrintIInv => OneFileInOrder
    <2> SUFFICES ASSUME PrintIInv, fds.out = fds.err, fds.out # Closed,
                        NEW k \in DOMAIN io.files[fds.out]
                 PROVE  io.files[fds.out][k] = k
      BY DEF OneFileInOrder
    <2> DEFINE a == io.files[fds.out]
    <2>1. a \in Seq(Nat) /\ io.unwritten \in Seq(Nat)
      BY DEF PrintIInv, Faithful, IoRecord, FilesOf
    <2>2. \A i \in 1..Len(Sent(io)) : Sent(io)[i] = i
      BY DEF PrintIInv, Faithful, SentInOrder
    <2>3. Sent(io) = a \o io.unwritten /\ k \in DOMAIN a
      BY DEF Sent
    <2> HIDE DEF a
    <2>4. k \in 1..Len(a) /\ k \in 1..Len(Sent(io)) /\ Sent(io)[k] = a[k]
      BY <2>1, <2>3
    <2>5. a[k] = k
      BY <2>2, <2>4
    <2> QED
      BY <2>5 DEF a
  <1> QED
    BY <1>1, PrintInvariance, PTL

\* Where stderr has a file of its own, a message is in it from the step that
\* printed it on: a process that dies takes none along.
THEOREM MessagesOutliveCrash == Spec => []MessagesSurvive
  <1>1. PrintIInv => MessagesSurvive
    <2> SUFFICES ASSUME PrintIInv, fds.out # fds.err, fds.err # Closed,
                        NEW k \in DOMAIN said, said[k].to = "err"
                 PROVE  k \in ToSet(io.files[fds.err])
      BY DEF MessagesSurvive
    <2>1. k \in 1..Len(said)
      BY DEF PrintIInv
    <2>2. PICK i \in 1..Len(io.files[fds.err]) : io.files[fds.err][i] = k
      BY <2>1 DEF PrintIInv, Faithful, MessagesWritten
    <2>3. io.files[fds.err] \in Seq(Nat)
      BY DEF PrintIInv, Faithful, IoRecord, FilesOf
    <2> QED
      BY <2>2, <2>3 DEF ToSet
  <1> QED
    BY <1>1, PrintInvariance, PTL

-----------------------------------------------------------------------------
\* A step that prints no answer leaves the arguments answered as they are.
LEMMA AsidesAnswerNothing ==
    ASSUME said \in Seq(Items), NEW m, Answered(m), Operands' = Operands,
           \/ said' = said
           \/ \E list \in Seq(Asides) : said' = said \o list
    PROVE  Answered(m)'
  <1>1. CASE said' = said
    BY <1>1 DEF Answered
  <1>2. ASSUME NEW list \in Seq(Asides), said' = said \o list PROVE Answered(m)'
    <2>1. /\ Len(said) \in Nat /\ Len(said') = Len(said) + Len(list) /\ Len(list) \in Nat
          /\ \A k \in 1..Len(said) : said'[k] = said[k]
      BY <1>2
    <2>2. ASSUME NEW k \in 1..Len(said'), said'[k].answer # 0
          PROVE  k \in 1..Len(said) /\ said'[k] = said[k]
      <3>1. CASE k \in 1..Len(said)
        BY <2>1, <3>1
      <3>2. CASE k \notin 1..Len(said)
        <4>1. k - Len(said) \in 1..Len(list)
          BY <2>1, <3>2
        <4>2. said'[k] = list[k - Len(said)]
          BY <1>2, <2>1, <3>2
        <4>3. list[k - Len(said)] \in Asides
          BY <4>1, ElementOfSeq
        <4> QED
          BY <2>2, <4>2, <4>3 DEF Asides
      <3> QED
        BY <3>1, <3>2
    <2>3. \A k \in 1..Len(said) : k \in 1..Len(said') /\ said'[k] = said[k]
      BY <2>1
    <2>4. /\ \A k \in 1..Len(said) : said[k].answer # 0 =>
               said[k].answer \in 1..m /\ Operands[said[k].answer] = "good"
          /\ \A i \in 1..m : Operands[i] = "good" => \E k \in 1..Len(said) : said[k].answer = i
          /\ \A j, k \in 1..Len(said) :
               said[j].answer # 0 /\ said[k].answer # 0 /\ j < k => said[j].answer < said[k].answer
      BY DEF Answered
    <2>5. \A k \in 1..Len(said') : said'[k].answer # 0 =>
               said'[k].answer \in 1..m /\ Operands'[said'[k].answer] = "good"
      BY <2>2, <2>4
    <2>6. \A i \in 1..m : Operands'[i] = "good" => \E k \in 1..Len(said') : said'[k].answer = i
      BY <2>3, <2>4
    <2>7. \A j, k \in 1..Len(said') :
             said'[j].answer # 0 /\ said'[k].answer # 0 /\ j < k => said'[j].answer < said'[k].answer
      BY <2>2, <2>4
    <2> QED
      BY <2>5, <2>6, <2>7 DEF Answered
  <1> QED
    BY <1>1, <1>2

\* What one more item does to a sequence.
LEMMA LastItem ==
    ASSUME NEW q \in Seq(Items), NEW x \in Items
    PROVE  /\ Len(q \o <<x>>) = Len(q) + 1
           /\ (q \o <<x>>)[Len(q) + 1] = x
           /\ \A k \in 1..Len(q) : (q \o <<x>>)[k] = q[k]
  OBVIOUS

\* The answer to the next argument comes after the answers so far.
LEMMA NextAnswered ==
    ASSUME said \in Seq(Items), NEW m \in Nat, Answered(m), Operands[m + 1] = "good",
           Operands' = Operands,
           NEW list \in Seq(Asides), said' = (said \o list) \o <<Out(m + 1)>>
    PROVE  Answered(m + 1)'
  <1> DEFINE N == Len(said) + Len(list)
  <1>1. /\ Len(said) \in Nat /\ Len(list) \in Nat /\ Len(said') = N + 1
        /\ \A k \in 1..Len(said) : said'[k] = said[k]
        /\ \A k \in 1..Len(list) : said'[Len(said) + k] = list[k]
        /\ said'[N + 1] = Out(m + 1)
    <2>1. Asides \subseteq Items /\ list \in Seq(Items)
      BY SeqMonotonic DEF Asides
    <2> DEFINE q == said \o list
    <2>2. /\ q \in Seq(Items) /\ Len(q) = N /\ Len(said) \in Nat /\ Len(list) \in Nat
          /\ \A k \in 1..Len(said) : q[k] = said[k]
          /\ \A k \in 1..Len(list) : q[Len(said) + k] = list[k]
      BY <2>1
    <2>3. said' = q \o <<Out(m + 1)>>
      OBVIOUS
    <2>6. <<Out(m + 1)>> \in Seq(Items) /\ N \in Nat
      BY <2>2 DEF Items, Out
    <2> HIDE DEF q, N
    <2>4. /\ Len(said') = N + 1 /\ said'[N + 1] = Out(m + 1)
          /\ \A k \in 1..N : said'[k] = q[k]
      <3>1. Out(m + 1) \in Items
        BY DEF Items, Out
      <3> DEFINE x == Out(m + 1)
      <3> HIDE DEF x
      <3>2. /\ Len(q \o <<x>>) = Len(q) + 1
            /\ (q \o <<x>>)[Len(q) + 1] = x
            /\ \A k \in 1..Len(q) : (q \o <<x>>)[k] = q[k]
        BY <2>2, <3>1, LastItem, Zenon DEF x
      <3>3. said' = q \o <<x>>
        BY <2>3 DEF x
      <3>4. /\ Len(said') = N + 1 /\ said'[N + 1] = x
            /\ \A k \in 1..N : said'[k] = q[k]
        BY <2>2, <3>2, <3>3
      <3> QED
        BY <3>4 DEF x
    <2> USE DEF N
    <2>5. /\ \A k \in 1..Len(said) : k \in 1..N
          /\ \A k \in 1..Len(list) : Len(said) + k \in 1..N
      BY <2>2
    <2> QED
      BY <2>2, <2>4, <2>5
  <1>2. Out(m + 1).answer = m + 1
    BY DEF Out
  <1>3. ASSUME NEW k \in 1..Len(said'), said'[k].answer # 0
        PROVE  \/ k \in 1..Len(said) /\ said'[k] = said[k]
               \/ k = N + 1 /\ said'[k].answer = m + 1
    <2>1. CASE k \in 1..Len(said)
      BY <1>1, <2>1
    <2>2. CASE k = N + 1
      BY <1>1, <1>2, <2>2
    <2>3. CASE k \notin 1..Len(said) /\ k # N + 1
      <3>1. k \in Nat /\ k > Len(said) /\ k <= Len(said) + Len(list)
        <4>1. N \in Nat /\ k \in 1..(N + 1)
          BY <1>1
        <4>2. k \in Nat /\ 1 <= k /\ k <= N
          <5> HIDE DEF N
          <5> QED
            BY <2>3, <4>1
        <4>3. ~ (k <= Len(said))
          <5> DEFINE a == Len(said)
          <5>1. a \in Nat /\ k \notin 1..a
            BY <1>1, <2>3
          <5> HIDE DEF a
          <5>2. ~ (k <= a)
            BY <4>2, <5>1
          <5> QED
            BY <5>2 DEF a
        <4> QED
          BY <1>1, <4>2, <4>3
      <3>4. k - Len(said) \in 1..Len(list) /\ Len(said) + (k - Len(said)) = k
        <4> DEFINE a == Len(said)
                   b == Len(list)
        <4>1. k \in Nat /\ a \in Nat /\ b \in Nat /\ k > a /\ k <= a + b
          BY <1>1, <3>1
        <4> HIDE DEF a, b
        <4>2. k - a \in 1..b /\ a + (k - a) = k
          BY <4>1
        <4> QED
          BY <4>2 DEF a, b
      <3>2. said'[k] = list[k - Len(said)]
        BY <1>1, <3>4
      <3>3. list[k - Len(said)] \in Asides
        BY <3>4, ElementOfSeq
      <3> QED
        BY <1>3, <3>2, <3>3 DEF Asides
    <2> QED
      BY <2>1, <2>2, <2>3
  <1>4. /\ \A k \in 1..Len(said) : said[k].answer # 0 =>
             said[k].answer \in 1..m /\ Operands[said[k].answer] = "good"
        /\ \A i \in 1..m : Operands[i] = "good" => \E k \in 1..Len(said) : said[k].answer = i
        /\ \A j, k \in 1..Len(said) :
             said[j].answer # 0 /\ said[k].answer # 0 /\ j < k => said[j].answer < said[k].answer
    BY DEF Answered
  <1>5. N + 1 \in 1..Len(said') /\ \A k \in 1..Len(said) : k \in 1..Len(said') /\ k < N + 1
    BY <1>1
  <1>6. ASSUME NEW k \in 1..Len(said'), said'[k].answer # 0
        PROVE  said'[k].answer \in 1..(m + 1) /\ Operands'[said'[k].answer] = "good"
    BY <1>3, <1>4, <1>6
  <1>7. ASSUME NEW i \in 1..(m + 1), Operands'[i] = "good"
        PROVE  \E k \in 1..Len(said') : said'[k].answer = i
    <2>1. CASE i = m + 1
      BY <1>1, <1>2, <1>5, <2>1
    <2>2. CASE i # m + 1
      <3>1. i \in 1..m /\ Operands[i] = "good"
        BY <1>7, <2>2
      <3>2. PICK k \in 1..Len(said) : said[k].answer = i
        BY <1>4, <3>1
      <3> QED
        BY <1>1, <1>5, <3>2
    <2> QED
      BY <2>1, <2>2
  <1>8. ASSUME NEW j \in 1..Len(said'), NEW k \in 1..Len(said'),
               said'[j].answer # 0, said'[k].answer # 0, j < k
        PROVE  said'[j].answer < said'[k].answer
    <2>1. \/ j \in 1..Len(said) /\ said'[j] = said[j]
          \/ j = N + 1 /\ said'[j].answer = m + 1
      BY <1>3, <1>8
    <2>2. \/ k \in 1..Len(said) /\ said'[k] = said[k]
          \/ k = N + 1 /\ said'[k].answer = m + 1
      BY <1>3, <1>8
    <2>3. j \in 1..Len(said) /\ said'[j] = said[j]
      BY <1>1, <1>5, <1>8, <2>1
    <2>4. said[j].answer \in 1..m
      BY <1>4, <1>8, <2>3
    <2>5. CASE k \in 1..Len(said) /\ said'[k] = said[k]
      BY <1>4, <1>8, <2>3, <2>5
    <2>6. CASE k = N + 1 /\ said'[k].answer = m + 1
      BY <2>3, <2>4, <2>6
    <2> QED
      BY <2>2, <2>5, <2>6
  <1> QED
    BY <1>6, <1>7, <1>8 DEF Answered

\* Nothing is answered when the process starts.
LEMMA AnswerStart == Init => AnswerIInv
  BY DEF Init, PrintInit, AnswerIInv, Answered

\* What a step has printed is new at the end of said, or the process dies.
LEMMA StepSays ==
    ASSUME CmdIInv, Step
    PROVE  \/ said' = said
           \/ ArgvIsbn
           \/ \E list \in Seq(Asides) : said' = said \o list
  <1>1. CASE Crash
    BY <1>1 DEF Crash
  <1>2. CASE ~Crash /\ ~ArgvIsbn
    <2>1. PICK list \in Seq(Items) : (ArgvIsbn \/ list \in Seq(Asides)) /\ PrintsList(list)
      BY <1>2, StepPrints
    <2>2. list \in Seq(Asides)
      BY <1>2, <2>1
    <2>3. said' = said \o list
      BY <1>2, <2>1 DEF PrintsList, Continue, Exit
    <2> QED
      BY <2>2, <2>3
  <1> QED
    BY <1>1, <1>2

\* argv_isbn on one argument.
LEMMA ArgumentAnswered ==
    ASSUME CmdIInv, said \in Seq(Items), ArgvIsbn, table = "good", pc' # "crash",
           NEW m \in Nat, n = m + 1, Answered(m), Operands' = Operands
    PROVE  Answered(m + 1)'
  <1> DEFINE ahead == IfVerbose(<<MessageLine>>)
  <1>1. n \in Nat
    BY DEF CmdIInv, CmdTypeOK
  <1>2. said' = said \o (ahead \o Answer(Operands[n]))
    <2>1. PICK result \in Outcomes(Operands[n]) :
             IF result = "fault" THEN Crash ELSE Continue(pc, ahead \o Answer(result))
      BY DEF ArgvIsbn
    <2>2. result = Operands[n]
      BY <2>1 DEF Outcomes
    <2> HIDE DEF ahead
    <2>3. Continue(pc, ahead \o Answer(result))
      BY <2>1 DEF Crash
    <2> QED
      BY <2>2, <2>3 DEF Continue, Crash
  <1>3. ahead \in Seq(Asides) /\ <<>> \in Seq(Asides) /\ Seq(Asides) \subseteq Seq(Items)
    BY <1>1, ListsOfItems DEF IfVerbose
  <1> HIDE DEF ahead
  <1>4. CASE Operands[n] = "good"
    <2>1. Answer(Operands[n]) = <<Out(n)>> /\ <<Out(n)>> \in Seq(Items)
      BY <1>1, <1>4, ListsOfItems DEF Answer
    <2>2. said' = (said \o ahead) \o <<Out(n)>>
      BY <1>2, <1>3, <2>1, ConcatAssociative
    <2> QED
      BY <1>3, <1>4, <2>2, NextAnswered
  <1>5. CASE Operands[n] # "good"
    <2>1. said' = said \o ahead
      BY <1>2, <1>3, <1>5 DEF Answer
    <2>2. Answered(m)'
      BY <1>3, <2>1, AsidesAnswerNothing
    <2>3. \A i \in 1..(m + 1) : i \in 1..m \/ i = m + 1
      OBVIOUS
    <2>4. \A i \in 1..m : i \in 1..(m + 1)
      OBVIOUS
    <2>5. Operands'[m + 1] # "good"
      BY <1>5
    <2> QED
      BY <2>2, <2>3, <2>4, <2>5 DEF Answered
  <1> QED
    BY <1>4, <1>5

\* Every step keeps the good arguments so far answered.
LEMMA AnswerStep == CmdIInv /\ PrintIInv /\ AnswerIInv /\ [Next]_vars => AnswerIInv'
  <1> SUFFICES ASSUME CmdIInv, PrintIInv, AnswerIInv, [Next]_vars PROVE AnswerIInv'
    OBVIOUS
  <1>1. /\ said \in Seq(Items) /\ pc \in Places /\ n \in Nat /\ n > 0
        /\ Len(Operands) \in Nat
    BY OperandsListed DEF PrintIInv, CmdIInv, CmdTypeOK
  <1>2. CASE UNCHANGED vars
    BY <1>2 DEF vars, printing, AnswerIInv, Answered, Informed, Operands
  <1>3. CASE Buffering
    BY <1>3 DEF Buffering, Flush, AnswerIInv, Answered, Informed, Operands
  <1> SUFFICES ASSUME Step PROVE AnswerIInv'
    BY <1>2, <1>3 DEF Next
  <1>4. UNCHANGED <<cmd, table, Operands>> /\ (Informed <=> Informed')
    <2>1. cmd' = cmd /\ table' = table
      BY DEF Step, Main, Option, EndOfOptions, ParseTable, ArgvIsbn, ArgvEnd, Probe,
             ProbeEnd, OpenFile, NoMoreFiles, StreamLine, StreamEnd, input
    <2> QED
      BY <2>1 DEF Operands, Informed
  <1>5. ASSUME ~ArgvIsbn, NEW m, Answered(m) PROVE Answered(m)'
    BY <1>1, <1>4, <1>5, StepSays, AsidesAnswerNothing
  \* Steps up to the table.
  <1>6. ASSUME ~ArgvIsbn, pc \in {"main", "options"}, pc' \in {"options", "table", "exit", "crash"},
               pc' = "exit" => status' # 0 \/ Informed
        PROVE  AnswerIInv'
    <2>1. Answered(0)'
      BY <1>5, <1>6 DEF AnswerIInv
    <2> QED
      BY <1>4, <1>6, <2>1 DEF AnswerIInv
  \* Steps that read files.
  <1>7. ASSUME pc \in {"probe", "open", "lines"}, opt_argv' = opt_argv,
               pc' \in {"probe", "open", "lines", "exit", "crash"}
        PROVE  AnswerIInv'
    BY <1>7 DEF AnswerIInv
  <1>8. CASE Main
    <2>1. pc = "main" /\ pc' \in {"options", "crash"}
      BY <1>8, ContinueGoes DEF Main
    <2> QED
      BY <1>6, <2>1 DEF ArgvIsbn
  <1>9. CASE Option
    <2>1. pc = "options" /\ n \in 1..Len(cmd.opts)
      BY <1>1, <1>9, CommandAssumption DEF Option, CmdIInv, CmdTypeOK
    <2>2. pc' \in {"options", "exit", "crash"}
      BY <1>9, <2>1, ContinueGoes, ExitGoes DEF Option
    <2>3. pc' = "exit" => status' # 0 \/ Informed
      <3> SUFFICES ASSUME pc' = "exit", ~Informed PROVE status' # 0
        OBVIOUS
      <3>1. cmd.opts[n] \notin {"V", "h"}
        BY <2>1 DEF Informed
      <3>2. Exit(2, <<Message>>) \/ Continue(pc, <<Message>>) \/ Continue(pc, <<>>)
        BY <1>9, <3>1 DEF Option
      <3> QED
        BY <2>1, <3>2, ContinueGoes, ExitGoes
    <2> QED
      BY <1>6, <2>1, <2>2, <2>3 DEF ArgvIsbn
  <1>10. CASE EndOfOptions
    <2>1. \/ pc' = "table"
          \/ pc' = "crash"
          \/ pc' = "exit" /\ status' = 1
      BY <1>10, ContinueGoes, ExitGoes, CrashGoes DEF EndOfOptions
    <2> QED
      BY <1>6, <1>10, <2>1 DEF EndOfOptions, ArgvIsbn
  <1>11. CASE ParseTable
    <2>1. pc = "table" /\ n' = 1 /\ opt_argv' = opt_argv
      BY <1>11 DEF ParseTable, flags
    <2>2. \/ pc' = Mode
          \/ pc' = "crash"
          \/ pc' = "exit" /\ status' # 0
      BY <1>11, ContinueGoes, ExitGoes, CrashGoes DEF ParseTable
    <2>3. Answered(0)'
      BY <1>5, <2>1 DEF AnswerIInv, ArgvIsbn
    <2> QED
      BY <1>1, <1>4, <2>1, <2>2, <2>3 DEF AnswerIInv, Mode
  <1>12. CASE ArgvIsbn
    <2>1. /\ pc = "argv" /\ n <= Len(Operands) /\ n' = n + 1
          /\ opt_argv' = opt_argv /\ opt_argv
      BY <1>12 DEF ArgvIsbn, AnswerIInv, flags
    <2>2. pc' \in {"argv", "crash"}
      BY <1>12, <2>1, ContinueGoes, CrashGoes DEF ArgvIsbn
    <2>3. PICK m \in Nat : n = m + 1 /\ n' - 1 = m + 1 /\ n - 1 = m
      <3>1. n - 1 \in Nat /\ n = (n - 1) + 1 /\ n' - 1 = (n - 1) + 1
        BY <1>1, <2>1
      <3> QED
        BY <3>1
    <2>4. pc' = "argv" /\ table = "good" => Answered(m + 1)'
      <3> SUFFICES ASSUME pc' = "argv", table = "good" PROVE Answered(m + 1)'
        OBVIOUS
      <3>1. Answered(m)
        BY <2>1, <2>3 DEF AnswerIInv
      <3> QED
        BY <1>1, <1>4, <1>12, <2>3, <3>1, ArgumentAnswered
    <2>5. pc' = "argv" /\ table' = "good" => Answered(n - 1)'
      BY <1>4, <2>3, <2>4 DEF Answered
    <2> QED
      BY <1>1, <1>4, <2>1, <2>2, <2>5 DEF AnswerIInv
  <1>13. CASE ArgvEnd
    <2>1. /\ pc = "argv" /\ n > Len(Operands) /\ opt_argv' = opt_argv /\ n' = n
      BY <1>13 DEF ArgvEnd, flags
    <2>2. pc' \in {"exit", "crash"}
      BY <1>13, ExitGoes DEF ArgvEnd
    <2>3. n - 1 = Len(Operands)
      BY <1>1, <2>1 DEF AnswerIInv
    <2>4. table = "good" => Answered(Len(Operands))
      BY <2>1, <2>3 DEF AnswerIInv
    <2>5. table = "good" => Answered(Len(Operands))'
      <3>1. ASSUME table = "good" PROVE Answered(Len(Operands))'
        <4> DEFINE m == Len(Operands)
        <4>1. Answered(m)
          BY <2>4, <3>1
        <4>2. ~ArgvIsbn
          BY <1>1, <2>1 DEF ArgvIsbn
        <4>3. Operands' = Operands
          BY <1>4
        <4>4. \/ said' = said
              \/ \E list \in Seq(Asides) : said' = said \o list
          BY <4>2, StepSays
        <4> QED
          BY <1>1, <4>1, <4>3, <4>4, AsidesAnswerNothing
      <3> QED
        BY <3>1
    <2> QED
      BY <1>4, <2>1, <2>2, <2>5 DEF AnswerIInv
  <1>14. CASE Probe
    <2>1. pc = "probe" /\ opt_argv' = opt_argv /\ pc' \in {"probe", "crash"}
      BY <1>14, ContinueGoes DEF Probe, flags
    <2> QED
      BY <1>7, <2>1
  <1>15. CASE ProbeEnd
    <2>1. pc = "probe" /\ opt_argv' = opt_argv /\ pc' \in {"open", "exit", "crash"}
      BY <1>15, ContinueGoes, ExitGoes DEF ProbeEnd, flags
    <2> QED
      BY <1>7, <2>1
  <1>16. CASE OpenFile
    <2>1. pc = "open" /\ opt_argv' = opt_argv /\ pc' \in {"lines", "exit", "crash"}
      BY <1>16, ContinueGoes, ExitGoes DEF OpenFile, Unopened, flags
    <2> QED
      BY <1>7, <2>1
  <1>17. CASE NoMoreFiles
    <2>1. pc = "open" /\ opt_argv' = opt_argv /\ pc' \in {"exit", "crash"}
      BY <1>17, ExitGoes DEF NoMoreFiles, flags
    <2> QED
      BY <1>7, <2>1
  <1>18. CASE StreamLine
    <2>1. pc = "lines" /\ opt_argv' = opt_argv /\ pc' \in {"lines", "crash"}
      BY <1>18, ContinueGoes, CrashGoes DEF StreamLine, flags
    <2> QED
      BY <1>7, <2>1
  <1>19. CASE StreamEnd
    <2>1. pc = "lines" /\ opt_argv' = opt_argv /\ pc' \in {"open", "exit", "crash"}
      BY <1>19, ContinueGoes, ExitGoes, CrashGoes DEF StreamEnd, flags
    <2> QED
      BY <1>7, <2>1
  <1> QED
    BY <1>8, <1>9, <1>10, <1>11, <1>12, <1>13, <1>14, <1>15, <1>16, <1>17, <1>18, <1>19 DEF Step

\* The invariant of the answers, for any arguments.
THEOREM AnswerInvariance == Spec => []AnswerIInv
  BY AnswerStart, AnswerStep, CmdInvariance, PrintInvariance, PTL DEF Spec

\* With --argv what comes out of stdout is the answer to every good argument,
\* once and in the order of the arguments, and no other.
THEOREM ArgumentsAnswered == Spec => []ArgvAnswers
  <1>1. CmdIInv /\ PrintIInv /\ AnswerIInv => ArgvAnswers
    <2> SUFFICES ASSUME CmdIInv, PrintIInv, AnswerIInv,
                        pc = "exit", opt_argv, status = 0, table = "good", fds.out # Closed,
                        \A o \in 1..Len(cmd.opts) : cmd.opts[o] \notin {"V", "h"}
                 PROVE  ArgvAnswers
      BY DEF ArgvAnswers
    <2> DEFINE file == io.files[fds.out]
               answers == {k \in DOMAIN file : said[file[k]].answer # 0}
    <2>1. Answered(Len(Operands))
      BY DEF AnswerIInv, Informed
    <2>2. /\ \A k \in 1..Len(said) : said[k].answer # 0 =>
               said[k].answer \in 1..Len(Operands) /\ Operands[said[k].answer] = "good"
          /\ \A i \in 1..Len(Operands) :
               Operands[i] = "good" => \E k \in 1..Len(said) : said[k].answer = i
          /\ \A j, k \in 1..Len(said) :
               said[j].answer # 0 /\ said[k].answer # 0 /\ j < k => said[j].answer < said[k].answer
      BY <2>1 DEF Answered
    <2>3. file \in Seq(Nat) /\ io.unwritten = <<>> /\ said \in Seq(Items)
      BY DEF PrintIInv, Faithful, IoRecord, FilesOf
    <2>4. Sent(io) = file
      BY <2>3 DEF Sent
    <2>5. SentInOrder(io, said, Len(said))
      BY DEF PrintIInv, Faithful
    <2>6. DOMAIN Operands = 1..Len(Operands) /\ DOMAIN file = 1..Len(file)
      <3>1. Operands \in Seq(STRING)
        BY OperandsListed DEF CmdIInv, CmdTypeOK
      <3> HIDE DEF file
      <3> QED
        BY <2>3, <3>1
    <2> HIDE DEF file
    <2>7. /\ \A i \in 1..Len(file) : file[i] \in 1..Len(said)
          /\ \A i, j \in 1..Len(file) : i < j => file[i] < file[j]
          /\ \A k \in 1..Len(said) :
               said[k].to = "out" => \E i \in 1..Len(file) : file[i] = k
      BY <2>4, <2>5 DEF SentInOrder
    <2>8. \A k \in answers : said[file[k]].answer \in {i \in DOMAIN Operands : Operands[i] = "good"}
      BY <2>2, <2>6, <2>7
    <2>9. ASSUME NEW i \in DOMAIN Operands, Operands[i] = "good"
          PROVE  \E k \in answers : said[file[k]].answer = i
      <3>1. i \in 1..Len(Operands) /\ i # 0
        BY <2>6
      <3>2. PICK k \in 1..Len(said) : said[k].answer = i
        BY <2>2, <2>9, <3>1
      <3>3. said[k] \in Items
        BY <2>3, ElementOfSeq
      <3>4. said[k].to = "out"
        BY <3>1, <3>2, <3>3 DEF Items
      <3>5. PICK j \in 1..Len(file) : file[j] = k
        BY <2>7, <3>4
      <3>6. j \in answers
        BY <2>6, <3>1, <3>2, <3>5
      <3> QED
        BY <3>2, <3>5, <3>6
    <2>10. \A j, k \in answers : j < k => said[file[j]].answer < said[file[k]].answer
      BY <2>2, <2>6, <2>7
    <2>11. {said[file[k]].answer : k \in answers} = {k \in DOMAIN Operands : Operands[k] = "good"}
      <3> HIDE DEF answers
      <3> QED
        BY <2>8, <2>9
    <2> QED
      BY <2>10, <2>11 DEF ArgvAnswers, file
  <1> QED
    BY <1>1, CmdInvariance, PrintInvariance, AnswerInvariance, PTL
==============================================================================
