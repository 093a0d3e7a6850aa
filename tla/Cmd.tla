--------------------------------- MODULE Cmd ---------------------------------
(****************************************************************************)
(* The program cmd/isbn-hyphenate.c: options, the range table, and then its *)
(* arguments, standard input or files, an ISBN each or a line each.  What   *)
(* hyphenate_isbn makes of an ISBN is Hyphenate; here it succeeds or not.   *)
(* What the program prints goes through the handles of PrintFh.             *)
(****************************************************************************)
EXTENDS PrintFh

CONSTANTS
    CommandLines,   \* records [opts, operands]: sequences of options and names
    Names,          \* operands that name files
    HighBytes,      \* operands with bytes that are negative as char
    FileStates,     \* what a name may stand for: a kind ("file", "directory",
                    \* "absent") and the lines of a file
    Tables          \* what parse_isbn_range_table may meet

\* argv is a list of strings.
ASSUME CommandAssumption ==
    \A c \in CommandLines : c.opts \in Seq(STRING) /\ c.operands \in Seq(STRING)

\* Options: "A" for --argv, "?" for an unknown one, "w" for those of the
\* getopt string that main has no case for.  Lines and arguments: "empty",
\* or the outcome of hyphenate_isbn: "good", "bad", or "fault" for one that
\* leads the lookup out of the packed block (FstPack).
Stdin == "-"

VARIABLES
    cmd,        \* the command line
    files,      \* what each operand names, and standard input
    table,      \* "good"; "refused" (a rule ends the process); "empty" (unread)
    pc,         \* where main is, or "exit" or "crash"
    n,          \* index of the option, argument, file or line at hand
    err_count, debug, verbose, opt_argv,
    rv,         \* "unset" until an option has been seen, then "zero"
    any_rv,     \* local of filev_probe
    line,       \* index of the line at hand
    status,     \* exit status
    opened,     \* history: operands opened, read to the end, and not closed
    escape      \* history: bytes that fshow_str has put in dbuf

vars == <<cmd, files, table, pc, n, err_count, debug, verbose, opt_argv, rv, any_rv,
          line, status, opened, escape, printing>>

input == <<cmd, files, table, fds>>
flags == <<eprint_fh, err_count, debug, verbose, opt_argv>>

Operands == cmd.operands

\* What may be read: the operands that are names, or standard input.
Sources ==
    IF Operands = <<>> THEN {Stdin}
    ELSE {Operands[k] : k \in 1..Len(Operands)} \cap (Names \cup {Stdin})

\* How the command line and the environment start.
Init ==
    /\ cmd \in CommandLines
    /\ files \in [Sources -> FileStates]
    /\ table \in Tables
    /\ PrintInit
    /\ pc = "main"
    /\ n = 1
    /\ err_count = 0 /\ debug = FALSE /\ verbose = FALSE /\ opt_argv = FALSE
    /\ rv = "unset" /\ any_rv = 0
    /\ line = 1
    /\ status = -1
    /\ escape = 0
    /\ opened = [begun |-> {}, ended |-> {}, unclosed |-> {}]

\* How a step goes on: printing a list of items, to the end of the process or
\* not, unless fprint aborts.  What is in the buffer is written at the end of a
\* process that exits and lost with one that crashes.
Crash == pc' = "crash" /\ UNCHANGED <<status, io, said>>

Exit(code, list) ==
    \/ /\ ~MustAbort(list)
       /\ pc' = "exit" /\ status' = code
       /\ said' = said \o list
       /\ io' = LET s == Put(io, list) IN Flushed(s, Len(s.unwritten))
    \/ MayAbort(list) /\ Crash

Continue(where, list) ==
    \/ /\ ~MustAbort(list)
       /\ pc' = where /\ UNCHANGED status
       /\ said' = said \o list
       /\ io' = Put(io, list)
    \/ MayAbort(list) /\ Crash

IfVerbose(list) == IF verbose THEN list ELSE <<>>

-----------------------------------------------------------------------------
\* The first lines of main.
Main ==
    /\ pc = "main"
    /\ SetEprintFh
    /\ Continue("options", <<>>)
    /\ UNCHANGED <<input, n, err_count, debug, verbose, opt_argv, rv, any_rv, line,
                   opened, escape>>

\* One option.  Any option, an unknown one too, sets rv to 0.
Option ==
    /\ pc = "options" /\ n <= Len(cmd.opts) /\ err_count <= 10
    /\ LET o == cmd.opts[n]
       IN  /\ debug' = (debug \/ o = "d")
           /\ verbose' = (verbose \/ o = "v")
           /\ opt_argv' = (opt_argv \/ o = "A")
           /\ err_count' = err_count + IF o = "?" THEN 1 ELSE 0
           /\ CASE o = "V" -> Exit(0, <<Out(0)>>)
                [] o = "h" -> Exit(0, <<OutText>>)
                [] o = "w" -> Exit(2, <<Message>>)
                [] o = "?" -> Continue(pc, <<Message>>)
                [] OTHER -> Continue(pc, <<>>)
    /\ rv' = "zero"
    /\ n' = n + 1
    /\ UNCHANGED <<input, eprint_fh, any_rv, line, opened, escape>>

\* show_char_r puts "\xNN" and a NUL for a byte that is not graphic; a byte
\* that is negative as char comes out with eight digits.
Escaped(operand) == IF operand \in HighBytes THEN 11 ELSE 5

\* What getopt_long has not got to: the operands, and the options behind the
\* eleventh error.
Rest == SubSeq(cmd.opts, n, Len(cmd.opts)) \o Operands

\* The end of the options, or more than ten errors.  An escape that outgrows
\* dbuf may bring the process down.
EndOfOptions ==
    /\ pc = "options" /\ (n > Len(cmd.opts) \/ err_count > 10)
    /\ verbose' = (verbose \/ debug)
    /\ escape' = IF verbose' /\ Rest # <<>>
                 THEN Escaped(IF ToSet(Rest) \cap HighBytes = {} THEN Rest[1]
                              ELSE CHOOSE o \in ToSet(Rest) \cap HighBytes : TRUE)
                 ELSE 0
    /\ LET dump == IF verbose' /\ Rest # <<>> THEN <<Message, MessageLine>> ELSE <<>>
           many == IF err_count > 10 THEN <<Message>> ELSE <<>>
       IN  \/ IF err_count # 0 THEN Exit(1, many \o dump \o <<Message, MessageLine>>)
              ELSE Continue("table", dump)
           \/ escape' > 8 /\ Crash
    /\ UNCHANGED <<input, n, eprint_fh, err_count, debug, opt_argv, rv, any_rv,
                   line, opened>>

Mode ==
    IF opt_argv THEN "argv" ELSE IF Operands = <<>> THEN "lines" ELSE "probe"

\* parse_isbn_range_table reports nothing; then main asks for rv.  When there
\* was no option rv holds whatever is on the stack.  The block that is packed
\* last is overrun (FstPack), which may end the process.
ParseTable ==
    /\ pc = "table"
    /\ LET complaint == IF table = "good" THEN <<>> ELSE <<MessageLine>>
           list == complaint \o IfVerbose(<<MessageLine>>)
       IN  IF table = "refused" THEN Exit(2, list)
           ELSE \/ Continue(Mode, list)
                \/ rv = "unset" /\ \E code \in 1..2 : Exit(code, list)
                \/ Crash
    /\ n' = 1
    /\ UNCHANGED <<input, flags, rv, any_rv, line, opened, escape>>

-----------------------------------------------------------------------------
\* hyphenate_isbn: 0 or an error; with an empty, packed transducer the lookup
\* leaves the block and may bring the process down.
Outcomes(isbn) ==
    IF table = "good" THEN {isbn} ELSE {"bad", "fault"}

\* Mutant: the buffer is printed whatever hyphenate_isbn returned.
AnswerAlways(result) == <<Out(n)>>

\* What argv_isbn prints.
Answer(result) == IF result = "good" THEN <<Out(n)>> ELSE <<>>

\* argv_isbn, one argument.
ArgvIsbn ==
    /\ pc = "argv" /\ n <= Len(Operands)
    /\ \E result \in Outcomes(Operands[n]) :
          IF result = "fault" THEN Crash
          ELSE Continue(pc, IfVerbose(<<MessageLine>>) \o Answer(result))
    /\ n' = n + 1
    /\ UNCHANGED <<input, flags, rv, any_rv, line, opened, escape>>

ArgvEnd ==
    /\ pc = "argv" /\ n > Len(Operands)
    /\ Exit(0, <<>>)
    /\ UNCHANGED <<input, n, flags, rv, any_rv, line, opened, escape>>

Missing(operand) == operand # Stdin /\ files[operand].kind = "absent"

\* Mutant: the result of the last operand is the result.
ProbedLast(operand) == IF Missing(operand) THEN -1 ELSE 0

\* any_rv after a probe; "-" is not looked for.
Probed(operand) == IF Missing(operand) THEN -1 ELSE any_rv

\* fname_probe on one operand.
Probe ==
    /\ pc = "probe" /\ n <= Len(Operands)
    /\ any_rv' = Probed(Operands[n])
    /\ Continue(pc, IF Missing(Operands[n]) THEN <<Message>> ELSE <<>>)
    /\ n' = n + 1
    /\ UNCHANGED <<input, flags, rv, line, opened, escape>>

ProbeEnd ==
    /\ pc = "probe" /\ n > Len(Operands)
    /\ IF any_rv # 0 THEN Exit(any_rv, <<>>) ELSE Continue("open", <<>>)
    /\ n' = 1
    /\ UNCHANGED <<input, flags, rv, any_rv, line, opened, escape>>

\* Mutant: a file that does not open is passed over.
UnopenedPassedOver == Continue(pc, <<Message>>) /\ n' = n + 1

\* filev_isbn returns when a file does not open.
Unopened == Exit(2, <<Message>>) /\ UNCHANGED n

\* fopen.  No file is called "-", and a file that was there for the probe may
\* be gone or not be readable.
OpenFile ==
    /\ pc = "open" /\ n <= Len(Operands)
    /\ \/ /\ Operands[n] # Stdin
          /\ Continue("lines", <<>>)
          /\ opened' = [opened EXCEPT !.begun = @ \cup {n}]
          /\ UNCHANGED n
       \/ Unopened /\ UNCHANGED opened
    /\ line' = 1
    /\ UNCHANGED <<input, flags, rv, any_rv, escape>>

NoMoreFiles ==
    /\ pc = "open" /\ n > Len(Operands)
    /\ Exit(0, <<>>)
    /\ UNCHANGED <<input, n, flags, rv, any_rv, line, opened, escape>>

\* The stream at hand; reads of a directory fail, which is not its end.
Content == files[IF Operands = <<>> THEN Stdin ELSE Operands[n]]

\* The loop of isbn_stream.  With --debug sgl_fgetline writes to dprint_fh,
\* which set_debug_fh(NULL) leaves NULL; without it, dbg_show_var does, before
\* the first line that is not empty can be hyphenated.  A read that fails
\* without an end of file is an empty line.
StreamLine ==
    /\ pc = "lines" /\ (Content.kind = "directory" \/ line <= Len(Content.lines))
    /\ IF debug THEN Crash /\ UNCHANGED line
       ELSE IF Content.kind = "directory" THEN Continue(pc, <<>>) /\ UNCHANGED line
       ELSE IF Content.lines[line] = "empty" THEN Continue(pc, <<>>) /\ line' = line + 1
       ELSE Crash /\ UNCHANGED line
    /\ UNCHANGED <<input, n, flags, rv, any_rv, opened, escape>>

\* Mutant: an empty line is skipped before the end of the file is looked for.
StreamEndSkipped ==
    /\ pc = "lines" /\ Content.kind # "directory" /\ line > Len(Content.lines)
    /\ UNCHANGED vars

\* The end of the stream; a file is closed, and if that fails rv, which is 0,
\* is returned and no further file is read.
StreamEnd ==
    /\ pc = "lines" /\ Content.kind # "directory" /\ line > Len(Content.lines)
    /\ IF debug THEN Crash /\ UNCHANGED <<n, opened>>
       ELSE IF Operands = <<>> THEN Exit(0, <<>>) /\ UNCHANGED <<n, opened>>
       ELSE \/ /\ Continue("open", <<>>)
               /\ n' = n + 1
               /\ opened' = [opened EXCEPT !.ended = @ \cup {n}]
            \/ /\ Exit(0, <<Message>>)
               /\ opened' = [opened EXCEPT !.ended = @ \cup {n}, !.unclosed = @ \cup {n}]
               /\ UNCHANGED n
    /\ UNCHANGED <<input, flags, rv, any_rv, line, escape>>

Step ==
    \/ Main \/ Option \/ EndOfOptions \/ ParseTable
    \/ ArgvIsbn \/ ArgvEnd
    \/ Probe \/ ProbeEnd \/ OpenFile \/ NoMoreFiles
    \/ StreamLine \/ StreamEnd

\* stdio has no say in a process that has ended.
Buffering ==
    /\ pc \notin {"exit", "crash"}
    /\ Flush
    /\ UNCHANGED <<cmd, files, table, pc, n, err_count, debug, verbose, opt_argv,
                   rv, any_rv, line, status, opened, escape>>

Next == Step \/ Buffering

Spec == Init /\ [][Next]_vars

\* One thread; reads return.
FairSpec == Spec /\ WF_vars(Step)

-----------------------------------------------------------------------------
\* With --argv each argument is answered for itself: what has come out of
\* standard output at the end is the hyphenation of every good argument, in
\* order, and of no other, although all share one buffer.
ArgvAnswers ==
    pc = "exit" /\ opt_argv /\ status = 0 /\ table = "good" /\ fds.out # Closed
        /\ (\A o \in 1..Len(cmd.opts) : cmd.opts[o] \notin {"V", "h"}) =>
        LET file == io.files[fds.out]
            answers == {k \in DOMAIN file : said[file[k]].answer # 0}
        IN  /\ {said[file[k]].answer : k \in answers}
                   = {k \in DOMAIN Operands : Operands[k] = "good"}
            /\ \A j, k \in answers : j < k => said[file[j]].answer < said[file[k]].answer

\* No file is opened unless filev_probe found every operand, the first as well
\* as the last.
ProbedFirst ==
    opened.begun # {} =>
        \A k \in 1..Len(Operands) :
            Operands[k] # Stdin => files[Operands[k]].kind # "absent"

\* Exit status 0 says that every file was read to its end, or that an fclose
\* failed, which ends the program as if all were well.
ZeroMeansRead ==
    pc = "exit" /\ status = 0 /\ opened.begun # {} =>
        opened.ended = 1..Len(Operands) \/ opened.unclosed # {}

\* The program ends, whatever the options and files, except that it reads a
\* directory for ever.
Ends ==
    <>(pc \in {"exit", "crash"}) \/ <>(pc = "lines" /\ Content.kind = "directory")

\* "The caller supplies the adrress of a buffer ... large enough to hold the
\* largest possible escape sequence" (show-char.c): the operands shown with
\* --verbose fit in the eight bytes of fshow_str, whatever characters they have.
EscapesFit == escape <= 8
==============================================================================
