--------------------------- MODULE CommandOutput ----------------------------
(***************************************************************************)
(* cigmar::sys::run (cigmar.cpp): the output of a command, read through a  *)
(* pipe while the command runs (ffprobe and ffmpeg, ffmpeg.cpp).  The      *)
(* command is a process of its own, which writes, closes its output and    *)
(* ends when it likes.                                                     *)
(***************************************************************************)
EXTENDS Integers, SequencesExt

CONSTANTS LineFeed, Nul, Symbols,
          BufferLength,  \* CIGMAR_SYS_RUN_BUFFER_LENGTH
          PipeSize,      \* what the system keeps before the command must wait
          MaxOutput,     \* bound on what a command writes
          MaxFailures    \* bound on reads that fail

ASSUME BufferHoldsACharacter == BufferLength \in Nat /\ BufferLength > 1

VARIABLES
  caller,   \* "outside", "reading" or "closing", and then what became of it
  output,   \* String out
  buffer,   \* what the running fgets() has stored in char buffer[]
  pipe,     \* what the command wrote and nobody read
  command,  \* "none", "writing", "silent" once it closed its output, "over"
  status,   \* its exit status; 0 is success
  written,  \* history: all that it wrote
  failures  \* history: how many reads failed

runVars == <<caller, output, buffer, pipe, command, status, written, failures>>

Ends == {"returned", "cannot open", "cannot close", "command failed"}

RunInit ==
  /\ caller = "outside" /\ command = "none"
  /\ output = <<>> /\ buffer = <<>> /\ pipe = <<>> /\ written = <<>>
  /\ status = 0 /\ failures = 0

(***************************************************************************)
(* The command.                                                            *)
(***************************************************************************)
Write(c) ==
  /\ command = "writing"
  /\ Len(pipe) < PipeSize /\ Len(written) < MaxOutput
  /\ pipe' = Append(pipe, c)
  /\ written' = Append(written, c)
  /\ UNCHANGED <<caller, output, buffer, command, status, failures>>

CloseOutput ==
  /\ command = "writing"
  /\ command' = "silent"
  /\ UNCHANGED <<caller, output, buffer, pipe, status, written, failures>>

Exit ==
  /\ command \in {"writing", "silent"}
  /\ command' = "over"
  /\ status' \in {0, 1}
  /\ UNCHANGED <<caller, output, buffer, pipe, written, failures>>

CommandStep == Exit \/ CloseOutput \/ \E c \in Symbols \cup {LineFeed, Nul} : Write(c)

(***************************************************************************)
(* The caller.                                                             *)
(***************************************************************************)
\* popen()
Open ==
  /\ caller = "outside"
  /\ \/ caller' = "reading" /\ command' = "writing"
     \/ caller' = "cannot open" /\ UNCHANGED command
  /\ UNCHANGED <<output, buffer, pipe, status, written, failures>>

\* out << buffer: the buffer is a C string.
UntilNul(s) == SubSeq(s, 1, Min({i \in 1..Len(s) : s[i] = Nul} \cup {Len(s) + 1}) - 1)

\* fgets() stores characters until the buffer is full or a line ends.
LineComplete ==
  buffer # <<>> /\ (Last(buffer) = LineFeed \/ Len(buffer) = BufferLength - 1)

Store ==
  /\ caller = "reading" /\ ~LineComplete /\ pipe # <<>>
  /\ buffer' = Append(buffer, Head(pipe))
  /\ pipe' = Tail(pipe)
  /\ UNCHANGED <<caller, output, command, status, written, failures>>

ReadLine ==
  /\ caller = "reading" /\ LineComplete
  /\ output' = output \o UntilNul(buffer)
  /\ buffer' = <<>>
  /\ UNCHANGED <<caller, pipe, command, status, written, failures>>

OutputEnded == caller = "reading" /\ ~LineComplete /\ pipe = <<>> /\ command \in {"silent", "over"}

\* Fault: the end is looked for before what was read last is taken.
ReadEndDropped ==
  /\ OutputEnded
  /\ caller' = "closing"
  /\ buffer' = <<>>
  /\ UNCHANGED <<output, pipe, command, status, written, failures>>

\* Fault: the loop asks ferror() where it asks feof().
ReadEndUnseen ==
  /\ OutputEnded
  /\ output' = output \o UntilNul(buffer)
  /\ buffer' = <<>>
  /\ UNCHANGED <<caller, pipe, command, status, written, failures>>

\* fgets() meets the end, with or without a last line, and feof() says so.
ReadEnd ==
  /\ OutputEnded
  /\ caller' = "closing"
  /\ output' = output \o UntilNul(buffer)
  /\ buffer' = <<>>
  /\ UNCHANGED <<pipe, command, status, written, failures>>

\* fgets() fails: what it has stored is not looked at, and the loop goes on.
ReadFails ==
  /\ caller = "reading" /\ failures < MaxFailures
  /\ failures' = failures + 1
  /\ buffer' = <<>>
  /\ UNCHANGED <<caller, output, pipe, command, status, written>>

\* FileHandler::close(), which is pclose(): it waits for the command, and for
\* its status, which it may fail to get.
Close ==
  /\ caller = "closing" /\ command = "over"
  /\ caller' \in {"cannot close", IF status = 0 THEN "returned" ELSE "command failed"}
  /\ UNCHANGED <<output, buffer, pipe, command, status, written, failures>>

\* What the thread in run does next as soon as it can.
Drain == Store \/ ReadLine \/ ReadEnd \/ Close

RunNext == CommandStep \/ Open \/ Drain \/ ReadFails

RunSpec == RunInit /\ [][RunNext]_runVars /\ WF_runVars(Drain)

(***************************************************************************)
(* Properties.                                                             *)
(***************************************************************************)
\* Where the line of the i-th character begins, and its piece of that line, when
\* lines are cut into pieces as long as the buffer.
LineStart(s, i) == 1 + Max({0} \cup {j \in 1..(i - 1) : s[j] = LineFeed})
PieceStart(s, i) == i - ((i - LineStart(s, i)) % (BufferLength - 1))

\* What is kept of an output: of every piece, what stands before its first NUL.
Kept(s) == {i \in DOMAIN s : Nul \notin {s[j] : j \in PieceStart(s, i)..i}}

\* And that, in order.
Whole(s) ==
  [k \in 1..Cardinality(Kept(s)) |->
     s[CHOOSE i \in Kept(s) : Cardinality({j \in Kept(s) : j <= i}) = k]]

\* What has left the buffer.
Taken == SubSeq(written, 1, Len(written) - Len(pipe) - Len(buffer))

\* run answers all that the command wrote, however writing and reading alternate
\* and wherever lines and the output end, and only once the command is over and
\* has succeeded; but for what follows a NUL, and for a read that failed, after
\* which a part may be missing and nobody is told (feof is asked, ferror is not;
\* cigmar.cpp, 280 to 292).
OutputIsWhole ==
  /\ failures = 0 => output = Whole(Taken)
  /\ caller \in {"returned", "command failed"} =>
       /\ command = "over" /\ pipe = <<>> /\ buffer = <<>>
       /\ caller = "returned" <=> status = 0

\* run drains the pipe: a command never waits for ever to write, and if every
\* command ends, so does run, as long as reads do not go on failing (280, 285).
RunsEnd ==
  /\ Len(pipe) = PipeSize ~> Len(pipe) < PipeSize
  /\ (command = "writing" ~> command = "over") => (caller = "reading" ~> caller \in Ends)
=============================================================================
