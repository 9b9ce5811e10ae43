----------------------------- MODULE TextLines ------------------------------
(***************************************************************************)
(* Reading a text file by lines (file/Lines.hpp), reading it whole         *)
(* (file::text::read, cigmar.cpp) and reading the statements that create   *)
(* the tables (loadDatabaseStructureQueries, Database.hpp).  Both of the   *)
(* last two are loops over the lines; loops over one Lines share its       *)
(* stream.                                                                 *)
(***************************************************************************)
EXTENDS Texts

CONSTANTS Newline, Space,  \* the end of a line; any character trim removes
          Inks,         \* the other characters
          Loops,           \* loops over the same Lines
          MaxFile           \* bound on the length of the file

ASSUME LineCharactersDiffer == Newline # Space /\ {Newline, Space} \cap Inks = {}

VARIABLES
  text,   \* the file
  stream, \* ifs: the position, and its state: "good", "eof" or "bad"
  loop,   \* per loop: "idle", "running", "ended" or "thrown"
  seen,   \* per loop, the lines its body was given
  dealt,  \* history: the lines read since the stream was last rewound
  alone   \* history: the loops that no other one has disturbed

linesVars == <<text, stream, loop, seen, dealt, alone>>

LinesInit ==
  /\ text \in UNION {[1..n -> {Newline, Space} \cup Inks] : n \in 0..MaxFile}
  /\ stream = [at |-> 0, state |-> "good"]
  /\ loop = [i \in Loops |-> "idle"]
  /\ seen = [i \in Loops |-> <<>>]
  /\ dealt = <<>>
  /\ alone = {}

\* begin() rewinds the stream and reads nothing: the first line is empty.
BeginLoop(i) ==
  /\ loop[i] = "idle"
  /\ stream' = [at |-> 0, state |-> "good"]
  /\ loop' = [loop EXCEPT ![i] = "running"]
  /\ seen' = [seen EXCEPT ![i] = <<<<>>>>]
  /\ dealt' = <<>>
  /\ alone' = {i} \cup {j \in alone : loop[j] # "running"}
  /\ UNCHANGED text

\* std::getline: a line ends at its newline or at the end of the file, where
\* it fails if there is nothing left.
NextBreak == indexOf(text, <<Newline>>, stream.at)
LineHere  == IF NextBreak = NoPos THEN From(text, stream.at)
             ELSE Cut(text, stream.at, NextBreak - stream.at)

\* Fault: the line behind the last newline is taken to exist.
ReadableToTheEnd == stream.state = "good"

Readable == stream.state = "good" /\ stream.at < Len(text)

BehindLine == IF NextBreak = NoPos THEN [at |-> Len(text), state |-> "eof"]
         ELSE [stream EXCEPT !.at = NextBreak + 1]

\* ++ and the next turn of the loop.
NextLine(i) ==
  /\ loop[i] = "running" /\ Readable
  /\ stream' = BehindLine
  /\ seen' = [seen EXCEPT ![i] = Append(@, LineHere)]
  /\ dealt' = Append(dealt, LineHere)
  /\ alone' = {j \in alone : j = i \/ loop[j] # "running"}
  /\ UNCHANGED <<text, loop>>

\* ++ at the end of the file, and the end of the loop.
EndLoop(i) ==
  /\ loop[i] = "running" /\ ~Readable /\ stream.state # "bad"
  /\ stream' = [stream EXCEPT !.state = "eof"]
  /\ loop' = [loop EXCEPT ![i] = "ended"]
  /\ UNCHANGED <<text, seen, dealt, alone>>

\* ++ when the file cannot be read, now or since.
BreakLoop(i) ==
  /\ loop[i] = "running" /\ stream.state # "eof"
  /\ stream' = [stream EXCEPT !.state = "bad"]
  /\ loop' = [loop EXCEPT ![i] = "thrown"]
  /\ UNCHANGED <<text, seen, dealt, alone>>

LinesNext == \E i \in Loops : BeginLoop(i) \/ NextLine(i) \/ EndLoop(i) \/ BreakLoop(i)

LinesSpec == LinesInit /\ [][LinesNext]_linesVars

(***************************************************************************)
(* What the loops make of the lines.                                       *)
(***************************************************************************)
read(lines) == FlattenSeq(lines)

\* Fault: the statement after the last blank line is forgotten.
QueriesBeforeBlanks(lines) ==
  FoldLeft(LAMBDA so, line :
             IF trim(line, {Space}) # <<>> THEN [so EXCEPT !.current = @ \o line]
             ELSE [out |-> IF trim(so.current, {Space}) = <<>> THEN so.out
                           ELSE Append(so.out, trim(so.current, {Space})),
                   current |-> <<>>],
           [out |-> <<>>, current |-> <<>>], lines).out

\* The statement so far goes out at a blank line and at the end.
Added(out, current) ==
  IF trim(current, {Space}) = <<>> THEN out ELSE Append(out, trim(current, {Space}))

loadDatabaseStructureQueries(lines) ==
  LET Turn(so, line) ==
        IF trim(line, {Space}) # <<>> THEN [so EXCEPT !.current = @ \o line]
        ELSE [out |-> Added(so.out, so.current), current |-> <<>>]
      end == FoldLeft(Turn, [out |-> <<>>, current |-> <<>>], lines)
  IN Added(end.out, end.current)

(***************************************************************************)
(* Properties.                                                             *)
(***************************************************************************)
\* The lines of a file: what newlines end, and what is left behind the last.
LinesOf(file) ==
  LET pieces == split(file, <<Newline>>)
  IN IF Last(pieces) = <<>> THEN Front(pieces) ELSE pieces

\* Every line since the last begin() goes to one loop, in order, whether the
\* last one has a newline or not.  A loop that nothing disturbed gets an empty
\* line and then those lines, and when it ends it has had all of them.
LinesInOrder ==
  /\ IsPrefix(dealt, LinesOf(text))
  /\ \A i \in alone :
       /\ loop[i] = "running" => seen[i] = <<<<>>>> \o dealt
       /\ loop[i] = "ended" => seen[i] = <<<<>>>> \o LinesOf(text)

\* The blocks of a file: the longest runs of lines that are not blank.
Blocks(lines) ==
  LET blank(i) == i \notin DOMAIN lines \/ trim(lines[i], {Space}) = <<>>
  IN {block \in (DOMAIN lines) \X (DOMAIN lines) :
        /\ block[1] <= block[2] /\ \A i \in block[1]..block[2] : ~blank(i)
        /\ blank(block[1] - 1) /\ blank(block[2] + 1)}

\* There is a statement per block, in the order of the file: its lines, without
\* the newlines that ended them and without the blanks around the whole.
IsQueries(queries, file) ==
  LET lines == LinesOf(file)
  IN /\ Len(queries) = Cardinality(Blocks(lines))
     /\ \A block \in Blocks(lines) :
          LET rank == Cardinality({other \in Blocks(lines) : other[1] <= block[1]})
          IN queries[rank] = trim(FlattenSeq(SubSeq(lines, block[1], block[2])), {Space})
     /\ \A i \in DOMAIN queries : {Head(queries[i]), Last(queries[i])} \subseteq Inks

\* A loop that ends undisturbed makes of the file the statements it holds, and
\* read its text without the ends of lines.
QueriesAreBlocks ==
  \A i \in alone : loop[i] = "ended" =>
    /\ IsQueries(loadDatabaseStructureQueries(seen[i]), text)
    /\ read(seen[i]) = SelectSeq(text, LAMBDA c : c # Newline)
=============================================================================
