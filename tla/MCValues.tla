------------------------------ MODULE MCValues ------------------------------
(* Instances of Paths, TextLines, Numbers and Positions.  They share       *)
(* nothing: which one a behaviour is about is chosen in its first state,   *)
(* and the others stay at the values given here.                           *)
EXTENDS Paths, TextLines, Numbers, Positions

CONSTANTS letter, ink

VARIABLE subject

\* One letter is enough, for names differ by length too.
SomeLetters == {letter}
SomeParents == {<<Sep>>, <<Sep, letter>>, <<Sep, letter, Sep, letter>>}
SomeInks == {ink}
SomeGarbage == {0, 3}

EitherInit ==
  /\ subject \in {"paths", "lines", "numbers", "positions"}
  /\ IF subject = "paths" THEN Init ELSE path = <<>>
  /\ LinesInit /\ (subject # "lines" => text = <<>>)
  /\ IF subject = "numbers" THEN NumbersInit ELSE job = FractionJob(1, 0, 1)
  /\ PosInit

EitherNext ==
  /\ UNCHANGED subject
  /\ \/ subject = "paths" /\ Next /\ UNCHANGED <<linesVars, job, posVars>>
     \/ subject = "lines" /\ LinesNext /\ UNCHANGED <<path, job, posVars>>
     \/ subject = "numbers" /\ NumbersNext /\ UNCHANGED <<path, linesVars, posVars>>
     \/ subject = "positions" /\ PosNext /\ UNCHANGED <<path, linesVars, job>>

EitherSpec ==
  EitherInit /\ [][EitherNext]_<<subject, path, linesVars, job, posVars>>
=============================================================================
