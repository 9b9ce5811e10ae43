--------------------------- MODULE MCWindowEvents ---------------------------
(* Instances of WindowEvents and of FocusCalls, the same window seen event *)
(* by event and call by call: which one a behaviour is about is chosen in  *)
(* its first state.  Widgets are interchangeable.                          *)
EXTENDS WindowEvents, FocusCalls, TLC

VARIABLE subject

EitherInit ==
  /\ subject \in {"events", "calls"}
  /\ Init
  /\ CallInit /\ (subject # "calls" => inside = {})

EitherNext ==
  /\ UNCHANGED subject
  /\ \/ subject = "events" /\ Next /\ UNCHANGED focusVars
     \/ subject = "calls" /\ CallNext /\ UNCHANGED vars

EitherSpec == EitherInit /\ [][EitherNext]_<<subject, vars, focusVars>>

Symmetry == Permutations(Widget)
=============================================================================
