------------------------------ MODULE MCEndings ------------------------------
(* Instances of VideoFolder and of CommandOutput, for what must end.  They *)
(* share nothing: which one a behaviour is about is chosen in its first    *)
(* state.                                                                  *)
EXTENDS VideoFolder, CommandOutput

VARIABLE subject

EitherInit == subject \in {"folder", "commands"} /\ Init /\ RunInit

EitherNext ==
  /\ UNCHANGED subject
  /\ \/ subject = "folder" /\ Next /\ UNCHANGED runVars
     \/ subject = "commands" /\ RunNext /\ UNCHANGED vars

EitherSpec ==
  /\ EitherInit /\ [][EitherNext]_<<subject, vars, runVars>>
  /\ WF_vars(subject = "folder" /\ Operation /\ UNCHANGED runVars)
  /\ WF_runVars(subject = "commands" /\ Drain /\ UNCHANGED vars)
=============================================================================
