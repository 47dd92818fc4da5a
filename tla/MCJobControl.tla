---------------------------- MODULE MCJobControl ----------------------------
(* Model-checking instance of JobControl.  Processes are symmetric, exit   *)
(* codes are not: a signalled process has one of its own.                  *)
EXTENDS JobControl, TLC

Symmetry == Permutations(Pid)

=============================================================================
