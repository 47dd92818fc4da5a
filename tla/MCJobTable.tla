---------------------------- MODULE MCJobTable ----------------------------
(* Model-checking instance of JobTable: no process, code or command line   *)
(* is special to the table, so each set is symmetric.                      *)
EXTENDS JobTable, TLC

Symmetry == Permutations(Pid) \cup Permutations(Code) \cup Permutations(Command)

=============================================================================
