------------------------------ MODULE MCQtShm -------------------------------
(* Model checking QtShm: the processes run the same program, and only safety *)
(* is checked, so states that differ by who is who count once.               *)
EXTENDS QtShm, TLC

Symmetry == Permutations(Procs)

=============================================================================
