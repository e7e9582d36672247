----------------------------- MODULE MCSettlement -----------------------------
(* Instances of Settlement for TLC. *)
EXTENDS Settlement, TLC

\* Tasks with the same estimate are interchangeable; so are processes.
TaskAndProcSymmetry == Permutations(Tasks) \cup Permutations(Procs)
===============================================================================
