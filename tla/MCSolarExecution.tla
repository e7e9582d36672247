--------------------------- MODULE MCSolarExecution ---------------------------
(* Instances of SolarExecution for TLC.                                    *)
EXTENDS SolarExecution, TLC

CONSTANTS u1, u2, r1, r2, p1, p2

OneUser == [r \in {r1, r2} |-> u1]
TwoUsers == (r1 :> u1) @@ (r2 :> u2)
OneRequest == (r1 :> u1)

ProcSymmetry == Permutations(Procs)
\* Both requests are of one user.
OneUserSymmetry == Permutations(Procs) \cup Permutations(Requests)
===============================================================================
