---------------------------- MODULE MCModelPackages ----------------------------
(* The processes may be exchanged, and so may the ids of the installers'.    *)
EXTENDS ModelPackages, TLC

Symmetry == Permutations(Process) \cup Permutations(Pid)
===============================================================================
