---------------------------- MODULE MCHrcSched ----------------------------
(* Instances of HrcSched: tasks are interchangeable, workers are not (the   *)
(* master serves the waiting worker of lowest index).                       *)
EXTENDS HrcSched, TLC

TaskSymmetry == Permutations(Tasks)

=============================================================================
