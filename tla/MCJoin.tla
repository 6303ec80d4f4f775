------------------------------- MODULE MCJoin ------------------------------
(* Join for model checking: devices and names are interchangeable.          *)
EXTENDS Join, TLC

Symmetry == Permutations(Devices) \cup Permutations(Names)

=============================================================================
