-------------------------------- MODULE MCTracer --------------------------------
(***************************************************************************)
(* Instances of Tracer for TLC.  The spanners are interchangeable.         *)
(***************************************************************************)
EXTENDS Tracer, TLC

CONSTANTS a, b

Symmetry == Permutations(Spanners)
================================================================================
