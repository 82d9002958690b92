------------------------------ MODULE MCCompositor ------------------------------
(* Model-checking instance of Compositor.  Bounds: N layers and MaxRuns    *)
(* runs of one session; three layers have a first, a middle and a last.    *)
EXTENDS Compositor
=============================================================================
