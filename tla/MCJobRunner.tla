---------------------------- MODULE MCJobRunner -----------------------------
(* Constants for model-checking JobRunner on small instances.              *)
EXTENDS JobRunner

CONSTANTS j1, j2, j3, b1, b2, r1
=============================================================================
