-------------------------- MODULE MCFillReconcile --------------------------
(* Instances of FillReconcile for TLC.                                      *)
EXTENDS FillReconcile, TLC

CONSTANTS a, b
============================================================================
