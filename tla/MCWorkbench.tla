---------------------------- MODULE MCWorkbench ----------------------------
(* One tab, one request at a time, and three transactions: two activations *)
(* and a revocation, say.  No symmetry: a liveness property is checked.     *)
EXTENDS Workbench

CONSTANTS h1, x1, x2, x3, w1, w2
=============================================================================
