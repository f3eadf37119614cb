---------------------------- MODULE MCJsonStore ----------------------------
(* Three updates, one of which throws, over a file that starts missing.  No *)
(* symmetry: a liveness property is checked.                                *)
EXTENDS JsonStore

CONSTANTS u1, u2, u3
=============================================================================
