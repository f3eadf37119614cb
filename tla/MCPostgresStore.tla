--------------------------- MODULE MCPostgresStore ---------------------------
(* Two calls, two creations and one save, over two clients.  No symmetry:   *)
(* a liveness property is checked.                                          *)
EXTENDS PostgresStore

CONSTANTS a1, a2, s1, k1, k2
=============================================================================
