------------------------- MODULE MCMandateLifecycle -------------------------
(* Two concurrent requests, two wallets and a handful of transactions.     *)
(* Requests and transactions are interchangeable; wallets are not.         *)
EXTENDS MandateLifecycle, TLC

CONSTANTS h1, h2, x1, x2, x3, w1, w2

Symmetry == Permutations(Handlers) \cup Permutations(Txs)
=============================================================================
