------------------------- MODULE MCBatchDispatcher -------------------------
(* Instances of BatchDispatcher for TLC.                                     *)
EXTENDS BatchDispatcher, TLC

\* Calls differ only in when they are made and with which key, keys only in
\* being different.
Symmetry == Permutations(Requests) \union Permutations(Keys)

=============================================================================
