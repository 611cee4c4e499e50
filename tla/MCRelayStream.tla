--------------------------- MODULE MCRelayStream ---------------------------
(* Instances of RelayStream for TLC: sizes only, given by the .cfg files.    *)
EXTENDS RelayStream

=============================================================================
