---------------------------- MODULE MCConnection ---------------------------
(* Instances of Connection for TLC.                                          *)
EXTENDS Connection

\* Two samples, in one chunk or in two.
TwoSamples == <<"a", "b">>

=============================================================================
