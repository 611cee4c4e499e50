---------------------------- MODULE MCStreamPipe ---------------------------
(* Instances of StreamPipe for TLC.                                          *)
EXTENDS StreamPipe

\* The first stream has no audio, the second one chunk.
FewChunks == [s \in Streams |-> s - 1]

=============================================================================
