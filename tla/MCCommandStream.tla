--------------------------- MODULE MCCommandStream --------------------------
(* CommandStream for TLC.  Content words have the values of codes and of   *)
(* lengths, so that content taken for a header is not always noticed.      *)
EXTENDS CommandStream
=============================================================================
