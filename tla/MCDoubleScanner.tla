-------------------------- MODULE MCDoubleScanner --------------------------
(* Small instances of DoubleScanner.                                       *)
EXTENDS DoubleScanner

AllModes == {"stdout", "socket", "debug"}
StdoutOnly == {"stdout"}
=============================================================================
