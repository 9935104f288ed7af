----------------------------- MODULE MCScanner -----------------------------
(* Small instances of Scanner.                                             *)
EXTENDS Scanner

AllModes == {"stdout", "socket", "debug"}
SocketOnly == {"socket"}
=============================================================================
