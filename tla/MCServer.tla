------------------------------ MODULE MCServer ------------------------------
(* The server for TLC.                                                      *)
EXTENDS Server
=============================================================================
