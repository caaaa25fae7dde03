--------------------------- MODULE MCSessionCodes ---------------------------
(* One session for TLC: two devices, one end request, one check-in. *)
EXTENDS SessionCodes, TLC
=============================================================================
