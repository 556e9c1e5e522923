--------------------------- MODULE MCAuthManager ---------------------------
(* Instances of AuthManager for TLC.                                       *)
EXTENDS AuthManager
=============================================================================
