---------------------------- MODULE MCSshAuth ----------------------------
(* Instances of SshAuth for TLC.  A connection comes from one address or   *)
(* from one that is not known; connections are interchangeable, and so are *)
(* the names.                                                              *)
EXTENDS SshAuth, TLC

Symmetry == Permutations(Conns) \cup Permutations(Users)
=============================================================================
