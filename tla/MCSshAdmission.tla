-------------------------- MODULE MCSshAdmission --------------------------
(* Instances of SshAdmission for TLC.                                      *)
EXTENDS SshAdmission
=============================================================================
