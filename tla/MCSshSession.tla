---------------------------- MODULE MCSshSession ----------------------------
(* Instances of SshSession for TLC.                                        *)
EXTENDS SshSession

AllKinds == {"command", "exit", "blank"}

(* Only commands: the count restarts at the limit and nowhere else.        *)
CommandsOnly == {"command"}
=============================================================================
