--------------------------- MODULE MCTelnetServer ---------------------------
(* Instances of TelnetServer for TLC.  The connections come from one       *)
(* address, and are interchangeable.                                       *)
EXTENDS TelnetServer, TLC

OneAddress == [c \in Conns |-> CHOOSE ip \in IPs : TRUE]

AllSites == Logging

Symmetry == Permutations(Conns)
=============================================================================
