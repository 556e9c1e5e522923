----------------------------- MODULE GrantBook -----------------------------
(***************************************************************************)
(* What the servers rely on in AuthManager (app/auth_manager.py): a tally  *)
(* of the login attempts of each address and the set of the addresses that *)
(* are granted a shell.  When an attempt is granted is left open between   *)
(* BruteMin and BruteMax attempts; thresholds and times are not seen.      *)
(***************************************************************************)
EXTENDS Integers

CONSTANTS
    IPs,       \* peer addresses
    BruteMin,  \* no attempt before the BruteMin-th earns a grant
    BruteMax   \* the BruteMax-th has it

VARIABLES
    tally,    \* attempts of an address since it was last forgotten
    granted   \* the addresses is_granted says yes to

bookVars == <<tally, granted>>

Init ==
    /\ tally = [ip \in IPs |-> 0]
    /\ granted = {}

(* register_attempt: the attempt is counted; a grant is given when it is   *)
(* due and never taken back.                                               *)
Attempt(ip) ==
    /\ tally' = [tally EXCEPT ![ip] = @ + 1]
    /\ granted' \in {granted, granted \cup {ip}}
    /\ ip \in granted' \ granted => tally'[ip] >= BruteMin
    /\ tally'[ip] >= BruteMax => ip \in granted'

(* cleanup_old_data: the tally and the grant of an address go together.    *)
Forget(gone) ==
    /\ tally' = [ip \in IPs |-> IF ip \in gone THEN 0 ELSE tally[ip]]
    /\ granted' = granted \ gone

Next ==
    \/ \E ip \in IPs : Attempt(ip)
    \/ \E gone \in SUBSET IPs : Forget(gone)

Spec == Init /\ [][Next]_bookVars
=============================================================================
