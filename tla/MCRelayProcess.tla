--------------------------- MODULE MCRelayProcess ---------------------------
(* Two commands, of one version or another, find nothing or a relay of an    *)
(* older installation; a checkout is served by hand.                        *)
EXTENDS RelayProcess, TLC

CONSTANTS c1, c2   \* the clients

Installed(version, entry) == [packaged |-> TRUE, version |-> version, entry |-> entry, made |-> 2]
MCBuildOf == (c1 :> Installed(1, 1)) @@ (c2 :> Installed(2, 1))
MCEarlier == {[Installed(1, 1) EXCEPT !.made = 1]}
MCForeground == {[packaged |-> FALSE, version |-> 2, entry |-> 3, made |-> 2]}
=============================================================================
