-------------------------- MODULE MCTunnelManager --------------------------
(* Small instances of TunnelManager: the main thread of the session and    *)
(* worker threads of a test, kafka being the service workers race on.      *)
EXTENDS TunnelManager, TLC

CONSTANTS main, w1, w2, kafka, mongo

\* The main thread uses every service, the workers share one of them.
MCUses == [t \in Threads |-> IF t = main THEN Services ELSE {kafka}]

\* Tunnel identities are interchangeable.
TunnelSymmetry == Permutations(Tunnels)
=============================================================================
