--------------------------- MODULE MCClusterSession ---------------------------
(* Two hosts, one of them a master or both.                                 *)
EXTENDS ClusterSession

CONSTANTS h1, h2

Kind(lifecycle, drops, masters, budget) ==
  [lifecycle |-> lifecycle, drops |-> drops, masters |-> masters, faults |-> budget]

MCSessions ==
  {Kind("gossip", FALSE, {h1, h2}, 1), Kind("gossip", TRUE, {h1}, 1),
   Kind("pytest", FALSE, {h1}, 2)}

\* Nothing goes wrong.
MCFaultless == {Kind("pytest", FALSE, {h1}, 0)}
=============================================================================
