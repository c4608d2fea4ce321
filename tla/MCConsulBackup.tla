--------------------------- MODULE MCConsulBackup ---------------------------
(* Two hosts, whose calls may overlap.                                      *)
EXTENDS ConsulBackup

CONSTANTS h1, h2
=============================================================================
