--------------------------- MODULE MCProxySession ---------------------------
(* Two hosts, a plugin that caches its connection (postgres) and one that   *)
(* fetches its tunnel at every use (redis), in every kind of session.       *)
EXTENDS ProxySession

CONSTANTS h1, h2, postgres, redis

MCSessions == [lifecycle : {"pytest", "gossip"}, drops : BOOLEAN]
=============================================================================
