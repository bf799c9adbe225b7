--------------------------- MODULE MC_ClusterNodes ---------------------------
(* Model-checking instance of ClusterNodes: two hosts.                     *)
EXTENDS ClusterNodes

CONSTANTS a, b, h1

MCHosts == {a, b}
NoHandlers == {}
OneHandler == {h1}
OneHost == {a}
=============================================================================
