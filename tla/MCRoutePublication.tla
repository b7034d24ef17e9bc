--------------------------- MODULE MCRoutePublication ---------------------------
(* RoutePublication on small instances. *)
EXTENDS RoutePublication, TLC

Symmetry == Permutations(Gateways) \union Permutations(RouteRequests)
===============================================================================
