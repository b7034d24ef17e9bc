---------------------------- MODULE MCIngressPlane ----------------------------
(* IngressPlane on a small instance: d1 is in the middle of its migration, with *)
(* a legacy primary port and a 2022-blake3 port; d2, of the former HTTPS        *)
(* ingress, has a route and no port; d3 is to be created.                       *)
EXTENDS IngressPlane, TLC

CONSTANTS d1, d2, d3

MCDevices == {d1, d2, d3}
MCPorts == 1 .. 3

MCIngress(p, m, primary) ==
    [port |-> p, method |-> m, password |-> [method |-> m, by |-> None],
     primary |-> primary, at |-> 0]

MCInitialDevices ==
    (d1 :> [port |-> 1, method |-> "aes-256-gcm",
            password |-> [method |-> "aes-256-gcm", by |-> None],
            ingresses |-> {MCIngress(1, "aes-256-gcm", TRUE),
                           MCIngress(2, "2022-blake3-aes-128-gcm", FALSE)}])
    @@ (d2 :> [port |-> 0, method |-> "aes-256-gcm",
               password |-> [method |-> "aes-256-gcm", by |-> None], ingresses |-> {}])
    @@ (d3 :> None)

MCInitialVersions == (d1 :> 1) @@ (d2 :> 1) @@ (d3 :> 0)

MCRequests == Requests

Ask(d, p) == [device |-> d, port |-> p, method |-> "2022-blake3-aes-128-gcm", password |-> None]

\* With the password that port 2 of d1 has, or one for another method.
AskWith(d, p, m) == [Ask(d, p) EXCEPT !.password = [method |-> m, by |-> None]]

\* Requests may find the device or the port missing or taken, and bring passwords; port
\* 2 may move from d1 to d2, or be deleted and added again as it was.
MCAsks ==
    [r \in Requests |->
        CASE r \in CreateRequests -> {Ask(d3, 3)}
          [] r \in AddRequests -> {AskWith(d1, 2, "2022-blake3-aes-128-gcm"), Ask(d2, 2),
                                   AskWith(d2, 2, "aes-256-gcm"), Ask(d3, 3)}
          [] r \in DeleteRequests -> {Ask(d1, 1), Ask(d1, 2), Ask(d2, 2)}
          [] r \in RotateRequests -> {Ask(d1, 1), Ask(d3, 1)}
          [] OTHER -> {Ask(d1, 1), Ask(d2, 1)}]

Symmetry == Permutations(Gateways) \union Permutations(AddRequests)
===============================================================================
