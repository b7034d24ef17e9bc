---------------------------- MODULE PublishedRoutes ----------------------------
(***************************************************************************)
(* What route publication promises to a device, whatever the protocol: the *)
(* versions of its route are published one after the other, and a gateway  *)
(* that accepts its connections uses a published version, never an older   *)
(* one than it has used before.  Which versions a gateway skips, and when  *)
(* it stops and resumes service, is left open.                             *)
(***************************************************************************)
EXTENDS Naturals

CONSTANT Gateways

VARIABLES published,    \* the last published version, 0: none
          serving,      \* is the gateway accepting connections
          version,      \* the version it holds
          highest       \* the highest version it has ever served

vars == <<published, serving, version, highest>>

Init ==
    /\ published \in Nat
    /\ serving = [g \in Gateways |-> FALSE]
    /\ version = [g \in Gateways |-> 0]
    /\ highest = [g \in Gateways |-> 0]

Publish ==
    /\ published' = published + 1
    /\ UNCHANGED <<serving, version, highest>>

\* A gateway that does not serve may hold any published version, also an old one.
Withdraw(g) ==
    /\ \E v \in 0 .. published : version' = [version EXCEPT ![g] = v]
    /\ serving' = [serving EXCEPT ![g] = FALSE]
    /\ UNCHANGED <<published, highest>>

Serve(g) ==
    /\ \E v \in highest[g] .. published :
          /\ version' = [version EXCEPT ![g] = v]
          /\ highest' = [highest EXCEPT ![g] = v]
    /\ serving' = [serving EXCEPT ![g] = TRUE]
    /\ UNCHANGED published

\* A version is taken up and service stops at once.
ServeBriefly(g) ==
    /\ \E v \in highest[g] .. published :
          /\ version' = [version EXCEPT ![g] = v]
          /\ highest' = [highest EXCEPT ![g] = v]
    /\ serving' = [serving EXCEPT ![g] = FALSE]
    /\ UNCHANGED published

Next == Publish \/ \E g \in Gateways : Withdraw(g) \/ Serve(g) \/ ServeBriefly(g)

Spec == Init /\ [][Next]_vars
===============================================================================
