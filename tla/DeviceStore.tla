------------------------------ MODULE DeviceStore ------------------------------
(***************************************************************************)
(* The rows of devices and device_ingresses.  A device has the ports on    *)
(* which its Shadowsocks clients may come in, each with a method and a     *)
(* password; one of them, the primary one, is repeated in the devices row. *)
(* A store operation is one step.  A password is the method it was drawn   *)
(* for and the request that drew it: a 2022-blake3 key has a fixed length, *)
(* the legacy method takes any password (ssconfig.Validate).               *)
(***************************************************************************)
EXTENDS Naturals, FiniteSets

CONSTANTS Devices,
          Ports,                \* ports a request may name
          DeviceRequests,       \* the requests that bring passwords
          None,                 \* "nothing": no row, no request, no listener
          InitialDevices        \* the devices before the first request, or None

Methods == {"aes-256-gcm", "2022-blake3-aes-128-gcm"}
Passwords == [method : Methods, by : DeviceRequests \union {None}]
\* device_ingresses: at stands for created_at
Ingresses == [port : Ports, method : Methods, password : Passwords,
              primary : BOOLEAN, at : Nat]
\* model.Device; port 0: the device has none (a device of the former HTTPS ingress)
DeviceValues == [port : Ports \union {0}, method : Methods, password : Passwords,
                 ingresses : SUBSET Ingresses]

\* ssconfig.Validate
ValidCredential(method, password) ==
    method = "aes-256-gcm" \/ password.method = method

Primaries(v) == {i \in v.ingresses : i.primary}

\* A device's row repeats its primary ingress; a device without port has none.
MirrorsPrimary(v) ==
    IF v.port = 0 THEN Primaries(v) = {}
    ELSE \E i \in Primaries(v) :
            /\ Primaries(v) = {i}
            /\ <<v.port, v.method, v.password>> = <<i.port, i.method, i.password>>

PortsOf(v) == {i.port : i \in v.ingresses}

\* UNIQUE (port), over all devices.
PortsUnique(known) ==
    \A d, e \in Devices : known[d] # None /\ known[e] # None =>
        \A i \in known[d].ingresses, j \in known[e].ingresses :
            i.port = j.port => d = e /\ i = j

ASSUME DeviceAssumption ==
    /\ Ports \subseteq Nat \ {0}
    /\ None \notin DeviceRequests /\ None \notin DeviceValues /\ None \notin Devices
    /\ InitialDevices \in [Devices -> DeviceValues \union {None}]
    /\ PortsUnique(InitialDevices)
    /\ \A d \in Devices : InitialDevices[d] # None =>
          /\ MirrorsPrimary(InitialDevices[d])
          /\ \A i \in InitialDevices[d].ingresses : ValidCredential(i.method, i.password)

VARIABLE device                 \* the device with its rows, None if there is none

\* Slice order of loadDeviceIngresses: the primary one first, then by age.
Before(i, j) ==
    \/ i.primary /\ ~j.primary
    \/ i.primary = j.primary /\ (i.at < j.at \/ (i.at = j.at /\ i.port < j.port))

Oldest(S) == CHOOSE i \in S : \A j \in S : i = j \/ Before(i, j)

\* Device.EffectiveIngresses, DeviceRoute.EffectiveIngresses
EffectiveIngresses(v) ==
    IF v.ingresses # {} THEN v.ingresses
    ELSE IF v.port = 0 THEN {}
    ELSE {[port |-> v.port, method |-> v.method, password |-> v.password,
           primary |-> TRUE, at |-> 0]}

PortTaken(p) ==
    \E d \in Devices : device[d] # None /\ (p = device[d].port \/ p \in PortsOf(device[d]))

-------------------------------------------------------------------------------
(* Operations of the store *)

GetDevice(d) == device[d]

CreateConflicts(d, v) == device[d] # None \/ PortTaken(v.port)

CreateDevice(d, v) ==
    /\ ~CreateConflicts(d, v)
    /\ device' = [device EXCEPT ![d] = [v EXCEPT !.ingresses = EffectiveIngresses(v)]]

\* Mutant: the device_ingresses row of the primary ingress is not updated.
SetPasswordRowOnly(v, pw) == [v EXCEPT !.password = pw]

\* Mutant: every device_ingresses row of the device takes the password.
SetPasswordEverywhere(v, pw) ==
    [v EXCEPT !.password = pw, !.ingresses = {[i EXCEPT !.password = pw] : i \in @}]

\* The devices row and the primary row of device_ingresses take the password.
SetPassword(v, pw) ==
    [v EXCEPT !.password = pw,
              !.ingresses = {IF i.primary THEN [i EXCEPT !.password = pw] ELSE i : i \in @}]

UpdateDeviceCredential(d, pw) ==
    /\ device[d] # None
    /\ device' = [device EXCEPT ![d] = SetPassword(@, pw)]

AddConflicts(p) ==
    \E d \in Devices : device[d] # None /\ p \in PortsOf(device[d])

AddDeviceIngress(d, i) ==
    /\ device[d] # None
    /\ ~AddConflicts(i.port)
    /\ device' = [device EXCEPT ![d].ingresses = @ \union {[i EXCEPT !.primary = FALSE]}]

\* The oldest remaining ingress becomes the primary one, in both tables.
Promote(v, rest) ==
    LET n == Oldest(rest) IN
    [v EXCEPT !.port = n.port, !.method = n.method, !.password = n.password,
              !.ingresses = (rest \ {n}) \union {[n EXCEPT !.primary = TRUE]}]

WithoutPort(v, p) ==
    LET rest == {i \in v.ingresses : i.port # p} IN
    IF \E i \in v.ingresses : i.port = p /\ i.primary THEN Promote(v, rest)
    ELSE [v EXCEPT !.ingresses = rest]

\* The last ingress is not deleted, and the port has to be the device's.
DeleteConflicts(d, p) ==
    \/ device[d] = None
    \/ Cardinality(device[d].ingresses) <= 1
    \/ p \notin PortsOf(device[d])

DeleteDeviceIngress(d, p) ==
    /\ ~DeleteConflicts(d, p)
    /\ device' = [device EXCEPT ![d] = WithoutPort(@, p)]
===============================================================================
