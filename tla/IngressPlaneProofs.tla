-------------------------- MODULE IngressPlaneProofs --------------------------
(***************************************************************************)
(* For any devices, ports, gateways and requests: the rows of the devices  *)
(* stay consistent, the listeners of a synchronised gateway match its      *)
(* table, what is stored can be served, the gateways hold the last change  *)
(* of a device that was answered with success, and a gateway that stays    *)
(* synchronised keeps serving what a device keeps.  Commits may come after *)
(* their handler has returned, a SNAPSHOT may be read while the ingresses  *)
(* change, and clients may choose passwords that were used before.         *)
(***************************************************************************)
EXTENDS IngressPlane, FiniteSetTheorems, WellFoundedInduction, TLAPS

-------------------------------------------------------------------------------
(* The order of a device's ingresses *)

LEMMA LeastNumber ==
    ASSUME NEW S \in SUBSET Nat, S # {}
    PROVE  \E n \in S : \A m \in S : n <= m
  <1> DEFINE R == OpToRel(<, Nat)
  <1>1. \A m, n \in Nat : m < n => <<m, n>> \in R
    BY DEF OpToRel
  <1>2. IsWellFoundedOn(R, Nat)
    BY NatLessThanWellFounded
  <1> HIDE DEF R
  <1>3. PICK n \in S : \A m \in S : <<m, n>> \notin R
    BY <1>2, WFMin
  <1>4. \A m \in S : ~(m < n)
    BY <1>1, <1>3
  <1> QED
    BY <1>4

\* No two ingresses of a set have the same port.
OwnPorts(S) == \A i, j \in S : i.port = j.port => i = j

\* The order by age and port has a first element.
LEMMA FirstByAge ==
    ASSUME NEW S \in SUBSET Ingresses, S # {}, OwnPorts(S)
    PROVE  \E i \in S : \A j \in S : i = j \/ i.at < j.at \/ (i.at = j.at /\ i.port < j.port)
  <1>0. \A i \in S : i.at \in Nat /\ i.port \in Nat
    BY DeviceAssumption DEF Ingresses
  <1> DEFINE A == {i.at : i \in S}
  <1>1. PICK a \in A : \A b \in A : a <= b
    BY <1>0, LeastNumber
  <1> DEFINE P == {i.port : i \in {j \in S : j.at = a}}
  <1>2. P \in SUBSET Nat /\ P # {}
    BY <1>0, <1>1
  <1> HIDE DEF P
  <1>3. PICK p \in P : \A q \in P : p <= q
    BY <1>2, LeastNumber
  <1>4. PICK i \in S : i.at = a /\ i.port = p
    BY <1>3 DEF P
  <1>5. ASSUME NEW j \in S, j # i PROVE i.at < j.at \/ (i.at = j.at /\ i.port < j.port)
    <2>1. a <= j.at
      BY <1>1
    <2>2. j.at = a => p <= j.port
      BY <1>3 DEF P
    <2>3. i.port # j.port
      BY <1>5 DEF OwnPorts
    <2> QED
      BY <2>1, <2>2, <2>3, <1>4, <1>0
  <1> QED
    BY <1>5

\* So has the order of the slice.
LEMMA OldestExists ==
    ASSUME NEW S \in SUBSET Ingresses, S # {}, OwnPorts(S)
    PROVE  \E i \in S : \A j \in S : i = j \/ Before(i, j)
  <1> DEFINE T == {i \in S : i.primary}
  <1>1. CASE T # {}
    <2>1. T \in SUBSET Ingresses /\ OwnPorts(T)
      BY DEF OwnPorts
    <2>2. PICK i \in T : \A j \in T : i = j \/ i.at < j.at \/ (i.at = j.at /\ i.port < j.port)
      BY <2>1, <1>1, FirstByAge
    <2>3. \A j \in S : j.primary \in BOOLEAN
      BY DEF Ingresses
    <2>4. ASSUME NEW j \in S PROVE i = j \/ Before(i, j)
      <3>1. CASE j \in T
        <4>1. i.primary = j.primary
          BY <3>1, <2>3
        <4> QED
          BY <4>1, <3>1, <2>2 DEF Before
      <3>2. CASE j \notin T
        BY <3>2 DEF Before
      <3> QED
        BY <3>1, <3>2
    <2> QED
      BY <2>4
  <1>2. CASE T = {}
    <2>1. \A i, j \in S : i.primary = j.primary
      BY <1>2 DEF Ingresses
    <2> QED
      BY <2>1, FirstByAge DEF Before
  <1> QED
    BY <1>1, <1>2

LEMMA OldestIsOne ==
    ASSUME NEW S \in SUBSET Ingresses, S # {}, OwnPorts(S)
    PROVE  Oldest(S) \in S
BY OldestExists DEF Oldest

-------------------------------------------------------------------------------
(* The rows *)

RowsInv ==
    /\ device \in [Devices -> DeviceValues \union {None}]
    /\ DeviceRowsConsistent

\* The device may lose its last ingress only if it began without one.
MayLack(d) == ~(InitialDevices[d] = None \/ InitialDevices[d].ingresses # {})

LEMMA RowsOf ==
    ASSUME RowsInv, NEW d \in Devices, device[d] # None
    PROVE  /\ device[d] \in DeviceValues
           /\ OwnPorts(device[d].ingresses)
           /\ MirrorsPrimary(device[d])
           /\ device[d].ingresses # {} \/ MayLack(d)
BY DEF RowsInv, DeviceRowsConsistent, PortsUnique, OwnPorts, MayLack

LEMMA EffectiveTyped ==
    ASSUME NEW v \in DeviceValues
    PROVE  EffectiveIngresses(v) \in SUBSET Ingresses
  <1>1. None \in DeviceRequests \union {None}
    OBVIOUS
  <1> QED
    BY <1>1 DEF EffectiveIngresses, DeviceValues, Ingresses

\* Devices do not go away.
DevicesStay == \A d \in Devices : device[d] # None => device'[d] # None

\* A change of one device that brings no port of another one.
LEMMA ChangeRow ==
    ASSUME RowsInv, NEW d \in Devices, NEW w \in DeviceValues,
           device' = [device EXCEPT ![d] = w],
           OwnPorts(w.ingresses), MirrorsPrimary(w),
           w.ingresses # {} \/ MayLack(d),
           \A e \in Devices \ {d} : device[e] # None =>
               \A i \in w.ingresses, j \in device[e].ingresses : i.port # j.port
    PROVE  RowsInv' /\ DevicesStay
  <1>1. w # None
    BY DeviceAssumption
  <1>2. device' \in [Devices -> DeviceValues \union {None}]
    BY DEF RowsInv
  <1>3. device'[d] = w /\ \A e \in Devices \ {d} : device'[e] = device[e]
    BY DEF RowsInv
  <1>4. PortsUnique(device)'
    <2> SUFFICES ASSUME NEW e \in Devices, NEW f \in Devices, device'[e] # None, device'[f] # None,
                        NEW i \in device'[e].ingresses, NEW j \in device'[f].ingresses,
                        i.port = j.port
                 PROVE  e = f /\ i = j
      BY DEF PortsUnique
    <2>1. CASE e = d /\ f = d
      BY <2>1, <1>3 DEF OwnPorts
    <2>2. CASE e = d /\ f # d
      BY <2>2, <1>3
    <2>3. CASE e # d /\ f = d
      BY <2>3, <1>3
    <2>4. CASE e # d /\ f # d
      BY <2>4, <1>3 DEF RowsInv, DeviceRowsConsistent, PortsUnique
    <2> QED
      BY <2>1, <2>2, <2>3, <2>4
  <1>5. ASSUME NEW e \in Devices, device'[e] # None
        PROVE  MirrorsPrimary(device'[e])
               /\ (InitialDevices[e] = None \/ InitialDevices[e].ingresses # {}
                   => device'[e].ingresses # {})
    <2>1. CASE e = d
      BY <2>1, <1>3 DEF MayLack
    <2>2. CASE e # d
      BY <2>2, <1>3, <1>5 DEF RowsInv, DeviceRowsConsistent
    <2> QED
      BY <2>1, <2>2
  <1>6. DevicesStay
    BY <1>1, <1>3 DEF DevicesStay
  <1> QED
    BY <1>2, <1>4, <1>5, <1>6 DEF RowsInv, DeviceRowsConsistent

LEMMA CreateKeepsRows ==
    ASSUME RowsInv, NEW d \in Devices, NEW p \in Ports, NEW m \in Methods, NEW pw \in Passwords,
           CreateDevice(d, [port |-> p, method |-> m, password |-> pw, ingresses |-> {}])
    PROVE  RowsInv' /\ DevicesStay
  <1> DEFINE v == [port |-> p, method |-> m, password |-> pw, ingresses |-> {}]
             i == [port |-> p, method |-> m, password |-> pw, primary |-> TRUE, at |-> 0]
             w == [port |-> p, method |-> m, password |-> pw, ingresses |-> {i}]
  <1>1. p # 0
    BY DeviceAssumption
  <1>2. EffectiveIngresses(v) = {i}
    BY <1>1 DEF EffectiveIngresses
  <1>3. [v EXCEPT !.ingresses = EffectiveIngresses(v)] = w
    <2>1. \A S : [v EXCEPT !.ingresses = S]
                   = [port |-> p, method |-> m, password |-> pw, ingresses |-> S]
      OBVIOUS
    <2> QED
      BY <2>1, <1>2
  <1>4. device' = [device EXCEPT ![d] = w] /\ ~CreateConflicts(d, v)
    BY <1>3 DEF CreateDevice
  <1>5. w \in DeviceValues
    BY DEF DeviceValues, Ingresses
  <1>6. OwnPorts(w.ingresses) /\ w.ingresses # {}
    BY DEF OwnPorts
  <1>7. MirrorsPrimary(w)
    <2>1. Primaries(w) = {i}
      BY DEF Primaries
    <2>2. w.port = i.port /\ w.method = i.method /\ w.password = i.password /\ w.port # 0
      BY <1>1
    <2> HIDE DEF i, w
    <2> QED
      BY <2>1, <2>2 DEF MirrorsPrimary
  <1>8. ASSUME NEW e \in Devices \ {d}, device[e] # None, NEW j \in device[e].ingresses
        PROVE  j.port # p
    BY <1>4, <1>8 DEF CreateConflicts, PortTaken, PortsOf
  <1>9. \A e \in Devices \ {d} : device[e] # None =>
            \A k \in w.ingresses, j \in device[e].ingresses : k.port # j.port
    BY <1>8
  <1> HIDE DEF w
  <1> QED
    BY <1>4, <1>5, <1>6, <1>7, <1>9, ChangeRow

\* The ingress with the password, if it is the primary one.
Rekeyed(i, pw) ==
    IF i.primary
    THEN [port |-> i.port, method |-> i.method, password |-> pw, primary |-> i.primary, at |-> i.at]
    ELSE i

LEMMA SetPasswordFacts ==
    ASSUME NEW v \in DeviceValues, NEW pw \in Passwords
    PROVE  /\ SetPassword(v, pw) = [port |-> v.port, method |-> v.method, password |-> pw,
                                    ingresses |-> {Rekeyed(i, pw) : i \in v.ingresses}]
           /\ SetPassword(v, pw) = ProposeRotate(v, pw)
           /\ SetPassword(v, pw) \in DeviceValues
           /\ \A i \in v.ingresses : Rekeyed(i, pw) \in Ingresses
  <1>1. ASSUME NEW i \in v.ingresses
        PROVE  /\ (IF i.primary THEN [i EXCEPT !.password = pw] ELSE i) = Rekeyed(i, pw)
               /\ Rekeyed(i, pw) \in Ingresses
    <2>1. i \in Ingresses
      BY DEF DeviceValues
    <2>2. [i EXCEPT !.password = pw] = [port |-> i.port, method |-> i.method, password |-> pw,
                                        primary |-> i.primary, at |-> i.at]
      BY <2>1 DEF Ingresses
    <2> QED
      BY <2>1, <2>2 DEF Rekeyed, Ingresses
  <1> DEFINE S == {IF i.primary THEN [i EXCEPT !.password = pw] ELSE i : i \in v.ingresses}
             T == {Rekeyed(i, pw) : i \in v.ingresses}
  <1>2. S = T
    BY <1>1
  <1>3. SetPassword(v, pw) = [v EXCEPT !.password = pw, !.ingresses = S]
    BY DEF SetPassword
  <1>4. ProposeRotate(v, pw) = SetPassword(v, pw)
    BY DEF SetPassword, ProposeRotate
  <1>5. T \in SUBSET Ingresses
    BY <1>1
  <1> HIDE DEF S, T
  <1>6. SetPassword(v, pw)
          = [port |-> v.port, method |-> v.method, password |-> pw, ingresses |-> S]
    BY <1>3 DEF DeviceValues
  <1>7. SetPassword(v, pw) \in DeviceValues
    BY <1>6, <1>2, <1>5 DEF DeviceValues
  <1> QED
    BY <1>1, <1>2, <1>4, <1>6, <1>7 DEF T

LEMMA RotateKeepsRows ==
    ASSUME RowsInv, NEW d \in Devices, NEW pw \in Passwords, UpdateDeviceCredential(d, pw)
    PROVE  RowsInv' /\ DevicesStay
  <1> DEFINE v == device[d]
             w == SetPassword(v, pw)
  <1>1. device[d] # None
    BY DEF UpdateDeviceCredential
  <1>2. /\ v \in DeviceValues /\ OwnPorts(v.ingresses) /\ MirrorsPrimary(v)
        /\ v.ingresses # {} \/ MayLack(d)
    BY <1>1, RowsOf
  <1>3. device' = [device EXCEPT ![d] = w]
    BY DEF UpdateDeviceCredential
  <1> HIDE DEF w
  <1>4. /\ w = [port |-> v.port, method |-> v.method, password |-> pw,
                ingresses |-> {Rekeyed(i, pw) : i \in v.ingresses}]
        /\ w \in DeviceValues
        /\ \A i \in v.ingresses : Rekeyed(i, pw) \in Ingresses
    BY <1>2, SetPasswordFacts DEF w
  <1>5. /\ w.port = v.port /\ w.method = v.method /\ w.password = pw
        /\ w.ingresses = {Rekeyed(i, pw) : i \in v.ingresses}
    BY <1>4
  <1>6. \A i : Rekeyed(i, pw).port = i.port /\ Rekeyed(i, pw).method = i.method
    BY DEF Rekeyed
  <1>7. OwnPorts(w.ingresses)
    BY <1>2, <1>5, <1>6 DEF OwnPorts
  <1>8. \A k \in w.ingresses : \E i \in v.ingresses : k.port = i.port
    BY <1>5, <1>6
  <1>9. ASSUME NEW e \in Devices \ {d}, device[e] # None,
               NEW k \in w.ingresses, NEW j \in device[e].ingresses
        PROVE  k.port # j.port
    BY <1>1, <1>8, <1>9 DEF RowsInv, DeviceRowsConsistent, PortsUnique
  <1>10. MirrorsPrimary(w)
    <2>1. \A i : i.primary => Rekeyed(i, pw).primary /\ Rekeyed(i, pw).password = pw
      BY DEF Rekeyed
    <2>2. \A i : ~i.primary => Rekeyed(i, pw) = i
      BY DEF Rekeyed
    <2>3. Primaries(w) = {Rekeyed(i, pw) : i \in Primaries(v)}
      BY <1>5, <2>1, <2>2, Zenon DEF Primaries
    <2>4. CASE v.port = 0
      BY <2>4, <2>3, <1>2, <1>5 DEF MirrorsPrimary
    <2>5. CASE v.port # 0
      <3>1. PICK i \in Primaries(v) : /\ Primaries(v) = {i}
                                      /\ <<v.port, v.method, v.password>>
                                           = <<i.port, i.method, i.password>>
        BY <2>5, <1>2 DEF MirrorsPrimary
      <3>2. Primaries(w) = {Rekeyed(i, pw)}
        BY <3>1, <2>3
      <3>3. i.primary
        BY DEF Primaries
      <3>4. /\ w.port = Rekeyed(i, pw).port /\ w.method = Rekeyed(i, pw).method
            /\ w.password = Rekeyed(i, pw).password
        BY <3>1, <3>3, <2>1, <1>5, <1>6
      <3> QED
        BY <3>2, <3>4, <2>5, <1>5 DEF MirrorsPrimary
    <2> QED
      BY <2>4, <2>5
  <1>11. w.ingresses # {} \/ MayLack(d)
    BY <1>2, <1>5
  <1>12. \A e \in Devices \ {d} : device[e] # None =>
             \A k \in w.ingresses, j \in device[e].ingresses : k.port # j.port
    BY <1>9
  <1>13. w \in DeviceValues
    BY <1>4
  <1> QED
    BY <1>3, <1>7, <1>10, <1>11, <1>12, <1>13, ChangeRow

\* The ingress as a primary one, or as one that is not.
AsPrimary(i, b) ==
    [port |-> i.port, method |-> i.method, password |-> i.password, primary |-> b, at |-> i.at]

LEMMA AsPrimaryFacts ==
    ASSUME NEW i \in Ingresses, NEW b \in BOOLEAN
    PROVE  /\ [i EXCEPT !.primary = b] = AsPrimary(i, b)
           /\ AsPrimary(i, b) \in Ingresses
           /\ AsPrimary(i, b).primary = b
           /\ AsPrimary(i, b).port = i.port
           /\ AsPrimary(i, b).method = i.method
           /\ AsPrimary(i, b).password = i.password
           /\ AsPrimary(i, b).at = i.at
BY DEF Ingresses, AsPrimary

LEMMA AddKeepsRows ==
    ASSUME RowsInv, NEW d \in Devices, NEW n \in Ingresses, AddDeviceIngress(d, n)
    PROVE  RowsInv' /\ DevicesStay
  <1> DEFINE v == device[d]
             k == AsPrimary(n, FALSE)
             w == [port |-> v.port, method |-> v.method, password |-> v.password,
                   ingresses |-> v.ingresses \union {k}]
  <1>1. device[d] # None /\ ~AddConflicts(n.port)
    BY DEF AddDeviceIngress
  <1>2. v \in DeviceValues /\ OwnPorts(v.ingresses) /\ MirrorsPrimary(v)
    BY <1>1, RowsOf
  <1>3. [n EXCEPT !.primary = FALSE] = k /\ k \in Ingresses /\ k.port = n.port /\ ~k.primary
    BY AsPrimaryFacts
  <1> HIDE DEF k
  <1>4. \A S : [v EXCEPT !.ingresses = S]
               = [port |-> v.port, method |-> v.method, password |-> v.password, ingresses |-> S]
    BY <1>2 DEF DeviceValues
  <1>5. device' = [device EXCEPT ![d] = [v EXCEPT !.ingresses = v.ingresses \union {k}]]
    BY <1>3, <1>2 DEF AddDeviceIngress, RowsInv
  <1>6. device' = [device EXCEPT ![d] = w]
    BY <1>4, <1>5
  <1>7. w \in DeviceValues
    BY <1>2, <1>3 DEF DeviceValues
  <1>8. \A e \in Devices : device[e] # None => \A j \in device[e].ingresses : j.port # k.port
    BY <1>1, <1>3 DEF AddConflicts, PortsOf
  <1>9. OwnPorts(w.ingresses)
    BY <1>1, <1>2, <1>8 DEF OwnPorts
  <1>10. \A e \in Devices \ {d} : device[e] # None =>
             \A i \in w.ingresses, j \in device[e].ingresses : i.port # j.port
    <2> SUFFICES ASSUME NEW e \in Devices \ {d}, device[e] # None,
                        NEW i \in w.ingresses, NEW j \in device[e].ingresses
                 PROVE  i.port # j.port
      OBVIOUS
    <2>1. CASE i = k
      BY <2>1, <1>8
    <2>2. CASE i \in v.ingresses
      BY <2>2, <1>1 DEF RowsInv, DeviceRowsConsistent, PortsUnique
    <2> QED
      BY <2>1, <2>2
  <1>11. MirrorsPrimary(w)
    <2>1. Primaries(w) = Primaries(v)
      BY <1>3 DEF Primaries
    <2>2. w.port = v.port /\ w.method = v.method /\ w.password = v.password
      OBVIOUS
    <2> HIDE DEF w, v
    <2> QED
      BY <2>1, <2>2, <1>2 DEF MirrorsPrimary
  <1>12. w.ingresses # {}
    OBVIOUS
  <1> HIDE DEF w
  <1> QED
    BY <1>6, <1>7, <1>9, <1>10, <1>11, <1>12, ChangeRow

\* What is left of more than one ingress when one port goes.
LEMMA SomeAreLeft ==
    ASSUME NEW S \in SUBSET Ingresses, OwnPorts(S), Cardinality(S) \notin {0, 1}, NEW p
    PROVE  {i \in S : i.port # p} # {}
  <1> SUFFICES ASSUME {i \in S : i.port # p} = {} PROVE FALSE
    OBVIOUS
  <1>1. \A i, j \in S : i = j
    BY DEF OwnPorts
  <1>2. CASE S = {}
    BY <1>2, FS_EmptySet
  <1>3. CASE S # {}
    <2>1. PICK i \in S : TRUE
      BY <1>3
    <2>2. S = {i}
      BY <1>1
    <2>3. Cardinality(S) = 1
      BY <2>2, FS_Singleton
    <2> QED
      BY <2>3
  <1> QED
    BY <1>2, <1>3

\* The ingresses without the first, and the first as the primary one.
Promoted(n, R) ==
    [port |-> n.port, method |-> n.method, password |-> n.password,
     ingresses |-> (R \ {n}) \union {AsPrimary(n, TRUE)}]

LEMMA PromotedFacts ==
    ASSUME NEW R \in SUBSET Ingresses, OwnPorts(R),
           \A i \in R : ~i.primary, NEW n \in R
    PROVE  LET w == Promoted(n, R) IN
           /\ w \in DeviceValues /\ OwnPorts(w.ingresses) /\ MirrorsPrimary(w)
           /\ \A i \in w.ingresses : \E j \in R : i.port = j.port
           /\ w.ingresses # {}
  <1> DEFINE k == AsPrimary(n, TRUE)
             w == Promoted(n, R)
  <1>1. k \in Ingresses /\ k.port = n.port /\ k.primary
    BY AsPrimaryFacts
  <1>2. k.method = n.method /\ k.password = n.password
    BY AsPrimaryFacts
  <1> HIDE DEF k, w
  <1>0. w = [port |-> n.port, method |-> n.method, password |-> n.password,
             ingresses |-> (R \ {n}) \union {k}]
    BY DEF w, k, Promoted
  <1>3. w.ingresses = (R \ {n}) \union {k}
    BY <1>0
  <1>4. /\ w.port = n.port /\ w.method = n.method /\ w.password = n.password
        /\ w.port # 0
    BY <1>0, DeviceAssumption DEF Ingresses
  <1>5. w \in DeviceValues
    BY <1>0, <1>1 DEF DeviceValues, Ingresses
  <1>6. OwnPorts(w.ingresses)
    <2>1. \A i \in R \ {n} : i.port # k.port
      BY <1>1 DEF OwnPorts
    <2> QED
      BY <2>1, <1>3 DEF OwnPorts
  <1>7. Primaries(w) = {k}
    BY <1>1, <1>3 DEF Primaries
  <1>8. MirrorsPrimary(w)
    BY <1>1, <1>2, <1>4, <1>7 DEF MirrorsPrimary
  <1> QED
    BY <1>1, <1>3, <1>5, <1>6, <1>8 DEF w

LEMMA DeleteKeepsRows ==
    ASSUME RowsInv, NEW d \in Devices, NEW p, DeleteDeviceIngress(d, p)
    PROVE  RowsInv' /\ DevicesStay
  <1> DEFINE v == device[d]
             R == {i \in v.ingresses : i.port # p}
             w == WithoutPort(v, p)
  <1>1. device[d] # None /\ Cardinality(v.ingresses) \notin {0, 1}
    BY DEF DeleteDeviceIngress, DeleteConflicts
  <1>2. v \in DeviceValues /\ OwnPorts(v.ingresses) /\ MirrorsPrimary(v)
    BY <1>1, RowsOf
  <1>3. R \in SUBSET Ingresses /\ OwnPorts(R)
    BY <1>2 DEF DeviceValues, OwnPorts
  <1>4. R # {}
    BY <1>1, <1>2, SomeAreLeft DEF DeviceValues
  <1>5. device' = [device EXCEPT ![d] = w]
    BY DEF DeleteDeviceIngress
  <1>6. ASSUME NEW x \in DeviceValues, \A i \in x.ingresses : \E j \in R : i.port = j.port
        PROVE  \A e \in Devices \ {d} : device[e] # None =>
                   \A i \in x.ingresses, j \in device[e].ingresses : i.port # j.port
    BY <1>1, <1>6 DEF RowsInv, DeviceRowsConsistent, PortsUnique
  <1>7. CASE \E i \in v.ingresses : i.port = p /\ i.primary
    <2> DEFINE n == Oldest(R)
    <2>1. n \in R
      BY <1>3, <1>4, OldestIsOne
    <2>2. \A i \in R : ~i.primary
      BY <1>2, <1>7 DEF MirrorsPrimary, Primaries
    <2>3. w = Promote(v, R)
      BY <1>7 DEF WithoutPort
    <2> HIDE DEF n, R, w
    <2>4. w = [v EXCEPT !.port = n.port, !.method = n.method, !.password = n.password,
                        !.ingresses = (R \ {n}) \union {[n EXCEPT !.primary = TRUE]}]
      BY <2>3 DEF Promote, n
    <2>5. w = Promoted(n, R)
      <3>1. [n EXCEPT !.primary = TRUE] = AsPrimary(n, TRUE)
        BY <2>1, <1>3, AsPrimaryFacts
      <3> QED
        BY <3>1, <2>4, <1>2 DEF DeviceValues, Promoted
    <2>6. /\ w \in DeviceValues /\ OwnPorts(w.ingresses) /\ MirrorsPrimary(w)
          /\ \A i \in w.ingresses : \E j \in R : i.port = j.port
          /\ w.ingresses # {}
      BY <2>1, <2>2, <2>5, <1>3, PromotedFacts
    <2> QED
      BY <2>6, <1>5, <1>6, ChangeRow
  <1>8. CASE ~\E i \in v.ingresses : i.port = p /\ i.primary
    <2>1. w = [v EXCEPT !.ingresses = R]
      BY <1>8 DEF WithoutPort
    <2> HIDE DEF w
    <2>2. w = [port |-> v.port, method |-> v.method, password |-> v.password, ingresses |-> R]
      BY <2>1, <1>2 DEF DeviceValues
    <2>3. w \in DeviceValues
      BY <2>2, <1>2, <1>3 DEF DeviceValues
    <2>4. w.ingresses = R /\ w.port = v.port /\ w.method = v.method /\ w.password = v.password
      BY <2>2
    <2>5. Primaries(w) = Primaries(v)
      BY <2>4, <1>8 DEF Primaries
    <2>6. MirrorsPrimary(w)
      BY <2>4, <2>5, <1>2 DEF MirrorsPrimary
    <2> HIDE DEF R
    <2> QED
      BY <2>3, <2>4, <2>6, <1>3, <1>4, <1>5, <1>6, ChangeRow
  <1> QED
    BY <1>7, <1>8

-------------------------------------------------------------------------------
(* The listeners *)

ListenersType == listeners \in [Gateways -> [Ports -> Listeners \union {None}]]

\* The listeners ls are what the table t wants.
Matches(t, ls) ==
    /\ ~DuplicatePort(t)
    /\ \A p \in Ports :
          /\ \A x \in Desired(t) : x.ingress.port = p => ls[p] = Listener(x, TRUE)
          /\ ls[p] # None /\ ls[p].active => \E x \in Desired(t) : x.ingress.port = p

LEMMA DesiredTyped ==
    ASSUME NEW t \in Tables, NEW x \in Desired(t)
    PROVE  x.device \in Devices /\ x.ingress \in Ingresses
  <1>1. PICK d \in Devices : t[d] # None /\ \E i \in EffectiveIngresses(t[d].dev) :
                                 x = [device |-> d, ingress |-> i]
    BY DEF Desired
  <1>2. t[d].dev \in DeviceValues
    BY <1>1 DEF Tables, TableRoutes
  <1> QED
    BY <1>1, <1>2, EffectiveTyped

LEMMA ListenerTyped ==
    ASSUME NEW x, x.device \in Devices, x.ingress \in Ingresses, NEW b \in BOOLEAN
    PROVE  Listener(x, b) \in Listeners /\ Listener(x, b) # None
BY ListenerAssumption DEF Listener, Listeners, Ingresses

LEMMA ListenersForTyped ==
    ASSUME NEW t \in Tables, NEW S \in SUBSET Desired(t), NEW p \in Ports
    PROVE  ListenersFor(S)[p] \in Listeners \union {None}
  <1>1. CASE \E x \in S : x.ingress.port = p
    <2> DEFINE y == CHOOSE x \in S : x.ingress.port = p
    <2>1. y \in S
      BY <1>1
    <2>2. ListenersFor(S)[p] = Listener(y, TRUE)
      BY <1>1 DEF ListenersFor
    <2> HIDE DEF y
    <2> QED
      BY <2>1, <2>2, DesiredTyped, ListenerTyped
  <1>2. CASE ~\E x \in S : x.ingress.port = p
    BY <1>2 DEF ListenersFor
  <1> QED
    BY <1>1, <1>2

\* A listener that is activated.
LEMMA Activated ==
    ASSUME NEW l \in Listeners
    PROVE  /\ [l EXCEPT !.active = TRUE] = [device |-> l.device, method |-> l.method,
                                            password |-> l.password, active |-> TRUE]
           /\ [l EXCEPT !.active = TRUE] \in Listeners
  <1>1. ASSUME NEW b \in BOOLEAN
        PROVE  /\ [l EXCEPT !.active = b] = [device |-> l.device, method |-> l.method,
                                             password |-> l.password, active |-> b]
               /\ [l EXCEPT !.active = b] \in Listeners
    BY DEF Listeners
  <1> QED
    BY <1>1

LEMMA KeptTyped ==
    ASSUME ListenersType, NEW g \in Gateways, NEW t, NEW p \in Ports,
           \E x \in KeptOf(g, t) : x.ingress.port = p
    PROVE  listeners[g][p] \in Listeners
BY DEF ListenersType, KeptOf, Kept

LEMMA ReconcileMatches ==
    ASSUME ListenersType, NEW g \in Gateways, NEW t \in Tables, Reconcile(g, t)
    PROVE  /\ ListenersType'
           /\ Matches(t, listeners'[g])
           /\ \A h \in Gateways \ {g} : listeners'[h] = listeners[h]
  <1> DEFINE new == [p \in Ports |->
                       IF \E x \in KeptOf(g, t) : x.ingress.port = p
                       THEN [listeners[g][p] EXCEPT !.active = TRUE]
                       ELSE ListenersFor(Missing(g, t))[p]]
  <1>1. listeners' = [listeners EXCEPT ![g] = new] /\ ~DuplicatePort(t)
    BY DEF Reconcile
  <1>2. ASSUME NEW p \in Ports PROVE new[p] \in Listeners \union {None}
    <2>1. CASE \E x \in KeptOf(g, t) : x.ingress.port = p
      BY <2>1, KeptTyped, Activated
    <2>2. CASE ~\E x \in KeptOf(g, t) : x.ingress.port = p
      <3>1. Missing(g, t) \in SUBSET Desired(t)
        BY DEF Missing
      <3> QED
        BY <2>2, <3>1, ListenersForTyped
    <2> QED
      BY <2>1, <2>2
  <1>3. new \in [Ports -> Listeners \union {None}]
    BY <1>2
  <1>4. ASSUME NEW p \in Ports, NEW x \in Desired(t), x.ingress.port = p
        PROVE  new[p] = Listener(x, TRUE)
    <2>1. \A y \in Desired(t) : y.ingress.port = p => y = x
      BY <1>1, <1>4 DEF DuplicatePort
    <2>2. CASE x \in KeptOf(g, t)
      <3>1. listeners[g][p] \in Listeners
        BY <2>2, <1>4, KeptTyped
      <3>2. Kept(listeners[g][p], x)
        BY <2>2, <1>4 DEF KeptOf
      <3>3. new[p] = [listeners[g][p] EXCEPT !.active = TRUE]
        BY <2>2, <1>4
      <3>4. new[p] = [device |-> listeners[g][p].device, method |-> listeners[g][p].method,
                      password |-> listeners[g][p].password, active |-> TRUE]
        BY <3>1, <3>3, Activated
      <3> QED
        BY <3>2, <3>4 DEF Kept, Listener
    <2>3. CASE x \notin KeptOf(g, t)
      <3>1. \A y \in KeptOf(g, t) : y.ingress.port # p
        BY <2>1, <2>3 DEF KeptOf
      <3>2. new[p] = ListenersFor(Missing(g, t))[p]
        BY <3>1
      <3>3. x \in Missing(g, t) /\ \A y \in Missing(g, t) : y.ingress.port = p => y = x
        BY <2>1, <2>3 DEF Missing
      <3>4. (CHOOSE y \in Missing(g, t) : y.ingress.port = p) = x
        BY <3>3, <1>4
      <3> QED
        BY <3>2, <3>3, <3>4, <1>4 DEF ListenersFor
    <2> QED
      BY <2>2, <2>3
  <1>5. ASSUME NEW p \in Ports, new[p] # None
        PROVE  \E x \in Desired(t) : x.ingress.port = p
    <2>1. CASE \E x \in KeptOf(g, t) : x.ingress.port = p
      BY <2>1 DEF KeptOf
    <2>2. CASE ~\E x \in KeptOf(g, t) : x.ingress.port = p
      BY <2>2, <1>5 DEF ListenersFor, Missing
    <2> QED
      BY <2>1, <2>2
  <1>6. listeners'[g] = new /\ \A h \in Gateways \ {g} : listeners'[h] = listeners[h]
    BY <1>1 DEF ListenersType
  <1> HIDE DEF new
  <1>7. ListenersType'
    BY <1>1, <1>3 DEF ListenersType
  <1>8. Matches(t, listeners'[g])
    <2>1. ~DuplicatePort(t)
      BY <1>1
    <2>2. ASSUME NEW p \in Ports, NEW x \in Desired(t), x.ingress.port = p
          PROVE  listeners'[g][p] = Listener(x, TRUE)
      BY <2>2, <1>4, <1>6
    <2>3. ASSUME NEW p \in Ports, listeners'[g][p] # None
          PROVE  \E x \in Desired(t) : x.ingress.port = p
      <3>1. new[p] # None
        BY <2>3, <1>6
      <3> QED
        BY <3>1, <1>5
    <2> QED
      BY <2>1, <2>2, <2>3 DEF Matches
  <1> QED
    BY <1>6, <1>7, <1>8

LEMMA StoppedTyped ==
    ASSUME ListenersType, NEW g \in Gateways, NEW t \in Tables, ReconcileStops(g, t)
    PROVE  ListenersType' /\ \A h \in Gateways \ {g} : listeners'[h] = listeners[h]
  <1>1. PICK left \in LeftListeners(g, t) : listeners' = [listeners EXCEPT ![g] = left]
    BY DEF ReconcileStops
  <1>2. left \in [Ports -> Listeners \union {None}]
    <2>1. CASE DuplicatePort(t)
      BY <2>1 DEF LeftListeners, ListenersType
    <2>2. CASE ~DuplicatePort(t)
      <3>1. PICK S \in SUBSET Missing(g, t) :
               left = [p \in Ports |->
                         IF \E x \in KeptOf(g, t) : x.ingress.port = p
                         THEN [listeners[g][p] EXCEPT !.active = TRUE]
                         ELSE ListenersFor(S)[p]]
        BY <2>2, <1>1, Zenon DEF LeftListeners
      <3>2. S \in SUBSET Desired(t)
        BY DEF Missing
      <3>3. ASSUME NEW p \in Ports PROVE left[p] \in Listeners \union {None}
        <4>1. CASE \E x \in KeptOf(g, t) : x.ingress.port = p
          BY <4>1, <3>1, KeptTyped, Activated
        <4>2. CASE ~\E x \in KeptOf(g, t) : x.ingress.port = p
          BY <4>2, <3>1, <3>2, ListenersForTyped
        <4> QED
          BY <4>1, <4>2
      <3> QED
        BY <3>1, <3>3
    <2> QED
      BY <2>1, <2>2
  <1> QED
    BY <1>1, <1>2 DEF ListenersType

\* PrepareDevice leaves the listeners that a table wants alone.
LEMMA OpenMatches ==
    ASSUME ListenersType, NEW g \in Gateways, NEW d \in Devices, NEW S \in SUBSET Ingresses,
           OpenInactive(g, d, S)
    PROVE  /\ ListenersType'
           /\ \A h \in Gateways \ {g} : listeners'[h] = listeners[h]
           /\ \A t \in Tables : Matches(t, listeners[g]) => Matches(t, listeners'[g])
  <1> DEFINE opened(p) == Listener([device |-> d, ingress |-> CHOOSE i \in S : i.port = p], FALSE)
             new == [p \in Ports |-> IF \E i \in S : i.port = p /\ Unused(g, i)
                                     THEN opened(p) ELSE listeners[g][p]]
  <1>1. listeners' = [listeners EXCEPT ![g] = new]
    BY DEF OpenInactive
  <1>2. ASSUME NEW p \in Ports, \E i \in S : i.port = p
        PROVE  opened(p) \in Listeners /\ ~opened(p).active
    <2> DEFINE k == CHOOSE i \in S : i.port = p
    <2>1. k \in Ingresses
      BY <1>2
    <2> HIDE DEF k
    <2>2. Listener([device |-> d, ingress |-> k], FALSE) \in Listeners
      BY <2>1, ListenerTyped
    <2>3. Listener([device |-> d, ingress |-> k], FALSE).active = FALSE
      BY DEF Listener
    <2> QED
      BY <2>2, <2>3 DEF k
  <1> HIDE DEF opened
  <1>3. new \in [Ports -> Listeners \union {None}]
    BY <1>2 DEF ListenersType
  <1>4. listeners'[g] = new /\ \A h \in Gateways \ {g} : listeners'[h] = listeners[h]
    BY <1>1 DEF ListenersType
  <1>5. ListenersType'
    BY <1>1, <1>3 DEF ListenersType
  <1>6. ASSUME NEW t \in Tables, Matches(t, listeners[g]) PROVE Matches(t, new)
    <2>1. ASSUME NEW p \in Ports, NEW x \in Desired(t), x.ingress.port = p
          PROVE  new[p] = Listener(x, TRUE)
      <3>1. listeners[g][p] = Listener(x, TRUE)
        BY <1>6, <2>1 DEF Matches
      <3>2. listeners[g][p] # None
        BY <3>1, DesiredTyped, ListenerTyped
      <3>3. ~\E i \in S : i.port = p /\ Unused(g, i)
        BY <3>2 DEF Unused
      <3> QED
        BY <3>1, <3>3
    <2>2. ASSUME NEW p \in Ports, new[p] # None, new[p].active
          PROVE  \E x \in Desired(t) : x.ingress.port = p
      <3>1. new[p] = listeners[g][p]
        BY <1>2, <2>2
      <3> QED
        BY <3>1, <2>2, <1>6 DEF Matches
    <2>3. ~DuplicatePort(t)
      BY <1>6 DEF Matches
    <2> HIDE DEF new
    <2> QED
      BY <2>1, <2>2, <2>3 DEF Matches
  <1> QED
    BY <1>4, <1>5, <1>6

-------------------------------------------------------------------------------
(* The gateways *)

Frames ==
    [type : {"SNAPSHOT"}, req : {None}, table : Tables, torn : BOOLEAN]
    \union [type : {"PREPARE", "ACTIVATE", "DEVICE_PREPARE", "DEVICE_UPDATE"},
            req : Deployments, device : Devices, route : TableRoutes]

\* The types of what the gateways keep and receive, and: a synchronised gateway's
\* listeners match its table.
GatewayInv ==
    /\ table \in [Gateways -> Tables]
    /\ prepared \in [Gateways -> Tables]
    /\ ListenersType
    /\ synced \in [Gateways -> BOOLEAN]
    /\ file \in [Gateways -> Tables \union {None}]
    /\ inbox \in [Gateways -> Seq(Frames)]
    /\ \A g \in Gateways : synced[g] => Matches(table[g], listeners[g])

\* A step that leaves the gateways alone and delivers frames.
LEMMA GatewaysIdle ==
    ASSUME GatewayInv, UNCHANGED <<table, prepared, listeners, synced, file>>,
           inbox' \in [Gateways -> Seq(Frames)]
    PROVE  GatewayInv'
BY DEF GatewayInv, ListenersType

LEMMA Received1 ==
    ASSUME GatewayInv, NEW g \in Gateways, inbox[g] # <<>>
    PROVE  /\ Head(inbox[g]) \in Frames
           /\ [inbox EXCEPT ![g] = Tail(@)] \in [Gateways -> Seq(Frames)]
BY DEF GatewayInv

\* A frame of a deployment.
LEMMA DeploymentFrame ==
    ASSUME GatewayInv, NEW g \in Gateways, NEW ty, Received(g, ty), ty # "SNAPSHOT"
    PROVE  /\ Head(inbox[g]).device \in Devices
           /\ Head(inbox[g]).route \in TableRoutes
           /\ Head(inbox[g]).route.dev \in DeviceValues
BY Received1 DEF Received, Frames, TableRoutes

\* The step of one gateway: its listeners and its table match, or it is not
\* synchronised any more, or it was not before.
LEMMA OneGateway ==
    ASSUME GatewayInv, NEW g \in Gateways,
           table' \in [Gateways -> Tables],
           prepared' \in [Gateways -> Tables],
           ListenersType',
           synced' \in [Gateways -> BOOLEAN],
           file' \in [Gateways -> Tables \union {None}],
           inbox' \in [Gateways -> Seq(Frames)],
           \A h \in Gateways \ {g} : /\ table'[h] = table[h] /\ listeners'[h] = listeners[h]
                                     /\ synced'[h] = synced[h],
           synced'[g] => Matches(table'[g], listeners'[g])
    PROVE  GatewayInv'
  <1>1. ASSUME NEW h \in Gateways, synced'[h] PROVE Matches(table'[h], listeners'[h])
    <2>1. CASE h = g
      BY <2>1, <1>1
    <2>2. CASE h # g
      <3>1. table'[h] = table[h] /\ listeners'[h] = listeners[h] /\ synced[h]
        BY <2>2, <1>1
      <3> QED
        BY <3>1 DEF GatewayInv
    <2> QED
      BY <2>1, <2>2
  <1>2. (\A h \in Gateways : synced[h] => Matches(table[h], listeners[h]))'
    BY <1>1
  <1> QED
    BY <1>2 DEF GatewayInv

LEMMA AppliedTable ==
    ASSUME GatewayInv, NEW g \in Gateways, NEW t \in Tables, inbox[g] # <<>>, ApplyTable(g, t),
           prepared' \in [Gateways -> Tables]
    PROVE  GatewayInv'
  <1>1. inbox' \in [Gateways -> Seq(Frames)]
    BY Received1 DEF ApplyTable, Ack
  <1>2. table' \in [Gateways -> Tables] /\ table'[g] = t
        /\ \A h \in Gateways \ {g} : table'[h] = table[h]
    BY DEF GatewayInv, ApplyTable, Applied, NotReconciled, NotSaved, Install
  <1>3. ListenersType
    BY DEF GatewayInv
  <1>4. CASE Applied(g, t)
    <2>1. file' \in [Gateways -> Tables \union {None}] /\ synced' = synced /\ Reconcile(g, t)
      BY <1>4 DEF Applied, GatewayInv
    <2>2. synced' \in [Gateways -> BOOLEAN]
      BY <2>1 DEF GatewayInv
    <2> QED
      BY <1>1, <1>2, <1>3, <2>1, <2>2, ReconcileMatches, OneGateway
  <1>5. CASE NotReconciled(g, t)
    <2>1. /\ file' \in [Gateways -> Tables \union {None}] /\ ReconcileStops(g, t)
          /\ synced' \in [Gateways -> BOOLEAN] /\ ~synced'[g]
          /\ \A h \in Gateways \ {g} : synced'[h] = synced[h]
      BY <1>5 DEF NotReconciled, GatewayInv
    <2> QED
      BY <1>1, <1>2, <1>3, <2>1, StoppedTyped, OneGateway
  <1>6. CASE NotSaved(g, t)
    <2>1. /\ file' \in [Gateways -> Tables \union {None}] /\ Reconcile(g, t)
          /\ synced' \in [Gateways -> BOOLEAN] /\ ~synced'[g]
          /\ \A h \in Gateways \ {g} : synced'[h] = synced[h]
      BY <1>6 DEF NotSaved, GatewayInv
    <2> QED
      BY <1>1, <1>2, <1>3, <2>1, ReconcileMatches, OneGateway
  <1> QED
    BY <1>4, <1>5, <1>6 DEF ApplyTable

\* DEVICE_UPDATE makes a table of a table.
LEMMA UpdatedTable ==
    ASSUME GatewayInv, NEW g \in Gateways, NEW d \in Devices, NEW v \in DeviceValues
    PROVE  UpdateDevice(g, d, v) \in Tables
  <1>1. CASE table[g][d] = None
    BY <1>1 DEF UpdateDevice, GatewayInv
  <1>2. CASE table[g][d] # None
    <2>1. table[g] \in Tables /\ table[g][d] \in TableRoutes
      BY <1>2 DEF GatewayInv, Tables
    <2>2. [table[g][d] EXCEPT !.dev = v] \in TableRoutes
      BY <2>1 DEF TableRoutes
    <2>3. UpdateDevice(g, d, v) = [table[g] EXCEPT ![d] = [table[g][d] EXCEPT !.dev = v]]
      BY <1>2, <2>1 DEF UpdateDevice
    <2> QED
      BY <2>1, <2>2, <2>3 DEF Tables
  <1> QED
    BY <1>1, <1>2

LEMMA DeviceUpdateStep ==
    ASSUME GatewayInv, NEW g \in Gateways, OnDeviceUpdate(g)
    PROVE  GatewayInv'
  <1> DEFINE d == Head(inbox[g]).device
             v == Head(inbox[g]).route.dev
             t == UpdateDevice(g, d, v)
  <1>1. d \in Devices /\ v \in DeviceValues /\ inbox[g] # <<>>
    BY DeploymentFrame DEF OnDeviceUpdate, Received
  <1>2. t \in Tables
    BY <1>1, UpdatedTable
  <1>3. ApplyTable(g, t) /\ prepared' \in [Gateways -> Tables]
    BY DEF OnDeviceUpdate, GatewayInv
  <1> QED
    BY <1>1, <1>2, <1>3, AppliedTable

LEMMA ActivateStep ==
    ASSUME GatewayInv, NEW g \in Gateways, OnActivate(g)
    PROVE  GatewayInv'
  <1> DEFINE d == Head(inbox[g]).device
             rt == Head(inbox[g]).route
             t == ActivatePrepared(g, d)
  <1>1. d \in Devices /\ rt \in TableRoutes /\ inbox[g] # <<>>
    BY DeploymentFrame DEF OnActivate, Received
  <1>2. CASE WasPrepared(g, d, rt)
    <2>1. ApplyTable(g, t) /\ Forget(g, d)
      BY <1>2 DEF OnActivate
    <2> HIDE DEF d, rt
    <2>2. t \in Tables
      BY <1>1 DEF ActivatePrepared, GatewayInv, Tables
    <2>3. prepared' \in [Gateways -> Tables]
      <3>1. [prepared[g] EXCEPT ![d] = None] \in Tables
        BY <1>1 DEF GatewayInv, Tables
      <3>2. prepared' = [prepared EXCEPT ![g] = [prepared[g] EXCEPT ![d] = None]]
        BY <2>1 DEF Forget, GatewayInv
      <3> QED
        BY <3>1, <3>2 DEF GatewayInv
    <2> HIDE DEF t
    <2> QED
      BY <1>1, <2>1, <2>2, <2>3, AppliedTable
  <1>3. CASE ~WasPrepared(g, d, rt)
    <2>1. Ack(g, "error") /\ UNCHANGED ingressVars
      BY <1>3 DEF OnActivate
    <2> QED
      BY <2>1, <1>1, Received1, GatewaysIdle DEF Ack, ingressVars
  <1> QED
    BY <1>2, <1>3

\* What PREPARE and DEVICE_PREPARE do to the listeners.
LEMMA Opened ==
    ASSUME GatewayInv, NEW g \in Gateways, NEW d \in Devices, NEW v \in DeviceValues,
           PrepareDevice(g, d, v) \/ \E f \in EffectiveIngresses(v) : PrepareStopsAt(g, d, v, f)
    PROVE  /\ ListenersType'
           /\ \A h \in Gateways \ {g} : listeners'[h] = listeners[h]
           /\ \A t \in Tables : Matches(t, listeners[g]) => Matches(t, listeners'[g])
  <1>1. PICK S \in SUBSET EffectiveIngresses(v) : OpenInactive(g, d, S)
    BY DEF PrepareDevice, PrepareStopsAt
  <1>2. S \in SUBSET Ingresses
    BY EffectiveTyped
  <1>3. ListenersType
    BY DEF GatewayInv
  <1> QED
    BY <1>1, <1>2, <1>3, OpenMatches

LEMMA PrepareSteps ==
    ASSUME GatewayInv, NEW g \in Gateways, OnDevicePrepare(g) \/ OnPrepare(g)
    PROVE  GatewayInv'
  <1> DEFINE d == Head(inbox[g]).device
             rt == Head(inbox[g]).route
             v == rt.dev
  <1>1. d \in Devices /\ rt \in TableRoutes /\ v \in DeviceValues /\ inbox[g] # <<>>
    BY DeploymentFrame DEF OnPrepare, OnDevicePrepare, Received
  <1>2. PrepareDevice(g, d, v) \/ \E f \in EffectiveIngresses(v) : PrepareStopsAt(g, d, v, f)
    BY DEF OnPrepare, OnDevicePrepare
  <1>3. /\ UNCHANGED <<table, file>>
        /\ inbox' = [inbox EXCEPT ![g] = Tail(@)]
    BY DEF OnPrepare, OnDevicePrepare, Ack
  <1>4. /\ UNCHANGED prepared \/ prepared' = [prepared EXCEPT ![g][d] = rt]
        /\ UNCHANGED synced \/ synced' = [synced EXCEPT ![g] = FALSE]
    BY DEF OnPrepare, OnDevicePrepare, KeepPrepared, RefusePrepared
  <1> HIDE DEF d, rt, v
  <1>5. prepared' \in [Gateways -> Tables]
    <2>1. [prepared[g] EXCEPT ![d] = rt] \in Tables
      BY <1>1 DEF GatewayInv, Tables
    <2>2. [prepared EXCEPT ![g][d] = rt] = [prepared EXCEPT ![g] = [prepared[g] EXCEPT ![d] = rt]]
      BY DEF GatewayInv
    <2> QED
      BY <2>1, <2>2, <1>4 DEF GatewayInv
  <1>6. /\ synced' \in [Gateways -> BOOLEAN] /\ (synced'[g] => synced[g])
        /\ \A h \in Gateways \ {g} : synced'[h] = synced[h]
    BY <1>4 DEF GatewayInv
  <1>7. /\ ListenersType'
        /\ \A h \in Gateways \ {g} : listeners'[h] = listeners[h]
        /\ \A t \in Tables : Matches(t, listeners[g]) => Matches(t, listeners'[g])
    BY <1>1, <1>2, Opened
  <1>8. /\ table' \in [Gateways -> Tables] /\ file' \in [Gateways -> Tables \union {None}]
        /\ table[g] \in Tables /\ table' = table
        /\ inbox' \in [Gateways -> Seq(Frames)]
    BY <1>1, <1>3, Received1 DEF GatewayInv
  <1>9. synced'[g] => Matches(table'[g], listeners'[g])
    BY <1>6, <1>7, <1>8 DEF GatewayInv
  <1> QED
    BY <1>5, <1>6, <1>7, <1>8, <1>9, OneGateway

LEMMA SnapshotStep ==
    ASSUME GatewayInv, NEW g \in Gateways, OnSnapshot(g)
    PROVE  GatewayInv'
  <1> DEFINE t == Head(inbox[g]).table
  <1>1. inbox[g] # <<>> /\ Head(inbox[g]).type = "SNAPSHOT"
    BY DEF OnSnapshot, Received
  <1>2. t \in Tables
    BY <1>1, Received1 DEF Frames
  <1>3. /\ SnapshotApplied(g, t) \/ SnapshotNotReconciled(g, t) \/ SnapshotNotSaved(g)
        /\ inbox' = [inbox EXCEPT ![g] = Tail(@)]
    BY DEF OnSnapshot, Ack
  <1> HIDE DEF t
  <1>4. inbox' \in [Gateways -> Seq(Frames)]
    BY <1>1, <1>3, Received1
  <1>5. NoTable \in Tables
    BY DEF NoTable, Tables
  <1>6. ListenersType
    BY DEF GatewayInv
  <1>7. CASE SnapshotApplied(g, t)
    <2>1. /\ table' \in [Gateways -> Tables] /\ table'[g] = t
          /\ prepared' \in [Gateways -> Tables] /\ file' \in [Gateways -> Tables \union {None}]
          /\ synced' \in [Gateways -> BOOLEAN] /\ Reconcile(g, t)
          /\ \A h \in Gateways \ {g} : table'[h] = table[h] /\ synced'[h] = synced[h]
      BY <1>2, <1>5, <1>7 DEF SnapshotApplied, Install, GatewayInv
    <2> QED
      BY <1>2, <1>4, <1>6, <2>1, ReconcileMatches, OneGateway
  <1>8. CASE SnapshotNotReconciled(g, t)
    <2>1. /\ table' \in [Gateways -> Tables]
          /\ prepared' \in [Gateways -> Tables] /\ file' \in [Gateways -> Tables \union {None}]
          /\ synced' \in [Gateways -> BOOLEAN] /\ ~synced'[g] /\ ReconcileStops(g, t)
          /\ \A h \in Gateways \ {g} : table'[h] = table[h] /\ synced'[h] = synced[h]
      BY <1>2, <1>5, <1>8 DEF SnapshotNotReconciled, Install, GatewayInv
    <2> QED
      BY <1>2, <1>4, <1>6, <2>1, StoppedTyped, OneGateway
  <1>9. CASE SnapshotNotSaved(g)
    <2>1. /\ UNCHANGED <<table, prepared, listeners, file>>
          /\ synced' \in [Gateways -> BOOLEAN] /\ ~synced'[g]
          /\ \A h \in Gateways \ {g} : synced'[h] = synced[h]
      BY <1>9 DEF SnapshotNotSaved, GatewayInv
    <2>2. ListenersType'
      BY <2>1, <1>6 DEF ListenersType
    <2> QED
      BY <1>4, <2>1, <2>2, OneGateway DEF GatewayInv
  <1> QED
    BY <1>3, <1>7, <1>8, <1>9

-------------------------------------------------------------------------------
(* The requests *)

\* A device with a route exists.
StoreInv ==
    /\ RowsInv
    /\ version \in [Devices -> Nat] /\ staged \in [Devices -> Nat] /\ clock \in Nat
    /\ \A d \in Devices : version[d] # 0 \/ staged[d] # 0 => device[d] # None

\* What a request that is under way has read and proposes.
Job(j, r) ==
    /\ j = [device |-> j.device, read |-> j.read, proposed |-> j.proposed, new |-> j.new,
            version |-> j.version]
    /\ j.device \in Devices /\ j.proposed \in DeviceValues /\ j.version \in Nat
    /\ r \in RotateRequests => j.new \in Passwords
    /\ r \in AddRequests => j.new \in Ingresses

Over == {"idle", "done"}

JobInv ==
    /\ pc = [r \in Requests |-> pc[r]] /\ job = [r \in Requests |-> job[r]]
    /\ \A r \in Requests : pc[r] \notin Over =>
          Job(job[r], r) /\ device[job[r].device] # None

RequestInv == StoreInv /\ JobInv

LEMMA RequestsIdle ==
    ASSUME RequestInv, UNCHANGED <<device, version, staged, clock, pc, job>>
    PROVE  RequestInv'
  <1>1. RowsInv'
    BY DEF RequestInv, StoreInv, RowsInv, DeviceRowsConsistent, PortsUnique
  <1>2. JobInv'
    BY DEF RequestInv, JobInv
  <1> QED
    BY <1>1, <1>2 DEF RequestInv, StoreInv

\* The step of one request: the others keep what they have read, and no device
\* goes away.
LEMMA OneRequest ==
    ASSUME RequestInv, NEW r \in Requests, NEW s, NEW j,
           pc' = [pc EXCEPT ![r] = s], job' = [job EXCEPT ![r] = j],
           s \notin Over => Job(j, r) /\ device[j.device] # None,
           \A d \in Devices : device[d] # None => device'[d] # None
    PROVE  JobInv'
  <1>1. ASSUME NEW q \in Requests, pc'[q] \notin Over
        PROVE  Job(job'[q], q) /\ device'[job'[q].device] # None
    <2>1. CASE q = r
      <3>1. pc'[q] = s /\ job'[q] = j
        BY <2>1 DEF RequestInv, JobInv
      <3>2. Job(j, r) /\ device[j.device] # None /\ j.device \in Devices
        BY <3>1, <1>1 DEF Job
      <3> QED
        BY <2>1, <3>1, <3>2
    <2>2. CASE q # r
      <3>1. pc'[q] = pc[q] /\ job'[q] = job[q]
        BY <2>2 DEF RequestInv, JobInv
      <3>2. Job(job[q], q) /\ device[job[q].device] # None /\ job[q].device \in Devices
        BY <3>1, <1>1 DEF RequestInv, JobInv, Job
      <3> QED
        BY <3>1, <3>2
    <2> QED
      BY <2>1, <2>2
  <1>2. pc' = [q \in Requests |-> pc'[q]] /\ job' = [q \in Requests |-> job'[q]]
    BY DEF RequestInv, JobInv
  <1> QED
    BY <1>1, <1>2 DEF JobInv

LEMMA SameRows ==
    ASSUME StoreInv, UNCHANGED <<device, version, staged>>, clock' \in Nat
    PROVE  StoreInv'
BY DEF StoreInv, RowsInv, DeviceRowsConsistent, PortsUnique

\* A request that proposes, or is refused.
LEMMA ProposeStep ==
    ASSUME RequestInv, NEW r \in Requests, NEW d \in Devices,
           UNCHANGED <<device, version, staged>>, clock' \in Nat,
           \/ Refused(r)
           \/ \E p, n, s :
                 /\ p \in DeviceValues /\ GetDevice(d) # None
                 /\ Proposes(r, d, p, n, s)
                 /\ r \in RotateRequests => n \in Passwords
                 /\ r \in AddRequests => n \in Ingresses
    PROVE  RequestInv'
  <1>1. StoreInv'
    BY SameRows DEF RequestInv
  <1>2. CASE Refused(r)
    <2>1. pc' = [pc EXCEPT ![r] = "done"] /\ job' = [job EXCEPT ![r] = job[r]]
      BY <1>2 DEF Refused, Answer, RequestInv, JobInv
    <2> QED
      BY <2>1, <1>1, OneRequest DEF RequestInv, Over
  <1>3. CASE ~Refused(r)
    <2>1. PICK p, n, s :
                 /\ p \in DeviceValues /\ GetDevice(d) # None
                 /\ Proposes(r, d, p, n, s)
                 /\ r \in RotateRequests => n \in Passwords
                 /\ r \in AddRequests => n \in Ingresses
      BY <1>3
    <2> DEFINE j == [device |-> d, read |-> GetDevice(d), proposed |-> p, new |-> n, version |-> 0]
    <2>2. pc' = [pc EXCEPT ![r] = s] /\ job' = [job EXCEPT ![r] = j]
      BY <2>1 DEF Proposes
    <2>3. Job(j, r) /\ device[j.device] # None
      BY <2>1 DEF Job, GetDevice
    <2> HIDE DEF j
    <2> QED
      BY <2>2, <2>3, <1>1, OneRequest DEF RequestInv
  <1> QED
    BY <1>2, <1>3

LEMMA Asked ==
    ASSUME NEW r \in Requests, NEW q \in Asks[r]
    PROVE  /\ q.device \in Devices /\ q.port \in Ports /\ q.method \in Methods
           /\ q.password \in Passwords \union {None}
BY PlaneAssumption

LEMMA PasswordTyped ==
    ASSUME NEW r \in Requests, NEW m \in Methods
    PROVE  Password(r, m) \in Passwords
BY PlaneAssumption DEF Password, Passwords

LEMMA GivenTyped ==
    ASSUME NEW r \in Requests, NEW q \in Asks[r]
    PROVE  Given(r, q) \in Passwords
BY Asked, PasswordTyped DEF Given

LEMMA RotateStep ==
    ASSUME RequestInv, NEW r \in RotateRequests, NEW d \in Devices, RotateCredential(r, d)
    PROVE  RequestInv'
  <1>1. r \in Requests /\ r \notin AddRequests
    BY PlaneAssumption DEF Requests, Deployments, IngressRequests
  <1>2. UNCHANGED <<device, version, staged, clock>> /\ clock' \in Nat
    BY DEF RotateCredential, Refused, RequestInv, StoreInv
  <1>3. CASE Refused(r)
    BY <1>1, <1>2, <1>3, ProposeStep
  <1>4. CASE ~Refused(r)
    <2> DEFINE v == GetDevice(d)
               pw == Password(r, v.method)
    <2>1. v # None /\ Proposes(r, d, ProposeRotate(v, pw), pw, "lock")
      BY <1>4 DEF RotateCredential
    <2>2. v \in DeviceValues
      BY <2>1, RowsOf DEF RequestInv, StoreInv, GetDevice
    <2>3. pw \in Passwords
      BY <2>2, <1>1, PasswordTyped DEF DeviceValues
    <2>4. ProposeRotate(v, pw) \in DeviceValues
      BY <2>2, <2>3, SetPasswordFacts
    <2> HIDE DEF v, pw
    <2>5. \E p, n, s : /\ p \in DeviceValues /\ GetDevice(d) # None /\ Proposes(r, d, p, n, s)
                       /\ r \in RotateRequests => n \in Passwords
                       /\ r \in AddRequests => n \in Ingresses
      BY <2>1, <2>3, <2>4, <1>1 DEF v
    <2> QED
      BY <1>1, <1>2, <2>5, ProposeStep
  <1> QED
    BY <1>3, <1>4

LEMMA AddStep ==
    ASSUME RequestInv, NEW r \in AddRequests, NEW q \in Asks[r], AddIngress(r, q)
    PROVE  RequestInv'
  <1> DEFINE d == q.device
  <1>1. r \in Requests /\ r \notin RotateRequests
    BY PlaneAssumption DEF Requests, Deployments, IngressRequests
  <1>2. UNCHANGED <<device, version, staged>> /\ clock \in Nat /\ clock' \in Nat
    BY DEF AddIngress, Refused, RequestInv, StoreInv
  <1>5. d \in Devices /\ q.port \in Ports /\ q.method \in Methods /\ Given(r, q) \in Passwords
    BY <1>1, Asked, GivenTyped
  <1>3. CASE Refused(r)
    BY <1>1, <1>2, <1>3, <1>5, ProposeStep
  <1>4. CASE ~Refused(r)
    <2> DEFINE v == GetDevice(d)
               n == [port |-> q.port, method |-> q.method, password |-> Given(r, q),
                     primary |-> FALSE, at |-> clock]
               S == EffectiveIngresses(v) \union {n}
    <2>1. v # None /\ Proposes(r, d, [v EXCEPT !.ingresses = S], n, "lock")
      BY <1>4 DEF AddIngress
    <2>2. v \in DeviceValues
      BY <1>5, <2>1, RowsOf DEF RequestInv, StoreInv, GetDevice
    <2>3. n \in Ingresses
      BY <1>2, <1>5 DEF Ingresses
    <2> HIDE DEF n
    <2>4. S \in SUBSET Ingresses
      BY <2>2, <2>3, EffectiveTyped
    <2> HIDE DEF S, v, d
    <2>5. [v EXCEPT !.ingresses = S] \in DeviceValues
      BY <2>2, <2>4 DEF DeviceValues
    <2>6. \E x, y, s : /\ x \in DeviceValues /\ GetDevice(d) # None /\ Proposes(r, d, x, y, s)
                       /\ r \in RotateRequests => y \in Passwords
                       /\ r \in AddRequests => y \in Ingresses
      BY <2>1, <2>3, <2>5, <1>1 DEF v
    <2> QED
      BY <1>1, <1>2, <1>5, <2>6, ProposeStep
  <1> QED
    BY <1>3, <1>4

LEMMA ProposeDeleteTyped ==
    ASSUME NEW v \in DeviceValues, OwnPorts(v.ingresses), NEW p,
           Cardinality(EffectiveIngresses(v)) > 1
    PROVE  ProposeDelete(v, p) \in DeviceValues
  <1> DEFINE E == EffectiveIngresses(v)
             R == {i \in E : i.port # p}
             n == CHOOSE i \in R : \A j \in R : i = j \/ Before(i, j)
  <1>1. E \in SUBSET Ingresses /\ OwnPorts(E)
    BY EffectiveTyped DEF EffectiveIngresses, OwnPorts
  <1>2. Cardinality(E) \notin {0, 1}
    OBVIOUS
  <1>3. CASE \E i \in E : i.port = p /\ i.primary
    <2>1. R # {} /\ R \in SUBSET Ingresses /\ OwnPorts(R)
      BY <1>1, <1>2, SomeAreLeft DEF OwnPorts
    <2>2. n = Oldest(R)
      BY DEF Oldest
    <2>3. ProposeDelete(v, p) = [port |-> n.port, method |-> n.method, password |-> n.password,
                                 ingresses |-> (R \ {n}) \union {[n EXCEPT !.primary = TRUE]}]
      BY <1>3 DEF ProposeDelete
    <2> HIDE DEF n, R
    <2>4. n \in R /\ n \in Ingresses
      BY <2>1, <2>2, OldestIsOne
    <2>5. [n EXCEPT !.primary = TRUE] \in Ingresses
      BY <2>4, AsPrimaryFacts
    <2> DEFINE k == [n EXCEPT !.primary = TRUE]
    <2> HIDE DEF k
    <2>6. ProposeDelete(v, p) = [port |-> n.port, method |-> n.method, password |-> n.password,
                                 ingresses |-> (R \ {n}) \union {k}]
      BY <2>3 DEF k
    <2>7. k \in Ingresses
      BY <2>5 DEF k
    <2> QED
      BY <2>1, <2>4, <2>6, <2>7 DEF DeviceValues, Ingresses
  <1>4. CASE ~\E i \in E : i.port = p /\ i.primary
    <2>1. ProposeDelete(v, p) = [v EXCEPT !.ingresses = R]
      BY <1>4 DEF ProposeDelete
    <2>2. R \in SUBSET Ingresses
      BY <1>1
    <2> HIDE DEF R
    <2> QED
      BY <2>1, <2>2 DEF DeviceValues
  <1> QED
    BY <1>3, <1>4

LEMMA DeleteStep ==
    ASSUME RequestInv, NEW r \in DeleteRequests, NEW d \in Devices, NEW p, DeleteIngress(r, d, p)
    PROVE  RequestInv'
  <1>1. r \in Requests /\ r \notin RotateRequests /\ r \notin AddRequests
    BY PlaneAssumption DEF Requests, Deployments, IngressRequests
  <1>2. UNCHANGED <<device, version, staged>> /\ clock' \in Nat
    BY DEF DeleteIngress, Refused, RequestInv, StoreInv
  <1>3. CASE Refused(r)
    BY <1>1, <1>2, <1>3, ProposeStep
  <1>4. CASE ~Refused(r)
    <2> DEFINE v == GetDevice(d)
    <2>1. /\ v # None /\ Proposes(r, d, ProposeDelete(v, p), p, "lock")
          /\ Cardinality(EffectiveIngresses(v)) > 1
      BY <1>4 DEF DeleteIngress
    <2>2. v \in DeviceValues /\ OwnPorts(v.ingresses)
      BY <2>1, RowsOf DEF RequestInv, StoreInv, GetDevice
    <2>3. ProposeDelete(v, p) \in DeviceValues
      BY <2>1, <2>2, ProposeDeleteTyped
    <2> HIDE DEF v
    <2>4. \E x, y, s : /\ x \in DeviceValues /\ GetDevice(d) # None /\ Proposes(r, d, x, y, s)
                       /\ r \in RotateRequests => y \in Passwords
                       /\ r \in AddRequests => y \in Ingresses
      BY <2>1, <2>3, <1>1 DEF v
    <2> QED
      BY <1>1, <1>2, <2>4, ProposeStep
  <1> QED
    BY <1>3, <1>4

LEMMA RouteKind ==
    ASSUME NEW r \in RouteRequests
    PROVE  r \in Requests /\ r \notin IngressRequests /\ r \notin RotateRequests
           /\ r \notin AddRequests /\ r \notin DeleteRequests
BY PlaneAssumption DEF Requests, Deployments, IngressRequests

LEMMA PutRouteStep ==
    ASSUME RequestInv, NEW r \in RouteRequests, NEW d \in Devices, PutRoute(r, d)
    PROVE  RequestInv'
  <1>1. r \in Requests /\ r \notin RotateRequests /\ r \notin AddRequests
    BY RouteKind
  <1>2. UNCHANGED <<device, version, staged>> /\ clock' \in Nat
    BY DEF PutRoute, Refused, RequestInv, StoreInv
  <1>3. CASE Refused(r)
    BY <1>1, <1>2, <1>3, ProposeStep
  <1>4. CASE ~Refused(r)
    <2>1. GetDevice(d) # None /\ Proposes(r, d, GetDevice(d), None, "stage")
      BY <1>4 DEF PutRoute
    <2>2. GetDevice(d) \in DeviceValues
      BY <2>1, RowsOf DEF RequestInv, StoreInv, GetDevice
    <2>3. \E x, y, s : /\ x \in DeviceValues /\ GetDevice(d) # None /\ Proposes(r, d, x, y, s)
                       /\ r \in RotateRequests => y \in Passwords
                       /\ r \in AddRequests => y \in Ingresses
      BY <2>1, <2>2, <1>1
    <2> QED
      BY <1>1, <1>2, <2>3, ProposeStep
  <1> QED
    BY <1>3, <1>4

LEMMA StageStep ==
    ASSUME RequestInv, NEW r \in RouteRequests, Stage(r)
    PROVE  RequestInv'
  <1> DEFINE d == job[r].device
  <1>1. r \in Requests /\ r \notin RotateRequests /\ r \notin AddRequests
    BY RouteKind
  <1>2. Job(job[r], r) /\ device[d] # None /\ d \in Devices
    BY <1>1 DEF Stage, RequestInv, JobInv, Job, Over
  <1>3. UNCHANGED <<device, version, clock>>
    BY DEF Stage
  <1>4. RowsInv'
    BY <1>3 DEF RequestInv, StoreInv, RowsInv, DeviceRowsConsistent, PortsUnique
  <1>5. CASE Answer(r, "refused") /\ UNCHANGED <<staged, job>>
    <2>1. pc' = [pc EXCEPT ![r] = "done"] /\ job' = [job EXCEPT ![r] = job[r]]
      BY <1>5 DEF Answer, RequestInv, JobInv
    <2>2. JobInv'
      BY <2>1, <1>1, <1>3, OneRequest DEF Over
    <2> QED
      BY <2>2, <1>3, <1>4, <1>5 DEF RequestInv, StoreInv
  <1>6. CASE ~(Answer(r, "refused") /\ UNCHANGED <<staged, job>>)
    <2> DEFINE n == version[d] + 1
               j == [device |-> d, read |-> job[r].read, proposed |-> job[r].proposed,
                     new |-> job[r].new, version |-> n]
    <2>1. /\ staged' = [staged EXCEPT ![d] = n]
          /\ job' = [job EXCEPT ![r].version = n]
          /\ pc' = [pc EXCEPT ![r] = "lock"]
      BY <1>6 DEF Stage
    <2>2. n \in Nat
      BY <1>2 DEF RequestInv, StoreInv
    <2> HIDE DEF n
    <2>3. [job[r] EXCEPT !.version = n] = j
      BY <1>2 DEF Job
    <2>4. job' = [job EXCEPT ![r] = j]
      BY <2>1, <2>3, <1>1 DEF RequestInv, JobInv
    <2>5. Job(j, r) /\ device[j.device] # None
      BY <1>1, <1>2, <2>2 DEF Job
    <2> HIDE DEF j
    <2>6. JobInv'
      BY <2>1, <2>4, <2>5, <1>1, <1>3, OneRequest
    <2>7. StoreInv'
      BY <2>1, <2>2, <1>2, <1>3, <1>4 DEF RequestInv, StoreInv
    <2> QED
      BY <2>6, <2>7 DEF RequestInv
  <1> QED
    BY <1>5, <1>6

LEMMA CreateStep ==
    ASSUME RequestInv, NEW r \in CreateRequests, NEW q \in Asks[r], Create(r, q)
    PROVE  RequestInv' /\ DevicesStay
  <1> DEFINE d == q.device
             v == [port |-> q.port, method |-> q.method, password |-> Given(r, q), ingresses |-> {}]
  <1>1. r \in Requests
    BY DEF Requests
  <1>2. /\ pc' = [pc EXCEPT ![r] = "done"] /\ job' = [job EXCEPT ![r] = job[r]]
        /\ UNCHANGED <<version, staged, clock>>
        /\ CreateDevice(d, v) \/ UNCHANGED device
    BY DEF Create, Answer, RequestInv, JobInv
  <1>3. d \in Devices /\ q.port \in Ports /\ q.method \in Methods /\ Given(r, q) \in Passwords
    BY <1>1, Asked, GivenTyped
  <1>4. RowsInv
    BY DEF RequestInv, StoreInv
  <1>5. RowsInv' /\ DevicesStay
    <2>1. CASE CreateDevice(d, v)
      BY <2>1, <1>3, <1>4, CreateKeepsRows
    <2>2. CASE UNCHANGED device
      BY <2>2, <1>4 DEF RowsInv, DeviceRowsConsistent, PortsUnique, DevicesStay
    <2> QED
      BY <1>2, <2>1, <2>2
  <1>7. JobInv'
    BY <1>1, <1>2, <1>5, OneRequest DEF Over, DevicesStay
  <1> QED
    BY <1>2, <1>5, <1>7 DEF RequestInv, StoreInv, DevicesStay

-------------------------------------------------------------------------------
(* The deployments *)

LEMMA CommitKeepsStore ==
    ASSUME RequestInv, NEW r \in Deployments, NEW j, Job(j, r), device[j.device] # None,
           CommitChange(r, j), UNCHANGED clock
    PROVE  StoreInv' /\ DevicesStay
  <1> DEFINE d == j.device
  <1>2. Job(j, r) /\ device[d] # None /\ d \in Devices
    BY DEF Job
  <1>3. StoreInv /\ RowsInv
    BY DEF RequestInv, StoreInv
  <1>4. CASE r \in RotateRequests /\ UpdateDeviceCredential(d, j.new)
             /\ UNCHANGED <<version, staged>>
    <2>1. RowsInv' /\ DevicesStay
      BY <1>2, <1>3, <1>4, RotateKeepsRows DEF Job
    <2> QED
      BY <2>1, <1>3, <1>4 DEF StoreInv, DevicesStay
  <1>5. CASE r \in AddRequests /\ AddDeviceIngress(d, j.new)
             /\ UNCHANGED <<version, staged>>
    <2>1. RowsInv' /\ DevicesStay
      BY <1>2, <1>3, <1>5, AddKeepsRows DEF Job
    <2> QED
      BY <2>1, <1>3, <1>5 DEF StoreInv, DevicesStay
  <1>6. CASE r \in DeleteRequests /\ DeleteDeviceIngress(d, j.new)
             /\ UNCHANGED <<version, staged>>
    <2>1. RowsInv' /\ DevicesStay
      BY <1>2, <1>3, <1>6, DeleteKeepsRows
    <2> QED
      BY <2>1, <1>3, <1>6 DEF StoreInv, DevicesStay
  <1>7. CASE /\ r \in RouteRequests
             /\ version' = [version EXCEPT ![d] = staged[d]]
             /\ staged' = [staged EXCEPT ![d] = 0]
             /\ UNCHANGED device
    <2>1. RowsInv'
      BY <1>3, <1>7 DEF RowsInv, DeviceRowsConsistent, PortsUnique
    <2> QED
      BY <2>1, <1>2, <1>3, <1>7 DEF StoreInv, DevicesStay
  <1> QED
    BY <1>4, <1>5, <1>6, <1>7 DEF CommitChange

LEMMA Finished ==
    ASSUME RequestInv, NEW r \in Requests, NEW s, Finish(r, s), DevicesStay
    PROVE  JobInv'
  <1>1. pc' = [pc EXCEPT ![r] = "done"] /\ job' = [job EXCEPT ![r] = NoJob]
    BY DEF Finish, Answer
  <1> QED
    BY <1>1, OneRequest DEF Over, DevicesStay

LEMMA FrameTyped ==
    ASSUME RequestInv, NEW r \in Deployments, pc[r] \notin Over,
           NEW ty \in {"PREPARE", "ACTIVATE", "DEVICE_PREPARE", "DEVICE_UPDATE"}
    PROVE  Frame(ty, r) \in Frames
  <1>1. Job(job[r], r)
    BY DEF RequestInv, JobInv, Requests
  <1>2. [version |-> job[r].version, dev |-> job[r].proposed] \in TableRoutes
    BY <1>1 DEF Job, TableRoutes
  <1> QED
    BY <1>1, <1>2 DEF Frame, Frames, Job

LEMMA BroadcastTyped ==
    ASSUME GatewayInv, NEW S, NEW f \in Frames, Broadcast(S, f)
    PROVE  inbox' \in [Gateways -> Seq(Frames)]
BY DEF GatewayInv, Broadcast

LEMMA LockStep ==
    ASSUME RequestInv, GatewayInv, NEW r \in Deployments, LockAndPrepare(r)
    PROVE  RequestInv' /\ GatewayInv'
  <1>1. r \in Requests /\ pc[r] = "lock"
    BY DEF Requests, LockAndPrepare
  <1>2. UNCHANGED <<device, version, staged, clock, ingressVars>>
    BY DEF LockAndPrepare
  <1>3. StoreInv' /\ DevicesStay
    BY <1>2, SameRows DEF RequestInv, StoreInv, DevicesStay
  <1>4. CASE Finish(r, "failed") /\ UNCHANGED inbox
    <2>1. JobInv'
      BY <1>1, <1>3, <1>4, Finished
    <2>2. GatewayInv'
      BY <1>2, <1>4, GatewaysIdle DEF ingressVars, GatewayInv
    <2> QED
      BY <2>1, <2>2, <1>3 DEF RequestInv
  <1>5. CASE /\ pc' = [pc EXCEPT ![r] = "prepare"] /\ UNCHANGED job
             /\ Broadcast(ReadyGateways, Frame(PrepareType(r), r))
    <2>1. Job(job[r], r) /\ device[job[r].device] # None
      BY <1>1 DEF RequestInv, JobInv, Over
    <2>2. job' = [job EXCEPT ![r] = job[r]]
      BY <1>5 DEF RequestInv, JobInv
    <2>3. JobInv'
      BY <2>1, <2>2, <1>1, <1>3, <1>5, OneRequest DEF DevicesStay
    <2>4. Frame(PrepareType(r), r) \in Frames
      BY <1>1, FrameTyped DEF PrepareType, Over
    <2>5. inbox' \in [Gateways -> Seq(Frames)]
      BY <1>5, <2>4, BroadcastTyped
    <2>6. GatewayInv'
      BY <1>2, <2>5, GatewaysIdle DEF ingressVars
    <2> QED
      BY <2>3, <2>6, <1>3 DEF RequestInv
  <1> QED
    BY <1>4, <1>5 DEF LockAndPrepare

LEMMA CommitStep ==
    ASSUME RequestInv, GatewayInv, NEW r \in Deployments, Commit(r)
    PROVE  RequestInv' /\ GatewayInv' /\ DevicesStay
  <1>1. r \in Requests /\ pc[r] = "prepare"
    BY DEF Requests, Commit
  <1>2. UNCHANGED <<clock, ingressVars>>
    BY DEF Commit
  <1>3. StoreInv' /\ DevicesStay
    <2>1. CASE CommitChange(r, job[r])
      <3>1. Job(job[r], r) /\ device[job[r].device] # None
        BY <1>1 DEF RequestInv, JobInv, Over
      <3> QED
        BY <2>1, <3>1, <1>2, CommitKeepsStore
    <2>2. CASE UNCHANGED <<device, version, staged>>
      BY <2>2, <1>2, SameRows DEF RequestInv, StoreInv, DevicesStay
    <2> QED
      BY <2>1, <2>2 DEF Commit
  <1>4. CASE Finish(r, "failed") /\ UNCHANGED inbox
    <2>1. JobInv'
      BY <1>1, <1>3, <1>4, Finished
    <2>2. GatewayInv'
      BY <1>2, <1>4, GatewaysIdle DEF ingressVars, GatewayInv
    <2> QED
      BY <2>1, <2>2, <1>3 DEF RequestInv
  <1>5. CASE /\ pc' = [pc EXCEPT ![r] = "update"] /\ UNCHANGED job
             /\ Broadcast(live[r], Frame(UpdateType(r), r))
    <2>1. Job(job[r], r) /\ device[job[r].device] # None
      BY <1>1 DEF RequestInv, JobInv, Over
    <2>2. job' = [job EXCEPT ![r] = job[r]]
      BY <1>5 DEF RequestInv, JobInv
    <2>3. JobInv'
      BY <2>1, <2>2, <1>1, <1>3, <1>5, OneRequest DEF DevicesStay
    <2>4. Frame(UpdateType(r), r) \in Frames
      BY <1>1, FrameTyped DEF UpdateType, Over
    <2>5. inbox' \in [Gateways -> Seq(Frames)]
      BY <1>5, <2>4, BroadcastTyped
    <2>6. GatewayInv'
      BY <1>2, <2>5, GatewaysIdle DEF ingressVars
    <2> QED
      BY <2>3, <2>6, <1>3 DEF RequestInv
  <1> QED
    BY <1>4, <1>5 DEF Commit

LEMMA EndStep ==
    ASSUME RequestInv, GatewayInv, NEW r \in Deployments, Succeed(r) \/ GiveUp(r)
    PROVE  RequestInv' /\ GatewayInv'
  <1>1. r \in Requests
    BY DEF Requests
  <1>2. UNCHANGED <<device, version, staged, clock, ingressVars, inbox>>
    BY DEF Succeed, GiveUp, hubVars
  <1>3. StoreInv' /\ DevicesStay
    BY <1>2, SameRows DEF RequestInv, StoreInv, DevicesStay
  <1>4. JobInv'
    BY <1>1, <1>3, Finished DEF Succeed, GiveUp
  <1>5. GatewayInv'
    BY <1>2, GatewaysIdle DEF ingressVars, GatewayInv
  <1> QED
    BY <1>3, <1>4, <1>5 DEF RequestInv

-------------------------------------------------------------------------------
(* Streams and processes *)

LEMMA ActiveRoutesTyped ==
    ASSUME RequestInv
    PROVE  ActiveRoutes \in Tables
  <1>1. ASSUME NEW d \in Devices
        PROVE  (IF version[d] = 0 THEN None ELSE [version |-> version[d], dev |-> device[d]])
                 \in TableRoutes \union {None}
    <2>1. CASE version[d] = 0
      BY <2>1
    <2>2. CASE version[d] # 0
      <3>1. device[d] \in DeviceValues /\ version[d] \in Nat
        BY <2>2 DEF RequestInv, StoreInv, RowsInv
      <3> QED
        BY <2>2, <3>1 DEF TableRoutes
    <2> QED
      BY <2>1, <2>2
  <1> QED
    BY <1>1 DEF ActiveRoutes, Tables

\* What ListActiveRoutes has read so far.
Snapshots == [table : Tables, unread : SUBSET Devices, torn : BOOLEAN]

\* The devices of a snapshot that is being read exist.
SnapshotInv ==
    /\ snapshot = [g \in Gateways |-> snapshot[g]] /\ link = [g \in Gateways |-> link[g]]
    /\ \A g \in Gateways : link[g] = "reading" =>
          /\ snapshot[g] \in Snapshots
          /\ \A d \in snapshot[g].unread : snapshot[g].table[d] # None
          /\ \A d \in Devices : snapshot[g].table[d] # None => device[d] # None

\* The commits that nobody waits for.
LateInv ==
    /\ late = [r \in Requests |-> late[r]] /\ answer = [r \in Requests |-> answer[r]]
    /\ \A r \in Requests : late[r] # NoJob =>
          /\ Job(late[r], r) /\ device[late[r].device] # None
          /\ pc[r] = "done" /\ answer[r] # "success"

LEMMA LateStep ==
    ASSUME RequestInv, GatewayInv, LateInv, NEW r \in Deployments, LateCommit(r)
    PROVE  RequestInv' /\ GatewayInv' /\ DevicesStay
  <1>1. r \in Requests
    BY DEF Requests
  <1>2. Job(late[r], r) /\ device[late[r].device] # None
    BY <1>1 DEF LateInv, LateCommit
  <1>3. /\ UNCHANGED <<clock, pc, job, table, prepared, listeners, synced, file, inbox>>
        /\ CommitChange(r, late[r])
    BY DEF LateCommit, ingressVars, hubVars
  <1>4. StoreInv' /\ DevicesStay
    BY <1>2, <1>3, CommitKeepsStore
  <1>5. JobInv'
    <2>1. ASSUME NEW q \in Requests, pc[q] \notin Over
          PROVE  Job(job[q], q) /\ device'[job[q].device] # None
      <3>1. Job(job[q], q) /\ device[job[q].device] # None /\ job[q].device \in Devices
        BY <2>1 DEF RequestInv, JobInv, Job
      <3> QED
        BY <3>1, <1>4 DEF DevicesStay
    <2> QED
      BY <2>1, <1>3 DEF RequestInv, JobInv
  <1> QED
    BY <1>3, <1>4, <1>5, GatewaysIdle DEF RequestInv, GatewayInv

LEMMA StreamSteps ==
    ASSUME RequestInv, GatewayInv, SnapshotInv, NEW g \in Gateways,
           \/ Connect(g) \/ (\E d \in Devices : LoadIngresses(g, d)) \/ SendSnapshot(g)
           \/ Disconnect(g) \/ Heartbeat(g) \/ LocalDrain(g)
    PROVE  RequestInv' /\ GatewayInv'
  <1>1. UNCHANGED <<device, version, staged, clock, pc, job, table, prepared, listeners, synced, file>>
    BY DEF Connect, LoadIngresses, SendSnapshot, Disconnect, Heartbeat, LocalDrain, requestVars,
           ingressVars
  <1>2. inbox' \in [Gateways -> Seq(Frames)]
    <2>1. CASE SendSnapshot(g)
      <3> DEFINE f == [type |-> "SNAPSHOT", req |-> None, table |-> snapshot[g].table,
                       torn |-> snapshot[g].torn]
      <3>1. snapshot[g] \in Snapshots
        BY <2>1 DEF SendSnapshot, SnapshotInv
      <3>2. f \in Frames
        BY <3>1 DEF Frames, Snapshots
      <3>3. inbox' = [inbox EXCEPT ![g] = <<f>>]
        BY <2>1 DEF SendSnapshot
      <3> HIDE DEF f
      <3> QED
        BY <3>2, <3>3 DEF GatewayInv
    <2>2. CASE Disconnect(g)
      BY <2>2 DEF Disconnect, EndSession, GatewayInv
    <2>3. CASE Heartbeat(g) \/ LocalDrain(g) \/ Connect(g) \/ (\E d \in Devices : LoadIngresses(g, d))
      BY <2>3 DEF Heartbeat, LocalDrain, Connect, LoadIngresses, hubVars, GatewayInv
    <2> QED
      BY <2>1, <2>2, <2>3
  <1> QED
    BY <1>1, <1>2, RequestsIdle, GatewaysIdle

LEMMA RestartStep ==
    ASSUME RequestInv, GatewayInv, NEW g \in Gateways, GatewayRestart(g)
    PROVE  RequestInv' /\ GatewayInv'
  <1> DEFINE t == IF file[g] = None THEN NoTable ELSE file[g]
  <1>1. UNCHANGED <<device, version, staged, clock, pc, job>>
    BY DEF GatewayRestart
  <1>2. NoTable \in Tables /\ t \in Tables
    BY DEF NoTable, Tables, GatewayInv
  <1>3. NoListeners \in [Ports -> Listeners \union {None}]
    BY DEF NoListeners
  <1>4. ListenersFor(Desired(t)) \in [Ports -> Listeners \union {None}]
    <2> HIDE DEF t
    <2>1. \A p \in Ports : ListenersFor(Desired(t))[p] \in Listeners \union {None}
      BY <1>2, ListenersForTyped
    <2>2. DOMAIN ListenersFor(Desired(t)) = Ports
          /\ ListenersFor(Desired(t)) = [p \in Ports |-> ListenersFor(Desired(t))[p]]
      BY DEF ListenersFor
    <2> QED
      BY <2>1, <2>2
  <1> DEFINE new == ListenersFor(Desired(t))
  <1>5. /\ table' = [table EXCEPT ![g] = t] \/ table' = [table EXCEPT ![g] = NoTable]
        /\ prepared' = [prepared EXCEPT ![g] = NoTable]
        /\ \/ listeners' = [listeners EXCEPT ![g] = new]
           \/ listeners' = [listeners EXCEPT ![g] = NoListeners]
        /\ synced' = [synced EXCEPT ![g] = FALSE]
        /\ UNCHANGED file
        /\ inbox' = [inbox EXCEPT ![g] = <<>>]
    BY DEF GatewayRestart, Restart, CannotStart, Install, EndSession
  <1> HIDE DEF t, new
  <1>6. /\ table' \in [Gateways -> Tables] /\ prepared' \in [Gateways -> Tables]
        /\ file' \in [Gateways -> Tables \union {None}]
        /\ \A h \in Gateways \ {g} : table'[h] = table[h]
    BY <1>2, <1>5 DEF GatewayInv
  <1>7. /\ synced' \in [Gateways -> BOOLEAN] /\ ~synced'[g]
        /\ \A h \in Gateways \ {g} : synced'[h] = synced[h]
    BY <1>5 DEF GatewayInv
  <1>8. inbox' \in [Gateways -> Seq(Frames)]
    BY <1>5 DEF GatewayInv
  <1>9. ListenersType' /\ \A h \in Gateways \ {g} : listeners'[h] = listeners[h]
    BY <1>3, <1>4, <1>5 DEF GatewayInv, ListenersType, new
  <1>10. GatewayInv'
    BY <1>6, <1>7, <1>8, <1>9, OneGateway
  <1> QED
    BY <1>1, <1>10, RequestsIdle

LEMMA ControlPlaneStep ==
    ASSUME RequestInv, GatewayInv, ControlPlaneRestart
    PROVE  RequestInv' /\ GatewayInv'
  <1>1. UNCHANGED <<device, version, staged, clock, table, prepared, listeners, synced, file>>
    BY DEF ControlPlaneRestart, ingressVars
  <1>2. inbox' \in [Gateways -> Seq(Frames)]
    BY DEF ControlPlaneRestart
  <1>3. /\ pc' = [r \in Requests |-> IF pc[r] = "idle" THEN "idle" ELSE "done"]
        /\ job' = [r \in Requests |-> NoJob]
    BY DEF ControlPlaneRestart
  <1>4. JobInv'
    BY <1>3 DEF JobInv, Over
  <1>5. StoreInv'
    BY <1>1, SameRows DEF RequestInv, StoreInv
  <1> QED
    BY <1>1, <1>2, <1>4, <1>5, GatewaysIdle DEF RequestInv

LEMMA FrameSteps ==
    ASSUME RequestInv, GatewayInv, NEW g \in Gateways,
           \/ OnSnapshot(g) \/ OnDevicePrepare(g) \/ OnDeviceUpdate(g)
           \/ OnPrepare(g) \/ OnActivate(g)
    PROVE  RequestInv' /\ GatewayInv'
  <1>1. UNCHANGED <<device, version, staged, clock, pc, job>>
    BY DEF OnSnapshot, OnDevicePrepare, OnDeviceUpdate, OnPrepare, OnActivate, ApplyTable, Ack
  <1>2. GatewayInv'
    BY SnapshotStep, PrepareSteps, DeviceUpdateStep, ActivateStep
  <1> QED
    BY <1>1, <1>2, RequestsIdle

-------------------------------------------------------------------------------
(* Commits that nobody waits for, and snapshots that are being read *)

\* The step of one request.
LEMMA LateOfOne ==
    ASSUME RequestInv, LateInv, NEW r \in Requests, pc[r] # "done", NEW s, NEW a,
           pc' = [pc EXCEPT ![r] = s], answer' = [answer EXCEPT ![r] = a],
           \/ late' = late
           \/ /\ late' = [late EXCEPT ![r] = job[r]]
              /\ s = "done" /\ a # "success" /\ pc[r] # "idle",
           DevicesStay
    PROVE  LateInv'
  <1>1. ASSUME NEW q \in Requests, late'[q] # NoJob
        PROVE  /\ Job(late'[q], q) /\ device'[late'[q].device] # None
               /\ pc'[q] = "done" /\ answer'[q] # "success"
    <2>1. CASE q = r /\ late' # late
      <3>1. late'[q] = job[r] /\ pc'[q] = "done" /\ answer'[q] # "success" /\ pc[r] \notin Over
        BY <2>1 DEF LateInv, RequestInv, JobInv, Over
      <3>2. Job(job[r], r) /\ device[job[r].device] # None
        BY <3>1 DEF RequestInv, JobInv
      <3>3. job[r].device \in Devices
        BY <3>2 DEF Job
      <3> QED
        BY <2>1, <3>1, <3>2, <3>3 DEF DevicesStay
    <2>2. CASE ~(q = r /\ late' # late)
      <3>1. late'[q] = late[q]
        BY <2>2 DEF LateInv
      <3>2. /\ Job(late[q], q) /\ device[late[q].device] # None
            /\ pc[q] = "done" /\ answer[q] # "success"
        BY <3>1, <1>1 DEF LateInv
      <3>3. q # r /\ late[q].device \in Devices
        BY <3>2 DEF Job
      <3>4. pc'[q] = pc[q] /\ answer'[q] = answer[q]
        BY <3>3 DEF RequestInv, JobInv, LateInv
      <3> QED
        BY <3>1, <3>2, <3>3, <3>4 DEF DevicesStay
    <2> QED
      BY <2>1, <2>2
  <1>2. late' = [q \in Requests |-> late'[q]] /\ answer' = [q \in Requests |-> answer'[q]]
    BY DEF LateInv
  <1> QED
    BY <1>1, <1>2 DEF LateInv

LEMMA LateKept ==
    ASSUME LateInv, UNCHANGED <<late, pc, answer>>, DevicesStay
    PROVE  LateInv'
  <1>1. ASSUME NEW q \in Requests, late[q] # NoJob
        PROVE  /\ Job(late[q], q) /\ device'[late[q].device] # None
               /\ pc[q] = "done" /\ answer[q] # "success"
    <2>1. Job(late[q], q) /\ device[late[q].device] # None /\ late[q].device \in Devices
      BY <1>1 DEF LateInv, Job
    <2> QED
      BY <1>1, <2>1 DEF LateInv, DevicesStay
  <1> QED
    BY <1>1 DEF LateInv

LEMMA LateCommitted ==
    ASSUME LateInv, NEW r \in Requests, late' = [late EXCEPT ![r] = NoJob],
           UNCHANGED <<pc, answer>>, DevicesStay
    PROVE  LateInv'
  <1>1. ASSUME NEW q \in Requests, late'[q] # NoJob
        PROVE  /\ Job(late'[q], q) /\ device'[late'[q].device] # None
               /\ pc[q] = "done" /\ answer[q] # "success"
    <2>0. late'[q] = late[q]
      BY <1>1 DEF LateInv
    <2>1. Job(late[q], q) /\ device[late[q].device] # None /\ late[q].device \in Devices
      BY <1>1, <2>0 DEF LateInv, Job
    <2> QED
      BY <1>1, <2>0, <2>1 DEF LateInv, DevicesStay
  <1>2. late' = [q \in Requests |-> late'[q]]
    BY DEF LateInv
  <1> QED
    BY <1>1, <1>2 DEF LateInv

\* What the database reads has the devices of the rows.
LEMMA ActiveRoutesExist ==
    ASSUME RequestInv, NEW d \in Devices, ActiveRoutes[d] # None
    PROVE  device[d] # None /\ version[d] # 0 /\ ActiveRoutes[d].dev = device[d]
BY DEF ActiveRoutes, RequestInv, StoreInv

\* A snapshot that is read for one gateway, or given up.
LEMMA OneSnapshot ==
    ASSUME SnapshotInv, NEW g \in Gateways, NEW x, NEW l, DevicesStay,
           snapshot' = [snapshot EXCEPT ![g] = x], link' = [link EXCEPT ![g] = l],
           l = "reading" => /\ x \in Snapshots
                            /\ \A d \in x.unread : x.table[d] # None
                            /\ \A d \in Devices : x.table[d] # None => device'[d] # None
    PROVE  SnapshotInv'
  <1>1. ASSUME NEW h \in Gateways, link'[h] = "reading"
        PROVE  /\ snapshot'[h] \in Snapshots
               /\ \A d \in snapshot'[h].unread : snapshot'[h].table[d] # None
               /\ \A d \in Devices : snapshot'[h].table[d] # None => device'[d] # None
    <2>1. CASE h = g
      BY <1>1, <2>1 DEF SnapshotInv
    <2>2. CASE h # g
      BY <1>1, <2>2 DEF SnapshotInv, DevicesStay
    <2> QED
      BY <2>1, <2>2
  <1>2. snapshot' = [h \in Gateways |-> snapshot'[h]] /\ link' = [h \in Gateways |-> link'[h]]
    BY DEF SnapshotInv
  <1> QED
    BY <1>1, <1>2 DEF SnapshotInv

LEMMA SnapshotsKept ==
    ASSUME SnapshotInv, UNCHANGED <<snapshot, link>>, DevicesStay
    PROVE  SnapshotInv'
BY DEF SnapshotInv, DevicesStay

\* A route with other ingresses.
LEMMA OtherIngresses ==
    ASSUME NEW rt \in TableRoutes, NEW S \in SUBSET Ingresses
    PROVE  /\ [rt EXCEPT !.dev.ingresses = S] \in TableRoutes
           /\ [rt EXCEPT !.dev.ingresses = S] =
                [version |-> rt.version,
                 dev |-> [port |-> rt.dev.port, method |-> rt.dev.method,
                          password |-> rt.dev.password, ingresses |-> S]]
BY DEF TableRoutes, DeviceValues

\* The table with the ingresses of one device.
WithIngresses(t, d, S) == [t EXCEPT ![d].dev.ingresses = S]

LEMMA WithIngressesFacts ==
    ASSUME NEW t \in Tables, NEW d \in Devices, t[d] # None, NEW S \in SUBSET Ingresses
    PROVE  /\ WithIngresses(t, d, S) \in Tables
           /\ WithIngresses(t, d, S)[d] # None
           /\ WithIngresses(t, d, S)[d] =
                [version |-> t[d].version,
                 dev |-> [port |-> t[d].dev.port, method |-> t[d].dev.method,
                          password |-> t[d].dev.password, ingresses |-> S]]
           /\ \A e \in Devices \ {d} : WithIngresses(t, d, S)[e] = t[e]
  <1>1. t[d] \in TableRoutes
    BY DEF Tables
  <1> DEFINE w == [t[d] EXCEPT !.dev.ingresses = S]
  <1>2. w \in TableRoutes
        /\ w = [version |-> t[d].version,
                dev |-> [port |-> t[d].dev.port, method |-> t[d].dev.method,
                         password |-> t[d].dev.password, ingresses |-> S]]
    BY <1>1, OtherIngresses
  <1>3. WithIngresses(t, d, S) = [t EXCEPT ![d] = w]
    BY DEF WithIngresses
  <1> HIDE DEF w
  <1>4. w # None
    BY <1>2, TableAssumption
  <1> QED
    BY <1>2, <1>3, <1>4 DEF Tables

LEMMA WithIngressesHas ==
    ASSUME NEW t \in Tables, NEW d \in Devices, t[d] # None, NEW S \in SUBSET Ingresses
    PROVE  \A e \in Devices : WithIngresses(t, d, S)[e] # None <=> t[e] # None
  <1>1. WithIngresses(t, d, S)[d] # None
    BY WithIngressesFacts
  <1>2. \A e \in Devices \ {d} : WithIngresses(t, d, S)[e] = t[e]
    BY DEF WithIngresses, Tables
  <1> QED
    BY <1>1, <1>2

\* A step of LoadIngresses.
LEMMA Loaded ==
    ASSUME RequestInv, SnapshotInv, NEW g \in Gateways, NEW d \in Devices, LoadIngresses(g, d)
    PROVE  /\ link[g] = "reading" /\ d \in snapshot[g].unread /\ device[d] # None
           /\ device[d].ingresses \in SUBSET Ingresses
           /\ snapshot[g] \in Snapshots /\ snapshot[g].table[d] # None
           /\ snapshot'[g] \in Snapshots
           /\ snapshot'[g].table = WithIngresses(snapshot[g].table, d, device[d].ingresses)
           /\ snapshot'[g].unread = snapshot[g].unread \ {d}
           /\ ~snapshot'[g].torn =>
                 /\ ~snapshot[g].torn
                 /\ device[d].ingresses = snapshot[g].table[d].dev.ingresses
           /\ snapshot' = [snapshot EXCEPT ![g] = snapshot'[g]]
  <1>1. /\ link[g] = "reading" /\ d \in snapshot[g].unread
        /\ snapshot[g] \in Snapshots /\ snapshot[g].table[d] # None /\ device[d] # None
    BY DEF LoadIngresses, SnapshotInv
  <1>2. device[d].ingresses \in SUBSET Ingresses
    BY <1>1, RowsOf DEF RequestInv, StoreInv, DeviceValues
  <1>3. PICK old : old = snapshot[g]
    OBVIOUS
  <1>4. PICK S : S = device[d].ingresses
    OBVIOUS
  <1>5. snapshot' = [snapshot EXCEPT ![g] =
                       [table |-> WithIngresses(old.table, d, S), unread |-> old.unread \ {d},
                        torn |-> old.torn \/ S # old.table[d].dev.ingresses]]
    BY <1>3, <1>4 DEF LoadIngresses, WithIngresses, SnapshotInv
  <1>6. PICK b \in BOOLEAN : b = (old.torn \/ S # old.table[d].dev.ingresses)
    OBVIOUS
  <1>7. snapshot'[g] = [table |-> WithIngresses(old.table, d, S), unread |-> old.unread \ {d},
                        torn |-> b]
        /\ snapshot' = [snapshot EXCEPT ![g] = snapshot'[g]]
    BY <1>5, <1>6 DEF SnapshotInv
  <1>8. WithIngresses(old.table, d, S) \in Tables
    BY <1>1, <1>2, <1>3, <1>4, WithIngressesFacts DEF Snapshots
  <1>9. snapshot'[g] \in Snapshots
    BY <1>1, <1>3, <1>7, <1>8 DEF Snapshots
  <1>10. snapshot'[g].torn = b
    BY <1>7
  <1>11. ~snapshot'[g].torn => ~snapshot[g].torn /\ device[d].ingresses = snapshot[g].table[d].dev.ingresses
    BY <1>3, <1>4, <1>6, <1>10
  <1> QED
    BY <1>1, <1>2, <1>3, <1>4, <1>7, <1>9, <1>11

LEMMA SnapshotSteps ==
    ASSUME RequestInv, SnapshotInv, NEW g \in Gateways, UNCHANGED device,
           \/ Connect(g) \/ (\E d \in Devices : LoadIngresses(g, d)) \/ SendSnapshot(g)
           \/ Disconnect(g) \/ GatewayRestart(g)
    PROVE  SnapshotInv'
  <1>0. DevicesStay
    BY DEF DevicesStay
  <1>1. CASE Connect(g)
    <2> DEFINE x == [table |-> ActiveRoutes, unread |-> {d \in Devices : version[d] # 0},
                     torn |-> FALSE]
    <2>1. x \in Snapshots
      <3>1. ActiveRoutes \in Tables /\ FALSE \in BOOLEAN
            /\ {d \in Devices : version[d] # 0} \in SUBSET Devices
        BY ActiveRoutesTyped
      <3> QED
        BY <3>1, Zenon DEF Snapshots
    <2>2. \A d \in Devices : version[d] # 0 => ActiveRoutes[d] # None
      <3> SUFFICES ASSUME NEW d \in Devices, version[d] # 0 PROVE ActiveRoutes[d] # None
        OBVIOUS
      <3>1. ActiveRoutes[d] = [version |-> version[d], dev |-> device[d]]
        BY DEF ActiveRoutes
      <3>2. device[d] \in DeviceValues /\ version[d] \in Nat
        BY DEF RequestInv, StoreInv, RowsInv
      <3>3. ActiveRoutes[d] \in TableRoutes
        BY <3>1, <3>2 DEF TableRoutes
      <3> QED
        BY <3>3, TableAssumption
    <2>3. \A d \in Devices : ActiveRoutes[d] # None => device[d] # None
      BY ActiveRoutesExist
    <2>4. snapshot' = [snapshot EXCEPT ![g] = x] /\ link' = [link EXCEPT ![g] = "reading"]
      BY <1>1 DEF Connect
    <2>5. x.table = ActiveRoutes /\ x.unread = {d \in Devices : version[d] # 0}
      OBVIOUS
    <2> HIDE DEF x
    <2>6. /\ \A d \in x.unread : x.table[d] # None
          /\ \A d \in Devices : x.table[d] # None => device'[d] # None
      BY <2>2, <2>3, <2>5
    <2> QED
      BY <1>0, <2>1, <2>4, <2>6, OneSnapshot
  <1>2. ASSUME NEW d \in Devices, LoadIngresses(g, d) PROVE SnapshotInv'
    <2>1. /\ link[g] = "reading" /\ device[d] # None /\ device[d].ingresses \in SUBSET Ingresses
          /\ snapshot[g] \in Snapshots /\ snapshot[g].table[d] # None
          /\ snapshot'[g] \in Snapshots
          /\ snapshot'[g].table = WithIngresses(snapshot[g].table, d, device[d].ingresses)
          /\ snapshot'[g].unread = snapshot[g].unread \ {d}
          /\ snapshot' = [snapshot EXCEPT ![g] = snapshot'[g]]
      BY <1>2, Loaded
    <2>2. /\ snapshot[g].table \in Tables /\ snapshot'[g].unread \in SUBSET Devices
      BY <2>1 DEF Snapshots
    <2>9. PICK t \in Tables : t = snapshot[g].table
      BY <2>2
    <2>10. PICK S \in SUBSET Ingresses : S = device[d].ingresses
      BY <2>1
    <2>11. t[d] # None
      BY <2>1, <2>9
    <2>12. \A e \in Devices : WithIngresses(t, d, S)[e] # None <=> t[e] # None
      BY <2>11, WithIngressesHas
    <2>3. \A e \in Devices : (snapshot'[g].table)[e] # None => snapshot[g].table[e] # None
      BY <2>1, <2>9, <2>10, <2>12
    <2>4. \A e \in Devices : snapshot[g].table[e] # None => (snapshot'[g].table)[e] # None
      BY <2>1, <2>9, <2>10, <2>12
    <2>5. /\ \A e \in snapshot[g].unread : snapshot[g].table[e] # None
          /\ \A e \in Devices : snapshot[g].table[e] # None => device[e] # None
      BY <2>1 DEF SnapshotInv
    <2>6. link' = [link EXCEPT ![g] = link[g]]
      BY <1>2 DEF LoadIngresses, SnapshotInv
    <2>7. PICK x : x = snapshot'[g]
      OBVIOUS
    <2>8. /\ x \in Snapshots /\ \A e \in x.unread : x.table[e] # None
          /\ \A e \in Devices : x.table[e] # None => device'[e] # None
      BY <2>1, <2>2, <2>3, <2>4, <2>5, <2>7
    <2> QED
      BY <1>0, <2>1, <2>6, <2>7, <2>8, OneSnapshot
  <1>3. CASE SendSnapshot(g) \/ Disconnect(g) \/ GatewayRestart(g)
    <2>1. /\ snapshot' = [snapshot EXCEPT ![g] = None]
          /\ \E l \in {"open", "none", "down"} : link' = [link EXCEPT ![g] = l]
      BY <1>3 DEF SendSnapshot, Disconnect, GatewayRestart, EndSession
    <2> QED
      BY <1>0, <2>1, OneSnapshot
  <1> QED
    BY <1>1, <1>2, <1>3

-------------------------------------------------------------------------------
(* The theorems *)

PlaneInv == RequestInv /\ GatewayInv /\ LateInv /\ SnapshotInv

LEMMA InitPlane == Init => PlaneInv
  <1> SUFFICES ASSUME Init PROVE PlaneInv
    OBVIOUS
  <1>1. RowsInv
    BY DeviceAssumption DEF Init, RowsInv, DeviceRowsConsistent
  <1>2. StoreInv
    BY <1>1, PlaneAssumption DEF Init, StoreInv
  <1>3. JobInv
    BY DEF Init, JobInv, Over
  <1>4. NoTable \in Tables /\ NoListeners \in [Ports -> Listeners \union {None}]
    BY DEF NoTable, Tables, NoListeners
  <1>5. GatewayInv
    BY <1>4 DEF Init, GatewayInv, ListenersType
  <1>6. LateInv /\ SnapshotInv
    BY DEF Init, LateInv, SnapshotInv
  <1> QED
    BY <1>2, <1>3, <1>5, <1>6 DEF PlaneInv, RequestInv

\* The handlers up to the deployment, which leave the gateways alone.
BeginsWith(r, q) ==
    \/ r \in CreateRequests /\ Create(r, q)
    \/ r \in RotateRequests /\ RotateCredential(r, q.device)
    \/ r \in AddRequests /\ AddIngress(r, q)
    \/ r \in DeleteRequests /\ DeleteIngress(r, q.device, q.port)
    \/ r \in RouteRequests /\ PutRoute(r, q.device)

LEMMA BeginStep ==
    ASSUME PlaneInv, NEW r \in Requests, NEW q \in Asks[r], BeginsWith(r, q)
    PROVE  PlaneInv'
  <1>1. UNCHANGED <<ingressVars, inbox, snapshot, link, late>>
    BY DEF BeginsWith, Create, RotateCredential, AddIngress, DeleteIngress, PutRoute, hubVars
  <1>2. GatewayInv'
    BY <1>1, GatewaysIdle DEF PlaneInv, ingressVars, GatewayInv
  <1>3. q.device \in Devices /\ q.port \in Ports
    BY Asked
  <1>4. RequestInv'
    BY <1>3, CreateStep, RotateStep, AddStep, DeleteStep, PutRouteStep DEF PlaneInv, BeginsWith
  <1>5. DevicesStay
    <2>1. CASE r \in CreateRequests /\ Create(r, q)
      BY <2>1, CreateStep DEF PlaneInv
    <2>2. CASE UNCHANGED device
      BY <2>2 DEF DevicesStay
    <2> QED
      BY <2>1, <2>2 DEF BeginsWith, RotateCredential, AddIngress, DeleteIngress, PutRoute
  <1>6. \E s, a : pc[r] # "done" /\ pc' = [pc EXCEPT ![r] = s] /\ answer' = [answer EXCEPT ![r] = a]
    <2>1. answer = [answer EXCEPT ![r] = answer[r]]
      BY DEF PlaneInv, LateInv
    <2> QED
      BY <2>1 DEF BeginsWith, Create, RotateCredential, AddIngress, DeleteIngress, PutRoute, Refused,
                  Answer, Proposes
  <1>7. LateInv'
    BY <1>1, <1>5, <1>6, LateOfOne DEF PlaneInv
  <1>8. SnapshotInv'
    BY <1>1, <1>5, SnapshotsKept DEF PlaneInv
  <1> QED
    BY <1>2, <1>4, <1>7, <1>8 DEF PlaneInv

LEMMA StagePlane ==
    ASSUME PlaneInv, NEW r \in RouteRequests, Stage(r)
    PROVE  PlaneInv'
  <1>1. UNCHANGED <<ingressVars, inbox, snapshot, link, late, device>>
    BY DEF Stage, hubVars
  <1>2. GatewayInv'
    BY <1>1, GatewaysIdle DEF PlaneInv, ingressVars, GatewayInv
  <1>3. DevicesStay
    BY <1>1 DEF DevicesStay
  <1>4. \E s, a : pc[r] # "done" /\ pc' = [pc EXCEPT ![r] = s] /\ answer' = [answer EXCEPT ![r] = a]
    <2>1. answer = [answer EXCEPT ![r] = answer[r]]
      BY DEF PlaneInv, LateInv
    <2> QED
      BY <2>1 DEF Stage, Answer
  <1>5. LateInv'
    BY <1>1, <1>3, <1>4, LateOfOne, RouteKind DEF PlaneInv
  <1> QED
    BY <1>1, <1>2, <1>3, <1>5, StageStep, SnapshotsKept DEF PlaneInv

LEMMA DeploymentPlane ==
    ASSUME PlaneInv, NEW r \in Deployments,
           LockAndPrepare(r) \/ Commit(r) \/ Succeed(r) \/ GiveUp(r)
    PROVE  PlaneInv' /\ DevicesStay
  <1>1. RequestInv' /\ GatewayInv'
    BY LockStep, CommitStep, EndStep DEF PlaneInv
  <1>2. UNCHANGED <<snapshot, link>>
    BY DEF LockAndPrepare, Commit, Succeed, GiveUp, hubVars
  <1>3. DevicesStay
    <2>1. CASE Commit(r)
      BY <2>1, CommitStep DEF PlaneInv
    <2>2. CASE UNCHANGED device
      BY <2>2 DEF DevicesStay
    <2> QED
      BY <2>1, <2>2 DEF LockAndPrepare, Succeed, GiveUp
  <1>4. \E s, a : /\ pc[r] # "done" /\ pc[r] # "idle"
                  /\ pc' = [pc EXCEPT ![r] = s] /\ answer' = [answer EXCEPT ![r] = a]
                  /\ \/ late' = late
                     \/ /\ late' = [late EXCEPT ![r] = job[r]]
                        /\ s = "done" /\ a # "success"
    <2>1. answer = [answer EXCEPT ![r] = answer[r]]
      BY DEF PlaneInv, LateInv
    <2>2. CASE LockAndPrepare(r)
      BY <2>1, <2>2 DEF LockAndPrepare, Finish, Answer
    <2>3. CASE Commit(r)
      BY <2>1, <2>3 DEF Commit, Finish, Answer
    <2>4. CASE Succeed(r) \/ GiveUp(r)
      BY <2>1, <2>4 DEF Succeed, GiveUp, Finish, Answer
    <2> QED
      BY <2>2, <2>3, <2>4
  <1>5. r \in Requests
    BY DEF Requests
  <1>6. LateInv'
    BY <1>3, <1>4, <1>5, LateOfOne DEF PlaneInv
  <1> QED
    BY <1>1, <1>2, <1>3, <1>6, SnapshotsKept DEF PlaneInv

LEMMA LatePlane ==
    ASSUME PlaneInv, NEW r \in Deployments, LateCommit(r)
    PROVE  PlaneInv' /\ DevicesStay
  <1>1. RequestInv' /\ GatewayInv' /\ DevicesStay
    BY LateStep DEF PlaneInv
  <1>2. UNCHANGED <<snapshot, link, pc, answer>> /\ late' = [late EXCEPT ![r] = NoJob]
    BY DEF LateCommit, hubVars
  <1>3. r \in Requests
    BY DEF Requests
  <1> QED
    BY <1>1, <1>2, <1>3, LateCommitted, SnapshotsKept DEF PlaneInv

LEMMA GatewayPlane ==
    ASSUME PlaneInv, NEW g \in Gateways, GatewayStep(g)
    PROVE  PlaneInv' /\ UNCHANGED <<device, version, staged, clock, pc, job, answer, late, stale, last>>
  <1>1. RequestInv' /\ GatewayInv'
    BY FrameSteps, StreamSteps, RestartStep DEF PlaneInv, GatewayStep
  <1>2. /\ UNCHANGED <<device, version, staged, clock, pc, job, answer, late, stale, last>>
        /\ \/ UNCHANGED <<snapshot, link>>
           \/ Connect(g) \/ (\E d \in Devices : LoadIngresses(g, d)) \/ SendSnapshot(g)
           \/ Disconnect(g) \/ GatewayRestart(g)
    BY DEF GatewayStep, OnSnapshot, OnDevicePrepare, OnDeviceUpdate, OnPrepare, OnActivate,
           ApplyTable, Ack, Connect, LoadIngresses, SendSnapshot, Disconnect, Heartbeat, LocalDrain,
           GatewayRestart, requestVars, hubVars, historyVars
  <1>3. DevicesStay
    BY <1>2 DEF DevicesStay
  <1>4. LateInv' /\ SnapshotInv'
    BY <1>2, <1>3, LateKept, SnapshotsKept, SnapshotSteps DEF PlaneInv
  <1> QED
    BY <1>1, <1>2, <1>4 DEF PlaneInv

LEMMA RestartPlane ==
    ASSUME PlaneInv, ControlPlaneRestart
    PROVE  PlaneInv'
  <1>1. RequestInv' /\ GatewayInv'
    BY ControlPlaneStep DEF PlaneInv
  <1>2. SnapshotInv'
    BY DEF ControlPlaneRestart, SnapshotInv
  <1>3. LateInv'
    <2>1. UNCHANGED <<device, late>>
      BY DEF ControlPlaneRestart
    <2>2. \A q \in Requests : pc[q] = "done" => pc'[q] = "done" /\ answer'[q] = answer[q]
      BY DEF ControlPlaneRestart
    <2>3. answer' = [q \in Requests |-> answer'[q]]
      BY DEF ControlPlaneRestart
    <2> QED
      BY <2>1, <2>2, <2>3 DEF PlaneInv, LateInv
  <1> QED
    BY <1>1, <1>2, <1>3 DEF PlaneInv

LEMMA NextCases ==
    ASSUME Next
    PROVE  \/ \E r \in Requests : \E q \in Asks[r] : BeginsWith(r, q)
           \/ \E r \in RouteRequests : Stage(r)
           \/ \E r \in Deployments : LockAndPrepare(r) \/ Commit(r) \/ Succeed(r) \/ GiveUp(r)
           \/ \E r \in Deployments : LateCommit(r)
           \/ \E g \in Gateways : GatewayStep(g)
           \/ ControlPlaneRestart
BY DEF Next, BeginsWith

LEMMA PlaneStep == PlaneInv /\ [Next]_vars => PlaneInv'
  <1> SUFFICES ASSUME PlaneInv, [Next]_vars PROVE PlaneInv'
    OBVIOUS
  <1>1. CASE UNCHANGED vars
    <2>1. /\ UNCHANGED <<device, version, staged, clock, pc, job, answer, late, snapshot, link>>
          /\ UNCHANGED <<table, prepared, listeners, synced, file, inbox>>
      BY <1>1 DEF vars, ingressVars, requestVars, hubVars
    <2>2. DevicesStay /\ inbox' \in [Gateways -> Seq(Frames)]
      BY <2>1 DEF DevicesStay, PlaneInv, GatewayInv
    <2> QED
      BY <2>1, <2>2, RequestsIdle, GatewaysIdle, LateKept, SnapshotsKept DEF PlaneInv
  <1> QED
    BY <1>1, BeginStep, StagePlane, DeploymentPlane, LatePlane, GatewayPlane, RestartPlane,
       NextCases

LEMMA PlaneInvariant == Spec => []PlaneInv
  BY InitPlane, PlaneStep, PTL DEF Spec

\* The rows of devices and device_ingresses stay consistent, whatever requests
\* interleave, fail or are cut off: a port has one device, the devices row repeats
\* the primary ingress, and the last ingress is never deleted (postgres.go
\* AddDeviceIngress, DeleteDeviceIngress, UpdateDeviceCredential).
THEOREM RowsConsistent == Spec => []DeviceRowsConsistent
  <1>1. PlaneInv => DeviceRowsConsistent
    BY DEF PlaneInv, RequestInv, StoreInv, RowsInv
  <1> QED
    BY <1>1, PlaneInvariant, PTL

\* A gateway that is synchronised listens on exactly the ports of its table, with
\* their devices, methods and passwords, for any devices, ports and failures of
\* ReconcileListeners, PrepareDevice and SaveSnapshot (gateway.go).
THEOREM ListenersFollowTable == Spec => []ListenersMatchTable
  <1>1. PlaneInv => ListenersMatchTable
    <2> SUFFICES ASSUME PlaneInv, NEW g \in Gateways, synced[g]
                 PROVE  /\ ~DuplicatePort(table[g])
                        /\ \A p \in Ports :
                              LET l == listeners[g][p] IN
                              /\ \A x \in Desired(table[g]) :
                                    x.ingress.port = p => l = Listener(x, TRUE)
                              /\ l # None /\ l.active =>
                                    \E x \in Desired(table[g]) : x.ingress.port = p
      BY DEF ListenersMatchTable
    <2>1. Matches(table[g], listeners[g])
      BY DEF PlaneInv, GatewayInv
    <2> QED
      BY <2>1 DEF Matches
  <1> QED
    BY <1>1, PlaneInvariant, PTL

-------------------------------------------------------------------------------
(* What is stored can be served *)

\* The credential of an ingress, or of a listener, passes ssconfig.Validate.
Valid(x) == ValidCredential(x.method, x.password)

ListenersValid ==
    \A g \in Gateways, p \in Ports : listeners[g][p] # None => Valid(listeners[g][p])

RowsValid == \A d \in Devices : device[d] # None => \A i \in device[d].ingresses : Valid(i)

AllStartable(t) == \A x \in Desired(t) : Startable(x)

FilesServe ==
    \A g \in Gateways : file[g] # None =>
        AllStartable(file[g]) /\ (DuplicatePort(file[g]) => g \in torn)

SnapshotsServe ==
    \A g \in Gateways : \A k \in 1 .. Len(inbox[g]) : inbox[g][k].type = "SNAPSHOT" =>
        AllStartable(inbox[g][k].table) /\ (DuplicatePort(inbox[g][k].table) => inbox[g][k].torn)

\* Each device of the table has valid ingresses, and so has its row if that has a port.
RowsOfTableValid(t) ==
    \A d \in Devices : t[d] # None =>
        /\ t[d].dev.port # 0 => Valid(t[d].dev)
        /\ \A i \in t[d].dev.ingresses : Valid(i)

ReadingServes ==
    \A g \in Gateways : link[g] = "reading" =>
        /\ RowsOfTableValid(snapshot[g].table)
        /\ DuplicatePort(snapshot[g].table) => snapshot[g].torn

Holding == {"prepare", "update"}

\* What a request has read and wants to write: a rotation brings a password for the
\* method it has read.
ReadJob(j, r) ==
    /\ j.read \in DeviceValues
    /\ r \in RotateRequests => j.new.method = j.read.method
    /\ r \in AddRequests => Valid(j.new)

ReadInv ==
    /\ late = [r \in Requests |-> late[r]]
    /\ \A r \in Requests :
          /\ pc[r] \notin Over => ReadJob(job[r], r)
          /\ pc[r] \in Holding => deployMu = r
          /\ late[r] # NoJob => ReadJob(late[r], r)

StoredServes == RowsValid /\ FilesServe /\ SnapshotsServe /\ ReadingServes

ServedInv == ReadInv /\ ListenersValid /\ (stale = {} => StoredServes)

LEMMA ActivatedValid ==
    ASSUME NEW l \in Listeners, Valid(l)
    PROVE  Valid([l EXCEPT !.active = TRUE])
  <1> DEFINE n == [l EXCEPT !.active = TRUE]
  <1>1. n = [device |-> l.device, method |-> l.method, password |-> l.password, active |-> TRUE]
    BY Activated
  <1>2. n.method = l.method /\ n.password = l.password
    BY <1>1
  <1> QED
    BY <1>2 DEF Valid

LEMMA StartedValid ==
    ASSUME NEW S, \A x \in S : Startable(x), NEW p \in Ports, ListenersFor(S)[p] # None
    PROVE  Valid(ListenersFor(S)[p])
  <1> DEFINE y == CHOOSE x \in S : x.ingress.port = p
  <1>1. \E x \in S : x.ingress.port = p
    BY DEF ListenersFor
  <1>2. y \in S
    BY <1>1
  <1>3. ListenersFor(S)[p] = Listener(y, TRUE)
    BY <1>1 DEF ListenersFor
  <1> HIDE DEF y
  <1> QED
    BY <1>2, <1>3 DEF Valid, Startable, Listener

\* Kept listeners and started ones are valid.
LEMMA RenewedValid ==
    ASSUME ListenersType, ListenersValid, NEW g \in Gateways, NEW t, NEW S,
           \A x \in S : Startable(x), NEW p \in Ports, NEW l,
           l = IF \E x \in KeptOf(g, t) : x.ingress.port = p
               THEN [listeners[g][p] EXCEPT !.active = TRUE] ELSE ListenersFor(S)[p],
           l # None
    PROVE  Valid(l)
  <1>1. CASE \E x \in KeptOf(g, t) : x.ingress.port = p
    <2>1. listeners[g][p] \in Listeners /\ listeners[g][p] # None
      BY <1>1, KeptTyped, ListenerAssumption
    <2>2. Valid(listeners[g][p])
      BY <2>1 DEF ListenersValid
    <2> QED
      BY <1>1, <2>1, <2>2, ActivatedValid
  <1>2. CASE ~\E x \in KeptOf(g, t) : x.ingress.port = p
    BY <1>2, StartedValid
  <1> QED
    BY <1>1, <1>2

LEMMA OneValid ==
    ASSUME ListenersType, ListenersValid, NEW g \in Gateways, NEW new,
           listeners' = [listeners EXCEPT ![g] = new],
           \A p \in Ports : new[p] # None => Valid(new[p])
    PROVE  ListenersValid'
  <1>1. listeners'[g] = new /\ \A h \in Gateways \ {g} : listeners'[h] = listeners[h]
    BY DEF ListenersType
  <1>2. ASSUME NEW h \in Gateways, NEW p \in Ports, listeners'[h][p] # None
        PROVE  Valid(listeners'[h][p])
    <2>1. CASE h = g
      BY <1>1, <1>2, <2>1
    <2>2. CASE h # g
      BY <1>1, <1>2, <2>2 DEF ListenersValid
    <2> QED
      BY <2>1, <2>2
  <1> QED
    BY <1>2 DEF ListenersValid

LEMMA ReconcileValid ==
    ASSUME ListenersType, ListenersValid, NEW g \in Gateways, NEW t \in Tables, Reconcile(g, t)
    PROVE  ListenersValid' /\ Reconcilable(t)
  <1> DEFINE new == [p \in Ports |->
                       IF \E x \in KeptOf(g, t) : x.ingress.port = p
                       THEN [listeners[g][p] EXCEPT !.active = TRUE]
                       ELSE ListenersFor(Missing(g, t))[p]]
  <1>1. /\ listeners' = [listeners EXCEPT ![g] = new] /\ ~DuplicatePort(t)
        /\ \A x \in Missing(g, t) : Startable(x)
    BY DEF Reconcile
  <1>2. \A p \in Ports : new[p] # None => Valid(new[p])
    BY <1>1, RenewedValid
  <1> HIDE DEF new
  <1>3. ListenersValid'
    BY <1>1, <1>2, OneValid
  <1>4. ASSUME NEW x \in Desired(t) PROVE Startable(x)
    <2>1. CASE x \in KeptOf(g, t)
      <3>1. Kept(listeners[g][x.ingress.port], x) /\ x.ingress.port \in Ports
        BY <2>1, DesiredTyped DEF KeptOf, Ingresses
      <3>2. Valid(listeners[g][x.ingress.port])
        BY <3>1 DEF ListenersValid, Kept
      <3> QED
        BY <3>1, <3>2 DEF Kept, Valid, Startable
    <2>2. CASE x \notin KeptOf(g, t)
      BY <1>1, <2>2 DEF Missing
    <2> QED
      BY <2>1, <2>2
  <1> QED
    BY <1>1, <1>3, <1>4 DEF Reconcilable

LEMMA StoppedValid ==
    ASSUME ListenersType, ListenersValid, NEW g \in Gateways, NEW t, ReconcileStops(g, t)
    PROVE  ListenersValid'
  <1>1. PICK left \in LeftListeners(g, t) : listeners' = [listeners EXCEPT ![g] = left]
    BY DEF ReconcileStops
  <1>2. \A p \in Ports : left[p] # None => Valid(left[p])
    <2>1. CASE DuplicatePort(t)
      BY <1>1, <2>1 DEF LeftListeners, ListenersValid
    <2>2. CASE ~DuplicatePort(t)
      <3>1. PICK S \in SUBSET Missing(g, t) :
               /\ \A x \in S : Startable(x)
               /\ left = [p \in Ports |->
                            IF \E x \in KeptOf(g, t) : x.ingress.port = p
                            THEN [listeners[g][p] EXCEPT !.active = TRUE]
                            ELSE ListenersFor(S)[p]]
        BY <2>2, <1>1, Zenon DEF LeftListeners
      <3> QED
        BY <3>1, RenewedValid
    <2> QED
      BY <2>1, <2>2
  <1> QED
    BY <1>1, <1>2, OneValid

LEMMA OpenedValid ==
    ASSUME ListenersType, ListenersValid, NEW g \in Gateways, NEW d \in Devices, NEW v,
           PrepareDevice(g, d, v) \/ \E f \in EffectiveIngresses(v) : PrepareStopsAt(g, d, v, f)
    PROVE  ListenersValid'
  <1>1. PICK S \in SUBSET EffectiveIngresses(v) :
           OpenInactive(g, d, S) /\ \A i \in S : ~CannotPrepare(g, d, i)
    <2>1. CASE PrepareDevice(g, d, v)
      BY <2>1 DEF PrepareDevice
    <2>2. ASSUME NEW f \in EffectiveIngresses(v), PrepareStopsAt(g, d, v, f)
          PROVE  \E S \in SUBSET EffectiveIngresses(v) :
                    OpenInactive(g, d, S) /\ \A i \in S : ~CannotPrepare(g, d, i)
      <3> DEFINE T == {i \in EffectiveIngresses(v) : Before(i, f)}
      <3>1. T \in SUBSET EffectiveIngresses(v)
        OBVIOUS
      <3>2. OpenInactive(g, d, T) /\ \A i \in T : ~CannotPrepare(g, d, i)
        BY <2>2 DEF PrepareStopsAt
      <3> HIDE DEF T
      <3> QED
        BY <3>1, <3>2
    <2> QED
      BY <2>1, <2>2
  <1> DEFINE k(p) == CHOOSE i \in S : i.port = p
             new == [p \in Ports |-> IF \E i \in S : i.port = p /\ Unused(g, i)
                                     THEN Listener([device |-> d, ingress |-> k(p)], FALSE)
                                     ELSE listeners[g][p]]
  <1>2. listeners' = [listeners EXCEPT ![g] = new]
    BY <1>1 DEF OpenInactive
  <1>3. ASSUME NEW p \in Ports, \E i \in S : i.port = p
        PROVE  Valid(Listener([device |-> d, ingress |-> k(p)], FALSE))
    <2>1. k(p) \in S
      BY <1>3
    <2> HIDE DEF k
    <2> QED
      BY <1>1, <2>1 DEF CannotPrepare, Valid, Listener
  <1>4. \A p \in Ports : new[p] # None => Valid(new[p])
    <2> HIDE DEF k
    <2> QED
      BY <1>3 DEF ListenersValid
  <1> HIDE DEF new
  <1> QED
    BY <1>2, <1>4, OneValid

\* The effective ingresses of a row are its ingresses.
LEMMA EffectiveOfRow ==
    ASSUME NEW v, MirrorsPrimary(v)
    PROVE  EffectiveIngresses(v) = v.ingresses
BY DEF MirrorsPrimary, Primaries, EffectiveIngresses

LEMMA RowsServe ==
    ASSUME RequestInv, RowsValid
    PROVE  Reconcilable(ActiveRoutes)
  <1> DEFINE t == ActiveRoutes
  <1>1. ASSUME NEW x \in Desired(t)
        PROVE  /\ x = [device |-> x.device, ingress |-> x.ingress]
               /\ x.device \in Devices /\ device[x.device] # None
               /\ x.ingress \in device[x.device].ingresses
    <2>1. PICK d \in Devices : t[d] # None /\ \E i \in EffectiveIngresses(t[d].dev) :
                                   x = [device |-> d, ingress |-> i]
      BY DEF Desired
    <2>2. version[d] # 0 /\ t[d].dev = device[d]
      BY <2>1 DEF ActiveRoutes
    <2>3. device[d] # None
      BY <2>2 DEF RequestInv, StoreInv
    <2>4. EffectiveIngresses(device[d]) = device[d].ingresses
      BY <2>3, RowsOf, EffectiveOfRow DEF RequestInv, StoreInv
    <2> QED
      BY <2>1, <2>2, <2>3, <2>4
  <1>2. ~DuplicatePort(t)
    <2> SUFFICES ASSUME NEW x \in Desired(t), NEW y \in Desired(t), x.ingress.port = y.ingress.port
                 PROVE  x = y
      BY DEF DuplicatePort
    <2>1. x.device = y.device /\ x.ingress = y.ingress
      BY <1>1 DEF RequestInv, StoreInv, RowsInv, DeviceRowsConsistent, PortsUnique
    <2> QED
      BY <1>1, <2>1
  <1>3. \A x \in Desired(t) : Startable(x)
    BY <1>1 DEF RowsValid, Valid, Startable
  <1> QED
    BY <1>2, <1>3 DEF Reconcilable

LEMMA TailServes ==
    ASSUME GatewayInv, SnapshotsServe, NEW g \in Gateways, inbox[g] # <<>>,
           inbox' = [inbox EXCEPT ![g] = Tail(@)]
    PROVE  SnapshotsServe'
  <1>1. inbox'[g] = Tail(inbox[g]) /\ \A h \in Gateways \ {g} : inbox'[h] = inbox[h]
    BY DEF GatewayInv
  <1> DEFINE q == inbox[g]
  <1>2. q \in Seq(Frames) /\ q # <<>>
    BY DEF GatewayInv
  <1>3. \A k \in 1 .. Len(Tail(q)) : k + 1 \in 1 .. Len(q) /\ Tail(q)[k] = q[k + 1]
    <2> HIDE DEF q
    <2> QED
      BY <1>2
  <1>4. ASSUME NEW h \in Gateways, NEW k \in 1 .. Len(inbox'[h]), inbox'[h][k].type = "SNAPSHOT"
        PROVE  /\ AllStartable(inbox'[h][k].table)
               /\ DuplicatePort(inbox'[h][k].table) => inbox'[h][k].torn
    <2>1. CASE h = g
      BY <1>1, <1>3, <1>4, <2>1 DEF SnapshotsServe
    <2>2. CASE h # g
      BY <1>1, <1>4, <2>2 DEF SnapshotsServe
    <2> QED
      BY <2>1, <2>2
  <1> QED
    BY <1>4 DEF SnapshotsServe

LEMMA BroadcastServes ==
    ASSUME GatewayInv, SnapshotsServe, NEW S, NEW f \in Frames, f.type # "SNAPSHOT", Broadcast(S, f)
    PROVE  SnapshotsServe'
  <1>1. ASSUME NEW h \in Gateways, NEW k \in 1 .. Len(inbox'[h]), inbox'[h][k].type = "SNAPSHOT"
        PROVE  /\ AllStartable(inbox'[h][k].table)
               /\ DuplicatePort(inbox'[h][k].table) => inbox'[h][k].torn
    <2>0. inbox'[h] = IF h \in S THEN Append(inbox[h], f) ELSE inbox[h]
      BY DEF Broadcast
    <2>1. CASE h \in S
      <3> DEFINE q == inbox[h]
      <3>1. q \in Seq(Frames)
        BY DEF GatewayInv
      <3>2. \A m \in 1 .. Len(Append(q, f)) :
               Append(q, f)[m] = f \/ (m \in 1 .. Len(q) /\ Append(q, f)[m] = q[m])
        <4> HIDE DEF q
        <4> QED
          BY <3>1
      <3> QED
        BY <1>1, <2>0, <2>1, <3>2 DEF SnapshotsServe
    <2>2. CASE h \notin S
      BY <1>1, <2>0, <2>2 DEF SnapshotsServe
    <2> QED
      BY <2>1, <2>2
  <1> QED
    BY <1>1 DEF SnapshotsServe

\* A step that no request takes.
LEMMA ReadIdle ==
    ASSUME ReadInv, UNCHANGED <<pc, job, deployMu, late>>
    PROVE  ReadInv'
BY DEF ReadInv, ReadJob

LEMMA ReadOne ==
    ASSUME RequestInv, ReadInv, NEW r \in Requests, NEW s, NEW j,
           pc' = [pc EXCEPT ![r] = s], job' = [job EXCEPT ![r] = j],
           late' = late \/ (late' = [late EXCEPT ![r] = job[r]] /\ pc[r] \notin Over),
           s \notin Over => ReadJob(j, r),
           s \in Holding => deployMu' = r,
           \A q \in Requests \ {r} : deployMu = q => deployMu' = q
    PROVE  ReadInv'
  <1>1. /\ pc'[r] = s /\ job'[r] = j
        /\ \A q \in Requests \ {r} : pc'[q] = pc[q] /\ job'[q] = job[q]
    BY DEF RequestInv, JobInv
  <1>2. ASSUME NEW q \in Requests
        PROVE  /\ pc'[q] \notin Over => ReadJob(job'[q], q)
               /\ pc'[q] \in Holding => deployMu' = q
               /\ late'[q] # NoJob => ReadJob(late'[q], q)
    <2>0. late'[q] # NoJob => ReadJob(late'[q], q)
      <3>1. late'[q] = late[q] \/ (q = r /\ late'[q] = job[r] /\ pc[r] \notin Over)
        BY DEF ReadInv
      <3> QED
        BY <3>1 DEF ReadInv
    <2>1. CASE q = r
      BY <1>1, <2>0, <2>1
    <2>2. CASE q # r
      BY <1>1, <2>0, <2>2 DEF ReadInv
    <2> QED
      BY <2>1, <2>2
  <1>3. late' = [q \in Requests |-> late'[q]]
    BY DEF ReadInv
  <1> QED
    BY <1>2, <1>3 DEF ReadInv, ReadJob

\* The frames: what the gateways keep can be served.
LEMMA ServedFrame ==
    ASSUME RequestInv, GatewayInv, ServedInv, NEW g \in Gateways, inbox[g] # <<>>,
           UNCHANGED <<device, pc, job, deployMu, stale, late, snapshot, link>>,
           inbox' = [inbox EXCEPT ![g] = Tail(@)],
           ListenersValid', stale = {} => FilesServe'
    PROVE  ServedInv'
  <1>1. ReadInv'
    BY ReadIdle DEF ServedInv
  <1>2. ASSUME stale' = {} PROVE StoredServes'
    <2>1. RowsValid' /\ SnapshotsServe' /\ ReadingServes'
      BY <1>2, TailServes DEF ServedInv, StoredServes, RowsValid, ReadingServes
    <2> QED
      BY <1>2, <2>1 DEF StoredServes
  <1> QED
    BY <1>1, <1>2 DEF ServedInv

\* A file that is replaced by a table that can be served.
LEMMA FileServes ==
    ASSUME GatewayInv, FilesServe, NEW g \in Gateways, NEW t, AllStartable(t),
           DuplicatePort(t) => g \in torn', \A h \in Gateways \ {g} : h \in torn => h \in torn',
           file' = [file EXCEPT ![g] = t]
    PROVE  FilesServe'
  <1>1. ASSUME NEW h \in Gateways, file'[h] # None
        PROVE  AllStartable(file'[h]) /\ (DuplicatePort(file'[h]) => h \in torn')
    <2>1. file'[h] = IF h = g THEN t ELSE file[h]
      BY DEF GatewayInv
    <2> QED
      BY <1>1, <2>1 DEF FilesServe
  <1> QED
    BY <1>1 DEF FilesServe

LEMMA AppliedServed ==
    ASSUME RequestInv, GatewayInv, ServedInv, NEW g \in Gateways, NEW t \in Tables,
           inbox[g] # <<>>, ApplyTable(g, t), UNCHANGED torn
    PROVE  ServedInv'
  <1>1. /\ UNCHANGED <<device, pc, job, deployMu, stale, late, snapshot, link>>
        /\ inbox' = [inbox EXCEPT ![g] = Tail(@)]
    BY DEF ApplyTable, Ack, historyVars
  <1>2. ListenersType /\ ListenersValid
    BY DEF GatewayInv, ServedInv
  <1>3. CASE Applied(g, t)
    <2>1. Reconcile(g, t) /\ file' = [file EXCEPT ![g] = t]
      BY <1>3 DEF Applied
    <2>2. ListenersValid' /\ Reconcilable(t)
      BY <1>2, <2>1, ReconcileValid
    <2>3. stale = {} => FilesServe'
      BY <2>1, <2>2, FileServes DEF ServedInv, StoredServes, Reconcilable, AllStartable
    <2> QED
      BY <1>1, <2>2, <2>3, ServedFrame
  <1>4. CASE NotReconciled(g, t) \/ NotSaved(g, t)
    <2>1. file' = file /\ (Reconcile(g, t) \/ ReconcileStops(g, t))
      BY <1>4 DEF NotReconciled, NotSaved
    <2>2. ListenersValid'
      BY <1>2, <2>1, ReconcileValid, StoppedValid
    <2>3. stale = {} => FilesServe'
      BY <2>1 DEF ServedInv, StoredServes, FilesServe
    <2> QED
      BY <1>1, <2>2, <2>3, ServedFrame
  <1> QED
    BY <1>3, <1>4 DEF ApplyTable

LEMMA UpdateServed ==
    ASSUME RequestInv, GatewayInv, ServedInv, NEW g \in Gateways, OnDeviceUpdate(g)
    PROVE  ServedInv'
  <1> DEFINE d == Head(inbox[g]).device
             v == Head(inbox[g]).route.dev
             t == UpdateDevice(g, d, v)
  <1>1. d \in Devices /\ v \in DeviceValues /\ inbox[g] # <<>>
    BY DeploymentFrame DEF OnDeviceUpdate, Received
  <1>2. ApplyTable(g, t) /\ UNCHANGED torn
    BY DEF OnDeviceUpdate
  <1> HIDE DEF d, v
  <1>3. t \in Tables
    BY <1>1, UpdatedTable
  <1> HIDE DEF t
  <1> QED
    BY <1>1, <1>2, <1>3, AppliedServed

LEMMA ActivateServed ==
    ASSUME RequestInv, GatewayInv, ServedInv, NEW g \in Gateways, OnActivate(g)
    PROVE  ServedInv'
  <1> DEFINE d == Head(inbox[g]).device
             rt == Head(inbox[g]).route
             t == ActivatePrepared(g, d)
  <1>1. d \in Devices /\ rt \in TableRoutes /\ inbox[g] # <<>>
    BY DeploymentFrame DEF OnActivate, Received
  <1>2. CASE WasPrepared(g, d, rt)
    <2>1. ApplyTable(g, t) /\ UNCHANGED torn
      BY <1>2 DEF OnActivate
    <2> HIDE DEF d, rt
    <2>2. t \in Tables
      BY <1>1 DEF ActivatePrepared, GatewayInv, Tables
    <2> HIDE DEF t
    <2> QED
      BY <1>1, <2>1, <2>2, AppliedServed
  <1>3. CASE ~WasPrepared(g, d, rt)
    <2>1. Ack(g, "error") /\ UNCHANGED ingressVars /\ UNCHANGED torn
      BY <1>3 DEF OnActivate
    <2>2. /\ UNCHANGED <<device, pc, job, deployMu, stale, late, snapshot, link, torn, listeners, file>>
          /\ inbox' = [inbox EXCEPT ![g] = Tail(@)]
      BY <2>1 DEF Ack, ingressVars, historyVars
    <2>3. ListenersValid' /\ (stale = {} => FilesServe')
      BY <2>2 DEF ServedInv, StoredServes, ListenersValid, FilesServe
    <2> QED
      BY <1>1, <2>2, <2>3, ServedFrame
  <1> QED
    BY <1>2, <1>3

LEMMA PrepareServed ==
    ASSUME RequestInv, GatewayInv, ServedInv, NEW g \in Gateways, OnDevicePrepare(g) \/ OnPrepare(g)
    PROVE  ServedInv'
  <1> DEFINE d == Head(inbox[g]).device
             rt == Head(inbox[g]).route
             v == rt.dev
  <1>1. d \in Devices /\ rt \in TableRoutes /\ v \in DeviceValues /\ inbox[g] # <<>>
    BY DeploymentFrame DEF OnPrepare, OnDevicePrepare, Received
  <1>2. PrepareDevice(g, d, v) \/ \E f \in EffectiveIngresses(v) : PrepareStopsAt(g, d, v, f)
    BY DEF OnPrepare, OnDevicePrepare
  <1>3. /\ UNCHANGED <<file, device, pc, job, deployMu, stale, late, snapshot, link, torn>>
        /\ inbox' = [inbox EXCEPT ![g] = Tail(@)]
    BY DEF OnPrepare, OnDevicePrepare, Ack, historyVars
  <1> HIDE DEF d, rt, v
  <1>4. ListenersValid'
    BY <1>1, <1>2, OpenedValid DEF GatewayInv, ServedInv
  <1>5. stale = {} => FilesServe'
    BY <1>3 DEF ServedInv, StoredServes, FilesServe
  <1> QED
    BY <1>1, <1>3, <1>4, <1>5, ServedFrame

LEMMA SnapshotServed ==
    ASSUME RequestInv, GatewayInv, ServedInv, NEW g \in Gateways, OnSnapshot(g)
    PROVE  ServedInv'
  <1> DEFINE t == Head(inbox[g]).table
  <1>1. inbox[g] # <<>> /\ Head(inbox[g]).type = "SNAPSHOT"
    BY DEF OnSnapshot, Received
  <1>2. t \in Tables
    BY <1>1, Received1 DEF Frames
  <1>3. /\ SnapshotApplied(g, t) \/ SnapshotNotReconciled(g, t) \/ SnapshotNotSaved(g)
        /\ inbox' = [inbox EXCEPT ![g] = Tail(@)]
        /\ UNCHANGED <<device, pc, job, deployMu, stale, late, snapshot, link>>
    BY DEF OnSnapshot, Ack, historyVars
  <1> DEFINE b == Head(inbox[g]).torn
  <1>4. stale = {} => AllStartable(t) /\ (DuplicatePort(t) => b)
    <2> DEFINE q == inbox[g]
    <2>1. q \in Seq(Frames) /\ q # <<>>
      BY <1>1 DEF GatewayInv
    <2>2. 1 \in 1 .. Len(q) /\ Head(q) = q[1]
      <3> HIDE DEF q
      <3> QED
        BY <2>1
    <2> QED
      BY <1>1, <2>2 DEF ServedInv, StoredServes, SnapshotsServe
  <1> HIDE DEF t
  <1>5. ListenersType /\ ListenersValid
    BY DEF GatewayInv, ServedInv
  <1>6. ListenersValid'
    BY <1>2, <1>3, <1>5, ReconcileValid, StoppedValid
       DEF SnapshotApplied, SnapshotNotReconciled, SnapshotNotSaved, ListenersValid
  <1>7. \/ file' = file /\ torn' = torn
        \/ file' = [file EXCEPT ![g] = t] /\ torn' = IF b THEN torn \union {g} ELSE torn \ {g}
    BY DEF OnSnapshot, SnapshotApplied, SnapshotNotReconciled, SnapshotNotSaved, t
  <1> HIDE DEF b
  <1>8. stale = {} => FilesServe'
    <2>1. CASE file' = file /\ torn' = torn
      BY <2>1 DEF ServedInv, StoredServes, FilesServe
    <2>2. CASE file' = [file EXCEPT ![g] = t] /\ torn' = IF b THEN torn \union {g} ELSE torn \ {g}
      <3>1. (b => g \in torn') /\ \A h \in Gateways \ {g} : h \in torn => h \in torn'
        BY <2>2
      <3> QED
        BY <1>4, <2>2, <3>1, FileServes DEF ServedInv, StoredServes
    <2> QED
      BY <1>7, <2>1, <2>2
  <1> QED
    BY <1>1, <1>3, <1>6, <1>8, ServedFrame

\* The handlers before the deployment, and the ends of a request, touch neither
\* gateways nor frames.
LEMMA ServedRequest ==
    ASSUME ServedInv, ReadInv', UNCHANGED <<listeners, file, inbox, torn, snapshot, link>>, stale \subseteq stale',
           stale' = {} => RowsValid'
    PROVE  ServedInv'
  <1>1. ListenersValid' /\ (stale = {} => FilesServe' /\ SnapshotsServe' /\ ReadingServes')
    BY DEF ServedInv, StoredServes, ListenersValid, FilesServe, SnapshotsServe, ReadingServes
  <1> QED
    BY <1>1 DEF ServedInv, StoredServes

LEMMA ProposeServed ==
    ASSUME RequestInv, ServedInv, NEW r \in Requests, NEW d \in Devices,
           UNCHANGED <<device, deployMu, stale, late, listeners, file, inbox, torn, snapshot, link>>,
           \/ Refused(r)
           \/ \E p, n, s :
                 /\ GetDevice(d) # None /\ s \notin Holding
                 /\ Proposes(r, d, p, n, s)
                 /\ r \in RotateRequests => n.method = device[d].method
                 /\ r \in AddRequests => Valid(n)
    PROVE  ServedInv'
  <1>0. ReadInv
    BY DEF ServedInv
  <1>1. ReadInv'
    <2>1. CASE Refused(r)
      <3>1. pc' = [pc EXCEPT ![r] = "done"] /\ job' = [job EXCEPT ![r] = job[r]]
        BY <2>1 DEF Refused, Answer, RequestInv, JobInv
      <3>2. "done" \in Over /\ "done" \notin Holding
        BY DEF Over, Holding
      <3> QED
        BY <1>0, <3>1, <3>2, ReadOne
    <2>2. CASE ~Refused(r)
      <3>1. PICK p, n, s :
                 /\ GetDevice(d) # None /\ s \notin Holding
                 /\ Proposes(r, d, p, n, s)
                 /\ r \in RotateRequests => n.method = device[d].method
                 /\ r \in AddRequests => Valid(n)
        BY <2>2
      <3> DEFINE j == [device |-> d, read |-> GetDevice(d), proposed |-> p, new |-> n, version |-> 0]
      <3>2. pc' = [pc EXCEPT ![r] = s] /\ job' = [job EXCEPT ![r] = j]
        BY <3>1 DEF Proposes
      <3>3. j.read = device[d] /\ j.new = n /\ device[d] \in DeviceValues
        BY <3>1, RowsOf DEF GetDevice, RequestInv, StoreInv
      <3> HIDE DEF j
      <3>4. ReadJob(j, r)
        BY <3>1, <3>3 DEF ReadJob
      <3>5. s # "prepare"
        BY <3>1 DEF Holding
      <3> QED
        BY <1>0, <3>1, <3>2, <3>4, <3>5, ReadOne
    <2> QED
      BY <2>1, <2>2
  <1>2. stale' = {} => RowsValid'
    BY DEF ServedInv, StoredServes, RowsValid
  <1> QED
    BY <1>1, <1>2, ServedRequest

LEMMA HandlersServed ==
    ASSUME RequestInv, ServedInv, NEW r \in Requests, NEW q \in Asks[r],
           \/ r \in RotateRequests /\ RotateCredential(r, q.device)
           \/ r \in AddRequests /\ AddIngress(r, q)
           \/ r \in DeleteRequests /\ DeleteIngress(r, q.device, q.port)
           \/ r \in RouteRequests /\ PutRoute(r, q.device)
    PROVE  ServedInv'
  <1> DEFINE d == q.device
             p == q.port
  <1>0. d \in Devices
    BY Asked
  <1>1. UNCHANGED <<device, deployMu, stale, late, listeners, file, inbox, torn, snapshot, link>>
    BY DEF RotateCredential, AddIngress, DeleteIngress, PutRoute, ingressVars, hubVars, historyVars
  <1>2. "lock" \notin Holding /\ "stage" \notin Holding
    BY DEF Holding
  <1>3. CASE Refused(r)
    BY <1>0, <1>1, <1>3, ProposeServed
  <1>4. CASE ~Refused(r)
    <2>1. CASE r \in RotateRequests /\ RotateCredential(r, d)
      <3> DEFINE pw == Password(r, GetDevice(d).method)
                 x == ProposeRotate(GetDevice(d), pw)
      <3>1. GetDevice(d) # None /\ Proposes(r, d, x, pw, "lock")
        BY <1>4, <2>1 DEF RotateCredential
      <3>2. pw.method = device[d].method /\ r \notin AddRequests
        BY <2>1, PlaneAssumption DEF Password, GetDevice
      <3> HIDE DEF pw, x
      <3> QED
        BY <1>0, <1>1, <1>2, <3>1, <3>2, ProposeServed
    <2>2. CASE r \in AddRequests /\ AddIngress(r, q)
      <3> DEFINE n == [port |-> q.port, method |-> q.method, password |-> Given(r, q),
                       primary |-> FALSE, at |-> clock]
                 x == [GetDevice(d) EXCEPT !.ingresses = EffectiveIngresses(GetDevice(d)) \union {n}]
      <3>1. GetDevice(d) # None /\ Proposes(r, d, x, n, "lock")
        BY <1>4, <2>2 DEF AddIngress
      <3>2. Valid(n) /\ r \notin RotateRequests
        BY <1>4, <2>2, PlaneAssumption DEF AddIngress, Valid
      <3> HIDE DEF n, x
      <3> QED
        BY <1>0, <1>1, <1>2, <3>1, <3>2, ProposeServed
    <2>3. CASE r \in DeleteRequests /\ DeleteIngress(r, d, p)
      <3> DEFINE x == ProposeDelete(GetDevice(d), p)
      <3>1. GetDevice(d) # None /\ Proposes(r, d, x, p, "lock")
        BY <1>4, <2>3 DEF DeleteIngress
      <3>2. r \notin RotateRequests /\ r \notin AddRequests
        BY <2>3, PlaneAssumption
      <3> HIDE DEF x
      <3> QED
        BY <1>0, <1>1, <1>2, <3>1, <3>2, ProposeServed
    <2>4. CASE r \in RouteRequests /\ PutRoute(r, d)
      <3>1. GetDevice(d) # None /\ Proposes(r, d, GetDevice(d), None, "stage")
        BY <1>4, <2>4 DEF PutRoute
      <3>2. r \notin RotateRequests /\ r \notin AddRequests
        BY <2>4, RouteKind
      <3> QED
        BY <1>0, <1>1, <1>2, <3>1, <3>2, ProposeServed
    <2> QED
      BY <2>1, <2>2, <2>3, <2>4
  <1> QED
    BY <1>3, <1>4

LEMMA CreateServed ==
    ASSUME RequestInv, ServedInv, NEW r \in CreateRequests, NEW q \in Asks[r], Create(r, q)
    PROVE  ServedInv'
  <1> DEFINE d == q.device
             v == [port |-> q.port, method |-> q.method, password |-> Given(r, q), ingresses |-> {}]
             w == [v EXCEPT !.ingresses = EffectiveIngresses(v)]
  <1>1. r \in Requests
    BY DEF Requests
  <1>2. /\ pc' = [pc EXCEPT ![r] = "done"] /\ job' = [job EXCEPT ![r] = job[r]]
        /\ UNCHANGED <<deployMu, stale, late, listeners, file, inbox, torn, snapshot, link>>
        /\ \/ UNCHANGED device
           \/ /\ device[d] = None /\ device' = [device EXCEPT ![d] = w]
              /\ ValidCredential(q.method, Given(r, q))
    BY DEF Create, Answer, RequestInv, JobInv, CreateDevice, CreateConflicts, ingressVars, hubVars,
           historyVars
  <1>3. ValidCredential(q.method, Given(r, q)) => \A i \in w.ingresses : Valid(i)
    <2>1. w.ingresses = EffectiveIngresses(v)
      OBVIOUS
    <2>2. ValidCredential(q.method, Given(r, q)) => \A i \in EffectiveIngresses(v) : Valid(i)
      BY DEF EffectiveIngresses, Valid
    <2> QED
      BY <2>1, <2>2
  <1> HIDE DEF w
  <1>4. "done" \in Over /\ "done" \notin Holding
    BY DEF Over, Holding
  <1>5. ReadInv'
    BY <1>1, <1>2, <1>4, ReadOne DEF ServedInv
  <1>6. stale' = {} => RowsValid'
    <2>1. ASSUME RowsValid, NEW e \in Devices, device'[e] # None, NEW i \in device'[e].ingresses
          PROVE  Valid(i)
      <3>1. device'[e] = device[e] \/ (device'[e] = w /\ ValidCredential(q.method, Given(r, q)))
        BY <1>2 DEF RequestInv, StoreInv, RowsInv
      <3> QED
        BY <1>3, <2>1, <3>1 DEF RowsValid
    <2> QED
      BY <1>2, <2>1 DEF ServedInv, StoredServes, RowsValid
  <1> QED
    BY <1>2, <1>5, <1>6, ServedRequest

LEMMA StageServed ==
    ASSUME RequestInv, ServedInv, NEW r \in RouteRequests, Stage(r)
    PROVE  ServedInv'
  <1>1. r \in Requests /\ r \notin RotateRequests /\ r \notin AddRequests
    BY RouteKind
  <1>2. UNCHANGED <<device, deployMu, stale, late, listeners, file, inbox, torn, snapshot, link>>
    BY DEF Stage, ingressVars, hubVars, historyVars
  <1>3. Job(job[r], r) /\ ReadJob(job[r], r)
    BY <1>1 DEF Stage, RequestInv, JobInv, ServedInv, ReadInv, Over
  <1>4. PICK j, s : /\ pc' = [pc EXCEPT ![r] = s] /\ job' = [job EXCEPT ![r] = j]
                    /\ j.read = job[r].read /\ s \in {"done", "lock"}
    <2>1. CASE Answer(r, "refused") /\ UNCHANGED <<staged, job>>
      BY <2>1 DEF Answer, RequestInv, JobInv
    <2>2. CASE ~(Answer(r, "refused") /\ UNCHANGED <<staged, job>>)
      <3> DEFINE n == version[job[r].device] + 1
                 j == [job[r] EXCEPT !.version = n]
      <3>1. pc' = [pc EXCEPT ![r] = "lock"] /\ job' = [job EXCEPT ![r] = j]
        BY <1>1, <2>2 DEF Stage, RequestInv, JobInv
      <3>2. j.read = job[r].read
        BY <1>3 DEF Job
      <3> HIDE DEF j
      <3> QED
        BY <3>1, <3>2
    <2> QED
      BY <2>1, <2>2
  <1>5. ReadJob(j, r) /\ s \notin Holding /\ s # "prepare"
    BY <1>1, <1>3, <1>4 DEF ReadJob, Holding
  <1>6. ReadInv'
    BY <1>1, <1>2, <1>4, <1>5, ReadOne DEF ServedInv
  <1>7. stale' = {} => RowsValid'
    BY <1>2 DEF ServedInv, StoredServes, RowsValid
  <1> QED
    BY <1>2, <1>6, <1>7, ServedRequest

\* A handler that returns.
LEMMA FinishedRead ==
    ASSUME RequestInv, ReadInv, NEW r \in Requests, NEW s, Finish(r, s),
           late' = late \/ (late' = [late EXCEPT ![r] = job[r]] /\ pc[r] \notin Over)
    PROVE  ReadInv'
  <1>1. pc' = [pc EXCEPT ![r] = "done"] /\ job' = [job EXCEPT ![r] = NoJob]
    BY DEF Finish, Answer
  <1>2. \A q \in Requests \ {r} : deployMu = q => deployMu' = q
    BY DEF Finish
  <1>3. "done" \in Over /\ "done" \notin Holding
    BY DEF Over, Holding
  <1> QED
    BY <1>1, <1>2, <1>3, ReadOne

LEMMA EndServed ==
    ASSUME RequestInv, ServedInv, NEW r \in Deployments, Succeed(r) \/ GiveUp(r)
    PROVE  ServedInv'
  <1>1. r \in Requests
    BY DEF Requests
  <1>2. UNCHANGED <<device, stale, late, listeners, file, inbox, torn, snapshot, link>>
    BY DEF Succeed, GiveUp, ingressVars, hubVars, historyVars
  <1>3. ReadInv'
    BY <1>1, <1>2, FinishedRead DEF Succeed, GiveUp, ServedInv
  <1>4. stale' = {} => RowsValid'
    BY <1>2 DEF ServedInv, StoredServes, RowsValid
  <1> QED
    BY <1>2, <1>3, <1>4, ServedRequest

LEMMA LockServed ==
    ASSUME RequestInv, GatewayInv, ServedInv, NEW r \in Deployments, LockAndPrepare(r)
    PROVE  ServedInv'
  <1>1. r \in Requests /\ pc[r] = "lock" /\ deployMu = None
    BY DEF Requests, LockAndPrepare, DeployMuFree
  <1>2. UNCHANGED <<device, listeners, file, stale, late, torn, snapshot, link>>
    BY DEF LockAndPrepare, ingressVars, historyVars
  <1>3. CASE Finish(r, "failed") /\ UNCHANGED inbox
    <2>1. ReadInv'
      BY <1>1, <1>2, <1>3, FinishedRead DEF ServedInv
    <2>2. stale' = {} => RowsValid'
      BY <1>2, <1>3 DEF ServedInv, StoredServes, RowsValid
    <2> QED
      BY <1>2, <1>3, <2>1, <2>2, ServedRequest
  <1>4. CASE ~(Finish(r, "failed") /\ UNCHANGED inbox)
    <2> DEFINE f == Frame(PrepareType(r), r)
    <2>1. /\ pc' = [pc EXCEPT ![r] = "prepare"] /\ UNCHANGED job /\ deployMu' = r
          /\ Broadcast(ReadyGateways, f)
      BY <1>4 DEF LockAndPrepare
    <2>2. f \in Frames /\ f.type # "SNAPSHOT"
      BY <1>1, FrameTyped DEF PrepareType, Over, Frame
    <2> HIDE DEF f
    <2>3. job' = [job EXCEPT ![r] = job[r]]
      BY <2>1 DEF RequestInv, JobInv
    <2>4. ReadJob(job[r], r)
      BY <1>1 DEF ServedInv, ReadInv, Over
    <2>6. \A q \in Requests \ {r} : deployMu = q => deployMu' = q
      BY <1>1, PlaneAssumption, DeviceAssumption
    <2>7. ReadInv'
      BY <1>1, <1>2, <2>1, <2>3, <2>4, <2>6, ReadOne DEF ServedInv
    <2>8. ASSUME stale' = {} PROVE StoredServes'
      <3>1. stale = {}
        BY <1>2, <2>8
      <3>2. SnapshotsServe'
        BY <2>1, <2>2, <3>1, BroadcastServes DEF ServedInv, StoredServes
      <3> QED
        BY <1>2, <3>1, <3>2 DEF ServedInv, StoredServes, RowsValid, FilesServe, ReadingServes
    <2>9. ListenersValid'
      BY <1>2 DEF ServedInv, ListenersValid
    <2> QED
      BY <2>7, <2>8, <2>9 DEF ServedInv
  <1> QED
    BY <1>3, <1>4


\* One device changes, into ingresses that are valid.
LEMMA RowValid ==
    ASSUME RowsInv, RowsValid, NEW d \in Devices, NEW w, device' = [device EXCEPT ![d] = w],
           \A i \in w.ingresses : Valid(i)
    PROVE  RowsValid'
  <1>1. ASSUME NEW e \in Devices, device'[e] # None, NEW i \in device'[e].ingresses
        PROVE  Valid(i)
    <2>1. device'[e] = IF e = d THEN w ELSE device[e]
      BY DEF RowsInv
    <2> QED
      BY <1>1, <2>1 DEF RowsValid
  <1> QED
    BY <1>1 DEF RowsValid

\* A password for the device's method is valid for its primary ingress.
LEMMA RotateValid ==
    ASSUME RowsInv, RowsValid, NEW d \in Devices, NEW pw \in Passwords,
           pw.method = device[d].method, UpdateDeviceCredential(d, pw)
    PROVE  RowsValid'
  <1> DEFINE v == device[d]
             w == SetPassword(v, pw)
  <1>1. device[d] # None /\ device' = [device EXCEPT ![d] = w]
    BY DEF UpdateDeviceCredential
  <1>2. v \in DeviceValues /\ MirrorsPrimary(v)
    BY <1>1, RowsOf
  <1> HIDE DEF w
  <1>3. w.ingresses = {Rekeyed(i, pw) : i \in v.ingresses}
    BY <1>2, SetPasswordFacts DEF w
  <1>4. ASSUME NEW i \in v.ingresses PROVE Valid(Rekeyed(i, pw))
    <2>1. Valid(i)
      BY <1>1 DEF RowsValid
    <2>2. CASE i.primary
      <3>1. i \in Primaries(v)
        BY <2>2 DEF Primaries
      <3>2. i.method = v.method
        BY <1>2, <3>1 DEF MirrorsPrimary
      <3>3. Rekeyed(i, pw).method = i.method /\ Rekeyed(i, pw).password = pw
        BY <2>2 DEF Rekeyed
      <3> QED
        BY <3>2, <3>3 DEF Valid, ValidCredential
    <2>3. CASE ~i.primary
      BY <2>1, <2>3 DEF Rekeyed
    <2> QED
      BY <2>2, <2>3
  <1>5. \A k \in w.ingresses : Valid(k)
    BY <1>3, <1>4
  <1> QED
    BY <1>1, <1>5, RowValid

LEMMA AddValid ==
    ASSUME RowsInv, RowsValid, NEW d \in Devices, NEW n \in Ingresses, Valid(n),
           AddDeviceIngress(d, n)
    PROVE  RowsValid'
  <1> DEFINE v == device[d]
             k == AsPrimary(n, FALSE)
             w == [v EXCEPT !.ingresses = v.ingresses \union {k}]
  <1>1. device[d] # None
    BY DEF AddDeviceIngress
  <1>2. v \in DeviceValues
    BY <1>1, RowsOf
  <1>3. [n EXCEPT !.primary = FALSE] = k /\ k.method = n.method /\ k.password = n.password
    BY AsPrimaryFacts
  <1> HIDE DEF k
  <1>4. device' = [device EXCEPT ![d] = w]
    BY <1>3, <1>2 DEF AddDeviceIngress, RowsInv
  <1>5. w.ingresses = v.ingresses \union {k}
    BY <1>2 DEF DeviceValues
  <1>6. \A i \in w.ingresses : Valid(i)
    BY <1>1, <1>3, <1>5 DEF RowsValid, Valid
  <1> HIDE DEF w
  <1> QED
    BY <1>4, <1>6, RowValid

LEMMA DeleteValid ==
    ASSUME RowsInv, RowsValid, NEW d \in Devices, NEW p, DeleteDeviceIngress(d, p)
    PROVE  RowsValid'
  <1> DEFINE v == device[d]
             R == {i \in v.ingresses : i.port # p}
             w == WithoutPort(v, p)
             n == Oldest(R)
  <1>1. device[d] # None /\ Cardinality(v.ingresses) \notin {0, 1}
    BY DEF DeleteDeviceIngress, DeleteConflicts
  <1>2. v \in DeviceValues /\ OwnPorts(v.ingresses)
    BY <1>1, RowsOf
  <1>3. R \in SUBSET Ingresses /\ OwnPorts(R) /\ \A i \in R : Valid(i)
    BY <1>1, <1>2 DEF DeviceValues, OwnPorts, RowsValid
  <1>4. R # {}
    BY <1>1, <1>2, SomeAreLeft DEF DeviceValues
  <1>5. n \in R
    BY <1>3, <1>4, OldestIsOne
  <1>6. device' = [device EXCEPT ![d] = w]
    BY DEF DeleteDeviceIngress
  <1>7. [n EXCEPT !.primary = TRUE] = AsPrimary(n, TRUE) /\ Valid(AsPrimary(n, TRUE))
    BY <1>3, <1>5, AsPrimaryFacts DEF Valid
  <1>8. w = Promote(v, R) \/ w = [v EXCEPT !.ingresses = R]
    BY DEF WithoutPort
  <1>9. Promote(v, R) = [v EXCEPT !.port = n.port, !.method = n.method, !.password = n.password,
                                  !.ingresses = (R \ {n}) \union {AsPrimary(n, TRUE)}]
    BY <1>7 DEF Promote
  <1> HIDE DEF n, R, w
  <1>10. w.ingresses = R \/ w.ingresses = (R \ {n}) \union {AsPrimary(n, TRUE)}
    BY <1>2, <1>8, <1>9 DEF DeviceValues
  <1>11. \A i \in w.ingresses : Valid(i)
    BY <1>3, <1>7, <1>10
  <1> QED
    BY <1>6, <1>11, RowValid

LEMMA CommitValid ==
    ASSUME RequestInv, RowsValid, NEW r \in Deployments, NEW j, Job(j, r), ReadJob(j, r),
           device[j.device] = j.read, CommitChange(r, j)
    PROVE  RowsValid'
  <1> DEFINE d == j.device
  <1>2. d \in Devices /\ RowsInv
    BY DEF RequestInv, StoreInv, Job
  <1>4. CASE r \in RotateRequests /\ UpdateDeviceCredential(d, j.new)
    BY <1>2, <1>4, RotateValid DEF Job, ReadJob
  <1>5. CASE r \in AddRequests /\ AddDeviceIngress(d, j.new)
    BY <1>2, <1>5, AddValid DEF Job, ReadJob
  <1>6. CASE r \in DeleteRequests /\ DeleteDeviceIngress(d, j.new)
    BY <1>2, <1>6, DeleteValid
  <1>7. CASE r \in RouteRequests /\ UNCHANGED device
    BY <1>7 DEF RowsValid
  <1> QED
    BY <1>4, <1>5, <1>6, <1>7 DEF CommitChange

\* A commit, of a request that waits for it or of one that does not.
LEMMA ChangeValid ==
    ASSUME RequestInv, ServedInv, NEW r \in Deployments, NEW j, Job(j, r), ReadJob(j, r),
           CommitChange(r, j)
    PROVE  stale \subseteq stale' /\ (stale' = {} => RowsValid')
  <1>1. stale' = IF j.read = device[j.device] THEN stale ELSE stale \union {r}
    BY DEF CommitChange
  <1>2. ASSUME stale' = {} PROVE RowsValid'
    <2>1. stale = {} /\ device[j.device] = j.read
      BY <1>1, <1>2
    <2> QED
      BY <2>1, CommitValid DEF ServedInv, StoredServes
  <1> QED
    BY <1>1, <1>2

LEMMA CommitServed ==
    ASSUME RequestInv, GatewayInv, ServedInv, NEW r \in Deployments, Commit(r)
    PROVE  ServedInv'
  <1>1. r \in Requests /\ pc[r] = "prepare" /\ ReadInv /\ pc[r] \notin Over
    BY DEF Requests, Commit, ServedInv, Over
  <1>2. UNCHANGED <<listeners, file, torn, snapshot, link>>
    BY DEF Commit, ingressVars
  <1>3. Job(job[r], r) /\ ReadJob(job[r], r)
    BY <1>1 DEF RequestInv, JobInv, ReadInv
  <1>4. stale \subseteq stale' /\ (stale' = {} => RowsValid')
    <2>1. CASE CommitChange(r, job[r])
      BY <1>3, <2>1, ChangeValid
    <2>2. CASE UNCHANGED <<device, stale>>
      BY <2>2 DEF ServedInv, StoredServes, RowsValid
    <2> QED
      BY <2>1, <2>2 DEF Commit
  <1>5. CASE Finish(r, "failed") /\ UNCHANGED inbox
    <2>0. late' = late \/ late' = [late EXCEPT ![r] = job[r]]
      BY DEF Commit
    <2>1. ReadInv'
      BY <1>1, <1>5, <2>0, FinishedRead
    <2> QED
      BY <1>2, <1>4, <1>5, <2>1, ServedRequest
  <1>6. CASE /\ pc' = [pc EXCEPT ![r] = "update"] /\ UNCHANGED <<job, deployMu, late>>
             /\ Broadcast(live[r], Frame(UpdateType(r), r))
    <2> DEFINE f == Frame(UpdateType(r), r)
    <2>1. f \in Frames /\ f.type # "SNAPSHOT"
      BY <1>1, FrameTyped DEF UpdateType, Over, Frame
    <2>2. Broadcast(live[r], f)
      BY <1>6
    <2> HIDE DEF f
    <2>3. job' = [job EXCEPT ![r] = job[r]]
      BY <1>6 DEF RequestInv, JobInv
    <2>4. ReadJob(job[r], r) /\ deployMu' = r
      BY <1>1, <1>6 DEF ReadInv, Over, Holding
    <2>5. ReadInv'
      BY <1>1, <1>6, <2>3, <2>4, ReadOne
    <2>6. stale' = {} => SnapshotsServe' /\ FilesServe' /\ ReadingServes'
      BY <1>2, <1>4, <2>1, <2>2, BroadcastServes DEF ServedInv, StoredServes, FilesServe, ReadingServes
    <2>7. ListenersValid'
      BY <1>2 DEF ServedInv, ListenersValid
    <2> QED
      BY <1>4, <2>5, <2>6, <2>7 DEF ServedInv, StoredServes
  <1> QED
    BY <1>5, <1>6 DEF Commit

LEMMA LateServed ==
    ASSUME RequestInv, LateInv, ServedInv, NEW r \in Deployments, LateCommit(r)
    PROVE  ServedInv'
  <1>1. r \in Requests /\ late[r] # NoJob /\ CommitChange(r, late[r])
    BY DEF Requests, LateCommit
  <1>2. Job(late[r], r) /\ ReadJob(late[r], r)
    BY <1>1 DEF LateInv, ServedInv, ReadInv
  <1>3. stale \subseteq stale' /\ (stale' = {} => RowsValid')
    BY <1>1, <1>2, ChangeValid
  <1>4. /\ UNCHANGED <<listeners, file, inbox, torn, snapshot, link, pc, job, deployMu>>
        /\ late' = [late EXCEPT ![r] = NoJob]
    BY DEF LateCommit, ingressVars, hubVars
  <1>5. \A q \in Requests : late'[q] # NoJob => late'[q] = late[q]
    BY <1>4 DEF ServedInv, ReadInv
  <1>6. late' = [q \in Requests |-> late'[q]]
    BY <1>4 DEF ServedInv, ReadInv
  <1>7. ReadInv'
    BY <1>4, <1>5, <1>6 DEF ServedInv, ReadInv, ReadJob
  <1> QED
    BY <1>3, <1>4, <1>7, ServedRequest

\* What is read for a gateway: the rows are valid, and no port is there twice unless
\* ingresses changed meanwhile.
LEMMA TableStartable ==
    ASSUME NEW t \in Tables, RowsOfTableValid(t)
    PROVE  AllStartable(t)
  <1> SUFFICES ASSUME NEW x \in Desired(t) PROVE Startable(x)
    BY DEF AllStartable
  <1>1. PICK d \in Devices : /\ t[d] # None /\ x.device = d
                             /\ x.ingress \in EffectiveIngresses(t[d].dev)
    BY DEF Desired
  <1>2. Valid(x.ingress)
    BY <1>1 DEF RowsOfTableValid, EffectiveIngresses, Valid
  <1> QED
    BY <1>2 DEF Valid, Startable

LEMMA RowsAreValid ==
    ASSUME RequestInv, RowsValid
    PROVE  RowsOfTableValid(ActiveRoutes)
  <1> SUFFICES ASSUME NEW d \in Devices, ActiveRoutes[d] # None
               PROVE  /\ ActiveRoutes[d].dev.port # 0 => Valid(ActiveRoutes[d].dev)
                      /\ \A i \in ActiveRoutes[d].dev.ingresses : Valid(i)
    BY DEF RowsOfTableValid
  <1>1. device[d] # None /\ ActiveRoutes[d].dev = device[d]
    BY ActiveRoutesExist
  <1>2. \A i \in device[d].ingresses : Valid(i)
    BY <1>1 DEF RowsValid
  <1>3. MirrorsPrimary(device[d])
    BY <1>1, RowsOf DEF RequestInv, StoreInv
  <1>4. device[d].port # 0 => \E i \in device[d].ingresses :
           device[d].method = i.method /\ device[d].password = i.password
    BY <1>3 DEF MirrorsPrimary, Primaries
  <1> QED
    BY <1>1, <1>2, <1>4 DEF Valid

LEMMA LoadedServes ==
    ASSUME RequestInv, SnapshotInv, RowsValid, ReadingServes,
           NEW g \in Gateways, NEW d \in Devices, LoadIngresses(g, d)
    PROVE  /\ RowsOfTableValid(snapshot'[g].table)
           /\ DuplicatePort(snapshot'[g].table) => snapshot'[g].torn
  <1>1. /\ link[g] = "reading" /\ device[d] # None
        /\ device[d].ingresses \in SUBSET Ingresses
        /\ snapshot[g] \in Snapshots /\ snapshot[g].table[d] # None
        /\ snapshot'[g].table = WithIngresses(snapshot[g].table, d, device[d].ingresses)
        /\ ~snapshot'[g].torn =>
              /\ ~snapshot[g].torn
              /\ device[d].ingresses = snapshot[g].table[d].dev.ingresses
    BY Loaded
  <1>2. PICK t \in Tables : t = snapshot[g].table
    BY <1>1 DEF Snapshots
  <1>3. PICK S \in SUBSET Ingresses : S = device[d].ingresses
    BY <1>1
  <1>4. PICK u : u = snapshot'[g].table
    OBVIOUS
  <1>5. t[d] # None /\ u = WithIngresses(t, d, S)
    BY <1>1, <1>2, <1>3, <1>4
  <1>6. u \in Tables
    BY <1>5, WithIngressesFacts
  <1>7. \A e \in Devices \ {d} : u[e] = t[e]
    <2>1. t[d] # None
      BY <1>5
    <2>2. \A e \in Devices \ {d} : WithIngresses(t, d, S)[e] = t[e]
      BY <2>1, WithIngressesFacts
    <2> QED
      BY <1>5, <2>2
  <1>8. u[d] = [version |-> t[d].version,
                dev |-> [port |-> t[d].dev.port, method |-> t[d].dev.method,
                         password |-> t[d].dev.password, ingresses |-> S]]
    BY <1>5, WithIngressesFacts
  <1>9. RowsOfTableValid(t) /\ (DuplicatePort(t) => snapshot[g].torn)
    BY <1>1, <1>2 DEF ReadingServes
  <1>10. \A i \in S : Valid(i)
    BY <1>1, <1>3 DEF RowsValid
  <1>11. /\ u[d].dev.ingresses = S /\ u[d].dev.port = t[d].dev.port
         /\ u[d].dev.method = t[d].dev.method /\ u[d].dev.password = t[d].dev.password
    BY <1>8
  <1>12. RowsOfTableValid(u)
    <2>1. ASSUME NEW e \in Devices, u[e] # None
          PROVE  /\ u[e].dev.port # 0 => Valid(u[e].dev)
                 /\ \A i \in u[e].dev.ingresses : Valid(i)
      <3>1. CASE e = d
        BY <1>5, <1>9, <1>10, <1>11, <3>1 DEF RowsOfTableValid, Valid
      <3>2. CASE e # d
        BY <1>7, <1>9, <2>1, <3>2 DEF RowsOfTableValid
      <3> QED
        BY <3>1, <3>2
    <2> QED
      BY <2>1 DEF RowsOfTableValid
  <1>13. S = t[d].dev.ingresses => u = t
    <2>1. t[d] \in TableRoutes
      BY <1>5 DEF Tables
    <2>2. S = t[d].dev.ingresses => u[d] = t[d]
      BY <1>8, <2>1 DEF TableRoutes, DeviceValues
    <2>3. S = t[d].dev.ingresses => \A e \in Devices : u[e] = t[e]
      BY <1>7, <2>2
    <2> QED
      BY <1>6, <2>3 DEF Tables
  <1>14. DuplicatePort(u) => snapshot'[g].torn
    BY <1>1, <1>2, <1>3, <1>9, <1>13
  <1> QED
    BY <1>4, <1>12, <1>14

\* The streams and the processes leave the rows and the requests alone.
LEMMA StreamServed ==
    ASSUME RequestInv, GatewayInv, SnapshotInv, ServedInv, NEW g \in Gateways,
           \/ Connect(g) \/ (\E d \in Devices : LoadIngresses(g, d)) \/ SendSnapshot(g)
           \/ Disconnect(g) \/ Heartbeat(g) \/ LocalDrain(g)
    PROVE  ServedInv'
  <1>1. UNCHANGED <<device, pc, job, deployMu, stale, late, torn, listeners, file>>
    BY DEF Connect, LoadIngresses, SendSnapshot, Disconnect, Heartbeat, LocalDrain, requestVars,
           ingressVars, historyVars
  <1>2. ReadInv' /\ ListenersValid'
    BY <1>1, ReadIdle DEF ServedInv, ListenersValid
  <1>3. ASSUME stale = {} PROVE SnapshotsServe' /\ ReadingServes'
    <2>1. RowsValid /\ SnapshotsServe /\ ReadingServes
      BY <1>3 DEF ServedInv, StoredServes
    <2>2. CASE SendSnapshot(g)
      <3> DEFINE f == [type |-> "SNAPSHOT", req |-> None, table |-> snapshot[g].table,
                       torn |-> snapshot[g].torn]
      <3>1. inbox' = [inbox EXCEPT ![g] = <<f>>] /\ link[g] = "reading"
        BY <2>2 DEF SendSnapshot
      <3>2. AllStartable(f.table)
        BY <2>1, <3>1, TableStartable DEF ReadingServes, SnapshotInv, Snapshots
      <3>6. DuplicatePort(f.table) => f.torn
        BY <2>1, <3>1 DEF ReadingServes
      <3>7. f.type = "SNAPSHOT"
        OBVIOUS
      <3> HIDE DEF f
      <3>3. Len(<<f>>) = 1 /\ <<f>>[1] = f
        OBVIOUS
      <3>4. ASSUME NEW h \in Gateways, NEW k \in 1 .. Len(inbox'[h]),
                   inbox'[h][k].type = "SNAPSHOT"
            PROVE  /\ AllStartable(inbox'[h][k].table)
                   /\ DuplicatePort(inbox'[h][k].table) => inbox'[h][k].torn
        <4>1. CASE h = g
          <5>1. inbox'[h] = <<f>>
            BY <3>1, <4>1 DEF GatewayInv
          <5>2. k = 1
            BY <3>3, <3>4, <5>1
          <5> QED
            BY <3>2, <3>3, <3>6, <5>1, <5>2
        <4>2. CASE h # g
          <5>1. inbox'[h] = inbox[h]
            BY <3>1, <4>2 DEF GatewayInv
          <5> QED
            BY <2>1, <3>4, <5>1 DEF SnapshotsServe
        <4> QED
          BY <4>1, <4>2
      <3>5. \A h \in Gateways : link'[h] = "reading" => link[h] = "reading" /\ snapshot'[h] = snapshot[h]
        BY <2>2 DEF SendSnapshot, SnapshotInv
      <3> QED
        BY <2>1, <3>4, <3>5 DEF SnapshotsServe, ReadingServes
    <2>3. CASE Disconnect(g)
      <3>1. \A h \in Gateways : inbox'[h] = inbox[h] \/ inbox'[h] = <<>>
        BY <2>3 DEF Disconnect, EndSession, GatewayInv
      <3>2. \A h \in Gateways : link'[h] = "reading" => link[h] = "reading" /\ snapshot'[h] = snapshot[h]
        BY <2>3 DEF Disconnect, EndSession, SnapshotInv
      <3> QED
        BY <2>1, <3>1, <3>2 DEF SnapshotsServe, ReadingServes
    <2>4. CASE Heartbeat(g) \/ LocalDrain(g)
      <3>1. UNCHANGED <<inbox, snapshot, link>>
        BY <2>4 DEF Heartbeat, LocalDrain, hubVars
      <3> QED
        BY <2>1, <3>1 DEF SnapshotsServe, ReadingServes
    <2>5. CASE Connect(g)
      <3>1. inbox' = inbox /\ snapshot'[g].table = ActiveRoutes
            /\ \A h \in Gateways \ {g} : link'[h] = link[h] /\ snapshot'[h] = snapshot[h]
        BY <2>5 DEF Connect, SnapshotInv
      <3>2. RowsOfTableValid(ActiveRoutes) /\ ~DuplicatePort(ActiveRoutes)
        BY <2>1, RowsAreValid, RowsServe DEF Reconcilable
      <3> QED
        BY <2>1, <3>1, <3>2 DEF SnapshotsServe, ReadingServes
    <2>6. ASSUME NEW d \in Devices, LoadIngresses(g, d)
          PROVE  SnapshotsServe' /\ ReadingServes'
      <3>1. inbox' = inbox /\ link' = link
            /\ \A h \in Gateways \ {g} : snapshot'[h] = snapshot[h]
        BY <2>6 DEF LoadIngresses, SnapshotInv
      <3>2. /\ RowsOfTableValid(snapshot'[g].table)
            /\ DuplicatePort(snapshot'[g].table) => snapshot'[g].torn
        BY <2>1, <2>6, LoadedServes
      <3> QED
        BY <2>1, <3>1, <3>2 DEF SnapshotsServe, ReadingServes
    <2> QED
      BY <2>2, <2>3, <2>4, <2>5, <2>6
  <1>4. stale' = {} => StoredServes'
    BY <1>1, <1>3 DEF ServedInv, StoredServes, RowsValid, FilesServe
  <1> QED
    BY <1>2, <1>4 DEF ServedInv

LEMMA RestartServed ==
    ASSUME RequestInv, GatewayInv, SnapshotInv, ServedInv, NEW g \in Gateways, GatewayRestart(g)
    PROVE  ServedInv'
  <1> DEFINE t == IF file[g] = None THEN NoTable ELSE file[g]
  <1>1. /\ UNCHANGED <<device, pc, job, deployMu, stale, late, torn, file>>
        /\ inbox' = [inbox EXCEPT ![g] = <<>>]
    BY DEF GatewayRestart, Restart, CannotStart, EndSession, historyVars
  <1>2. ListenersType /\ ListenersValid
    BY DEF GatewayInv, ServedInv
  <1>3. ListenersValid'
    <2>1. CASE Restart(g)
      <3> DEFINE new == ListenersFor(Desired(t))
      <3>1. listeners' = [listeners EXCEPT ![g] = new] /\ \A x \in Desired(t) : Startable(x)
        BY <2>1 DEF Restart, Reconcilable
      <3>2. \A p \in Ports : new[p] # None => Valid(new[p])
        BY <3>1, StartedValid
      <3> HIDE DEF new
      <3> QED
        BY <1>2, <3>1, <3>2, OneValid
    <2>2. CASE CannotStart(g)
      <3>1. listeners' = [listeners EXCEPT ![g] = NoListeners]
        BY <2>2 DEF CannotStart
      <3>2. \A p \in Ports : NoListeners[p] = None
        BY DEF NoListeners
      <3> QED
        BY <1>2, <3>1, <3>2, OneValid
    <2> QED
      BY <2>1, <2>2 DEF GatewayRestart
  <1>4. stale = {} => SnapshotsServe' /\ ReadingServes'
    <2>1. \A h \in Gateways : inbox'[h] = inbox[h] \/ inbox'[h] = <<>>
      BY <1>1 DEF GatewayInv
    <2>2. \A h \in Gateways : link'[h] = "reading" => link[h] = "reading" /\ snapshot'[h] = snapshot[h]
      BY DEF GatewayRestart, EndSession, SnapshotInv
    <2> QED
      BY <2>1, <2>2 DEF ServedInv, StoredServes, SnapshotsServe, ReadingServes
  <1>5. stale' = {} => StoredServes'
    BY <1>1, <1>4 DEF ServedInv, StoredServes, RowsValid, FilesServe
  <1>6. ReadInv'
    BY <1>1, ReadIdle DEF ServedInv
  <1> QED
    BY <1>3, <1>5, <1>6 DEF ServedInv

LEMMA ControlPlaneServed ==
    ASSUME RequestInv, GatewayInv, ServedInv, ControlPlaneRestart
    PROVE  ServedInv'
  <1>1. /\ UNCHANGED <<device, stale, file, listeners, late, torn>>
        /\ \A h \in Gateways : inbox'[h] = <<>> /\ link'[h] # "reading"
        /\ \A r \in Requests : pc'[r] \in Over
    BY DEF ControlPlaneRestart, ingressVars, historyVars, Over
  <1>2. ReadInv'
    BY <1>1 DEF ServedInv, ReadInv, ReadJob, Over, Holding
  <1>3. SnapshotsServe' /\ ListenersValid' /\ ReadingServes'
    BY <1>1 DEF SnapshotsServe, ServedInv, ListenersValid, ReadingServes
  <1>4. stale' = {} => StoredServes'
    BY <1>1, <1>3 DEF ServedInv, StoredServes, RowsValid, FilesServe
  <1> QED
    BY <1>2, <1>3, <1>4 DEF ServedInv

LEMMA InitServed == Init => ServedInv
  <1> SUFFICES ASSUME Init PROVE ServedInv
    OBVIOUS
  <1>1. RowsValid
    BY DeviceAssumption DEF Init, RowsValid, Valid
  <1>2. FilesServe /\ ListenersValid
    BY DEF Init, FilesServe, ListenersValid, NoListeners
  <1>3. SnapshotsServe /\ ReadingServes
    <2>1. \A h \in Gateways : inbox[h] = <<>> /\ link[h] # "reading"
      BY DEF Init
    <2> QED
      BY <2>1 DEF SnapshotsServe, ReadingServes
  <1>4. ReadInv
    BY DEF Init, ReadInv, Over, Holding
  <1> QED
    BY <1>1, <1>2, <1>3, <1>4 DEF ServedInv, StoredServes

LEMMA ServedStep == PlaneInv /\ ServedInv /\ [Next]_vars => ServedInv'
  <1> SUFFICES ASSUME PlaneInv, ServedInv, [Next]_vars PROVE ServedInv'
    OBVIOUS
  <1>0. RequestInv /\ GatewayInv /\ LateInv /\ SnapshotInv
    BY DEF PlaneInv
  <1>1. CASE UNCHANGED vars
    <2>1. UNCHANGED <<device, pc, job, deployMu, stale, late, listeners, file, inbox, torn, snapshot,
                      link>>
      BY <1>1 DEF vars, ingressVars, requestVars, hubVars, historyVars
    <2>2. ReadInv' /\ (stale' = {} => RowsValid')
      BY <2>1, ReadIdle DEF ServedInv, StoredServes, RowsValid
    <2> QED
      BY <2>1, <2>2, ServedRequest
  <1>2. ASSUME NEW r \in RouteRequests, Stage(r) PROVE ServedInv'
    BY <1>0, <1>2, StageServed
  <1>3. ASSUME NEW r \in Deployments,
               LockAndPrepare(r) \/ Commit(r) \/ Succeed(r) \/ GiveUp(r) \/ LateCommit(r)
        PROVE  ServedInv'
    BY <1>0, <1>3, LockServed, CommitServed, EndServed, LateServed
  <1>4. ASSUME NEW g \in Gateways, GatewayStep(g) PROVE ServedInv'
    BY <1>0, <1>4, SnapshotServed, PrepareServed, UpdateServed, ActivateServed, StreamServed,
       RestartServed DEF GatewayStep
  <1>5. CASE ControlPlaneRestart
    BY <1>0, <1>5, ControlPlaneServed
  <1>6. ASSUME NEW r \in Requests, NEW q \in Asks[r], BeginsWith(r, q) PROVE ServedInv'
    BY <1>0, <1>6, CreateServed, HandlersServed DEF BeginsWith
  <1> QED
    BY <1>1, <1>2, <1>3, <1>4, <1>5, <1>6, NextCases

\* As long as every commit found the device as its request had read it, the active
\* routes can be served and every credential of a snapshot file is valid; a port is
\* twice in a file only if ListActiveRoutes read the SNAPSHOT while ingresses changed
\* (gateway.go ReconcileListeners, ssconfig.Validate, postgres.go), for any devices,
\* ports, gateways, faults and late commits.
THEOREM StoredCanBeServed == Spec => []SnapshotsCanBeServed
  <1>1. PlaneInv /\ ServedInv => SnapshotsCanBeServed
    BY RowsServe DEF PlaneInv, ServedInv, StoredServes, FilesServe, AllStartable, SnapshotsCanBeServed
  <1>2. Spec => []ServedInv
    BY InitServed, ServedStep, PlaneInvariant, PTL DEF Spec
  <1> QED
    BY <1>1, <1>2, PlaneInvariant, PTL

-------------------------------------------------------------------------------
(* What is on the way to the gateways *)

PrepareTypes == {"PREPARE", "DEVICE_PREPARE"}
UpdateTypes == {"ACTIVATE", "DEVICE_UPDATE"}

\* The table that the first frame on the way to a gateway brings.
NewTable(g) ==
    LET f == Head(inbox[g]) IN
    IF f.type = "SNAPSHOT" THEN f.table
    ELSE IF f.type = "ACTIVATE" THEN ActivatePrepared(g, f.device)
    ELSE IF f.type = "DEVICE_UPDATE" THEN UpdateDevice(g, f.device, f.route.dev)
    ELSE table[g]

\* What handling the first frame does, whichever it is: the table and the file stay
\* or become the new table, and both are the new one if the update is acknowledged.
Handled(g, res) ==
    LET f == Head(inbox[g]) IN
    /\ inbox[g] # <<>> /\ f \in Frames
    /\ inbox' = [inbox EXCEPT ![g] = Tail(@)]
    /\ acks' = IF f.req # None /\ g \in live[f.req] THEN [acks EXCEPT ![f.req][g] = res] ELSE acks
    /\ f.req # None => res \in {"ok", "error"}
    /\ UNCHANGED <<device, version, staged, clock, deployMu, pc, job, targets, live, answer, late,
                   snapshot, link, stale, last>>
    /\ \A h \in Gateways \ {g} :
          table'[h] = table[h] /\ file'[h] = file[h] /\ prepared'[h] = prepared[h]
    /\ table'[g] \in {table[g], NewTable(g)} /\ file'[g] \in {file[g], NewTable(g)}
    /\ f.type \in PrepareTypes => table'[g] = table[g] /\ file'[g] = file[g]
    /\ f.type = "PREPARE" /\ res = "ok" => prepared'[g][f.device] = f.route
    /\ f.type \in UpdateTypes /\ res = "ok" => table'[g] = NewTable(g) /\ file'[g] = NewTable(g)

LEMMA KindsOfFrame ==
    ASSUME NEW f \in Frames
    PROVE  /\ (f.type = "SNAPSHOT" /\ f.req = None) \/ f.type \in PrepareTypes \union UpdateTypes
           /\ f.type # "SNAPSHOT" => /\ f.req \in Deployments /\ f.device \in Devices
                                     /\ f.route \in TableRoutes /\ f.req # None
           /\ f.type = "SNAPSHOT" => f.table \in Tables
           /\ f.req # None => f.type # "SNAPSHOT"
  <1>1. None \notin Deployments
    BY PlaneAssumption, DeviceAssumption DEF Requests
  <1>2. CASE f \in [type : {"SNAPSHOT"}, req : {None}, table : Tables, torn : BOOLEAN]
    BY <1>2
  <1>3. CASE f \in [type : {"PREPARE", "ACTIVATE", "DEVICE_PREPARE", "DEVICE_UPDATE"},
                    req : Deployments, device : Devices, route : TableRoutes]
    BY <1>1, <1>3 DEF PrepareTypes, UpdateTypes
  <1> QED
    BY <1>2, <1>3 DEF Frames

LEMMA ApplyHandled ==
    ASSUME GatewayInv, NEW g \in Gateways, inbox[g] # <<>>, Head(inbox[g]).type \in UpdateTypes,
           NEW t, t = NewTable(g), ApplyTable(g, t),
           \A h \in Gateways \ {g} : prepared'[h] = prepared[h]
    PROVE  \E res : Handled(g, res)
  <1> DEFINE f == Head(inbox[g])
  <1>1. f \in Frames
    BY Received1
  <1>2. PICK res \in {"ok", "error"} :
           /\ Ack(g, res)
           /\ res = "ok" => Applied(g, t)
           /\ Applied(g, t) \/ NotReconciled(g, t) \/ NotSaved(g, t)
    BY DEF ApplyTable
  <1>3. /\ table' = [table EXCEPT ![g] = t]
        /\ file' = file \/ file' = [file EXCEPT ![g] = t]
        /\ res = "ok" => file' = [file EXCEPT ![g] = t]
    BY <1>2 DEF Applied, NotReconciled, NotSaved, Install
  <1>4. /\ table'[g] = t /\ file'[g] \in {file[g], t} /\ (res = "ok" => file'[g] = t)
        /\ \A h \in Gateways \ {g} : table'[h] = table[h] /\ file'[h] = file[h]
    BY <1>3 DEF GatewayInv
  <1>5. f.type \notin PrepareTypes /\ f.type # "PREPARE"
    BY DEF PrepareTypes, UpdateTypes
  <1>6. Handled(g, res)
    BY <1>1, <1>2, <1>4, <1>5 DEF Handled, Ack, historyVars
  <1> QED
    BY <1>6

LEMMA PrepareHandled ==
    ASSUME GatewayInv, NEW g \in Gateways, OnPrepare(g) \/ OnDevicePrepare(g)
    PROVE  \E res : Handled(g, res)
  <1> DEFINE f == Head(inbox[g])
             d == f.device
             rt == f.route
  <1>1. /\ inbox[g] # <<>> /\ f \in Frames /\ f.type \in PrepareTypes
        /\ d \in Devices /\ rt \in TableRoutes
    BY Received1, DeploymentFrame DEF OnPrepare, OnDevicePrepare, Received, PrepareTypes
  <1>2. UNCHANGED <<table, file>> /\ f.type \notin UpdateTypes
    BY <1>1 DEF OnPrepare, OnDevicePrepare, PrepareTypes, UpdateTypes
  <1>3. PICK res \in {"ok", "error"} :
           /\ Ack(g, res)
           /\ UNCHANGED prepared \/ prepared' = [prepared EXCEPT ![g][d] = rt]
           /\ f.type = "PREPARE" /\ res = "ok" => prepared' = [prepared EXCEPT ![g][d] = rt]
    <2>1. CASE OnDevicePrepare(g)
      BY <2>1 DEF OnDevicePrepare, Received
    <2>2. CASE OnPrepare(g)
      <3>1. CASE KeepPrepared(g, d, rt) /\ Ack(g, "ok")
        BY <3>1 DEF KeepPrepared
      <3>2. CASE Ack(g, "error") /\ UNCHANGED prepared
        BY <3>2
      <3> QED
        BY <2>2, <3>1, <3>2 DEF OnPrepare, RefusePrepared
    <2> QED
      BY <2>1, <2>2
  <1> HIDE DEF d, rt
  <1>4. /\ \A h \in Gateways \ {g} : prepared'[h] = prepared[h]
        /\ prepared' = [prepared EXCEPT ![g][d] = rt] => prepared'[g][d] = rt
    BY <1>1, <1>3 DEF GatewayInv, Tables
  <1>5. f.type = "PREPARE" /\ res = "ok" => prepared'[g][f.device] = f.route
    BY <1>3, <1>4 DEF d, rt
  <1>6. Handled(g, res)
    BY <1>1, <1>2, <1>3, <1>4, <1>5 DEF Handled, Ack, historyVars
  <1> QED
    BY <1>6

LEMMA SnapshotHandled ==
    ASSUME GatewayInv, NEW g \in Gateways, OnSnapshot(g)
    PROVE  \E res : Handled(g, res)
  <1> DEFINE f == Head(inbox[g])
             t == f.table
  <1>1. inbox[g] # <<>> /\ f \in Frames /\ f.type = "SNAPSHOT"
    BY Received1 DEF OnSnapshot, Received
  <1>2. f.req = None /\ f.type \notin PrepareTypes /\ f.type \notin UpdateTypes /\ t = NewTable(g)
    BY <1>1, KindsOfFrame DEF PrepareTypes, UpdateTypes, NewTable
  <1>3. /\ SnapshotApplied(g, t) \/ SnapshotNotReconciled(g, t) \/ SnapshotNotSaved(g)
        /\ Ack(g, "none")
    BY DEF OnSnapshot
  <1>4. /\ table' = table \/ table' = [table EXCEPT ![g] = t]
        /\ file' = file \/ file' = [file EXCEPT ![g] = t]
        /\ prepared' = prepared \/ prepared' = [prepared EXCEPT ![g] = NoTable]
    BY <1>3 DEF SnapshotApplied, SnapshotNotReconciled, SnapshotNotSaved, Install
  <1>5. /\ table'[g] \in {table[g], t} /\ file'[g] \in {file[g], t}
        /\ \A h \in Gateways \ {g} :
              table'[h] = table[h] /\ file'[h] = file[h] /\ prepared'[h] = prepared[h]
    BY <1>4 DEF GatewayInv
  <1>6. Handled(g, "none")
    BY <1>1, <1>2, <1>3, <1>5 DEF Handled, Ack, historyVars, PrepareTypes
  <1> QED
    BY <1>6

LEMMA UpdateHandled ==
    ASSUME GatewayInv, NEW g \in Gateways, OnDeviceUpdate(g) \/ OnActivate(g)
    PROVE  \E res : Handled(g, res)
  <1> DEFINE f == Head(inbox[g])
  <1>1. inbox[g] # <<>> /\ f \in Frames /\ f.type \in UpdateTypes
    BY Received1 DEF OnDeviceUpdate, OnActivate, Received, UpdateTypes
  <1>2. f.device \in Devices /\ f.type \notin PrepareTypes /\ f.type # "SNAPSHOT"
    BY <1>1, KindsOfFrame DEF PrepareTypes, UpdateTypes
  <1>3. CASE OnDeviceUpdate(g)
    <2>1. NewTable(g) = UpdateDevice(g, f.device, f.route.dev)
      BY <1>3 DEF OnDeviceUpdate, Received, NewTable
    <2>2. ApplyTable(g, NewTable(g)) /\ \A h \in Gateways \ {g} : prepared'[h] = prepared[h]
      BY <1>3, <2>1 DEF OnDeviceUpdate
    <2> QED
      BY <1>1, <2>2, ApplyHandled
  <1>4. CASE OnActivate(g) /\ WasPrepared(g, f.device, f.route)
    <2>1. NewTable(g) = ActivatePrepared(g, f.device)
      BY <1>4 DEF OnActivate, Received, NewTable
    <2>2. ApplyTable(g, NewTable(g)) /\ Forget(g, f.device)
      BY <1>4, <2>1 DEF OnActivate
    <2>3. \A h \in Gateways \ {g} : prepared'[h] = prepared[h]
      BY <2>2 DEF Forget, GatewayInv
    <2> QED
      BY <1>1, <2>2, <2>3, ApplyHandled
  <1>5. CASE OnActivate(g) /\ ~WasPrepared(g, f.device, f.route)
    <2>1. Ack(g, "error") /\ UNCHANGED <<table, file, prepared>>
      BY <1>5 DEF OnActivate, ingressVars
    <2>2. Handled(g, "error")
      BY <1>1, <1>2, <2>1 DEF Handled, Ack, historyVars, PrepareTypes
    <2> QED
      BY <2>2
  <1> QED
    BY <1>3, <1>4, <1>5

FrameStep(g) ==
    OnSnapshot(g) \/ OnDevicePrepare(g) \/ OnDeviceUpdate(g) \/ OnPrepare(g) \/ OnActivate(g)

LEMMA HandledFrame ==
    ASSUME GatewayInv, NEW g \in Gateways, FrameStep(g)
    PROVE  \E res : Handled(g, res)
BY SnapshotHandled, PrepareHandled, UpdateHandled DEF FrameStep

SessionTypes ==
    /\ live \in [Requests -> SUBSET Gateways] /\ targets \in [Requests -> SUBSET Gateways]
    /\ acks \in [Requests -> [Gateways -> {"none", "ok", "error"}]]
    /\ link \in [Gateways -> {"none", "reading", "open", "down"}]

\* A request that waits for gateways holds deployMu; the sessions it still counts on
\* are open.
Waits(r) ==
    /\ pc[r] \notin Holding => live[r] = {} /\ acks[r] = NoAcks
    /\ \A g \in live[r] : link[g] = "open" /\ g \in targets[r]

PhaseType(r) == IF pc[r] = "prepare" THEN PrepareType(r) ELSE UpdateType(r)

\* Only the first frame on the way can be one that brings a table; a frame of the
\* deployment under way is the last one, and is not acknowledged yet.
Carried(g, k) ==
    LET f == inbox[g][k]
        r == f.req IN
    /\ k # 1 => f.type \in PrepareTypes
    /\ f.type # "SNAPSHOT" =>
          /\ pc[r] \in Holding \union {"done"}
          /\ pc[r] \in Holding => /\ g \in live[r] /\ acks[r][g] = "none" /\ k = Len(inbox[g])
                                  /\ f = Frame(PhaseType(r), r)

\* A gateway that has acknowledged has nothing else on the way, and keeps what it has
\* prepared.
Acked(r, g) ==
    acks[r][g] # "none" =>
        /\ inbox[g] = <<>>
        /\ pc[r] = "prepare" /\ acks[r][g] = "ok" /\ r \in RouteRequests =>
              prepared[g][job[r].device] = [version |-> job[r].version, dev |-> job[r].proposed]

\* A gateway that is told to activate a route has it prepared.
Activates(g) ==
    inbox[g] # <<>> /\ inbox[g][1].type = "ACTIVATE" =>
        prepared[g][inbox[g][1].device] = inbox[g][1].route

CarryInv ==
    /\ SessionTypes
    /\ \A r \in Requests : Waits(r)
    /\ \A g \in Gateways : \A k \in 1 .. Len(inbox[g]) : Carried(g, k)
    /\ \A r \in Requests : \A g \in live[r] : Acked(r, g)
    /\ \A g \in Gateways : Activates(g)

LEMMA InboxFrame ==
    ASSUME GatewayInv, NEW g \in Gateways, NEW k \in 1 .. Len(inbox[g])
    PROVE  inbox[g][k] \in Frames
BY DEF GatewayInv

LEMMA InitCarry == Init => CarryInv
  <1> SUFFICES ASSUME Init PROVE CarryInv
    OBVIOUS
  <1>1. SessionTypes
    BY DEF Init, SessionTypes, NoAcks
  <1>2. /\ \A r \in Requests : live[r] = {} /\ acks[r] = NoAcks
        /\ \A g \in Gateways : inbox[g] = <<>>
    BY DEF Init
  <1>3. \A g \in Gateways : 1 .. Len(inbox[g]) = {}
    BY <1>2
  <1> QED
    BY <1>1, <1>2, <1>3 DEF CarryInv, Waits, Acked, Activates

\* The step of one request that is not deploying, before or after it: nothing of it
\* is on the way that it still waits for.
LEMMA RequestCarry ==
    ASSUME RequestInv, GatewayInv, CarryInv, NEW r \in Requests, NEW s, NEW j,
           pc' = [pc EXCEPT ![r] = s], job' = [job EXCEPT ![r] = j],
           s \notin Holding, pc[r] \in {"idle", "stage"} \/ s = "done",
           UNCHANGED <<inbox, link, prepared>>,
           SessionTypes',
           \A q \in Requests \ {r} :
               live'[q] = live[q] /\ acks'[q] = acks[q] /\ targets'[q] = targets[q],
           live'[r] = {}, acks'[r] = NoAcks
    PROVE  CarryInv'
  <1>1. /\ pc'[r] = s
        /\ \A q \in Requests \ {r} : pc'[q] = pc[q] /\ job'[q] = job[q]
    BY DEF RequestInv, JobInv
  <1>2. ASSUME NEW q \in Requests PROVE Waits(q)'
    <2>1. CASE q = r
      BY <1>1, <2>1 DEF Waits
    <2>2. CASE q # r
      BY <1>1, <2>2 DEF Waits, CarryInv
    <2> QED
      BY <2>1, <2>2
  <1>3. ASSUME NEW g \in Gateways, NEW k \in 1 .. Len(inbox'[g]) PROVE Carried(g, k)'
    <2> DEFINE f == inbox[g][k]
               q == f.req
    <2>1. k \in 1 .. Len(inbox[g]) /\ inbox'[g] = inbox[g] /\ Carried(g, k)
      BY DEF CarryInv
    <2>2. f \in Frames
      BY <2>1, InboxFrame
    <2>3. CASE f.type = "SNAPSHOT"
      BY <2>1, <2>3 DEF Carried
    <2>4. CASE f.type # "SNAPSHOT" /\ q = r
      <3>1. pc[r] \in Holding \union {"done"}
        BY <2>1, <2>4 DEF Carried
      <3>2. s = "done"
        BY <3>1 DEF Holding
      <3> QED
        BY <1>1, <2>1, <2>4, <3>2 DEF Carried, Holding
    <2>5. CASE f.type # "SNAPSHOT" /\ q # r
      <3>1. q \in Requests \ {r}
        BY <2>2, <2>5, KindsOfFrame DEF Requests
      <3>2. Frame(PhaseType(q), q)' = Frame(PhaseType(q), q)
        BY <1>1, <3>1 DEF Frame, PhaseType
      <3>3. pc'[q] = pc[q] /\ live'[q] = live[q] /\ acks'[q] = acks[q]
        BY <1>1, <3>1
      <3> QED
        BY <2>1, <2>5, <3>2, <3>3 DEF Carried
    <2> QED
      BY <2>3, <2>4, <2>5
  <1>4. ASSUME NEW q \in Requests, NEW g \in live'[q] PROVE Acked(q, g)'
    <2>1. q # r
      BY <1>4
    <2>2. /\ pc'[q] = pc[q] /\ job'[q] = job[q] /\ acks'[q] = acks[q] /\ g \in live[q]
      BY <1>1, <1>4, <2>1
    <2> QED
      BY <2>2 DEF Acked, CarryInv
  <1>5. \A g \in Gateways : Activates(g)'
    BY DEF Activates, CarryInv
  <1> QED
    BY <1>2, <1>3, <1>4, <1>5 DEF CarryInv

LEMMA FinishCarry ==
    ASSUME RequestInv, GatewayInv, CarryInv, NEW r \in Requests, NEW st, Finish(r, st),
           UNCHANGED <<inbox, link, prepared>>
    PROVE  CarryInv'
  <1>1. /\ pc' = [pc EXCEPT ![r] = "done"] /\ job' = [job EXCEPT ![r] = NoJob]
        /\ live' = [live EXCEPT ![r] = {}] /\ acks' = [acks EXCEPT ![r] = NoAcks]
        /\ targets' = targets \/ targets' = [targets EXCEPT ![r] = {}]
    BY DEF Finish, Answer
  <1>2. SessionTypes
    BY DEF CarryInv
  <1>3. NoAcks \in [Gateways -> {"none", "ok", "error"}]
    BY DEF NoAcks
  <1>4. SessionTypes'
    BY <1>1, <1>2, <1>3 DEF SessionTypes
  <1>5. /\ \A q \in Requests \ {r} :
              live'[q] = live[q] /\ acks'[q] = acks[q] /\ targets'[q] = targets[q]
        /\ live'[r] = {} /\ acks'[r] = NoAcks
    BY <1>1, <1>2 DEF SessionTypes
  <1>6. "done" \notin Holding
    BY DEF Holding
  <1> QED
    BY <1>1, <1>4, <1>5, <1>6, RequestCarry

\* What appending a frame leaves where it was.
LEMMA AppendedFrame ==
    ASSUME GatewayInv, NEW g \in Gateways, NEW f \in Frames, NEW k \in 1 .. Len(Append(inbox[g], f))
    PROVE  /\ Len(Append(inbox[g], f)) = Len(inbox[g]) + 1
           /\ \/ k = Len(inbox[g]) + 1 /\ Append(inbox[g], f)[k] = f
              \/ k \in 1 .. Len(inbox[g]) /\ Append(inbox[g], f)[k] = inbox[g][k]
  <1> DEFINE q == inbox[g]
  <1>1. q \in Seq(Frames)
    BY DEF GatewayInv
  <1> HIDE DEF q
  <1>2. /\ Len(Append(q, f)) = Len(q) + 1
        /\ \A m \in 1 .. Len(Append(q, f)) :
              \/ m = Len(q) + 1 /\ Append(q, f)[m] = f
              \/ m \in 1 .. Len(q) /\ Append(q, f)[m] = q[m]
    BY <1>1
  <1> QED
    BY <1>2 DEF q

LEMMA AppendedHead ==
    ASSUME GatewayInv, NEW g \in Gateways, NEW f \in Frames
    PROVE  /\ inbox[g] = <<>> => Append(inbox[g], f) = <<f>> /\ Append(inbox[g], f)[1] = f
           /\ inbox[g] # <<>> => Append(inbox[g], f)[1] = inbox[g][1]
           /\ Append(inbox[g], f) # <<>>
  <1> DEFINE q == inbox[g]
  <1>1. q \in Seq(Frames)
    BY DEF GatewayInv
  <1> HIDE DEF q
  <1>2. q = <<>> => Append(q, f) = <<f>> /\ Append(q, f)[1] = f
    OBVIOUS
  <1>3. q # <<>> => Append(q, f)[1] = q[1]
    BY <1>1
  <1>4. Append(q, f) # <<>>
    <2>1. Len(Append(q, f)) = Len(q) + 1 /\ Len(q) \in Nat /\ Len(<<>>) = 0
      BY <1>1
    <2> QED
      BY <2>1
  <1> QED
    BY <1>2, <1>3, <1>4 DEF q

LEMMA InboxLen ==
    ASSUME GatewayInv, NEW g \in Gateways
    PROVE  /\ Len(inbox[g]) \in Nat
           /\ inbox[g] # <<>> => 1 \in 1 .. Len(inbox[g]) /\ Head(inbox[g]) = inbox[g][1]
           /\ inbox[g] = <<>> => 1 .. Len(inbox[g]) = {}
  <1> DEFINE q == inbox[g]
  <1>1. q \in Seq(Frames)
    BY DEF GatewayInv
  <1> HIDE DEF q
  <1>2. /\ Len(q) \in Nat
        /\ q # <<>> => 1 \in 1 .. Len(q) /\ Head(q) = q[1]
        /\ q = <<>> => 1 .. Len(q) = {}
    BY <1>1
  <1> QED
    BY <1>2 DEF q

\* Nobody else is deploying.
LEMMA OneHolder ==
    ASSUME ReadInv, NEW r, deployMu = None \/ deployMu = r, NEW q \in Requests, q # r
    PROVE  pc[q] \notin Holding
BY PlaneAssumption, DeviceAssumption DEF ReadInv

LEMMA LockCarry ==
    ASSUME RequestInv, GatewayInv, ReadInv, CarryInv, NEW r \in Deployments, LockAndPrepare(r)
    PROVE  CarryInv'
  <1>1. r \in Requests /\ pc[r] = "lock" /\ deployMu = None
    BY DEF Requests, LockAndPrepare, DeployMuFree
  <1>2. CASE Finish(r, "failed") /\ UNCHANGED inbox
    <2>1. UNCHANGED <<link, prepared>>
      BY DEF LockAndPrepare, ingressVars
    <2> QED
      BY <1>1, <1>2, <2>1, FinishCarry
  <1>3. CASE ~(Finish(r, "failed") /\ UNCHANGED inbox)
    <2> DEFINE S == ReadyGateways
               fr == Frame(PrepareType(r), r)
    <2>1. /\ pc' = [pc EXCEPT ![r] = "prepare"] /\ UNCHANGED <<job, acks, link, prepared>>
          /\ targets' = [targets EXCEPT ![r] = S] /\ live' = [live EXCEPT ![r] = S]
          /\ Broadcast(S, fr)
      BY <1>3 DEF LockAndPrepare, ingressVars
    <2>2. S \in SUBSET Gateways /\ \A g \in S : link[g] = "open"
      BY DEF ReadyGateways
    <2>3. fr \in Frames /\ fr.req = r /\ fr.type \in PrepareTypes /\ fr.type # "SNAPSHOT"
      BY <1>1, FrameTyped DEF PrepareType, Over, Frame, PrepareTypes
    <2>4. fr = Frame(PhaseType(r), r)'
      BY <1>1, <2>1 DEF Frame, PhaseType, PrepareType, RequestInv, JobInv
    <2> HIDE DEF S, fr
    <2>5. /\ pc'[r] = "prepare" /\ live'[r] = S /\ targets'[r] = S
          /\ \A q \in Requests \ {r} : pc'[q] = pc[q] /\ live'[q] = live[q] /\ targets'[q] = targets[q]
      BY <1>1, <2>1 DEF RequestInv, JobInv, CarryInv, SessionTypes
    <2>6. acks[r] = NoAcks /\ \A g \in Gateways : acks[r][g] = "none"
      BY <1>1 DEF CarryInv, Waits, Holding, NoAcks
    <2>7. \A q \in Requests \ {r} : pc[q] \notin Holding /\ live[q] = {}
      BY <1>1, OneHolder DEF CarryInv, Waits
    <2>8. SessionTypes'
      BY <1>1, <2>1, <2>2 DEF CarryInv, SessionTypes
    <2>9. ASSUME NEW q \in Requests PROVE Waits(q)'
      <3>1. CASE q = r
        BY <2>1, <2>2, <2>5, <3>1 DEF Waits, Holding
      <3>2. CASE q # r
        BY <2>1, <2>5, <3>2 DEF Waits, CarryInv
      <3> QED
        BY <3>1, <3>2
    <2>10. ASSUME NEW g \in Gateways, NEW k \in 1 .. Len(inbox[g]),
                  inbox'[g][k] = inbox[g][k]
           PROVE  Carried(g, k)'
      <3> DEFINE f == inbox[g][k]
                 q == f.req
      <3>1. f \in Frames /\ Carried(g, k)
        BY InboxFrame DEF CarryInv
      <3>2. CASE f.type = "SNAPSHOT"
        BY <2>10, <3>1, <3>2 DEF Carried
      <3>3. CASE f.type # "SNAPSHOT"
        <4>1. q \in Requests /\ pc[q] \in Holding \union {"done"}
          BY <3>1, <3>3, KindsOfFrame DEF Carried, Requests
        <4>2. q # r
          BY <1>1, <4>1 DEF Holding
        <4>3. pc'[q] = "done"
          BY <2>5, <2>7, <4>1, <4>2
        <4> QED
          BY <2>10, <3>1, <3>3, <4>3 DEF Carried, Holding
      <3> QED
        BY <3>2, <3>3
    <2>11. ASSUME NEW g \in Gateways, NEW k \in 1 .. Len(inbox'[g]) PROVE Carried(g, k)'
      <3>1. CASE g \in S
        <4>1. inbox'[g] = Append(inbox[g], fr)
          BY <2>1, <3>1 DEF Broadcast
        <4>2. Len(inbox'[g]) = Len(inbox[g]) + 1 /\ Len(inbox[g]) \in Nat
          BY <2>3, <2>11, <4>1, AppendedFrame, InboxLen
        <4>3. CASE k = Len(inbox[g]) + 1 /\ inbox'[g][k] = fr
          BY <2>1, <2>3, <2>4, <2>5, <2>6, <3>1, <4>2, <4>3 DEF Carried, Holding
        <4>4. CASE k \in 1 .. Len(inbox[g]) /\ inbox'[g][k] = inbox[g][k]
          BY <2>10, <4>4
        <4> QED
          BY <2>3, <2>11, <4>1, <4>3, <4>4, AppendedFrame
      <3>2. CASE g \notin S
        <4>1. inbox'[g] = inbox[g]
          BY <2>1, <3>2 DEF Broadcast
        <4> QED
          BY <2>10, <2>11, <4>1
      <3> QED
        BY <3>1, <3>2
    <2>12. ASSUME NEW q \in Requests, NEW g \in live'[q] PROVE Acked(q, g)'
      <3>1. q = r /\ g \in Gateways
        BY <2>2, <2>5, <2>7, <2>12
      <3> QED
        BY <2>1, <2>6, <3>1 DEF Acked
    <2>13. ASSUME NEW g \in Gateways PROVE Activates(g)'
      <3>1. CASE g \in S
        <4>1. inbox'[g] = Append(inbox[g], fr)
          BY <2>1, <3>1 DEF Broadcast
        <4>2. CASE inbox[g] = <<>>
          BY <2>3, <4>1, <4>2, AppendedHead DEF Activates, PrepareTypes
        <4>3. CASE inbox[g] # <<>>
          BY <2>1, <4>1, <4>3, AppendedHead DEF Activates, CarryInv
        <4> QED
          BY <4>2, <4>3
      <3>2. CASE g \notin S
        <4>1. inbox'[g] = inbox[g]
          BY <2>1, <3>2 DEF Broadcast
        <4> QED
          BY <2>1, <4>1 DEF Activates, CarryInv
      <3> QED
        BY <3>1, <3>2
    <2> QED
      BY <2>8, <2>9, <2>11, <2>12, <2>13 DEF CarryInv
  <1> QED
    BY <1>2, <1>3

LEMMA CommitCarry ==
    ASSUME RequestInv, GatewayInv, ReadInv, CarryInv, NEW r \in Deployments, Commit(r)
    PROVE  CarryInv'
  <1>1. /\ r \in Requests /\ pc[r] = "prepare" /\ deployMu = r /\ AllAcked(r)
        /\ UNCHANGED <<link, prepared>>
    BY DEF Requests, Commit, ReadInv, Holding, ingressVars
  <1>2. CASE Finish(r, "failed") /\ UNCHANGED inbox
    BY <1>1, <1>2, FinishCarry
  <1>3. CASE ~(Finish(r, "failed") /\ UNCHANGED inbox)
    <2> DEFINE S == live[r]
               fr == Frame(UpdateType(r), r)
    <2>1. /\ pc' = [pc EXCEPT ![r] = "update"] /\ UNCHANGED <<job, live, targets>>
          /\ acks' = [acks EXCEPT ![r] = NoAcks] /\ Broadcast(S, fr)
      BY <1>3 DEF Commit
    <2>2. fr \in Frames /\ fr.req = r /\ fr.type \in UpdateTypes /\ fr.type # "SNAPSHOT"
      BY <1>1, FrameTyped DEF UpdateType, Over, Frame, UpdateTypes
    <2>3. fr = Frame(PhaseType(r), r)'
      BY <1>1, <2>1 DEF Frame, PhaseType, UpdateType, RequestInv, JobInv
    <2>4. S \in SUBSET Gateways /\ S \subseteq targets[r]
      BY <1>1 DEF CarryInv, SessionTypes, Waits
    <2>5. ASSUME NEW g \in S
          PROVE  /\ inbox[g] = <<>>
                 /\ r \in RouteRequests => prepared[g][fr.device] = fr.route
      <3>1. acks[r][g] = "ok"
        BY <1>1, <2>4 DEF AllAcked
      <3>2. Acked(r, g)
        BY <1>1 DEF CarryInv
      <3> QED
        BY <1>1, <3>1, <3>2 DEF Acked, Frame
    <2>6. fr.type = "ACTIVATE" => r \in RouteRequests
      BY DEF Frame, UpdateType
    <2> HIDE DEF S, fr
    <2>7. /\ pc'[r] = "update" /\ acks'[r] = NoAcks
          /\ \A q \in Requests \ {r} : pc'[q] = pc[q] /\ acks'[q] = acks[q]
      BY <1>1, <2>1 DEF RequestInv, JobInv, CarryInv, SessionTypes
    <2>8. \A g \in Gateways : NoAcks[g] = "none"
      BY DEF NoAcks
    <2>9. \A q \in Requests \ {r} : pc[q] \notin Holding /\ live[q] = {}
      BY <1>1, OneHolder DEF CarryInv, Waits
    <2>10. SessionTypes'
      <3>1. NoAcks \in [Gateways -> {"none", "ok", "error"}]
        BY DEF NoAcks
      <3> QED
        BY <1>1, <2>1, <3>1 DEF CarryInv, SessionTypes
    <2>11. ASSUME NEW q \in Requests PROVE Waits(q)'
      <3>1. CASE q = r
        BY <1>1, <2>1, <2>7, <3>1 DEF Waits, Holding, CarryInv
      <3>2. CASE q # r
        BY <1>1, <2>1, <2>7, <3>2 DEF Waits, CarryInv
      <3> QED
        BY <3>1, <3>2
    <2>12. ASSUME NEW g \in Gateways PROVE inbox'[g] = IF g \in S THEN <<fr>> ELSE inbox[g]
      <3>1. inbox'[g] = IF g \in S THEN Append(inbox[g], fr) ELSE inbox[g]
        BY <2>1 DEF Broadcast
      <3> QED
        BY <2>2, <2>5, <3>1, AppendedHead
    <2>13. Len(<<fr>>) = 1 /\ <<fr>>[1] = fr /\ <<fr>> # <<>>
      OBVIOUS
    <2>14. ASSUME NEW g \in Gateways, NEW k \in 1 .. Len(inbox'[g]) PROVE Carried(g, k)'
      <3>1. CASE g \in S
        <4>0. inbox'[g] = <<fr>>
          BY <2>12, <3>1
        <4>1. k = 1 /\ inbox'[g][k] = fr /\ Len(inbox'[g]) = 1
          <5>1. k \in 1 .. 1
            BY <2>13, <2>14, <4>0
          <5>2. k = 1
            BY <5>1
          <5> QED
            BY <2>13, <4>0, <5>2
        <4> QED
          BY <2>1, <2>2, <2>3, <2>7, <2>8, <3>1, <4>1 DEF Carried, Holding, S
      <3>2. CASE g \notin S
        <4> DEFINE f == inbox[g][k]
                   q == f.req
        <4>1. inbox'[g] = inbox[g] /\ k \in 1 .. Len(inbox[g])
          BY <2>12, <2>14, <3>2
        <4>2. f \in Frames /\ Carried(g, k)
          BY <4>1, InboxFrame DEF CarryInv
        <4>3. CASE f.type = "SNAPSHOT"
          BY <4>1, <4>2, <4>3 DEF Carried
        <4>4. CASE f.type # "SNAPSHOT"
          <5>1. q \in Requests /\ pc[q] \in Holding \union {"done"} /\ (pc[q] \in Holding => g \in live[q])
            BY <4>2, <4>4, KindsOfFrame DEF Carried, Requests
          <5>2. q # r
            BY <1>1, <3>2, <5>1 DEF Holding, S
          <5>3. pc'[q] = "done"
            BY <2>7, <2>9, <5>1, <5>2
          <5> QED
            BY <4>1, <4>2, <4>4, <5>3 DEF Carried, Holding
        <4> QED
          BY <4>3, <4>4
      <3> QED
        BY <3>1, <3>2
    <2>15. ASSUME NEW q \in Requests, NEW g \in live'[q] PROVE Acked(q, g)'
      <3>1. q = r /\ g \in Gateways
        BY <2>1, <2>4, <2>9, <2>15 DEF S
      <3> QED
        BY <2>7, <2>8, <3>1 DEF Acked
    <2>16. ASSUME NEW g \in Gateways PROVE Activates(g)'
      <3>1. CASE g \in S
        BY <1>1, <2>5, <2>6, <2>12, <2>13, <3>1 DEF Activates
      <3>2. CASE g \notin S
        BY <1>1, <2>12, <3>2 DEF Activates, CarryInv
      <3> QED
        BY <3>1, <3>2
    <2> QED
      BY <2>10, <2>11, <2>14, <2>15, <2>16 DEF CarryInv
  <1> QED
    BY <1>2, <1>3

\* What handling the first frame leaves.
LEMMA TailFrame ==
    ASSUME GatewayInv, NEW g \in Gateways, inbox[g] # <<>>
    PROVE  /\ Len(Tail(inbox[g])) = Len(inbox[g]) - 1
           /\ \A k \in 1 .. Len(Tail(inbox[g])) :
                 k + 1 \in 1 .. Len(inbox[g]) /\ Tail(inbox[g])[k] = inbox[g][k + 1]
           /\ Len(inbox[g]) = 1 => Tail(inbox[g]) = <<>>
           /\ Tail(inbox[g]) # <<>> => 1 \in 1 .. Len(Tail(inbox[g]))
           /\ Tail(inbox[g]) # <<>> => Head(Tail(inbox[g])) = Tail(inbox[g])[1]
  <1> DEFINE q == inbox[g]
  <1>1. q \in Seq(Frames) /\ q # <<>>
    BY DEF GatewayInv
  <1> HIDE DEF q
  <1>2. /\ Len(Tail(q)) = Len(q) - 1
        /\ \A k \in 1 .. Len(Tail(q)) : k + 1 \in 1 .. Len(q) /\ Tail(q)[k] = q[k + 1]
    BY <1>1
  <1>4. Tail(q) \in Seq(Frames)
    BY <1>1
  <1>3. Len(q) = 1 => Tail(q) = <<>>
    <2> DEFINE u == Tail(q)
    <2> HIDE DEF u
    <2>1. u \in Seq(Frames) => (Len(u) = 0 => u = <<>>)
      OBVIOUS
    <2> QED
      BY <1>2, <1>4, <2>1 DEF u
  <1>5. Tail(q) # <<>> => 1 \in 1 .. Len(Tail(q)) /\ Head(Tail(q)) = Tail(q)[1]
    <2> DEFINE u == Tail(q)
    <2> HIDE DEF u
    <2>1. u \in Seq(Frames) => (u # <<>> => 1 \in 1 .. Len(u) /\ Head(u) = u[1])
      OBVIOUS
    <2> QED
      BY <1>4, <2>1 DEF u
  <1> QED
    BY <1>2, <1>3, <1>5 DEF q

\* The acknowledgements after a frame.
LEMMA AckedOne ==
    ASSUME GatewayInv, SessionTypes, NEW g \in Gateways, NEW res, Handled(g, res)
    PROVE  LET f == Head(inbox[g]) IN
           /\ acks' \in [Requests -> [Gateways -> {"none", "ok", "error"}]]
           /\ f.req # None => f.req \in Requests
           /\ \A q \in Requests, h \in Gateways :
                 acks'[q][h] = IF q = f.req /\ h = g /\ g \in live[q] THEN res ELSE acks[q][h]
  <1> DEFINE f == Head(inbox[g])
             r == f.req
  <1>1. f \in Frames
    BY DEF Handled
  <1>2. r # None => r \in Requests
    BY <1>1, KindsOfFrame DEF Requests
  <1>3. acks \in [Requests -> [Gateways -> {"none", "ok", "error"}]]
    BY DEF SessionTypes
  <1>4. \A q \in Requests : q # None
    BY PlaneAssumption, DeviceAssumption
  <1>5. CASE r # None /\ g \in live[r]
    <2>1. acks' = [acks EXCEPT ![r][g] = res] /\ res \in {"ok", "error"}
      BY <1>5 DEF Handled
    <2> HIDE DEF r
    <2> QED
      BY <1>2, <1>3, <1>5, <2>1 DEF r
  <1>6. CASE ~(r # None /\ g \in live[r])
    <2>1. acks' = acks
      BY <1>6 DEF Handled
    <2> QED
      BY <1>2, <1>3, <1>4, <1>6, <2>1
  <1> QED
    BY <1>5, <1>6

LEMMA FrameCarry ==
    ASSUME RequestInv, GatewayInv, CarryInv, NEW g \in Gateways, NEW res, Handled(g, res)
    PROVE  CarryInv'
  <1> DEFINE f == Head(inbox[g])
             r == f.req
  <1>1. /\ inbox[g] # <<>> /\ f \in Frames /\ inbox' = [inbox EXCEPT ![g] = Tail(@)]
        /\ UNCHANGED <<pc, job, targets, live, link>>
        /\ \A h \in Gateways \ {g} : prepared'[h] = prepared[h]
    BY DEF Handled
  <1>2. inbox'[g] = Tail(inbox[g]) /\ \A h \in Gateways \ {g} : inbox'[h] = inbox[h]
    BY <1>1 DEF GatewayInv
  <1>3. SessionTypes
    BY DEF CarryInv
  <1>4. /\ acks' \in [Requests -> [Gateways -> {"none", "ok", "error"}]]
        /\ r # None => r \in Requests
        /\ \A q \in Requests, h \in Gateways :
              acks'[q][h] = IF q = r /\ h = g /\ g \in live[q] THEN res ELSE acks[q][h]
    BY <1>3, AckedOne
  <1>5. f = inbox[g][1] /\ 1 \in 1 .. Len(inbox[g]) /\ Len(inbox[g]) \in Nat
    BY <1>1, InboxLen
  <1>6. ASSUME NEW q \in Requests, q = r, g \in live[q]
        PROVE  Len(inbox[g]) = 1 /\ f = Frame(PhaseType(q), q) /\ pc[q] \in Holding /\ f.type # "SNAPSHOT"
    <2>1. f.type # "SNAPSHOT"
      BY <1>1, <1>6, KindsOfFrame, PlaneAssumption, DeviceAssumption
    <2>2. pc[q] \in Holding
      BY <1>6 DEF CarryInv, Waits
    <2>3. Carried(g, 1)
      BY <1>5 DEF CarryInv
    <2> QED
      BY <1>5, <1>6, <2>1, <2>2, <2>3 DEF Carried
  <1> HIDE DEF f, r
  <1>7. SessionTypes'
    BY <1>1, <1>3, <1>4 DEF SessionTypes
  <1>8. ASSUME NEW q \in Requests PROVE Waits(q)'
    <2>1. Waits(q)
      BY DEF CarryInv
    <2>2. ASSUME pc[q] \notin Holding PROVE acks'[q] = NoAcks
      <3>1. live[q] = {} /\ acks[q] = NoAcks
        BY <2>1, <2>2 DEF Waits
      <3>2. \A h \in Gateways : acks'[q][h] = "none"
        BY <1>4, <3>1 DEF NoAcks
      <3>3. acks'[q] \in [Gateways -> {"none", "ok", "error"}]
        BY <1>4
      <3> QED
        BY <3>2, <3>3 DEF NoAcks
    <2> QED
      BY <1>1, <2>1, <2>2 DEF Waits
  <1>9. ASSUME NEW h \in Gateways, NEW k \in 1 .. Len(inbox'[h]) PROVE Carried(h, k)'
    <2>1. CASE h # g
      <3>1. inbox'[h] = inbox[h] /\ Carried(h, k)
        BY <1>2, <1>9, <2>1 DEF CarryInv
      <3>2. inbox[h][k] \in Frames
        BY <1>9, <3>1, InboxFrame
      <3>3. inbox[h][k].type # "SNAPSHOT" => inbox[h][k].req \in Requests
        BY <3>2, KindsOfFrame DEF Requests
      <3>4. \A q \in Requests : acks'[q][h] = acks[q][h]
                /\ Frame(PhaseType(q), q)' = Frame(PhaseType(q), q)
        BY <1>1, <1>4, <2>1 DEF Frame, PhaseType
      <3> QED
        BY <1>1, <3>1, <3>3, <3>4 DEF Carried
    <2>2. CASE h = g
      <3> DEFINE e == inbox[g][k + 1]
                 q == e.req
      <3>0. k \in Nat /\ k # 0 /\ k \in 1 .. Len(Tail(inbox[g]))
        <4>1. k \in 1 .. Len(Tail(inbox[g]))
          BY <1>2, <1>9, <2>2
        <4>2. Len(Tail(inbox[g])) \in Int
          BY <1>1, <1>5, TailFrame
        <4> QED
          BY <4>1, <4>2
      <3>1. /\ inbox'[h][k] = e /\ k + 1 \in 1 .. Len(inbox[g]) /\ Len(inbox'[h]) = Len(inbox[g]) - 1
            /\ k \in Nat /\ k # 0
        BY <1>1, <1>2, <2>2, <3>0, TailFrame
      <3> HIDE DEF e
      <3>2. e \in Frames /\ Carried(g, k + 1)
        BY <3>1, InboxFrame DEF CarryInv, e
      <3>3. e.type \in PrepareTypes /\ e.type # "SNAPSHOT"
        BY <3>1, <3>2 DEF Carried, PrepareTypes, e
      <3>4. q \in Requests /\ \A p \in Requests : Frame(PhaseType(p), p)' = Frame(PhaseType(p), p)
        BY <1>1, <3>2, <3>3, KindsOfFrame DEF Requests, Frame, PhaseType
      <3> HIDE DEF q
      <3>5. pc[q] \in Holding => k + 1 = Len(inbox[g])
        BY <3>2, <3>3 DEF Carried, e, q
      <3>6. pc[q] \in Holding => acks'[q][g] = "none"
        <4>1. ASSUME q = r, g \in live[q], pc[q] \in Holding PROVE FALSE
          <5>1. Len(inbox[g]) = 1
            BY <1>6, <3>4, <4>1
          <5>2. k + 1 = Len(inbox[g])
            BY <3>5, <4>1
          <5> QED
            BY <3>0, <5>1, <5>2
        <4> QED
          BY <1>4, <3>2, <3>3, <3>4, <4>1 DEF Carried, e, q
      <3>7. pc[q] \in Holding => k = Len(inbox'[h])
        BY <3>1, <3>5
      <3>8. pc[q] \in Holding \union {"done"}
        BY <3>2, <3>3 DEF Carried, e, q
      <3>9. pc[q] \in Holding => g \in live[q] /\ e = Frame(PhaseType(q), q)
        BY <3>2, <3>3 DEF Carried, e, q
      <3> QED
        BY <1>1, <2>2, <3>1, <3>3, <3>4, <3>6, <3>7, <3>8, <3>9 DEF Carried, q
    <2> QED
      BY <2>1, <2>2
  <1>10. ASSUME NEW q \in Requests, NEW h \in live'[q] PROVE Acked(q, h)'
    <2>0. h \in live[q] /\ h \in Gateways /\ Acked(q, h)
      BY <1>1, <1>3, <1>10 DEF SessionTypes, CarryInv
    <2>1. CASE h # g
      <3>1. acks'[q][h] = acks[q][h] /\ inbox'[h] = inbox[h] /\ prepared'[h] = prepared[h]
        BY <1>1, <1>2, <1>4, <2>0, <2>1
      <3> QED
        BY <1>1, <2>0, <3>1 DEF Acked
    <2>2. CASE h = g /\ q # r
      <3>1. acks'[q][h] = acks[q][h]
        BY <1>4, <2>0, <2>2
      <3> QED
        BY <1>1, <2>0, <2>2, <3>1 DEF Acked
    <2>3. CASE h = g /\ q = r
      <3>1. Len(inbox[g]) = 1 /\ f = Frame(PhaseType(q), q)
        BY <1>6, <2>0, <2>3
      <3>2. inbox'[h] = <<>> /\ acks'[q][h] = res
        BY <1>1, <1>2, <1>4, <2>0, <2>3, <3>1, TailFrame
      <3>3. ASSUME pc[q] = "prepare", res = "ok", q \in RouteRequests
            PROVE  prepared'[g][job[q].device] = [version |-> job[q].version, dev |-> job[q].proposed]
        <4>1. /\ f.type = "PREPARE" /\ f.device = job[q].device
              /\ f.route = [version |-> job[q].version, dev |-> job[q].proposed]
          BY <3>1, <3>3 DEF Frame, PhaseType, PrepareType
        <4> QED
          BY <3>3, <4>1 DEF Handled, f
      <3> QED
        BY <1>1, <2>3, <3>2, <3>3 DEF Acked
    <2> QED
      BY <2>1, <2>2, <2>3
  <1>11. ASSUME NEW h \in Gateways PROVE Activates(h)'
    <2>1. CASE h # g
      BY <1>1, <1>2, <2>1 DEF Activates, CarryInv
    <2>2. CASE h = g
      <3>1. ASSUME inbox'[h] # <<>> PROVE inbox'[h][1].type # "ACTIVATE"
        <4>1. 1 + 1 \in 1 .. Len(inbox[g]) /\ inbox'[h][1] = inbox[g][1 + 1]
          BY <1>1, <1>2, <2>2, <3>1, TailFrame
        <4>2. Carried(g, 1 + 1)
          BY <4>1 DEF CarryInv
        <4> QED
          BY <4>1, <4>2 DEF Carried, PrepareTypes
      <3> QED
        BY <3>1 DEF Activates
    <2> QED
      BY <2>1, <2>2
  <1> QED
    BY <1>7, <1>8, <1>9, <1>10, <1>11 DEF CarryInv

\* What is on the way is cut off or replaced by a snapshot, for the gateways of S,
\* whose sessions no request counts on any more.
LEMMA SessionsCarry ==
    ASSUME RequestInv, GatewayInv, CarryInv, NEW S \in SUBSET Gateways,
           UNCHANGED <<pc, job, acks, targets>>,
           SessionTypes',
           \A h \in Gateways \ S :
               link'[h] = link[h] /\ inbox'[h] = inbox[h] /\ prepared'[h] = prepared[h],
           \A h \in S : inbox'[h] = <<>> \/ \E f : inbox'[h] = <<f>> /\ f.type = "SNAPSHOT",
           \A q \in Requests : live'[q] = live[q] \ S
    PROVE  CarryInv'
  <1>1. ASSUME NEW q \in Requests PROVE Waits(q)'
    BY DEF CarryInv, Waits, SessionTypes
  <1>2. ASSUME NEW h \in Gateways, NEW k \in 1 .. Len(inbox'[h]) PROVE Carried(h, k)'
    <2>1. CASE h \in S
      <3>1. ASSUME inbox'[h] = <<>> PROVE FALSE
        BY <1>2, <3>1
      <3>2. PICK f : inbox'[h] = <<f>> /\ f.type = "SNAPSHOT"
        BY <2>1, <3>1
      <3>3. k = 1
        BY <1>2, <3>2
      <3>4. inbox'[h][k] = f
        BY <3>2, <3>3
      <3> QED
        BY <3>2, <3>3, <3>4 DEF Carried
    <2>2. CASE h \notin S
      <3>1. inbox'[h] = inbox[h] /\ Carried(h, k)
        BY <1>2, <2>2 DEF CarryInv
      <3>2. inbox[h][k] \in Frames
        BY <1>2, <3>1, InboxFrame
      <3>3. inbox[h][k].type # "SNAPSHOT" => inbox[h][k].req \in Requests
        BY <3>2, KindsOfFrame DEF Requests
      <3>4. \A q \in Requests : /\ h \in live[q] => h \in live'[q]
                                /\ Frame(PhaseType(q), q)' = Frame(PhaseType(q), q)
        BY <2>2 DEF Frame, PhaseType
      <3> QED
        BY <3>1, <3>3, <3>4 DEF Carried
    <2> QED
      BY <2>1, <2>2
  <1>3. ASSUME NEW q \in Requests, NEW h \in live'[q] PROVE Acked(q, h)'
    <2>1. h \in Gateways \ S /\ h \in live[q]
      BY <1>3 DEF CarryInv, SessionTypes
    <2> QED
      BY <2>1 DEF Acked, CarryInv
  <1>4. ASSUME NEW h \in Gateways PROVE Activates(h)'
    <2>1. CASE h \in S
      <3>1. CASE inbox'[h] = <<>>
        BY <3>1 DEF Activates
      <3>2. CASE inbox'[h] # <<>>
        <4>1. PICK f : inbox'[h] = <<f>> /\ f.type = "SNAPSHOT"
          BY <2>1, <3>2
        <4>2. inbox'[h][1] = f
          BY <4>1
        <4> QED
          BY <4>1, <4>2 DEF Activates
      <3> QED
        BY <3>1, <3>2
    <2>2. CASE h \notin S
      BY <2>2 DEF Activates, CarryInv
    <2> QED
      BY <2>1, <2>2
  <1> QED
    BY <1>1, <1>2, <1>3, <1>4 DEF CarryInv

LEMMA SendCarry ==
    ASSUME RequestInv, GatewayInv, CarryInv, NEW g \in Gateways, SendSnapshot(g)
    PROVE  CarryInv'
  <1> DEFINE f == [type |-> "SNAPSHOT", req |-> None, table |-> snapshot[g].table,
                   torn |-> snapshot[g].torn]
  <1>1. /\ UNCHANGED <<pc, job, acks, targets, live, prepared>> /\ link[g] = "reading"
        /\ link' = [link EXCEPT ![g] = "open"] /\ inbox' = [inbox EXCEPT ![g] = <<f>>]
    BY DEF SendSnapshot, requestVars, ingressVars
  <1>2. f.type = "SNAPSHOT"
    OBVIOUS
  <1> HIDE DEF f
  <1>3. SessionTypes'
    BY <1>1 DEF CarryInv, SessionTypes
  <1>4. \A q \in Requests : live'[q] = live[q] \ {g}
    BY <1>1 DEF CarryInv, Waits
  <1>5. /\ \A h \in Gateways \ {g} : link'[h] = link[h] /\ inbox'[h] = inbox[h]
        /\ inbox'[g] = <<f>>
    BY <1>1 DEF GatewayInv, CarryInv, SessionTypes
  <1>6. \A h \in {g} : inbox'[h] = <<>> \/ \E e : inbox'[h] = <<e>> /\ e.type = "SNAPSHOT"
    BY <1>2, <1>5
  <1> QED
    BY <1>1, <1>3, <1>4, <1>5, <1>6, SessionsCarry

\* A session that is not open yet: nobody counts on it.
LEMMA ConnectCarry ==
    ASSUME RequestInv, GatewayInv, CarryInv, NEW g \in Gateways, Connect(g)
    PROVE  CarryInv'
  <1>1. /\ UNCHANGED <<pc, job, acks, targets, live, prepared, inbox>> /\ link[g] = "none"
        /\ link' = [link EXCEPT ![g] = "reading"]
    BY DEF Connect, requestVars, ingressVars
  <1>2. SessionTypes'
    BY <1>1 DEF CarryInv, SessionTypes
  <1>3. \A q \in Requests : Waits(q)'
    BY <1>1 DEF CarryInv, Waits, SessionTypes
  <1>4. ASSUME NEW h \in Gateways, NEW k \in 1 .. Len(inbox'[h]) PROVE Carried(h, k)'
    <2>1. inbox'[h] = inbox[h] /\ Carried(h, k)
      BY <1>1, <1>4 DEF CarryInv
    <2>2. \A q : Frame(PhaseType(q), q)' = Frame(PhaseType(q), q)
      BY <1>1 DEF Frame, PhaseType
    <2> QED
      BY <1>1, <2>1, <2>2 DEF Carried
  <1>5. /\ \A q \in Requests : \A h \in live'[q] : Acked(q, h)'
        /\ \A h \in Gateways : Activates(h)'
    BY <1>1 DEF CarryInv, Acked, Activates
  <1> QED
    BY <1>2, <1>3, <1>4, <1>5 DEF CarryInv

\* The session of a gateway ends, with its stream or with its process.
LEMMA EndedCarry ==
    ASSUME RequestInv, GatewayInv, CarryInv, NEW g \in Gateways, Disconnect(g) \/ GatewayRestart(g)
    PROVE  CarryInv'
  <1>1. /\ UNCHANGED <<pc, job, acks, targets>> /\ EndSession(g)
        /\ link' = [link EXCEPT ![g] = "none"] \/ link' = [link EXCEPT ![g] = "down"]
        /\ prepared' = prepared \/ prepared' = [prepared EXCEPT ![g] = NoTable]
    BY DEF Disconnect, GatewayRestart, Restart, CannotStart, ingressVars
  <1>2. /\ inbox' = [inbox EXCEPT ![g] = <<>>]
        /\ live' = [q \in Requests |-> live[q] \ {g}]
    BY <1>1 DEF EndSession
  <1>3. SessionTypes'
    BY <1>1, <1>2 DEF CarryInv, SessionTypes
  <1>4. /\ \A h \in Gateways \ {g} :
              link'[h] = link[h] /\ inbox'[h] = inbox[h] /\ prepared'[h] = prepared[h]
        /\ inbox'[g] = <<>>
    BY <1>1, <1>2 DEF GatewayInv, CarryInv, SessionTypes
  <1> QED
    BY <1>1, <1>2, <1>3, <1>4, SessionsCarry

LEMMA IdleCarry ==
    ASSUME RequestInv, GatewayInv, CarryInv,
           UNCHANGED <<pc, job, acks, targets, live, link, inbox, prepared>>
    PROVE  CarryInv'
  <1>1. SessionTypes'
    BY DEF CarryInv, SessionTypes
  <1>2. \A q \in Requests : live'[q] = live[q] \ {}
    OBVIOUS
  <1> DEFINE S == {}
  <1>3. S \in SUBSET Gateways /\ \A h \in S : inbox'[h] = <<>>
    OBVIOUS
  <1> QED
    BY <1>1, <1>2, <1>3, SessionsCarry

LEMMA ControlPlaneCarry ==
    ASSUME RequestInv, GatewayInv, CarryInv, ControlPlaneRestart
    PROVE  CarryInv'
  <1>1. /\ \A r \in Requests : live'[r] = {} /\ acks'[r] = NoAcks
        /\ \A g \in Gateways : inbox'[g] = <<>>
        /\ live' = [r \in Requests |-> {}] /\ acks' = [r \in Requests |-> NoAcks]
        /\ link' = [g \in Gateways |-> IF link[g] = "down" THEN "down" ELSE "none"]
        /\ targets' = targets
    BY DEF ControlPlaneRestart
  <1>2. NoAcks \in [Gateways -> {"none", "ok", "error"}]
    BY DEF NoAcks
  <1>3. SessionTypes'
    BY <1>1, <1>2 DEF CarryInv, SessionTypes
  <1>4. \A g \in Gateways : 1 .. Len(inbox'[g]) = {}
    BY <1>1
  <1> QED
    BY <1>1, <1>3, <1>4 DEF CarryInv, Waits, Acked, Activates

\* A handler up to its deployment.
Begins(r) ==
    \/ \E q \in Asks[r] : BeginsWith(r, q)
    \/ r \in RouteRequests /\ Stage(r)

LEMMA BegunStep ==
    ASSUME RequestInv, NEW r \in Requests, Begins(r)
    PROVE  /\ pc[r] \in {"idle", "stage"}
           /\ \E s \in {"stage", "lock", "done"} : \E j :
                 pc' = [pc EXCEPT ![r] = s] /\ job' = [job EXCEPT ![r] = j]
  <1> DEFINE G == \E s \in {"stage", "lock", "done"} : \E j :
                     pc' = [pc EXCEPT ![r] = s] /\ job' = [job EXCEPT ![r] = j]
  <1>1. pc[r] \in {"idle", "stage"}
    BY DEF Begins, BeginsWith, Create, RotateCredential, AddIngress, DeleteIngress, PutRoute, Stage
  <1>2. CASE UNCHANGED job /\ pc' = [pc EXCEPT ![r] = "done"]
    <2>1. job' = [job EXCEPT ![r] = job[r]]
      BY <1>2 DEF RequestInv, JobInv
    <2> QED
      BY <1>1, <1>2, <2>1
  <1>3. ASSUME NEW d, NEW p, NEW n, NEW s \in {"lock", "stage"}, Proposes(r, d, p, n, s)
        PROVE  G
    BY <1>3 DEF Proposes
  <1>4. CASE Stage(r)
    <2>1. CASE Answer(r, "refused") /\ UNCHANGED <<staged, job>>
      BY <1>2, <2>1 DEF Answer
    <2>2. CASE ~(Answer(r, "refused") /\ UNCHANGED <<staged, job>>)
      <3>1. /\ pc' = [pc EXCEPT ![r] = "lock"]
            /\ job' = [job EXCEPT ![r].version = version[job[r].device] + 1]
        BY <1>4, <2>2 DEF Stage
      <3>2. job' = [job EXCEPT ![r] = [job[r] EXCEPT !.version = version[job[r].device] + 1]]
        BY <3>1 DEF RequestInv, JobInv
      <3> QED
        BY <1>1, <3>1, <3>2
    <2> QED
      BY <2>1, <2>2
  <1> QED
    BY <1>1, <1>2, <1>3, <1>4
       DEF Begins, BeginsWith, Create, RotateCredential, AddIngress, DeleteIngress, PutRoute, Refused, Answer

LEMMA BeginCarry ==
    ASSUME RequestInv, GatewayInv, CarryInv, NEW r \in Requests, Begins(r)
    PROVE  CarryInv'
  <1>1. UNCHANGED <<inbox, link, prepared, live, acks, targets>>
    BY DEF Begins, BeginsWith, Create, RotateCredential, AddIngress, DeleteIngress, PutRoute, Stage, hubVars,
           ingressVars
  <1>2. pc[r] \in {"idle", "stage"}
    BY BegunStep
  <1>a. PICK s \in {"stage", "lock", "done"} : \E j :
           pc' = [pc EXCEPT ![r] = s] /\ job' = [job EXCEPT ![r] = j]
    BY BegunStep
  <1>3. PICK j : pc' = [pc EXCEPT ![r] = s] /\ job' = [job EXCEPT ![r] = j]
    BY <1>a
  <1>4. s \notin Holding
    BY DEF Holding
  <1>5. live[r] = {} /\ acks[r] = NoAcks
    BY <1>2 DEF CarryInv, Waits, Holding
  <1>6. SessionTypes'
    BY <1>1 DEF CarryInv, SessionTypes
  <1> QED
    BY <1>1, <1>2, <1>3, <1>4, <1>5, <1>6, RequestCarry

LEMMA BegunCases ==
    ASSUME Next
    PROVE  \/ \E r \in Requests : Begins(r)
           \/ \E r \in Deployments : LockAndPrepare(r) \/ Commit(r) \/ Succeed(r) \/ GiveUp(r)
           \/ \E r \in Deployments : LateCommit(r)
           \/ \E g \in Gateways : GatewayStep(g)
           \/ ControlPlaneRestart
BY NextCases, RouteKind DEF Begins

\* The steps of a gateway outside the frames.
LEMMA OtherSteps ==
    ASSUME NEW g \in Gateways, GatewayStep(g)
    PROVE  \/ FrameStep(g) \/ Connect(g) \/ (\E d \in Devices : LoadIngresses(g, d))
           \/ SendSnapshot(g) \/ (Disconnect(g) \/ GatewayRestart(g))
           \/ (Heartbeat(g) \/ LocalDrain(g))
BY DEF GatewayStep, FrameStep

LEMMA CarryStep == PlaneInv /\ ServedInv /\ CarryInv /\ [Next]_vars => CarryInv'
  <1> SUFFICES ASSUME PlaneInv, ServedInv, CarryInv, [Next]_vars PROVE CarryInv'
    OBVIOUS
  <1>0. RequestInv /\ GatewayInv /\ ReadInv
    BY DEF PlaneInv, ServedInv
  <1>1. CASE UNCHANGED vars
    BY <1>0, <1>1, IdleCarry DEF vars, ingressVars, requestVars, hubVars
  <1>2. ASSUME NEW r \in Requests, Begins(r) PROVE CarryInv'
    BY <1>0, <1>2, BeginCarry
  <1>3. ASSUME NEW r \in Deployments,
               LockAndPrepare(r) \/ Commit(r) \/ Succeed(r) \/ GiveUp(r)
        PROVE  CarryInv'
    <2>1. CASE Succeed(r) \/ GiveUp(r)
      <3>1. UNCHANGED <<inbox, link, prepared>> /\ r \in Requests
        BY <2>1 DEF Succeed, GiveUp, hubVars, ingressVars, Requests
      <3> QED
        BY <1>0, <2>1, <3>1, FinishCarry DEF Succeed, GiveUp
    <2> QED
      BY <1>0, <1>3, <2>1, LockCarry, CommitCarry
  <1>4. ASSUME NEW g \in Gateways, GatewayStep(g) PROVE CarryInv'
    <2>1. CASE FrameStep(g)
      BY <1>0, <2>1, HandledFrame, FrameCarry
    <2>2. CASE Heartbeat(g) \/ LocalDrain(g) \/ \E d \in Devices : LoadIngresses(g, d)
      BY <1>0, <2>2, IdleCarry DEF Heartbeat, LocalDrain, LoadIngresses, requestVars, ingressVars, hubVars
    <2> QED
      BY <1>0, <1>4, <2>1, <2>2, ConnectCarry, SendCarry, EndedCarry, OtherSteps
  <1>5. CASE ControlPlaneRestart
    BY <1>0, <1>5, ControlPlaneCarry
  <1>6. ASSUME NEW r \in Deployments, LateCommit(r) PROVE CarryInv'
    BY <1>0, <1>6, IdleCarry DEF LateCommit, ingressVars, hubVars
  <1> QED
    BY <1>1, <1>2, <1>3, <1>4, <1>5, <1>6, BegunCases

-------------------------------------------------------------------------------
(* What a deployment commits is what it has proposed *)

Proposal(j, r) ==
    IF r \in RotateRequests THEN ProposeRotate(j.read, j.new)
    ELSE IF r \in AddRequests
         THEN [j.read EXCEPT !.ingresses = EffectiveIngresses(j.read) \union {j.new}]
    ELSE IF r \in DeleteRequests THEN ProposeDelete(j.read, j.new)
    ELSE j.read

ProposedJob(j, r) ==
    /\ r \in Deployments
    /\ j.proposed = Proposal(j, r)
    /\ MirrorsPrimary(j.read)
    /\ r \in RotateRequests => j.new.by = r
    /\ r \in AddRequests => j.new.primary = FALSE /\ j.new.password.by \notin RotateRequests

ProposedInv ==
    \A r \in Requests : /\ pc[r] \notin Over => ProposedJob(job[r], r)
                        /\ late[r] # NoJob => ProposedJob(late[r], r)

LEMMA ProposedIdle ==
    ASSUME ProposedInv, UNCHANGED <<pc, job, late>>
    PROVE  ProposedInv'
BY DEF ProposedInv, ProposedJob, Proposal

LEMMA ProposedOne ==
    ASSUME RequestInv, LateInv, ProposedInv, NEW r \in Requests, NEW s, NEW j,
           pc' = [pc EXCEPT ![r] = s], job' = [job EXCEPT ![r] = j],
           late' = late \/ (late' = [late EXCEPT ![r] = job[r]] /\ pc[r] \notin Over),
           s \notin Over => ProposedJob(j, r)
    PROVE  ProposedInv'
  <1>1. /\ pc'[r] = s /\ job'[r] = j
        /\ \A q \in Requests \ {r} : pc'[q] = pc[q] /\ job'[q] = job[q] /\ late'[q] = late[q]
        /\ late'[r] = late[r] \/ (late'[r] = job[r] /\ pc[r] \notin Over)
    BY DEF RequestInv, JobInv, LateInv
  <1>2. ASSUME NEW q \in Requests, pc'[q] \notin Over PROVE ProposedJob(job'[q], q)
    <2>1. CASE q = r
      BY <1>1, <1>2, <2>1
    <2>2. CASE q # r
      BY <1>1, <1>2, <2>2 DEF ProposedInv
    <2> QED
      BY <2>1, <2>2
  <1>3. ASSUME NEW q \in Requests, late'[q] # NoJob PROVE ProposedJob(late'[q], q)
    BY <1>1, <1>3 DEF ProposedInv
  <1> QED
    BY <1>2, <1>3 DEF ProposedInv, ProposedJob, Proposal

LEMMA ProposesAs ==
    ASSUME RequestInv, LateInv, ProposedInv, NEW r \in Deployments, NEW d \in Devices, NEW p, NEW n, NEW s,
           device[d] # None, Proposes(r, d, p, n, s), UNCHANGED late,
           r \in RotateRequests => n.by = r,
           r \in AddRequests => n.primary = FALSE /\ n.password.by \notin RotateRequests,
           p = Proposal([device |-> d, read |-> GetDevice(d), proposed |-> p, new |-> n, version |-> 0], r)
    PROVE  ProposedInv'
  <1> DEFINE j == [device |-> d, read |-> GetDevice(d), proposed |-> p, new |-> n, version |-> 0]
  <1>1. pc' = [pc EXCEPT ![r] = s] /\ job' = [job EXCEPT ![r] = j] /\ r \in Requests
    BY DEF Proposes, Requests
  <1>2. j.read = device[d] /\ j.proposed = p /\ j.new = n
    BY DEF GetDevice
  <1>3. MirrorsPrimary(device[d])
    BY RowsOf DEF RequestInv, StoreInv
  <1>4. p = Proposal(j, r)
    OBVIOUS
  <1> HIDE DEF j
  <1>5. ProposedJob(j, r)
    BY <1>2, <1>3, <1>4 DEF ProposedJob
  <1> QED
    BY <1>1, <1>5, ProposedOne

\* A password that a rotation draws is not a client's, nor one of another request.
LEMMA GivenBy ==
    ASSUME NEW r \in Requests, r \notin RotateRequests, NEW q \in Asks[r]
    PROVE  Given(r, q).by \notin RotateRequests
BY PasswordAssumption DEF Given, Password

LEMMA HandlersPropose ==
    ASSUME RequestInv, LateInv, ProposedInv, NEW r \in Requests, NEW q \in Asks[r],
           NEW d \in Devices, d = q.device, NEW p, p = q.port,
           \/ r \in RotateRequests /\ RotateCredential(r, d)
           \/ r \in AddRequests /\ AddIngress(r, q)
           \/ r \in DeleteRequests /\ DeleteIngress(r, d, p)
           \/ r \in RouteRequests /\ PutRoute(r, d)
    PROVE  ProposedInv'
  <1>0. UNCHANGED late
    BY DEF RotateCredential, AddIngress, DeleteIngress, PutRoute
  <1>1. CASE Refused(r)
    <2>1. /\ pc' = [pc EXCEPT ![r] = "done"] /\ job' = [job EXCEPT ![r] = job[r]]
          /\ "done" \in Over
      BY <1>1 DEF Refused, Answer, RequestInv, JobInv, Over
    <2> QED
      BY <1>0, <2>1, ProposedOne
  <1>2. CASE ~Refused(r)
    <2> DEFINE v == GetDevice(d)
    <2>0. r \in Deployments /\ (r \in RouteRequests => r \notin IngressRequests)
      BY PlaneAssumption DEF Deployments, IngressRequests
    <2>1. CASE r \in RotateRequests /\ RotateCredential(r, d)
      <3> DEFINE pw == Password(r, v.method)
                 x == ProposeRotate(v, pw)
      <3>1. device[d] # None /\ Proposes(r, d, x, pw, "lock") /\ r \notin AddRequests
        BY <1>2, <2>1, PlaneAssumption DEF RotateCredential, GetDevice
      <3>3. pw.by = r
        BY DEF Password
      <3>2. x = Proposal([device |-> d, read |-> v, proposed |-> x, new |-> pw, version |-> 0], r)
        BY <2>1 DEF Proposal
      <3> HIDE DEF pw, x
      <3> QED
        BY <1>0, <2>0, <3>1, <3>2, <3>3, ProposesAs
    <2>2. CASE r \in AddRequests /\ AddIngress(r, q)
      <3> DEFINE n == [port |-> q.port, method |-> q.method, password |-> Given(r, q),
                       primary |-> FALSE, at |-> clock]
                 x == [v EXCEPT !.ingresses = EffectiveIngresses(v) \union {n}]
      <3>1. device[d] # None /\ Proposes(r, d, x, n, "lock") /\ r \notin RotateRequests
        BY <1>2, <2>2, PlaneAssumption DEF AddIngress, GetDevice
      <3>2. n.primary = FALSE /\ n.password.by \notin RotateRequests
        BY <3>1, GivenBy
      <3>3. x = Proposal([device |-> d, read |-> v, proposed |-> x, new |-> n, version |-> 0], r)
        <4> HIDE DEF n
        <4> QED
          BY <2>2, <3>1 DEF Proposal
      <3> HIDE DEF n, x
      <3> QED
        BY <1>0, <2>0, <3>1, <3>2, <3>3, ProposesAs
    <2>3. CASE r \in DeleteRequests /\ DeleteIngress(r, d, p)
      <3> DEFINE x == ProposeDelete(v, p)
      <3>1. device[d] # None /\ Proposes(r, d, x, p, "lock")
        BY <1>2, <2>3 DEF DeleteIngress, GetDevice
      <3>2. r \notin RotateRequests /\ r \notin AddRequests
        BY <2>3, PlaneAssumption
      <3>3. x = Proposal([device |-> d, read |-> v, proposed |-> x, new |-> p, version |-> 0], r)
        BY <2>3, <3>2 DEF Proposal
      <3> HIDE DEF x
      <3> QED
        BY <1>0, <2>0, <3>1, <3>2, <3>3, ProposesAs
    <2>4. CASE r \in RouteRequests /\ PutRoute(r, d)
      <3>1. device[d] # None /\ Proposes(r, d, v, None, "stage")
        BY <1>2, <2>4 DEF PutRoute, GetDevice
      <3>2. r \notin RotateRequests /\ r \notin AddRequests /\ r \notin DeleteRequests
        BY <2>0, <2>4 DEF IngressRequests
      <3>3. v = Proposal([device |-> d, read |-> v, proposed |-> v, new |-> None, version |-> 0], r)
        BY <3>2 DEF Proposal
      <3> HIDE DEF v
      <3> QED
        BY <1>0, <2>0, <3>1, <3>2, <3>3, ProposesAs DEF v
    <2> QED
      BY <2>1, <2>2, <2>3, <2>4
  <1> QED
    BY <1>1, <1>2

LEMMA StageProposed ==
    ASSUME RequestInv, LateInv, ProposedInv, NEW r \in RouteRequests, Stage(r)
    PROVE  ProposedInv'
  <1>1. /\ r \in Requests /\ pc[r] = "stage" /\ Job(job[r], r) /\ ProposedJob(job[r], r)
        /\ UNCHANGED late
    BY DEF Stage, Requests, Deployments, RequestInv, JobInv, ProposedInv, Over
  <1>2. CASE Answer(r, "refused") /\ UNCHANGED <<staged, job>>
    <2>1. /\ pc' = [pc EXCEPT ![r] = "done"] /\ job' = [job EXCEPT ![r] = job[r]]
          /\ "done" \in Over
      BY <1>2 DEF Answer, RequestInv, JobInv, Over
    <2> QED
      BY <1>1, <2>1, ProposedOne
  <1>3. CASE ~(Answer(r, "refused") /\ UNCHANGED <<staged, job>>)
    <2> DEFINE n == version[job[r].device] + 1
               j == [job[r] EXCEPT !.version = n]
    <2>1. pc' = [pc EXCEPT ![r] = "lock"] /\ job' = [job EXCEPT ![r] = j]
      BY <1>1, <1>3 DEF Stage, RequestInv, JobInv
    <2>2. j.read = job[r].read /\ j.proposed = job[r].proposed /\ j.new = job[r].new
      BY <1>1 DEF Job
    <2> HIDE DEF j
    <2>3. ProposedJob(j, r)
      BY <1>1, <2>2 DEF ProposedJob, Proposal
    <2> QED
      BY <1>1, <2>1, <2>3, ProposedOne
  <1> QED
    BY <1>2, <1>3

LEMMA DeployProposed ==
    ASSUME RequestInv, LateInv, ProposedInv, NEW r \in Deployments,
           LockAndPrepare(r) \/ Commit(r) \/ Succeed(r) \/ GiveUp(r)
    PROVE  ProposedInv'
  <1>1. /\ r \in Requests /\ pc[r] \notin Over
        /\ late' = late \/ late' = [late EXCEPT ![r] = job[r]]
    BY DEF Requests, LockAndPrepare, Commit, Succeed, GiveUp, Over
  <1>2. CASE \E st : Finish(r, st)
    <2>1. /\ pc' = [pc EXCEPT ![r] = "done"] /\ job' = [job EXCEPT ![r] = NoJob]
          /\ "done" \in Over
      BY <1>2 DEF Finish, Answer, Over
    <2> QED
      BY <1>1, <2>1, ProposedOne
  <1>3. CASE \E s : pc' = [pc EXCEPT ![r] = s] /\ UNCHANGED job
    <2>1. PICK s : pc' = [pc EXCEPT ![r] = s]
      BY <1>3
    <2>2. job' = [job EXCEPT ![r] = job[r]] /\ ProposedJob(job[r], r)
      BY <1>1, <1>3 DEF RequestInv, JobInv, ProposedInv
    <2> QED
      BY <1>1, <2>1, <2>2, ProposedOne
  <1> QED
    BY <1>2, <1>3 DEF LockAndPrepare, Commit, Succeed, GiveUp

LEMMA CreateProposed ==
    ASSUME RequestInv, LateInv, ProposedInv, NEW r \in Requests, NEW q, Create(r, q)
    PROVE  ProposedInv'
  <1>1. /\ pc' = [pc EXCEPT ![r] = "done"] /\ job' = [job EXCEPT ![r] = job[r]]
        /\ "done" \in Over /\ UNCHANGED late
    BY DEF Create, Answer, RequestInv, JobInv, Over
  <1> QED
    BY <1>1, ProposedOne

LEMMA LateProposed ==
    ASSUME LateInv, ProposedInv, NEW r \in Deployments, LateCommit(r)
    PROVE  ProposedInv'
  <1>1. UNCHANGED <<pc, job>> /\ late' = [late EXCEPT ![r] = NoJob] /\ r \in Requests
    BY DEF LateCommit, Requests
  <1>2. late'[r] = NoJob /\ \A q \in Requests \ {r} : late'[q] = late[q]
    BY <1>1 DEF LateInv
  <1>3. ASSUME NEW q \in Requests
        PROVE  /\ pc'[q] \notin Over => ProposedJob(job'[q], q)
               /\ late'[q] # NoJob => ProposedJob(late'[q], q)
    BY <1>1, <1>2 DEF ProposedInv
  <1> QED
    BY <1>3 DEF ProposedInv, ProposedJob, Proposal

LEMMA ProposedStep == PlaneInv /\ ProposedInv /\ [Next]_vars => ProposedInv'
  <1> SUFFICES ASSUME PlaneInv, ProposedInv, [Next]_vars PROVE ProposedInv'
    OBVIOUS
  <1>0. RequestInv /\ GatewayInv /\ LateInv
    BY DEF PlaneInv
  <1>1. CASE UNCHANGED vars
    BY <1>1, ProposedIdle DEF vars, requestVars
  <1>2. ASSUME NEW r \in RouteRequests, Stage(r) PROVE ProposedInv'
    BY <1>0, <1>2, StageProposed
  <1>3. ASSUME NEW r \in Deployments,
               LockAndPrepare(r) \/ Commit(r) \/ Succeed(r) \/ GiveUp(r)
        PROVE  ProposedInv'
    BY <1>0, <1>3, DeployProposed
  <1>4. ASSUME NEW g \in Gateways, GatewayStep(g) PROVE ProposedInv'
    BY <1>4, GatewayPlane, ProposedIdle
  <1>5. CASE ControlPlaneRestart
    BY <1>5 DEF ControlPlaneRestart, ProposedInv, Over
  <1>6. ASSUME NEW r \in Requests, NEW q \in Asks[r], BeginsWith(r, q)
        PROVE  ProposedInv'
    <2>1. q.device \in Devices
      BY Asked
    <2> QED
      BY <1>0, <1>6, <2>1, HandlersPropose, CreateProposed DEF BeginsWith
  <1> QED
    BY <1>0, <1>1, <1>2, <1>3, <1>4, <1>5, <1>6, LateProposed, NextCases

LEMMA AddAsProposed ==
    ASSUME RowsInv, NEW d \in Devices, device[d] # None, NEW n \in Ingresses, n.primary = FALSE,
           AddDeviceIngress(d, n)
    PROVE  device' = [device EXCEPT ![d] =
                        [device[d] EXCEPT !.ingresses = EffectiveIngresses(device[d]) \union {n}]]
  <1>1. EffectiveIngresses(device[d]) = device[d].ingresses
    BY RowsOf, EffectiveOfRow
  <1>2. AsPrimary(n, FALSE) = n
    BY DEF AsPrimary, Ingresses
  <1>3. [n EXCEPT !.primary = FALSE] = n
    BY <1>2, AsPrimaryFacts
  <1>4. device' = [device EXCEPT ![d].ingresses = @ \union {n}]
    BY <1>3 DEF AddDeviceIngress
  <1> QED
    BY <1>1, <1>4 DEF RowsInv

LEMMA DeleteAsProposed ==
    ASSUME NEW v \in DeviceValues, MirrorsPrimary(v), NEW p
    PROVE  WithoutPort(v, p) = ProposeDelete(v, p)
  <1> DEFINE R == {i \in v.ingresses : i.port # p}
             n == Oldest(R)
  <1>1. EffectiveIngresses(v) = v.ingresses
    BY EffectiveOfRow
  <1>2. CASE \E i \in v.ingresses : i.port = p /\ i.primary
    <2> DEFINE T == (R \ {n}) \union {[n EXCEPT !.primary = TRUE]}
    <2>1. WithoutPort(v, p) = [v EXCEPT !.port = n.port, !.method = n.method,
                                        !.password = n.password, !.ingresses = T]
      BY <1>2 DEF WithoutPort, Promote
    <2>2. ProposeDelete(v, p) = [port |-> n.port, method |-> n.method, password |-> n.password,
                                 ingresses |-> T]
      BY <1>1, <1>2 DEF ProposeDelete, Oldest
    <2> HIDE DEF T, n, R
    <2> QED
      BY <2>1, <2>2 DEF DeviceValues
  <1>3. CASE ~\E i \in v.ingresses : i.port = p /\ i.primary
    BY <1>1, <1>3 DEF WithoutPort, ProposeDelete
  <1> QED
    BY <1>2, <1>3

\* A deployment that has read the device as it is commits its proposal; whatever it
\* has read, it leaves the other devices alone.
LEMMA CommitAsProposed ==
    ASSUME RequestInv, NEW r \in Deployments, NEW j, Job(j, r), ProposedJob(j, r),
           device[j.device] # None, CommitChange(r, j), UNCHANGED clock
    PROVE  /\ device'[j.device] # None
           /\ j.read = device[j.device] => device'[j.device] = j.proposed
           /\ \A e \in Devices \ {j.device} : device'[e] = device[e]
  <1> DEFINE d == j.device
             v == device[d]
  <1>2. d \in Devices /\ RowsInv /\ v # None
    BY DEF RequestInv, StoreInv, Job
  <1>4. v \in DeviceValues /\ MirrorsPrimary(v)
    BY <1>2, RowsOf
  <1>5. device'[d] # None
    BY <1>2, CommitKeepsStore DEF DevicesStay
  <1> SUFFICES \E w : /\ device' = [device EXCEPT ![d] = w]
                      /\ v = j.read => w = Proposal(j, r)
    BY <1>2, <1>5 DEF RowsInv, ProposedJob
  <1>6. CASE r \in RotateRequests /\ UpdateDeviceCredential(d, j.new)
    <2>1. device' = [device EXCEPT ![d] = SetPassword(v, j.new)] /\ j.new \in Passwords
      BY <1>2, <1>6 DEF UpdateDeviceCredential, Job
    <2>2. SetPassword(v, j.new) = ProposeRotate(v, j.new)
      BY <1>4, <2>1, SetPasswordFacts
    <2> QED
      BY <1>6, <2>1, <2>2 DEF Proposal
  <1>7. CASE r \in AddRequests /\ AddDeviceIngress(d, j.new)
    <2>1. j.new \in Ingresses /\ j.new.primary = FALSE /\ r \notin RotateRequests
      BY <1>2, <1>7, PlaneAssumption DEF Job, ProposedJob
    <2>2. device' = [device EXCEPT ![d] =
                        [v EXCEPT !.ingresses = EffectiveIngresses(v) \union {j.new}]]
      BY <1>2, <1>7, <2>1, AddAsProposed
    <2>3. v = j.read => [v EXCEPT !.ingresses = EffectiveIngresses(v) \union {j.new}] = Proposal(j, r)
      BY <1>7, <2>1 DEF Proposal
    <2> QED
      BY <2>2, <2>3
  <1>8. CASE r \in DeleteRequests /\ DeleteDeviceIngress(d, j.new)
    <2>1. r \notin RotateRequests /\ r \notin AddRequests
      BY <1>8, PlaneAssumption
    <2>2. device' = [device EXCEPT ![d] = ProposeDelete(v, j.new)]
      BY <1>4, <1>8, DeleteAsProposed DEF DeleteDeviceIngress
    <2> QED
      BY <1>8, <2>1, <2>2 DEF Proposal
  <1>9. CASE r \in RouteRequests /\ UNCHANGED device
    <2>1. r \notin RotateRequests /\ r \notin AddRequests /\ r \notin DeleteRequests
      BY <1>9, PlaneAssumption DEF IngressRequests
    <2>2. device' = [device EXCEPT ![d] = v]
      BY <1>2, <1>9 DEF RowsInv
    <2> QED
      BY <2>1, <2>2 DEF Proposal
  <1> QED
    BY <1>6, <1>7, <1>8, <1>9 DEF CommitChange

\* The last request that has committed a change of the device.  While it is at its
\* update, the device is what it has proposed, unless it was stale.
LastInv ==
    /\ last \in [Devices -> Deployments \union {None}]
    /\ \A d \in Devices : last[d] # None => device[d] # None /\ pc[last[d]] \in {"update", "done"}
    /\ \A r \in Requests, d \in Devices : pc[r] = "update" /\ last[d] = r =>
          d = job[r].device /\ (r \notin stale => device[d] = job[r].proposed)

\* A step of one request that does not commit.
LEMMA LastOne ==
    ASSUME RequestInv, LastInv, NEW r \in Requests, NEW s, NEW j,
           pc' = [pc EXCEPT ![r] = s], job' = [job EXCEPT ![r] = j], UNCHANGED <<last, stale>>,
           pc[r] # "done", s # "update", pc[r] = "update" => s = "done",
           \A e \in Devices : device[e] # None => device'[e] = device[e]
    PROVE  LastInv'
  <1>1. /\ pc'[r] = s
        /\ \A q \in Requests \ {r} : pc'[q] = pc[q] /\ job'[q] = job[q]
    BY DEF RequestInv, JobInv
  <1>2. ASSUME NEW d \in Devices, last'[d] # None
        PROVE  device'[d] # None /\ pc'[last'[d]] \in {"update", "done"}
    <2>1. device[d] # None /\ pc[last[d]] \in {"update", "done"} /\ last[d] \in Requests
      BY <1>2 DEF LastInv, Requests
    <2> QED
      BY <1>1, <2>1
  <1>3. ASSUME NEW q \in Requests, NEW d \in Devices, pc'[q] = "update", last'[d] = q
        PROVE  d = job'[q].device /\ (q \notin stale' => device'[d] = job'[q].proposed)
    <2>1. q # r /\ q # None
      BY <1>1, <1>3, PlaneAssumption, DeviceAssumption
    <2>2. pc[q] = "update" /\ job'[q] = job[q]
      BY <1>1, <1>3, <2>1
    <2>3. device[d] # None
      BY <1>3, <2>1 DEF LastInv
    <2> QED
      BY <1>3, <2>2, <2>3 DEF LastInv
  <1> QED
    BY <1>2, <1>3 DEF LastInv

LEMMA LastIdle ==
    ASSUME LastInv, UNCHANGED <<pc, job, last, stale, device>>
    PROVE  LastInv'
BY DEF LastInv

LEMMA BegunDevices ==
    ASSUME RequestInv, NEW r \in Requests, Begins(r)
    PROVE  \A e \in Devices : device[e] # None => device'[e] = device[e]
  <1>1. ASSUME NEW q \in Asks[r], Create(r, q)
        PROVE  \A e \in Devices : device[e] # None => device'[e] = device[e]
    BY <1>1 DEF Create, CreateDevice, CreateConflicts, RequestInv, StoreInv, RowsInv
  <1> QED
    BY <1>1 DEF Begins, BeginsWith, RotateCredential, AddIngress, DeleteIngress, PutRoute, Stage

LEMMA BeginLast ==
    ASSUME RequestInv, LastInv, NEW r \in Requests, Begins(r)
    PROVE  LastInv'
  <1>1. UNCHANGED <<last, stale>>
    BY DEF Begins, BeginsWith, Create, RotateCredential, AddIngress, DeleteIngress, PutRoute, Stage,
           historyVars
  <1>2. pc[r] \in {"idle", "stage"}
    BY BegunStep
  <1>a. PICK s \in {"stage", "lock", "done"} : \E j :
           pc' = [pc EXCEPT ![r] = s] /\ job' = [job EXCEPT ![r] = j]
    BY BegunStep
  <1>3. PICK j : pc' = [pc EXCEPT ![r] = s] /\ job' = [job EXCEPT ![r] = j]
    BY <1>a
  <1> QED
    BY <1>1, <1>2, <1>3, BegunDevices, LastOne

\* What a commit does to the device and to the history, at once or late.
LEMMA CommitEffect ==
    ASSUME RequestInv, LastInv, NEW r \in Deployments, NEW j, Job(j, r), ProposedJob(j, r),
           device[j.device] # None, CommitChange(r, j), UNCHANGED clock,
           NEW d, d = j.device
    PROVE  /\ d \in Devices /\ device'[d] # None
           /\ r \notin stale' => device'[d] = j.proposed
           /\ \A e \in Devices \ {d} : device'[e] = device[e]
           /\ last' = [last EXCEPT ![d] = r] /\ last'[d] = r
           /\ \A e \in Devices \ {d} : last'[e] = last[e]
           /\ last' \in [Devices -> Deployments \union {None}]
           /\ stale \subseteq stale'
           /\ \A q : q # r => (q \in stale' <=> q \in stale)
  <1>1. d \in Devices
    BY DEF Job
  <1>2. /\ device'[d] # None /\ (j.read = device[d] => device'[d] = j.proposed)
        /\ \A e \in Devices \ {d} : device'[e] = device[e]
    BY CommitAsProposed
  <1>3. /\ last' = [last EXCEPT ![d] = r]
        /\ stale' = IF j.read = device[d] THEN stale ELSE stale \union {r}
    BY DEF CommitChange
  <1> QED
    BY <1>1, <1>2, <1>3 DEF LastInv

LEMMA CommitLast ==
    ASSUME RequestInv, ReadInv, ProposedInv, LastInv, NEW r \in Deployments, Commit(r)
    PROVE  LastInv'
  <1>1. r \in Requests /\ pc[r] = "prepare" /\ deployMu = r /\ UNCHANGED clock
    BY DEF Requests, Commit, ReadInv, Holding
  <1>2. CASE CommitChange(r, job[r]) /\ pc' = [pc EXCEPT ![r] = "update"] /\ UNCHANGED job
    <2>d. PICK d : d = job[r].device
      OBVIOUS
    <2>1. Job(job[r], r) /\ device[job[r].device] # None /\ ProposedJob(job[r], r)
      BY <1>1 DEF RequestInv, JobInv, ProposedInv, Over
    <2>2. /\ d \in Devices /\ device'[d] # None
          /\ r \notin stale' => device'[d] = job[r].proposed
          /\ \A e \in Devices \ {d} : device'[e] = device[e]
          /\ last'[d] = r /\ \A e \in Devices \ {d} : last'[e] = last[e]
          /\ last' \in [Devices -> Deployments \union {None}]
      BY <1>1, <1>2, <2>d, <2>1, CommitEffect
    <2>3. pc'[r] = "update" /\ \A q \in Requests \ {r} : pc'[q] = pc[q]
      BY <1>1, <1>2 DEF RequestInv, JobInv
    <2>6. \A e \in Devices : last[e] # r
      BY <1>1, PlaneAssumption, DeviceAssumption DEF LastInv
    <2>8. ASSUME NEW e \in Devices, last'[e] # None
          PROVE  device'[e] # None /\ pc'[last'[e]] \in {"update", "done"}
      <3>1. CASE e = d
        BY <2>2, <2>3, <3>1
      <3>2. CASE e # d
        <4>1. device[e] # None /\ pc[last[e]] \in {"update", "done"} /\ last[e] \in Requests
          BY <2>2, <2>8, <3>2 DEF LastInv, Requests
        <4> QED
          BY <2>2, <2>3, <2>6, <3>2, <4>1
      <3> QED
        BY <3>1, <3>2
    <2>9. ASSUME NEW q \in Requests, NEW e \in Devices, pc'[q] = "update", last'[e] = q
          PROVE  e = job'[q].device /\ (q \notin stale' => device'[e] = job'[q].proposed)
      <3>1. q = r
        BY <1>1, <2>3, <2>9, OneHolder DEF Holding
      <3>2. e = d
        BY <2>2, <2>6, <2>9, <3>1
      <3> QED
        BY <1>2, <2>d, <2>2, <3>1, <3>2
    <2> QED
      BY <2>2, <2>8, <2>9 DEF LastInv
  <1>3. CASE Finish(r, "failed") /\ UNCHANGED <<device, last, stale>>
    <2>1. pc' = [pc EXCEPT ![r] = "done"] /\ job' = [job EXCEPT ![r] = NoJob]
      BY <1>3 DEF Finish, Answer
    <2> QED
      BY <1>1, <1>3, <2>1, LastOne
  <1> QED
    BY <1>2, <1>3 DEF Commit

LEMMA LateFacts ==
    ASSUME RequestInv, LateInv, ProposedInv, NEW r \in Deployments, LateCommit(r)
    PROVE  /\ r \in Requests /\ pc[r] = "done" /\ answer[r] # "success"
           /\ Job(late[r], r) /\ ProposedJob(late[r], r) /\ device[late[r].device] # None
           /\ CommitChange(r, late[r]) /\ UNCHANGED <<clock, pc, job, answer>>
BY DEF Requests, LateCommit, LateInv, ProposedInv

LEMMA LateLast ==
    ASSUME RequestInv, LateInv, ProposedInv, LastInv, NEW r \in Deployments, LateCommit(r)
    PROVE  LastInv'
  <1>1. /\ r \in Requests /\ pc[r] = "done" /\ answer[r] # "success"
        /\ Job(late[r], r) /\ ProposedJob(late[r], r) /\ device[late[r].device] # None
        /\ CommitChange(r, late[r]) /\ UNCHANGED <<clock, pc, job, answer>>
    BY LateFacts
  <1>d. PICK d : d = late[r].device
    OBVIOUS
  <1>2. /\ d \in Devices /\ device'[d] # None
        /\ \A e \in Devices \ {d} : device'[e] = device[e]
        /\ last'[d] = r /\ \A e \in Devices \ {d} : last'[e] = last[e]
        /\ last' \in [Devices -> Deployments \union {None}]
        /\ \A q : q # r => (q \in stale' <=> q \in stale)
    BY <1>1, <1>d, CommitEffect
  <1>3. ASSUME NEW e \in Devices, last'[e] # None
        PROVE  device'[e] # None /\ pc'[last'[e]] \in {"update", "done"}
    BY <1>1, <1>2, <1>3 DEF LastInv
  <1>4. ASSUME NEW q \in Requests, NEW e \in Devices, pc'[q] = "update", last'[e] = q
        PROVE  e = job'[q].device /\ (q \notin stale' => device'[e] = job'[q].proposed)
    <2>1. q # r /\ e # d
      BY <1>1, <1>2, <1>4
    <2> QED
      BY <1>1, <1>2, <1>4, <2>1 DEF LastInv
  <1> QED
    BY <1>2, <1>3, <1>4 DEF LastInv

LEMMA LastStep == PlaneInv /\ ServedInv /\ ProposedInv /\ LastInv /\ [Next]_vars => LastInv'
  <1> SUFFICES ASSUME PlaneInv, ServedInv, ProposedInv, LastInv, [Next]_vars PROVE LastInv'
    OBVIOUS
  <1>0. RequestInv /\ GatewayInv /\ ReadInv /\ LateInv
    BY DEF PlaneInv, ServedInv
  <1>1. CASE UNCHANGED vars
    BY <1>1, LastIdle DEF vars, requestVars, historyVars
  <1>2. ASSUME NEW r \in Requests, Begins(r) PROVE LastInv'
    BY <1>0, <1>2, BeginLast
  <1>3. ASSUME NEW r \in Deployments, Succeed(r) \/ GiveUp(r)
        PROVE  LastInv'
    <2>1. /\ UNCHANGED <<device, last, stale>> /\ r \in Requests /\ pc[r] # "done"
          /\ pc' = [pc EXCEPT ![r] = "done"] /\ job' = [job EXCEPT ![r] = NoJob]
      BY <1>3 DEF Succeed, GiveUp, historyVars, Finish, Answer, Requests
    <2> QED
      BY <1>0, <2>1, LastOne
  <1>4. ASSUME NEW r \in Deployments, LockAndPrepare(r)
        PROVE  LastInv'
    <2>1. r \in Requests /\ pc[r] = "lock" /\ UNCHANGED <<device, last, stale>>
      BY <1>4 DEF LockAndPrepare, Requests, historyVars
    <2>2. CASE Finish(r, "failed")
      <3>1. pc' = [pc EXCEPT ![r] = "done"] /\ job' = [job EXCEPT ![r] = NoJob]
        BY <2>2 DEF Finish, Answer
      <3> QED
        BY <1>0, <2>1, <3>1, LastOne
    <2>3. CASE ~Finish(r, "failed")
      <3>1. pc' = [pc EXCEPT ![r] = "prepare"] /\ UNCHANGED job
        BY <1>4, <2>3 DEF LockAndPrepare
      <3>2. job' = [job EXCEPT ![r] = job[r]]
        BY <1>0, <3>1 DEF RequestInv, JobInv
      <3> QED
        BY <1>0, <2>1, <3>1, <3>2, LastOne
    <2> QED
      BY <2>2, <2>3
  <1>5. ASSUME NEW g \in Gateways, GatewayStep(g) PROVE LastInv'
    BY <1>5, GatewayPlane, LastIdle
  <1>6. CASE ControlPlaneRestart
    <2>1. /\ UNCHANGED <<last, device>>
          /\ \A r \in Requests : pc'[r] = IF pc[r] = "idle" THEN "idle" ELSE "done"
      BY <1>6 DEF ControlPlaneRestart, historyVars
    <2> QED
      BY <2>1 DEF LastInv, Requests
  <1> QED
    BY <1>0, <1>1, <1>2, <1>3, <1>4, <1>5, <1>6, CommitLast, LateLast, BegunCases

-------------------------------------------------------------------------------
(* The last change of a device is held by its gateways *)

\* The first frame on the way leaves a gateway with v for the device d, if it has v.
Brings(f, d, v) ==
    /\ f.type = "SNAPSHOT" => (f.table[d] # None => f.table[d].dev = v)
    /\ f.type \in UpdateTypes => f.device # d

\* The gateway has the device of the database in its table and in its file, and what
\* is on the way, or read for it, will not change that.
Held(g, d) ==
    /\ file[g] # None
    /\ table[g][d] # None => table[g][d].dev = device[d]
    /\ file[g][d] # None => file[g][d].dev = device[d]
    /\ inbox[g] # <<>> => Brings(inbox[g][1], d, device[d])
    /\ link[g] = "reading" /\ snapshot[g].table[d] # None => snapshot[g].table[d].dev = device[d]

\* The gateway has acknowledged the update of r, or r has succeeded with it.
Settled(r, g) ==
    /\ g \in targets[r] /\ link[g] # "down"
    /\ \/ pc[r] = "update" /\ acks[r][g] = "ok"
       \/ pc[r] = "done" /\ answer[r] = "success"

HeldInv ==
    /\ answer = [r \in Requests |-> answer[r]]
    /\ \A d \in Devices, g \in Gateways : \A r \in Deployments \ stale :
          last[d] = r /\ Settled(r, g) => Held(g, d)

LEMMA InitHeld == Init => ProposedInv /\ LastInv /\ HeldInv
  <1> SUFFICES ASSUME Init PROVE ProposedInv /\ LastInv /\ HeldInv
    OBVIOUS
  <1>1. \A r \in Requests : pc[r] = "idle"
    BY DEF Init
  <1>2. ProposedInv
    BY <1>1 DEF Init, ProposedInv, Over
  <1>3. LastInv
    BY <1>1 DEF Init, LastInv
  <1>4. \A r \in Deployments : pc[r] = "idle"
    BY <1>1 DEF Requests
  <1>5. HeldInv
    BY <1>4 DEF Init, HeldInv, Settled
  <1> QED
    BY <1>2, <1>3, <1>5

LEMMA HeldKept ==
    ASSUME NEW g, NEW d, Held(g, d), device'[d] = device[d],
           table'[g] = table[g], file'[g] = file[g],
           link'[g] = link[g], snapshot'[g] = snapshot[g],
           inbox'[g] # <<>> => \/ inbox[g] # <<>> /\ inbox'[g][1] = inbox[g][1]
                               \/ Brings(inbox'[g][1], d, device[d])
    PROVE  Held(g, d)'
BY DEF Held

\* A step of one request that commits nothing and sends no update.
LEMMA HeldOne ==
    ASSUME LastInv, HeldInv, NEW r \in Requests,
           answer' = [q \in Requests |-> answer'[q]],
           UNCHANGED <<table, file, link, snapshot, last>>, stale \subseteq stale',
           \A q \in Requests \ {r} : /\ pc'[q] = pc[q] /\ answer'[q] = answer[q]
                                     /\ targets'[q] = targets[q] /\ acks'[q] = acks[q],
           \A g \in Gateways : \A d \in Devices : last[d] = r /\ Settled(r, g)' => Settled(r, g),
           \A e \in Devices : device[e] # None => device'[e] = device[e],
           \A g \in Gateways : inbox'[g] # <<>> =>
               \/ inbox[g] # <<>> /\ inbox'[g][1] = inbox[g][1]
               \/ inbox'[g][1].type \in PrepareTypes
    PROVE  HeldInv'
  <1> SUFFICES ASSUME NEW d \in Devices, NEW g \in Gateways, NEW q \in Deployments \ stale',
                      last'[d] = q, Settled(q, g)'
               PROVE  Held(g, d)'
    BY DEF HeldInv
  <1>1. q \in Requests /\ q # None /\ q \notin stale
    BY PlaneAssumption, DeviceAssumption DEF Requests
  <1>2. last[d] = q /\ device'[d] = device[d]
    BY <1>1 DEF LastInv
  <1>3. Settled(q, g)
    <2>1. CASE q = r
      BY <1>2, <2>1
    <2>2. CASE q # r
      BY <1>1, <2>2 DEF Settled
    <2> QED
      BY <2>1, <2>2
  <1>4. Held(g, d)
    BY <1>1, <1>2, <1>3 DEF HeldInv
  <1>5. \A f : f.type \in PrepareTypes => Brings(f, d, device[d])
    BY DEF Brings, PrepareTypes, UpdateTypes
  <1> QED
    BY <1>2, <1>4, <1>5, HeldKept

LEMMA BeginHeld ==
    ASSUME RequestInv, LastInv, HeldInv, NEW r \in Requests, Begins(r)
    PROVE  HeldInv'
  <1>1. /\ UNCHANGED <<table, file, link, snapshot, last, stale, inbox, targets, acks>>
        /\ answer' = answer \/ \E st : answer' = [answer EXCEPT ![r] = st]
    BY DEF Begins, BeginsWith, Create, RotateCredential, AddIngress, DeleteIngress, PutRoute, Stage, Proposes,
           Refused, Answer, ingressVars, hubVars, historyVars
  <1>2. pc[r] \in {"idle", "stage"}
    BY BegunStep
  <1>3. PICK s \in {"stage", "lock", "done"} : pc' = [pc EXCEPT ![r] = s]
    BY BegunStep
  <1>4. /\ answer' = [q \in Requests |-> answer'[q]]
        /\ \A q \in Requests \ {r} : pc'[q] = pc[q] /\ answer'[q] = answer[q]
    BY <1>1, <1>3 DEF HeldInv, RequestInv, JobInv
  <1>5. \A d \in Devices : last[d] # r
    BY <1>2, PlaneAssumption, DeviceAssumption DEF LastInv
  <1> QED
    BY <1>1, <1>4, <1>5, BegunDevices, HeldOne

LEMMA FinishHeld ==
    ASSUME RequestInv, CarryInv, LastInv, HeldInv, NEW r \in Requests, NEW st, Finish(r, st),
           UNCHANGED <<table, file, link, snapshot, last, stale, inbox, device>>,
           st # "failed" => st = "success" /\ pc[r] = "update" /\ AllAcked(r)
    PROVE  HeldInv'
  <1>1. /\ pc' = [pc EXCEPT ![r] = "done"] /\ answer' = [answer EXCEPT ![r] = st]
        /\ acks' = [acks EXCEPT ![r] = NoAcks]
        /\ targets' = targets \/ targets' = [targets EXCEPT ![r] = {}]
        /\ st = "success" => targets' = targets
    BY DEF Finish, Answer
  <1>2. /\ pc'[r] = "done" /\ answer'[r] = st
        /\ answer' = [q \in Requests |-> answer'[q]]
        /\ \A q \in Requests \ {r} : /\ pc'[q] = pc[q] /\ answer'[q] = answer[q]
                                     /\ targets'[q] = targets[q] /\ acks'[q] = acks[q]
    BY <1>1 DEF HeldInv, RequestInv, JobInv, CarryInv, SessionTypes
  <1>3. ASSUME NEW g \in Gateways, Settled(r, g)' PROVE Settled(r, g)
    <2>1. st = "success"
      BY <1>2, <1>3 DEF Settled
    <2> QED
      BY <1>1, <1>3, <2>1 DEF Settled, AllAcked
  <1> QED
    BY <1>2, <1>3, HeldOne

LEMMA LockHeld ==
    ASSUME RequestInv, GatewayInv, CarryInv, LastInv, HeldInv, NEW r \in Deployments,
           LockAndPrepare(r)
    PROVE  HeldInv'
  <1>1. r \in Requests /\ pc[r] = "lock" /\ UNCHANGED <<device, table, file, link, snapshot, last, stale>>
    BY DEF Requests, LockAndPrepare, ingressVars, historyVars
  <1>2. CASE Finish(r, "failed") /\ UNCHANGED inbox
    BY <1>1, <1>2, FinishHeld
  <1>3. CASE ~(Finish(r, "failed") /\ UNCHANGED inbox)
    <2> DEFINE S == ReadyGateways
               fr == Frame(PrepareType(r), r)
    <2>1. /\ pc' = [pc EXCEPT ![r] = "prepare"] /\ UNCHANGED <<acks, answer>>
          /\ targets' = [targets EXCEPT ![r] = S]
          /\ Broadcast(S, fr)
      BY <1>3 DEF LockAndPrepare
    <2>2. fr \in Frames /\ fr.type \in PrepareTypes
      BY <1>1, FrameTyped DEF PrepareType, Over, Frame, PrepareTypes
    <2> HIDE DEF S, fr
    <2>3. /\ answer' = [q \in Requests |-> answer'[q]]
          /\ \A q \in Requests \ {r} : pc'[q] = pc[q] /\ targets'[q] = targets[q]
      BY <1>1, <2>1 DEF HeldInv, RequestInv, JobInv, CarryInv, SessionTypes
    <2>4. \A d \in Devices : last[d] # r
      BY <1>1, PlaneAssumption, DeviceAssumption DEF LastInv
    <2>5. ASSUME NEW g \in Gateways
          PROVE  inbox'[g] # <<>> => \/ inbox[g] # <<>> /\ inbox'[g][1] = inbox[g][1]
                                     \/ inbox'[g][1].type \in PrepareTypes
      <3>1. inbox'[g] = IF g \in S THEN Append(inbox[g], fr) ELSE inbox[g]
        BY <2>1 DEF Broadcast
      <3> QED
        BY <2>2, <3>1, AppendedHead
    <2> QED
      BY <1>1, <2>1, <2>3, <2>4, <2>5, HeldOne
  <1> QED
    BY <1>2, <1>3

LEMMA CommitHeld ==
    ASSUME RequestInv, GatewayInv, ReadInv, CarryInv, ProposedInv, LastInv, HeldInv,
           NEW r \in Deployments, Commit(r)
    PROVE  HeldInv'
  <1>d. PICK d : d = job[r].device
    OBVIOUS
  <1>f. PICK fr : fr = Frame(UpdateType(r), r)
    OBVIOUS
  <1>1. /\ r \in Requests /\ pc[r] = "prepare" /\ AllAcked(r)
        /\ UNCHANGED <<table, file, link, snapshot, clock>>
    BY DEF Requests, Commit, ingressVars
  <1>2. CASE Finish(r, "failed") /\ UNCHANGED <<inbox, device, last, stale>>
    BY <1>1, <1>2, FinishHeld
  <1>3. CASE /\ CommitChange(r, job[r]) /\ pc' = [pc EXCEPT ![r] = "update"]
             /\ acks' = [acks EXCEPT ![r] = NoAcks] /\ Broadcast(live[r], fr)
             /\ UNCHANGED <<answer, targets>>
    <2>0. Job(job[r], r) /\ device[job[r].device] # None /\ ProposedJob(job[r], r)
      BY <1>1 DEF RequestInv, JobInv, ProposedInv, Over
    <2>1. /\ \A e \in Devices \ {d} : device'[e] = device[e]
          /\ last'[d] = r /\ \A e \in Devices \ {d} : last'[e] = last[e]
          /\ stale \subseteq stale'
      BY <1>1, <1>3, <1>d, <2>0, CommitEffect
    <2>2. fr \in Frames /\ fr.type \in UpdateTypes /\ fr.type # "SNAPSHOT" /\ fr.device = d
      BY <1>1, <1>d, <1>f, FrameTyped DEF UpdateType, Over, Frame, UpdateTypes
    <2>3. pc'[r] = "update" /\ \A q \in Requests \ {r} : pc'[q] = pc[q]
      BY <1>1, <1>3 DEF RequestInv, JobInv
    <2>4. acks'[r] = NoAcks /\ \A q \in Requests \ {r} : acks'[q] = acks[q]
      BY <1>1, <1>3 DEF CarryInv, SessionTypes
    <2>6. answer' = [q \in Requests |-> answer'[q]]
      BY <1>3 DEF HeldInv
    <2>7. ASSUME NEW g \in Gateways PROVE ~Settled(r, g)'
      <3>1. acks'[r][g] = "none"
        BY <2>4 DEF NoAcks
      <3> QED
        BY <2>3, <3>1 DEF Settled
    <2>8. ASSUME NEW g \in Gateways
          PROVE  inbox'[g] = inbox[g] \/ inbox'[g] = <<fr>>
      <3>1. CASE g \in live[r]
        <4>1. acks[r][g] = "ok" /\ Acked(r, g)
          BY <1>1, <3>1 DEF AllAcked, CarryInv, Waits
        <4>2. inbox[g] = <<>>
          BY <4>1 DEF Acked
        <4> QED
          BY <1>3, <2>2, <3>1, <4>2, AppendedHead DEF Broadcast
      <3>2. CASE g \notin live[r]
        BY <1>3, <3>2 DEF Broadcast
      <3> QED
        BY <3>1, <3>2
    <2> SUFFICES ASSUME NEW e \in Devices, NEW g \in Gateways, NEW q \in Deployments \ stale',
                        last'[e] = q, Settled(q, g)'
                 PROVE  Held(g, e)'
      BY <2>6 DEF HeldInv
    <2>9. q \in Requests \ {r} /\ q \notin stale
      BY <2>1, <2>7 DEF Requests
    <2>10. e # d /\ last[e] = q
      BY <2>1, <2>9
    <2>11. Settled(q, g)
      BY <1>1, <1>3, <2>3, <2>4, <2>9 DEF Settled
    <2>12. Held(g, e)
      BY <2>9, <2>10, <2>11 DEF HeldInv
    <2>13. inbox'[g] = <<fr>> => Brings(inbox'[g][1], e, device[e])
      BY <2>2, <2>10 DEF Brings
    <2>14. device'[e] = device[e]
      BY <2>1, <2>10
    <2> QED
      BY <1>1, <2>8, <2>12, <2>13, <2>14, HeldKept
  <1> QED
    BY <1>f, <1>2, <1>3 DEF Commit

\* The device changes by a commit that nobody waits for: the last one is no longer one
\* that was answered with success.
LEMMA LateHeld ==
    ASSUME RequestInv, LateInv, ProposedInv, LastInv, HeldInv, NEW r \in Deployments, LateCommit(r)
    PROVE  HeldInv'
  <1>1. /\ r \in Requests /\ pc[r] = "done" /\ answer[r] # "success"
        /\ Job(late[r], r) /\ ProposedJob(late[r], r) /\ device[late[r].device] # None
        /\ CommitChange(r, late[r]) /\ UNCHANGED <<clock, pc, job, answer>>
    BY LateFacts
  <1>2. UNCHANGED <<table, file, inbox, link, snapshot, targets, acks>>
    BY DEF LateCommit, ingressVars, hubVars
  <1>d. PICK d : d = late[r].device
    OBVIOUS
  <1>3. /\ \A e \in Devices \ {d} : device'[e] = device[e]
        /\ last'[d] = r /\ \A e \in Devices \ {d} : last'[e] = last[e]
        /\ stale \subseteq stale'
    BY <1>1, <1>d, CommitEffect
  <1> SUFFICES ASSUME NEW e \in Devices, NEW g \in Gateways, NEW q \in Deployments \ stale',
                      last'[e] = q, Settled(q, g)'
               PROVE  Held(g, e)'
    BY <1>1 DEF HeldInv
  <1>4. Settled(q, g)
    BY <1>1, <1>2 DEF Settled
  <1>5. q # r /\ q \notin stale
    BY <1>1, <1>3, <1>4 DEF Settled
  <1>6. e # d /\ last[e] = q
    BY <1>3, <1>5
  <1>7. Held(g, e)
    BY <1>4, <1>5, <1>6 DEF HeldInv
  <1> QED
    BY <1>2, <1>3, <1>6, <1>7, HeldKept

LEMMA NewTableTyped ==
    ASSUME GatewayInv, NEW g \in Gateways, Head(inbox[g]) \in Frames
    PROVE  NewTable(g) \in Tables
  <1> DEFINE f == Head(inbox[g])
  <1>1. CASE f.type = "SNAPSHOT"
    BY <1>1, KindsOfFrame DEF NewTable
  <1>2. CASE f.type # "SNAPSHOT"
    <2>1. /\ f.device \in Devices /\ f.route.dev \in DeviceValues
          /\ table[g] \in Tables /\ prepared[g] \in Tables
      BY <1>2, KindsOfFrame DEF GatewayInv, TableRoutes
    <2>2. UpdateDevice(g, f.device, f.route.dev) \in Tables
      BY <2>1, UpdatedTable
    <2>3. ActivatePrepared(g, f.device) \in Tables
      BY <2>1 DEF ActivatePrepared, Tables
    <2> QED
      BY <1>2, <2>1, <2>2, <2>3 DEF NewTable
  <1> QED
    BY <1>1, <1>2

\* What the handler of a frame makes of a device that the gateway held.
LEMMA StaysHeld ==
    ASSUME GatewayInv, CarryInv, NEW g \in Gateways, NEW res, Handled(g, res), NEW d \in Devices,
           device[d] # None, Held(g, d)
    PROVE  Held(g, d)'
  <1> DEFINE f == Head(inbox[g])
             t == NewTable(g)
  <1>1. /\ inbox[g] # <<>> /\ f \in Frames /\ inbox' = [inbox EXCEPT ![g] = Tail(@)]
        /\ device' = device /\ UNCHANGED <<link, snapshot>> /\ table'[g] \in {table[g], t} /\ file'[g] \in {file[g], t}
        /\ f.type \in PrepareTypes => table'[g] = table[g] /\ file'[g] = file[g]
    BY DEF Handled
  <1>2. f = inbox[g][1] /\ inbox'[g] = Tail(inbox[g])
    BY <1>1, InboxLen DEF GatewayInv
  <1>3. Brings(f, d, device[d])
    BY <1>1, <1>2 DEF Held
  <1>4. CASE f.type \notin PrepareTypes
    <2>1. t # None /\ (t[d] # None => t[d].dev = device[d])
      <3>1. CASE f.type = "SNAPSHOT"
        BY <1>1, <1>3, <3>1, KindsOfFrame, TableAssumption DEF NewTable, Brings
      <3>2. CASE f.type \in UpdateTypes
        <4>1. /\ f.device \in Devices \ {d} /\ f.route \in TableRoutes
              /\ table[g] \in Tables /\ prepared[g] \in Tables
          BY <1>1, <1>3, <3>2, KindsOfFrame DEF Brings, GatewayInv, UpdateTypes
        <4>2. t[d] = table[g][d] /\ t = [e \in Devices |-> t[e]]
          BY <3>2, <4>1 DEF NewTable, UpdateTypes, ActivatePrepared, UpdateDevice, Tables
        <4>3. t \in Tables
          BY <1>1, NewTableTyped
        <4> QED
          BY <4>2, <4>3, TableAssumption DEF Held
      <3> QED
        BY <1>1, <1>4, <3>1, <3>2, KindsOfFrame
    <2> HIDE DEF t
    <2>2. file'[g] # None /\ (table'[g][d] # None => table'[g][d].dev = device[d])
          /\ (file'[g][d] # None => file'[g][d].dev = device[d])
      BY <1>1, <2>1 DEF Held
    <2>3. inbox'[g] # <<>> => inbox'[g][1].type \in PrepareTypes
      <3> SUFFICES ASSUME inbox'[g] # <<>> PROVE inbox'[g][1].type \in PrepareTypes
        OBVIOUS
      <3>1. 1 + 1 \in 1 .. Len(inbox[g]) /\ inbox'[g][1] = inbox[g][1 + 1]
        BY <1>1, <1>2, TailFrame
      <3>2. Carried(g, 1 + 1)
        BY <3>1 DEF CarryInv
      <3> QED
        BY <3>1, <3>2 DEF Carried
    <2>4. inbox'[g] # <<>> => Brings(inbox'[g][1], d, device[d])
      BY <2>3 DEF Brings, PrepareTypes, UpdateTypes
    <2> QED
      BY <1>1, <2>2, <2>4 DEF Held
  <1>5. CASE f.type \in PrepareTypes
    <2>1. inbox'[g] # <<>> => Brings(inbox'[g][1], d, device[d])
      <3> SUFFICES ASSUME inbox'[g] # <<>> PROVE Brings(inbox'[g][1], d, device[d])
        OBVIOUS
      <3>1. 1 + 1 \in 1 .. Len(inbox[g]) /\ inbox'[g][1] = inbox[g][1 + 1]
        BY <1>1, <1>2, TailFrame
      <3>2. Carried(g, 1 + 1)
        BY <3>1 DEF CarryInv
      <3>3. inbox'[g][1].type \in PrepareTypes
        BY <3>1, <3>2 DEF Carried
      <3> QED
        BY <3>3 DEF Brings, PrepareTypes, UpdateTypes
    <2> QED
      BY <1>1, <1>5, <2>1, HeldKept
  <1> QED
    BY <1>4, <1>5

\* A gateway that acknowledges an update holds what was proposed.
LEMMA BecomesHeld ==
    ASSUME RequestInv, GatewayInv, CarryInv, LastInv, NEW g \in Gateways, NEW res, Handled(g, res),
           NEW r \in Deployments \ stale, NEW d \in Devices, last[d] = r, pc[r] = "update",
           r = Head(inbox[g]).req, g \in live[r], res = "ok"
    PROVE  Held(g, d)'
  <1> DEFINE f == Head(inbox[g])
             t == NewTable(g)
  <1>1. /\ inbox[g] # <<>> /\ f \in Frames /\ inbox' = [inbox EXCEPT ![g] = Tail(@)]
        /\ device' = device /\ r \in Requests /\ link'[g] = link[g]
        /\ f.type \in UpdateTypes => table'[g] = t /\ file'[g] = t
    BY DEF Handled, Requests
  <1>2. f = inbox[g][1] /\ 1 \in 1 .. Len(inbox[g]) /\ inbox'[g] = Tail(inbox[g])
    BY <1>1, InboxLen DEF GatewayInv
  <1>3. f.type # "SNAPSHOT"
    BY <1>1, KindsOfFrame, PlaneAssumption, DeviceAssumption
  <1>4. Carried(g, 1) /\ Activates(g)
    BY <1>2 DEF CarryInv
  <1>5. f = Frame(UpdateType(r), r) /\ Len(inbox[g]) = 1
    BY <1>2, <1>3, <1>4 DEF Carried, Holding, PhaseType
  <1>6. inbox'[g] = <<>>
    BY <1>1, <1>2, <1>5, TailFrame
  <1>7. /\ f.type \in UpdateTypes /\ f.device = job[r].device /\ f.route.dev = job[r].proposed
        /\ f.type = UpdateType(r)
    BY <1>5 DEF Frame, UpdateType, UpdateTypes
  <1>8. d = job[r].device /\ device[d] = job[r].proposed
    BY <1>1 DEF LastInv
  <1>9. f.route \in TableRoutes /\ table[g] \in Tables /\ prepared[g] \in Tables /\ f.device = d
    BY <1>1, <1>3, <1>7, <1>8, KindsOfFrame DEF GatewayInv
  <1>10. t \in Tables /\ (t[d] # None => t[d].dev = device[d])
    <2>1. CASE f.type = "ACTIVATE"
      <3>1. t = [table[g] EXCEPT ![d] = f.route]
        BY <1>1, <1>2, <1>4, <1>9, <2>1 DEF NewTable, ActivatePrepared, Activates
      <3> QED
        BY <1>7, <1>8, <1>9, <3>1 DEF Tables
    <2>2. CASE f.type = "DEVICE_UPDATE"
      <3>1. t = UpdateDevice(g, d, f.route.dev)
        BY <1>9, <2>2 DEF NewTable
      <3>2. t \in Tables
        BY <1>9, <3>1, UpdatedTable DEF GatewayInv, TableRoutes
      <3>3. CASE table[g][d] = None
        BY <3>1, <3>2, <3>3 DEF UpdateDevice
      <3>4. CASE table[g][d] # None
        <4>1. t = [table[g] EXCEPT ![d].dev = f.route.dev] /\ table[g][d] \in TableRoutes
          BY <1>9, <3>1, <3>4 DEF UpdateDevice, Tables
        <4>2. t[d].dev = f.route.dev
          BY <1>9, <4>1 DEF Tables, TableRoutes
        <4> QED
          BY <1>7, <1>8, <3>2, <4>2
      <3> QED
        BY <3>3, <3>4
    <2> QED
      BY <1>7, <2>1, <2>2 DEF UpdateTypes
  <1>11. t # None
    BY <1>10, TableAssumption
  <1>12. link[g] = "open"
    BY <1>1 DEF CarryInv, Waits
  <1> HIDE DEF t
  <1> QED
    BY <1>1, <1>6, <1>7, <1>10, <1>11, <1>12 DEF Held

LEMMA FrameHeld ==
    ASSUME RequestInv, GatewayInv, CarryInv, LastInv, HeldInv, NEW g \in Gateways, NEW res,
           Handled(g, res)
    PROVE  HeldInv'
  <1> DEFINE f == Head(inbox[g])
  <1>1. /\ UNCHANGED <<device, pc, targets, answer, link, snapshot, stale, last>>
        /\ inbox' = [inbox EXCEPT ![g] = Tail(@)]
        /\ \A h \in Gateways \ {g} : table'[h] = table[h] /\ file'[h] = file[h]
    BY DEF Handled
  <1>2. \A q \in Requests, h \in Gateways :
           acks'[q][h] = IF q = f.req /\ h = g /\ g \in live[q] THEN res ELSE acks[q][h]
    BY AckedOne DEF CarryInv
  <1>3. \A h \in Gateways \ {g} : inbox'[h] = inbox[h]
    BY <1>1 DEF GatewayInv
  <1> SUFFICES ASSUME NEW d \in Devices, NEW h \in Gateways, NEW q \in Deployments \ stale,
                      last[d] = q, Settled(q, h)'
               PROVE  Held(h, d)'
    BY <1>1 DEF HeldInv
  <1>4. q \in Requests /\ q # None /\ device[d] # None
    BY PlaneAssumption, DeviceAssumption DEF Requests, LastInv
  <1>5. CASE Settled(q, h)
    <2>1. Held(h, d)
      BY <1>5 DEF HeldInv
    <2>2. CASE h = g
      BY <1>4, <2>1, <2>2, StaysHeld
    <2>3. CASE h # g
      BY <1>1, <1>3, <2>1, <2>3, HeldKept
    <2> QED
      BY <2>2, <2>3
  <1>6. CASE ~Settled(q, h)
    <2>1. pc[q] = "update" /\ acks'[q][h] = "ok" /\ acks[q][h] # "ok"
      BY <1>1, <1>6 DEF Settled
    <2>2. q = f.req /\ h = g /\ g \in live[q] /\ res = "ok"
      BY <1>2, <1>4, <2>1
    <2> QED
      BY <2>1, <2>2, BecomesHeld
  <1> QED
    BY <1>5, <1>6

\* The step of one gateway outside the requests.
LEMMA HeldSession ==
    ASSUME LastInv, HeldInv, NEW g \in Gateways,
           UNCHANGED <<device, pc, targets, answer, acks, stale, last>>,
           \A h \in Gateways \ {g} : /\ link'[h] = link[h] /\ inbox'[h] = inbox[h]
                                     /\ table'[h] = table[h] /\ file'[h] = file[h]
                                     /\ snapshot'[h] = snapshot[h],
           link'[g] # "down" => link[g] # "down",
           \A d \in Devices : link'[g] # "down" /\ device[d] # None /\ Held(g, d) => Held(g, d)'
    PROVE  HeldInv'
  <1> SUFFICES ASSUME NEW d \in Devices, NEW h \in Gateways, NEW q \in Deployments \ stale,
                      last[d] = q, Settled(q, h)'
               PROVE  Held(h, d)'
    BY DEF HeldInv
  <1>1. device[d] # None
    BY PlaneAssumption, DeviceAssumption DEF Requests, LastInv
  <1>2. Settled(q, h)
    BY DEF Settled
  <1>3. Held(h, d)
    BY <1>2 DEF HeldInv
  <1>4. CASE h = g
    <2>1. link'[g] # "down"
      BY <1>4 DEF Settled
    <2> QED
      BY <1>1, <1>3, <1>4, <2>1
  <1>5. CASE h # g
    BY <1>3, <1>5, HeldKept
  <1> QED
    BY <1>4, <1>5

LEMMA ConnectHeld ==
    ASSUME RequestInv, SnapshotInv, LastInv, HeldInv, NEW g \in Gateways, Connect(g)
    PROVE  HeldInv'
  <1>x. PICK x : x = [table |-> ActiveRoutes, unread |-> {d \in Devices : version[d] # 0},
                      torn |-> FALSE]
    OBVIOUS
  <1>1. /\ link[g] = "none" /\ link' = [link EXCEPT ![g] = "reading"]
        /\ snapshot' = [snapshot EXCEPT ![g] = x]
        /\ UNCHANGED <<device, table, file, inbox, pc, targets, answer, acks, stale, last>>
    BY <1>x DEF Connect, ingressVars, requestVars, historyVars
  <1>2. x.table = ActiveRoutes
    BY <1>x
  <1>3. \A d \in Devices : x.table[d] # None => x.table[d].dev = device[d]
    BY <1>2, ActiveRoutesExist
  <1>4. /\ snapshot'[g] = x /\ link'[g] = "reading"
        /\ \A h \in Gateways \ {g} : link'[h] = link[h] /\ snapshot'[h] = snapshot[h]
    BY <1>1 DEF SnapshotInv
  <1>5. \A d \in Devices : Held(g, d) => Held(g, d)'
    BY <1>1, <1>3, <1>4 DEF Held
  <1> QED
    BY <1>1, <1>4, <1>5, HeldSession

LEMMA LoadHeld ==
    ASSUME RequestInv, SnapshotInv, LastInv, HeldInv, NEW g \in Gateways, NEW d \in Devices,
           LoadIngresses(g, d)
    PROVE  HeldInv'
  <1>1. /\ link[g] = "reading" /\ device[d].ingresses \in SUBSET Ingresses
        /\ snapshot[g] \in Snapshots /\ snapshot[g].table[d] # None
        /\ snapshot'[g].table = WithIngresses(snapshot[g].table, d, device[d].ingresses)
        /\ snapshot' = [snapshot EXCEPT ![g] = snapshot'[g]]
    BY Loaded
  <1>2. UNCHANGED <<device, table, file, inbox, link, pc, targets, answer, acks, stale, last>>
    BY DEF LoadIngresses, ingressVars, requestVars, historyVars
  <1>3. PICK t \in Tables : t = snapshot[g].table
    BY <1>1 DEF Snapshots
  <1>4. PICK S \in SUBSET Ingresses : S = device[d].ingresses
    BY <1>1
  <1>5. t[d] # None
    BY <1>1, <1>3
  <1>6. PICK u : u = WithIngresses(t, d, S)
    OBVIOUS
  <1>7. /\ u[d] = [version |-> t[d].version,
                   dev |-> [port |-> t[d].dev.port, method |-> t[d].dev.method,
                            password |-> t[d].dev.password, ingresses |-> S]]
        /\ \A e \in Devices \ {d} : u[e] = t[e]
    BY <1>5, <1>6, WithIngressesFacts
  <1>8. t[d].dev = device[d] => u[d].dev = device[d]
    <2>1. t[d].dev \in DeviceValues
      BY <1>3, <1>5 DEF Tables, TableRoutes
    <2>2. u[d].dev = [port |-> t[d].dev.port, method |-> t[d].dev.method,
                      password |-> t[d].dev.password, ingresses |-> S]
      BY <1>7
    <2> QED
      BY <1>4, <2>1, <2>2 DEF DeviceValues
  <1>9. \A h \in Gateways \ {g} : snapshot'[h] = snapshot[h]
    BY <1>1 DEF SnapshotInv
  <1>10. snapshot'[g].table = u
    BY <1>1, <1>3, <1>4, <1>6
  <1>11. ASSUME NEW e \in Devices, Held(g, e) PROVE Held(g, e)'
    <2>1. u[e] # None => u[e].dev = device[e]
      <3>1. t[e] # None => t[e].dev = device[e]
        BY <1>1, <1>3, <1>11 DEF Held
      <3> QED
        BY <1>5, <1>7, <1>8, <3>1
    <2> QED
      BY <1>2, <1>10, <1>11, <2>1 DEF Held
  <1> QED
    BY <1>2, <1>9, <1>11, HeldSession

LEMMA SendHeld ==
    ASSUME GatewayInv, SnapshotInv, LastInv, HeldInv, NEW g \in Gateways, SendSnapshot(g)
    PROVE  HeldInv'
  <1>f. PICK f : f = [type |-> "SNAPSHOT", req |-> None, table |-> snapshot[g].table,
                      torn |-> snapshot[g].torn]
    OBVIOUS
  <1>1. /\ link[g] = "reading" /\ link' = [link EXCEPT ![g] = "open"]
        /\ inbox' = [inbox EXCEPT ![g] = <<f>>]
        /\ snapshot' = [snapshot EXCEPT ![g] = None]
        /\ UNCHANGED <<device, table, file, pc, targets, answer, acks, stale, last>>
    BY <1>f DEF SendSnapshot, ingressVars, requestVars, historyVars
  <1>2. f.type = "SNAPSHOT" /\ f.table = snapshot[g].table
    BY <1>f
  <1>3. /\ inbox'[g] = <<f>> /\ link'[g] = "open"
        /\ \A h \in Gateways \ {g} : /\ link'[h] = link[h] /\ snapshot'[h] = snapshot[h]
                                     /\ inbox'[h] = inbox[h]
    BY <1>1 DEF SnapshotInv, GatewayInv
  <1>4. inbox'[g][1] = f
    BY <1>3
  <1>5. ASSUME NEW d \in Devices, Held(g, d) PROVE Held(g, d)'
    <2>1. Brings(f, d, device[d])
      BY <1>1, <1>2, <1>5 DEF Held, Brings, UpdateTypes
    <2> QED
      BY <1>1, <1>3, <1>4, <1>5, <2>1 DEF Held
  <1> QED
    BY <1>1, <1>3, <1>5, HeldSession

LEMMA EndedHeld ==
    ASSUME GatewayInv, SnapshotInv, CarryInv, LastInv, HeldInv, NEW g \in Gateways,
           Disconnect(g) \/ GatewayRestart(g)
    PROVE  HeldInv'
  <1>1. /\ UNCHANGED <<device, pc, targets, answer, acks, stale, last, file>>
        /\ inbox' = [inbox EXCEPT ![g] = <<>>] /\ link[g] # "down"
        /\ snapshot' = [snapshot EXCEPT ![g] = None]
    BY DEF Disconnect, GatewayRestart, Restart, CannotStart, EndSession, ingressVars, historyVars
  <1>2. \/ link' = [link EXCEPT ![g] = "none"] /\ table' = table
        \/ link' = [link EXCEPT ![g] = "none"]
           /\ table' = [table EXCEPT ![g] = IF file[g] = None THEN NoTable ELSE file[g]]
        \/ link' = [link EXCEPT ![g] = "down"] /\ table' = [table EXCEPT ![g] = NoTable]
    BY DEF Disconnect, GatewayRestart, Restart, CannotStart, Install, ingressVars
  <1>3. /\ inbox'[g] = <<>>
        /\ \A h \in Gateways \ {g} : /\ link'[h] = link[h] /\ inbox'[h] = inbox[h]
                                     /\ table'[h] = table[h] /\ snapshot'[h] = snapshot[h]
        /\ link'[g] \in {"none", "down"}
        /\ link'[g] # "down" => table'[g] = table[g]
                                \/ table'[g] = IF file[g] = None THEN NoTable ELSE file[g]
    BY <1>1, <1>2 DEF GatewayInv, SnapshotInv, CarryInv, SessionTypes
  <1>4. ASSUME NEW d \in Devices, link'[g] # "down", Held(g, d) PROVE Held(g, d)'
    BY <1>1, <1>3, <1>4 DEF Held
  <1> QED
    BY <1>1, <1>3, <1>4, HeldSession

LEMMA IdleHeld ==
    ASSUME HeldInv,
           UNCHANGED <<device, table, file, inbox, link, snapshot, pc, targets, answer, acks, stale, last>>
    PROVE  HeldInv'
BY DEF HeldInv, Held, Settled

LEMMA ControlPlaneHeld ==
    ASSUME LastInv, HeldInv, ControlPlaneRestart
    PROVE  HeldInv'
  <1>1. /\ UNCHANGED <<device, table, file, targets, stale, last>>
        /\ \A g \in Gateways : /\ inbox'[g] = <<>> /\ link'[g] # "reading"
                               /\ link'[g] # "down" => link[g] # "down"
        /\ \A r \in Requests :
              /\ pc'[r] # "update"
              /\ answer'[r] = IF pc[r] \in {"idle", "done"} THEN answer[r] ELSE "failed"
              /\ pc'[r] = IF pc[r] = "idle" THEN "idle" ELSE "done"
        /\ answer' = [r \in Requests |-> answer'[r]]
    BY DEF ControlPlaneRestart, ingressVars, historyVars
  <1> SUFFICES ASSUME NEW d \in Devices, NEW g \in Gateways, NEW q \in Deployments \ stale,
                      last[d] = q, Settled(q, g)'
               PROVE  Held(g, d)'
    BY <1>1 DEF HeldInv
  <1>2. q \in Requests
    BY DEF Requests
  <1>3. Settled(q, g)
    BY <1>1, <1>2 DEF Settled
  <1>4. Held(g, d)
    BY <1>3 DEF HeldInv
  <1> QED
    BY <1>1, <1>4 DEF Held

LEMMA HeldStep ==
    PlaneInv /\ ServedInv /\ CarryInv /\ ProposedInv /\ LastInv /\ HeldInv /\ [Next]_vars => HeldInv'
  <1> SUFFICES ASSUME PlaneInv, ServedInv, CarryInv, ProposedInv, LastInv, HeldInv, [Next]_vars
               PROVE  HeldInv'
    OBVIOUS
  <1>0. RequestInv /\ GatewayInv /\ ReadInv /\ LateInv /\ SnapshotInv
    BY DEF PlaneInv, ServedInv
  <1>1. CASE UNCHANGED vars
    BY <1>1, IdleHeld DEF vars, ingressVars, requestVars, hubVars, historyVars
  <1>2. ASSUME NEW r \in Requests, Begins(r) PROVE HeldInv'
    BY <1>0, <1>2, BeginHeld
  <1>3. ASSUME NEW r \in Deployments,
               LockAndPrepare(r) \/ Commit(r) \/ Succeed(r) \/ GiveUp(r)
        PROVE  HeldInv'
    <2>1. CASE Succeed(r)
      <3>1. /\ UNCHANGED <<table, file, link, snapshot, last, stale, inbox, device>> /\ r \in Requests
            /\ Finish(r, "success") /\ pc[r] = "update" /\ AllAcked(r)
        BY <2>1 DEF Succeed, hubVars, ingressVars, historyVars, Requests
      <3> QED
        BY <1>0, <3>1, FinishHeld
    <2>2. CASE GiveUp(r)
      <3>1. /\ UNCHANGED <<table, file, link, snapshot, last, stale, inbox, device>> /\ r \in Requests
            /\ Finish(r, "failed")
        BY <2>2 DEF GiveUp, hubVars, ingressVars, historyVars, Requests
      <3> QED
        BY <1>0, <3>1, FinishHeld
    <2> QED
      BY <1>0, <1>3, <2>1, <2>2, LockHeld, CommitHeld
  <1>4. ASSUME NEW g \in Gateways, GatewayStep(g) PROVE HeldInv'
    <2>1. CASE FrameStep(g)
      BY <1>0, <2>1, HandledFrame, FrameHeld
    <2>2. CASE Heartbeat(g) \/ LocalDrain(g)
      BY <1>0, <2>2, IdleHeld DEF Heartbeat, LocalDrain, requestVars, ingressVars, hubVars, historyVars
    <2> QED
      BY <1>0, <1>4, <2>1, <2>2, ConnectHeld, LoadHeld, SendHeld, EndedHeld, OtherSteps
  <1>5. CASE ControlPlaneRestart
    BY <1>5, ControlPlaneHeld
  <1>6. ASSUME NEW r \in Deployments, LateCommit(r) PROVE HeldInv'
    BY <1>0, <1>6, LateHeld
  <1> QED
    BY <1>1, <1>2, <1>3, <1>4, <1>5, <1>6, BegunCases

\* The last change of a device to reach the database, if it was answered with success
\* and was not stale, is in the table and in the file of each of its gateways whose
\* process runs, whatever is connected, restarted or deployed for other devices
\* afterwards, and although commits that nobody waits for may come at any time
\* (api.go builds the proposal from what it has read, store and gateway apply it apart).
THEOREM LastChangeStaysHeld == Spec => []LastChangeIsHeld
  <1>1. SessionTypes /\ HeldInv => LastChangeIsHeld
    <2> SUFFICES ASSUME SessionTypes, HeldInv, NEW d \in Devices, NEW r \in Deployments \ stale,
                        last[d] = r, pc[r] = "done", answer[r] = "success",
                        NEW g \in targets[r], link[g] # "down"
                 PROVE  /\ table[g][d] # None => table[g][d].dev = device[d]
                        /\ file[g] # None /\ (file[g][d] # None => file[g][d].dev = device[d])
      BY DEF LastChangeIsHeld
    <2>1. g \in Gateways
      BY DEF SessionTypes, Requests
    <2>2. Held(g, d)
      BY <2>1 DEF HeldInv, Settled
    <2> QED
      BY <2>2 DEF Held
  <1>2. Spec => []ServedInv
    BY InitServed, ServedStep, PlaneInvariant, PTL DEF Spec
  <1>3. Spec => [](CarryInv /\ ProposedInv /\ LastInv /\ HeldInv)
    BY <1>2, InitCarry, InitHeld, CarryStep, ProposedStep, LastStep, HeldStep, PlaneInvariant, PTL
       DEF Spec
  <1>4. CarryInv => SessionTypes
    BY DEF CarryInv
  <1> QED
    BY <1>1, <1>3, <1>4, PTL

-------------------------------------------------------------------------------
(* A frame on the way takes no ingress that a device keeps *)

\* The device has the row, as its primary one or not.
Offers(v, i) ==
    \E j \in EffectiveIngresses(v) :
        j.port = i.port /\ j.method = i.method /\ j.password = i.password /\ j.at = i.at

\* The rotations whose password the database has not seen, and may still see.
Undrawn == {q \in RotateRequests : pc[q] \notin {"update", "done"} \/ late[q] # NoJob}

\* The additions that may still be committed, and created_at of their rows.
Pending == {q \in AddRequests : pc[q] \in {"lock", "prepare"} \/ late[q] # NoJob}
RowTime(q) == IF late[q] # NoJob THEN late[q].new.at ELSE job[q].new.at

Untaken(n) == n \notin 0 .. (clock - 1) \/ \E q \in Pending : n = RowTime(q)

\* The additions have a time of their own, later than what was there at the start.
TimesInv ==
    /\ clock \in Nat /\ StartTime <= clock
    /\ \A q \in Pending : RowTime(q) \in Nat /\ StartTime <= RowTime(q) /\ RowTime(q) < clock
    /\ \A p, q \in Pending : RowTime(p) = RowTime(q) => p = q

\* A row that no table of the database has had so far.
Fresh(i) == i.password.by \in Undrawn \/ Untaken(i.at)

Drawn(v) ==
    /\ v.port # 0 => v.password.by \notin Undrawn
    /\ \A i \in v.ingresses : ~Fresh(i)

\* A route that a gateway may have for the device d.
Known(d, rt) == rt # None => Drawn(rt.dev) /\ version[d] # 0

KnownFrame(f) ==
    /\ f.type = "SNAPSHOT" => \A d \in Devices : Known(d, f.table[d])
    /\ f.type \in UpdateTypes => Drawn(f.route.dev)
    /\ f.type = "ACTIVATE" => version[f.device] # 0

\* Of the rows that v and w have in common, u has all.
Keeps(u, v, w) == \A i \in EffectiveIngresses(v) : Offers(w, i) => Offers(u, i)

KeepsFrame(f, d, v, w) ==
    /\ f.type = "SNAPSHOT" => f.table[d] # None /\ Keeps(f.table[d].dev, v, w)
    /\ f.type \in UpdateTypes /\ f.device = d => Keeps(f.route.dev, v, w)

\* So far as it is read.
KeepsRead(x, d, v, w) ==
    x.table[d] # None /\ (d \notin x.unread => Keeps(x.table[d].dev, v, w))

\* The gateway has, and is to receive, no row before it is committed, and routes only for
\* devices that have one in the database; what it is to receive keeps the rows of its
\* table that the device has.
Sound(g) ==
    /\ \A d \in Devices :
          Known(d, table[g][d]) /\ (file[g] # None => Known(d, file[g][d]))
    /\ inbox[g] # <<>> => KnownFrame(inbox[g][1])
    /\ link[g] = "reading" => \A d \in Devices : Known(d, snapshot[g].table[d])
    /\ \A d \in Devices : table[g][d] # None =>
          /\ inbox[g] # <<>> => KeepsFrame(inbox[g][1], d, device[d], table[g][d].dev)
          /\ link[g] = "reading" => KeepsRead(snapshot[g], d, device[d], table[g][d].dev)

SoundInv ==
    /\ \A d \in Devices : device[d] # None => Drawn(device[d])
    /\ \A g \in Gateways : Sound(g)

VersionsInv ==
    \A r \in RouteRequests : /\ pc[r] \in {"lock"} \union Holding => job[r].version # 0
                             /\ late[r] # NoJob => late[r].version # 0

\* Nothing is on the way before the SNAPSHOT.
QuietInv == \A g \in Gateways : link[g] # "open" => inbox[g] = <<>>

OwnInv == VersionsInv /\ TimesInv /\ QuietInv /\ (stale = {} => SoundInv)

LEMMA OffersAll == ASSUME NEW v, NEW i \in EffectiveIngresses(v) PROVE Offers(v, i)
BY DEF Offers

LEMMA KeepsChanged ==
    ASSUME NEW u, NEW v, NEW w, NEW x, Keeps(u, v, w),
           \A i \in EffectiveIngresses(x) : Offers(v, i) \/ ~Offers(w, i)
    PROVE  Keeps(u, x, w)
  <1> SUFFICES ASSUME NEW i \in EffectiveIngresses(x), Offers(w, i) PROVE Offers(u, i)
    BY DEF Keeps
  <1>1. PICK j \in EffectiveIngresses(v) :
           j.port = i.port /\ j.method = i.method /\ j.password = i.password /\ j.at = i.at
    BY DEF Offers
  <1>2. Offers(w, j)
    BY <1>1 DEF Offers
  <1>3. Offers(u, j)
    BY <1>2 DEF Keeps
  <1> QED
    BY <1>1, <1>3 DEF Offers

\* What a device without rows of its own offers was there at the start.
LEMMA DrawnOffers ==
    ASSUME TimesInv, NEW v, Drawn(v), NEW i, Offers(v, i)
    PROVE  ~Fresh(i)
  <1>1. PICK j \in EffectiveIngresses(v) : j.password = i.password /\ j.at = i.at
    BY DEF Offers
  <1>2. CASE j \in v.ingresses
    BY <1>1, <1>2 DEF Drawn, Fresh
  <1>3. CASE j \notin v.ingresses
    <2>1. v.port # 0 /\ j.password = v.password /\ j.at = 0
      BY <1>1, <1>3 DEF EffectiveIngresses
    <2>2. ~Untaken(0)
      BY PlaneAssumption DEF TimesInv, Untaken
    <2> QED
      BY <1>1, <2>1, <2>2 DEF Drawn, Fresh
  <1> QED
    BY <1>2, <1>3

-------------------------------------------------------------------------------
(* Versions and times *)

LEMMA VersionsOne ==
    ASSUME RequestInv, LateInv, VersionsInv, NEW r \in Requests, NEW s, NEW j, NEW k,
           pc' = [pc EXCEPT ![r] = s], job' = [job EXCEPT ![r] = j], late' = [late EXCEPT ![r] = k],
           r \in RouteRequests /\ s \in {"lock"} \union Holding => j.version # 0,
           r \in RouteRequests /\ k # NoJob => k.version # 0
    PROVE  VersionsInv'
  <1>1. /\ pc'[r] = s /\ job'[r] = j /\ late'[r] = k
        /\ \A q \in Requests \ {r} : pc'[q] = pc[q] /\ job'[q] = job[q] /\ late'[q] = late[q]
    BY DEF RequestInv, JobInv, LateInv
  <1>2. ASSUME NEW q \in RouteRequests
        PROVE  /\ pc'[q] \in {"lock"} \union Holding => job'[q].version # 0
               /\ late'[q] # NoJob => late'[q].version # 0
    <2>1. q \in Requests
      BY DEF Requests, Deployments
    <2> QED
      BY <1>1, <2>1 DEF VersionsInv
  <1> QED
    BY <1>2 DEF VersionsInv

\* The step of one request, as far as it concerns what may still be committed.
LEMMA TimesOne ==
    ASSUME RequestInv, LateInv, TimesInv, NEW r \in Requests, NEW s, NEW j, NEW k,
           pc' = [pc EXCEPT ![r] = s], job' = [job EXCEPT ![r] = j], late' = [late EXCEPT ![r] = k],
           UNCHANGED clock,
           r \in Undrawn' => r \in Undrawn,
           r \in Pending' => r \in Pending /\ RowTime(r)' = RowTime(r)
    PROVE  TimesInv' /\ Undrawn' \subseteq Undrawn /\ \A n : Untaken(n)' => Untaken(n)
  <1>1. \A q \in Requests \ {r} : pc'[q] = pc[q] /\ job'[q] = job[q] /\ late'[q] = late[q]
    BY DEF RequestInv, JobInv, LateInv
  <1>2. \A q \in Pending' : q \in Pending /\ RowTime(q)' = RowTime(q)
    <2> SUFFICES ASSUME NEW q \in Pending', q # r PROVE q \in Pending /\ RowTime(q)' = RowTime(q)
      OBVIOUS
    <2>1. q \in Requests \ {r}
      BY DEF Pending, Requests, Deployments, IngressRequests
    <2> QED
      BY <1>1, <2>1 DEF Pending, RowTime
  <1>3. Undrawn' \subseteq Undrawn
    <2> SUFFICES ASSUME NEW q \in Undrawn', q # r PROVE q \in Undrawn
      OBVIOUS
    <2>1. q \in Requests \ {r}
      BY DEF Undrawn, Requests, Deployments, IngressRequests
    <2> QED
      BY <1>1, <2>1 DEF Undrawn
  <1>4. TimesInv'
    <2>1. \A q \in Pending' : /\ RowTime(q)' \in Nat /\ StartTime <= RowTime(q)'
                              /\ RowTime(q)' < clock'
      BY <1>2 DEF TimesInv
    <2>2. \A p, q \in Pending' : RowTime(p)' = RowTime(q)' => p = q
      BY <1>2 DEF TimesInv
    <2> QED
      BY <2>1, <2>2 DEF TimesInv
  <1>5. \A n : Untaken(n)' => Untaken(n)
    BY <1>2 DEF Untaken
  <1> QED
    BY <1>3, <1>4, <1>5

\* An addition takes the next time.
LEMMA TimesNew ==
    ASSUME RequestInv, LateInv, TimesInv, NEW r \in AddRequests, NEW s, NEW j,
           pc[r] \notin {"lock", "prepare"}, late[r] = NoJob,
           pc' = [pc EXCEPT ![r] = s], job' = [job EXCEPT ![r] = j], UNCHANGED late,
           clock' = clock + 1, j.new.at = clock
    PROVE  TimesInv' /\ Undrawn' \subseteq Undrawn /\ \A n : Untaken(n)' => Untaken(n)
  <1>0. r \in Requests /\ r \notin RotateRequests
    BY PlaneAssumption DEF Requests, Deployments, IngressRequests
  <1>1. /\ job'[r] = j /\ late'[r] = NoJob
        /\ \A q \in Requests \ {r} : pc'[q] = pc[q] /\ job'[q] = job[q] /\ late'[q] = late[q]
    BY <1>0 DEF RequestInv, JobInv, LateInv
  <1>2. \A q \in Pending' \ {r} : q \in Pending /\ RowTime(q)' = RowTime(q)
    <2> SUFFICES ASSUME NEW q \in Pending', q # r PROVE q \in Pending /\ RowTime(q)' = RowTime(q)
      OBVIOUS
    <2>1. q \in Requests \ {r}
      BY DEF Pending, Requests, Deployments, IngressRequests
    <2> QED
      BY <1>1, <2>1 DEF Pending, RowTime
  <1>3. RowTime(r)' = clock
    BY <1>1 DEF RowTime
  <1>4. Undrawn' \subseteq Undrawn
    <2> SUFFICES ASSUME NEW q \in Undrawn' PROVE q \in Undrawn
      OBVIOUS
    <2>1. q \in Requests \ {r}
      BY <1>0 DEF Undrawn, Requests, Deployments, IngressRequests
    <2> QED
      BY <1>1, <2>1 DEF Undrawn
  <1>5. clock \in Nat /\ StartTime \in Nat /\ StartTime <= clock
    BY PlaneAssumption DEF TimesInv
  <1>6. TimesInv'
    <2>1. ASSUME NEW q \in Pending'
          PROVE  RowTime(q)' \in Nat /\ StartTime <= RowTime(q)' /\ RowTime(q)' < clock'
      <3>1. CASE q = r
        BY <1>3, <1>5, <3>1
      <3>2. CASE q # r
        <4>1. RowTime(q) \in Nat /\ StartTime <= RowTime(q) /\ RowTime(q) < clock
          BY <1>2, <3>2 DEF TimesInv
        <4> QED
          BY <1>2, <1>5, <3>2, <4>1
      <3> QED
        BY <3>1, <3>2
    <2>2. ASSUME NEW p \in Pending', NEW q \in Pending', RowTime(p)' = RowTime(q)' PROVE p = q
      <3>1. \A x \in Pending' \ {r} : RowTime(x)' < clock /\ RowTime(x)' \in Nat
        BY <1>2 DEF TimesInv
      <3>2. CASE p # r /\ q # r
        BY <1>2, <2>2, <3>2 DEF TimesInv
      <3>3. CASE p = r \/ q = r
        BY <1>3, <1>5, <2>2, <3>1, <3>3
      <3> QED
        BY <3>2, <3>3
    <2>3. clock' \in Nat /\ StartTime <= clock'
      BY <1>5
    <2> QED
      BY <2>1, <2>2, <2>3 DEF TimesInv
  <1>7. ASSUME NEW n, Untaken(n)' PROVE Untaken(n)
    <2>1. CASE n = clock
      BY <1>5, <2>1 DEF Untaken
    <2>2. CASE n # clock /\ n \notin 0 .. (clock' - 1)
      BY <1>5, <2>2 DEF Untaken
    <2>3. CASE n # clock /\ \E q \in Pending' : n = RowTime(q)'
      BY <1>2, <1>3, <2>3 DEF Untaken
    <2> QED
      BY <1>7, <2>1, <2>2, <2>3 DEF Untaken
  <1> QED
    BY <1>4, <1>6, <1>7

\* A row that has been committed is never fresh again, and a device that has a route
\* keeps one.
Grows ==
    /\ Undrawn' \subseteq Undrawn /\ \A n : Untaken(n)' => Untaken(n)
    /\ \A d \in Devices : version[d] # 0 => version'[d] # 0

StampInv == VersionsInv /\ TimesInv

LEMMA StampIdle ==
    ASSUME StampInv, UNCHANGED <<pc, job, late, clock, version>>
    PROVE  StampInv' /\ Grows
  <1>1. Pending' = Pending /\ Undrawn' = Undrawn /\ \A q : RowTime(q)' = RowTime(q)
    BY DEF Pending, Undrawn, RowTime
  <1>2. VersionsInv'
    BY DEF StampInv, VersionsInv
  <1>3. TimesInv' /\ \A n : Untaken(n)' => Untaken(n)
    BY <1>1 DEF StampInv, TimesInv, Untaken
  <1> QED
    BY <1>1, <1>2, <1>3 DEF StampInv, Grows

LEMMA StageStamp ==
    ASSUME RequestInv, NEW r \in RouteRequests, Stage(r)
    PROVE  /\ UNCHANGED <<clock, version, late>> /\ r \notin AddRequests
           /\ \E s \in {"lock", "done"} : \E j : /\ pc' = [pc EXCEPT ![r] = s]
                                                 /\ job' = [job EXCEPT ![r] = j]
                                                 /\ s = "lock" => j.version # 0
  <1>1. r \in Requests /\ pc[r] = "stage" /\ Job(job[r], r)
    BY DEF Stage, Requests, Deployments, RequestInv, JobInv, Over
  <1>2. UNCHANGED <<clock, version, late>> /\ r \notin AddRequests
    BY RouteKind DEF Stage
  <1>3. CASE Answer(r, "refused") /\ UNCHANGED <<staged, job>>
    <2>1. pc' = [pc EXCEPT ![r] = "done"] /\ job' = [job EXCEPT ![r] = job[r]]
      BY <1>3 DEF Answer, RequestInv, JobInv
    <2> QED
      BY <1>2, <2>1
  <1>4. CASE ~(Answer(r, "refused") /\ UNCHANGED <<staged, job>>)
    <2> DEFINE n == version[job[r].device] + 1
               j == [job[r] EXCEPT !.version = n]
    <2>1. pc' = [pc EXCEPT ![r] = "lock"] /\ job' = [job EXCEPT ![r] = j]
      BY <1>1, <1>4 DEF Stage, RequestInv, JobInv
    <2>2. n # 0
      BY <1>1 DEF RequestInv, StoreInv, Job
    <2>3. j.version = n
      BY <1>1 DEF Job
    <2> HIDE DEF j, n
    <2> QED
      BY <1>2, <2>1, <2>2, <2>3
  <1> QED
    BY <1>3, <1>4

\* A handler that is no addition, or a refused one.
LEMMA OtherStamp ==
    ASSUME RequestInv, NEW r \in Requests, Begins(r)
    PROVE  \/ /\ UNCHANGED <<clock, version, late>> /\ pc[r] \in {"idle", "stage"}
              /\ \E s \in {"stage", "lock", "done"} : \E j :
                    /\ pc' = [pc EXCEPT ![r] = s] /\ job' = [job EXCEPT ![r] = j]
                    /\ s = "lock" => r \notin AddRequests
                    /\ s = "lock" /\ r \in RouteRequests => j.version # 0
           \/ /\ r \in AddRequests /\ pc[r] = "idle" /\ UNCHANGED <<version, late>>
              /\ clock' = clock + 1
              /\ \E j : /\ pc' = [pc EXCEPT ![r] = "lock"] /\ job' = [job EXCEPT ![r] = j]
                        /\ j.new.at = clock
  <1>1. CASE r \in RouteRequests /\ Stage(r)
    BY <1>1, StageStamp DEF Stage
  <1>2. ASSUME NEW q \in Asks[r], r \in AddRequests, AddIngress(r, q), ~Refused(r)
        PROVE  /\ r \in AddRequests /\ pc[r] = "idle" /\ UNCHANGED <<version, late>>
               /\ clock' = clock + 1
               /\ \E j : /\ pc' = [pc EXCEPT ![r] = "lock"] /\ job' = [job EXCEPT ![r] = j]
                         /\ j.new.at = clock
    <2> DEFINE n == [port |-> q.port, method |-> q.method, password |-> Given(r, q),
                     primary |-> FALSE, at |-> clock]
               p == [GetDevice(q.device) EXCEPT !.ingresses =
                        EffectiveIngresses(GetDevice(q.device)) \union {n}]
               j == [device |-> q.device, read |-> GetDevice(q.device), proposed |-> p, new |-> n,
                     version |-> 0]
    <2>1. Proposes(r, q.device, p, n, "lock") /\ clock' = clock + 1
      BY <1>2 DEF AddIngress
    <2>2. j.new.at = clock
      OBVIOUS
    <2>3. pc' = [pc EXCEPT ![r] = "lock"] /\ job' = [job EXCEPT ![r] = j]
      BY <2>1 DEF Proposes
    <2> HIDE DEF j
    <2> QED
      BY <1>2, <2>1, <2>2, <2>3 DEF AddIngress
  <1>3. ASSUME NEW q \in Asks[r], BeginsWith(r, q), r \in AddRequests => Refused(r)
        PROVE  /\ UNCHANGED <<clock, version, late>> /\ pc[r] \in {"idle", "stage"}
               /\ \E s \in {"stage", "lock", "done"} : \E j :
                     /\ pc' = [pc EXCEPT ![r] = s] /\ job' = [job EXCEPT ![r] = j]
                     /\ s = "lock" => r \notin AddRequests
                     /\ s = "lock" /\ r \in RouteRequests => j.version # 0
    <2>1. UNCHANGED <<clock, version, late>>
      BY <1>3, PlaneAssumption
         DEF BeginsWith, Create, RotateCredential, AddIngress, DeleteIngress, PutRoute, Refused, Answer
    <2>2. pc[r] \in {"idle", "stage"} /\ pc = [x \in Requests |-> pc[x]]
      BY BegunStep DEF RequestInv, JobInv
    <2>a. PICK s \in {"stage", "lock", "done"} : \E j :
             pc' = [pc EXCEPT ![r] = s] /\ job' = [job EXCEPT ![r] = j]
      BY BegunStep
    <2>3. PICK j : pc' = [pc EXCEPT ![r] = s] /\ job' = [job EXCEPT ![r] = j]
      BY <2>a
    <2>4. pc'[r] = s
      BY <2>2, <2>3
    <2>5. r \in AddRequests => pc'[r] = "done"
      BY <1>3, <2>2 DEF Refused, Answer
    <2>6. r \in RouteRequests => pc'[r] # "lock"
      <3> SUFFICES ASSUME r \in RouteRequests PROVE pc'[r] # "lock"
        OBVIOUS
      <3>1. PutRoute(r, q.device)
        BY <1>3, PlaneAssumption DEF BeginsWith, Deployments, IngressRequests
      <3> QED
        BY <2>2, <3>1 DEF PutRoute, Refused, Answer, Proposes
    <2> QED
      BY <2>1, <2>2, <2>3, <2>4, <2>5, <2>6
  <1>4. ASSUME NEW q \in Asks[r], BeginsWith(r, q), r \in AddRequests PROVE AddIngress(r, q)
    BY <1>4, PlaneAssumption DEF BeginsWith, Deployments, IngressRequests
  <1> QED
    BY <1>1, <1>2, <1>3, <1>4 DEF Begins

LEMMA BeginStamp ==
    ASSUME RequestInv, LateInv, StampInv, NEW r \in Requests, Begins(r)
    PROVE  StampInv' /\ Grows
  <1>1. pc[r] \in {"idle", "stage"} /\ late[r] = NoJob
    BY BegunStep DEF LateInv
  <1>2. VersionsInv /\ TimesInv /\ UNCHANGED <<version, late>> /\ late' = [late EXCEPT ![r] = NoJob]
    BY <1>1, OtherStamp DEF StampInv, LateInv
  <1>3. ASSUME NEW s \in {"stage", "lock", "done"}, NEW j, UNCHANGED clock,
               pc' = [pc EXCEPT ![r] = s], job' = [job EXCEPT ![r] = j],
               s = "lock" => r \notin AddRequests,
               s = "lock" /\ r \in RouteRequests => j.version # 0
        PROVE  StampInv' /\ Grows
    <2>1. pc'[r] = s /\ late'[r] = NoJob
      BY <1>1, <1>2, <1>3 DEF RequestInv, JobInv, LateInv
    <2>2. r \notin Pending'
      BY <1>3, <2>1 DEF Pending
    <2>3. r \in Undrawn' => r \in Undrawn
      BY <1>1 DEF Undrawn
    <2>4. s \notin Holding
      BY DEF Holding
    <2> QED
      BY <1>2, <1>3, <2>2, <2>3, <2>4, VersionsOne, TimesOne DEF StampInv, Grows
  <1>4. ASSUME r \in AddRequests, clock' = clock + 1, NEW j, pc' = [pc EXCEPT ![r] = "lock"],
               job' = [job EXCEPT ![r] = j], j.new.at = clock
        PROVE  StampInv' /\ Grows
    <2>1. r \notin RouteRequests
      BY <1>4, RouteKind
    <2> QED
      BY <1>1, <1>2, <1>4, <2>1, VersionsOne, TimesNew DEF StampInv, Grows
  <1> QED
    BY <1>3, <1>4, OtherStamp

\* The version of a device that a commit activates.
LEMMA CommitVersion ==
    ASSUME RequestInv, NEW r \in Deployments, NEW j, Job(j, r), CommitChange(r, j),
           r \in RouteRequests => j.version # 0
    PROVE  /\ \A d \in Devices : version[d] # 0 => version'[d] # 0
           /\ r \in RouteRequests => version'[j.device] # 0
  <1>1. CASE UNCHANGED version /\ r \notin RouteRequests
    BY <1>1
  <1>2. CASE /\ r \in RouteRequests /\ staged[j.device] = j.version
             /\ version' = [version EXCEPT ![j.device] = staged[j.device]]
    BY <1>2 DEF RequestInv, StoreInv, Job
  <1> QED
    BY <1>1, <1>2, RouteKind DEF CommitChange

LEMMA DeployStamp ==
    ASSUME RequestInv, LateInv, StampInv, NEW r \in Deployments,
           LockAndPrepare(r) \/ Commit(r) \/ Succeed(r) \/ GiveUp(r)
    PROVE  StampInv' /\ Grows
  <1>1. r \in Requests /\ pc[r] \in {"lock"} \union Holding /\ VersionsInv /\ TimesInv
    BY DEF Requests, LockAndPrepare, Commit, Succeed, GiveUp, Holding, StampInv
  <1>2. late[r] = NoJob /\ Job(job[r], r) /\ UNCHANGED clock
    BY <1>1 DEF LateInv, RequestInv, JobInv, Over, Holding, LockAndPrepare, Commit, Succeed, GiveUp
  <1>3. r \in RouteRequests => job[r].version # 0
    BY <1>1 DEF VersionsInv
  <1>v. \A d \in Devices : version[d] # 0 => version'[d] # 0
    <2>1. UNCHANGED version \/ CommitChange(r, job[r])
      BY DEF LockAndPrepare, Commit, Succeed, GiveUp
    <2> QED
      BY <1>2, <1>3, <2>1, CommitVersion
  <1>4. CASE \E st : Finish(r, st)
    <2>1. pc' = [pc EXCEPT ![r] = "done"] /\ job' = [job EXCEPT ![r] = NoJob]
      BY <1>4 DEF Finish, Answer
    <2>2. pc[r] # "update" \/ late' = late
      BY DEF LockAndPrepare, Commit, Succeed, GiveUp
    <2>3. PICK k : late' = [late EXCEPT ![r] = k] /\ (k = NoJob \/ (k = job[r] /\ pc[r] = "prepare"))
      <3>1. late' = late \/ (late' = [late EXCEPT ![r] = job[r]] /\ pc[r] = "prepare")
        BY DEF LockAndPrepare, Commit, Succeed, GiveUp
      <3>2. late' = late => late' = [late EXCEPT ![r] = NoJob]
        BY <1>1, <1>2 DEF LateInv
      <3> QED
        BY <3>1, <3>2
    <2>4. pc'[r] = "done" /\ late'[r] = k
      BY <1>1, <2>1, <2>3 DEF RequestInv, JobInv, LateInv
    <2>5. r \in Undrawn' => r \in Undrawn
      BY <2>3, <2>4 DEF Undrawn
    <2>6. r \in Pending' => r \in Pending /\ RowTime(r)' = RowTime(r)
      BY <1>2, <2>3, <2>4 DEF Pending, RowTime
    <2>7. "done" \notin {"lock"} \union Holding
      BY DEF Holding
    <2>8. TimesInv' /\ Undrawn' \subseteq Undrawn /\ \A n : Untaken(n)' => Untaken(n)
      BY <1>1, <1>2, <2>1, <2>3, <2>5, <2>6, TimesOne
    <2>9. VersionsInv'
      BY <1>1, <1>2, <1>3, <2>1, <2>3, <2>7, VersionsOne
    <2> QED
      BY <1>v, <2>8, <2>9 DEF StampInv, Grows
  <1>5. CASE ~\E st : Finish(r, st)
    <2>1. PICK s \in {"prepare", "update"} : /\ pc' = [pc EXCEPT ![r] = s]
                                             /\ UNCHANGED <<job, late>>
                                             /\ pc[r] \in {"lock", "prepare"}
      BY <1>5 DEF LockAndPrepare, Commit, Succeed, GiveUp
    <2>2. job' = [job EXCEPT ![r] = job[r]] /\ late' = [late EXCEPT ![r] = NoJob]
      BY <1>1, <1>2, <2>1 DEF RequestInv, JobInv, LateInv
    <2>3. pc'[r] = s /\ late'[r] = NoJob /\ job'[r] = job[r]
      BY <1>1, <1>2, <2>1 DEF RequestInv, JobInv, LateInv
    <2>4. r \in Undrawn' => r \in Undrawn
      BY <2>1 DEF Undrawn
    <2>5. r \in Pending' => r \in Pending /\ RowTime(r)' = RowTime(r)
      BY <1>2, <2>1, <2>3 DEF Pending, RowTime
    <2>8. pc' = [pc EXCEPT ![r] = s]
      BY <2>1
    <2>6. TimesInv' /\ Undrawn' \subseteq Undrawn /\ \A n : Untaken(n)' => Untaken(n)
      BY <1>1, <1>2, <2>2, <2>8, <2>4, <2>5, TimesOne
    <2>7. VersionsInv'
      BY <1>1, <1>2, <1>3, <2>2, <2>8, VersionsOne
    <2> QED
      BY <1>v, <2>6, <2>7 DEF StampInv, Grows
  <1> QED
    BY <1>4, <1>5

LEMMA LateStamp ==
    ASSUME RequestInv, LateInv, StampInv, NEW r \in Deployments, LateCommit(r)
    PROVE  StampInv' /\ Grows
  <1>1. /\ r \in Requests /\ late[r] # NoJob /\ pc[r] = "done" /\ VersionsInv /\ TimesInv
        /\ Job(late[r], r) /\ CommitChange(r, late[r])
        /\ UNCHANGED <<pc, job, clock>> /\ late' = [late EXCEPT ![r] = NoJob]
    BY DEF Requests, LateCommit, LateInv, StampInv
  <1>2. pc' = [pc EXCEPT ![r] = "done"] /\ job' = [job EXCEPT ![r] = job[r]]
    BY <1>1 DEF RequestInv, JobInv
  <1>3. pc'[r] = "done" /\ late'[r] = NoJob
    BY <1>1 DEF LateInv
  <1>4. r \notin Undrawn' /\ r \notin Pending' /\ "done" \notin {"lock"} \union Holding
    BY <1>3 DEF Undrawn, Pending, Holding
  <1>5. TimesInv' /\ Undrawn' \subseteq Undrawn /\ \A n : Untaken(n)' => Untaken(n)
    BY <1>1, <1>2, <1>4, TimesOne
  <1>6. VersionsInv'
    BY <1>1, <1>2, <1>4, VersionsOne
  <1>7. r \in RouteRequests => late[r].version # 0
    BY <1>1 DEF VersionsInv
  <1>8. \A d \in Devices : version[d] # 0 => version'[d] # 0
    BY <1>1, <1>7, CommitVersion
  <1> QED
    BY <1>5, <1>6, <1>8 DEF StampInv, Grows

LEMMA StampStep == PlaneInv /\ StampInv /\ [Next]_vars => StampInv' /\ Grows
  <1> SUFFICES ASSUME PlaneInv, StampInv, [Next]_vars PROVE StampInv' /\ Grows
    OBVIOUS
  <1>0. RequestInv /\ GatewayInv /\ LateInv
    BY DEF PlaneInv
  <1>1. CASE UNCHANGED vars
    BY <1>1, StampIdle DEF vars, requestVars
  <1>2. ASSUME NEW g \in Gateways, GatewayStep(g) PROVE StampInv' /\ Grows
    BY <1>2, GatewayPlane, StampIdle
  <1>3. CASE ControlPlaneRestart
    <2>1. /\ UNCHANGED <<version, late, clock>>
          /\ \A r \in Requests : pc'[r] = IF pc[r] = "idle" THEN "idle" ELSE "done"
      BY <1>3 DEF ControlPlaneRestart
    <2>2. \A r \in RotateRequests \union AddRequests \union RouteRequests : r \in Requests
      BY DEF Requests, Deployments, IngressRequests
    <2>3. Undrawn' \subseteq Undrawn
      BY <2>1, <2>2 DEF Undrawn
    <2>4. \A q \in Pending' : q \in Pending /\ late[q] # NoJob
      BY <2>1, <2>2 DEF Pending
    <2>5. \A q \in Pending' : q \in Pending /\ RowTime(q)' = RowTime(q)
      BY <2>1, <2>4 DEF RowTime
    <2>6. VersionsInv'
      BY <2>1, <2>2 DEF StampInv, VersionsInv, Holding
    <2>7. TimesInv'
      <3>1. \A q \in Pending' : /\ RowTime(q)' \in Nat /\ StartTime <= RowTime(q)'
                                /\ RowTime(q)' < clock'
        BY <2>1, <2>5 DEF StampInv, TimesInv
      <3>2. \A p, q \in Pending' : RowTime(p)' = RowTime(q)' => p = q
        BY <2>5 DEF StampInv, TimesInv
      <3> QED
        BY <2>1, <3>1, <3>2 DEF StampInv, TimesInv
    <2>8. \A n : Untaken(n)' => Untaken(n)
      BY <2>1, <2>5 DEF Untaken
    <2> QED
      BY <2>1, <2>3, <2>6, <2>7, <2>8 DEF StampInv, Grows
  <1> QED
    BY <1>0, <1>1, <1>2, <1>3, BeginStamp, DeployStamp, LateStamp, BegunCases

LEMMA QuietStep == PlaneInv /\ CarryInv /\ QuietInv /\ [Next]_vars => QuietInv'
  <1> SUFFICES ASSUME PlaneInv, CarryInv, QuietInv, [Next]_vars PROVE QuietInv'
    OBVIOUS
  <1>0. RequestInv /\ GatewayInv /\ LateInv
    BY DEF PlaneInv
  <1>1. CASE UNCHANGED <<inbox, link>>
    BY <1>1 DEF QuietInv
  <1>2. ASSUME NEW r \in Requests, Begins(r) PROVE UNCHANGED <<inbox, link>>
    BY <1>2 DEF Begins, BeginsWith, Create, RotateCredential, AddIngress, DeleteIngress, PutRoute,
                Stage, hubVars
  <1>3. ASSUME NEW r \in Deployments, LockAndPrepare(r) \/ Commit(r) \/ Succeed(r) \/ GiveUp(r)
        PROVE  QuietInv'
    <2>1. \/ UNCHANGED <<inbox, link>>
          \/ UNCHANGED link /\ \E S \in {ReadyGateways, live[r]} : \E f : Broadcast(S, f)
      BY <1>3 DEF LockAndPrepare, Commit, Succeed, GiveUp, hubVars
    <2>2. \A g \in ReadyGateways \union live[r] : link[g] = "open"
      BY DEF ReadyGateways, CarryInv, Waits, Requests
    <2> QED
      BY <1>1, <2>1, <2>2 DEF Broadcast, QuietInv
  <1>4. ASSUME NEW r \in Deployments, LateCommit(r) PROVE UNCHANGED <<inbox, link>>
    BY <1>4 DEF LateCommit, hubVars
  <1>5. ASSUME NEW g \in Gateways, GatewayStep(g) PROVE QuietInv'
    <2>1. CASE FrameStep(g)
      <3>1. inbox[g] # <<>> /\ inbox' = [inbox EXCEPT ![g] = Tail(@)] /\ UNCHANGED link
        BY <1>0, <2>1, HandledFrame DEF Handled
      <3> QED
        BY <1>0, <3>1 DEF QuietInv, GatewayInv
    <2>2. CASE (\E d \in Devices : LoadIngresses(g, d)) \/ Heartbeat(g) \/ LocalDrain(g)
      BY <1>1, <2>2 DEF LoadIngresses, Heartbeat, LocalDrain, hubVars
    <2>3. CASE Connect(g)
      BY <2>3 DEF Connect, QuietInv, CarryInv, SessionTypes
    <2>4. CASE SendSnapshot(g)
      <3>1. PICK x : inbox' = [inbox EXCEPT ![g] = x] /\ link' = [link EXCEPT ![g] = "open"]
        BY <2>4 DEF SendSnapshot
      <3> QED
        BY <1>0, <3>1 DEF QuietInv, CarryInv, SessionTypes, GatewayInv
    <2>5. CASE Disconnect(g) \/ GatewayRestart(g)
      <3>1. PICK x : inbox' = [inbox EXCEPT ![g] = <<>>] /\ link' = [link EXCEPT ![g] = x]
        BY <2>5 DEF Disconnect, GatewayRestart, EndSession
      <3> QED
        BY <1>0, <3>1 DEF QuietInv, CarryInv, SessionTypes, GatewayInv
    <2> QED
      BY <1>5, <2>1, <2>2, <2>3, <2>4, <2>5, OtherSteps
  <1>6. CASE ControlPlaneRestart
    BY <1>6 DEF ControlPlaneRestart, QuietInv
  <1> QED
    BY <1>1, <1>2, <1>3, <1>4, <1>5, <1>6, BegunCases DEF vars, hubVars

-------------------------------------------------------------------------------
(* What a commit adds *)

\* A request is not waited for any more, by its handler or by the database.
Leaves(r, j) ==
    /\ r \in RotateRequests => r \in Undrawn /\ r \notin Undrawn'
    /\ r \in AddRequests => r \in Pending /\ RowTime(r) = j.new.at
    /\ \A q \in Pending' : q \in Pending \ {r} /\ RowTime(q)' = RowTime(q)
    /\ UNCHANGED clock

LEMMA CommitLeaves ==
    ASSUME RequestInv, LateInv, NEW r \in Deployments, pc[r] = "prepare",
           pc' = [pc EXCEPT ![r] = "update"], UNCHANGED <<job, late, clock>>
    PROVE  Leaves(r, job[r])
  <1>1. r \in Requests /\ late[r] = NoJob
    BY DEF LateInv, Requests
  <1>2. pc'[r] = "update" /\ \A q \in Requests \ {r} : pc'[q] = pc[q]
    BY <1>1 DEF RequestInv, JobInv
  <1>3. ASSUME NEW q \in Pending' PROVE q \in Pending \ {r} /\ RowTime(q)' = RowTime(q)
    <2>1. q \in Requests /\ q # r
      BY <1>1, <1>2 DEF Pending, Requests, Deployments, IngressRequests
    <2> QED
      BY <1>2, <2>1 DEF Pending, RowTime
  <1> QED
    BY <1>1, <1>2, <1>3 DEF Leaves, Undrawn, Pending, RowTime

LEMMA LateLeaves ==
    ASSUME RequestInv, LateInv, NEW r \in Deployments, late[r] # NoJob,
           late' = [late EXCEPT ![r] = NoJob], UNCHANGED <<job, pc, clock>>
    PROVE  Leaves(r, late[r])
  <1>1. r \in Requests /\ pc[r] = "done"
    BY DEF LateInv, Requests
  <1>2. late'[r] = NoJob /\ \A q \in Requests \ {r} : late'[q] = late[q]
    BY <1>1 DEF LateInv
  <1>3. ASSUME NEW q \in Pending' PROVE q \in Pending \ {r} /\ RowTime(q)' = RowTime(q)
    <2>1. q \in Requests /\ q # r
      BY <1>1, <1>2 DEF Pending, Requests, Deployments, IngressRequests
    <2> QED
      BY <1>2, <2>1 DEF Pending, RowTime
  <1> QED
    BY <1>1, <1>2, <1>3 DEF Leaves, Undrawn, Pending, RowTime

\* A commit gives the device no row it has not had, but the one that is added and those
\* whose password is drawn for it.
LEMMA CommitDraws ==
    ASSUME RequestInv, NEW r \in Deployments, NEW j, Job(j, r), ProposedJob(j, r),
           device[j.device] # None, CommitChange(r, j), UNCHANGED clock,
           NEW v, v = device[j.device], NEW w, w = device'[j.device], NEW i \in w.ingresses
    PROVE  \/ Offers(v, i)
           \/ r \in RotateRequests /\ i.password.by = r /\ \E k \in v.ingresses : k.at = i.at
           \/ r \in AddRequests /\ i.password.by \notin RotateRequests /\ i.at = j.new.at
  <1>d. PICK d : d = j.device
    OBVIOUS
  <1>2. d \in Devices /\ RowsInv /\ v # None /\ v = device[d] /\ w = device'[d]
    BY <1>d DEF RequestInv, StoreInv, Job
  <1>3. v \in DeviceValues /\ MirrorsPrimary(v) /\ OwnPorts(v.ingresses)
    BY <1>2, RowsOf
  <1>4. EffectiveIngresses(v) = v.ingresses
    BY <1>3, EffectiveOfRow
  <1>8. (\E k \in v.ingresses : k.port = i.port /\ k.method = i.method
                                /\ k.password = i.password /\ k.at = i.at) => Offers(v, i)
    BY <1>4 DEF Offers
  <1>9. CASE r \in RotateRequests /\ UpdateDeviceCredential(d, j.new)
    <2>0. PICK pw : pw = j.new
      OBVIOUS
    <2>1. pw \in Passwords /\ pw.by = r
      BY <1>9, <2>0 DEF Job, ProposedJob
    <2>2. w = SetPassword(v, pw)
      BY <1>2, <1>9, <2>0 DEF UpdateDeviceCredential, RowsInv
    <2>3. w.ingresses = {Rekeyed(k, pw) : k \in v.ingresses}
      BY <1>3, <2>1, <2>2, SetPasswordFacts
    <2>4. PICK k \in v.ingresses : i = Rekeyed(k, pw)
      BY <2>3
    <2> QED
      BY <1>8, <1>9, <2>1, <2>4 DEF Rekeyed
  <1>10. CASE r \in AddRequests /\ AddDeviceIngress(d, j.new)
    <2>0. PICK n : n = j.new
      OBVIOUS
    <2>1. n \in Ingresses /\ n.password.by \notin RotateRequests
      BY <1>10, <2>0 DEF Job, ProposedJob
    <2>k. PICK k : k = AsPrimary(n, FALSE)
      OBVIOUS
    <2>3. [n EXCEPT !.primary = FALSE] = k /\ k.password = n.password /\ k.at = n.at
      BY <2>1, <2>k, AsPrimaryFacts
    <2>4. w = [v EXCEPT !.ingresses = v.ingresses \union {k}]
      BY <1>2, <1>3, <1>10, <2>0, <2>3 DEF AddDeviceIngress, RowsInv
    <2>5. w.ingresses = v.ingresses \union {k}
      BY <1>3, <2>4 DEF DeviceValues
    <2> QED
      BY <1>8, <1>10, <2>0, <2>1, <2>3, <2>5
  <1>11. CASE r \in DeleteRequests /\ DeleteDeviceIngress(d, j.new)
    <2> DEFINE p == j.new
               R == {k \in v.ingresses : k.port # p}
               n == Oldest(R)
    <2>1. Cardinality(v.ingresses) \notin {0, 1}
      BY <1>2, <1>11 DEF DeleteDeviceIngress, DeleteConflicts
    <2>2. w = WithoutPort(v, p)
      BY <1>2, <1>11 DEF DeleteDeviceIngress, RowsInv
    <2> HIDE DEF p
    <2>3. R \in SUBSET Ingresses /\ OwnPorts(R)
      BY <1>3 DEF DeviceValues, OwnPorts
    <2>4. R # {}
      BY <1>3, <2>1, SomeAreLeft DEF DeviceValues
    <2>5. n \in R
      BY <2>3, <2>4, OldestIsOne
    <2>6. /\ [n EXCEPT !.primary = TRUE] = AsPrimary(n, TRUE)
          /\ AsPrimary(n, TRUE).port = n.port /\ AsPrimary(n, TRUE).method = n.method
          /\ AsPrimary(n, TRUE).password = n.password /\ AsPrimary(n, TRUE).at = n.at
      BY <2>3, <2>5, AsPrimaryFacts
    <2>7. w = Promote(v, R) \/ w = [v EXCEPT !.ingresses = R]
      BY <2>2 DEF WithoutPort
    <2>8. Promote(v, R) = [v EXCEPT !.port = n.port, !.method = n.method, !.password = n.password,
                                    !.ingresses = (R \ {n}) \union {AsPrimary(n, TRUE)}]
      BY <2>6 DEF Promote
    <2>9. R \subseteq v.ingresses
      OBVIOUS
    <2> HIDE DEF n, R
    <2>10. w.ingresses = R \/ w.ingresses = (R \ {n}) \union {AsPrimary(n, TRUE)}
      BY <1>3, <2>7, <2>8 DEF DeviceValues
    <2>11. CASE i \in R
      BY <1>8, <2>9, <2>11
    <2>12. CASE i = AsPrimary(n, TRUE)
      <3>1. /\ n.port = i.port /\ n.method = i.method /\ n.password = i.password /\ n.at = i.at
            /\ n \in v.ingresses
        BY <2>5, <2>6, <2>9, <2>12
      <3> QED
        BY <1>8, <3>1
    <2> QED
      BY <2>10, <2>11, <2>12
  <1>12. CASE r \in RouteRequests /\ UNCHANGED device
    BY <1>2, <1>8, <1>12
  <1> QED
    BY <1>d, <1>9, <1>10, <1>11, <1>12 DEF CommitChange

\* What was fresh is drawn.
LEMMA CommitFresh ==
    ASSUME RequestInv, TimesInv, Grows, NEW r \in Deployments, NEW j, Job(j, r), ProposedJob(j, r),
           device[j.device] # None, Drawn(device[j.device]), CommitChange(r, j), Leaves(r, j),
           NEW d, d = j.device
    PROVE  /\ Drawn(device[d])'
           /\ \A i \in EffectiveIngresses(device'[d]) : Offers(device[d], i) \/ Fresh(i)
  <1>v. PICK v : v = device[d]
    OBVIOUS
  <1>w. PICK w : w = device'[d]
    OBVIOUS
  <1>1. d \in Devices /\ UNCHANGED clock
    BY DEF Job, Leaves
  <1>2. device'[d] # None /\ RowsInv'
    BY <1>1, CommitKeepsStore DEF DevicesStay, StoreInv, RequestInv
  <1>3. MirrorsPrimary(w)
    BY <1>1, <1>2, <1>w DEF RowsInv, DeviceRowsConsistent
  <1>4. EffectiveIngresses(w) = w.ingresses
    BY <1>3, EffectiveOfRow
  <1>5. Drawn(v)
    BY <1>v
  <1>6. ASSUME NEW i \in w.ingresses PROVE ~Fresh(i)' /\ (Offers(v, i) \/ Fresh(i))
    <2>1. CASE Offers(v, i)
      <3>1. ~Fresh(i)
        BY <1>5, <2>1, DrawnOffers
      <3> QED
        BY <2>1, <3>1 DEF Fresh, Grows
    <2>2. CASE r \in RotateRequests /\ i.password.by = r /\ \E k \in v.ingresses : k.at = i.at
      <3>1. ~Untaken(i.at)
        BY <1>5, <2>2 DEF Drawn, Fresh
      <3> QED
        BY <2>2, <3>1 DEF Fresh, Grows, Leaves
    <2>3. CASE r \in AddRequests /\ i.password.by \notin RotateRequests /\ i.at = j.new.at
      <3>1. r \in Pending /\ RowTime(r) = i.at
        BY <2>3 DEF Leaves
      <3>2. Untaken(i.at)
        BY <3>1 DEF Untaken
      <3>3. \A q \in Pending' : RowTime(q)' # i.at
        BY <3>1 DEF Leaves, TimesInv
      <3>4. i.at \in 0 .. (clock' - 1)
        BY <1>1, <3>1 DEF TimesInv
      <3>5. ~Untaken(i.at)'
        BY <3>3, <3>4 DEF Untaken
      <3> QED
        BY <2>3, <3>2, <3>5 DEF Fresh, Undrawn
    <2> QED
      BY <1>1, <1>v, <1>w, <2>1, <2>2, <2>3, CommitDraws
  <1>7. w.port # 0 => w.password.by \notin Undrawn'
    BY <1>3, <1>6 DEF MirrorsPrimary, Primaries, Fresh
  <1>8. Drawn(w)'
    BY <1>6, <1>7 DEF Drawn
  <1>9. Drawn(device[d])'
    BY <1>8, <1>w DEF Drawn
  <1> QED
    BY <1>4, <1>6, <1>9, <1>v, <1>w

-------------------------------------------------------------------------------
(* What the gateways have and are to receive *)

LEMMA KnownStays ==
    ASSUME Grows
    PROVE  /\ \A v : Drawn(v) => Drawn(v)'
           /\ \A d \in Devices : \A rt : Known(d, rt) => Known(d, rt)'
BY DEF Grows, Drawn, Fresh, Known

LEMMA KnownFrameStays ==
    ASSUME Grows, NEW f \in Frames, KnownFrame(f)
    PROVE  KnownFrame(f)'
BY KnownStays, KindsOfFrame DEF KnownFrame, Grows, UpdateTypes

LEMMA KnownPrepare ==
    ASSUME NEW f, f.type \in PrepareTypes, NEW d, NEW v, NEW w
    PROVE  KnownFrame(f)' /\ KeepsFrame(f, d, v, w)
BY DEF KnownFrame, KeepsFrame, PrepareTypes, UpdateTypes

\* The first frame on the way, as the next state has it.
LEMMA FrameKnown ==
    ASSUME NEW g, NEW f, inbox'[g][1] = f, KnownFrame(f)'
    PROVE  KnownFrame(inbox[g][1])'
BY DEF KnownFrame, Known, Drawn

LEMMA RouteKnown ==
    ASSUME NEW d, NEW g, NEW rt, Known(d, rt)'
    PROVE  /\ table'[g][d] = rt => Known(d, table[g][d])'
           /\ file'[g][d] = rt => Known(d, file[g][d])'
           /\ snapshot'[g].table[d] = rt => Known(d, snapshot[g].table[d])'
BY DEF Known, Drawn

LEMMA DeviceKnown ==
    ASSUME Grows, SoundInv, NEW d \in Devices, device[d] # None, device'[d] = device[d]
    PROVE  Drawn(device[d])'
  <1>1. Drawn(device[d]) /\ \A v : Drawn(v) => Drawn(v)'
    BY KnownStays DEF SoundInv
  <1> QED
    BY <1>1 DEF Drawn

\* A gateway's device has a row.
LEMMA TableDevice ==
    ASSUME RequestInv, NEW g, Sound(g), NEW d \in Devices, table[g][d] # None
    PROVE  version[d] # 0 /\ device[d] # None
BY DEF Sound, Known, RequestInv, StoreInv

\* A gateway whose table and file stay as they are: the first frame on the way and what
\* is read for it may be new.
LEMMA SoundKept ==
    ASSUME GatewayInv, Grows, NEW g \in Gateways, Sound(g), table'[g] = table[g], file'[g] = file[g],
           \A d \in Devices : table[g][d] # None =>
               \A u : Keeps(u, device[d], table[g][d].dev) => Keeps(u, device'[d], table[g][d].dev),
           inbox'[g] # <<>> =>
               \/ inbox[g] # <<>> /\ inbox'[g][1] = inbox[g][1]
               \/ /\ KnownFrame(inbox[g][1])'
                  /\ \A d \in Devices : table[g][d] # None =>
                        KeepsFrame(inbox'[g][1], d, device'[d], table[g][d].dev),
           link'[g] = "reading" =>
               \/ link[g] = "reading" /\ snapshot'[g] = snapshot[g]
               \/ /\ \A d \in Devices : Known(d, snapshot[g].table[d])'
                  /\ \A d \in Devices : table[g][d] # None =>
                        KeepsRead(snapshot'[g], d, device'[d], table[g][d].dev)
    PROVE  Sound(g)'
  <1>1. ASSUME NEW d \in Devices
        PROVE  Known(d, table[g][d])' /\ (file'[g] # None => Known(d, file[g][d])')
    <2>1. Known(d, table[g][d]) /\ (file[g] # None => Known(d, file[g][d]))
      BY DEF Sound
    <2>2. \A rt : Known(d, rt) => Known(d, rt)'
      BY KnownStays
    <2> QED
      BY <2>1, <2>2, RouteKnown
  <1>2. inbox'[g] # <<>> => KnownFrame(inbox[g][1])'
    <2>1. CASE inbox[g] # <<>> /\ inbox'[g][1] = inbox[g][1]
      <3>1. inbox[g][1] \in Frames /\ KnownFrame(inbox[g][1])
        BY <2>1, InboxLen, InboxFrame DEF Sound
      <3> QED
        BY <2>1, <3>1, KnownFrameStays, FrameKnown
    <2>2. CASE ~(inbox[g] # <<>> /\ inbox'[g][1] = inbox[g][1])
      BY <2>2
    <2> QED
      BY <2>1, <2>2
  <1>3. link'[g] = "reading" => \A d \in Devices : Known(d, snapshot[g].table[d])'
    <2>1. CASE link[g] = "reading" /\ snapshot'[g] = snapshot[g]
      <3>1. ASSUME NEW d \in Devices PROVE Known(d, snapshot[g].table[d])'
        <4>1. Known(d, snapshot[g].table[d])
          BY <2>1 DEF Sound
        <4>2. \A rt : Known(d, rt) => Known(d, rt)'
          BY KnownStays
        <4> QED
          BY <2>1, <4>1, <4>2, RouteKnown
      <3> QED
        BY <3>1
    <2>2. CASE ~(link[g] = "reading" /\ snapshot'[g] = snapshot[g])
      BY <2>2
    <2> QED
      BY <2>1, <2>2
  <1>4. ASSUME NEW d \in Devices, table'[g][d] # None
        PROVE  /\ inbox'[g] # <<>> => KeepsFrame(inbox'[g][1], d, device'[d], table'[g][d].dev)
               /\ link'[g] = "reading" => KeepsRead(snapshot'[g], d, device'[d], table'[g][d].dev)
    <2>0. table[g][d] # None /\ table'[g][d] = table[g][d]
      BY <1>4
    <2>1. \A u : Keeps(u, device[d], table[g][d].dev) => Keeps(u, device'[d], table[g][d].dev)
      BY <2>0
    <2>2. inbox'[g] # <<>> => KeepsFrame(inbox'[g][1], d, device'[d], table'[g][d].dev)
      <3>1. CASE inbox[g] # <<>> /\ inbox'[g][1] = inbox[g][1]
        <4>1. KeepsFrame(inbox[g][1], d, device[d], table[g][d].dev)
          BY <2>0, <3>1 DEF Sound
        <4> QED
          BY <2>0, <2>1, <3>1, <4>1 DEF KeepsFrame
      <3>2. CASE ~(inbox[g] # <<>> /\ inbox'[g][1] = inbox[g][1])
        BY <2>0, <3>2
      <3> QED
        BY <3>1, <3>2
    <2>3. link'[g] = "reading" => KeepsRead(snapshot'[g], d, device'[d], table'[g][d].dev)
      <3>1. CASE link[g] = "reading" /\ snapshot'[g] = snapshot[g]
        <4>1. KeepsRead(snapshot[g], d, device[d], table[g][d].dev)
          BY <2>0, <3>1 DEF Sound
        <4> QED
          BY <2>0, <2>1, <3>1, <4>1 DEF KeepsRead
      <3>2. CASE ~(link[g] = "reading" /\ snapshot'[g] = snapshot[g])
        BY <2>0, <3>2
      <3> QED
        BY <3>1, <3>2
    <2> QED
      BY <2>2, <2>3
  <1> QED
    BY <1>1, <1>2, <1>3, <1>4 DEF Sound

\* A step of one request that commits nothing and sends no update, or of nobody.
LEMMA SoundOne ==
    ASSUME RequestInv, GatewayInv, SoundInv, Grows, UNCHANGED <<table, file>>,
           \A d \in Devices : device[d] # None => device'[d] = device[d],
           \A d \in Devices : device[d] = None /\ device'[d] # None => Drawn(device[d])',
           \A g \in Gateways : link'[g] = "reading" => link[g] = "reading" /\ snapshot'[g] = snapshot[g],
           \A g \in Gateways : inbox'[g] # <<>> =>
               \/ inbox[g] # <<>> /\ inbox'[g][1] = inbox[g][1]
               \/ inbox'[g][1].type \in PrepareTypes
    PROVE  SoundInv'
  <1>1. \A d \in Devices : device'[d] # None => Drawn(device[d])'
    BY DeviceKnown
  <1>2. ASSUME NEW g \in Gateways PROVE Sound(g)'
    <2>1. Sound(g)
      BY DEF SoundInv
    <2>2. \A d \in Devices : table[g][d] # None => device'[d] = device[d]
      BY <2>1, TableDevice
    <2>3. inbox'[g][1].type \in PrepareTypes => KnownFrame(inbox[g][1])'
      BY KnownPrepare, FrameKnown
    <2>4. inbox'[g][1].type \in PrepareTypes =>
             \A d, v, w : KeepsFrame(inbox'[g][1], d, v, w)
      BY DEF KeepsFrame, PrepareTypes, UpdateTypes
    <2> QED
      BY <2>1, <2>2, <2>3, <2>4, SoundKept
  <1> QED
    BY <1>1, <1>2 DEF SoundInv

\* A commit, at once or late.
LEMMA SoundCommit ==
    ASSUME RequestInv, GatewayInv, TimesInv, SoundInv, Grows, NEW r \in Deployments, NEW j,
           Job(j, r), ProposedJob(j, r), device[j.device] # None, CommitChange(r, j), Leaves(r, j),
           UNCHANGED <<table, file, link, snapshot>>, NEW d, d = j.device,
           NEW fr, \A g \in Gateways : inbox'[g] = inbox[g] \/ inbox'[g] = <<fr>>,
           \/ UNCHANGED inbox
           \/ /\ fr.type \in UpdateTypes /\ fr.device = d /\ fr.route.dev = device'[d]
              /\ fr.type = "ACTIVATE" => version'[d] # 0
    PROVE  SoundInv'
  <1>1. d \in Devices /\ Drawn(device[d]) /\ UNCHANGED clock
    BY DEF Job, SoundInv, Leaves
  <1>2. /\ Drawn(device[d])'
        /\ \A i \in EffectiveIngresses(device'[d]) : Offers(device[d], i) \/ Fresh(i)
    BY <1>1, CommitFresh
  <1>3. \A e \in Devices \ {d} : device'[e] = device[e]
    BY <1>1, CommitAsProposed
  <1>4. ASSUME NEW e \in Devices, device'[e] # None PROVE Drawn(device[e])'
    BY <1>2, <1>3, <1>4, DeviceKnown
  <1>5. ASSUME NEW g \in Gateways PROVE Sound(g)'
    <2>1. Sound(g)
      BY DEF SoundInv
    <2>2. ASSUME NEW e \in Devices, table[g][e] # None, NEW u, Keeps(u, device[e], table[g][e].dev)
          PROVE  Keeps(u, device'[e], table[g][e].dev)
      <3>1. CASE e # d
        BY <1>3, <2>2, <3>1
      <3>2. CASE e = d
        <4>1. Drawn(table[g][e].dev)
          BY <2>1, <2>2 DEF Sound, Known
        <4>2. \A i \in EffectiveIngresses(device'[e]) :
                 Offers(device[e], i) \/ ~Offers(table[g][e].dev, i)
          BY <1>2, <3>2, <4>1, DrawnOffers
        <4> QED
          BY <2>2, <4>2, KeepsChanged
      <3> QED
        BY <3>1, <3>2
    <2>3. CASE inbox'[g] = inbox[g]
      BY <2>1, <2>2, <2>3, SoundKept
    <2>4. CASE inbox'[g] = <<fr>> /\ inbox'[g] # inbox[g]
      <3>1. /\ inbox'[g][1] = fr /\ fr.type \in UpdateTypes /\ fr.device = d
            /\ fr.route.dev = device'[d] /\ (fr.type = "ACTIVATE" => version'[d] # 0)
        BY <2>4
      <3>2. KnownFrame(fr)'
        BY <1>2, <3>1 DEF KnownFrame, Drawn, UpdateTypes
      <3>3. KnownFrame(inbox[g][1])'
        BY <3>1, <3>2, FrameKnown
      <3>4. \A w : Keeps(device'[d], device'[d], w)
        BY OffersAll DEF Keeps
      <3>5. \A e \in Devices : \A w : KeepsFrame(inbox'[g][1], e, device'[e], w)
        BY <3>1, <3>4 DEF KeepsFrame, UpdateTypes
      <3> QED
        BY <2>1, <2>2, <3>3, <3>5, SoundKept
    <2> QED
      BY <2>3, <2>4
  <1> QED
    BY <1>4, <1>5 DEF SoundInv

LEMMA BegunDrawn ==
    ASSUME RequestInv, TimesInv', NEW r \in Requests, Begins(r)
    PROVE  \A e \in Devices : device[e] = None /\ device'[e] # None => Drawn(device[e])'
  <1> SUFFICES ASSUME NEW e \in Devices, device[e] = None, device'[e] # None PROVE Drawn(device[e])'
    OBVIOUS
  <1>1. PICK q \in Asks[r] : r \in CreateRequests /\ Create(r, q)
    BY DEF Begins, BeginsWith, RotateCredential, AddIngress, DeleteIngress, PutRoute, Stage
  <1>2. Given(r, q).by \notin RotateRequests
    BY <1>1, GivenBy, PlaneAssumption DEF Deployments, IngressRequests
  <1>p. PICK pw : pw = Given(r, q)
    OBVIOUS
  <1> DEFINE v == [port |-> q.port, method |-> q.method, password |-> pw, ingresses |-> {}]
             w == [v EXCEPT !.ingresses = EffectiveIngresses(v)]
  <1>3. device' = [device EXCEPT ![q.device] = w]
    BY <1>1, <1>p DEF Create, CreateDevice
  <1>4. device'[e] = w
    BY <1>3 DEF RequestInv, StoreInv, RowsInv
  <1>5. w.password = pw /\ w.ingresses = EffectiveIngresses(v)
    OBVIOUS
  <1>6. \A i \in EffectiveIngresses(v) : i.password = pw /\ i.at = 0
    BY DEF EffectiveIngresses
  <1> HIDE DEF w, v
  <1>7. ~Untaken(0)'
    <2>1. clock' \in Nat /\ StartTime <= clock' /\ StartTime \in Nat \ {0}
      BY PlaneAssumption DEF TimesInv
    <2>2. \A x \in Pending' : RowTime(x)' \in Nat /\ StartTime <= RowTime(x)'
      BY DEF TimesInv
    <2>3. ASSUME NEW x \in Pending' PROVE RowTime(x)' # 0
      <3>1. PICK n : n = RowTime(x)'
        OBVIOUS
      <3>2. n \in Nat /\ StartTime <= n
        BY <2>2, <3>1
      <3> QED
        BY <2>1, <3>1, <3>2
    <2>4. PICK c : c = clock'
      OBVIOUS
    <2>5. 0 \in 0 .. (c - 1)
      <3>1. c \in Nat /\ StartTime <= c /\ StartTime \in Nat /\ StartTime # 0
        BY <2>1, <2>4
      <3>2. c >= 1
        BY <3>1
      <3> QED
        BY <3>1, <3>2
    <2> QED
      BY <2>3, <2>4, <2>5 DEF Untaken
  <1>8. pw.by \notin Undrawn'
    BY <1>2, <1>p DEF Undrawn
  <1>9. \A i \in w.ingresses : ~Fresh(i)'
    BY <1>5, <1>6, <1>7, <1>8 DEF Fresh
  <1> QED
    BY <1>4, <1>5, <1>8, <1>9 DEF Drawn

LEMMA BeginSound ==
    ASSUME RequestInv, GatewayInv, SoundInv, Grows, TimesInv', NEW r \in Requests, Begins(r)
    PROVE  SoundInv'
  <1>1. UNCHANGED <<table, file, inbox, link, snapshot>>
    BY DEF Begins, BeginsWith, Create, RotateCredential, AddIngress, DeleteIngress, PutRoute, Stage,
           ingressVars, hubVars
  <1> QED
    BY <1>1, BegunDevices, BegunDrawn, SoundOne

LEMMA LockSound ==
    ASSUME RequestInv, GatewayInv, SoundInv, Grows, NEW r \in Deployments, LockAndPrepare(r)
    PROVE  SoundInv'
  <1>1. pc[r] = "lock" /\ UNCHANGED <<device, table, file, link, snapshot>>
    BY DEF LockAndPrepare, ingressVars
  <1>2. CASE UNCHANGED inbox
    BY <1>1, <1>2, SoundOne
  <1>3. CASE ~UNCHANGED inbox
    <2> DEFINE S == ReadyGateways
               fr == Frame(PrepareType(r), r)
    <2>1. Broadcast(S, fr)
      BY <1>3 DEF LockAndPrepare
    <2>2. fr \in Frames /\ fr.type \in PrepareTypes
      BY <1>1, FrameTyped DEF PrepareType, Over, Frame, PrepareTypes
    <2> HIDE DEF S, fr
    <2>3. ASSUME NEW g \in Gateways
          PROVE  inbox'[g] # <<>> => \/ inbox[g] # <<>> /\ inbox'[g][1] = inbox[g][1]
                                     \/ inbox'[g][1].type \in PrepareTypes
      <3>1. inbox'[g] = IF g \in S THEN Append(inbox[g], fr) ELSE inbox[g]
        BY <2>1 DEF Broadcast
      <3> QED
        BY <2>2, <3>1, AppendedHead
    <2> QED
      BY <1>1, <2>3, SoundOne
  <1> QED
    BY <1>2, <1>3

LEMMA CommitSound ==
    ASSUME RequestInv, GatewayInv, LateInv, CarryInv, ProposedInv, LastInv, StampInv, SoundInv,
           Grows, stale' = {}, NEW r \in Deployments, Commit(r)
    PROVE  SoundInv'
  <1>d. PICK d : d = job[r].device
    OBVIOUS
  <1>f. PICK fr : fr = Frame(UpdateType(r), r)
    OBVIOUS
  <1>1. /\ r \in Requests /\ pc[r] = "prepare" /\ AllAcked(r)
        /\ UNCHANGED <<table, file, link, snapshot, clock>>
    BY DEF Requests, Commit, ingressVars
  <1>2. CASE UNCHANGED <<inbox, device>>
    BY <1>1, <1>2, SoundOne
  <1>3. CASE /\ CommitChange(r, job[r]) /\ pc' = [pc EXCEPT ![r] = "update"]
             /\ Broadcast(live[r], fr) /\ UNCHANGED <<job, late>>
    <2>1. Job(job[r], r) /\ device[job[r].device] # None /\ ProposedJob(job[r], r)
      BY <1>1 DEF RequestInv, JobInv, ProposedInv, Over
    <2>2. Leaves(r, job[r])
      BY <1>1, <1>3, CommitLeaves
    <2>3. device'[d] = job[r].proposed
      BY <1>1, <1>3, <1>d, <2>1, CommitEffect
    <2>4. r \in RouteRequests => version'[d] # 0
      BY <1>1, <1>3, <1>d, <2>1, CommitVersion DEF StampInv, VersionsInv, Holding
    <2>5. /\ fr \in Frames /\ fr.type \in UpdateTypes /\ fr.device = d
          /\ fr.route.dev = job[r].proposed /\ (fr.type = "ACTIVATE" => r \in RouteRequests)
      BY <1>1, <1>d, <1>f, FrameTyped DEF UpdateType, Over, Frame, UpdateTypes
    <2>6. ASSUME NEW g \in Gateways
          PROVE  inbox'[g] = inbox[g] \/ inbox'[g] = <<fr>>
      <3>1. CASE g \in live[r]
        <4>1. acks[r][g] = "ok" /\ Acked(r, g)
          BY <1>1, <3>1 DEF AllAcked, CarryInv, Waits
        <4>2. inbox[g] = <<>>
          BY <4>1 DEF Acked
        <4> QED
          BY <1>3, <2>5, <3>1, <4>2, AppendedHead DEF Broadcast
      <3>2. CASE g \notin live[r]
        BY <1>3, <3>2 DEF Broadcast
      <3> QED
        BY <3>1, <3>2
    <2>7. TimesInv
      BY DEF StampInv
    <2> QED
      BY <1>1, <1>3, <1>d, <2>1, <2>2, <2>3, <2>4, <2>5, <2>6, <2>7, SoundCommit
  <1> QED
    BY <1>f, <1>2, <1>3 DEF Commit

LEMMA LateSound ==
    ASSUME RequestInv, GatewayInv, LateInv, ProposedInv, StampInv, SoundInv, Grows,
           NEW r \in Deployments, LateCommit(r)
    PROVE  SoundInv'
  <1>1. /\ r \in Requests /\ Job(late[r], r) /\ ProposedJob(late[r], r)
        /\ device[late[r].device] # None /\ CommitChange(r, late[r])
    BY LateFacts
  <1>2. /\ UNCHANGED <<table, file, link, snapshot, inbox, pc, job, clock>>
        /\ late[r] # NoJob /\ late' = [late EXCEPT ![r] = NoJob]
    BY DEF LateCommit, ingressVars, hubVars
  <1>3. Leaves(r, late[r])
    BY <1>2, LateLeaves
  <1>4. TimesInv /\ \A g \in Gateways : inbox'[g] = inbox[g]
    BY <1>2 DEF StampInv
  <1>j. PICK j : j = late[r]
    OBVIOUS
  <1>d. PICK d : d = j.device
    OBVIOUS
  <1>5. /\ Job(j, r) /\ ProposedJob(j, r) /\ device[j.device] # None /\ CommitChange(r, j)
        /\ Leaves(r, j)
    BY <1>1, <1>3, <1>j
  <1> QED
    BY <1>2, <1>4, <1>5, <1>d, SoundCommit

-------------------------------------------------------------------------------
(* The steps of the gateways *)

\* The step of one gateway.
LEMMA SoundSession ==
    ASSUME GatewayInv, SoundInv, Grows, UNCHANGED device, NEW g \in Gateways,
           \A h \in Gateways \ {g} :
               /\ table'[h] = table[h] /\ file'[h] = file[h] /\ inbox'[h] = inbox[h]
               /\ link'[h] = link[h] /\ snapshot'[h] = snapshot[h],
           Sound(g)'
    PROVE  SoundInv'
  <1>1. \A d \in Devices : device'[d] # None => Drawn(device[d])'
    BY DeviceKnown
  <1>2. ASSUME NEW h \in Gateways PROVE Sound(h)'
    <2>1. CASE h = g
      BY <2>1
    <2>2. CASE h # g
      <3>1. Sound(h)
        BY DEF SoundInv
      <3> QED
        BY <2>2, <3>1, SoundKept
    <2> QED
      BY <2>1, <2>2
  <1> QED
    BY <1>1, <1>2 DEF SoundInv

\* What the first frame makes of a gateway's route.
LEMMA NewRoute ==
    ASSUME GatewayInv, CarryInv, NEW g \in Gateways, inbox[g] # <<>>, NEW f, f = inbox[g][1],
           NEW t, t = NewTable(g), NEW d \in Devices
    PROVE  \/ f.type = "SNAPSHOT" /\ t[d] = f.table[d]
           \/ f.type = "ACTIVATE" /\ f.device = d /\ t[d] = f.route /\ f.route # None
           \/ /\ f.type = "DEVICE_UPDATE" /\ f.device = d /\ table[g][d] # None
              /\ t[d] # None /\ t[d].dev = f.route.dev
           \/ f.type # "SNAPSHOT" /\ t[d] = table[g][d] /\ (f.type \in UpdateTypes => f.device # d)
           \/ f.type = "DEVICE_UPDATE" /\ t[d] = table[g][d] /\ table[g][d] = None
  <1>1. f = Head(inbox[g]) /\ f \in Frames
    BY InboxLen, InboxFrame
  <1>2. table[g] \in Tables /\ prepared[g] \in Tables
    BY DEF GatewayInv
  <1>3. CASE f.type = "SNAPSHOT"
    BY <1>1, <1>3 DEF NewTable
  <1>4. CASE f.type = "ACTIVATE"
    <2>1. t = [table[g] EXCEPT ![f.device] = f.route]
      BY <1>1, <1>4 DEF NewTable, ActivatePrepared, Activates, CarryInv
    <2>2. f.route # None
      BY <1>1, <1>4, KindsOfFrame, TableAssumption
    <2>3. CASE d = f.device
      BY <1>2, <1>4, <2>1, <2>2, <2>3 DEF Tables
    <2>4. CASE d # f.device
      BY <1>2, <1>4, <2>1, <2>4 DEF Tables
    <2> QED
      BY <2>3, <2>4
  <1>5. CASE f.type = "DEVICE_UPDATE"
    <2>1. t = UpdateDevice(g, f.device, f.route.dev)
      BY <1>1, <1>5 DEF NewTable
    <2>2. f.device \in Devices /\ f.route.dev \in DeviceValues
      BY <1>1, <1>5, KindsOfFrame DEF TableRoutes
    <2>3. CASE d # f.device
      BY <1>2, <1>5, <2>1, <2>2, <2>3 DEF UpdateDevice, Tables
    <2>4. CASE d = f.device /\ table[g][d] = None
      BY <1>5, <2>1, <2>4 DEF UpdateDevice
    <2>5. CASE d = f.device /\ table[g][d] # None
      <3>1. t = [table[g] EXCEPT ![d].dev = f.route.dev] /\ table[g][d] \in TableRoutes
        BY <1>2, <2>1, <2>5 DEF UpdateDevice, Tables
      <3>2. t[d] \in TableRoutes /\ t[d].dev = f.route.dev
        BY <1>2, <2>2, <3>1 DEF Tables, TableRoutes
      <3> QED
        BY <1>5, <2>5, <3>2, TableAssumption
    <2> QED
      BY <2>3, <2>4, <2>5
  <1>6. CASE f.type \in PrepareTypes
    BY <1>1, <1>6 DEF NewTable, PrepareTypes, UpdateTypes
  <1> QED
    BY <1>1, <1>3, <1>4, <1>5, <1>6, KindsOfFrame DEF UpdateTypes

LEMMA NewTableKnown ==
    ASSUME GatewayInv, CarryInv, NEW g \in Gateways, Sound(g), inbox[g] # <<>>,
           NEW t, t = NewTable(g), NEW d \in Devices
    PROVE  Known(d, t[d])
  <1>1. PICK f : f = inbox[g][1]
    OBVIOUS
  <1>2. KnownFrame(f) /\ Known(d, table[g][d])
    BY <1>1 DEF Sound
  <1>3. CASE f.type = "SNAPSHOT" /\ t[d] = f.table[d]
    BY <1>2, <1>3 DEF KnownFrame
  <1>4. CASE f.type = "ACTIVATE" /\ f.device = d /\ t[d] = f.route
    BY <1>2, <1>4 DEF KnownFrame, Known, UpdateTypes
  <1>5. CASE f.type = "DEVICE_UPDATE" /\ table[g][d] # None /\ t[d].dev = f.route.dev
    BY <1>2, <1>5 DEF KnownFrame, Known, UpdateTypes
  <1>6. CASE t[d] = table[g][d]
    BY <1>2, <1>6
  <1> QED
    BY <1>1, <1>3, <1>4, <1>5, <1>6, NewRoute

\* The first frame on the way leaves the rows that the device has in the table.
LEMMA NewTableKeeps ==
    ASSUME GatewayInv, CarryInv, NEW g \in Gateways, Sound(g), inbox[g] # <<>>,
           NEW t, t = NewTable(g), NEW d \in Devices, table[g][d] # None,
           NEW i \in EffectiveIngresses(device[d]), Offers(table[g][d].dev, i)
    PROVE  t[d] # None /\ Offers(t[d].dev, i)
  <1>1. PICK f : f = inbox[g][1]
    OBVIOUS
  <1>2. KeepsFrame(f, d, device[d], table[g][d].dev)
    BY <1>1 DEF Sound
  <1>3. CASE f.type = "SNAPSHOT" /\ t[d] = f.table[d]
    BY <1>2, <1>3 DEF KeepsFrame, Keeps
  <1>4. CASE f.type = "ACTIVATE" /\ f.device = d /\ t[d] = f.route /\ f.route # None
    BY <1>2, <1>4 DEF KeepsFrame, Keeps, UpdateTypes
  <1>5. CASE f.type = "DEVICE_UPDATE" /\ f.device = d /\ t[d] # None /\ t[d].dev = f.route.dev
    BY <1>2, <1>5 DEF KeepsFrame, Keeps, UpdateTypes
  <1>6. CASE t[d] = table[g][d]
    BY <1>6
  <1> QED
    BY <1>1, <1>3, <1>4, <1>5, <1>6, NewRoute

LEMMA FrameSound ==
    ASSUME GatewayInv, CarryInv, QuietInv, SoundInv, Grows, NEW g \in Gateways, NEW res,
           Handled(g, res)
    PROVE  SoundInv'
  <1>1. /\ inbox[g] # <<>> /\ inbox' = [inbox EXCEPT ![g] = Tail(@)]
        /\ device' = device /\ link' = link /\ snapshot' = snapshot
        /\ \A h \in Gateways \ {g} : table'[h] = table[h] /\ file'[h] = file[h]
        /\ table'[g] \in {table[g], NewTable(g)} /\ file'[g] \in {file[g], NewTable(g)}
    BY DEF Handled
  <1>2. inbox'[g] = Tail(inbox[g]) /\ \A h \in Gateways \ {g} : inbox'[h] = inbox[h]
    BY <1>1 DEF GatewayInv
  <1>s. Sound(g) /\ link'[g] # "reading"
    BY <1>1 DEF SoundInv, QuietInv
  <1>3. ASSUME NEW d \in Devices
        PROVE  Known(d, table[g][d])' /\ (file'[g] # None => Known(d, file[g][d])')
    <2>1. PICK t : t = NewTable(g)
      OBVIOUS
    <2>2. Known(d, t[d]) /\ Known(d, table[g][d]) /\ (file[g] # None => Known(d, file[g][d]))
      BY <1>1, <1>s, <2>1, NewTableKnown DEF Sound
    <2>3. \A rt : Known(d, rt) => Known(d, rt)'
      BY KnownStays
    <2> QED
      BY <1>1, <2>1, <2>2, <2>3, RouteKnown
  <1>4. inbox'[g] # <<>> => inbox'[g][1].type \in PrepareTypes
    <2> SUFFICES ASSUME inbox'[g] # <<>> PROVE inbox'[g][1].type \in PrepareTypes
      OBVIOUS
    <2>1. 1 + 1 \in 1 .. Len(inbox[g]) /\ inbox'[g][1] = inbox[g][1 + 1]
      BY <1>1, <1>2, TailFrame
    <2>2. Carried(g, 1 + 1)
      BY <2>1 DEF CarryInv
    <2> QED
      BY <2>1, <2>2 DEF Carried
  <1>5. inbox'[g] # <<>> => KnownFrame(inbox[g][1])'
    BY <1>4, KnownPrepare, FrameKnown
  <1>6. inbox'[g] # <<>> => \A d, v, w : KeepsFrame(inbox'[g][1], d, v, w)
    BY <1>4 DEF KeepsFrame, PrepareTypes, UpdateTypes
  <1>7. Sound(g)'
    BY <1>3, <1>5, <1>6, <1>s DEF Sound
  <1> QED
    BY <1>1, <1>2, <1>7, SoundSession

LEMMA ConnectSound ==
    ASSUME RequestInv, GatewayInv, SnapshotInv, SoundInv, Grows, NEW g \in Gateways, Connect(g)
    PROVE  SoundInv'
  <1>x. PICK x : x = [table |-> ActiveRoutes, unread |-> {d \in Devices : version[d] # 0},
                      torn |-> FALSE]
    OBVIOUS
  <1>1. /\ link' = [link EXCEPT ![g] = "reading"] /\ snapshot' = [snapshot EXCEPT ![g] = x]
        /\ UNCHANGED <<device, table, file, inbox, version>>
    BY <1>x DEF Connect, ingressVars
  <1>2. x.table = ActiveRoutes /\ x.unread = {d \in Devices : version[d] # 0}
    BY <1>x
  <1>3. /\ snapshot'[g] = x
        /\ \A h \in Gateways \ {g} : link'[h] = link[h] /\ snapshot'[h] = snapshot[h]
    BY <1>1 DEF SnapshotInv
  <1>s. Sound(g)
    BY DEF SoundInv
  <1>4. ASSUME NEW d \in Devices PROVE Known(d, snapshot[g].table[d])'
    <2>1. Known(d, ActiveRoutes[d])
      BY ActiveRoutesExist DEF Known, SoundInv
    <2>2. Known(d, x.table[d])
      BY <1>2, <2>1
    <2>3. PICK rt : rt = x.table[d]
      OBVIOUS
    <2>4. Known(d, rt) /\ (Known(d, rt) => Known(d, rt)')
      BY <2>2, <2>3, KnownStays
    <2>5. snapshot'[g].table[d] = rt
      BY <1>3, <2>3
    <2> QED
      BY <2>4, <2>5, RouteKnown
  <1>5. ASSUME NEW d \in Devices, table[g][d] # None, NEW w
        PROVE  KeepsRead(snapshot'[g], d, device'[d], w)
    <2>1. version[d] # 0 /\ version[d] \in Nat /\ device[d] \in DeviceValues
      BY <1>5, <1>s, TableDevice DEF RequestInv, StoreInv, RowsInv
    <2>2. ActiveRoutes[d] = [version |-> version[d], dev |-> device[d]]
      BY <2>1 DEF ActiveRoutes
    <2>3. ActiveRoutes[d] \in TableRoutes
      BY <2>1, <2>2 DEF TableRoutes
    <2>4. ActiveRoutes[d] # None
      BY <2>3, TableAssumption
    <2> QED
      BY <1>2, <1>3, <2>1, <2>4 DEF KeepsRead
  <1>6. Sound(g)'
    <2>1. table'[g] = table[g] /\ file'[g] = file[g] /\ inbox'[g] = inbox[g] /\ device' = device
      BY <1>1
    <2> QED
      BY <1>4, <1>5, <1>s, <2>1, SoundKept
  <1> QED
    BY <1>1, <1>3, <1>6, SoundSession

LEMMA LoadSound ==
    ASSUME RequestInv, GatewayInv, SnapshotInv, SoundInv, Grows, NEW g \in Gateways,
           NEW d \in Devices, LoadIngresses(g, d)
    PROVE  SoundInv'
  <1>1. /\ link[g] = "reading" /\ device[d].ingresses \in SUBSET Ingresses /\ device[d] # None
        /\ snapshot[g] \in Snapshots /\ snapshot[g].table[d] # None
        /\ snapshot'[g].table = WithIngresses(snapshot[g].table, d, device[d].ingresses)
        /\ snapshot'[g].unread = snapshot[g].unread \ {d}
        /\ snapshot' = [snapshot EXCEPT ![g] = snapshot'[g]]
    BY Loaded
  <1>2. UNCHANGED <<device, table, file, inbox, link>>
    BY DEF LoadIngresses, ingressVars
  <1>3. PICK t \in Tables : t = snapshot[g].table
    BY <1>1 DEF Snapshots
  <1>4. PICK S \in SUBSET Ingresses : S = device[d].ingresses
    BY <1>1
  <1>5. t[d] # None
    BY <1>1, <1>3
  <1>6. PICK u : u = WithIngresses(t, d, S)
    OBVIOUS
  <1>7. /\ u[d] # None
        /\ u[d] = [version |-> t[d].version,
                   dev |-> [port |-> t[d].dev.port, method |-> t[d].dev.method,
                            password |-> t[d].dev.password, ingresses |-> S]]
        /\ \A e \in Devices \ {d} : u[e] = t[e]
    BY <1>5, <1>6, WithIngressesFacts
  <1>8. snapshot'[g].table = u
    BY <1>1, <1>3, <1>4, <1>6
  <1>9. \A h \in Gateways \ {g} : snapshot'[h] = snapshot[h]
    BY <1>1 DEF SnapshotInv
  <1>v. PICK v : v = u[d].dev
    OBVIOUS
  <1>10. v.port = t[d].dev.port /\ v.password = t[d].dev.password /\ v.ingresses = S
    BY <1>7, <1>v
  <1>s. Sound(g) /\ Drawn(device[d])
    BY <1>1 DEF SoundInv
  <1>11. \A e \in Devices : Known(e, t[e])
    BY <1>1, <1>3, <1>s DEF Sound
  <1>12. Known(d, u[d])
    <2>1. Drawn(t[d].dev) /\ version[d] # 0
      BY <1>5, <1>11 DEF Known
    <2>2. Drawn(v)
      BY <1>4, <1>10, <1>s, <2>1 DEF Drawn
    <2> QED
      BY <1>v, <2>1, <2>2 DEF Known
  <1>13. ASSUME NEW e \in Devices PROVE Known(e, snapshot[g].table[e])'
    <2>1. Known(e, u[e])
      BY <1>7, <1>11, <1>12
    <2>2. PICK rt : rt = u[e]
      OBVIOUS
    <2>3. Known(e, rt) /\ (Known(e, rt) => Known(e, rt)')
      BY <2>1, <2>2, KnownStays
    <2>4. snapshot'[g].table[e] = rt
      BY <1>8, <2>2
    <2> QED
      BY <2>3, <2>4, RouteKnown
  <1>14. ASSUME NEW w PROVE Keeps(v, device[d], w)
    <2>1. EffectiveIngresses(device[d]) = S
      BY <1>1, <1>4, RowsOf, EffectiveOfRow DEF RequestInv, StoreInv
    <2>2. \A i \in S : i \in EffectiveIngresses(v)
      BY <1>10 DEF EffectiveIngresses
    <2> QED
      BY <2>1, <2>2, OffersAll DEF Keeps
  <1>15. ASSUME NEW e \in Devices, table[g][e] # None
         PROVE  KeepsRead(snapshot'[g], e, device'[e], table[g][e].dev)
    <2>1. KeepsRead(snapshot[g], e, device[e], table[g][e].dev)
      BY <1>1, <1>15, <1>s DEF Sound
    <2>2. CASE e = d
      BY <1>2, <1>7, <1>8, <1>14, <1>v, <2>2 DEF KeepsRead
    <2>3. CASE e # d
      <3>1. u[e] = t[e] /\ (e \notin snapshot'[g].unread => e \notin snapshot[g].unread)
        BY <1>1, <1>7, <2>3
      <3> QED
        BY <1>2, <1>3, <1>8, <2>1, <3>1 DEF KeepsRead
    <2> QED
      BY <2>2, <2>3
  <1>16. Sound(g)'
    <2>1. table'[g] = table[g] /\ file'[g] = file[g] /\ inbox'[g] = inbox[g] /\ device' = device
      BY <1>2
    <2> QED
      BY <1>13, <1>15, <1>s, <2>1, SoundKept
  <1> QED
    BY <1>2, <1>9, <1>16, SoundSession

LEMMA SendSound ==
    ASSUME GatewayInv, SnapshotInv, SoundInv, Grows, NEW g \in Gateways, SendSnapshot(g)
    PROVE  SoundInv'
  <1>f. PICK f : f = [type |-> "SNAPSHOT", req |-> None, table |-> snapshot[g].table,
                      torn |-> snapshot[g].torn]
    OBVIOUS
  <1>1. /\ link[g] = "reading" /\ snapshot[g].unread = {} /\ link' = [link EXCEPT ![g] = "open"]
        /\ inbox' = [inbox EXCEPT ![g] = <<f>>] /\ snapshot' = [snapshot EXCEPT ![g] = None]
        /\ UNCHANGED <<device, table, file>>
    BY <1>f DEF SendSnapshot, ingressVars
  <1>2. f.type = "SNAPSHOT" /\ f.table = snapshot[g].table
    BY <1>f
  <1>3. /\ inbox'[g] = <<f>> /\ link'[g] = "open"
        /\ \A h \in Gateways \ {g} : /\ link'[h] = link[h] /\ snapshot'[h] = snapshot[h]
                                     /\ inbox'[h] = inbox[h]
    BY <1>1 DEF SnapshotInv, GatewayInv
  <1>4. inbox'[g][1] = f
    BY <1>3
  <1>s. Sound(g)
    BY DEF SoundInv
  <1>5. KnownFrame(f)
    BY <1>1, <1>2, <1>s DEF Sound, KnownFrame, UpdateTypes
  <1>6. KnownFrame(f)'
    BY <1>2, <1>5, KnownStays DEF KnownFrame, UpdateTypes
  <1>7. KnownFrame(inbox[g][1])'
    BY <1>4, <1>6, FrameKnown
  <1>8. ASSUME NEW d \in Devices, table[g][d] # None
        PROVE  KeepsFrame(inbox'[g][1], d, device'[d], table[g][d].dev)
    <2>1. KeepsRead(snapshot[g], d, device[d], table[g][d].dev)
      BY <1>1, <1>8, <1>s DEF Sound
    <2> QED
      BY <1>1, <1>2, <1>4, <2>1 DEF KeepsRead, KeepsFrame, UpdateTypes
  <1>9. Sound(g)'
    <2>1. table'[g] = table[g] /\ file'[g] = file[g] /\ device' = device /\ link'[g] # "reading"
      BY <1>1, <1>3
    <2> QED
      BY <1>7, <1>8, <1>s, <2>1, SoundKept
  <1> QED
    BY <1>1, <1>3, <1>9, SoundSession

LEMMA EndedSound ==
    ASSUME GatewayInv, SnapshotInv, SoundInv, Grows, NEW g \in Gateways,
           Disconnect(g) \/ GatewayRestart(g)
    PROVE  SoundInv'
  <1>1. /\ UNCHANGED <<device, file>> /\ inbox' = [inbox EXCEPT ![g] = <<>>]
        /\ snapshot' = [snapshot EXCEPT ![g] = None]
        /\ \E l \in {"none", "down"} : link' = [link EXCEPT ![g] = l]
    BY DEF Disconnect, GatewayRestart, Restart, CannotStart, EndSession, ingressVars
  <1>2. \/ table' = table
        \/ table' = [table EXCEPT ![g] = IF file[g] = None THEN NoTable ELSE file[g]]
        \/ table' = [table EXCEPT ![g] = NoTable]
    BY DEF Disconnect, GatewayRestart, Restart, CannotStart, Install, ingressVars
  <1>3. /\ inbox'[g] = <<>> /\ link'[g] # "reading"
        /\ \A h \in Gateways \ {g} : /\ inbox'[h] = inbox[h] /\ table'[h] = table[h]
                                     /\ link'[h] = link[h] /\ snapshot'[h] = snapshot[h]
        /\ \/ table'[g] = table[g] \/ table'[g] = NoTable
           \/ file[g] # None /\ table'[g] = file[g]
    BY <1>1, <1>2 DEF GatewayInv, SnapshotInv
  <1>4. ASSUME NEW d \in Devices
        PROVE  Known(d, table[g][d])' /\ (file'[g] # None => Known(d, file[g][d])')
    <2>1. Known(d, table[g][d]) /\ (file[g] # None => Known(d, file[g][d]))
      BY DEF SoundInv, Sound
    <2>2. Known(d, NoTable[d])
      BY DEF Known, NoTable
    <2>3. \A rt : Known(d, rt) => Known(d, rt)'
      BY KnownStays
    <2> QED
      BY <1>1, <1>3, <2>1, <2>2, <2>3, RouteKnown
  <1>5. Sound(g)'
    BY <1>3, <1>4 DEF Sound
  <1> QED
    BY <1>1, <1>3, <1>5, SoundSession

-------------------------------------------------------------------------------
(* No ingress that a device keeps is lost *)

LEMMA InitOwn == Init => OwnInv
  <1> SUFFICES ASSUME Init PROVE OwnInv
    OBVIOUS
  <1>1. \A r \in Requests : pc[r] = "idle" /\ late[r] = NoJob
    BY DEF Init
  <1>2. \A r \in RotateRequests \union AddRequests \union RouteRequests : r \in Requests
    BY DEF Requests, Deployments, IngressRequests
  <1>3. VersionsInv
    BY <1>1, <1>2 DEF VersionsInv, Holding
  <1>4. Pending = {}
    BY <1>1, <1>2 DEF Pending
  <1>5. TimesInv
    BY <1>4, PlaneAssumption DEF Init, TimesInv
  <1>6. QuietInv
    BY DEF Init, QuietInv
  <1>7. ASSUME NEW d \in Devices, device[d] # None PROVE Drawn(device[d])
    <2>1. device[d] = InitialDevices[d] /\ InitialDevices[d] # None /\ MirrorsPrimary(device[d])
          /\ device[d] \in DeviceValues
      BY <1>7, DeviceAssumption DEF Init
    <2>2. ASSUME NEW i \in device[d].ingresses
          PROVE  i.password.by \notin Undrawn /\ i.at \in Nat /\ i.at < StartTime
      BY <2>1, <2>2, PasswordAssumption DEF Undrawn, DeviceValues, Ingresses
    <2>3. ASSUME NEW i \in device[d].ingresses PROVE ~Untaken(i.at)
      <3>1. clock = StartTime /\ StartTime \in Nat
        BY PlaneAssumption DEF Init
      <3>2. i.at \in 0 .. (clock - 1)
        BY <2>2, <2>3, <3>1
      <3> QED
        BY <1>4, <3>2 DEF Untaken
    <2>4. device[d].port # 0 => \E i \in device[d].ingresses : device[d].password = i.password
      BY <2>1 DEF MirrorsPrimary, Primaries
    <2> QED
      BY <2>2, <2>3, <2>4 DEF Drawn, Fresh
  <1>8. ASSUME NEW g \in Gateways PROVE Sound(g)
    <2>1. /\ table[g] = NoTable /\ file[g] = None /\ inbox[g] = <<>> /\ link[g] = "none"
          /\ \A d \in Devices : NoTable[d] = None
      BY DEF Init, NoTable
    <2> QED
      BY <2>1 DEF Sound, Known
  <1> QED
    BY <1>3, <1>5, <1>6, <1>7, <1>8 DEF OwnInv, SoundInv

LEMMA StaleGrows == PlaneInv /\ [Next]_vars => stale \subseteq stale'
  <1> SUFFICES ASSUME PlaneInv, [Next]_vars PROVE stale \subseteq stale'
    OBVIOUS
  <1>1. CASE UNCHANGED stale
    BY <1>1
  <1>2. ASSUME NEW r \in Requests, Begins(r) PROVE UNCHANGED stale
    BY <1>2 DEF Begins, BeginsWith, Create, RotateCredential, AddIngress, DeleteIngress, PutRoute,
                Stage, historyVars
  <1>3. ASSUME NEW r \in Deployments, LockAndPrepare(r) \/ Commit(r) \/ Succeed(r) \/ GiveUp(r)
        PROVE  stale \subseteq stale'
    <2>1. CASE Commit(r)
      BY <2>1 DEF Commit, CommitChange
    <2>2. CASE LockAndPrepare(r) \/ Succeed(r) \/ GiveUp(r)
      BY <2>2 DEF LockAndPrepare, Succeed, GiveUp, historyVars
    <2> QED
      BY <1>3, <2>1, <2>2
  <1>4. ASSUME NEW r \in Deployments, LateCommit(r) PROVE stale \subseteq stale'
    BY <1>4 DEF LateCommit, CommitChange
  <1>5. ASSUME NEW g \in Gateways, GatewayStep(g) PROVE UNCHANGED stale
    BY <1>5, GatewayPlane
  <1>6. CASE ControlPlaneRestart
    BY <1>6 DEF ControlPlaneRestart, historyVars
  <1> QED
    BY <1>1, <1>2, <1>3, <1>4, <1>5, <1>6, BegunCases DEF vars, historyVars

LEMMA SoundStep ==
    ASSUME PlaneInv, CarryInv, ProposedInv, LastInv, StampInv, StampInv', QuietInv, SoundInv,
           Grows, [Next]_vars, stale' = {}
    PROVE  SoundInv'
  <1>0. RequestInv /\ GatewayInv /\ LateInv /\ SnapshotInv /\ TimesInv'
    BY DEF PlaneInv, StampInv
  <1>1. CASE UNCHANGED <<device, table, file, inbox, link, snapshot>>
    BY <1>0, <1>1, SoundOne
  <1>2. ASSUME NEW r \in Requests, Begins(r) PROVE SoundInv'
    BY <1>0, <1>2, BeginSound
  <1>3. ASSUME NEW r \in Deployments,
               LockAndPrepare(r) \/ Commit(r) \/ Succeed(r) \/ GiveUp(r)
        PROVE  SoundInv'
    <2>1. CASE Succeed(r) \/ GiveUp(r)
      BY <1>1, <2>1 DEF Succeed, GiveUp, hubVars, ingressVars
    <2> QED
      BY <1>0, <1>3, <2>1, LockSound, CommitSound
  <1>4. ASSUME NEW r \in Deployments, LateCommit(r) PROVE SoundInv'
    BY <1>0, <1>4, LateSound
  <1>5. ASSUME NEW g \in Gateways, GatewayStep(g) PROVE SoundInv'
    <2>1. CASE FrameStep(g)
      BY <1>0, <2>1, HandledFrame, FrameSound
    <2>2. CASE Heartbeat(g) \/ LocalDrain(g)
      BY <1>1, <2>2 DEF Heartbeat, LocalDrain, ingressVars, hubVars
    <2> QED
      BY <1>0, <1>5, <2>1, <2>2, ConnectSound, LoadSound, SendSound, EndedSound, OtherSteps
  <1>6. CASE ControlPlaneRestart
    <2>1. /\ UNCHANGED <<device, table, file>>
          /\ \A g \in Gateways : inbox'[g] = <<>> /\ link'[g] # "reading"
      BY <1>6 DEF ControlPlaneRestart, ingressVars
    <2> QED
      BY <1>0, <2>1, SoundOne
  <1> QED
    BY <1>1, <1>2, <1>3, <1>4, <1>5, <1>6, BegunCases DEF vars, ingressVars, hubVars

LEMMA OwnStep ==
    PlaneInv /\ CarryInv /\ ProposedInv /\ LastInv /\ OwnInv /\ [Next]_vars => OwnInv'
  <1> SUFFICES ASSUME PlaneInv, CarryInv, ProposedInv, LastInv, OwnInv, [Next]_vars
               PROVE  OwnInv'
    OBVIOUS
  <1>1. StampInv /\ QuietInv
    BY DEF OwnInv, StampInv
  <1>2. StampInv' /\ Grows
    BY <1>1, StampStep
  <1>3. QuietInv'
    BY <1>1, QuietStep
  <1>4. ASSUME stale' = {} PROVE SoundInv'
    <2>1. stale = {} /\ SoundInv
      BY <1>4, StaleGrows DEF OwnInv
    <2> QED
      BY <1>1, <1>2, <1>4, <2>1, SoundStep
  <1> QED
    BY <1>2, <1>3, <1>4 DEF OwnInv, StampInv

\* The listeners that match a table serve what the table offers.
LEMMA ServedByTable ==
    ASSUME NEW t \in Tables, NEW ls \in [Ports -> Listeners \union {None}], Matches(t, ls),
           NEW d \in Devices, NEW i \in Ingresses, t[d] # None, Offers(t[d].dev, i)
    PROVE  /\ ls[i.port] # None /\ ls[i.port].active
           /\ ls[i.port] = Listener([device |-> d, ingress |-> i], TRUE)
  <1> DEFINE y == [device |-> d, ingress |-> i]
             l == ls[i.port]
  <1>1. i.port \in Ports
    BY DEF Ingresses
  <1>2. PICK j \in EffectiveIngresses(t[d].dev) :
           j.port = i.port /\ j.method = i.method /\ j.password = i.password
    BY DEF Offers
  <1> DEFINE x == [device |-> d, ingress |-> j]
  <1>3. x \in Desired(t)
    BY DEF Desired
  <1>4. l = Listener(x, TRUE)
    BY <1>1, <1>2, <1>3 DEF Matches
  <1>5. Listener(x, TRUE) = Listener(y, TRUE)
    BY <1>2 DEF Listener
  <1>6. Listener(x, TRUE) # None
    BY <1>3, DesiredTyped, ListenerTyped
  <1>7. Listener(x, TRUE).active
    BY DEF Listener
  <1> QED
    BY <1>4, <1>5, <1>6, <1>7

\* A row of the table that is served as the database has it is the database's row.
LEMMA OfferedByTable ==
    ASSUME NEW t \in Tables, NEW ls \in [Ports -> Listeners \union {None}], Matches(t, ls),
           NEW d \in Devices, NEW i \in Ingresses, t[d] # None,
           ls[i.port] = Listener([device |-> d, ingress |-> i], TRUE),
           NEW j \in t[d].dev.ingresses, j.port = i.port, j.at = i.at
    PROVE  Offers(t[d].dev, i)
  <1> DEFINE x == [device |-> d, ingress |-> j]
  <1>1. i.port \in Ports /\ j \in EffectiveIngresses(t[d].dev)
    BY DEF Ingresses, EffectiveIngresses
  <1>2. x \in Desired(t)
    <2>1. x \in {[device |-> d, ingress |-> k] : k \in EffectiveIngresses(t[d].dev)}
      BY <1>1
    <2>2. d \in {e \in Devices : t[e] # None}
      OBVIOUS
    <2>3. {[device |-> d, ingress |-> k] : k \in EffectiveIngresses(t[d].dev)} \subseteq Desired(t)
      BY <2>2 DEF Desired
    <2> QED
      BY <2>1, <2>3
  <1>3. ls[i.port] = Listener(x, TRUE)
    BY <1>1, <1>2 DEF Matches
  <1>4. j.method = i.method /\ j.password = i.password
    BY <1>3 DEF Listener
  <1> QED
    BY <1>1, <1>4 DEF Offers

\* The table of a gateway that stays synchronised changes with the first frame only.
LEMMA TableOfStep ==
    ASSUME PlaneInv, [Next]_vars, NEW g \in Gateways, synced[g], synced'[g]
    PROVE  table'[g] = table[g] \/ (inbox[g] # <<>> /\ table'[g] = NewTable(g))
  <1>0. RequestInv /\ GatewayInv
    BY DEF PlaneInv
  <1>1. CASE UNCHANGED table
    BY <1>1
  <1>2. ASSUME NEW r \in Requests, Begins(r) PROVE UNCHANGED table
    BY <1>2 DEF Begins, BeginsWith, Create, RotateCredential, AddIngress, DeleteIngress, PutRoute,
                Stage, ingressVars
  <1>3. ASSUME NEW r \in Deployments, LockAndPrepare(r) \/ Commit(r) \/ Succeed(r) \/ GiveUp(r)
        PROVE  UNCHANGED table
    BY <1>3 DEF LockAndPrepare, Commit, Succeed, GiveUp, ingressVars
  <1>4. ASSUME NEW h \in Gateways, GatewayStep(h)
        PROVE  table'[g] = table[g] \/ (inbox[g] # <<>> /\ table'[g] = NewTable(g))
    <2>1. CASE FrameStep(h)
      BY <1>0, <2>1, HandledFrame DEF Handled
    <2>2. CASE GatewayRestart(h)
      <3>1. table' = [table EXCEPT ![h] = table'[h]] /\ synced' = [synced EXCEPT ![h] = FALSE]
        BY <1>0, <2>2 DEF GatewayRestart, Restart, CannotStart, Install, GatewayInv
      <3>2. h # g
        BY <1>0, <3>1 DEF GatewayInv
      <3> QED
        BY <1>0, <3>1, <3>2 DEF GatewayInv
    <2>3. CASE \/ Connect(h) \/ (\E d \in Devices : LoadIngresses(h, d)) \/ SendSnapshot(h)
               \/ Disconnect(h) \/ Heartbeat(h) \/ LocalDrain(h)
      BY <2>3 DEF Connect, LoadIngresses, SendSnapshot, Disconnect, Heartbeat, LocalDrain,
                  ingressVars
    <2> QED
      BY <1>4, <2>1, <2>2, <2>3, OtherSteps
  <1>5. CASE ControlPlaneRestart
    BY <1>5 DEF ControlPlaneRestart, ingressVars
  <1>6. ASSUME NEW r \in Deployments, LateCommit(r) PROVE UNCHANGED table
    BY <1>6 DEF LateCommit, ingressVars
  <1> QED
    BY <1>1, <1>2, <1>3, <1>4, <1>5, <1>6, BegunCases DEF vars, ingressVars

\* A gateway that stays synchronised never stops taking connections on an ingress whose
\* row it has and that the database has before and after the step: neither in the
\* reconciliation of another change, nor with a snapshot, torn or not, or an update that
\* was on the way while the device changed.  For any devices, ports, requests and faults,
\* passwords that clients choose again and commits that come late, as long as no
\* deployment was stale (gateway.go ReconcileListeners, control_client.go, hub.go
\* DeployDevice, postgres.go ListActiveRoutes).
THEOREM OwnedIngressStays == Spec => OwnedIngressKeepsServing
  <1> DEFINE KeepsServing == \A g \in Gateways, d \in Devices :
                 device[d] # None /\ synced[g] /\ synced'[g] /\ stale' = {} =>
                     \A i \in device[d].ingresses :
                         Serves(g, d, i) /\ HasRow(g, d, i) /\ device'[d] # None /\ i \in device'[d].ingresses
                         => Serves(g, d, i)'
  <1>1. ASSUME PlaneInv, PlaneInv', CarryInv, OwnInv, [Next]_vars PROVE KeepsServing
    <2> SUFFICES ASSUME NEW g \in Gateways, NEW d \in Devices, device[d] # None, synced[g], synced'[g],
                        stale' = {}, NEW i \in device[d].ingresses, Serves(g, d, i), HasRow(g, d, i)
                 PROVE  Serves(g, d, i)'
      OBVIOUS
    <2>0. GatewayInv /\ RequestInv
      BY <1>1 DEF PlaneInv
    <2>1. stale = {} /\ Sound(g)
      BY <1>1, StaleGrows DEF OwnInv, SoundInv
    <2>2. i \in Ingresses /\ i \in EffectiveIngresses(device[d])
      BY <2>0, RowsOf DEF RequestInv, StoreInv, DeviceValues, EffectiveIngresses
    <2>3. /\ table[g] \in Tables /\ listeners[g] \in [Ports -> Listeners \union {None}]
          /\ Matches(table[g], listeners[g])
      BY <2>0 DEF GatewayInv, ListenersType
    <2>4. /\ table'[g] \in Tables /\ listeners'[g] \in [Ports -> Listeners \union {None}]
          /\ Matches(table'[g], listeners'[g])
      BY <1>1 DEF PlaneInv, GatewayInv, ListenersType, Matches
    <2>5. table[g][d] # None /\ Offers(table[g][d].dev, i)
      <3>1. PICK j \in table[g][d].dev.ingresses : j.port = i.port /\ j.at = i.at
        BY DEF HasRow
      <3>2. listeners[g][i.port] = Listener([device |-> d, ingress |-> i], TRUE)
        BY DEF Serves
      <3>3. table[g][d] # None
        BY DEF HasRow
      <3> QED
        BY <2>2, <2>3, <3>1, <3>2, <3>3, OfferedByTable
    <2>6. table'[g][d] # None /\ Offers(table'[g][d].dev, i)
      <3>1. CASE table'[g] = table[g]
        BY <2>5, <3>1
      <3>2. CASE inbox[g] # <<>> /\ table'[g] = NewTable(g)
        BY <1>1, <2>0, <2>1, <2>2, <2>5, <3>2, NewTableKeeps
      <3> QED
        BY <1>1, <3>1, <3>2, TableOfStep
    <2>7. /\ listeners'[g][i.port] # None /\ listeners'[g][i.port].active
          /\ listeners'[g][i.port] = Listener([device |-> d, ingress |-> i], TRUE)
      <3>1. PICK t \in Tables, ls \in [Ports -> Listeners \union {None}] :
               t = table'[g] /\ ls = listeners'[g]
        BY <2>4
      <3>2. Matches(t, ls) /\ t[d] # None /\ Offers(t[d].dev, i)
        BY <2>4, <2>6, <3>1
      <3>3. /\ ls[i.port] # None /\ ls[i.port].active
            /\ ls[i.port] = Listener([device |-> d, ingress |-> i], TRUE)
        BY <2>2, <3>2, ServedByTable
      <3> QED
        BY <3>1, <3>3
    <2> QED
      BY <2>7 DEF Serves
  <1>2. Spec => []ServedInv
    BY InitServed, ServedStep, PlaneInvariant, PTL DEF Spec
  <1>3. Spec => [](CarryInv /\ ProposedInv /\ LastInv)
    BY <1>2, InitCarry, InitHeld, CarryStep, ProposedStep, LastStep, PlaneInvariant, PTL DEF Spec
  <1>4. Spec => []OwnInv
    BY <1>3, InitOwn, OwnStep, PlaneInvariant, PTL DEF Spec
  <1>5. PlaneInv /\ PlaneInv' /\ CarryInv /\ OwnInv /\ [Next]_vars => [KeepsServing]_vars
    BY <1>1
  <1>6. Spec => [][KeepsServing]_vars
    BY <1>3, <1>4, <1>5, PlaneInvariant, PTL DEF Spec
  <1> QED
    BY <1>6 DEF OwnedIngressKeepsServing
===============================================================================
