------------------------- MODULE ProviderRoutesProofs -------------------------
(***************************************************************************)
(* The composition of providers and route transactions, for every set of   *)
(* requests, configurations and countries: a provider that has been        *)
(* accepted generates, the selection follows the weights, a published      *)
(* route comes from an enabled provider, and what the transactions promise *)
(* alone they promise here.                                                *)
(***************************************************************************)
EXTENDS ProviderRoutes, RouteTransactionsProofs, FiniteSetTheorems, WellFoundedInduction

-------------------------------------------------------------------------------
(* The transactions in the composition *)

LEMMA StepOfTransactions == [Next]_vars => [TxNext]_txVars
<1> SUFFICES ASSUME [Next]_vars PROVE [TxNext]_txVars
  OBVIOUS
<1>1. CASE UNCHANGED vars
  BY <1>1 DEF vars
<1>2. ASSUME NEW r \in PutRequests,
             \/ \E p \in Providers, b \in PutBodies : PutProvider(r, p, b)
             \/ UpsertProvider(r)
      PROVE  UNCHANGED txVars
  BY <1>2 DEF PutProvider, UpsertProvider
<1>3. ASSUME NEW r \in RouteRequests \ ManualRequests,
             \/ \E p \in Providers : GetProvider(r, p)
             \/ ListIds(r) \/ ListNext(r) \/ Select(r)
             \/ \E q \in Queries : GenerateRoute(r, q)
      PROVE  UNCHANGED txVars
  BY <1>3 DEF GetProvider, ListIds, ListNext, Select, GenerateRoute
<1>4. ASSUME NEW r \in RouteRequests, NEW e \in Versions, Deploy(r, e)
      PROVE  TxNext
  BY <1>4, RoutesAssumption DEF Deploy, TxNext
<1>5. ASSUME NEW r \in RouteRequests, TxStep(r)
      PROVE  TxNext
  BY <1>5 DEF TxNext
<1> QED
  BY <1>1, <1>2, <1>3, <1>4, <1>5 DEF Next

LEMMA SpecOfTransactions == Spec => TxSpec
BY StepOfTransactions, PTL DEF Spec, Init, TxSpec

\* Manual and generated routes, with provider updates in between, publish through
\* the one-step store.
THEOREM RoutesImplementStore == Spec => ImplementsRouteStore
BY SpecOfTransactions, TransactionsImplementStore, PTL

\* Nor do they deadlock in the database.
THEOREM RoutesNeverDeadlock == Spec => []NoLockCycle
BY SpecOfTransactions, TransactionsNeverDeadlock, PTL

-------------------------------------------------------------------------------
(* What Validate accepts generates *)

LEMMA CountryKnown ==
    ASSUME NEW config, WellTyped(config), NEW c \in Countries
    PROVE  Country(config, c) \in Countries
BY AdapterAssumption DEF Country, WellTyped

LEMMA CryptoIntInRange ==
    ASSUME NEW min \in Nat, NEW max \in Nat, min <= max
    PROVE  CryptoInt(min, max) \subseteq min .. max
<1> SUFFICES ASSUME NEW w \in Words(max - min + 1)
             PROVE  min + CryptoUint(max - min + 1, w) \in min .. max
  BY DEF CryptoInt
<1> DEFINE n == max - min + 1
<1>1. n \in Nat /\ n > 0 /\ w \in Nat
  BY DEF Words
<1>2. w % n \in 0 .. (n - 1)
  BY <1>1
<1> QED
  BY <1>1, <1>2 DEF CryptoUint

LEMMA TemplateKnown ==
    ASSUME NEW rule, NEW c \in Countries, NEW state, NEW city,
           SelectTemplate(rule, c, state, city) # Unset
    PROVE  SelectTemplate(rule, c, state, city) \in Templates(rule)
BY DEF SelectTemplate, Templates

\* Values bring only the expressions they hold.
LEMMA FillBrings ==
    ASSUME NEW text, NEW country, NEW state, NEW city
    PROVE  Fill(text, country, state, city)
              \subseteq text \union Expressions(city) \union CountryText[country]
                       \union Expressions(state)
<1>1. ASSUME NEW t, NEW v, NEW x
      PROVE  Substitute(t, v, x) \subseteq t \union x
  BY DEF Substitute
<1> DEFINE t1 == Substitute(text, "city", Expressions(city))
           t2 == Substitute(t1, "country", CountryText[country])
           t3 == Substitute(t2 \ {"duration", "session"}, "state", Expressions(state))
<1>2. Fill(text, country, state, city) = t3
  BY DEF Fill
<1>3. t1 \subseteq text \union Expressions(city)
  BY <1>1
<1>4. t2 \subseteq t1 \union CountryText[country]
  BY <1>1
<1>5. t3 \subseteq (t2 \ {"duration", "session"}) \union Expressions(state)
  BY <1>1
<1> HIDE DEF t1, t2, t3
<1> QED
  BY <1>2, <1>3, <1>4, <1>5

\* A secret that is missing for an accepted definition was named by a value.
LEMMA ValidMisses ==
    ASSUME NEW d, Validate(d), NEW rule \in {d.config.host, d.config.username, d.config.password},
           NEW c \in Countries, NEW state, NEW city,
           NamedByValues(c, state, city) \subseteq DOMAIN d.secrets
    PROVE  Filled(rule, c, state, city) \intersect SecretNames \subseteq DOMAIN d.secrets
<1> DEFINE t == SelectTemplate(rule, c, state, city)
<1>1. t # Unset => t \in Templates(rule)
  BY TemplateKnown
<1> HIDE DEF t
<1>2. \A s \in Templates(rule) : s \intersect SecretNames \subseteq DOMAIN d.secrets
  BY Zenon DEF Validate
<1>3. Expressions(t) \intersect SecretNames \subseteq DOMAIN d.secrets
  BY <1>1, <1>2, Zenon DEF Expressions
<1>4. Filled(rule, c, state, city) = Fill(Expressions(t), c, state, city)
  BY DEF Filled, t
<1> QED
  BY <1>3, <1>4, FillBrings DEF NamedByValues

LEMMA PortsInRange ==
    ASSUME NEW d, Validate(d), WellTyped(d.config), NEW c \in Countries,
           NEW p \in SelectPort(d.config.port, c)
    PROVE  p \in IF d.config.port.byCountry[c] = Unset THEN 1 .. MaxPort
                 ELSE d.config.port.byCountry[c].from .. d.config.port.byCountry[c].to
<1> DEFINE range == d.config.port.byCountry[c]
<1>1. ValidatePortRule(d.config.port)
  BY DEF Validate
<1>2. CASE range # Unset
  <2>1. range \in [from : Nat, to : Nat] /\ range.from <= range.to
    BY <1>1, <1>2 DEF WellTyped, ValidatePortRule, Keys
  <2>2. p \in CryptoInt(range.from, range.to)
    BY <1>2 DEF SelectPort
  <2> QED
    BY <1>2, <2>1, <2>2, CryptoIntInRange
<1>3. CASE range = Unset
  BY <1>1, <1>3, AdapterAssumption DEF SelectPort, ValidatePortRule
<1> QED
  BY <1>2, <1>3

LEMMA ValidGenerates ==
    ASSUME NEW d, Validate(d), WellTyped(d.config), NEW q \in Queries
    PROVE  LET country == Country(d.config, q.country)
               range == d.config.port.byCountry[country] IN
           /\ "invalid" \notin GenerateEnds(d, q)
           /\ \A s \in States(d.config, country, q) :
                 EndpointFails(d, country, s, q.city) = "secret" =>
                     ~(NamedByValues(country, s, q.city) \subseteq DOMAIN d.secrets)
           /\ \A x \in Generate(d, q) :
                 x.port \in IF range = Unset THEN 1 .. MaxPort ELSE range.from .. range.to
<1> DEFINE c == Country(d.config, q.country)
<1>1. c \in Countries
  BY CountryKnown, RoutesAssumption
<1> HIDE DEF c
<1>2. ASSUME NEW s
      PROVE  EndpointFails(d, c, s, q.city) # "invalid"
  <2>1. ASSUME NEW text PROVE RenderFails(text, d.secrets) # "invalid"
    BY UnsetAssumption DEF RenderFails
  <2> QED
    BY <2>1, UnsetAssumption DEF EndpointFails
<1>3. "invalid" \notin GenerateEnds(d, q)
  BY <1>2 DEF GenerateEnds, c
<1>4. ASSUME NEW s, NamedByValues(c, s, q.city) \subseteq DOMAIN d.secrets
      PROVE  EndpointFails(d, c, s, q.city) # "secret"
  <2>1. ASSUME NEW rule \in {d.config.host, d.config.username, d.config.password}
        PROVE  RenderFails(Filled(rule, c, s, q.city), d.secrets) # "secret"
    BY <1>1, <1>4, ValidMisses, UnsetAssumption DEF RenderFails
  <2> QED
    BY <2>1, UnsetAssumption DEF EndpointFails
<1>5. ASSUME NEW x \in Generate(d, q)
      PROVE  x.port \in SelectPort(d.config.port, c)
  BY <1>5 DEF Generate, c
<1> QED
  BY <1>1, <1>3, <1>4, <1>5, PortsInRange DEF c

\* The rows have been validated, and so has what a put is about to write.
Accepted(d) == Validate(d) /\ WellTyped(d.config)

ProviderInv ==
    /\ provider = [p \in Providers |-> provider[p]]
    /\ step = [r \in PutRequests \union RouteRequests |-> step[r]]
    /\ put = [r \in PutRequests |-> put[r]]
    /\ \A p \in Providers : provider[p] # None => Accepted(provider[p])
    /\ \A r \in PutRequests : step[r] = "upsert" => Accepted(put[r].def)

LEMMA PutProviderInv ==
    ASSUME ProviderInv, NEW r \in PutRequests, NEW p \in Providers, NEW b \in PutBodies,
           PutProvider(r, p, b)
    PROVE  ProviderInv'
<1>1. WellTyped(KeepSecrets(p, b).config)
  BY RoutesAssumption DEF KeepSecrets, WithSecrets
<1>2. CASE Validate(KeepSecrets(p, b))
  <2> DEFINE entry == [provider |-> p, def |-> KeepSecrets(p, b)]
  <2>1. Accepted(entry.def)
    BY <1>1, <1>2 DEF Accepted
  <2> HIDE DEF entry
  <2>2. /\ put' = [put EXCEPT ![r] = entry] /\ step' = [step EXCEPT ![r] = "upsert"]
        /\ provider' = provider
    BY <1>2 DEF PutProvider, Go, entry
  <2> QED
    BY <2>1, <2>2 DEF ProviderInv
<1>3. CASE ~Validate(KeepSecrets(p, b))
  <2>1. put' = put /\ step' = [step EXCEPT ![r] = "done"] /\ provider' = provider
    BY <1>3 DEF PutProvider, Go
  <2> QED
    BY <2>1 DEF ProviderInv
<1> QED
  BY <1>2, <1>3

LEMMA OthersInv ==
    ASSUME ProviderInv, NEW r \in PutRequests \union RouteRequests, provider' = provider, put' = put,
           step' = step \/ \E next \in {"done", "list", "generate", "deploy"} :
                              step' = [step EXCEPT ![r] = next]
    PROVE  ProviderInv'
BY DEF ProviderInv

LEMMA ProviderInvHolds == ProviderInv /\ [Next]_vars => ProviderInv'
<1> SUFFICES ASSUME ProviderInv, [Next]_vars PROVE ProviderInv'
  OBVIOUS
<1>1. CASE UNCHANGED vars
  BY <1>1 DEF vars, providerVars, ProviderInv
<1>2. ASSUME NEW r \in PutRequests, UpsertProvider(r)
      PROVE  ProviderInv'
  BY <1>2 DEF ProviderInv, UpsertProvider, Go
<1>3. ASSUME NEW r \in RouteRequests \ ManualRequests,
             \/ \E p \in Providers : GetProvider(r, p)
             \/ ListIds(r) \/ ListNext(r) \/ Select(r)
             \/ \E q \in Queries : GenerateRoute(r, q)
      PROVE  ProviderInv'
  BY <1>3, OthersInv DEF GetProvider, ListIds, ListNext, Select, GenerateRoute, Refuse, Go
<1>4. ASSUME NEW r \in RouteRequests,
             \/ \E e \in Versions : Deploy(r, e)
             \/ TxStep(r) /\ UNCHANGED providerVars
      PROVE  ProviderInv'
  BY <1>4, OthersInv DEF Deploy, Go, providerVars
<1> QED
  BY <1>1, <1>2, <1>3, <1>4, PutProviderInv DEF Next

\* Whatever has been put, with secrets kept or replaced, a stored provider stays valid,
\* never lacks a secret of its own templates (only one that a value of the request or
\* of its configuration names) and never draws a port outside its country's range
\* (api.go putProvider, provider.go Validate, Generate and render).
THEOREM StoredProvidersGenerate == Spec => []AcceptedProvidersGenerate
<1>1. Init => ProviderInv
  BY RoutesAssumption DEF Init, ProviderInv, Accepted
<1>2. ProviderInv => AcceptedProvidersGenerate
  BY ValidGenerates DEF ProviderInv, Accepted, AcceptedProvidersGenerate
<1> QED
  BY <1>1, <1>2, ProviderInvHolds, PTL DEF Spec
-------------------------------------------------------------------------------
(* SelectWeighted: sums of weights and random words *)

\* A set of numbers that is not empty has a least one.
LEMMA LeastNumber ==
    ASSUME NEW S \in SUBSET Nat, S # {}
    PROVE  \E n \in S : \A m \in S : n <= m
<1> DEFINE R == OpToRel(<, Nat)
<1>1. \A m, n \in Nat : m < n => <<m, n>> \in R
  BY DEF OpToRel
<1>2. IsWellFoundedOn(R, Nat)
  BY NatLessThanWellFounded
<1> HIDE DEF R
<1>3. PICK n \in S : \A m \in S : <<m, n>> \notin R
  BY <1>2, WFMin
<1>4. \A m \in S : ~(m < n)
  BY <1>1, <1>3
<1> QED
  BY <1>4

\* Induction over 0 .. k, for a set of numbers.
LEMMA UpTo ==
    ASSUME NEW k \in Nat, NEW S, 0 \in S, \A i \in 1 .. k : i - 1 \in S => i \in S
    PROVE  0 .. k \subseteq S
<1> DEFINE C == {i \in 0 .. k : i \notin S}
<1> SUFFICES ASSUME C # {} PROVE FALSE
  OBVIOUS
<1>0. C \in SUBSET Nat
  OBVIOUS
<1>1. PICK n \in C : \A m \in C : n <= m
  <2> HIDE DEF C
  <2> QED
    BY <1>0, LeastNumber
<1>2. n \in 1 .. k /\ n - 1 \in 0 .. k
  BY <1>1
<1>3. n - 1 \in S
  BY <1>1, <1>2
<1> QED
  BY <1>1, <1>2, <1>3

\* A multiple of t between -t and t is 0.
LEMMA Multiple ==
    ASSUME NEW a \in Int, NEW b \in Int, NEW t \in Nat, a * t = b, b < t, -t < b
    PROVE  a = 0
<1>1. CASE a >= 1
  <2>1. (a - 1) * t >= 0
    BY <1>1
  <2> QED
    BY <2>1
<1>2. CASE a <= -1
  <2>1. (-1 - a) * t >= 0
    BY <1>2
  <2> QED
    BY <2>1
<1> QED
  BY <1>1, <1>2

LEMMA Division ==
    ASSUME NEW w \in Nat, NEW t \in Nat \ {0}
    PROVE  w % t \in 0 .. t - 1 /\ w \div t \in Nat /\ w = ((w \div t) * t) + (w % t)
OBVIOUS

LEMMA Remainder ==
    ASSUME NEW k \in Nat, NEW t \in Nat \ {0}, NEW n \in 0 .. t - 1
    PROVE  k * t + n \in Nat /\ (k * t + n) % t = n /\ (k * t + n) \div t = k
<1> DEFINE w == k * t + n
           q == w \div t
           m == w % t
<1>1. w \in Nat
  OBVIOUS
<1>2. m \in 0 .. t - 1 /\ q \in Nat /\ w = q * t + m
  BY <1>1, Division
<1>3. (k - q) * t = m - n
  <2> HIDE DEF q, m
  <2>1. k * t + n = q * t + m
    BY <1>2
  <2>2. (k - q) * t = k * t - q * t
    BY <1>2
  <2>3. k * t \in Int /\ q * t \in Int
    BY <1>2
  <2> QED
    BY <1>2, <2>1, <2>2, <2>3
<1>4. k - q = 0
  <2> HIDE DEF q, m
  <2>1. k - q \in Int /\ m - n \in Int /\ m - n < t /\ -t < m - n
    BY <1>2
  <2> QED
    BY <1>3, <2>1, Multiple
<1>5. m - n = 0
  <2> HIDE DEF q, m
  <2> QED
  BY <1>2, <1>3, <1>4
<1> QED
  <2> HIDE DEF q, m, w
  <2> QED
    BY <1>1, <1>2, <1>4, <1>5 DEF q, m, w

\* f has the sums of the first 0 .. k weights.
IsSum(f, ws, k) ==
    f \in [0 .. k -> Nat] /\ f[0] = 0 /\ \A i \in 1 .. k : f[i] = f[i - 1] + ws[i]

LEMMA SumExists ==
    ASSUME NEW ws \in Seq(Nat)
    PROVE  \E f : IsSum(f, ws, Len(ws))
<1> DEFINE S == {k \in 0 .. Len(ws) : \E f : IsSum(f, ws, k)}
<1>0. Len(ws) \in Nat /\ \A i \in 1 .. Len(ws) : ws[i] \in Nat
  OBVIOUS
<1>1. 0 \in S
  <2>1. IsSum([i \in 0 .. 0 |-> 0], ws, 0)
    BY DEF IsSum
  <2> QED
    BY <1>0, <2>1
<1>2. ASSUME NEW k \in 1 .. Len(ws), k - 1 \in S PROVE k \in S
  <2>1. PICK f : IsSum(f, ws, k - 1)
    BY <1>2
  <2> DEFINE g == [i \in 0 .. k |-> IF i = k THEN f[k - 1] + ws[k] ELSE f[i]]
  <2>2. \A i \in 0 .. k - 1 : f[i] \in Nat
    BY <2>1 DEF IsSum
  <2>3. g \in [0 .. k -> Nat]
    BY <1>0, <2>2
  <2>4. g[0] = 0
    BY <1>0, <2>1 DEF IsSum
  <2>5. ASSUME NEW i \in 1 .. k PROVE g[i] = g[i - 1] + ws[i]
    BY <1>0, <2>1, <2>2 DEF IsSum
  <2>6. IsSum(g, ws, k)
    <3> HIDE DEF g
    <3> QED
      BY <2>3, <2>4, <2>5 DEF IsSum
  <2> HIDE DEF g
  <2> QED
    BY <2>6
<1>3. Len(ws) \in S
  <2> HIDE DEF S
  <2>1. 0 .. Len(ws) \subseteq S
    BY <1>0, <1>1, <1>2, UpTo
  <2> QED
    BY <1>0, <2>1
<1> QED
  BY <1>3

\* The recursion of Sums has a solution, and its values are numbers.
LEMMA SumsDefined ==
    ASSUME NEW ws \in Seq(Nat)
    PROVE  IsSum(Sums(ws), ws, Len(ws))
<1> DEFINE Rec(f) == f = [i \in 0 .. Len(ws) |-> IF i = 0 THEN 0 ELSE f[i - 1] + ws[i]]
<1>0. Len(ws) \in Nat
  OBVIOUS
<1>1. PICK f : IsSum(f, ws, Len(ws))
  BY SumExists
<1>2. Rec(f)
  BY <1>0, <1>1 DEF IsSum
<1>3. Sums(ws) = CHOOSE g : Rec(g)
  BY DEF Sums
<1>4. Rec(Sums(ws))
  <2> HIDE DEF Rec
  <2> QED
    BY <1>2, <1>3
<1> DEFINE g == Sums(ws)
<1>5. DOMAIN g = 0 .. Len(ws) /\ g[0] = 0 /\ \A i \in 1 .. Len(ws) : g[i] = g[i - 1] + ws[i]
  <2> HIDE DEF g
  <2>1. g = [i \in 0 .. Len(ws) |-> IF i = 0 THEN 0 ELSE g[i - 1] + ws[i]]
    BY <1>4 DEF g
  <2> QED
    BY <1>0, <2>1
<1> DEFINE S == {i \in Nat : g[i] \in Nat}
<1>6. ASSUME NEW i \in 1 .. Len(ws), i - 1 \in S PROVE i \in S
  <2> HIDE DEF g
  <2>1. ws[i] \in Nat /\ g[i - 1] \in Nat /\ g[i] = g[i - 1] + ws[i]
    BY <1>0, <1>5, <1>6
  <2> QED
    BY <1>0, <2>1
<1>7. 0 \in S
  BY <1>5
<1>8. 0 .. Len(ws) \subseteq S
  <2> HIDE DEF S
  <2> QED
    BY <1>0, <1>6, <1>7, UpTo
<1>9. g = [i \in 0 .. Len(ws) |-> g[i]]
  <2> HIDE DEF g
  <2>1. g = [i \in 0 .. Len(ws) |-> IF i = 0 THEN 0 ELSE g[i - 1] + ws[i]]
    BY <1>4 DEF g
  <2> QED
    BY <2>1
<1> QED
  <2> HIDE DEF g
  <2>1. \A i \in 0 .. Len(ws) : g[i] \in Nat
    BY <1>8
  <2>2. IsSum(g, ws, Len(ws))
    BY <1>5, <1>9, <2>1 DEF IsSum
  <2> QED
    BY <2>2 DEF g

LEMMA SumsGrow ==
    ASSUME NEW ws \in Seq(Nat), NEW i \in 0 .. Len(ws), NEW j \in 0 .. Len(ws), i <= j
    PROVE  Sums(ws)[i] <= Sums(ws)[j]
<1> DEFINE f == Sums(ws)
           S == {k \in Nat : k <= Len(ws) => k < i \/ f[i] <= f[k]}
<1>0. IsSum(f, ws, Len(ws)) /\ Len(ws) \in Nat
  BY SumsDefined
<1> HIDE DEF f
<1>9. \A k \in 0 .. Len(ws) : f[k] \in Nat
  BY <1>0 DEF IsSum
<1>1. ASSUME NEW k \in 1 .. Len(ws)
      PROVE  ws[k] \in Nat /\ f[k] = f[k - 1] + ws[k] /\ f[k] \in Nat /\ f[k - 1] \in Nat
  <2>1. ws[k] \in Nat /\ k \in 0 .. Len(ws) /\ k - 1 \in 0 .. Len(ws)
    BY <1>0
  <2> QED
    BY <1>0, <1>9, <2>1 DEF IsSum
<1>2. f[0] = 0
  BY <1>0 DEF IsSum
<1>3. 0 \in S
  BY <1>0, <1>2
<1>4. ASSUME NEW k \in 1 .. Len(ws), k - 1 \in S PROVE k \in S
  <2>1. CASE k < i
    BY <2>1
  <2>2. CASE k = i
    BY <1>1, <2>2
  <2>3. CASE k > i
    <3>1. f[i] <= f[k - 1]
      BY <1>0, <1>4, <2>3
    <3>2. f[i] \in Nat /\ f[k - 1] \in Nat /\ f[k] = f[k - 1] + ws[k] /\ ws[k] \in Nat
      BY <1>1, <1>9
    <3>3. f[i] <= f[k]
      BY <3>1, <3>2
    <3> QED
      BY <1>0, <3>3
  <2> QED
    BY <2>1, <2>2, <2>3
<1>5. 0 .. Len(ws) \subseteq S
  <2> HIDE DEF S
  <2> QED
    BY <1>0, <1>3, <1>4, UpTo
<1> QED
  BY <1>5 DEF f

\* The loop of SelectWeighted ends at the entry whose share the number lies in.
LEMMA IndexOf ==
    ASSUME NEW ws \in Seq(Nat), NEW n \in Nat, n < Sums(ws)[Len(ws)]
    PROVE  /\ WeightedIndex(ws, n) \in 1 .. Len(ws)
           /\ \A i \in 1 .. Len(ws) :
                 WeightedIndex(ws, n) = i <=> Sums(ws)[i - 1] <= n /\ n < Sums(ws)[i]
<1> DEFINE f == Sums(ws)
           L == Len(ws)
           B == {i \in 1 .. L : n < f[i]}
           x == WeightedIndex(ws, n)
<1>0. IsSum(f, ws, L) /\ L \in Nat /\ \A i, j \in 0 .. L : i <= j => f[i] <= f[j]
  BY SumsDefined, SumsGrow
<1>1. x = IF B = {} THEN 0 ELSE CHOOSE i \in B : \A j \in B : i <= j
  BY DEF WeightedIndex
<1>9. n < f[L]
  OBVIOUS
<1> HIDE DEF f, x, L
<1>2. f[0] = 0 /\ \A i \in 0 .. L : f[i] \in Nat
  BY <1>0 DEF IsSum
<1>3. L \in B
  BY <1>0, <1>2, <1>9
<1>4. B \in SUBSET Nat /\ B # {}
  BY <1>0, <1>3
<1>5. x \in B /\ \A j \in B : x <= j
  <2> HIDE DEF B
  <2>1. \E i \in B : \A j \in B : i <= j
    BY <1>4, LeastNumber
  <2> QED
    BY <1>1, <1>4, <2>1
<1>6. ASSUME NEW i \in 1 .. L PROVE x = i <=> f[i - 1] <= n /\ n < f[i]
  <2>0. i - 1 \in 0 .. L /\ f[i - 1] \in Nat /\ f[i] \in Nat
    BY <1>0, <1>2
  <2>1. ASSUME x = i PROVE f[i - 1] <= n /\ n < f[i]
    <3>1. i - 1 \notin B
      BY <1>5, <2>1
    <3> QED
      BY <1>0, <1>2, <1>5, <2>0, <2>1, <3>1
  <2>2. ASSUME f[i - 1] <= n, n < f[i] PROVE x = i
    <3>1. x <= i
      BY <1>5, <2>2
    <3>2. ~(x <= i - 1)
      <4> SUFFICES ASSUME x <= i - 1 PROVE FALSE
        OBVIOUS
      <4>1. f[x] <= f[i - 1] /\ f[x] \in Nat /\ n < f[x]
        BY <1>0, <1>2, <1>5, <2>0
      <4> QED
        BY <2>0, <2>2, <4>1
    <3> QED
      BY <1>0, <1>5, <3>1, <3>2
  <2> QED
    BY <2>1, <2>2
<1> QED
  BY <1>5, <1>6 DEF f, x, L

\* Of K blocks of t numbers, those whose remainder lies in a .. b - 1.  Times keeps
\* the products out of the solvers' sight where the lemma is used.
Times(x, y) == x * y
Blocks(M, K, t, a, b) == {w \in 0 .. M : w < K * t /\ a <= w % t /\ w % t < b}

LEMMA CountBlocks ==
    ASSUME NEW t \in Nat \ {0}, NEW K \in Nat, NEW a \in Nat, NEW b \in Nat, a <= b, b <= t,
           NEW M \in Nat, Times(K, t) <= M
    PROVE  Cardinality(Blocks(M, K, t, a, b)) = Times(K, b - a)
<1> DEFINE D == {w \in 0 .. M : w < K * t /\ a <= w % t /\ w % t < b}
           P == (0 .. K - 1) \X (a .. b - 1)
           f == [p \in P |-> p[1] * t + p[2]]
<1>0. K * t <= M
  BY DEF Times
<1>1. IsFiniteSet(P) /\ Cardinality(P) = K * (b - a)
  <2>1. /\ IsFiniteSet(0 .. K - 1) /\ IsFiniteSet(a .. b - 1)
        /\ Cardinality(0 .. K - 1) = (IF 0 > K - 1 THEN 0 ELSE K - 1 - 0 + 1)
        /\ Cardinality(a .. b - 1) = (IF a > b - 1 THEN 0 ELSE b - 1 - a + 1)
    BY FS_Interval
  <2>2. Cardinality(0 .. K - 1) = K /\ Cardinality(a .. b - 1) = b - a
    BY <2>1
  <2> DEFINE X == 0 .. K - 1
             Y == a .. b - 1
  <2>3. IsFiniteSet(X) /\ IsFiniteSet(Y) /\ Cardinality(X) = K /\ Cardinality(Y) = b - a
    BY <2>1, <2>2
  <2> HIDE DEF X, Y
  <2>4. IsFiniteSet(X \X Y) /\ Cardinality(X \X Y) = Cardinality(X) * Cardinality(Y)
    BY <2>3, FS_Product
  <2>5. IsFiniteSet(X \X Y) /\ Cardinality(X \X Y) = K * (b - a)
    BY <2>3, <2>4
  <2> QED
    BY <2>5 DEF X, Y
<1>2. ASSUME NEW k \in 0 .. K - 1, NEW n \in a .. b - 1
      PROVE  /\ k * t + n \in D
             /\ (k * t + n) % t = n /\ (k * t + n) \div t = k
  <2>1. k \in Nat /\ n \in 0 .. t - 1
    OBVIOUS
  <2>2. k * t + n \in Nat /\ (k * t + n) % t = n /\ (k * t + n) \div t = k
    BY <2>1, Remainder
  <2>3. (K - 1 - k) * t >= 0
    BY <2>1
  <2>4. (K - 1 - k) * t = K * t - t - k * t
    BY <2>1
  <2>5. K * t \in Nat /\ k * t \in Nat
    BY <2>1
  <2>6. k * t + n < K * t
    BY <2>1, <2>3, <2>4, <2>5
  <2> QED
    BY <1>0, <2>1, <2>2, <2>5, <2>6
<1>3. ASSUME NEW w \in D
      PROVE  w \div t \in 0 .. K - 1 /\ w % t \in a .. b - 1 /\ w = ((w \div t) * t) + (w % t)
  <2> DEFINE q == w \div t
             m == w % t
  <2>1. w \in Nat /\ w < K * t /\ a <= m /\ m < b
    BY <1>3
  <2>2. m \in 0 .. t - 1 /\ q \in Nat /\ w = (q * t) + m
    BY <2>1, Division
  <2> HIDE DEF q, m
  <2>3. q < K
    <3> SUFFICES ASSUME q >= K PROVE FALSE
      BY <2>2
    <3>1. (q - K) * t >= 0
      BY <2>2
    <3>2. (q - K) * t = q * t - K * t /\ q * t \in Nat /\ K * t \in Nat
      BY <2>2
    <3> QED
      BY <2>1, <2>2, <3>1, <3>2
  <2>4. q \in 0 .. K - 1 /\ m \in a .. b - 1
    BY <2>1, <2>2, <2>3
  <2> QED
    BY <2>2, <2>4 DEF q, m
<1>4. \A p \in P : p[1] \in 0 .. K - 1 /\ p[2] \in a .. b - 1 /\ p = <<p[1], p[2]>>
  OBVIOUS
<1>5. f \in [P -> D]
  BY <1>2, <1>4
<1>6. \A p, r \in P : f[p] = f[r] => p = r
  <2> SUFFICES ASSUME NEW p \in P, NEW r \in P, f[p] = f[r] PROVE p = r
    OBVIOUS
  <2>1. p[1] * t + p[2] = r[1] * t + r[2]
    OBVIOUS
  <2>3. /\ (p[1] * t + p[2]) % t = p[2] /\ (p[1] * t + p[2]) \div t = p[1]
        /\ (r[1] * t + r[2]) % t = r[2] /\ (r[1] * t + r[2]) \div t = r[1]
    BY <1>2, <1>4
  <2>2. p[1] = r[1] /\ p[2] = r[2]
    BY <2>1, <2>3
  <2> QED
    BY <1>4, <2>2
<1>7. ASSUME NEW w \in D PROVE \E p \in P : f[p] = w
  <2> DEFINE p == <<w \div t, w % t>>
  <2>1. p \in P /\ p[1] = w \div t /\ p[2] = w % t
    BY <1>3
  <2> HIDE DEF p
  <2>2. f[p] = p[1] * t + p[2]
    BY <2>1
  <2>3. f[p] = w
    BY <1>3, <2>1, <2>2
  <2> QED
    BY <2>1, <2>3
<1>8. ExistsBijection(P, D)
  <2> HIDE DEF f, P
  <2> QED
    BY <1>5, <1>6, <1>7 DEF ExistsBijection, Bijection, Injection, Surjection, IsInjective
<1> QED
  <2> HIDE DEF P
  <2> QED
    BY <1>1, <1>8, FS_Bijection DEF Blocks, Times

\* The definitions a selection is made from have been validated.
Drawable(defs) ==
    defs = [i \in 1 .. Len(defs) |-> defs[i]] /\ Len(defs) \in Nat
    /\ \A i \in 1 .. Len(defs) : defs[i].weight \in Nat

LEMMA WeightsTyped ==
    ASSUME NEW defs, Drawable(defs)
    PROVE  Weights(defs) \in Seq(Nat) /\ Len(Weights(defs)) = Len(defs)
<1> DEFINE L == Len(defs)
           f == [i \in 1 .. L |-> IF defs[i].enabled /\ defs[i].weight > 0
                                  THEN defs[i].weight ELSE 0]
<1>1. L \in Nat /\ \A i \in 1 .. L : defs[i].weight \in Nat
  BY DEF Drawable
<1>2. f = Weights(defs)
  BY DEF Weights
<1> HIDE DEF L
<1>3. f \in [1 .. L -> Nat]
  BY <1>1
<1> HIDE DEF f
<1>4. f \in Seq(Nat) /\ Len(f) = L
  BY <1>1, <1>3
<1> QED
  BY <1>2, <1>4 DEF L

LEMMA SharesFollowWeights ==
    ASSUME NEW ws \in Seq(Nat), NEW t, t = Sums(ws)[Len(ws)], t > 0, NEW i \in 1 .. Len(ws)
    PROVE  Cardinality({w \in Words(t) : WeightedIndex(ws, CryptoUint(t, w)) = i})
             = (MaxWord \div t) * ws[i]
<1> DEFINE f == Sums(ws)
           K == MaxWord \div t
           D == {w \in Words(t) : WeightedIndex(ws, CryptoUint(t, w)) = i}
           E == {w \in 0 .. MaxWord : w < K * t /\ f[i - 1] <= w % t /\ w % t < f[i]}
<1>0. /\ IsSum(f, ws, Len(ws)) /\ Len(ws) \in Nat /\ MaxWord \in Nat
      /\ \A j \in 0 .. Len(ws) : f[j] <= t
  BY SumsDefined, SumsGrow, AdapterAssumption
<1>1. t \in Nat \ {0} /\ t = f[Len(ws)]
  BY <1>0 DEF IsSum
<1>2. K \in Nat /\ MaxWord = (K * t) + (MaxWord % t) /\ MaxWord % t \in 0 .. t - 1
  BY <1>0, <1>1, Division
<1>3. Ceiling(t) = K * t /\ K * t <= MaxWord
  <2> HIDE DEF K
  <2>0. K \in Nat /\ t \in Nat
    BY <1>1, <1>2
  <2>1. K * t \in Nat
    BY <2>0
  <2> QED
    BY <1>0, <1>2, <2>1 DEF Ceiling
<1>4. D = E
  <2> SUFFICES ASSUME NEW w \in 0 .. MaxWord, w < K * t
               PROVE  WeightedIndex(ws, CryptoUint(t, w)) = i <=> f[i - 1] <= w % t /\ w % t < f[i]
    BY <1>3 DEF Words
  <2> DEFINE n == w % t
  <2>1. n \in Nat /\ n < t
    BY <1>1
  <2> HIDE DEF n, f
  <2>2. WeightedIndex(ws, n) = i <=> f[i - 1] <= n /\ n < f[i]
    BY <1>1, <2>1, IndexOf DEF f
  <2> QED
    BY <2>2 DEF n, CryptoUint
<1>5. /\ f[i] \in Nat /\ f[i - 1] \in Nat /\ ws[i] \in Nat /\ f[i] = f[i - 1] + ws[i]
      /\ f[i] <= t
  <2>1. i \in 0 .. Len(ws) /\ i - 1 \in 0 .. Len(ws) /\ ws[i] \in Nat
    BY <1>0
  <2> HIDE DEF f
  <2> QED
    BY <1>0, <2>1 DEF IsSum
<1> HIDE DEF f, K
<1>6. Cardinality(E) = K * (f[i] - f[i - 1])
  <2> DEFINE a == f[i - 1]
             b == f[i]
  <2>1. a \in Nat /\ b \in Nat /\ a <= b /\ b <= t
    BY <1>5
  <2>2. K \in Nat /\ Times(K, t) <= MaxWord /\ MaxWord \in Nat /\ t \in Nat \ {0}
    BY <1>0, <1>1, <1>2, <1>3 DEF Times
  <2> HIDE DEF a, b, D, E
  <2>3. Cardinality(Blocks(MaxWord, K, t, a, b)) = Times(K, b - a)
    BY <2>1, <2>2, CountBlocks
  <2> QED
    BY <2>3 DEF a, b, E, Blocks, Times
<1>7. f[i] - f[i - 1] = ws[i]
  BY <1>5
<1> QED
  BY <1>4, <1>6, <1>7 DEF K

-------------------------------------------------------------------------------
(* What a route is generated from *)

\* The rows a request has seen, and what it has chosen among them.
SourceOK(r) == source[r].def.enabled /\ source[r] \in seen[r]

Row(x) == x = [provider |-> x.provider, def |-> x.def] /\ Accepted(x.def)

\* What is stored, or about to be, is a definition with the secrets of one.
Secrets == {d.secrets : d \in Definitions}

PutInv ==
    /\ \A p \in Providers : provider[p] # None => provider[p].secrets \in Secrets
    /\ \A r \in PutRequests : step[r] = "upsert" =>
          /\ put[r].provider \in Providers
          /\ put[r] = [provider |-> put[r].provider, def |-> put[r].def]
          /\ put[r].def # None
          /\ put[r].def.secrets \in Secrets

SeenTypeOK ==
    /\ ids \in [RouteRequests -> SUBSET Providers]
    /\ listed = [r \in RouteRequests |-> listed[r]]
    /\ source = [r \in RouteRequests |-> source[r]]
    /\ seen = [r \in RouteRequests |-> seen[r]]

\* A request that generates has chosen among rows it has seen, and seen is all that
\* the rows have been since it began; one that has not begun has no transaction.
SeenAt(r) ==
    /\ \A x \in seen[r] : Row(x)
    /\ listed[r] \in Seq(seen[r])
    /\ \A p \in ids[r] : provider[p] # None
    /\ step[r] = "idle" => listed[r] = <<>> /\ pc[r] = "idle"
    /\ step[r] # "idle" => CurrentRows \subseteq seen[r]
    /\ step[r] \in {"generate", "deploy"} \/ pc[r] # "idle" => SourceOK(r)

\* A row of device_routes belongs to a request that has begun its transaction.
OwnerInv ==
    /\ \A o \in rows : o.cred # None => pc[o.cred] # "idle"
    /\ \A q \in RouteRequests : \A o \in made[q] : o.cred # None => pc[o.cred] # "idle"

GeneratedInv ==
    /\ PutInv /\ SeenTypeOK /\ OwnerInv
    /\ \A r \in ManualRequests : listed[r] = <<>>
    /\ \A r \in RouteRequests \ ManualRequests : SeenAt(r)

LEMMA WiderSeq ==
    ASSUME NEW S, NEW T, S \subseteq T, NEW q \in Seq(S)
    PROVE  q \in Seq(T)
OBVIOUS

\* What a step of a transaction does to the rows.
RowsFrom(r) ==
    /\ pc[r] # "idle" /\ pc'[r] # "idle"
    /\ \A q \in RouteRequests \ {r} : pc'[q] = pc[q] /\ made'[q] = made[q]
    /\ \A o \in rows' : o \in rows \/ o \in made[r]
    /\ \A o \in made'[r] : o \in made[r] \/ o.cred = r \/ \E p \in rows : o.cred = p.cred

LEMMA TxStepRows ==
    ASSUME TxInv, NEW r \in RouteRequests, TxStep(r)
    PROVE  RowsFrom(r)
<1>0. /\ rows \in SUBSET Rows /\ pc \in [RouteRequests -> Steps]
      /\ made \in [RouteRequests -> SUBSET Rows]
  BY DEF TxInv, TxTypeOK
<1>1. ASSUME NEW new, NEW next, next # "idle", pc[r] # "idle", Change(r, new, next),
             \A o \in new : o.cred = r \/ \E p \in rows : o.cred = p.cred
      PROVE  RowsFrom(r)
  BY <1>0, <1>1 DEF Change, RowsFrom
<1>2. ASSUME NEW next, next # "idle", pc[r] # "idle", Rollback(r) \/ CommitRows(r), Goto(r, next)
      PROVE  RowsFrom(r)
  BY <1>0, <1>2 DEF Rollback, CommitRows, EndTransaction, Goto, RowsFrom
<1>3. ASSUME NEW next, next # "idle", pc[r] # "idle", UNCHANGED <<rows, made>>,
             pc' = [pc EXCEPT ![r] = next]
      PROVE  RowsFrom(r)
  BY <1>0, <1>3 DEF RowsFrom
<1>d. "done" # "idle" /\ "staged" # "idle"
  OBVIOUS
<1>4. CASE InsertRoute(r)
  <2> DEFINE new == {[version |-> Version(r), cred |-> r, status |-> "pending"]}
  <2>1. \A o \in new : o.cred = r \/ \E p \in rows : o.cred = p.cred
    OBVIOUS
  <2>2. /\ pc[r] # "idle" /\ "commit_stage" # "idle"
        /\ Change(r, new, "commit_stage") \/ (Rollback(r) /\ Goto(r, "done"))
    BY <1>4 DEF InsertRoute, After
  <2> HIDE DEF new
  <2>3. CASE Change(r, new, "commit_stage")
    BY <1>1, <2>1, <2>2, <2>3
  <2>4. CASE Rollback(r) /\ Goto(r, "done")
    BY <1>2, <1>d, <2>2, <2>4
  <2> QED
    BY <2>2, <2>3, <2>4
<1>5. ASSUME NEW s \in {"superseded", "active"}
      PROVE  \A o \in {As(p, s) : p \in StillThere(r)} : \E p \in rows : o.cred = p.cred
  BY <1>0, AsFacts DEF StillThere
<1>6. CASE SupersedeActive(r)
  <2> DEFINE new == {As(o, "superseded") : o \in StillThere(r)}
  <2>1. Change(r, new, "find_staged") /\ pc[r] # "idle" /\ "find_staged" # "idle"
    BY <1>6 DEF SupersedeActive
  <2>2. \A o \in new : o.cred = r \/ \E p \in rows : o.cred = p.cred
    BY <1>5
  <2> HIDE DEF new
  <2> QED
    BY <1>1, <2>1, <2>2
<1>7. CASE ActivateStaged(r)
  <2> DEFINE new == {As(o, "active") : o \in StillThere(r)}
  <2>1. /\ pc[r] # "idle" /\ "commit_activate" # "idle"
        /\ Change(r, new, "commit_activate") \/ (Rollback(r) /\ Goto(r, "done"))
    BY <1>7 DEF ActivateStaged
  <2>2. \A o \in new : o.cred = r \/ \E p \in rows : o.cred = p.cred
    BY <1>5
  <2> HIDE DEF new
  <2>3. CASE Change(r, new, "commit_activate")
    BY <1>1, <2>1, <2>2, <2>3
  <2>4. CASE Rollback(r) /\ Goto(r, "done")
    BY <1>2, <1>d, <2>1, <2>4
  <2> QED
    BY <2>1, <2>3, <2>4
<1>8. CASE DeletePending(r)
  <2>1. pc[r] # "idle" /\ "insert" # "idle" /\ Change(r, {}, "insert")
    BY <1>8 DEF DeletePending, After
  <2>2. \A o \in {} : o.cred = r \/ \E p \in rows : o.cred = p.cred
    OBVIOUS
  <2> QED
    BY <1>1, <2>1, <2>2
<1>9. CASE LockDevice(r) \/ BeginActivate(r) \/ NotPrepared(r) \/ LoseCommit(r)
      \/ FindPending(r) \/ FindActive(r) \/ FindStaged(r)
  BY <1>0, <1>9 DEF LockDevice, BeginActivate, NotPrepared, LoseCommit, Goto, After, FindPending,
                    FindActive, FindStaged, Find, RowsFrom
<1>11. CASE CheckVersion(r)
  <2>0. pc[r] # "idle"
    BY <1>11 DEF CheckVersion
  <2>1. CASE ActiveIs(expected[r])
    BY <1>0, <1>11, <2>0, <2>1 DEF CheckVersion, Find, After, RowsFrom
  <2>2. CASE ~ActiveIs(expected[r])
    <3>1. Rollback(r) /\ Goto(r, "done")
      BY <1>11, <2>2 DEF CheckVersion
    <3> QED
      BY <1>2, <1>d, <2>0, <3>1
  <2> QED
    BY <2>1, <2>2
<1>12. CASE CommitStage(r)
  <2>1. pc[r] # "idle" /\ CommitRows(r) /\ Goto(r, "staged")
    BY <1>12 DEF CommitStage
  <2> QED
    BY <1>2, <1>d, <2>1
<1>13. CASE CommitActivate(r) \/ Abort(r) \/ EndLost(r)
  <2>a. CommitActivate(r) => pc[r] # "idle"
    BY DEF CommitActivate
  <2>b. Abort(r) \/ EndLost(r) => pc[r] \in Staging \union Activating \union Lost
    BY Zenon DEF Abort, EndLost
  <2>c. pc[r] \in Staging \union Activating \union Lost => pc[r] # "idle"
    BY DEF Staging, Activating, Lost
  <2>1. pc[r] # "idle"
    BY <1>13, <2>a, <2>b, <2>c, Zenon
  <2>2. Rollback(r) \/ CommitRows(r)
    BY <1>13, Zenon DEF CommitActivate, Abort, EndLost
  <2>3. Goto(r, "done")
    BY <1>13, Zenon DEF CommitActivate, Abort, EndLost
  <2> QED
    BY <1>2, <1>d, <2>1, <2>2, <2>3
<1> QED
  BY <1>4, <1>6, <1>7, <1>8, <1>9, <1>11, <1>12, <1>13 DEF TxStep

\* A request's rows appear after it has begun, and it stays begun.
LEMMA TxOwners ==
    ASSUME TxInv, OwnerInv, NEW r \in RouteRequests, TxStep(r)
    PROVE  /\ OwnerInv' /\ pc[r] # "idle"
           /\ \A q \in RouteRequests : pc'[q] = "idle" <=> pc[q] = "idle"
<1>0. /\ rows \in SUBSET Rows /\ pc \in [RouteRequests -> Steps]
      /\ made \in [RouteRequests -> SUBSET Rows]
      /\ \A o \in Rows : o.cred \in RouteRequests \union {None}
  BY DEF TxInv, TxTypeOK, Rows
<1>1. pc[r] # "idle" /\ \A q \in RouteRequests : pc'[q] = "idle" <=> pc[q] = "idle"
  BY <1>0, TxStepRows DEF RowsFrom
<1>2. ASSUME NEW o, o \in rows' PROVE o.cred # None => pc'[o.cred] # "idle"
  <2>1. o \in rows \/ o \in made[r]
    BY <1>2, TxStepRows DEF RowsFrom
  <2> QED
    BY <1>0, <1>1, <2>1 DEF OwnerInv
<1>3. ASSUME NEW q \in RouteRequests, NEW o \in made'[q]
      PROVE  o.cred # None => pc'[o.cred] # "idle"
  <2>1. o \in made[q] \/ o.cred = r \/ \E p \in rows : o.cred = p.cred
    BY <1>0, <1>3, TxStepRows DEF RowsFrom
  <2> QED
    BY <1>0, <1>1, <2>1 DEF OwnerInv
<1> QED
  BY <1>1, <1>2, <1>3 DEF OwnerInv

\* The definition a put writes.
LEMMA KeptSecrets ==
    ASSUME PutInv, NEW p \in Providers, NEW b \in PutBodies
    PROVE  KeepSecrets(p, b) # None /\ KeepSecrets(p, b).secrets \in Secrets
<1>1. CASE DOMAIN b.secrets = {} /\ provider[p] # None
  <2>1. PICK d \in Definitions : provider[p].secrets = d.secrets
    BY <1>1 DEF PutInv, Secrets
  <2>2. KeepSecrets(p, b) = WithSecrets(b, d.secrets)
    BY <1>1, <2>1 DEF KeepSecrets
  <2>3. WithSecrets(b, d.secrets) # None
    BY RoutesAssumption
  <2>4. WithSecrets(b, d.secrets).secrets = d.secrets
    BY DEF WithSecrets
  <2> QED
    BY <2>2, <2>3, <2>4 DEF Secrets
<1>2. CASE ~(DOMAIN b.secrets = {} /\ provider[p] # None)
  <2>1. KeepSecrets(p, b) = b
    BY <1>2 DEF KeepSecrets
  <2> QED
    BY <2>1, RoutesAssumption DEF Secrets, Definitions
<1> QED
  BY <1>1, <1>2

LEMMA CurrentFacts ==
    ASSUME ProviderInv, PutInv
    PROVE  /\ \A x \in CurrentRows : Row(x)
           /\ \A p \in Providers : provider[p] # None =>
                 [provider |-> p, def |-> provider[p]] \in CurrentRows
BY DEF CurrentRows, Row, ProviderInv

\* A step that is not the request's leaves what it knows.
LEMMA SameAt ==
    ASSUME NEW q, SeenAt(q), provider' = provider, step'[q] = step[q], ids'[q] = ids[q],
           listed'[q] = listed[q], source'[q] = source[q], seen'[q] = seen[q],
           pc'[q] = "idle" <=> pc[q] = "idle"
    PROVE  SeenAt(q)'
<1>1. CurrentRows' = CurrentRows
  BY DEF CurrentRows
<1> QED
  BY <1>1 DEF SeenAt, SourceOK

\* Steps before the transaction leave the rows of routes alone.
LEMMA SameOwners ==
    ASSUME OwnerInv, UNCHANGED txVars
    PROVE  OwnerInv'
BY DEF OwnerInv, txVars

LEMMA PutProviderGen ==
    ASSUME ProviderInv, GeneratedInv, NEW r \in PutRequests, NEW p \in Providers,
           NEW b \in PutBodies, PutProvider(r, p, b)
    PROVE  GeneratedInv'
<1> DEFINE k == KeepSecrets(p, b)
<1>1. k # None /\ k.secrets \in Secrets
  BY KeptSecrets DEF GeneratedInv
<1> HIDE DEF k
<1>2. /\ UNCHANGED txVars
      /\ UNCHANGED <<provider, ids, listed, source, seen>>
      /\ \A q \in RouteRequests : step'[q] = step[q]
  BY RoutesAssumption DEF PutProvider, Go, ProviderInv
<1>3. PutInv'
  <2>1. CASE Validate(k)
    <3> DEFINE e == [provider |-> p, def |-> k]
    <3>1. e = [provider |-> e.provider, def |-> e.def] /\ e.provider = p /\ e.def = k
      OBVIOUS
    <3> HIDE DEF e
    <3>2. put' = [put EXCEPT ![r] = e] /\ step' = [step EXCEPT ![r] = "upsert"]
      BY <2>1 DEF PutProvider, Go, e, k
    <3> QED
      BY <1>1, <1>2, <3>1, <3>2 DEF GeneratedInv, PutInv, ProviderInv
  <2>2. CASE ~Validate(k)
    <3>1. put' = put /\ step' = [step EXCEPT ![r] = "done"]
      BY <2>2 DEF PutProvider, Go, k
    <3> QED
      BY <1>2, <3>1 DEF GeneratedInv, PutInv, ProviderInv
  <2> QED
    BY <2>1, <2>2
<1>4. OwnerInv' /\ SeenTypeOK'
  BY <1>2, SameOwners DEF GeneratedInv, SeenTypeOK
<1>5. \A q \in RouteRequests \ ManualRequests : SeenAt(q)'
  BY <1>2, SameAt DEF GeneratedInv, txVars
<1> QED
  BY <1>2, <1>3, <1>4, <1>5 DEF GeneratedInv

LEMMA UpsertProviderGen ==
    ASSUME ProviderInv, GeneratedInv, NEW r \in PutRequests, UpsertProvider(r)
    PROVE  GeneratedInv'
<1> DEFINE x == put[r]
<1>1. /\ x.provider \in Providers /\ x = [provider |-> x.provider, def |-> x.def]
      /\ x.def # None /\ x.def.secrets \in Secrets /\ Accepted(x.def)
  BY DEF GeneratedInv, PutInv, ProviderInv, UpsertProvider
<1>2. /\ UNCHANGED txVars /\ UNCHANGED <<put, ids, listed, source>>
      /\ provider' = [provider EXCEPT ![x.provider] = x.def]
      /\ seen' = [q \in RouteRequests |-> IF step[q] = "idle" THEN seen[q] ELSE seen[q] \union {x}]
      /\ step' = [step EXCEPT ![r] = "done"]
  BY DEF UpsertProvider, Go
<1>3. \A q \in RouteRequests : step'[q] = step[q]
  BY <1>2, RoutesAssumption DEF ProviderInv
<1> HIDE DEF x
<1>4. PutInv'
  BY <1>1, <1>2 DEF GeneratedInv, PutInv, ProviderInv
<1>5. OwnerInv' /\ SeenTypeOK'
  BY <1>2, SameOwners DEF GeneratedInv, SeenTypeOK
<1>6. ASSUME NEW q \in RouteRequests \ ManualRequests PROVE SeenAt(q)'
  <2>0. SeenAt(q)
    BY DEF GeneratedInv
  <2>1. Row(x)
    BY <1>1 DEF Row
  <2>2. /\ seen[q] \subseteq seen'[q] /\ \A y \in seen'[q] : y \in seen[q] \/ y = x
        /\ step[q] # "idle" => x \in seen'[q]
    BY <1>2
  <2>3. listed'[q] \in Seq(seen'[q])
    BY <1>2, <2>0, <2>2, WiderSeq DEF SeenAt
  <2>4. \A p \in ids'[q] : provider'[p] # None
    BY <1>1, <1>2, <2>0 DEF SeenAt, GeneratedInv, SeenTypeOK, ProviderInv
  <2>5. \A y \in CurrentRows' : y \in CurrentRows \/ y = x
    <3> SUFFICES ASSUME NEW p \in Providers, provider'[p] # None
                 PROVE  \/ [provider |-> p, def |-> provider'[p]] \in CurrentRows
                        \/ [provider |-> p, def |-> provider'[p]] = x
      BY DEF CurrentRows
    <3>1. CASE p = x.provider
      BY <1>1, <1>2, <3>1 DEF ProviderInv
    <3>2. CASE p # x.provider
      BY <1>1, <1>2, <3>2 DEF ProviderInv, CurrentRows
    <3> QED
      BY <3>1, <3>2
  <2>6. step'[q] # "idle" => CurrentRows' \subseteq seen'[q]
    <3>1. step[q] # "idle" => CurrentRows \subseteq seen[q]
      BY <2>0 DEF SeenAt
    <3> QED
      BY <1>3, <2>2, <2>5, <3>1
  <2>7. pc' = pc /\ source' = source /\ listed' = listed
    BY <1>2 DEF txVars
  <2> QED
    BY <1>3, <2>0, <2>1, <2>2, <2>3, <2>4, <2>6, <2>7 DEF SeenAt, SourceOK
<1> QED
  BY <1>2, <1>4, <1>5, <1>6 DEF GeneratedInv

\* A step of one request: what is left of the others.
LEMMA OneRequest ==
    ASSUME ProviderInv, GeneratedInv, NEW r \in RouteRequests \ ManualRequests,
           UNCHANGED txVars, provider' = provider, put' = put,
           step'[r] # "upsert", step' = [step EXCEPT ![r] = step'[r]],
           SeenTypeOK', SeenAt(r)',
           \A q \in RouteRequests \ {r} :
              /\ ids'[q] = ids[q] /\ listed'[q] = listed[q]
              /\ source'[q] = source[q] /\ seen'[q] = seen[q]
    PROVE  GeneratedInv'
<1>1. \A q \in (PutRequests \union RouteRequests) \ {r} : step'[q] = step[q]
  BY DEF ProviderInv
<1>2. r \notin PutRequests /\ r \notin ManualRequests /\ ManualRequests \subseteq RouteRequests
  BY RoutesAssumption
<1>3. PutInv'
  BY <1>1, <1>2 DEF GeneratedInv, PutInv
<1>4. OwnerInv'
  BY SameOwners DEF GeneratedInv
<1>5. pc' = pc
  BY DEF txVars
<1>6. ASSUME NEW q \in RouteRequests \ ManualRequests, q # r PROVE SeenAt(q)'
  BY <1>1, <1>5, <1>6, SameAt DEF GeneratedInv
<1>7. \A q \in ManualRequests : listed'[q] = <<>>
  BY <1>2 DEF GeneratedInv
<1> QED
  BY <1>3, <1>4, <1>6, <1>7 DEF GeneratedInv

LEMMA GetProviderGen ==
    ASSUME ProviderInv, GeneratedInv, NEW r \in RouteRequests \ ManualRequests, NEW p \in Providers,
           GetProvider(r, p)
    PROVE  GeneratedInv'
<1> DEFINE x == [provider |-> p, def |-> provider[p]]
           next == IF provider[p] # None /\ MayUse(provider[p]) THEN "generate" ELSE "done"
<1>0. /\ SeenAt(r) /\ SeenTypeOK /\ step = [q \in PutRequests \union RouteRequests |-> step[q]]
      /\ \A y \in CurrentRows : Row(y)
  BY CurrentFacts DEF GeneratedInv, ProviderInv
<1>1. /\ UNCHANGED txVars /\ UNCHANGED <<provider, put, ids, listed>> /\ step[r] = "idle"
      /\ seen' = [seen EXCEPT ![r] = CurrentRows] /\ step' = [step EXCEPT ![r] = next]
      /\ source' = source \/ source' = [source EXCEPT ![r] = x]
      /\ next = "generate" => source' = [source EXCEPT ![r] = x]
  BY DEF GetProvider, Chosen, Refuse, Go
<1>2. next = "generate" => x.def.enabled /\ x \in CurrentRows
  BY CurrentFacts DEF GeneratedInv, MayUse
<1>3. next \in {"generate", "done"} /\ pc' = pc /\ CurrentRows' = CurrentRows
  BY <1>1 DEF txVars, CurrentRows
<1> HIDE DEF x, next
<1>4. /\ SeenTypeOK' /\ seen'[r] = CurrentRows /\ step'[r] = next
      /\ next = "generate" => source'[r] = x
      /\ \A q \in RouteRequests \ {r} : seen'[q] = seen[q] /\ source'[q] = source[q]
  BY <1>0, <1>1 DEF SeenTypeOK
<1>5. listed[r] = <<>> /\ pc[r] = "idle" /\ <<>> \in Seq(CurrentRows)
  BY <1>0, <1>1 DEF SeenAt
<1>6. SeenAt(r)'
  BY <1>0, <1>1, <1>2, <1>3, <1>4, <1>5 DEF SeenAt, SourceOK
<1> QED
  BY <1>1, <1>3, <1>4, <1>6, OneRequest

LEMMA ListIdsGen ==
    ASSUME ProviderInv, GeneratedInv, NEW r \in RouteRequests \ ManualRequests, ListIds(r)
    PROVE  GeneratedInv'
<1> DEFINE P == {p \in Providers : provider[p] # None}
<1>0. /\ SeenAt(r) /\ SeenTypeOK /\ step = [q \in PutRequests \union RouteRequests |-> step[q]]
      /\ \A y \in CurrentRows : Row(y)
  BY CurrentFacts DEF GeneratedInv, ProviderInv
<1>1. /\ UNCHANGED txVars /\ UNCHANGED <<provider, put, listed, source>> /\ step[r] = "idle"
      /\ seen' = [seen EXCEPT ![r] = CurrentRows] /\ step' = [step EXCEPT ![r] = "list"]
      /\ ids' = [ids EXCEPT ![r] = P]
  BY DEF ListIds, Go
<1>3. pc' = pc /\ CurrentRows' = CurrentRows /\ P \subseteq Providers
      /\ \A p \in P : provider[p] # None
  BY <1>1 DEF txVars, CurrentRows
<1> HIDE DEF P
<1>4. /\ SeenTypeOK' /\ seen'[r] = CurrentRows /\ step'[r] = "list" /\ ids'[r] = P
      /\ \A q \in RouteRequests \ {r} : seen'[q] = seen[q] /\ ids'[q] = ids[q]
  BY <1>0, <1>1, <1>3 DEF SeenTypeOK
<1>5. listed[r] = <<>> /\ pc[r] = "idle" /\ <<>> \in Seq(CurrentRows)
  BY <1>0, <1>1 DEF SeenAt
<1>6. SeenAt(r)'
  BY <1>0, <1>1, <1>3, <1>4, <1>5 DEF SeenAt, SourceOK
<1> QED
  BY <1>1, <1>3, <1>4, <1>6, OneRequest

LEMMA ListNextGen ==
    ASSUME ProviderInv, GeneratedInv, NEW r \in RouteRequests \ ManualRequests, ListNext(r)
    PROVE  GeneratedInv'
<1> DEFINE p == CHOOSE p \in ids[r] : \A q \in ids[r] : p <= q
           x == [provider |-> p, def |-> provider[p]]
<1>0. /\ SeenAt(r) /\ SeenTypeOK /\ step = [q \in PutRequests \union RouteRequests |-> step[q]]
  BY DEF GeneratedInv, ProviderInv
<1>1. /\ UNCHANGED txVars /\ UNCHANGED <<provider, step, put, source, seen>>
      /\ step[r] = "list" /\ ids[r] # {}
      /\ listed' = [listed EXCEPT ![r] = Append(@, x)]
      /\ ids' = [ids EXCEPT ![r] = @ \ {p}]
  BY DEF ListNext
<1>2. p \in ids[r]
  <2>1. ids[r] \in SUBSET Nat
    BY <1>0, RoutesAssumption DEF SeenTypeOK
  <2>2. \E n \in ids[r] : \A m \in ids[r] : n <= m
    BY <1>1, <2>1, LeastNumber
  <2> QED
    BY <2>2
<1> HIDE DEF p
<1>3. x \in CurrentRows
  <2>1. p \in Providers /\ provider[p] # None
    BY <1>0, <1>2 DEF SeenTypeOK, SeenAt
  <2> QED
    BY <2>1, CurrentFacts DEF GeneratedInv
<1> HIDE DEF x
<1>4. pc' = pc /\ CurrentRows' = CurrentRows
  BY <1>1 DEF txVars, CurrentRows
<1>5. /\ SeenTypeOK' /\ listed'[r] = Append(listed[r], x) /\ ids'[r] = ids[r] \ {p}
      /\ \A q \in RouteRequests \ {r} : listed'[q] = listed[q] /\ ids'[q] = ids[q]
  BY <1>0, <1>1 DEF SeenTypeOK
<1>6. Append(listed[r], x) \in Seq(seen[r])
  <2>1. x \in seen[r] /\ listed[r] \in Seq(seen[r])
    BY <1>0, <1>1, <1>3 DEF SeenAt
  <2> DEFINE S == seen[r]
             q == listed[r]
  <2> HIDE DEF S, q
  <2>2. x \in S /\ q \in Seq(S)
    BY <2>1 DEF S, q
  <2>3. Append(q, x) \in Seq(S)
    BY <2>2
  <2> QED
    BY <2>3 DEF S, q
<1>7. SeenAt(r)'
  BY <1>0, <1>1, <1>4, <1>5, <1>6 DEF SeenAt, SourceOK
<1>8. step' = [step EXCEPT ![r] = step'[r]] /\ step'[r] # "upsert"
  BY <1>0, <1>1
<1> QED
  BY <1>1, <1>4, <1>5, <1>7, <1>8, OneRequest

\* What a request has read is what SelectWeighted may draw from.
LEMMA ReadIsDrawable ==
    ASSUME GeneratedInv, NEW r \in RouteRequests
    PROVE  /\ Drawable(Defs(r)) /\ Len(Defs(r)) = Len(listed[r]) /\ Len(listed[r]) \in Nat
           /\ \A i \in 1 .. Len(listed[r]) : Defs(r)[i] = listed[r][i].def
<1> DEFINE q == listed[r]
           defs == Defs(r)
<1>1. Len(q) \in Nat /\ \A i \in 1 .. Len(q) : q[i].def.weight \in Nat
  <2>1. CASE r \in ManualRequests
    BY <2>1 DEF GeneratedInv
  <2>2. CASE r \notin ManualRequests
    <3>1. q \in Seq(seen[r]) /\ \A x \in seen[r] : Row(x)
      BY <2>2 DEF GeneratedInv, SeenAt
    <3> HIDE DEF q
    <3>2. Len(q) \in Nat /\ \A i \in 1 .. Len(q) : q[i] \in seen[r]
      BY <3>1
    <3>3. \A x : Row(x) => x.def.weight \in Nat
      BY AdapterAssumption DEF Row, Accepted, Validate
    <3> QED
      BY <3>1, <3>2, <3>3
  <2> QED
    BY <2>1, <2>2
<1>2. defs = [i \in 1 .. Len(q) |-> q[i].def]
  BY DEF Defs
<1> HIDE DEF q, defs
<1>3. Len(defs) = Len(q)
  BY <1>1, <1>2
<1> QED
  BY <1>1, <1>2, <1>3 DEF q, defs, Drawable

\* A draw finds a definition that is enabled.
LEMMA DrawnIsEnabled ==
    ASSUME NEW defs, Drawable(defs), ~CannotSelect(defs), NEW w \in Words(TotalWeight(defs))
    PROVE  /\ SelectWeighted(defs, w) \in 1 .. Len(defs)
           /\ defs[SelectWeighted(defs, w)].enabled
<1> DEFINE ws == Weights(defs)
           t == TotalWeight(defs)
           n == CryptoUint(t, w)
           k == WeightedIndex(ws, n)
<1>0. ws \in Seq(Nat) /\ Len(ws) = Len(defs) /\ Len(defs) \in Nat
  BY WeightsTyped DEF Drawable
<1>1. t = Sums(ws)[Len(ws)] /\ t # 0
  BY DEF TotalWeight, CannotSelect
<1>2. w \in Nat
  BY DEF Words
<1>3. SelectWeighted(defs, w) = k
  BY DEF SelectWeighted
<1>4. \A i \in 1 .. Len(defs) : ws[i] > 0 => defs[i].enabled
  <2> SUFFICES ASSUME NEW i \in 1 .. Len(defs), ~defs[i].enabled PROVE ws[i] = 0
    OBVIOUS
  <2> QED
    BY <1>0 DEF Weights
<1>5. n = w % t
  BY DEF CryptoUint
<1> HIDE DEF ws, t, n, k
<1>6. IsSum(Sums(ws), ws, Len(ws))
  BY <1>0, SumsDefined
<1>7. t \in Nat \ {0}
  BY <1>0, <1>1, <1>6 DEF IsSum
<1>8. n \in Nat /\ n < t
  BY <1>2, <1>5, <1>7
<1>9. k \in 1 .. Len(ws) /\ Sums(ws)[k - 1] <= n /\ n < Sums(ws)[k]
  BY <1>0, <1>1, <1>8, IndexOf DEF k
<1>10. ws[k] > 0
  <2>1. ws[k] \in Nat /\ k - 1 \in 0 .. Len(ws) /\ k \in 0 .. Len(ws)
    BY <1>0, <1>9
  <2>2. Sums(ws)[k] = Sums(ws)[k - 1] + ws[k] /\ Sums(ws)[k - 1] \in Nat
    BY <1>6, <1>9, <2>1 DEF IsSum
  <2> QED
    BY <1>8, <1>9, <2>1, <2>2
<1> QED
  BY <1>0, <1>3, <1>4, <1>9, <1>10

LEMMA SelectGen ==
    ASSUME ProviderInv, GeneratedInv, NEW r \in RouteRequests \ ManualRequests, Select(r)
    PROVE  GeneratedInv'
<1>0. /\ SeenAt(r) /\ SeenTypeOK /\ step = [q \in PutRequests \union RouteRequests |-> step[q]]
  BY DEF GeneratedInv, ProviderInv
<1>1. /\ UNCHANGED txVars /\ UNCHANGED <<provider, put, ids, seen>>
      /\ step[r] = "list" /\ listed' = [listed EXCEPT ![r] = <<>>]
  BY DEF Select
<1>2. pc' = pc /\ CurrentRows' = CurrentRows
  BY <1>1 DEF txVars, CurrentRows
<1>e. <<>> \in Seq(seen[r])
  OBVIOUS
<1>3. /\ listed'[r] = <<>>
      /\ listed' = [q \in RouteRequests |-> listed'[q]]
      /\ \A q \in RouteRequests \ {r} : listed'[q] = listed[q]
  BY <1>0, <1>1 DEF SeenTypeOK
<1>4. CASE Refuse(r)
  <2>1. source' = source /\ step' = [step EXCEPT ![r] = "done"]
    BY <1>4 DEF Refuse, Go
  <2>2. step'[r] = "done" /\ SeenTypeOK'
    BY <1>0, <1>1, <1>3, <2>1 DEF SeenTypeOK
  <2>3. SeenAt(r)'
    BY <1>e, <1>0, <1>1, <1>2, <1>3, <2>1, <2>2 DEF SeenAt, SourceOK
  <2> QED
    BY <1>1, <1>2, <1>3, <2>1, <2>2, <2>3, OneRequest
<1>5. CASE ~Refuse(r)
  <2>1. /\ ~CannotSelect(Defs(r)) /\ step' = [step EXCEPT ![r] = "generate"]
        /\ \E w \in Words(TotalWeight(Defs(r))) :
              Chosen(r, listed[r][SelectWeighted(Defs(r), w)].provider,
                        listed[r][SelectWeighted(Defs(r), w)].def)
    BY <1>5 DEF Select, Go
  <2>2. PICK w \in Words(TotalWeight(Defs(r))) :
              Chosen(r, listed[r][SelectWeighted(Defs(r), w)].provider,
                        listed[r][SelectWeighted(Defs(r), w)].def)
    BY <2>1
  <2> DEFINE k == SelectWeighted(Defs(r), w)
             x == listed[r][k]
  <2>3. k \in 1 .. Len(listed[r]) /\ Defs(r)[k].enabled /\ Defs(r)[k] = x.def
    BY <2>1, ReadIsDrawable, DrawnIsEnabled
  <2>4. source' = [source EXCEPT ![r] = [provider |-> x.provider, def |-> x.def]]
    BY <2>2 DEF Chosen
  <2> HIDE DEF k
  <2>5. x \in seen[r]
    <3> DEFINE q == listed[r]
               S == seen[r]
    <3>1. q \in Seq(S)
      BY <1>0 DEF SeenAt
    <3> HIDE DEF q, S
    <3>2. \A i \in 1 .. Len(q) : q[i] \in S
      BY <3>1
    <3> QED
      BY <2>3, <3>2 DEF q, S
  <2> HIDE DEF x
  <2>6. x = [provider |-> x.provider, def |-> x.def] /\ x.def.enabled
    <3>1. x = [provider |-> x.provider, def |-> x.def]
      BY <1>0, <2>5 DEF SeenAt, Row
    <3> QED
      BY <2>3, <3>1
  <2>7. source' = [source EXCEPT ![r] = x]
    BY <2>4, <2>6
  <2>8. /\ step'[r] = "generate" /\ SeenTypeOK' /\ source'[r] = x
        /\ \A q \in RouteRequests \ {r} : source'[q] = source[q]
    BY <1>0, <1>1, <1>3, <2>1, <2>7 DEF SeenTypeOK
  <2>9. SeenAt(r)'
    BY <1>e, <1>0, <1>1, <1>2, <1>3, <2>5, <2>6, <2>8 DEF SeenAt, SourceOK
  <2> QED
    BY <1>1, <1>2, <1>3, <2>1, <2>8, <2>9, OneRequest
<1> QED
  BY <1>4, <1>5

LEMMA GenerateRouteGen ==
    ASSUME ProviderInv, GeneratedInv, NEW r \in RouteRequests \ ManualRequests, NEW q \in Queries,
           GenerateRoute(r, q)
    PROVE  GeneratedInv'
<1>0. /\ SeenAt(r) /\ SeenTypeOK /\ step = [s \in PutRequests \union RouteRequests |-> step[s]]
  BY DEF GeneratedInv, ProviderInv
<1>1. /\ UNCHANGED txVars /\ UNCHANGED <<provider, put, ids, listed, source, seen>>
      /\ step[r] = "generate"
      /\ step' = [step EXCEPT ![r] = "done"] \/ step' = [step EXCEPT ![r] = "deploy"]
  BY DEF GenerateRoute, Go
<1>2. pc' = pc /\ CurrentRows' = CurrentRows
  BY <1>1 DEF txVars, CurrentRows
<1>3. /\ step'[r] \in {"done", "deploy"} /\ SeenTypeOK'
      /\ step' = [step EXCEPT ![r] = step'[r]]
  BY <1>0, <1>1 DEF SeenTypeOK
<1>4. SeenAt(r)'
  BY <1>0, <1>1, <1>2, <1>3 DEF SeenAt, SourceOK
<1> QED
  BY <1>1, <1>3, <1>4, OneRequest

LEMMA DeployGen ==
    ASSUME ProviderInv, TxInv, GeneratedInv, NEW r \in RouteRequests, NEW e \in Versions, Deploy(r, e)
    PROVE  GeneratedInv'
<1>0. /\ SeenTypeOK /\ step = [s \in PutRequests \union RouteRequests |-> step[s]]
      /\ pc \in [RouteRequests -> Steps] /\ rows \in SUBSET Rows
      /\ made \in [RouteRequests -> SUBSET Rows] /\ \A o \in Rows : o.cred \in RouteRequests \union {None}
  BY DEF GeneratedInv, ProviderInv, TxInv, TxTypeOK, Rows
<1>1. /\ UNCHANGED <<provider, put, ids, listed, source, seen>> /\ UNCHANGED <<rows, made>>
      /\ pc[r] = "idle" /\ pc' = [pc EXCEPT ![r] = "lock"] /\ step' = [step EXCEPT ![r] = "done"]
      /\ r \notin ManualRequests => step[r] = "deploy"
  BY DEF Deploy, BeginStage, After, Go
<1>2. /\ \A q \in RouteRequests \ {r} : pc'[q] = pc[q] /\ step'[q] = step[q]
      /\ pc'[r] = "lock" /\ step'[r] = "done" /\ CurrentRows' = CurrentRows
      /\ \A q \in PutRequests : step'[q] = step[q]
  BY <1>0, <1>1, RoutesAssumption DEF CurrentRows
<1>3. OwnerInv'
  BY <1>0, <1>1, <1>2 DEF GeneratedInv, OwnerInv
<1>4. PutInv' /\ SeenTypeOK'
  BY <1>0, <1>1, <1>2 DEF GeneratedInv, PutInv, SeenTypeOK
<1>5. ASSUME NEW q \in RouteRequests \ ManualRequests PROVE SeenAt(q)'
  <2>0. SeenAt(q)
    BY DEF GeneratedInv
  <2>1. CASE q = r
    BY <1>1, <1>2, <2>0, <2>1 DEF SeenAt, SourceOK
  <2>2. CASE q # r
    BY <1>1, <1>2, <2>0, <2>2, SameAt
  <2> QED
    BY <2>1, <2>2
<1> QED
  BY <1>1, <1>3, <1>4, <1>5 DEF GeneratedInv

LEMMA TxStepGen ==
    ASSUME TxInv, GeneratedInv, NEW r \in RouteRequests, TxStep(r), UNCHANGED providerVars
    PROVE  GeneratedInv'
<1>1. OwnerInv' /\ \A q \in RouteRequests : pc'[q] = "idle" <=> pc[q] = "idle"
  BY TxOwners DEF GeneratedInv
<1>2. UNCHANGED <<provider, step, put, ids, listed, source, seen>>
  BY DEF providerVars
<1>3. PutInv' /\ SeenTypeOK'
  BY <1>2 DEF GeneratedInv, PutInv, SeenTypeOK
<1>4. \A q \in RouteRequests \ ManualRequests : SeenAt(q)'
  BY <1>1, <1>2, SameAt DEF GeneratedInv
<1> QED
  BY <1>1, <1>2, <1>3, <1>4 DEF GeneratedInv

LEMMA GeneratedInvHolds == ProviderInv /\ TxInv /\ GeneratedInv /\ [Next]_vars => GeneratedInv'
<1> SUFFICES ASSUME ProviderInv, TxInv, GeneratedInv, [Next]_vars PROVE GeneratedInv'
  OBVIOUS
<1>1. CASE UNCHANGED vars
  <2>1. UNCHANGED txVars /\ UNCHANGED <<provider, step, put, ids, listed, source, seen>>
    BY <1>1 DEF vars, providerVars
  <2>2. OwnerInv' /\ PutInv' /\ SeenTypeOK' /\ pc' = pc
    BY <2>1, SameOwners DEF GeneratedInv, PutInv, SeenTypeOK, txVars
  <2>3. \A q \in RouteRequests \ ManualRequests : SeenAt(q)'
    BY <2>1, <2>2, SameAt DEF GeneratedInv
  <2> QED
    BY <2>1, <2>2, <2>3 DEF GeneratedInv
<1>2. CASE Next
  <2>1. ASSUME NEW r \in PutRequests,
               \/ \E p \in Providers, b \in PutBodies : PutProvider(r, p, b)
               \/ UpsertProvider(r)
        PROVE  GeneratedInv'
    BY <2>1, PutProviderGen, UpsertProviderGen
  <2>2. ASSUME NEW r \in RouteRequests \ ManualRequests,
               \/ \E p \in Providers : GetProvider(r, p)
               \/ ListIds(r) \/ ListNext(r) \/ Select(r)
               \/ \E q \in Queries : GenerateRoute(r, q)
        PROVE  GeneratedInv'
    BY <2>2, GetProviderGen, ListIdsGen, ListNextGen, SelectGen, GenerateRouteGen
  <2>3. ASSUME NEW r \in RouteRequests,
               \/ \E e \in Versions : Deploy(r, e)
               \/ TxStep(r) /\ UNCHANGED providerVars
        PROVE  GeneratedInv'
    BY <2>3, DeployGen, TxStepGen
  <2> QED
    BY <1>2, <2>1, <2>2, <2>3 DEF Next
<1> QED
  BY <1>1, <1>2

RoutesInv == ProviderInv /\ TxInv /\ GeneratedInv

LEMMA RoutesInvHolds == Spec => []RoutesInv
<1>1. Init => ProviderInv
  BY RoutesAssumption DEF Init, ProviderInv, Accepted
<1>2. Init => TxInv
  BY TxInitInv DEF Init
<1>3. Init => GeneratedInv
  <2> SUFFICES ASSUME Init PROVE GeneratedInv
    OBVIOUS
  <2>1. SeenTypeOK
    BY DEF Init, SeenTypeOK
  <2>2. PutInv
    BY RoutesAssumption DEF Init, PutInv, Secrets, Definitions
  <2>3. OwnerInv
    BY DEF Init, TxInit, OwnerInv
  <2>4. ASSUME NEW r \in RouteRequests \ ManualRequests PROVE SeenAt(r)
    <3>1. <<>> \in Seq(seen[r])
      OBVIOUS
    <3> QED
      BY <3>1 DEF Init, TxInit, SeenAt
  <2>5. \A r \in ManualRequests : listed[r] = <<>>
    <3>1. listed = [r \in RouteRequests |-> <<>>] /\ ManualRequests \subseteq RouteRequests
      BY RoutesAssumption DEF Init
    <3> QED
      BY <3>1
  <2> QED
    BY <2>1, <2>2, <2>3, <2>4, <2>5 DEF GeneratedInv
<1>4. RoutesInv /\ [Next]_vars => RoutesInv'
  BY ProviderInvHolds, StepOfTransactions, TxNextInv, GeneratedInvHolds DEF RoutesInv
<1> QED
  BY <1>1, <1>2, <1>3, <1>4, PTL DEF Spec, RoutesInv

\* Whatever puts come between the queries of a request, and whatever other requests
\* commit, an active row of device_routes was generated from an enabled definition
\* that the database held since the request began (api.go putRouteFromProvider,
\* postgres.go ListProviders).
THEOREM RoutesComeFromEnabledProviders == Spec => []PublishedFromEnabledProvider
<1>1. RoutesInv => PublishedFromEnabledProvider
  <2> SUFFICES ASSUME RoutesInv, NEW r \in RouteRequests \ ManualRequests,
                      NEW o \in rows, o.cred = r
               PROVE  source[r].def.enabled /\ source[r] \in seen[r]
    BY DEF PublishedFromEnabledProvider
  <2>1. pc[r] # "idle"
    BY TransactionAssumption DEF RoutesInv, GeneratedInv, OwnerInv
  <2> QED
    BY <2>1 DEF RoutesInv, GeneratedInv, SeenAt, SourceOK
<1> QED
  BY <1>1, RoutesInvHolds, PTL

\* For every list of definitions a request can have read and every width of the
\* random word: each word drawn selects a definition, and of the words as many
\* select one as its weight says (provider.go SelectWeighted, cryptoUint).
THEOREM WordsFollowWeights == Spec => []SelectionFollowsWeights
<1>1. RoutesInv => SelectionFollowsWeights
  <2> SUFFICES ASSUME RoutesInv, NEW r \in RouteRequests PROVE
        LET ws == Weights(Defs(r))
            total == TotalWeight(Defs(r))
            drawn(i) == {w \in Words(total) : SelectWeighted(Defs(r), w) = i} IN
        total > 0 =>
            /\ drawn(0) = {}
            /\ \A i, j \in 1 .. Len(ws) :
                  Cardinality(drawn(i)) * ws[j] = Cardinality(drawn(j)) * ws[i]
    BY DEF SelectionFollowsWeights
  <2> DEFINE defs == Defs(r)
             ws == Weights(defs)
             t == TotalWeight(defs)
             drawn(i) == {w \in Words(t) : SelectWeighted(defs, w) = i}
             K == MaxWord \div t
  <2> SUFFICES ASSUME t > 0
               PROVE  /\ drawn(0) = {}
                      /\ \A i, j \in 1 .. Len(ws) :
                            Cardinality(drawn(i)) * ws[j] = Cardinality(drawn(j)) * ws[i]
    OBVIOUS
  <2>0. Drawable(defs)
    BY ReadIsDrawable DEF RoutesInv
  <2> HIDE DEF defs
  <2>1. ws \in Seq(Nat) /\ Len(ws) = Len(defs) /\ Len(defs) \in Nat
    BY <2>0, WeightsTyped DEF Drawable
  <2>2. t = Sums(ws)[Len(ws)]
    BY DEF TotalWeight
  <2>3. t \in Nat \ {0} /\ ~CannotSelect(defs)
    <3>1. IsSum(Sums(ws), ws, Len(ws))
      BY <2>1, SumsDefined
    <3>2. Sums(ws)[Len(ws)] \in Nat
      <4> DEFINE f == Sums(ws)
                 L == Len(ws)
      <4> HIDE DEF f, L
      <4>1. L \in Nat /\ f \in [0 .. L -> Nat]
        BY <2>1, <3>1 DEF f, L, IsSum
      <4>2. f[L] \in Nat
        BY <4>1
      <4> QED
        BY <4>2 DEF f, L
    <3> QED
      BY <2>2, <3>2 DEF CannotSelect
  <2>4. drawn(0) = {}
    <3> SUFFICES ASSUME NEW w \in Words(t), SelectWeighted(defs, w) = 0 PROVE FALSE
      OBVIOUS
    <3> QED
      BY <2>0, <2>1, <2>3, DrawnIsEnabled
  <2>5. ASSUME NEW i \in 1 .. Len(ws) PROVE Cardinality(drawn(i)) = K * ws[i]
    <3>1. drawn(i) = {w \in Words(t) : WeightedIndex(ws, CryptoUint(t, w)) = i}
      BY DEF SelectWeighted
    <3> HIDE DEF t, ws
    <3> QED
      BY <2>1, <2>2, <2>3, <3>1, SharesFollowWeights
  <2>6. K \in Nat /\ \A i \in 1 .. Len(ws) : ws[i] \in Nat
    <3> HIDE DEF ws, t
    <3>1. K \in Nat
      BY <2>3, AdapterAssumption, Division
    <3>2. \A i \in 1 .. Len(ws) : ws[i] \in Nat
      BY <2>1
    <3> QED
      BY <3>1, <3>2
  <2>7. ASSUME NEW i \in 1 .. Len(ws), NEW j \in 1 .. Len(ws)
        PROVE  Cardinality(drawn(i)) * ws[j] = Cardinality(drawn(j)) * ws[i]
    <3> DEFINE a == ws[i]
               b == ws[j]
               A == Cardinality(drawn(i))
               B == Cardinality(drawn(j))
    <3>1. A = K * a /\ B = K * b /\ a \in Nat /\ b \in Nat /\ K \in Nat
      BY <2>5, <2>6
    <3> HIDE DEF a, b, A, B, K
    <3>2. (K * a) * b = (K * b) * a
      BY <3>1
    <3>3. A * b = B * a
      BY <3>1, <3>2
    <3> QED
      BY <3>3 DEF a, b, A, B
  <2> QED
    BY <2>4, <2>7
<1> QED
  BY <1>1, RoutesInvHolds, PTL
===============================================================================
