---------------------------- MODULE ProviderRoutes ----------------------------
(***************************************************************************)
(* Routes generated from providers: putProvider and putRouteFromProvider   *)
(* of api.go over the rows of proxy_providers, the adapter's operators,    *)
(* and the transactions that store the route.  ListProviders reads the ids *)
(* and then each provider with a query of its own; putProvider reads the   *)
(* secrets it keeps before it writes the row.                              *)
(***************************************************************************)
EXTENDS RouteTransactions, ProviderAdapter

CONSTANTS Providers,            \* ids, numbers in their order
          ManualRequests,       \* the route requests that bring an endpoint (putRoute)
          PutRequests,
          PutBodies,            \* what a put request may ask for
          Queries,              \* what a route request may ask for
          Versions,             \* the expectedVersions of the clients
          InitialProviders      \* the rows before the first request, or None

\* A definition with other secrets.
WithSecrets(d, secrets) ==
    [enabled |-> d.enabled, weight |-> d.weight, config |-> d.config, secrets |-> secrets]

\* The definitions there are before the first request, and what puts bring.
Definitions ==
    PutBodies \union {InitialProviders[p] : p \in {q \in Providers : InitialProviders[q] # None}}

ASSUME RoutesAssumption ==
    /\ Providers \subseteq Nat
    /\ None \notin Providers
    /\ ManualRequests \subseteq RouteRequests
    /\ PutRequests \intersect RouteRequests = {}
    /\ Versions \subseteq Nat
    /\ \A b \in PutBodies : WellTyped(b.config)
    /\ \A q \in Queries : q.country \in Countries
    /\ None \notin PutBodies \union {WithSecrets(b, d.secrets) : b \in PutBodies, d \in Definitions}
    /\ InitialProviders = [p \in Providers |-> InitialProviders[p]]
    /\ \A p \in Providers : InitialProviders[p] # None =>
          Validate(InitialProviders[p]) /\ WellTyped(InitialProviders[p].config)

VARIABLES provider,     \* the row of each provider, or None
          step,         \* the request's next step up to StageRoute
          put,          \* put requests: the provider and the definition to write
          ids,          \* route requests: the ids still to be read ...
          listed,       \* ... the providers read, in order, and their definitions
          source,       \* the provider and definition chosen, or None
          seen          \* history: what the rows have been since the request began

providerVars == <<provider, step, put, ids, listed, source, seen>>
vars == <<txVars, providerVars>>

CurrentRows == {[provider |-> p, def |-> provider[p]] : p \in {q \in Providers : provider[q] # None}}

Init ==
    /\ TxInit
    /\ provider = InitialProviders
    /\ step = [r \in PutRequests \union RouteRequests |-> "idle"]
    /\ put = [r \in PutRequests |-> None]
    /\ ids = [r \in RouteRequests |-> {}]
    /\ listed = [r \in RouteRequests |-> <<>>]
    /\ source = [r \in RouteRequests |-> None]
    /\ seen = [r \in RouteRequests |-> {}]

Go(r, next) == step' = [step EXCEPT ![r] = next]

-------------------------------------------------------------------------------
(* putProvider *)

\* A put without secrets keeps the provider's.
KeepSecrets(p, b) ==
    IF DOMAIN b.secrets = {} /\ provider[p] # None
    THEN WithSecrets(b, provider[p].secrets)
    ELSE b

\* Read the secrets, validate.
PutProvider(r, p, b) ==
    /\ step[r] = "idle"
    /\ IF Validate(KeepSecrets(p, b))
       THEN /\ put' = [put EXCEPT ![r] = [provider |-> p, def |-> KeepSecrets(p, b)]]
            /\ Go(r, "upsert")
       ELSE Go(r, "done") /\ UNCHANGED put
    /\ UNCHANGED <<txVars, provider, ids, listed, source, seen>>

UpsertProvider(r) ==
    /\ step[r] = "upsert"
    /\ provider' = [provider EXCEPT ![put[r].provider] = put[r].def]
    /\ seen' = [q \in RouteRequests |->
                  IF step[q] = "idle" THEN seen[q] ELSE seen[q] \union {put[r]}]
    /\ Go(r, "done")
    /\ UNCHANGED <<txVars, put, ids, listed, source>>

-------------------------------------------------------------------------------
(* putRouteFromProvider *)

Chosen(r, p, d) == source' = [source EXCEPT ![r] = [provider |-> p, def |-> d]]

Refuse(r) == Go(r, "done") /\ UNCHANGED source

\* Mutant: a provider that is named need not be enabled.
MayUseAny(d) == TRUE

MayUse(d) == d.enabled

\* providerId is given: 404 without the provider, 409 if it is disabled.
GetProvider(r, p) ==
    /\ step[r] = "idle"
    /\ seen' = [seen EXCEPT ![r] = CurrentRows]
    /\ IF provider[p] # None /\ MayUse(provider[p])
       THEN Chosen(r, p, provider[p]) /\ Go(r, "generate")
       ELSE Refuse(r)
    /\ UNCHANGED <<txVars, provider, put, ids, listed>>

\* It is not: ListProviders, the ids first.
ListIds(r) ==
    /\ step[r] = "idle"
    /\ seen' = [seen EXCEPT ![r] = CurrentRows]
    /\ ids' = [ids EXCEPT ![r] = {p \in Providers : provider[p] # None}]
    /\ Go(r, "list")
    /\ UNCHANGED <<txVars, provider, put, listed, source>>

\* Then each of them.
ListNext(r) ==
    /\ step[r] = "list"
    /\ ids[r] # {}
    /\ LET p == CHOOSE p \in ids[r] : \A q \in ids[r] : p <= q IN
       /\ listed' = [listed EXCEPT ![r] = Append(@, [provider |-> p, def |-> provider[p]])]
       /\ ids' = [ids EXCEPT ![r] = @ \ {p}]
    /\ UNCHANGED <<txVars, provider, step, put, source, seen>>

Defs(r) == [i \in 1 .. Len(listed[r]) |-> listed[r][i].def]

\* SelectWeighted draws a word.
Select(r) ==
    /\ step[r] = "list"
    /\ ids[r] = {}
    /\ \/ CannotSelect(Defs(r)) /\ Refuse(r)
       \/ /\ ~CannotSelect(Defs(r))
          /\ \E w \in Words(TotalWeight(Defs(r))) :
                LET x == listed[r][SelectWeighted(Defs(r), w)] IN
                Chosen(r, x.provider, x.def)
          /\ Go(r, "generate")
    /\ listed' = [listed EXCEPT ![r] = <<>>]
    /\ UNCHANGED <<txVars, provider, put, ids, seen>>

\* Generate: 400 when it fails.  The endpoint itself is a credential of the route.
GenerateRoute(r, q) ==
    /\ step[r] = "generate"
    /\ \E end \in GenerateEnds(source[r].def, q) :
          Go(r, IF end = Unset THEN "deploy" ELSE "done")
    /\ UNCHANGED <<txVars, provider, put, ids, listed, source, seen>>

\* GetDevice and deployRoute, for putRoute at once; its transactions are TxStep.
Deploy(r, e) ==
    /\ step[r] = IF r \in ManualRequests THEN "idle" ELSE "deploy"
    /\ BeginStage(r, e)
    /\ Go(r, "done")
    /\ UNCHANGED <<provider, put, ids, listed, source, seen>>

-------------------------------------------------------------------------------
Next ==
    \/ \E r \in PutRequests :
          \/ \E p \in Providers, b \in PutBodies : PutProvider(r, p, b)
          \/ UpsertProvider(r)
    \/ \E r \in RouteRequests \ ManualRequests :
          \/ \E p \in Providers : GetProvider(r, p)
          \/ ListIds(r) \/ ListNext(r) \/ Select(r)
          \/ \E q \in Queries : GenerateRoute(r, q)
    \/ \E r \in RouteRequests :
          \/ \E e \in Versions : Deploy(r, e)
          \/ TxStep(r) /\ UNCHANGED providerVars

Spec == Init /\ [][Next]_vars

-------------------------------------------------------------------------------
(* Properties *)

\* The secrets that the values of a request name: its country or the alias of it, its
\* city, and the state it brings or is given.
NamedByValues(country, state, city) ==
    (CountryText[country] \union Expressions(state) \union Expressions(city))
        \intersect SecretNames

\* A provider that putProvider has accepted stays valid and never lacks a secret of its
\* own templates: a missing one was named by a value, which Validate does not see; and
\* the port is one that the country's rule allows (provider.go Validate against
\* Generate and render; api.go keeps the secrets when an update brings none).
AcceptedProvidersGenerate ==
    \A p \in Providers, q \in Queries : provider[p] # None =>
        LET d == provider[p]
            country == Country(d.config, q.country)
            range == d.config.port.byCountry[country] IN
        /\ "invalid" \notin GenerateEnds(d, q)
        /\ \A s \in States(d.config, country, q) :
              EndpointFails(d, country, s, q.city) = "secret" =>
                  ~(NamedByValues(country, s, q.city) \subseteq DOMAIN d.secrets)
        /\ \A x \in Generate(d, q) :
              x.port \in IF range = Unset THEN 1 .. MaxPort ELSE range.from .. range.to

\* Whatever definitions a request has read, the words it may draw are shared out
\* among the enabled ones exactly as their weights say, and each draw selects one
\* (provider.go SelectWeighted, cryptoInt, cryptoUint).
SelectionFollowsWeights ==
    \A r \in RouteRequests :
        LET ws == Weights(Defs(r))
            total == TotalWeight(Defs(r))
            drawn(i) == {w \in Words(total) : SelectWeighted(Defs(r), w) = i} IN
        total > 0 =>
            /\ drawn(0) = {}
            /\ \A i, j \in 1 .. Len(ws) :
                  Cardinality(drawn(i)) * ws[j] = Cardinality(drawn(j)) * ws[i]

\* A route that is published was generated from one definition of its provider,
\* enabled, and in the database at some moment since the request began, however
\* puts come between the queries (api.go putRouteFromProvider, ListProviders).
PublishedFromEnabledProvider ==
    \A r \in RouteRequests \ ManualRequests : (\E o \in rows : o.cred = r /\ o.status = "active") =>
        /\ source[r].def.enabled
        /\ source[r] \in seen[r]
===============================================================================
