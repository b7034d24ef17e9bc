--------------------------- MODULE ProviderAdapter ---------------------------
(***************************************************************************)
(* internal/provider as operators: what Validate accepts, what Generate    *)
(* may produce for a definition and a request, and how SelectWeighted      *)
(* turns random words into a choice.  A function that draws random words   *)
(* is the set of its outcomes, or a function of the word drawn where the   *)
(* distribution matters.                                                   *)
(*                                                                         *)
(* A text (a template, a state, a city) is the set of its expressions,     *)
(* Unset if it is empty: names of secrets, the variables, "odd" and        *)
(* "oddSecret" for an expression of neither kind, the second beginning     *)
(* with "{{secret.".  What it renders to is the secrets that went into it. *)
(* An expression put together from both a template and a value, such as    *)
(* "{{secret.{{state}}}}", is left out.  Countries are spellings;          *)
(* NormalCountry is normalizeCountry.                                      *)
(***************************************************************************)
EXTENDS Naturals, Sequences, FiniteSets

CONSTANTS Unset,            \* an entry, a template or a result that is not there
          Countries,        \* spellings of countries
          NormalCountry,    \* trimmed and in lower case
          Blank,            \* the empty spelling
          CountryText,      \* the expressions a spelling holds
          SecretNames,
          OddValues,        \* values of secrets that hold an expression
          MaxWord,          \* the largest random word, 2^64 - 1 in the code
          MaxWeight,        \* 10000 in the code
          MaxPort           \* 65535 in the code

ASSUME AdapterAssumption ==
    /\ MaxWord \in Nat /\ MaxWeight \in Nat /\ MaxPort \in Nat
    /\ Blank \in Countries /\ NormalCountry \in [Countries -> Countries]
    /\ \A c \in Countries : NormalCountry[NormalCountry[c]] = NormalCountry[c]

\* What the JSON decoder leaves of a configuration's maps.
WellTyped(config) ==
    /\ config.aliases \in [Countries -> Countries \union {Unset}]
    /\ config.port.byCountry \in [Countries -> [from : Nat, to : Nat] \union {Unset}]

Variables == {"city", "country", "duration", "session", "state"}

\* A name of a secret stands for the expression "{{secret.name}}".
ASSUME ExpressionAssumption ==
    SecretNames \intersect (Variables \union {"odd", "oddSecret"}) = {}

\* Unset is none of the errors below.
ASSUME UnsetAssumption ==
    Unset \notin {"invalid", "required", "states", "secret", "expression", "country"}

Expressions(text) == IF text = Unset THEN {} ELSE text

-------------------------------------------------------------------------------
(* Random numbers *)

\* Mutant: no word is drawn again.
CeilingOfAll(limit) == MaxWord + 1

\* Words from here on are drawn again: the words below are a multiple of limit.
Ceiling(limit) == MaxWord - (MaxWord % limit)

\* cryptoUint: from the words that are not drawn again
Words(limit) == {n \in 0 .. MaxWord : n < Ceiling(limit)}
CryptoUint(limit, word) == word % limit

\* cryptoInt: its outcomes
CryptoInt(min, max) ==
    {min + CryptoUint(max - min + 1, w) : w \in Words(max - min + 1)}

\* The sums of the first i weights.
Sums(ws) ==
    LET sum[i \in 0 .. Len(ws)] == IF i = 0 THEN 0 ELSE sum[i - 1] + ws[i] IN sum

\* The first entry at which the remaining number falls below the weight, 0 if none.
WeightedIndex(ws, n) ==
    LET below == {i \in 1 .. Len(ws) : n < Sums(ws)[i]} IN
    IF below = {} THEN 0 ELSE CHOOSE i \in below : \A j \in below : i <= j

-------------------------------------------------------------------------------
(* SelectWeighted *)

\* The weight each definition is drawn with: one that is disabled is passed over.
Weights(defs) ==
    [i \in 1 .. Len(defs) |-> IF defs[i].enabled /\ defs[i].weight > 0 THEN defs[i].weight ELSE 0]
TotalWeight(defs) == Sums(Weights(defs))[Len(Weights(defs))]

CannotSelect(defs) == TotalWeight(defs) = 0

\* The place of the choice, 0 if the selection fails.
SelectWeighted(defs, word) ==
    WeightedIndex(Weights(defs), CryptoUint(TotalWeight(defs), word))

-------------------------------------------------------------------------------
(* Validate *)

\* The country keys with an entry.
Keys(f) == {c \in Countries : f[c] # Unset}

\* Mutant: only the default templates are looked at.
DefaultTemplates(rule) == {rule.default} \ {Unset}

Templates(rule) ==
    ({rule.default, rule.withState, rule.withCity} \union
     {rule.byCountry[c] : c \in Countries}) \ {Unset}

ValidatePortRule(rule) ==
    /\ rule.default \in 0 .. MaxPort
    /\ \A c \in Keys(rule.byCountry) :
          LET range == rule.byCountry[c] IN
          /\ NormalCountry[c] # Blank
          /\ range.from >= 1 /\ range.to <= MaxPort /\ range.from <= range.to
    /\ rule.default # 0 \/ Keys(rule.byCountry) # {}

ValidateSession(s) ==
    /\ s.type = "int" => s.min < s.max
    /\ s.type = "alnum" => s.length \in 1 .. 128

\* wellFormed: the patterns of id and protocol, and minutes that are not negative.
Validate(d) ==
    LET c == d.config IN
    /\ c.wellFormed
    /\ d.weight \in 0 .. MaxWeight
    /\ c.host.default # Unset \/ Keys(c.host.byCountry) # {}
    /\ \A t \in Templates(c.password) : t \intersect (SecretNames \union {"oddSecret"}) # {}
    /\ \A rule \in {c.host, c.username, c.password} : \A t \in Templates(rule) :
          t \intersect SecretNames \subseteq DOMAIN d.secrets
    /\ ValidatePortRule(c.port)
    /\ ValidateSession(c.session)

-------------------------------------------------------------------------------
(* Generate *)

\* normalizeCountry, then the alias, normalised again.
Country(config, country) ==
    LET c == NormalCountry[country] IN
    IF config.aliases[c] # Unset THEN NormalCountry[config.aliases[c]] ELSE c

\* The weights of the country, or the general ones.
StateWeights(config, country) ==
    IF config.statesOf[country] # <<>> THEN config.statesOf[country] ELSE config.states

\* weightedString: the states that may be drawn, none if the weights are all zero;
\* the weights are summed in a word.
WeightedStates(ws) ==
    LET positive == SelectSeq(ws, LAMBDA x : x.weight > 0)
        weights == [i \in 1 .. Len(positive) |-> positive[i].weight]
        total == Sums(weights)[Len(weights)] % (MaxWord + 1) IN
    IF total = 0 THEN {}
    ELSE {positive[WeightedIndex(weights, CryptoUint(total, w))].name : w \in Words(total)}

\* The state of the request, or one of the fallback states if there are any.
States(config, country, q) ==
    IF q.state # Unset THEN {q.state}
    ELSE IF StateWeights(config, country) = <<>> THEN {Unset}
    ELSE WeightedStates(StateWeights(config, country))

SelectTemplate(rule, country, state, city) ==
    IF rule.byCountry[country] # Unset THEN rule.byCountry[country]
    ELSE IF city # Unset /\ rule.withCity # Unset THEN rule.withCity
    ELSE IF state # Unset /\ rule.withState # Unset THEN rule.withState
    ELSE rule.default

\* A variable is replaced by its value, with the expressions the value holds.
Substitute(text, variable, value) ==
    IF variable \in text THEN (text \ {variable}) \union value ELSE text

\* The values go in one after the other, in the order of their names; a session and a
\* duration hold no expression.
Fill(text, country, state, city) ==
    Substitute(Substitute(Substitute(text, "city", Expressions(city)),
                          "country", CountryText[country]) \ {"duration", "session"},
               "state", Expressions(state))

\* render: the secrets are looked up in the text with its values; one that is missing,
\* or an expression that is left over, is an error.
RenderFails(text, secrets) ==
    LET names == text \intersect SecretNames IN
    IF ~(names \subseteq DOMAIN secrets) THEN "secret"
    ELSE IF text # names \/ (\E n \in names : secrets[n] \in OddValues) THEN "expression"
    ELSE Unset

Render(text, secrets) == {<<n, secrets[n]>> : n \in text \intersect SecretNames}

\* The ports there may be, none if the country is not supported.
SelectPort(rule, country) ==
    IF rule.byCountry[country] # Unset
    THEN CryptoInt(rule.byCountry[country].from, rule.byCountry[country].to)
    ELSE IF rule.default = 0 THEN {} ELSE {rule.default}

\* generateSession: the numbers, or something random.
GenerateSession(s) == IF s.type = "int" THEN CryptoInt(s.min, s.max) ELSE {0}

\* What is rendered for a rule of the definition.
Filled(rule, country, state, city) ==
    Fill(Expressions(SelectTemplate(rule, country, state, city)), country, state, city)

\* The first error of host, username, password and port, or Unset.
EndpointFails(d, country, state, city) ==
    LET c == d.config
        fails(rule) == RenderFails(Filled(rule, country, state, city), d.secrets) IN
    IF fails(c.host) # Unset THEN fails(c.host)
    ELSE IF fails(c.username) # Unset THEN fails(c.username)
    ELSE IF fails(c.password) # Unset THEN fails(c.password)
    ELSE IF SelectPort(c.port, country) = {} THEN "country"
    ELSE Unset

\* How Generate may end: with an error, or with Unset for an endpoint.
GenerateEnds(d, q) ==
    LET country == Country(d.config, q.country) IN
    IF ~Validate(d) THEN {"invalid"}
    ELSE IF country = Blank THEN {"required"}
    ELSE IF States(d.config, country, q) = {} THEN {"states"}
    ELSE {EndpointFails(d, country, s, q.city) : s \in States(d.config, country, q)}

\* The endpoints Generate may return.
Generate(d, q) ==
    LET c == d.config
        country == Country(c, q.country)
        text(rule, s) == Filled(rule, country, s, q.city) IN
    UNION {{[host |-> Render(text(c.host, s), d.secrets), port |-> p,
             username |-> Render(text(c.username, s), d.secrets),
             password |-> Render(text(c.password, s), d.secrets), session |-> n] :
               p \in SelectPort(c.port, country), n \in GenerateSession(c.session)} :
           s \in {x \in States(c, country, q) : EndpointFails(d, country, x, q.city) = Unset}}
===============================================================================
