--------------------------- MODULE MCProviderRoutes ---------------------------
(* ProviderRoutes on a small instance: two providers, one for every country and *)
(* one with a port range and an alias, puts that disable, reconfigure, keep or   *)
(* change secrets, and routes for countries with and without a rule, for blank   *)
(* ones and for values that hold expressions.                                    *)
EXTENDS ProviderRoutes, TLC

MCCountries == {"", " ", "us", "US", "gb", "uk", "{{secret.no}}"}
MCNormalCountry ==
    [c \in MCCountries |-> CASE c = " " -> "" [] c = "US" -> "us" [] OTHER -> c]
MCCountryText ==
    [c \in MCCountries |-> IF c = "{{secret.no}}" THEN {"no"} ELSE {}]

Nowhere == [c \in MCCountries |-> Unset]

State(weight, name) == [weight |-> weight, name |-> name]

Rule(t) == [default |-> t, withState |-> Unset, withCity |-> Unset, byCountry |-> Nowhere]

ConfigA ==
    [wellFormed |-> TRUE, host |-> Rule({}), username |-> Rule({"country", "session"}),
     password |-> [Rule({"key"}) EXCEPT !.withState = {"key", "state"}],
     port |-> [default |-> 5, byCountry |-> Nowhere], aliases |-> Nowhere,
     states |-> <<>>, statesOf |-> [c \in MCCountries |-> <<>>],
     session |-> [type |-> "uuid", min |-> 0, max |-> 0, length |-> 0]]

ConfigB ==
    [ConfigA EXCEPT
        !.host = [Rule(Unset) EXCEPT !.byCountry = [Nowhere EXCEPT !["uk"] = {"country"}]],
        !.username = [Rule({"odd"}) EXCEPT !.withCity = {"key", "city"}],
        !.port = [default |-> 0,
                  byCountry |-> [Nowhere EXCEPT !["uk"] = [from |-> 2, to |-> 4],
                                                !["US"] = [from |-> 6, to |-> 6]]],
        !.aliases = [Nowhere EXCEPT !["gb"] = "uk"],
        !.states = <<State(0, {}), State(2, {}), State(1, {"no"})>>,
        !.statesOf = [@ EXCEPT !["us"] = <<State(0, {})>>],
        !.session = [type |-> "int", min |-> 1, max |-> 2, length |-> 0]]

Definition(enabled, weight, config, secrets) ==
    [enabled |-> enabled, weight |-> weight, config |-> config, secrets |-> secrets]

MCInitialProviders ==
    <<Definition(TRUE, 1, ConfigA, "key" :> "old"), Definition(FALSE, 2, ConfigB, "key" :> "{{odd}}")>>

NoSecrets == [n \in {} |-> n]

MCPutBodies ==
    {Definition(FALSE, 1, ConfigA, NoSecrets), Definition(TRUE, 2, ConfigB, "key" :> "new"),
     Definition(TRUE, 1, [ConfigA EXCEPT !.password.default = {"id"}], "id" :> "new")}

Query(country, state, city) == [country |-> country, state |-> state, city |-> city]

\* States and cities without an expression, with a variable and with a secret, known
\* and unknown.
MCQueries ==
    {Query("US", {}, Unset), Query("US", {"key"}, Unset), Query("us", {"no"}, Unset),
     Query("gb", Unset, {"state"}), Query("{{secret.no}}", Unset, Unset),
     Query(" ", Unset, Unset)}

Symmetry == Permutations(ManualRequests)
===============================================================================
