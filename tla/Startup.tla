------------------------------- MODULE Startup -------------------------------
(***************************************************************************)
(* How a client is put together (config.py, plugins.py): the built-in      *)
(* provider registry, the .env file under os.environ, the providers and    *)
(* adapters that follow from them, and the plugins of entry points.        *)
(*                                                                         *)
(* Names and ids are numbers in alphabetical order (MCCatalogue lists      *)
(* them).  A value in the environment is "", "placeholder" (the text of    *)
(* .env.example) or "secret".                                              *)
(***************************************************************************)
EXTENDS Planner

CONSTANTS
    Noise,   \* a line of .env that sets nothing: blank, a comment, or without "="
    None

Model(id, parts, caps, context, quality, latency) ==
    [id |-> id, parts |-> parts, caps |-> caps, context |-> context,
     quality |-> quality, latency |-> latency,
     input |-> 0, output |-> 0]

\* keys: what has to be set for it, its own key, and an account id if its URL has
\* a place for one.
Provider(name, keys, priority, limit, caps, models) ==
    [name |-> name, keys |-> keys, priority |-> priority,
     limit |-> limit, caps |-> caps, models |-> models]

groq ==
    Provider(4, {"GROQ"}, 0, 1000, {"streaming", "tools"},
        << Model(8, {7, 8}, {"streaming", "tools", "function_calling"}, 128, 800, 950),
           Model(5, {5}, {"streaming", "tools", "function_calling"}, 128, 600, 980) >>)

google ==
    Provider(3, {"GOOGLE"}, 1, 1500, {"streaming", "vision", "json_mode"},
        << Model(3, {3}, {"streaming", "vision", "json_mode", "tools"}, 1024, 750, 800),
           Model(4, {3, 4}, {"streaming", "vision", "json_mode"}, 1024, 650, 850) >>)

cloudflare ==
    Provider(2, {"CLOUDFLARE", "CF_ACCOUNT_ID"}, 2, 10000, {"streaming"},
        << Model(1, {1}, {"streaming"}, 8, 550, 700) >>)

cerebras ==
    Provider(1, {"CEREBRAS"}, 0, 1000, {"streaming", "tools", "json_mode"},
        << Model(7, {7}, {"streaming", "tools", "json_mode"}, 128, 800, 970) >>)

sambanova ==
    Provider(7, {"SAMBANOVA"}, 1, Unset, {"streaming", "tools", "json_mode"},
        << Model(2, {2}, {"streaming", "tools", "json_mode"}, 128, 800, 850) >>)

ollama ==
    Provider(6, {"OLLAMA"}, 3, Unset, {"streaming"},
        << Model(9, {9}, {"streaming"}, 128, 600, 500) >>)

default_providers == <<groq, google, cloudflare, cerebras, sambanova, ollama>>
-----------------------------------------------------------------------------
\* The last line that sets a key counts.
load_env(lines) ==
    FoldLeft(LAMBDA env, line : IF line = Noise THEN env ELSE (line.key :> line.value) @@ env,
             <<>>, lines)

\* os.environ wins, for the keys that the file has.
resolve_env(lines, environ) ==
    LET merged == load_env(lines)
    IN  [k \in DOMAIN merged |-> IF k \in DOMAIN environ THEN environ[k] ELSE merged[k]]

IsSet(env, key) == key \in DOMAIN env /\ env[key] \notin {"", "placeholder"}

Available(provider, env) == \A key \in provider.keys : IsSet(env, key)

\* Mutant of filter_available_providers: the account id is not asked for.
FilterByKeyOnly(providers, env) ==
    Picked(providers, {p \in Range(providers) : Available([p EXCEPT !.keys = @ \ {"CF_ACCOUNT_ID"}], env)})

filter_available_providers(providers, env) == Picked(providers, {p \in Range(providers) : Available(p, env)})

\* The names that get an adapter.
build_adapters(providers, env) == {p.name : p \in {q \in Range(providers) : Available(q, env)}}
-----------------------------------------------------------------------------
\* An entry point: the group it is in, the name of its plugin, the class of
\* the policy the plugin makes (None: create_policy() raises), and whether
\* loading it yields a plugin of the group's kind; any exception skips it.
EntryPoints ==
    [group : {"providers", "policies"}, name : STRING, class : Policies \cup {None}, sound : BOOLEAN]

\* PluginRegistry keeps the plugins of each group in the order their names came.
Register(plugins, plugin) ==
    IF \E i \in DOMAIN plugins : plugins[i].name = plugin.name
    THEN [i \in DOMAIN plugins |-> IF plugins[i].name = plugin.name THEN plugin ELSE plugins[i]]
    ELSE Append(plugins, plugin)

LoadEntryPoint(registry, ep) ==
    IF ep.sound THEN [registry EXCEPT ![ep.group] = Register(@, ep)] ELSE registry

\* Mutant of load_entry_points: the first one that raises ends the loading.
LoadUntilFailure(registry, eps) ==
    LET loaded[n \in 0 .. Len(eps)] ==
            IF n = 0 THEN registry
            ELSE IF \E i \in 1 .. n : ~ eps[i].sound THEN loaded[n - 1]
            ELSE LoadEntryPoint(loaded[n - 1], eps[n])
    IN  loaded[Len(eps)]

load_entry_points(registry, eps) ==
    LET loaded[n \in 0 .. Len(eps)] ==
            IF n = 0 THEN registry ELSE LoadEntryPoint(loaded[n - 1], eps[n])
    IN  loaded[Len(eps)]

EmptyRegistry == [providers |-> <<>>, policies |-> <<>>]

Creates(plugin) == plugin.class # None

\* Policies with those of plugins of different names put over them.
Overlaid(policies, plugins) ==
    [n \in DOMAIN policies \cup {p.name : p \in plugins} |->
        IF \E p \in plugins : p.name = n THEN (CHOOSE p \in plugins : p.name = n).class ELSE policies[n]]

\* Mutant of RegisterPolicies: also the policies that cannot be made.
RegisterAll(policies, plugins) == Overlaid(policies, Range(plugins))

\* from_env() registers the policies of the plugins until one cannot be made.
RegisterPolicies(policies, plugins) ==
    Overlaid(policies, {plugins[i] : i \in {k \in DOMAIN plugins : \A j \in 1 .. k : Creates(plugins[j])}})

\* POLICY_REGISTRY before anything is registered: the class behind each name.
BuiltinPolicies ==
    [n \in Policies \cup {"best"} |-> IF n = "best" THEN "best_free" ELSE n]
=============================================================================
