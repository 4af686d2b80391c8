------------------------------ MODULE Catalogue ------------------------------
(***************************************************************************)
(* What a client offers (client.LLMClient): how it is built from its       *)
(* environment, and how its provider list, its adapters and the planner    *)
(* that works on a snapshot of the list change under it.  add_provider()   *)
(* and refresh_models() and the refresh of execute() are separate steps    *)
(* that threads interleave; refresh_models() walks the live list, lets go  *)
(* of it while an endpoint answers, and stores where it has looked.        *)
(*                                                                         *)
(*   chat      holding -> planning -> idle                                 *)
(*   add       listed -> resync -> holding -> idle, or listed -> idle      *)
(*   refresh   asking -> awaiting -> found -> asking, then resync ->       *)
(*             holding -> idle                                             *)
(*                                                                         *)
(* Requests are planned here and not executed: all providers are healthy   *)
(* (Client has the rest).  Assigning the world and building the planner    *)
(* from it is one step: a planner is built from one of the worlds either   *)
(* way.                                                                    *)
(***************************************************************************)
EXTENDS Startup, Capabilities

CONSTANTS
    Threads,
    Starts,          \* what from_env() may find: lines, environ, plugins, entry_points
    MoreProviders,   \* providers add_provider() may be called with
    NoAddress,       \* those of them with an empty base_url
    Listings,        \* the model ids an endpoint may answer with
    Wishes,          \* what a caller asks of chat(): capabilities, tokens, model, policy
    NewPolicies,     \* <<name, class>> pairs register_policy() may be called with
    MaxCalls         \* bound: the calls made of the class and the client

ASSUME CatalogueAssumption ==
    /\ MaxCalls \in Nat
    /\ None # "lost" /\ NoAddress \subseteq MoreProviders
    /\ \A p \in MoreProviders :
        /\ ProviderOK(p)
        /\ p = Provider(p.name, p.keys, p.priority, p.limit, p.caps, p.models)
    /\ \A listing \in Listings : listing \in Seq(Nat)
    /\ \A s \in Starts : s.entry_points \in Seq(EntryPoints)
    /\ \A p \in NewPolicies : p[2] \in Policies

VARIABLES
    client,      \* "none", "refused" (from_env() raised) or "built"
    providers,   \* client._providers
    adapters,    \* the names in client._adapters
    planner,     \* the providers of the world client._planner was built with
    policies,    \* POLICY_REGISTRY: the class behind each name
    registry,    \* the plugin registry
    op,          \* the call each thread is in, or what its last one came to
    calls,
    start,       \* history: what the last from_env() found
    stale,       \* history: calls that overlapped, or one that raised, had the last word
    repeated     \* history: names given to the client twice, or with a model twice by its caller or endpoint

lists == <<providers, adapters, planner>>
setup == <<client, registry, start>>
vars == <<lists, setup, policies, op, calls, stale, repeated>>

NamesIn(list) == {list[i].name : i \in DOMAIN list}
IdsIn(provider) == {provider.models[j].id : j \in DOMAIN provider.models}
DistinctIds(list) == \A k, l \in DOMAIN list : list[k].id = list[l].id => k = l

World(list) ==
    [providers |-> list,
     status    |-> [n \in NamesIn(list) |-> "healthy"],
     used      |-> [n \in NamesIn(list) |-> 0],
     latency   |-> [n \in NamesIn(list) |-> Unset]]

\* list is the snapshot held, provider the one being added, asked or stored, pos
\* the place in the walk, idx where to store; alone is history: no other call ran
\* during this one.
NewOp ==
    [at |-> "idle", wish |-> None, list |-> <<>>, provider |-> None, pos |-> 1, idx |-> 1,
     changed |-> FALSE, alone |-> TRUE, outcome |-> None, plan |-> <<>>]

Init ==
    /\ client = "none"
    /\ providers = <<>> /\ adapters = {} /\ planner = <<>>
    /\ policies = BuiltinPolicies
    /\ registry = EmptyRegistry
    /\ op = [t \in Threads |-> NewOp]
    /\ calls = 0
    /\ start = None /\ stale = FALSE /\ repeated = {}

Running(t) == op[t].at # "idle"

Call == calls < MaxCalls /\ calls' = calls + 1

CallBy(t) == Call /\ client = "built" /\ ~ Running(t)

Begin(t, new) ==
    /\ CallBy(t)
    /\ op' = [s \in Threads |->
                 IF s = t THEN [new EXCEPT !.alone = \A u \in Threads : ~ Running(u)]
                 ELSE [op[s] EXCEPT !.alone = @ /\ ~ Running(s)]]

End(t, outcome) == op' = [op EXCEPT ![t] = [NewOp EXCEPT !.alone = op[t].alone, !.outcome = outcome]]
-----------------------------------------------------------------------------
\* Plugins first, then the environment; a policy that cannot be made, or no
\* provider, and there is no client, though the plugins stay registered.
from_env(s) ==
    /\ Call
    /\ client # "built"
    /\ start' = s
    /\ registry' = IF s.plugins THEN load_entry_points(registry, s.entry_points) ELSE registry
    /\ policies' = IF s.plugins THEN RegisterPolicies(policies, registry'.policies) ELSE policies
    /\ LET env == resolve_env(s.lines, s.environ)
           available == filter_available_providers(default_providers, env)
       IN  IF available # <<>> /\ (s.plugins => \A p \in Range(registry'.policies) : Creates(p))
           THEN /\ client' = "built"
                /\ providers' = available /\ planner' = available
                /\ adapters' = build_adapters(available, env)
           ELSE client' = "refused" /\ UNCHANGED lists
    /\ UNCHANGED <<op, stale, repeated>>

\* register_policy() replaces what the name stood for, a built-in one too.
register_policy(t, name, class) ==
    /\ CallBy(t)
    /\ policies' = Overlaid(policies, {[name |-> name, class |-> class]})
    /\ UNCHANGED <<lists, setup, op, stale, repeated>>

\* add_provider(): the provider is listed before it has an adapter.
add_provider(t, p) ==
    /\ Begin(t, [NewOp EXCEPT !.at = "listed", !.provider = p])
    /\ providers' = Append(providers, p)
    /\ repeated' = IF p.name \in NamesIn(providers) \/ ~ DistinctIds(p.models)
                   THEN repeated \cup {p.name} ELSE repeated
    /\ UNCHANGED <<adapters, planner, setup, policies, stale>>

\* AdapterConfig refuses an empty base_url: add_provider() raises, and leaves the
\* provider listed.
RefuseAddress(t) ==
    /\ op[t].at = "listed" /\ op[t].provider \in NoAddress
    /\ End(t, "no_address")
    /\ stale' = TRUE
    /\ UNCHANGED <<lists, setup, policies, calls, repeated>>

AddAdapter(t) ==
    /\ op[t].at = "listed" /\ op[t].provider \notin NoAddress
    /\ adapters' = adapters \cup {op[t].provider.name}
    /\ op' = [op EXCEPT ![t].at = "resync"]
    /\ UNCHANGED <<providers, planner, setup, policies, calls, stale, repeated>>

\* WorldState copies the list.
Snapshot(t) ==
    /\ op[t].at = "resync"
    /\ op' = [op EXCEPT ![t].at = "holding", ![t].list = providers]
    /\ UNCHANGED <<lists, setup, policies, calls, stale, repeated>>

\* The new planner; a chat goes on, the other calls return.
InstallPlanner(t) ==
    /\ op[t].at = "holding"
    /\ planner' = op[t].list
    /\ stale' = ~ op[t].alone
    /\ IF op[t].wish = None THEN End(t, "done")
       ELSE op' = [op EXCEPT ![t].at = "planning", ![t].list = <<>>]
    /\ UNCHANGED <<providers, adapters, setup, policies, calls, repeated>>
-----------------------------------------------------------------------------
refresh_models(t) ==
    /\ Begin(t, [NewOp EXCEPT !.at = "asking"])
    /\ UNCHANGED <<lists, setup, policies, stale, repeated>>

\* The next provider of the live list, passed over if it has no adapter.
AskProvider(t) ==
    /\ op[t].at = "asking" /\ op[t].pos <= Len(providers)
    /\ LET p == providers[op[t].pos]
       IN  IF p.name \in adapters THEN op' = [op EXCEPT ![t].at = "awaiting", ![t].provider = p]
           ELSE op' = [op EXCEPT ![t].pos = @ + 1]
    /\ UNCHANGED <<lists, setup, policies, calls, stale, repeated>>

\* At the end of the walk the planner follows if anything changed.
WalkEnds(t) ==
    /\ op[t].at = "asking" /\ op[t].pos > Len(providers)
    /\ IF op[t].changed THEN op' = [op EXCEPT ![t].at = "resync"] ELSE End(t, "done")
    /\ UNCHANGED <<lists, setup, policies, calls, stale, repeated>>

\* The ids of an answer that the provider, as it was when asked, did not have.
NewIds(t, listing) == Picked(listing, Range(listing) \ IdsIn(op[t].provider))

\* list.index(): the first provider equal to the one asked.
Places(t) == {i \in DOMAIN providers : providers[i] = op[t].provider}
First(places) == CHOOSE i \in places : \A j \in places : i <= j

\* Mutant of With: only the new models.
WithNewOnly(provider, ids) ==
    [provider EXCEPT !.models = [k \in DOMAIN ids |-> infer_model_metadata(ids[k])]]

With(provider, ids) ==
    [provider EXCEPT !.models = @ \o [k \in DOMAIN ids |-> infer_model_metadata(ids[k])]]

\* What an endpoint that lists a new id twice does to the names that are excused.
Repeating(t, ids) == IF IsInjective(ids) THEN {} ELSE {op[t].provider.name}

\* An error of the endpoint is an empty answer.
AnsweredNothingNew(t, listing) ==
    /\ op[t].at = "awaiting"
    /\ NewIds(t, listing) = <<>>
    /\ op' = [op EXCEPT ![t].at = "asking", ![t].pos = @ + 1, ![t].provider = None]
    /\ UNCHANGED <<lists, setup, policies, calls, stale, repeated>>

Located(t, provider, idx, changed) ==
    op' = [op EXCEPT ![t].at = "found", ![t].provider = provider, ![t].idx = idx, ![t].changed = changed]

\* Mutant of AnsweredNew: the new models go to the provider as it is by now.
AnsweredNewOnTop(t, listing) ==
    /\ op[t].at = "awaiting"
    /\ NewIds(t, listing) # <<>>
    /\ Located(t, With(providers[op[t].pos], NewIds(t, listing)), op[t].pos, TRUE)
    /\ repeated' = repeated \cup Repeating(t, NewIds(t, listing))
    /\ UNCHANGED <<lists, setup, policies, calls, stale>>

\* Mutant of AnsweredNew: changed says only whether the last answer had new ids.
AnsweredNewForgotten(t, listing) ==
    /\ op[t].at = "awaiting"
    /\ NewIds(t, listing) # <<>> /\ Places(t) # {}
    /\ Located(t, With(op[t].provider, NewIds(t, listing)), First(Places(t)), op[t].pos = Len(providers))
    /\ repeated' = repeated \cup Repeating(t, NewIds(t, listing))
    /\ UNCHANGED <<lists, setup, policies, calls, stale>>

\* The provider to store has the models it had when asked and the new ones; the
\* place for it is looked up first,
AnsweredNew(t, listing) ==
    /\ op[t].at = "awaiting"
    /\ NewIds(t, listing) # <<>> /\ Places(t) # {}
    /\ Located(t, With(op[t].provider, NewIds(t, listing)), First(Places(t)), TRUE)
    /\ repeated' = repeated \cup Repeating(t, NewIds(t, listing))
    /\ UNCHANGED <<lists, setup, policies, calls, stale>>

\* and whatever is there by then gives way.
Store(t) ==
    /\ op[t].at = "found"
    /\ providers' = [providers EXCEPT ![op[t].idx] = op[t].provider]
    /\ op' = [op EXCEPT ![t].at = "asking", ![t].pos = @ + 1, ![t].idx = 1, ![t].provider = None]
    /\ UNCHANGED <<adapters, planner, setup, policies, calls, stale, repeated>>

\* Mutant of AnsweredLost: looked up once for every new id, though replaced by the first.
AnsweredLostOnSecond(t, listing) ==
    /\ op[t].at = "awaiting"
    /\ NewIds(t, listing) # <<>>
    /\ Places(t) = {} \/ Len(NewIds(t, listing)) > 1
    /\ End(t, "lost")
    /\ stale' = (stale \/ op[t].changed)
    /\ UNCHANGED <<lists, setup, policies, calls, repeated>>

\* Another refresh has replaced the provider meanwhile: index() raises.
AnsweredLost(t, listing) ==
    /\ op[t].at = "awaiting"
    /\ NewIds(t, listing) # <<>> /\ Places(t) = {}
    /\ End(t, "lost")
    /\ stale' = (stale \/ op[t].changed)
    /\ UNCHANGED <<lists, setup, policies, calls, repeated>>

\* A body that is not an object of models: discover_models() lets the error out,
\* and nobody installs what earlier answers changed.
AnsweredMalformed(t) ==
    /\ op[t].at = "awaiting"
    /\ End(t, "malformed")
    /\ stale' = (stale \/ op[t].changed)
    /\ UNCHANGED <<lists, setup, policies, calls, repeated>>
-----------------------------------------------------------------------------
\* The request chat() makes of a wish; an unknown capability raises at once.
RequestOf(wish) ==
    [needs |-> resolve_capabilities(wish.capabilities), tokens |-> wish.tokens,
     model |-> wish.model, policy |-> wish.policy]

chat(t, wish) ==
    /\ Resolvable(wish.capabilities)
    /\ Begin(t, [NewOp EXCEPT !.at = "holding", !.list = providers, !.wish = RequestOf(wish)])
    /\ UNCHANGED <<lists, setup, policies, stale, repeated>>

ChatRefused(t, wish) ==
    /\ CallBy(t)
    /\ ~ Resolvable(wish.capabilities)
    /\ End(t, "unknown_capability")
    /\ UNCHANGED <<lists, setup, policies, stale, repeated>>

\* No policy given is the default one, whatever is registered under "default".
ClassOf(policy) == IF policy = None THEN "default" ELSE policies[policy]

PlanFor(request) == Ranked(World(planner), [request EXCEPT !.policy = ClassOf(@)])

Planned(t, request, outcome, plan) ==
    op' = [op EXCEPT ![t] = [NewOp EXCEPT !.alone = op[t].alone, !.wish = request,
                                          !.outcome = outcome, !.plan = plan]]

EndPlanning(t, request) ==
    IF request.policy \notin DOMAIN policies \cup {None} THEN Planned(t, request, "unknown_policy", <<>>)
    ELSE IF PlanFor(request) = <<>> THEN Planned(t, request, "no_plan", <<>>)
    ELSE IF HasDuplicate(PlanFor(request)) THEN Planned(t, request, "invalid", <<>>)
    ELSE Planned(t, request, "planned", PlanFor(request))

MakePlan(t) ==
    /\ op[t].at = "planning"
    /\ EndPlanning(t, op[t].wish)
    /\ UNCHANGED <<lists, setup, policies, calls, stale, repeated>>

\* stream() plans with the planner there is, needs nothing and names no policy.
stream(t, wish) ==
    /\ CallBy(t)
    /\ wish.capabilities = {} /\ wish.policy = None
    /\ EndPlanning(t, RequestOf(wish))
    /\ UNCHANGED <<lists, setup, policies, stale, repeated>>

Next ==
    \/ \E s \in Starts : from_env(s)
    \/ \E t \in Threads :
        \/ \E p \in NewPolicies : register_policy(t, p[1], p[2])
        \/ \E p \in MoreProviders : add_provider(t, p)
        \/ RefuseAddress(t) \/ AddAdapter(t) \/ Snapshot(t) \/ InstallPlanner(t)
        \/ refresh_models(t) \/ AskProvider(t) \/ Store(t) \/ WalkEnds(t)
        \/ \E listing \in Listings :
            AnsweredNothingNew(t, listing) \/ AnsweredNew(t, listing) \/ AnsweredLost(t, listing)
        \/ AnsweredMalformed(t)
        \/ \E wish \in Wishes : chat(t, wish) \/ ChatRefused(t, wish) \/ stream(t, wish)
        \/ MakePlan(t)

Spec == Init /\ [][Next]_vars
-----------------------------------------------------------------------------
\* LLMClient.models(), as pairs of a provider and a model; None does not filter.
models(name, capability) ==
    {pair \in Range(Pairs(World(providers))) :
        /\ name \in {None, pair.provider.name}
        /\ capability = None \/ capability \in pair.model.caps}

best_model    == CHOOSE b \in models(None, None) : \A c \in models(None, None) : c.model.quality <= b.model.quality
fastest_model == CHOOSE b \in models(None, None) : \A c \in models(None, None) : c.model.latency <= b.model.latency

\* Types: a client only after it was built, calls only when there is one.
TypeOK ==
    /\ client \in {"none", "refused", "built"}
    /\ calls \in 0 .. MaxCalls
    /\ \A t \in Threads :
        /\ op[t].at \in {"idle", "listed", "resync", "holding", "asking", "awaiting", "found", "planning"}
        /\ op[t].pos \in 1 .. Len(providers) + 1 /\ op[t].idx \in Nat
        /\ op[t].at = "found" => op[t].idx \in DOMAIN providers
        /\ Running(t) => client = "built"
        /\ op[t].plan # <<>> => op[t].outcome = "planned"
    /\ client = "built" => providers # <<>> /\ planner # <<>>
    /\ \A n \in DOMAIN policies : policies[n] \in Policies

\* Whatever refreshes and additions overlap, neither the client nor its planner
\* comes to have a model of a provider twice (every plan with it would be
\* refused as invalid), unless the provider was added twice, or a model of it was
\* given twice by whoever added it or by its own endpoint.
UniqueIn(list) ==
    \A n \in NamesIn(list) \ repeated :
        \A i, j \in DOMAIN list : list[i].name = n /\ list[j].name = n =>
            i = j /\ DistinctIds(list[i].models)

PairsUnique == UniqueIn(providers) /\ UniqueIn(planner)

\* When nothing runs, the planner plans over the client's list, unless calls
\* overlapped, or a refresh or an addition raised halfway, since the last
\* undisturbed call.
PlannerFollowsList ==
    (\A t \in Threads : ~ Running(t)) /\ ~ stale => planner = providers

\* No call makes the client forget a provider, an adapter or a model it had, but
\* for one: a refresh that overlapped another call may store over what another
\* refresh found.
NothingForgotten ==
    [][client = "built" =>
          /\ adapters \subseteq adapters'
          /\ \A i \in DOMAIN providers :
              /\ i \in DOMAIN providers'
              /\ providers'[i].name = providers[i].name
              /\ \/ IsPrefix(providers[i].models, providers'[i].models)
                 \/ \E t \in Threads : op[t].at = "found" /\ op[t].idx = i /\ ~ op[t].alone]_vars

\* A refresh finds the provider it asked where it was, whatever the endpoints
\* list; only one that overlapped another call may raise because it does not.
LoneRefreshSucceeds == \A t \in Threads : op[t].outcome = "lost" => ~ op[t].alone

\* Every listed provider can be called, but for the ones whose add_provider() is
\* just about to make their adapter and the ones it was refused for their address;
\* and there is no adapter without a provider.
AvailableHaveAdapters ==
    /\ adapters \subseteq NamesIn(providers)
    /\ \A n \in NamesIn(providers) \ adapters :
          \/ \E t \in Threads : op[t].at = "listed" /\ op[t].provider.name = n
          \/ \E p \in NoAddress : p.name = n

\* The plan holds what models() lists for each capability the request needs and
\* the context has room for; with nothing needed and room for all, the policies
\* "quality" and "fastest" begin with a match for best_model() and fastest_model().
AgreesWithCatalogue(plan, request) ==
    LET class == ClassOf(request.policy)
        first == CHOOSE pair \in models(None, None) :
                    pair.provider.name = plan[1].provider /\ pair.model.id = plan[1].model
    IN  /\ \A pair \in models(None, None) :
            (\A need \in request.needs : pair \in models(pair.provider.name, need))
              /\ request.tokens <= pair.model.context =>
                \E k \in DOMAIN plan : plan[k].provider = pair.provider.name /\ plan[k].model = pair.model.id
        /\ request.needs = {} /\ request.model = Unset
              /\ (\A pair \in models(None, None) : request.tokens <= pair.model.context) =>
            /\ class = "quality" => first.model.quality = best_model.model.quality
            /\ class = "fastest" => first.model.latency = fastest_model.model.latency

\* A chat that no other call disturbs, and a stream begun when nothing runs and
\* nothing is stale, plan every model the catalogue lists as fit for them, and
\* find no plan only if it lists none.
ListedIsPlanned ==
    [][\A t \in Threads :
          /\ op'[t] # op[t]
          /\ op'[t].outcome \in {"planned", "no_plan"}
          /\ \/ op[t].at = "planning" /\ op[t].alone
             \/ ~ stale /\ \A u \in Threads : ~ Running(u)
          => AgreesWithCatalogue(op'[t].plan, op'[t].wish)]_vars

\* One plugin that cannot be loaded takes no other with it: once a client is
\* built with plugins, the name of every sound policy plugin stands for the
\* class of the last sound plugin with the name.
GoodPluginsLoaded ==
    [][client # "built" /\ client' = "built" /\ start'.plugins =>
          LET eps == start'.entry_points
          IN  \A i \in DOMAIN eps :
                 eps[i].sound /\ eps[i].group = "policies"
                   /\ (\A j \in DOMAIN eps : j > i /\ eps[j].name = eps[i].name => ~ eps[j].sound)
                 => eps[i].name \in DOMAIN policies' /\ policies'[eps[i].name] = eps[i].class]_vars
=============================================================================
