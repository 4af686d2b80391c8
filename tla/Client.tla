------------------------------- MODULE Client -------------------------------
(***************************************************************************)
(* The client (client.LLMClient): execute() as the steps that read or      *)
(* write what its requests share: the provider list, the planner, the      *)
(* executor with its breakers and health tracker, and the usage counts.    *)
(* Requests run concurrently; providers may be added while they do.        *)
(*                                                                         *)
(*   request    idle -> reading -> kept -> installed -> planned            *)
(*                   -> executing (-> counting) -> executed                *)
(*                   -> returned or raised                                 *)
(*   addition   idle -> listed (-> raised) -> equipped -> copied -> kept   *)
(*                   -> tracked -> planned -> done                         *)
(*                                                                         *)
(* add_provider() replaces the tracker and the executor.  A request that   *)
(* is already executing keeps the executor it began with, and that one its *)
(* tracker, so all of them are kept, by number.                            *)
(*                                                                         *)
(* One candidate's turn (breaker asked, adapter called with its retries,   *)
(* outcome reported) is one step, but for the count of a response: the     *)
(* steps inside it are in Executor.                                        *)
(***************************************************************************)
EXTENDS Breaker, Health, Planner, FiniteSets

CONSTANTS
    Requests,         \* the requests executed in a behaviour
    Kinds,            \* what a request may ask for: [needs, tokens, model, policy]
    Latency,          \* of every response
    FirstProviders,   \* the provider list the client is built with
    MoreProviders,    \* providers add_provider() may be called with
    Asked,            \* model ids a request may name
    Additions,        \* the calls of add_provider(), each made at most once
    NoAddress,        \* the providers of these whose base_url is empty
    Categories,       \* categories of the ExecutionErrors adapters raise
    HooksRaise,       \* whether an extension registered as fatal may raise
    MayEscape         \* whether an adapter may raise something else

\* What a request that raised may have raised.
Outcomes == {"no_plan", "invalid", "failed", "escaped", "hook"}

AllProviders == Range(FirstProviders) \cup MoreProviders

ASSUME ClientAssumption ==
    /\ NoAddress \subseteq MoreProviders
    /\ HooksRaise \in BOOLEAN /\ MayEscape \in BOOLEAN
    /\ Latency \in Nat
    /\ None \notin Outcomes
    /\ IsFiniteSet(Requests)
    /\ FirstProviders \in Seq(AllProviders)
    /\ \A p \in AllProviders : ProviderOK(p)
    /\ \A kind \in Kinds : RequestOK(kind)

VARIABLES
    providers,    \* client._providers
    adapters,     \* the names in client._adapters, which all executors share
    world,        \* client._world_state
    planner,      \* the world client._planner was last built with
    tracker,      \* which of the trackers client._health_tracker is
    executor,     \* which of the executors client._executor is
    breakers,     \* per executor, the breaker of each provider
    reportsTo,    \* per executor, its tracker
    health,       \* per tracker, the health record of each provider
    usage,        \* usage_store: requests recorded today, by provider
    req,          \* how far each request has come
    seen,         \* the requests served that each request read of its provider
    met,          \* history: <<tracker, provider>> that two requests counted at the same time
    adds          \* how far each addition has come

catalogue == <<providers, adapters>>
planning == <<world, planner>>
engine == <<tracker, executor, reportsTo>>
counts == <<seen, met>>
vars == <<catalogue, planning, engine, breakers, health, usage, req, counts, adds>>

Names == {p.name : p \in AllProviders}

FreshBreakers == [n \in Names |-> NewBreaker]
FreshHealth == [n \in Names |-> NewHealth]

Average(samples) == Total(samples) \div Len(samples)

\* The WorldState of a provider list and a tracker.
World(list, records) ==
    [providers |-> list,
     status    |-> [n \in Names |-> records[n].status],
     used      |-> [n \in Names |-> records[n].count],
     latency   |-> [n \in Names |-> IF records[n].samples = <<>> THEN Unset
                                     ELSE Average(records[n].samples)]]

\* world is the world a request read, plan its candidates, by the provider
\* that answered it, failed whether last_error is set, gen the executor it stays
\* with.  alone is history: no other request was between reading the world and
\* planning, and no addition under way, while this one was.
NewRequest ==
    [at |-> "idle", kind |-> None, world |-> None, plan |-> <<>>, pos |-> 1, gen |-> 1,
     failed |-> FALSE, by |-> None, outcome |-> None, alone |-> TRUE]

Init ==
    /\ providers = FirstProviders
    /\ adapters = {p.name : p \in Range(FirstProviders)}
    /\ world = World(FirstProviders, FreshHealth) /\ planner = world
    /\ tracker = 1 /\ executor = 1
    /\ breakers = <<FreshBreakers>> /\ reportsTo = <<1>>
    /\ health = <<FreshHealth>>
    /\ usage = [n \in Names |-> 0]
    /\ req = [r \in Requests |-> NewRequest]
    /\ seen = [r \in Requests |-> 0] /\ met = {}
    /\ adds = [a \in Additions |-> [at |-> "idle", provider |-> None, world |-> None]]

Candidate(r) == req[r].plan[req[r].pos].provider

CurrentWorld == World(providers, health[tracker])

Sick(seenWorld) == {n \in Names : seenWorld.status[n] = "unhealthy"}

Refreshing == {r \in Requests : req[r].at \in {"reading", "kept", "installed"}}
Adding == {a \in Additions : adds[a].at \notin {"idle", "raised", "done"}}

Raise(r, outcome) == req' = [req EXCEPT ![r].at = "raised", ![r].outcome = outcome]
-----------------------------------------------------------------------------
\* _refresh_world_state(): the tracker is read, ...
ReadWorld(r, kind) ==
    /\ req[r].at = "idle"
    /\ req' = [q \in Requests |->
                  IF q = r THEN [NewRequest EXCEPT !.at = "reading", !.kind = kind,
                                                   !.world = CurrentWorld,
                                                   !.alone = Refreshing = {} /\ Adding = {}]
                  ELSE IF q \in Refreshing THEN [req[q] EXCEPT !.alone = FALSE]
                  ELSE req[q]]
    /\ UNCHANGED <<catalogue, planning, engine, breakers, health, usage, counts, adds>>

\* ... the client's world replaced, for every request, ...
KeepWorld(r) ==
    /\ req[r].at = "reading"
    /\ world' = req[r].world
    /\ req' = [req EXCEPT ![r].at = "kept"]
    /\ UNCHANGED <<catalogue, planner, engine, breakers, health, usage, counts, adds>>

\* Mutant of InstallPlanner: the planner is only built when there is none.
KeepPlanner(r) ==
    /\ req[r].at = "kept"
    /\ req' = [req EXCEPT ![r].at = "installed"]
    /\ UNCHANGED <<catalogue, planning, engine, breakers, health, usage, counts, adds>>

\* ... and its planner built anew from the world it has by then.
InstallPlanner(r) ==
    /\ req[r].at = "kept"
    /\ planner' = world
    /\ req' = [req EXCEPT ![r].at = "installed"]
    /\ UNCHANGED <<catalogue, world, engine, breakers, health, usage, counts, adds>>

\* Whichever planner the client has by now makes the plan; without a candidate
\* it raises PlanningError, with a repeated one ValidationError.
MakePlan(r) ==
    /\ req[r].at = "installed"
    /\ LET plan == Ranked(planner, req[r].kind)
       IN  IF plan = <<>> THEN Raise(r, "no_plan")
           ELSE IF HasDuplicate(plan) THEN Raise(r, "invalid")
           ELSE req' = [req EXCEPT ![r].at = "planned", ![r].plan = plan]
    /\ UNCHANGED <<catalogue, planning, engine, breakers, health, usage, counts, adds>>

\* The executor the client has now is the one the request stays with.
BeginExecution(r) ==
    /\ req[r].at = "planned"
    /\ req' = [req EXCEPT ![r].at = "executing", ![r].gen = executor]
    /\ UNCHANGED <<catalogue, planning, engine, breakers, health, usage, counts, adds>>

AtCandidate(r) == req[r].at = "executing" /\ req[r].pos <= Len(req[r].plan)

\* The breaker a request's executor asks, and the tracker it reports to.
Breaker(r) == breakers[req[r].gen][Candidate(r)]
Tracker(r) == reportsTo[req[r].gen]

\* Mutant of TurnRefused: the candidate after the refused one is passed over.
TurnRefusedSkipping(r) ==
    /\ AtCandidate(r)
    /\ ~ Allows(Breaker(r))
    /\ breakers' = [breakers EXCEPT ![req[r].gen][Candidate(r)] = AfterAllow(@)]
    /\ req' = [req EXCEPT ![r].pos = @ + 2]
    /\ UNCHANGED <<catalogue, planning, engine, health, usage, counts, adds>>

TurnRefused(r) ==
    /\ AtCandidate(r)
    /\ ~ Allows(Breaker(r))
    /\ breakers' = [breakers EXCEPT ![req[r].gen][Candidate(r)] = AfterAllow(@)]
    /\ req' = [req EXCEPT ![r].pos = @ + 1]
    /\ UNCHANGED <<catalogue, planning, engine, health, usage, counts, adds>>

\* A candidate whose provider has no adapter is an error of its own; the breaker
\* is asked first.
TurnAdapterless(r) ==
    /\ AtCandidate(r)
    /\ Allows(Breaker(r)) /\ Candidate(r) \notin adapters
    /\ breakers' = [breakers EXCEPT ![req[r].gen][Candidate(r)] = AfterAllow(@)]
    /\ req' = [req EXCEPT ![r].pos = @ + 1, ![r].failed = TRUE]
    /\ UNCHANGED <<catalogue, planning, engine, health, usage, counts, adds>>

Called(r) == AtCandidate(r) /\ Allows(Breaker(r)) /\ Candidate(r) \in adapters

\* A response: the tracker hears of it and the requests served are read ...
TurnServed(r) ==
    /\ Called(r)
    /\ breakers' = [breakers EXCEPT ![req[r].gen][Candidate(r)] = AfterSuccess(AfterAllow(@))]
    /\ health' = [health EXCEPT ![Tracker(r)][Candidate(r)] = AfterServed(@, Latency)]
    /\ seen' = [seen EXCEPT ![r] = health[Tracker(r)][Candidate(r)].count]
    /\ met' = IF \E q \in Requests : req[q].at = "counting" /\ Tracker(q) = Tracker(r)
                                    /\ Candidate(q) = Candidate(r)
              THEN met \cup {<<Tracker(r), Candidate(r)>>} ELSE met
    /\ req' = [req EXCEPT ![r].at = "counting"]
    /\ UNCHANGED <<catalogue, planning, engine, usage, adds>>

\* Mutant of CountServed: the report goes to the client's tracker of the moment.
CountServedLate(r) ==
    /\ req[r].at = "counting"
    /\ health' = [health EXCEPT ![tracker][Candidate(r)] = AfterCounted(@, seen[r])]
    /\ req' = [req EXCEPT ![r].at = "executed", ![r].by = Candidate(r)]
    /\ UNCHANGED <<catalogue, planning, engine, breakers, usage, counts, adds>>

\* ... and one more is stored.
CountServed(r) ==
    /\ req[r].at = "counting"
    /\ health' = [health EXCEPT ![Tracker(r)][Candidate(r)] = AfterCounted(@, seen[r])]
    /\ req' = [req EXCEPT ![r].at = "executed", ![r].by = Candidate(r)]
    /\ UNCHANGED <<catalogue, planning, engine, breakers, usage, counts, adds>>

TurnFailed(r, category) ==
    /\ Called(r)
    /\ breakers' = [breakers EXCEPT ![req[r].gen][Candidate(r)] = AfterFailure(AfterAllow(@))]
    /\ health' = [health EXCEPT ![Tracker(r)][Candidate(r)] = AfterRefused(@, category)]
    /\ req' = [req EXCEPT ![r].pos = @ + 1, ![r].failed = TRUE]
    /\ UNCHANGED <<catalogue, planning, engine, usage, counts, adds>>

TurnEscapes(r) ==
    /\ MayEscape
    /\ Called(r)
    /\ breakers' = [breakers EXCEPT ![req[r].gen][Candidate(r)] = AfterAllow(@)]
    /\ Raise(r, "escaped")
    /\ UNCHANGED <<catalogue, planning, engine, health, usage, counts, adds>>

\* The plan is exhausted: a failed result, or none when nothing was even tried.
Exhaust(r) ==
    /\ req[r].at = "executing" /\ req[r].pos > Len(req[r].plan)
    /\ IF req[r].failed THEN req' = [req EXCEPT ![r].at = "executed"] ELSE Raise(r, "invalid")
    /\ UNCHANGED <<catalogue, planning, engine, breakers, health, usage, counts, adds>>

\* A result without a response becomes a KernelError.
Fail(r) ==
    /\ req[r].at = "executed" /\ req[r].by = None
    /\ Raise(r, "failed")
    /\ UNCHANGED <<catalogue, planning, engine, breakers, health, usage, counts, adds>>

\* Mutant of Return: the usage is charged to the plan's first provider.
ReturnChargingFirst(r) ==
    /\ req[r].at = "executed" /\ req[r].by # None
    /\ usage' = [usage EXCEPT ![req[r].plan[1].provider] = @ + 1]
    /\ req' = [req EXCEPT ![r].at = "returned"]
    /\ UNCHANGED <<catalogue, planning, engine, breakers, health, counts, adds>>

\* The usage of the response is recorded, the response returned.
Return(r) ==
    /\ req[r].at = "executed" /\ req[r].by # None
    /\ usage' = [usage EXCEPT ![req[r].by] = @ + 1]
    /\ req' = [req EXCEPT ![r].at = "returned"]
    /\ UNCHANGED <<catalogue, planning, engine, breakers, health, counts, adds>>

\* A fatal extension raises: in on_request, in on_plan or on_execution_start,
\* in on_execution_end or on_response.
HookRaises(r) ==
    /\ HooksRaise
    /\ req[r].at \in {"installed", "planned", "executed"}
    /\ Raise(r, "hook")
    /\ UNCHANGED <<catalogue, planning, engine, breakers, health, usage, counts, adds>>

\* add_provider(): the provider is listed, ...
AddProvider(a, p) ==
    /\ adds[a].at = "idle"
    /\ providers' = Append(providers, p)
    /\ req' = [q \in Requests |-> IF q \in Refreshing THEN [req[q] EXCEPT !.alone = FALSE] ELSE req[q]]
    /\ adds' = [adds EXCEPT ![a].at = "listed", ![a].provider = p]
    /\ UNCHANGED <<adapters, planning, engine, breakers, health, usage, counts>>

\* ... which is all, if it has no address: AdapterConfig raises.  Else it is
\* given an adapter, ...
RefuseAddress(a) ==
    /\ adds[a].at = "listed" /\ adds[a].provider \in NoAddress
    /\ adds' = [adds EXCEPT ![a].at = "raised"]
    /\ UNCHANGED <<catalogue, planning, engine, breakers, health, usage, req, counts>>

AddAdapter(a) ==
    /\ adds[a].at = "listed" /\ adds[a].provider \notin NoAddress
    /\ adapters' = adapters \cup {adds[a].provider.name}
    /\ adds' = [adds EXCEPT ![a].at = "equipped"]
    /\ UNCHANGED <<providers, planning, engine, breakers, health, usage, req, counts>>

\* ... the health that the client's world has is copied, with the list, ...
CopyWorld(a) ==
    /\ adds[a].at = "equipped"
    /\ adds' = [adds EXCEPT ![a].at = "copied", ![a].world = [world EXCEPT !.providers = providers]]
    /\ UNCHANGED <<catalogue, planning, engine, breakers, health, usage, req, counts>>

ReplaceWorld(a) ==
    /\ adds[a].at = "copied"
    /\ world' = adds[a].world
    /\ adds' = [adds EXCEPT ![a].at = "kept"]
    /\ UNCHANGED <<catalogue, planner, engine, breakers, health, usage, req, counts>>

\* ... and the tracker, the planner and the executor are replaced; the tracker
\* and the breakers of the new executor know nothing.
NewTracker(a) ==
    /\ adds[a].at = "kept"
    /\ health' = Append(health, FreshHealth)
    /\ tracker' = Len(health) + 1
    /\ adds' = [adds EXCEPT ![a].at = "tracked"]
    /\ UNCHANGED <<catalogue, planning, executor, reportsTo, breakers, usage, req, counts>>

NewPlanner(a) ==
    /\ adds[a].at = "tracked"
    /\ planner' = world
    /\ adds' = [adds EXCEPT ![a].at = "planned"]
    /\ UNCHANGED <<catalogue, world, engine, breakers, health, usage, req, counts>>

NewExecutor(a) ==
    /\ adds[a].at = "planned"
    /\ breakers' = Append(breakers, FreshBreakers)
    /\ reportsTo' = Append(reportsTo, tracker)
    /\ executor' = Len(breakers) + 1
    /\ adds' = [adds EXCEPT ![a].at = "done"]
    /\ UNCHANGED <<catalogue, planning, tracker, health, usage, req, counts>>

Tick ==
    /\ breakers' = [g \in DOMAIN breakers |-> [n \in Names |-> Older(breakers[g][n])]]
    /\ UNCHANGED <<catalogue, planning, engine, health, usage, req, counts, adds>>

Advance(r) ==
    \/ HookRaises(r)
    \/ KeepWorld(r) \/ InstallPlanner(r) \/ MakePlan(r) \/ BeginExecution(r)
    \/ TurnRefused(r) \/ TurnAdapterless(r) \/ TurnServed(r) \/ CountServed(r) \/ TurnEscapes(r)
    \/ \E c \in Categories : TurnFailed(r, c)
    \/ Exhaust(r) \/ Fail(r) \/ Return(r)

Add(a) ==
    \/ \E p \in MoreProviders : AddProvider(a, p)
    \/ RefuseAddress(a) \/ AddAdapter(a) \/ CopyWorld(a) \/ ReplaceWorld(a)
    \/ NewTracker(a) \/ NewPlanner(a) \/ NewExecutor(a)

Next ==
    \/ Tick
    \/ \E a \in Additions : Add(a)
    \/ \E r \in Requests : (\E kind \in Kinds : ReadWorld(r, kind)) \/ Advance(r)

Spec == Init /\ [][Next]_vars

-----------------------------------------------------------------------------
TypeOK ==
    /\ executor \in DOMAIN breakers /\ tracker \in DOMAIN health
    /\ DOMAIN reportsTo = DOMAIN breakers
    /\ \A g \in DOMAIN breakers : breakers[g] \in [Names -> Breakers] /\ reportsTo[g] \in DOMAIN health
    /\ \A r \in Requests :
        /\ req[r].gen \in DOMAIN breakers
        /\ req[r].pos \in 1 .. Len(req[r].plan) + 1
        /\ req[r].by \in Names \cup {None}
        /\ req[r].by # None => ~ req[r].outcome \in {"no_plan", "invalid", "failed", "escaped"}

\* A plan holds every (provider, model) that satisfies the request and whose
\* provider the planner's world does not call unhealthy, nothing else, nothing
\* twice, best score first and in name order among equals.
IsRanking(plan, seenWorld, kind) ==
    LET offered(pr, m) == /\ pr.name \notin Sick(seenWorld)
                          /\ kind.tokens <= m.context
                          /\ \A need \in kind.needs : need \in pr.caps \/ need \in m.caps
        names(c, pr, m) == c.provider = pr.name /\ c.model = m.id /\ c.score = Score(kind, pr, m, seenWorld)
    IN  /\ \A pr \in Range(seenWorld.providers) : \A m \in Range(pr.models) :
               offered(pr, m) => \E c \in Range(plan) : names(c, pr, m)
        /\ \A c \in Range(plan) : \E pr \in Range(seenWorld.providers) : \E m \in Range(pr.models) :
               offered(pr, m) /\ names(c, pr, m)
        /\ \A k, l \in DOMAIN plan : k < l =>
               \/ plan[k].score > plan[l].score
               \/ plan[k].score = plan[l].score /\ plan[k].provider < plan[l].provider
               \/ /\ plan[k].score = plan[l].score /\ plan[k].provider = plan[l].provider
                  /\ plan[k].model < plan[l].model

PlansAreRankings ==
    [][\A r \in Requests : req[r].at = "installed" /\ req'[r].at = "planned" =>
          IsRanking(req'[r].plan, planner, req[r].kind)]_vars

AskingFor(kind, policy, asked) ==
    [needs |-> kind.needs, tokens |-> kind.tokens, model |-> asked, policy |-> policy]

FirstIsAsked(plan, seenWorld, asked) ==
    (\E c \in Range(plan) : c.model = asked) =>
        \E pair \in Range(Pairs(seenWorld)) :
            /\ pair.provider.name = plan[1].provider /\ pair.model.id = plan[1].model
            /\ asked \in pair.model.parts

\* Under every policy, if a model with the name that is asked for can serve the
\* request, the first candidate's id contains that name: neither quality, speed,
\* use nor priority outweighs it.
RequestedModelFirst ==
    \A r \in Requests : req[r].at = "installed" =>
        \A policy \in Policies : \A asked \in Asked :
            FirstIsAsked(Ranked(planner, AskingFor(req[r].kind, policy, asked)), planner, asked)

\* A request that refreshes and plans while no other one does, and while no
\* provider is being added, does not plan a provider that was unhealthy when it
\* was called.  (Either may leave it a planner built from an older world.)
AlonePlansHealthy ==
    \A r \in Requests : req[r].alone =>
        \A k \in DOMAIN req[r].plan : req[r].plan[k].provider \notin Sick(req[r].world)

\* Whatever a provider answered, through any executor the client ever had, is in
\* its usage once; missing are only the answer still on its way and the one that
\* a fatal extension took away from the caller.
UsageMatchesAnswers ==
    \A n \in Names :
        LET answered == {r \in Requests : req[r].by = n}
            missing == {r \in answered : req[r].at = "executed" \/ req[r].outcome = "hook"}
        IN  usage[n] = Cardinality(answered \ missing)

Counted(t, n) == {r \in Requests : req[r].by = n /\ Tracker(r) = t}

\* No tracker counts more than the answers of the requests whose executor reports
\* to it: what an old executor still reports after add_provider() never shows up
\* in the new tracker.  It counts all of them, unless two requests counted the
\* provider at the same time.
TrackersKeepApart ==
    \A t \in DOMAIN health : \A n \in Names :
        /\ health[t][n].count <= Cardinality(Counted(t, n))
        /\ <<t, n>> \notin met => health[t][n].count = Cardinality(Counted(t, n))
-----------------------------------------------------------------------------
\* docs/DVM.md R-13: a provider whose breaker opened is excluded from plans, and
\* gets a half-open call after the cooldown: once the breaker would let a call
\* through, the plan of a request called now names the provider.
HalfOpenAfterCooldown ==
    [][\A r \in Requests : req[r].at = "idle" /\ req'[r].at = "reading" =>
          \A n \in Names : breakers[executor][n].state = "open" /\ CooldownElapsed(breakers[executor][n])
                              => n \notin Sick(req'[r].world)]_vars
=============================================================================
