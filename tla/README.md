# A TLA+ model of free-llm-kernel

free-llm-kernel routes chat requests over several LLM providers: it plans a ranked list of
candidates, tries them with retries and fallback behind per-provider circuit breakers, keeps
health records that feed the next plan, and records usage in a file. This directory models
those parts from the source under `src/llm_kernel/`, checks them with TLC on small instances
and proves theorems about some of them with TLAPS. Line numbers below are those of the files
in `src/llm_kernel/`.

## 1. Inventory

| Part | Where | State it keeps | Operations | What is hard |
|---|---|---|---|---|
| Circuit breaker | `runtime/__init__.py` 174-256 | state, failure count, time it opened, half-open calls | `allow_request`, `record_failure`, `record_success` | callers ask, then report later or never; methods overlap; cooldown; bounded probes |
| Health tracker | `runtime` 78-150 | status, failure streak, latency window, request count, per provider | `record_success`, `record_failure`, getters | long report sequences; written by every request, without a lock, and read by planning |
| Executor | `runtime` 673-794 | breakers, adapters, tracker | `execute`, `_try_candidate` | retries, fallback, refusals, missing adapters, unexpected exceptions, concurrent requests |
| Retry engine | `runtime` 264-295 | none | `is_retryable`, `backoff_delay` | jitter and cap |
| Adapter | `runtime` 316-665 | HTTP client | `execute`, `stream`, `health_check`, `discover_models` | classification of failures; errors swallowed in a stream |
| Request state machine | `core/state_machine.py` | state | `transition_to`, `can_transition_to` | nobody uses it |
| Planner | `planner/` | a world (providers, health, usage, latency) | `plan` | stale worlds, duplicates, ordering |
| Routing policies, token estimator | `planner/__init__.py` 144-480 | none | `score`, `estimate*` | float arithmetic |
| Client | `client.py` | providers, adapters, world, planner, tracker, executor | `from_env`, `execute`, `chat`, `stream`, `add_provider`, `refresh_models`, model queries | everything above shared by threads without a lock; the provider list replaced and walked at once |
| Capability inference, provider table | `core/__init__.py` 58-125, `planner/__init__.py` 320-415, `config.py` 26-220 | none | `resolve_capabilities`, `infer_model_metadata` | tables where the first match decides |
| Configuration | `config.py` 226-330 | none | `load_env`, `resolve_env`, `filter_available_providers`, `build_adapters` | the list and the adapters are derived apart |
| Plugin registry | `plugins/__init__.py` | plugins by group and name | `register`, `load_entry_points` | one entry point of several fails |
| Middleware | `extensions/__init__.py` 58-130 | extension list, fatal ones | five hooks, `add`, `remove` | mutation during iteration, fatal errors |
| Usage store | `extensions/__init__.py` 138-248 | counts per day, a lock, a file | `record`, `clear_expired`, getters | one unlocked writer, non-atomic file write, killed process |
| Logging, core types, scripts | `extensions/logging.py`, `core/`, `scripts/` | none | value types, formatting | sequential |

How they interact. `LLMClient.execute` reads the tracker, replaces the client's planner, runs
the `on_request` hooks, plans, runs hooks, hands the plan to the executor, runs hooks, records
usage. The executor asks a provider's breaker, calls its adapter, and reports to breaker and
tracker. The tracker's status closes the loop at the next refresh. `add_provider` replaces the
planner, tracker and executor while requests may be running; `refresh_models` replaces providers
in the list it walks. `stream` plans with whatever planner is there and talks to the adapters
directly. `from_env` puts all of it together from a `.env` file, the environment and plugins.

What makes each part correct: the breaker counts failures in a row, keeps its cooldown and
heals; the tracker's status is what the report history says; the executor follows its plan,
gives a candidate up only for a reason and reports the right error; the client counts each
answer once and plans on what it knows; the catalogue repeats no model, forgets none, and what it
lists is planned; a hook reaches the extensions that are on the chain; a stream has one voice; the store
loses nothing that it said it recorded. The hazards behind these are listed in `PROJECT.json`, each at its line.

## 2. Modules

| Module | Models | Built on |
|---|---|---|
| `Breaker` | a breaker as a value; the methods as functions from breaker to breaker | - |
| `CircuitBreaker` | one breaker, concurrent callers who may be switched out inside a method, a clock | `Breaker` |
| `Health` | a provider's health record as a value, the two reports as functions | - |
| `HealthTracker` | reports of concurrent requests, call by call, with their history | `Health`, `Lists` |
| `Adapter` | what an HTTP exchange makes of a call: response, error, other exception | - |
| `Executor` | requests walking their plans | `Breaker`, `Health` |
| `Fallback` | abstract: what `execute` promises of one request | refined by `Executor` |
| `RequestStateMachine` | the transition table of `core/state_machine.py` | refined by `Executor` |
| `Routing` | the scores of the five built-in policies | - |
| `Lists` | the elements of a sequence in a set, a sequence sorted, sequences in a row, as recursive functions | - |
| `Planner` | `plan` as an operator of world and request | `Routing`, `Lists` |
| `Client` | `execute` and `add_provider` over shared planner, tracker, executor, usage | `Breaker`, `Health`, `Planner` |
| `Streaming` | `stream` over the adapter's line loop | - |
| `UsageStore` | the store with threads, days, its file and a killed process | - |
| `Capabilities` | the alias and pattern tables; a model inferred from its id | - |
| `Startup` | provider table, `.env` and environment, adapters, plugins | `Planner` |
| `Catalogue` | a client from `from_env` on: list, adapters, planner, policies, as calls change them | `Startup`, `Capabilities` |
| `Middleware` | the chain, its changes and the walks of its hooks | `Lists` |
| `MCExecutor`, `MCClient`, `MCStreaming`, `MCCatalogue`, `MCMiddleware`, `MCHealthTracker` | plans, exchanges, providers, requests, environments and symmetry for TLC | |
| `CircuitBreakerProofs`, `HealthTrackerProofs`, `ExecutorProofs`, `ClientProofs`, `CatalogueProofs`, `UsageStoreProofs`, `MiddlewareProofs` | theorems about the module each is named for; `ExecutorProofs` also those about `Streaming` | |
| `ListsProofs` | lemmas about `Lists`, for all of them | |

Correspondence worth knowing before reading them:

* **Breaker.** `opened_at` is kept as an age: ticks since, capped one above the cooldown, which
  is all `_cooldown_elapsed` can tell apart. The failure count saturates at the threshold: it
  is only compared with it, and reset.
* **Atomicity.** Breaker and tracker have no lock. The interpreter switches threads only where
  the code makes a call or jumps back, so a method that reads, calls and writes is several steps
  where it calls. `CircuitBreaker` has the three such places of the breaker: after the clock is
  found to be past the cooldown (`PauseAsk`, `PauseSucceed`) and after `datetime.now()` is taken for
  the stamp (`PauseFail`; `stamp` is how long ago that was). A step that changes the breaker while
  another caller is paused sets `crossed`, and the exact properties are claimed until then; what
  still holds afterwards, healing, is claimed without condition. `HealthTracker` has a step for
  every call of a report; `told` is the history of reports that ended, each marked `alone` if no
  other about the provider was under way. `Executor` and `Client`, which are about the order of
  whole reports, divide only the report of a success, where it has read the request count and not
  yet stored one more (runtime 104; `seen` is what was read, and `shared` and `met` note providers
  that two requests counted at once): their properties are about that count. A failure stays one
  step there; that a method in one step is what an undisturbed report does is the invariant of
  `HealthTrackerProofs`.
* **Executor.** `req[r].at` is the place in the code: `select` is the head of the candidate
  loop, `call` a call in the adapter, `backoff` the sleep, `settle` the gap between breaker
  and tracker report, `counting` the gap inside the tracker's.
  `Errors` are records of category and verdict; `MCExecutor` takes them from `Adapter`.
* **Routing.** The code computes in floats; here one is 100000 units, given scores are in
  thousandths and quotients are rounded down, so two scores closer than a unit may tie here and
  not there. Of a model's id only which names it contains is kept (`parts`), since a request
  names a model by a part of its id. Registered and unknown policy names are in `Catalogue`,
  where a policy is one of the five classes.
* **Client.** A candidate's turn is one step up to the count of its response (its inside is
  `Executor`'s subject), so that refresh, plan, turn, hook and `add_provider` interleave.
  `add_provider` is a step for each thing it shares: list, adapter, copy of the world's health, the
  world, tracker, planner, executor; with an empty `base_url` it raises after the first
  (`RefuseAddress`), and the provider stays listed without an adapter. Every executor and every
  tracker ever made is kept, by number, since a request stays with the executor it began with, and
  that one with its tracker; the executor may get a tracker that another addition made. The
  adapters are one dictionary, which all executors share.
* **Catalogue, Startup, Capabilities.** The real provider table, alias table and pattern tables;
  names and ids are numbers in alphabetical order and `MCCatalogue` says which is which. Of an
  id, the patterns it contains are given. `from_env` is one step, since the client it makes is
  nobody's before it returns, but its effects outlive its failure: the plugins and policies stay.
  A refresh holds the provider it asked while the endpoint answers and finds its place again by
  equality, as `list.index` does; finding the place (`AnsweredNew`) and storing there (`Store`) are
  two steps. A provider without a `base_url` is listed and refused. Requests are planned and not executed, all providers healthy.
* **Middleware.** `lists` holds every list object the chain ever had, because a hook goes on
  walking the one it began with. `add` is two steps (append, mark fatal), `remove` three (read the
  list, assign the filtered copy, discard the mark). The fields of `walk` below `pos`, and
  `member`, `strict`, `mixed`, are history.
* **Streaming.** Streams share no state, so one stream is modelled. Its names differ from those of
  `Executor`, so that one module can prove about both walks of a plan. `StreamPlans` contains `<<>>`
  for a planner that finds nothing.
* **UsageStore.** One key per day stands for all the keys of the day. An empty file and an
  empty document both load as no counts; a text overlaid on a longer one is `Torn` and loads
  as no counts too. `clear_expired` is two steps (build the new dictionary, replace the old
  one), as the code's one line is; any number of threads may be in it, each with a number of days of
  its own out of `KeepDays`, and it may raise when a dictionary grows under one of its two walks.
  `record` is one step up to the save: it runs under the lock. A day's dictionary is an object
  (`entries`) that several dictionaries of days may share, so a count made while a
  `clear_expired` is under way shows in the one it is building too.

## 3. Runs

Passing runs:

| Run | Instance | Shows |
|---|---|---|
| `circuit_breaker` | 3 callers, one may end silently, all may be switched out, threshold 2, cooldown 1 tick, 1 probe; 92 502 states | count and stamp survive late reports in every order until methods cross, a half-open period admits one call more than `half_open_max_calls` and no other number, the cooldown is kept; the breaker heals, also afterwards, once failures stop and every call reports |
| `health_tracker` | 2 reporters, 1 provider, 5 reports and the one under way, window 2, thresholds 2 and 3; 4.3 million states | until reports overlap, streak, status, samples and count are what the history says; two undisturbed successes heal in any case |
| `executor` | 2 requests, 3 providers (one without adapter), 3 plans, one retry; 119 837 states | attempts follow the plan, a request fails only when exhausted and with the right error, no provider is charged with more than it served, and with less only where two reports overlapped, the promise `Fallback` and the state table are implemented, every request ends |
| `client` | 2 requests, each of one of 2 kinds, one provider to begin with, one addition (a new one, the same again, or one without an address), exceptions, fatal hooks; requests symmetric; 1 087 745 states | a request that no other and no addition overlaps plans no provider it knew unhealthy; usage counts answers; a tracker hears only of the requests that began under it; plans rank exactly what the planner's world offers; the model that is asked for comes first under every policy |
| `usage_store` | 2 threads, 3 days, `clear_expired` keeping one or two days before today, 2 records a day, one kill; 1 057 502 states | no count is invented; a kill outside a file write, with no two calls beside each other before, loses nothing; the lock comes back |
| `catalogue` | 2 threads, 4 calls, 5 environments, 3 providers to add (one without an address), 3 listings, 5 wishes; 577 157 states | no model is listed twice that nobody gave twice; the planner follows the list once overlapping calls are over; a lone refresh succeeds; what is available has an adapter; no model is forgotten but by a refresh that overlapped another call; what the catalogue lists for a wish is what is planned; a plugin that fails takes no other along |
| `middleware` | 1 request, 2 callers, 2 extensions, 3 changes; 1.3 million states | each hook calls what stays on the chain once and in order; errors surface for fatal extensions and no others; the chain ends up with the members and fatal marks the calls gave it |
| `stream` | 5 plans of up to 3 candidates, 3 lines each | one candidate is heard, in order; falling back and giving up have a reason; the stream ends |

Bounds. Breaker and tracker have no counter beyond their thresholds, so small thresholds go
through every comparison; three callers allow a late success, a late failure and a probe at
once; five reports condemn a provider (three) and heal it (two), and fewer fill a window of two
twice over. Four calls of a client are its making, two that overlap, and one that sees what they
left; three changes of a chain are two that overlap each other and a walk, and one before or
after. Two requests with
two failures to open a breaker let one request find it closed, opened and half-open by the
other. Requests are interchangeable in `client`, whose properties are about safety only, so TLC may
take them as symmetric. Two threads in the store are a `record` beside a `clear_expired`, or two
`clear_expired`, who may keep different days. The `Window`, `DegradeAt` and `CondemnAt` of the runs stand for the literals 20, 2 and 3; the
proofs hold for all values their modules' assumptions allow. Deadlock checking is off where
a behaviour really ends: reports, streams, days, calls and changes run out. The `client` and
`executor` runs keep it on, where the clock always ticks.

Disagreements between the code and what is said of it (runs that find a violation):

| Run | What happens | What is said |
|---|---|---|
| `breaker_wedge` | probes that end in an unexpected exception report nothing; half-open then refuses for ever | STATE.md 142-143 |
| `executor_returns` | all breakers refuse: building the failed result raises `ValidationError` | docstring of `execute`, ARCHITECTURE.md 25 |
| `client_half_open` | an unhealthy provider is in no plan, so the breaker's cooldown never leads to a probe | DVM.md 76, STATE.md 110 |
| `stream_cut` | a connection that breaks before the first chunk: an empty stream, no fallback, no error | docstring of `stream`, DVM.md 73 |

Seen while reading, not given a run; where a property of a passing run states what the code does
instead, it is named:

* STATE.md 153 allows `half_open_max_calls` test calls. The call that makes the breaker half-open is
  not counted, so one more is let through (`HalfOpenAdmits` states that number).
* STATE.md 159: an open breaker rejects at once; 359 and 360 call breaker and health thread-safe.
  They take no lock: when two methods overlap, a breaker may let a call through right after a failure was
  reported (`runtime/__init__.py` 207, 228), and of two successes reported at once one may not be
  counted (line 104; `ServedOnce` and `TrackersKeepApart` give the upper bound, and equality only
  where no two overlapped).
* README.md 271 and 336 set `cheapest_model()` beside the policy `cheapest`. The one compares the
  input price only (`client.py` 419), the other input plus output (`planner/__init__.py` 234), so
  they may name different models.
* The docstring of `refresh_models` has new models added and vanished ones kept
  (`client.py` 494-496). Of two refreshes
  that overlap between lookup and store (lines 524-525), the second store drops the models the first
  one found (`NothingForgotten` says that no other step forgets one).

Also: STATE.md 154 lists a `success_threshold` of 2 the breaker does
not have. Two failures reported to one tracker at once may count as one, like two successes, and a
success that read "unhealthy" before a failure condemned the provider again degrades it. An
`add_provider` that raises for an empty `base_url` leaves the provider listed and, from the next
refresh on, planned; each request that comes to it notes an error and goes on. The slower of two refreshes installs the older planner, so a
provider known unhealthy may be planned (STATE.md 120; `AlonePlansHealthy` is about a request
that is alone). A process killed between truncating and writing the usage file loses it in
silence (ARCHITECTURE.md 359; `UndisturbedIsDurable` excludes that moment). `FallbackPolicy`,
`TimeoutPolicy.total_ms` and the plan's own `retryable_errors` and backoff are never read; a
rate-limit error lifts an unhealthy provider to degraded; daily counts are never reset;
duplicate provider names make every plan invalid; `get_provider_usage_today` returns one model's
record, not the aggregate its docstring promises, and `client.usage()` inherits that. A request
that names a model may be planned with another model first whose id contains that name
(`default`, `best_free`). The README's `from_env(plugins=True)` promises plugin providers
(README.md 156); they are registered and never become providers of the client. `resolve_env`
takes no key that is only in the environment. No provider of the table, and no inferred model, has
`long_context`, `json_schema` or `reasoning`: a request for one of them finds no plan. An id with
`13b` contains `3b` and is given the 4096-token window. `policy=None` is `DefaultRoutingPolicy`,
whatever is registered as "default".

## 4. Fairness

* `CircuitBreaker`: weak fairness of the clock, of asking, of ending a call and of going on after a
  switch. Time passes, HTTP calls time out after 30 s and retries are bounded, threads are
  scheduled again, callers come back. Used for healing only.
* `Executor`: weak fairness of one request's next step, whichever it is: its thread
  runs, adapter calls time out, a backoff is a bounded sleep. No fairness of starting a
  request, of a particular outcome, or of the clock.
* `Streaming`: weak fairness of the generator as long as the caller asks; the caller may close it.
* `UsageStore`: weak fairness of a thread inside the store; none of calling it.
* `HealthTracker`, `Client`, `Catalogue`, `Middleware`: none; their properties are about safety.

## 5. Proofs

`CircuitBreakerProofs` proves, for every threshold, cooldown, number of probes and set of
callers, the types, the three invariants and the action property of run `circuit_breaker`. The invariants
are inductive together and not one by one: `HalfOpenAdmits` needs that a half-open period has let
through one call more than it counted (`ProbesCounted`) and the type bound of the probes,
`CooldownFromLastFailure` needs the count to know which failures open the breaker. First
comes a lemma that the methods keep a breaker a breaker; then there is one lemma per step. What a paused caller may rely on is part of the invariant
(`PausedRightly`): until methods cross, the breaker is as that caller left it, so that its second
half does what the whole method would have done.

`ListsProofs` is what the other proofs know of `Picked`, `Sorted`, `Total` and `FlattenSeq`. These
are recursive functions. The induction theorems of the library take an operator, which the provers
cannot instantiate; so induction is stated of a set (`Induction`, `ListInduction`): one that has zero,
or the empty list, and with each member the next, has them all. It follows from `<` being
well-founded on the numbers, and a lemma about every list is one about the set of lists it holds of.
From this come what a picked sequence consists of, that it keeps order and repeats nothing
that was not repeated, nor brings two of a kind together, that sorting only rearranges and its result ascends, that a total is a number,
and where an element of lists in a row comes from.

`HealthTrackerProofs` proves type correctness, `StreaksExact`, `UnhealthyExactly`,
`TwoSuccessesHeal` and `SamplesAreRecent` for any number of reporters, providers and reports and any window and
thresholds (`DegradeAt < CondemnAt`). The invariant relates one record to its history
(`Faithful`): the streak is the final run of failures, the status follows from that run and its
last category, and after an undisturbed success the provider is not unhealthy. While a report
is under way the record is neither here nor there; so the invariant says that it is what the
steps so far make of a faithful record (`Stage`), for a report nothing disturbs, and `Separate`
says that such a report is the only one about its provider. The last step then makes of that
record what the whole report would, which two lemmas carry over to the history. Of overlapping
reports only the types are claimed: they mark the history, and the properties exclude it or, in
the case of `TwoSuccessesHeal`, need only its end. `BeginKeepsInv`, `StepKeepsInv` and
`EndKeepsInv` say this once for every step that begins, continues and ends a report. For
`SamplesAreRecent` the record's window is compared with the latencies picked from the history: a
success adds one to both and drops the same first one, a failure leaves both alone.

`ExecutorProofs` proves the types and the four invariants of run `executor` for every finite set of requests
and every set of providers, plans and errors, with any number of retries. Breakers and health
records decide which step a request takes next, never what the step does to the request; so the
invariant `Good` is stated of one request record, and each step has a lemma about that record
alone, before any step of the system is looked at. None of the properties is inductive: that an
attempt continues the list (`AttemptsFollowPlan`) needs to know what the last attempt was at each
place in the code (`Logged`); that nothing is passed over (`FailsOnlyWhenExhausted`) needs the
reason for every candidate already behind (`Exhausts`); the error reported needs the candidate it
is of (`Blames`). `ServedOnce` is proved on top, by cardinality (`CountsKept`): what a request has
read of a provider's count is no more than the requests it answered, only the return of a response
changes those, and where no two requests met between reading and storing, the one there read what
is still true when it stores. Two refinements follow. `FallbackKept`: each step is a
step of `Fallback` or leaves its image alone. `LifecycleKept`: each step takes a request along an
edge of the table of `core/state_machine.py` or leaves it in its state, and never out of a final one.
All assume `ExecutorAssumption`: candidates name known providers, `MaxRetries` is a number, an
error is never confused with having none.

`ClientProofs` proves all properties of run `client`, for any number of requests, additions, providers, capacities and thresholds. The types (`Typed`, one
conjunct each for lists, engine, numbers, requests and additions) already say which fields of a
request mean something at its place in the code (`Staged`). `Alone` is about a request that nobody
disturbs from its first read of the tracker to its planner: it is the only one that refreshes and no
provider is being added (`AloneRefreshes`), what it read is in the client's world once it is kept
(`AloneKeeps`) and in the planner once that is built (`AloneInstalls`), and its plan names nobody who
was sick in it. `Counts` says whose answers are in the usage (`Charges`) and in each tracker
(`Reports`, with those who have read a count and not stored theirs), by cardinality: only a
provider's answer and the return of a response change those sets, each by one request. `UsageMatchesAnswers` and
`TrackersKeepApart` are read off it. `RankedElements` and `AcceptedIsRanking` say what a plan consists of: each of
the pairs of the planner's world that serves the request, once, by descending score, which
`ListsProofs` gives of sorting and picking. `NamedModelFirst` bounds the scores of `Routing`:
whatever policy, latency, quota and health say is less than the bonus for the model that is
asked for. It has a hypothesis, `PrioritiesModest`: a provider's `priority` is an integer that the code
never validates, every unit of it costs a candidate score, and beyond a bound the bonus is
outweighed. With the priorities of the table (0 to 3), and with any of that order, it
holds. `ClientAssumption` states what the validators of the value types enforce (`ModelOK`,
`ProviderOK`) and that a request is estimated at one token at least (`RequestOK`).

The last part of `ExecutorProofs`, about `Streaming`, proves `OneVoice` and `NothingGivenUpEarly` for
every set of plans and any number of lines. They become inductive with `Committed`: nothing is
delivered before a candidate is connected, and all that was delivered is the candidate at hand's,
which is what `yielded` records.

`CatalogueProofs` proves all properties of run `catalogue` but `ListedIsPlanned`, for any number of
threads and calls, any providers to add, listings to find, environments and entry points
(`CatalogueAssumption`: they are such values, and a provider that is added passes the validators of
its type). `Typed` says what each place of a call knows of itself and of the list; each step then has a
lemma about the call that takes it, and `Apart` says that it leaves the other calls alone. On that
stand five invariants. `Undisturbed`: while no other call runs, the list a call copied is the client's
still, and so is the provider it asks, which is why `list.index` finds it (`LoneRefreshSucceeds`) and
what it then stores only adds models. `Follows`: the planner is behind the list only while a call owes it a copy (`Owes`).
`AvailableHaveAdapters` is inductive once `Typed` is there. `Distinct` is `PairsUnique`, of the lists
that calls hold and the providers they are about to store (`Single`) as well; it also needs that the table of `config.py` repeats nothing, and that
the filter of `from_env` brings no two alike together (`PickedParted`). `Registered`: the registry has
only plugins that entry points can give, whose classes are policies. Two action properties follow.
`NothingForgotten`: each step lets the list only grow, in place (`Retains`), but for the store of a
refresh that another call overlapped (`Overwrites`). `GoodPluginsLoaded` goes by
induction along the entry points (`LoadingKeeps` and what follows it).

`UsageStoreProofs` proves `NothingInvented` and `UndisturbedIsDurable` for any number of threads,
days, records and kills. The first is a matter of every dictionary there is, of the store or of a
`clear_expired()` under way, and of every text on its way to the file (`EntriesBounded`,
`WritesBounded`). The second needs `Durable`: until two calls run beside each other one thread is busy, and each place in its code says which of memory, the text to be written and
the file hold all that was counted; the file loses it between its opening and its writing only.

`MiddlewareProofs` proves all three properties of run `middleware` for any number of requests,
callers, extensions and hooks. `FatalSurfaces` and the half of `ChainIsAsRegistered` that is about the
fatal set relate that set to the calls that made it, those under way included (`StrictIsFatal`,
`FatalIsStrict`, `RemovedIsOut`), and to what each walk has seen of it (`WalksSawFatal`). The other
half is about the list the chain has now: it holds what is registered, but for what an `add()`
under way has put there and a `remove()` has not yet taken off (`ChainIsMembers`), and a `remove()`
filters that list unless two of them overlapped (`OneRemoves`). `WalkIsFaithful` follows from `Sound`,
which is about a walk and its list object: what it has called is a beginning of what the list had
when the walk began and what has joined it since. A list only grows at its end, since `remove()`
makes a new one.

The assumptions are the named ASSUMEs of the modules; TLC evaluates them in the runs.

Only model-checked: liveness (`HealsOnceFailuresStop`, `EveryRequestEnds`, `EveryStreamEnds`,
`LockIsReleased`), which is beyond the provers, and `ListedIsPlanned` of run `catalogue`: it sets
what `models()` lists against what a plan holds, and awaits a lemma like `RankedElements` for the
catalogue's world. Folds of the community modules, which take an operator, cannot be unfolded in a
proof; where a theorem needs the recursion, the models use functions.

## 6. Not modelled, and the plan

Left out for good: request and response bodies, tool calls, redaction, logging, scripts, the text
of model ids (given as the patterns they contain), the token estimator (a length divided by four),
getters that only read. Not reached by a property: `backoff_delay` (a jittered delay that is
capped; nothing else depends on it), `get_quota` walking dictionaries that another request grows
(one more exception before planning), a `RetryPolicy` built by hand with negative retries.

Planned, in this order:

1. `ListedIsPlanned` as a theorem, from what a ranking consists of.
2. `Client` on top of `Middleware` and `Catalogue`, for hooks that change between the refresh and
   the plan of one request.
3. Two stores on one file; the ranges of `backoff_delay` as a lemma.

## 7. Running

    tlc -workers 2 -config Executor.cfg MCExecutor.tla
    tlapm CircuitBreakerProofs.tla

`PROJECT.json` names the module and configuration of each run, the mutant each property was
tried against (a plausible bug in one definition that TLC must then find), and the lines each
definition models. Mutants are defined beside what they mutate and are used nowhere else.
