---------------------------- MODULE ClientProofs ----------------------------
(***************************************************************************)
(* Theorems about Client, for every set of requests, providers, kinds of   *)
(* request and additions: its types, that the plan of a request which      *)
(* nobody disturbs holds no sick provider, that every accepted plan is a   *)
(* ranking, that usage counts each answer once, that no tracker counts     *)
(* more than what was answered under it, and all of that unless two        *)
(* requests counted at the same time, and that a model which is asked for  *)
(* comes first.                                                            *)
(*                                                                         *)
(* Typed is the inductive invariant of the types: what every variable      *)
(* holds and, as Staged, what a request's place in execute() says of it.   *)
(* Alone adds what a refreshing request has read, Charges what has been    *)
(* charged to whom, Reports what the requests that are counting have read. *)
(***************************************************************************)
EXTENDS Client, ListsProofs, FiniteSetTheorems, TLAPS

\* What a request is, and what its place in execute() says of it.
Worlds == [providers : Seq(AllProviders), status : [Names -> Statuses],
           used : [Names -> Nat], latency : [Names -> Nat \cup {Unset}]]

Candidates == [provider : Names, model : Nat, score : Int]

Records == [status : Statuses, samples : Seq(Nat), streak : Nat, count : Nat]

Places == {"idle", "reading", "kept", "installed", "planned", "executing", "counting", "executed",
           "returned", "raised"}

ARequest == [at : Places, kind : Kinds \cup {None}, world : Worlds \cup {None},
             plan : Seq(Candidates), pos : Nat \ {0}, gen : Nat \ {0}, failed : BOOLEAN,
             by : Names \cup {None}, outcome : Outcomes \cup {None}, alone : BOOLEAN]

Steps == {"idle", "listed", "raised", "equipped", "copied", "kept", "tracked", "planned", "done"}

AnAddition == [at : Steps, provider : MoreProviders \cup {None}, world : Worlds \cup {None}]

Staged(q) ==
    /\ q.at # "idle" => q.kind \in Kinds /\ q.world \in Worlds
    /\ q.at \in {"idle", "reading", "kept", "installed"} => q.plan = <<>>
    /\ q.at = "raised" <=> q.outcome # None
    /\ q.by # None => q.at \in {"executed", "returned"} \/ q.outcome = "hook"
    /\ q.pos <= Len(q.plan) + 1
    /\ q.at = "counting" => q.pos <= Len(q.plan)

ListsTyped == providers \in Seq(AllProviders) /\ world \in Worlds /\ planner \in Worlds

EngineTyped ==
    /\ breakers \in Seq([Names -> Breakers]) /\ executor \in 1 .. Len(breakers)
    /\ health \in Seq([Names -> Records]) /\ tracker \in 1 .. Len(health)
    /\ reportsTo \in Seq(Nat) /\ Len(reportsTo) = Len(breakers)
    /\ \A g \in 1 .. Len(reportsTo) : reportsTo[g] \in 1 .. Len(health)

NumbersTyped == usage \in [Names -> Nat] /\ seen \in [Requests -> Nat]

RequestsTyped ==
    /\ req \in [Requests -> ARequest]
    /\ \A r \in Requests : Staged(req[r]) /\ req[r].gen \in 1 .. Len(breakers)

AddsTyped ==
    /\ adds \in [Additions -> AnAddition]
    /\ \A a \in Additions : adds[a].at = "copied" => adds[a].world \in Worlds

Typed == ListsTyped /\ EngineTyped /\ NumbersTyped /\ RequestsTyped /\ AddsTyped

\* A breaker stays a breaker under every method.
LEMMA MethodsKeepType ==
    ASSUME NEW b \in Breakers
    PROVE  /\ AfterAllow(b) \in Breakers
           /\ AfterFailure(b) \in Breakers
           /\ AfterSuccess(b) \in Breakers
           /\ Older(b) \in Breakers
<1> USE BreakerAssumption DEF BreakerAssumption, Breakers, BreakerStates, Ages
<1>0. 0 \in 0 .. HalfOpenMaxCalls /\ 0 \in Ages /\ FailureThreshold \in 0 .. FailureThreshold
  OBVIOUS
<1>1. [b EXCEPT !.state = "half_open", !.probes = 0] \in Breakers
  BY <1>0
<1>2. b.probes < HalfOpenMaxCalls => [b EXCEPT !.probes = @ + 1] \in Breakers
  BY <1>0
<1>3. [b EXCEPT !.state = "open", !.age = 0] \in Breakers
  BY <1>0
<1>4. [b EXCEPT !.state = "open", !.failures = FailureThreshold, !.age = 0] \in Breakers
  BY <1>0
<1>5. b.failures + 1 < FailureThreshold => [b EXCEPT !.failures = @ + 1] \in Breakers
  BY <1>0
<1>6. AfterAllow(b) \in Breakers
  BY <1>1, <1>2, Zenon DEF AfterAllow
<1>7. AfterFailure(b) \in Breakers
  <2>1. b.failures + 1 >= FailureThreshold \/ b.failures + 1 < FailureThreshold
    OBVIOUS
  <2> QED BY <1>3, <1>4, <1>5, <2>1, Zenon DEF AfterFailure
<1>8. AfterSuccess(b) \in Breakers /\ Older(b) \in Breakers
  BY DEF AfterSuccess, NewBreaker, Older
<1> QED BY <1>6, <1>7, <1>8


\* A provider that served or refused keeps a record.
LEMMA RecordsKeepType ==
    ASSUME NEW h \in Records, NEW category
    PROVE  /\ AfterServed(h, Latency) \in Records /\ AfterServed(h, Latency).count = h.count
           /\ AfterRefused(h, category) \in Records /\ AfterRefused(h, category).count = h.count
           /\ \A n \in Nat : AfterCounted(h, n) \in Records /\ AfterCounted(h, n).count = n + 1
<1>1. Slide(h.samples, Latency) \in Seq(Nat)
  <2> DEFINE longer == Append(h.samples, Latency)
  <2>1. longer \in Seq(Nat) /\ Len(longer) > 0
    BY ClientAssumption DEF ClientAssumption, Records
  <2> HIDE DEF longer
  <2>2. Tail(longer) \in Seq(Nat)
    BY <2>1
  <2> QED BY <2>1, <2>2 DEF Slide, longer
<1>2. StatusAfter(h.status, category, h.streak + 1) \in Statuses
  BY DEF StatusAfter, Records, Statuses
<1>3. AfterServed(h, Latency) \in Records /\ AfterServed(h, Latency).count = h.count
  BY <1>1 DEF AfterServed, Records, Statuses
<1>4. AfterRefused(h, category) \in Records /\ AfterRefused(h, category).count = h.count
  BY <1>2 DEF AfterRefused, Records, Statuses
<1>5. \A n \in Nat : AfterCounted(h, n) \in Records /\ AfterCounted(h, n).count = n + 1
  BY DEF AfterCounted, Records, Statuses
<1> QED BY <1>3, <1>4, <1>5

\* What a generation starts from, and the providers' names.
LEMMA NewsAreTyped ==
    /\ FreshBreakers \in [Names -> Breakers]
    /\ FreshHealth \in [Names -> Records] /\ \A n \in Names : FreshHealth[n].count = 0
    /\ Names \subseteq Nat /\ None \notin Names
    /\ \A p \in AllProviders : p.name \in Names
<1>1. NewBreaker \in Breakers
  <2>1. 0 \in 0 .. FailureThreshold /\ 0 \in 0 .. HalfOpenMaxCalls
    BY BreakerAssumption DEF BreakerAssumption
  <2> QED BY <2>1 DEF NewBreaker, Breakers, BreakerStates
<1>2. NewHealth \in Records /\ NewHealth.count = 0
  BY DEF NewHealth, Records, Statuses
<1>3. Names \subseteq Nat
  BY ClientAssumption DEF ClientAssumption, ProviderOK, Names
<1>4. None \notin Names
  BY <1>3, BreakerAssumption DEF BreakerAssumption
<1> QED BY <1>1, <1>2, <1>3, <1>4 DEF FreshBreakers, FreshHealth, Names

\* A request reads a world.
LEMMA WorldIsTyped ==
    ASSUME NEW list \in Seq(AllProviders), NEW records \in [Names -> Records]
    PROVE  World(list, records) \in Worlds
<1>1. ASSUME NEW n \in Names, records[n].samples # <<>> PROVE Average(records[n].samples) \in Nat
  <2> DEFINE s == records[n].samples
  <2>1. s \in Seq(Nat) /\ s # <<>>
    BY <1>1 DEF Records
  <2>2. Len(s) \in Nat \ {0}
    BY <2>1
  <2>3. Total(s) \in Nat
    BY <2>1, TotalIsNumber
  <2> HIDE DEF s
  <2> QED BY <2>2, <2>3 DEF Average, s
<1> HIDE DEF Average
<1> QED BY <1>1 DEF World, Worlds, Records
-----------------------------------------------------------------------------
\* The (provider, model) pairs there can be, and those a world has.
AllModels == UNION {Range(p.models) : p \in AllProviders}

Offers == {x \in [provider : AllProviders, model : AllModels] : x.model \in Range(x.provider.models)}

Offer(pr, m) == [provider |-> pr, model |-> m]

\* The pairs of a world are its providers with their models, no more and no less.
LEMMA PairsElements ==
    ASSUME NEW seenWorld \in Worlds
    PROVE  /\ Pairs(seenWorld) \in Seq(Offers)
           /\ \A x \in Range(Pairs(seenWorld)) : x.provider \in Range(seenWorld.providers)
           /\ \A pr \in Range(seenWorld.providers) : \A m \in Range(pr.models) :
                  Offer(pr, m) \in Range(Pairs(seenWorld))
<1> DEFINE list == seenWorld.providers
           ofOne(pr) == [j \in DOMAIN pr.models |-> Offer(pr, pr.models[j])]
           ss == [i \in DOMAIN list |-> ofOne(list[i])]
<1>1. list \in Seq(AllProviders) /\ Pairs(seenWorld) = FlattenSeq(ss)
  BY DEF Worlds, Pairs, Offer
<1> HIDE DEF list
<1>2. ASSUME NEW pr \in AllProviders
      PROVE  ofOne(pr) \in Seq(Offers) /\ Range(ofOne(pr)) = {Offer(pr, m) : m \in Range(pr.models)}
  <2>1. pr.models \in Seq(Range(pr.models))
    BY ClientAssumption DEF ClientAssumption, ProviderOK
  <2> DEFINE ms == pr.models
  <2>2. DOMAIN ms = 1 .. Len(ms) /\ Len(ms) \in Nat
    BY <2>1
  <2>3. \A m \in Range(ms) : Offer(pr, m) \in Offers
    BY DEF Offer, Offers, AllModels
  <2>4. \A j \in 1 .. Len(ms) : Offer(pr, ms[j]) \in Offers
    <3>1. \A j \in 1 .. Len(ms) : ms[j] \in Range(ms)
      BY <2>2 DEF Range
    <3> QED BY <2>3, <3>1
  <2>5. ofOne(pr) = [j \in 1 .. Len(ms) |-> Offer(pr, ms[j])]
    BY <2>2
  <2>6. ofOne(pr) \in Seq(Offers)
    <3> HIDE DEF ms
    <3> QED BY <2>2, <2>4, <2>5
  <2>7. Range(ofOne(pr)) = {Offer(pr, m) : m \in Range(ms)}
    BY DEF Range
  <2> QED BY <2>6, <2>7
<1>3. DOMAIN list = 1 .. Len(list) /\ Len(list) \in Nat /\ \A i \in 1 .. Len(list) : list[i] \in AllProviders
  BY <1>1
<1>4. ss = [i \in 1 .. Len(list) |-> ofOne(list[i])]
  BY <1>3
<1> HIDE DEF ofOne
<1>5. ss \in Seq(Seq(Offers)) /\ DOMAIN ss = DOMAIN list
  BY <1>2, <1>3, <1>4
<1>6. \A i \in DOMAIN list : ss[i] = ofOne(list[i])
  OBVIOUS
<1> HIDE DEF ss
<1>7. /\ Pairs(seenWorld) \in Seq(Offers)
      /\ Range(Pairs(seenWorld)) = UNION {Range(ss[i]) : i \in DOMAIN list}
  BY <1>1, <1>5, FlattenElements
<1>8. ASSUME NEW x \in Range(Pairs(seenWorld)) PROVE x.provider \in Range(list)
  <2>1. PICK i \in DOMAIN list : x \in Range(ss[i])
    BY <1>7
  <2>2. x \in {Offer(list[i], m) : m \in Range(list[i].models)}
    BY <1>2, <1>3, <1>6, <2>1
  <2>3. x.provider = list[i]
    BY <2>2 DEF Offer
  <2> QED BY <2>3 DEF Range
<1>9. ASSUME NEW pr \in Range(list), NEW m \in Range(pr.models) PROVE Offer(pr, m) \in Range(Pairs(seenWorld))
  <2>1. PICK i \in DOMAIN list : pr = list[i]
    BY DEF Range
  <2>2. Offer(pr, m) \in Range(ss[i])
    BY <1>2, <1>3, <1>6, <2>1
  <2> QED BY <1>7, <2>2
<1> QED BY <1>7, <1>8, <1>9 DEF list

\* Every policy's score is a number.
LEMMA ScoreIsNumber ==
    ASSUME NEW request, RequestOK(request), NEW seenWorld \in Worlds,
           NEW pr \in AllProviders, NEW m \in Range(pr.models)
    PROVE  Score(request, pr, m, seenWorld) \in Int
<1> DEFINE known == seenWorld.latency[pr.name]
           used  == seenWorld.used[pr.name]
<1>1. known \in Nat \cup {Unset} /\ used \in Nat
  BY NewsAreTyped DEF Worlds
<1>2. /\ m.context \in Nat \ {0} /\ m.input \in Nat /\ m.output \in Nat /\ m.quality \in Nat /\ m.latency \in Nat
      /\ pr.priority \in Int /\ pr.limit \in (Nat \ {0}) \cup {Unset}
      /\ request.tokens \in Nat \ {0}
  <2>1. ProviderOK(pr)
    BY ClientAssumption DEF ClientAssumption
  <2>2. ModelOK(m)
    BY <2>1 DEF ProviderOK
  <2>3. m.context \in Nat \ {0} /\ m.input \in Nat /\ m.output \in Nat /\ m.quality \in Nat /\ m.latency \in Nat
    <3>1. m.context \in Nat \ {0} /\ m.input \in Nat /\ m.output \in Nat /\ m.quality \in 0 .. 1000 /\ m.latency \in 0 .. 1000
      BY <2>2, Zenon DEF ModelOK
    <3>2. 0 .. 1000 \subseteq Nat
      OBVIOUS
    <3> QED BY <3>1, <3>2, Zenon
  <2>4. pr.priority \in Int /\ pr.limit \in (Nat \ {0}) \cup {Unset}
    BY <2>1, Zenon DEF ProviderOK
  <2>5. request.tokens \in Nat \ {0}
    BY DEF RequestOK
  <2> QED BY <2>3, <2>4, <2>5
<1> DEFINE context == m.context
           tokens == request.tokens
           limit == pr.limit
           cost == m.input + m.output
           quality == m.quality
           quick == m.latency
           priority == pr.priority
<1> HIDE DEF known, used, context, tokens, limit, cost, quality, quick, priority
<1>3. DefaultScore(request, pr, m, seenWorld) \in Int
  <2> DEFINE penalty == QuotaPenalty(used)
             wide == Smaller(Unit \div 20, (context * Unit) \div (200 * tokens))
             fast == IF known = Unset THEN 0 ELSE AtLeastZero(1000 - known) * 10
             named == Named(request.model \in m.parts)
             able == IF request.needs = {} THEN 0 ELSE Unit \div 5
  <2>1. penalty \in Int
    BY <1>1 DEF QuotaPenalty, Smaller, Unit
  <2>2. wide \in Int
    <3>1. context * Unit \in Int /\ 200 * tokens \in Nat \ {0}
      BY <1>2 DEF Unit, context, tokens
    <3> DEFINE a == context * Unit
               b == 200 * tokens
    <3> HIDE DEF a, b
    <3>2. a \div b \in Int
      BY <3>1 DEF a, b
    <3> QED BY <3>2 DEF Smaller, Unit, a, b
  <2>3. fast \in Int
    BY <1>1 DEF AtLeastZero
  <2>4. named \in Int /\ able \in Int
    BY DEF Named, Unit
  <2>5. DefaultScore(request, pr, m, seenWorld)
          = quality * 35 + quick * 20 + able + wide - penalty + fast + named - priority * (Unit \div 1000)
    BY DEF DefaultScore, known, used, context, tokens, quality, quick, priority
  <2>6. quality \in Int /\ quick \in Int /\ priority \in Int /\ Unit \div 1000 \in Int
    BY <1>2 DEF quality, quick, priority, Unit
  <2> HIDE DEF penalty, wide, fast, named, able
  <2>7. quality * 35 + quick * 20 + able + wide - penalty + fast + named - priority * (Unit \div 1000) \in Int
    BY <2>1, <2>2, <2>3, <2>4, <2>6
  <2> QED BY <2>5, <2>7
<1>4. FastestScore(request, pr, m, seenWorld) \in Int
  <2>1. (IF known = Unset THEN 0 ELSE AtLeastZero(1000 - known) * 30) \in Int
    BY <1>1 DEF AtLeastZero
  <2> QED BY <1>2, <2>1 DEF FastestScore, Named, Unit, known
<1>5. CheapestScore(request, pr, m, seenWorld) \in Int
  <2>1. cost \in Nat
    BY <1>2 DEF cost
  <2> DEFINE d == 1000 + cost
  <2>2. d \in Nat \ {0}
    BY <2>1
  <2> HIDE DEF d
  <2>3. (1000 * Unit) \div d \in Int
    BY <2>2 DEF Unit
  <2> QED BY <2>3 DEF CheapestScore, Named, Unit, cost, d
<1>6. QualityScore(request, pr, m, seenWorld) \in Int
  BY <1>2 DEF QualityScore, Named, Unit
<1>7. BestFreeScore(request, pr, m, seenWorld) \in Int
  <2> DEFINE status == seenWorld.status[pr.name]
             left == IF limit = Unset \/ used = 0 THEN Unit ELSE (AtLeastZero(limit - used) * Unit) \div limit
             fast == IF known \in {Unset, 0} THEN m.latency * 20 ELSE AtLeastZero(2000 - known) * 10
             sound == IF status = "degraded" THEN (Unit * 105) \div 1000 ELSE (Unit * 35) \div 100
             named == Named(request.model \in m.parts)
  <2>1. left \in Int
    <3>1. CASE limit = Unset \/ used = 0
      BY <3>1 DEF Unit
    <3>2. CASE ~ (limit = Unset \/ used = 0)
      <4>1. limit \in Nat \ {0}
        BY <1>2, <3>2 DEF limit
      <4> DEFINE a == AtLeastZero(limit - used) * Unit
      <4>2. a \in Int
        BY <1>1, <4>1 DEF AtLeastZero, Unit
      <4> HIDE DEF a
      <4>3. a \div limit \in Int
        BY <4>1, <4>2
      <4> QED BY <3>2, <4>3 DEF a
    <3> QED BY <3>1, <3>2
  <2>2. fast \in Int
    BY <1>1, <1>2 DEF AtLeastZero
  <2>3. sound \in Int /\ named \in Int
    BY DEF Named, Unit
  <2>4. BestFreeScore(request, pr, m, seenWorld)
          = IF status = "unhealthy" THEN -Unit ELSE sound + (left * 30) \div 100 + fast + m.quality * 15 + named
    BY DEF BestFreeScore, known, used, limit
  <2>5. -Unit \in Int
    BY DEF Unit
  <2> HIDE DEF left, fast, sound, named, status
  <2>6. sound + (left * 30) \div 100 + fast + m.quality * 15 + named \in Int
    BY <1>2, <2>1, <2>2, <2>3
  <2> QED BY <2>4, <2>5, <2>6
<1>8. request.policy \in Policies
  BY DEF RequestOK
<1> QED BY <1>3, <1>4, <1>5, <1>6, <1>7, <1>8 DEF Score, Policies
-----------------------------------------------------------------------------
\* What the plan is made of.
Able(seenWorld, request) == {pair \in Range(Pairs(seenWorld)) : Satisfies(pair, request, seenWorld)}

CandidateOf(pair, request, seenWorld) ==
    [provider |-> pair.provider.name, model |-> pair.model.id,
     score |-> Score(request, pair.provider, pair.model, seenWorld)]

\* The sort key is a strict order that tells candidates apart by it.
LEMMA PrecedesIsOrder ==
    ASSUME NEW all, all \subseteq Candidates
    PROVE  IsOrder({two \in all \X all : Precedes(two[1], two[2])}, all)
<1> DEFINE B == {two \in all \X all : Precedes(two[1], two[2])}
<1>1. \A x, y \in all : <<x, y>> \in B <=> Precedes(x, y)
  OBVIOUS
<1> HIDE DEF B
<1>2. \A c \in all : c.score \in Int /\ c.provider \in Int /\ c.model \in Int
  <2>1. \A c \in Candidates : c.score \in Int /\ c.provider \in Names /\ c.model \in Nat
    BY DEF Candidates
  <2>2. Names \subseteq Int
    BY NewsAreTyped
  <2> SUFFICES ASSUME NEW c \in all PROVE c.score \in Int /\ c.provider \in Int /\ c.model \in Int
    OBVIOUS
  <2>3. c \in Candidates
    OBVIOUS
  <2>4. c.score \in Int /\ c.provider \in Names /\ c.model \in Nat
    BY <2>1, <2>3
  <2>5. Nat \subseteq Int
    OBVIOUS
  <2> QED BY <2>2, <2>4, <2>5, Zenon
<1>3. \A x \in all : ~ Precedes(x, x)
  BY <1>2 DEF Precedes
<1>4. \A x, y, z \in all : Precedes(x, y) /\ Precedes(y, z) => Precedes(x, z)
  BY <1>2 DEF Precedes
<1>5. IsOrder(B, all)
  BY <1>1, <1>3, <1>4 DEF IsOrder
<1> QED BY <1>5 DEF B

\* A plan names the pairs that can serve the request, each as it is, and none
\* before one that should come before it.
LEMMA RankedElements ==
    ASSUME NEW seenWorld \in Worlds, NEW request, RequestOK(request)
    PROVE  /\ Ranked(seenWorld, request) \in Seq(Candidates)
           /\ Range(Ranked(seenWorld, request)) = {CandidateOf(pair, request, seenWorld) : pair \in Able(seenWorld, request)}
           /\ \A k, l \in DOMAIN Ranked(seenWorld, request) : k < l =>
                  ~ Precedes(Ranked(seenWorld, request)[l], Ranked(seenWorld, request)[k])
<1> DEFINE pairs == Pairs(seenWorld)
           S == Able(seenWorld, request)
           able == Picked(pairs, S)
           of(pair) == CandidateOf(pair, request, seenWorld)
           candidates == [k \in DOMAIN able |-> of(able[k])]
           all == Range(candidates)
           B == {two \in all \X all : Precedes(two[1], two[2])}
           plan == Sorted(candidates, B)
<1>1. Ranked(seenWorld, request) = plan
  BY DEF Ranked, Able, CandidateOf
<1>2. pairs \in Seq(Offers) /\ S \subseteq Range(pairs)
  BY PairsElements DEF Able
<1> HIDE DEF pairs, S
<1>3. able \in Seq(Offers) /\ Range(able) = S
  <2>1. able \in Seq(Offers) /\ Range(able) = Range(pairs) \cap S
    BY <1>2, PickedElements
  <2> HIDE DEF able
  <2> QED BY <1>2, <2>1
<1> HIDE DEF able
<1>4. Len(able) \in Nat /\ DOMAIN able = 1 .. Len(able) /\ \A k \in 1 .. Len(able) : able[k] \in Offers
  BY <1>3
<1>5. \A pair \in Offers : of(pair) \in Candidates
  <2> TAKE pair \in Offers
  <2>1. pair.provider \in AllProviders /\ pair.model \in Range(pair.provider.models)
    BY DEF Offers
  <2>2. Score(request, pair.provider, pair.model, seenWorld) \in Int
    BY <2>1, ScoreIsNumber
  <2>3. pair.provider.name \in Names
    BY <2>1, NewsAreTyped
  <2>4. pair.model.id \in Nat
    <3>1. ProviderOK(pair.provider)
      BY <2>1, ClientAssumption DEF ClientAssumption
    <3>2. ModelOK(pair.model)
      BY <2>1, <3>1 DEF ProviderOK
    <3> QED BY <3>2 DEF ModelOK
  <2> QED BY <2>2, <2>3, <2>4 DEF CandidateOf, Candidates
<1>6. all = {of(pair) : pair \in S}
  <2>1. Range(able) = {able[k] : k \in DOMAIN able}
    BY DEF Range
  <2>2. all = {of(able[k]) : k \in DOMAIN able}
    <3> HIDE DEF of
    <3> QED BY DEF Range
  <2> HIDE DEF of, all
  <2> QED BY <1>3, <2>1, <2>2
<1>7. candidates \in Seq(Candidates) /\ all \subseteq Candidates
  <2> HIDE DEF of
  <2>1. candidates = [k \in 1 .. Len(able) |-> of(able[k])]
    BY <1>4
  <2>2. \A k \in 1 .. Len(able) : of(able[k]) \in Candidates
    BY <1>4, <1>5
  <2>3. candidates \in Seq(Candidates)
    <3> HIDE DEF candidates
    <3> QED BY <1>4, <2>1, <2>2
  <2>4. S \subseteq Offers
    <3>1. Range(able) \subseteq Offers
      BY <1>4 DEF Range
    <3> QED BY <1>3, <3>1
  <2>5. all \subseteq Candidates
    <3> HIDE DEF all
    <3> QED BY <1>5, <1>6, <2>4
  <2> QED BY <2>3, <2>5
<1>8. candidates \in Seq(all)
  <2> HIDE DEF of
  <2>1. Len(candidates) = Len(able) /\ DOMAIN candidates = 1 .. Len(able)
    BY <1>4
  <2> HIDE DEF candidates
  <2> QED BY <1>4, <1>7, <2>1 DEF Range
<1> HIDE DEF candidates, of
<1>9. IsOrder(B, all)
  <2> HIDE DEF all
  <2> QED BY <1>7, PrecedesIsOrder
<1>10. plan \in Seq(all) /\ Range(plan) = all
  <2> HIDE DEF all, B
  <2>1. Range(candidates) = all
    BY DEF all
  <2> QED BY <1>8, <2>1, SortedElements
<1>11. InOrder(plan, B)
  <2> HIDE DEF all, B
  <2> QED BY <1>8, <1>9, SortedOrder
<1>12. \A x, y \in all : Precedes(x, y) => <<x, y>> \in B
  <2> HIDE DEF all
  <2> QED OBVIOUS
<1>13. DOMAIN plan = 1 .. Len(plan) /\ \A k \in 1 .. Len(plan) : plan[k] \in all
  <2> HIDE DEF plan, all
  <2> QED BY <1>10
<1>14. \A k, l \in DOMAIN plan : k < l => ~ Precedes(plan[l], plan[k])
  <2> HIDE DEF plan, all, B
  <2> QED BY <1>11, <1>12, <1>13 DEF InOrder
<1>15. plan \in Seq(Candidates)
  <2> HIDE DEF plan, all
  <2> QED BY <1>7, <1>10
<1> HIDE DEF plan, all
<1> QED BY <1>1, <1>6, <1>10, <1>14, <1>15 DEF of, S
-----------------------------------------------------------------------------
\* A plan that is accepted is a ranking.
LEMMA AcceptedIsRanking ==
    ASSUME NEW seenWorld \in Worlds, NEW request, RequestOK(request), ~ HasDuplicate(Ranked(seenWorld, request))
    PROVE  IsRanking(Ranked(seenWorld, request), seenWorld, request)
<1> DEFINE plan == Ranked(seenWorld, request)
           of(pair) == CandidateOf(pair, request, seenWorld)
           offered(pr, m) == /\ pr.name \notin Sick(seenWorld)
                             /\ request.tokens <= m.context
                             /\ \A need \in request.needs : need \in pr.caps \/ need \in m.caps
           names(c, pr, m) ==
               c.provider = pr.name /\ c.model = m.id /\ c.score = Score(request, pr, m, seenWorld)
           better(c, d) == \/ c.score > d.score
                           \/ c.score = d.score /\ c.provider < d.provider
                           \/ c.score = d.score /\ c.provider = d.provider /\ c.model < d.model
<1>1. /\ plan \in Seq(Candidates)
      /\ Range(plan) = {of(pair) : pair \in Able(seenWorld, request)}
      /\ \A k, l \in DOMAIN plan : k < l => ~ Precedes(plan[l], plan[k])
  BY RankedElements
<1>2. ~ HasDuplicate(plan)
  OBVIOUS
<1>3. \A pr \in Range(seenWorld.providers) : pr \in AllProviders /\ pr.name \in Names
  <2>1. seenWorld.providers \in Seq(AllProviders)
    BY DEF Worlds
  <2>2. Range(seenWorld.providers) \subseteq AllProviders
    BY <2>1 DEF Range
  <2> QED BY <2>2, NewsAreTyped
<1>4. \A pr, m : offered(pr, m) /\ pr.name \in Names => Satisfies(Offer(pr, m), request, seenWorld)
  BY DEF Satisfies, Capable, Fits, Offer, Sick
<1>5. \A pair : Satisfies(pair, request, seenWorld) => offered(pair.provider, pair.model)
  BY DEF Satisfies, Capable, Fits, Sick
<1>6. \A pr, m : names(of(Offer(pr, m)), pr, m)
  BY DEF CandidateOf, Offer
<1>7. \A pair : names(of(pair), pair.provider, pair.model)
  BY DEF CandidateOf
<1> HIDE DEF plan, of, names, offered
<1>8. ASSUME NEW pr \in Range(seenWorld.providers), NEW m \in Range(pr.models), offered(pr, m)
      PROVE  \E c \in Range(plan) : names(c, pr, m)
  <2>1. Offer(pr, m) \in Able(seenWorld, request)
    BY <1>3, <1>4, <1>8, PairsElements DEF Able
  <2> QED BY <1>1, <1>6, <2>1
<1>9. ASSUME NEW c \in Range(plan)
      PROVE  \E pr \in Range(seenWorld.providers) : \E m \in Range(pr.models) :
                 offered(pr, m) /\ names(c, pr, m)
  <2>1. PICK pair \in Able(seenWorld, request) : c = of(pair)
    BY <1>1
  <2>2. pair \in Range(Pairs(seenWorld)) /\ Satisfies(pair, request, seenWorld)
    BY <2>1 DEF Able
  <2>3. pair.provider \in Range(seenWorld.providers) /\ pair.model \in Range(pair.provider.models)
    <3>1. Pairs(seenWorld) \in Seq(Offers) /\ pair.provider \in Range(seenWorld.providers)
      BY <2>2, PairsElements
    <3>2. pair \in Offers
      BY <2>2, <3>1 DEF Range
    <3> QED BY <3>1, <3>2 DEF Offers
  <2> QED BY <1>5, <1>7, <2>1, <2>2, <2>3
<1>10. ASSUME NEW k \in DOMAIN plan, NEW l \in DOMAIN plan, k < l PROVE better(plan[k], plan[l])
  <2> DEFINE c == plan[k]
             d == plan[l]
  <2>1. c \in Candidates /\ d \in Candidates
    BY <1>1
  <2>2. /\ c.score \in Int /\ c.provider \in Nat /\ c.model \in Nat
        /\ d.score \in Int /\ d.provider \in Nat /\ d.model \in Nat
    <3>1. \A e \in Candidates : e.score \in Int /\ e.provider \in Names /\ e.model \in Nat
      BY DEF Candidates
    <3>2. Names \subseteq Nat
      BY NewsAreTyped
    <3> HIDE DEF c, d
    <3> QED BY <2>1, <3>1, <3>2, Zenon
  <2>3. ~ Precedes(d, c)
    BY <1>1, <1>10
  <2>4. ~ (c.provider = d.provider /\ c.model = d.model)
    BY <1>2, <1>10 DEF HasDuplicate
  <2> DEFINE cs == c.score
             cp == c.provider
             cm == c.model
             ds == d.score
             dp == d.provider
             dm == d.model
  <2>5. ~ (ds > cs \/ (ds = cs /\ dp < cp) \/ (ds = cs /\ dp = cp /\ dm < cm))
    BY <2>3 DEF Precedes
  <2>6. cs > ds \/ (cs = ds /\ cp < dp) \/ (cs = ds /\ cp = dp /\ cm < dm)
    <3> HIDE DEF cs, cp, cm, ds, dp, dm
    <3>1. cs \in Int /\ cp \in Int /\ cm \in Int /\ ds \in Int /\ dp \in Int /\ dm \in Int
      BY <2>2 DEF cs, cp, cm, ds, dp, dm
    <3>2. ~ (cp = dp /\ cm = dm)
      BY <2>4 DEF cp, cm, dp, dm
    <3> QED BY <2>5, <3>1, <3>2
  <2> QED BY <2>6
<1> HIDE DEF better
<1>11. /\ \A pr \in Range(seenWorld.providers) : \A m \in Range(pr.models) :
              offered(pr, m) => \E c \in Range(plan) : names(c, pr, m)
       /\ \A c \in Range(plan) : \E pr \in Range(seenWorld.providers) : \E m \in Range(pr.models) :
              offered(pr, m) /\ names(c, pr, m)
       /\ \A k, l \in DOMAIN plan : k < l => better(plan[k], plan[l])
  BY <1>8, <1>9, <1>10
<1> QED BY <1>11 DEF IsRanking, plan, offered, names, better
-----------------------------------------------------------------------------
Shaped(q) == q = [at |-> q.at, kind |-> q.kind, world |-> q.world, plan |-> q.plan, pos |-> q.pos,
                  gen |-> q.gen, failed |-> q.failed, by |-> q.by, outcome |-> q.outcome, alone |-> q.alone]

\* A request is the record of its fields.
LEMMA RequestShape ==
    ASSUME NEW q \in ARequest
    PROVE  /\ Shaped(q)
           /\ q.at \in Places /\ q.kind \in Kinds \cup {None} /\ q.world \in Worlds \cup {None}
           /\ q.plan \in Seq(Candidates) /\ q.pos \in Nat \ {0} /\ q.gen \in Nat \ {0} /\ q.failed \in BOOLEAN
           /\ q.by \in Names \cup {None} /\ q.outcome \in Outcomes \cup {None} /\ q.alone \in BOOLEAN
<1>1. Shaped(q)
  BY DEF ARequest, Shaped
<1>2. /\ q.at \in Places /\ q.kind \in Kinds \cup {None} /\ q.world \in Worlds \cup {None}
      /\ q.plan \in Seq(Candidates) /\ q.pos \in Nat \ {0} /\ q.gen \in Nat \ {0}
      /\ q.by \in Names \cup {None} /\ q.outcome \in Outcomes \cup {None}
  BY DEF ARequest
<1>3. q.failed \in BOOLEAN /\ q.alone \in BOOLEAN
  BY DEF ARequest
<1> QED BY <1>1, <1>2, <1>3

\* The request of the steps that follow.
LEMMA RequestNow ==
    ASSUME Typed, NEW r \in Requests
    PROVE  req[r] \in ARequest /\ Staged(req[r]) /\ req[r].gen \in 1 .. Len(breakers)
BY DEF Typed, RequestsTyped

\* A request that no provider has answered yet.
LEMMA Unanswered ==
    ASSUME Typed, NEW r \in Requests, req[r].at \notin {"executed", "returned", "raised"}
    PROVE  req[r].by = None /\ req[r].outcome = None
BY RequestNow, ClientAssumption DEF Staged, ClientAssumption, Outcomes

\* A step that leaves the other requests alone, and this one so.
Goes(r, at, plan, pos, g, by, outcome) ==
    /\ req' \in [Requests -> ARequest]
    /\ \A s \in Requests : s # r => req'[s] = req[s]
    /\ req'[r].at = at /\ req'[r].plan = plan /\ req'[r].pos = pos /\ req'[r].gen = g
    /\ req'[r].by = by /\ req'[r].outcome = outcome
    /\ req'[r].kind = req[r].kind /\ req'[r].world = req[r].world /\ req'[r].alone = req[r].alone

\* An updated request is the update, all others are as before.
LEMMA Updated ==
    ASSUME Typed, NEW r \in Requests, NEW new \in ARequest, req' = [req EXCEPT ![r] = new],
           new.kind = req[r].kind, new.world = req[r].world, new.alone = req[r].alone
    PROVE  Goes(r, new.at, new.plan, new.pos, new.gen, new.by, new.outcome)
<1>1. req \in [Requests -> ARequest]
  BY DEF Typed, RequestsTyped
<1>2. req' \in [Requests -> ARequest] /\ req'[r] = new /\ \A s \in Requests : s # r => req'[s] = req[s]
  BY <1>1
<1> QED BY <1>2, Zenon DEF Goes

\* A request that only changes its place,
LEMMA PlaceGoes ==
    ASSUME Typed, NEW r \in Requests, NEW at \in Places, req' = [req EXCEPT ![r].at = at]
    PROVE  Goes(r, at, req[r].plan, req[r].pos, req[r].gen, req[r].by, req[r].outcome)
<1> DEFINE q == req[r]
           new == [q EXCEPT !.at = at]
<1>1. q \in ARequest
  BY RequestNow
<1>2. Shaped(q)
  BY <1>1, RequestShape
<1>3. req' = [req EXCEPT ![r] = new]
  BY DEF Typed, RequestsTyped
<1> HIDE DEF q
<1>4. new = [q EXCEPT !.at = at]
  OBVIOUS
<1> HIDE DEF new
<1>5. /\ Shaped(new)
      /\ new.at = at /\ new.kind = q.kind /\ new.world = q.world /\ new.plan = q.plan /\ new.pos = q.pos
      /\ new.gen = q.gen /\ new.failed = q.failed /\ new.by = q.by /\ new.outcome = q.outcome /\ new.alone = q.alone
  BY <1>2, <1>4 DEF Shaped
<1>6. new \in ARequest
  <2>1. new.at \in Places
    BY <1>5 DEF Places
  <2> QED BY <1>1, <1>5, <2>1, RequestShape, Zenon DEF ARequest, Shaped
<1>7. Goes(r, new.at, new.plan, new.pos, new.gen, new.by, new.outcome)
  <2>1. new.kind = q.kind /\ new.world = q.world /\ new.alone = q.alone
    BY <1>5, Zenon
  <2> QED BY <1>3, <1>6, <2>1, Updated, Zenon DEF q
<1> QED BY <1>5, <1>7, Zenon DEF q

\* that raises,
LEMMA RaiseGoes ==
    ASSUME Typed, NEW r \in Requests, NEW o \in Outcomes, Raise(r, o)
    PROVE  Goes(r, "raised", req[r].plan, req[r].pos, req[r].gen, req[r].by, o)
<1> DEFINE q == req[r]
           new == [q EXCEPT !.at = "raised", !.outcome = o]
<1>1. q \in ARequest
  BY RequestNow
<1>2. Shaped(q)
  BY <1>1, RequestShape
<1>3. req' = [req EXCEPT ![r] = new]
  BY DEF Raise, Typed, RequestsTyped
<1> HIDE DEF q
<1>4. new = [q EXCEPT !.at = "raised", !.outcome = o]
  OBVIOUS
<1> HIDE DEF new
<1>5. /\ Shaped(new)
      /\ new.at = "raised" /\ new.kind = q.kind /\ new.world = q.world /\ new.plan = q.plan /\ new.pos = q.pos
      /\ new.gen = q.gen /\ new.failed = q.failed /\ new.by = q.by /\ new.outcome = o /\ new.alone = q.alone
  BY <1>2, <1>4 DEF Shaped
<1>6. new \in ARequest
  <2>1. new.at \in Places
    BY <1>5 DEF Places
  <2>2. new.outcome \in Outcomes \cup {None}
    BY <1>5
  <2> QED BY <1>1, <1>5, <2>1, <2>2, RequestShape, Zenon DEF ARequest, Shaped
<1>7. Goes(r, new.at, new.plan, new.pos, new.gen, new.by, new.outcome)
  <2>1. new.kind = q.kind /\ new.world = q.world /\ new.alone = q.alone
    BY <1>5, Zenon
  <2> QED BY <1>3, <1>6, <2>1, Updated, Zenon DEF q
<1> QED BY <1>5, <1>7, Zenon DEF q

\* that gets its plan,
LEMMA PlanGoes ==
    ASSUME Typed, NEW r \in Requests, NEW plan \in Seq(Candidates),
           req' = [req EXCEPT ![r].at = "planned", ![r].plan = plan]
    PROVE  Goes(r, "planned", plan, req[r].pos, req[r].gen, req[r].by, req[r].outcome)
<1> DEFINE q == req[r]
           new == [q EXCEPT !.at = "planned", !.plan = plan]
<1>1. q \in ARequest
  BY RequestNow
<1>2. Shaped(q)
  BY <1>1, RequestShape
<1>3. req' = [req EXCEPT ![r] = new]
  BY DEF Typed, RequestsTyped
<1> HIDE DEF q
<1>4. new = [q EXCEPT !.at = "planned", !.plan = plan]
  OBVIOUS
<1> HIDE DEF new
<1>5. /\ Shaped(new)
      /\ new.at = "planned" /\ new.kind = q.kind /\ new.world = q.world /\ new.plan = plan /\ new.pos = q.pos
      /\ new.gen = q.gen /\ new.failed = q.failed /\ new.by = q.by /\ new.outcome = q.outcome /\ new.alone = q.alone
  BY <1>2, <1>4 DEF Shaped
<1>6. new \in ARequest
  <2>1. new.at \in Places
    BY <1>5 DEF Places
  <2>2. new.plan \in Seq(Candidates)
    BY <1>5
  <2> QED BY <1>1, <1>5, <2>1, <2>2, RequestShape, Zenon DEF ARequest, Shaped
<1>7. Goes(r, new.at, new.plan, new.pos, new.gen, new.by, new.outcome)
  <2>1. new.kind = q.kind /\ new.world = q.world /\ new.alone = q.alone
    BY <1>5, Zenon
  <2> QED BY <1>3, <1>6, <2>1, Updated, Zenon DEF q
<1> QED BY <1>5, <1>7, Zenon DEF q

\* that begins to execute,
LEMMA BeginGoes ==
    ASSUME Typed, NEW r \in Requests, NEW g \in Nat \ {0},
           req' = [req EXCEPT ![r].at = "executing", ![r].gen = g]
    PROVE  Goes(r, "executing", req[r].plan, req[r].pos, g, req[r].by, req[r].outcome)
<1> DEFINE q == req[r]
           new == [q EXCEPT !.at = "executing", !.gen = g]
<1>1. q \in ARequest
  BY RequestNow
<1>2. Shaped(q)
  BY <1>1, RequestShape
<1>3. req' = [req EXCEPT ![r] = new]
  BY DEF Typed, RequestsTyped
<1> HIDE DEF q
<1>4. new = [q EXCEPT !.at = "executing", !.gen = g]
  OBVIOUS
<1> HIDE DEF new
<1>5. /\ Shaped(new)
      /\ new.at = "executing" /\ new.kind = q.kind /\ new.world = q.world /\ new.plan = q.plan /\ new.pos = q.pos
      /\ new.gen = g /\ new.failed = q.failed /\ new.by = q.by /\ new.outcome = q.outcome /\ new.alone = q.alone
  BY <1>2, <1>4 DEF Shaped
<1>6. new \in ARequest
  <2>1. new.at \in Places
    BY <1>5 DEF Places
  <2>2. new.gen \in Nat \ {0}
    BY <1>5
  <2> QED BY <1>1, <1>5, <2>1, <2>2, RequestShape, Zenon DEF ARequest, Shaped
<1>7. Goes(r, new.at, new.plan, new.pos, new.gen, new.by, new.outcome)
  <2>1. new.kind = q.kind /\ new.world = q.world /\ new.alone = q.alone
    BY <1>5, Zenon
  <2> QED BY <1>3, <1>6, <2>1, Updated, Zenon DEF q
<1> QED BY <1>5, <1>7, Zenon DEF q

\* that is refused by a breaker,
LEMMA PassGoes ==
    ASSUME Typed, NEW r \in Requests, req' = [req EXCEPT ![r].pos = @ + 1]
    PROVE  Goes(r, req[r].at, req[r].plan, req[r].pos + 1, req[r].gen, req[r].by, req[r].outcome)
<1> DEFINE q == req[r]
           new == [q EXCEPT !.pos = q.pos + 1]
<1>1. q \in ARequest
  BY RequestNow
<1>2. Shaped(q)
  BY <1>1, RequestShape
<1>3. req' = [req EXCEPT ![r] = new]
  BY DEF Typed, RequestsTyped
<1> HIDE DEF q
<1>4. new = [q EXCEPT !.pos = q.pos + 1]
  OBVIOUS
<1> HIDE DEF new
<1>5. /\ Shaped(new)
      /\ new.at = q.at /\ new.kind = q.kind /\ new.world = q.world /\ new.plan = q.plan /\ new.pos = q.pos + 1
      /\ new.gen = q.gen /\ new.failed = q.failed /\ new.by = q.by /\ new.outcome = q.outcome /\ new.alone = q.alone
  BY <1>2, <1>4 DEF Shaped
<1>6. new \in ARequest
  <2>1. new.pos \in Nat \ {0}
    BY <1>1, <1>5, RequestShape
  <2> QED BY <1>1, <1>5, <2>1, RequestShape, Zenon DEF ARequest, Shaped
<1>7. Goes(r, new.at, new.plan, new.pos, new.gen, new.by, new.outcome)
  <2>1. new.kind = q.kind /\ new.world = q.world /\ new.alone = q.alone
    BY <1>5, Zenon
  <2> QED BY <1>3, <1>6, <2>1, Updated, Zenon DEF q
<1> QED BY <1>5, <1>7, Zenon DEF q

\* that is failed by a candidate,
LEMMA FailGoes ==
    ASSUME Typed, NEW r \in Requests, req' = [req EXCEPT ![r].pos = @ + 1, ![r].failed = TRUE]
    PROVE  Goes(r, req[r].at, req[r].plan, req[r].pos + 1, req[r].gen, req[r].by, req[r].outcome)
<1> DEFINE q == req[r]
           new == [q EXCEPT !.pos = q.pos + 1, !.failed = TRUE]
<1>1. q \in ARequest
  BY RequestNow
<1>2. Shaped(q)
  BY <1>1, RequestShape
<1>3. req' = [req EXCEPT ![r] = new]
  BY DEF Typed, RequestsTyped
<1> HIDE DEF q
<1>4. new = [q EXCEPT !.pos = q.pos + 1, !.failed = TRUE]
  OBVIOUS
<1> HIDE DEF new
<1>5. /\ Shaped(new)
      /\ new.at = q.at /\ new.kind = q.kind /\ new.world = q.world /\ new.plan = q.plan /\ new.pos = q.pos + 1
      /\ new.gen = q.gen /\ new.failed = TRUE /\ new.by = q.by /\ new.outcome = q.outcome /\ new.alone = q.alone
  BY <1>2, <1>4 DEF Shaped
<1>6. new \in ARequest
  <2>1. new.pos \in Nat \ {0}
    BY <1>1, <1>5, RequestShape
  <2>2. new.failed \in BOOLEAN
    BY <1>5, Zenon
  <2> QED BY <1>1, <1>5, <2>1, <2>2, RequestShape, Zenon DEF ARequest, Shaped
<1>7. Goes(r, new.at, new.plan, new.pos, new.gen, new.by, new.outcome)
  <2>1. new.kind = q.kind /\ new.world = q.world /\ new.alone = q.alone
    BY <1>5, Zenon
  <2> QED BY <1>3, <1>6, <2>1, Updated, Zenon DEF q
<1> QED BY <1>5, <1>7, Zenon DEF q

\* and that has counted its answer.
LEMMA CountGoes ==
    ASSUME Typed, NEW r \in Requests, NEW n \in Names,
           req' = [req EXCEPT ![r].at = "executed", ![r].by = n]
    PROVE  Goes(r, "executed", req[r].plan, req[r].pos, req[r].gen, n, req[r].outcome)
<1> DEFINE q == req[r]
           new == [q EXCEPT !.at = "executed", !.by = n]
<1>1. q \in ARequest
  BY RequestNow
<1>2. Shaped(q)
  BY <1>1, RequestShape
<1>3. req' = [req EXCEPT ![r] = new]
  BY DEF Typed, RequestsTyped
<1> HIDE DEF q
<1>4. new = [q EXCEPT !.at = "executed", !.by = n]
  OBVIOUS
<1> HIDE DEF new
<1>5. /\ Shaped(new)
      /\ new.at = "executed" /\ new.kind = q.kind /\ new.world = q.world /\ new.plan = q.plan /\ new.pos = q.pos
      /\ new.gen = q.gen /\ new.failed = q.failed /\ new.by = n /\ new.outcome = q.outcome /\ new.alone = q.alone
  BY <1>2, <1>4 DEF Shaped
<1>6. new \in ARequest
  <2>1. new.at \in Places
    BY <1>5 DEF Places
  <2>2. new.by \in Names \cup {None}
    BY <1>5
  <2> QED BY <1>1, <1>5, <2>1, <2>2, RequestShape, Zenon DEF ARequest, Shaped
<1>7. Goes(r, new.at, new.plan, new.pos, new.gen, new.by, new.outcome)
  <2>1. new.kind = q.kind /\ new.world = q.world /\ new.alone = q.alone
    BY <1>5, Zenon
  <2> QED BY <1>3, <1>6, <2>1, Updated, Zenon DEF q
<1> QED BY <1>5, <1>7, Zenon DEF q
\* What is left to show of a request that has come to another place.
LEMMA GoesTyped ==
    ASSUME Typed, NEW r \in Requests, NEW at, NEW plan, NEW pos, NEW g, NEW by, NEW outcome,
           Goes(r, at, plan, pos, g, by, outcome), Len(breakers') = Len(breakers),
           req[r].at # "idle", at # "idle", g \in 1 .. Len(breakers),
           at \in {"reading", "kept", "installed"} => plan = <<>>,
           at = "raised" <=> outcome # None,
           by # None => at \in {"executed", "returned"} \/ outcome = "hook",
           pos <= Len(plan) + 1, at = "counting" => pos <= Len(plan)
    PROVE  RequestsTyped'
<1>1. /\ req' \in [Requests -> ARequest] /\ \A s \in Requests : s # r => req'[s] = req[s]
      /\ req'[r].at = at /\ req'[r].plan = plan /\ req'[r].pos = pos /\ req'[r].gen = g
      /\ req'[r].by = by /\ req'[r].outcome = outcome
      /\ req'[r].kind = req[r].kind /\ req'[r].world = req[r].world
  BY DEF Goes
<1>2. req[r].kind \in Kinds /\ req[r].world \in Worlds
  BY RequestNow DEF Staged
<1> DEFINE new == req'[r]
<1>3. /\ new.at = at /\ new.plan = plan /\ new.pos = pos /\ new.by = by /\ new.outcome = outcome
      /\ new.kind \in Kinds /\ new.world \in Worlds
  BY <1>1, <1>2
<1> HIDE DEF new
<1>4. Staged(new)
  BY <1>3 DEF Staged
<1>5. \A s \in Requests : Staged(req'[s]) /\ req'[s].gen \in 1 .. Len(breakers)
  <2> TAKE s \in Requests
  <2>1. CASE s = r
    BY <1>1, <1>4, <2>1 DEF new
  <2>2. CASE s # r
    BY <1>1, <2>2, RequestNow
  <2> QED BY <2>1, <2>2
<1> QED BY <1>1, <1>5 DEF RequestsTyped

\* A request that somebody comes beside is not alone, and else as it was.
Beside(s) ==
    /\ req'[s] \in ARequest /\ Staged(req'[s])
    /\ req'[s].at = req[s].at /\ req'[s].world = req[s].world /\ req'[s].plan = req[s].plan
    /\ req'[s].pos = req[s].pos /\ req'[s].gen = req[s].gen /\ req'[s].by = req[s].by
    /\ req'[s].outcome = req[s].outcome
    /\ req'[s].alone => req[s].alone /\ s \notin Refreshing

LEMMA Besides ==
    ASSUME Typed, NEW s \in Requests,
           req'[s] = IF s \in Refreshing THEN [req[s] EXCEPT !.alone = FALSE] ELSE req[s]
    PROVE  Beside(s)
<1> DEFINE q == req[s]
           new == [q EXCEPT !.alone = FALSE]
<1>1. q \in ARequest /\ Staged(q)
  BY RequestNow
<1>2. Shaped(q)
  BY <1>1, RequestShape
<1>3. new = [q EXCEPT !.alone = FALSE] /\ req'[s] = IF s \in Refreshing THEN new ELSE q
  OBVIOUS
<1> HIDE DEF q, new
<1>4. /\ Shaped(new)
      /\ new.at = q.at /\ new.kind = q.kind /\ new.world = q.world /\ new.plan = q.plan /\ new.pos = q.pos
      /\ new.gen = q.gen /\ new.failed = q.failed /\ new.by = q.by /\ new.outcome = q.outcome /\ new.alone = FALSE
  BY <1>2, <1>3 DEF Shaped
<1>5. new \in ARequest
  <2>1. new.alone \in BOOLEAN
    BY <1>4, Zenon
  <2> QED BY <1>1, <1>4, <2>1, RequestShape, Zenon DEF ARequest, Shaped
<1>6. Staged(new)
  BY <1>1, <1>4 DEF Staged
<1>7. CASE s \in Refreshing
  <2>1. req'[s] = new
    BY <1>3, <1>7
  <2>2. ~ req'[s].alone
    BY <1>4, <2>1
  <2>3. /\ new.at = q.at /\ new.world = q.world /\ new.plan = q.plan /\ new.pos = q.pos
        /\ new.gen = q.gen /\ new.by = q.by /\ new.outcome = q.outcome
    BY <1>4
  <2> QED BY <1>5, <1>6, <2>1, <2>2, <2>3, Zenon DEF Beside, q
<1>8. CASE s \notin Refreshing
  <2>1. req'[s] = q
    BY <1>3, <1>8
  <2> QED BY <1>1, <1>8, <2>1, Zenon DEF Beside, q
<1> QED BY <1>7, <1>8
-----------------------------------------------------------------------------
\* A provider's value changed in one row.
LEMMA RowChanged ==
    ASSUME NEW X, NEW f \in Seq([Names -> X]), NEW g \in 1 .. Len(f), NEW n \in Names, NEW x \in X,
           NEW h, h = [f EXCEPT ![g][n] = x]
    PROVE  /\ h \in Seq([Names -> X]) /\ Len(h) = Len(f)
           /\ \A i \in 1 .. Len(f), m \in Names : h[i][m] = IF i = g /\ m = n THEN x ELSE f[i][m]
<1> DEFINE row == [f[g] EXCEPT ![n] = x]
<1>1. f[g] \in [Names -> X]
  OBVIOUS
<1>2. row \in [Names -> X] /\ \A m \in Names : row[m] = IF m = n THEN x ELSE f[g][m]
  BY <1>1
<1>3. h = [f EXCEPT ![g] = row]
  OBVIOUS
<1> HIDE DEF row
<1>4. h \in Seq([Names -> X]) /\ Len(h) = Len(f) /\ \A i \in 1 .. Len(f) : h[i] = IF i = g THEN row ELSE f[i]
  BY <1>2, <1>3
<1> QED BY <1>2, <1>4

\* What a request that has come to a candidate asks and reports to.
LEMMA AskTyped ==
    ASSUME Typed, NEW r \in Requests, req[r].pos <= Len(req[r].plan)
    PROVE  /\ req[r].gen \in 1 .. Len(breakers) /\ Tracker(r) \in 1 .. Len(health)
           /\ Candidate(r) \in Names
           /\ Breaker(r) \in Breakers
           /\ health[Tracker(r)][Candidate(r)] \in Records
<1> DEFINE plan == req[r].plan
           pos == req[r].pos
           g == req[r].gen
           t == reportsTo[g]
           n == plan[pos].provider
<1>1. g \in 1 .. Len(breakers) /\ plan \in Seq(Candidates) /\ pos \in Nat \ {0} /\ pos <= Len(plan)
  BY RequestNow, RequestShape
<1> HIDE DEF plan, pos, g
<1>2. plan[pos] \in Candidates
  BY <1>1
<1>3. n \in Names
  BY <1>2 DEF Candidates
<1>4. /\ breakers \in Seq([Names -> Breakers]) /\ health \in Seq([Names -> Records])
      /\ Len(reportsTo) = Len(breakers) /\ \A i \in 1 .. Len(reportsTo) : reportsTo[i] \in 1 .. Len(health)
  BY DEF Typed, EngineTyped
<1>5. t \in 1 .. Len(health)
  BY <1>1, <1>4
<1> HIDE DEF n, t
<1>6. breakers[g] \in [Names -> Breakers] /\ health[t] \in [Names -> Records]
  BY <1>1, <1>4, <1>5
<1>7. breakers[g][n] \in Breakers /\ health[t][n] \in Records
  BY <1>3, <1>6
<1> QED BY <1>1, <1>3, <1>5, <1>7 DEF Tracker, Breaker, Candidate, plan, pos, g, t, n

\* A turn: what it makes of the breaker,
LEMMA BreakerTurned ==
    ASSUME Typed, NEW r \in Requests, req[r].pos <= Len(req[r].plan), NEW b \in Breakers,
           breakers' = [breakers EXCEPT ![req[r].gen][Candidate(r)] = b]
    PROVE  breakers' \in Seq([Names -> Breakers]) /\ Len(breakers') = Len(breakers)
<1> DEFINE g == req[r].gen
           n == Candidate(r)
           rows == [breakers EXCEPT ![g][n] = b]
<1>1. g \in 1 .. Len(breakers) /\ n \in Names /\ breakers \in Seq([Names -> Breakers]) /\ breakers' = rows
  BY AskTyped DEF Typed, EngineTyped
<1> HIDE DEF g, n
<1>2. rows \in Seq([Names -> Breakers]) /\ Len(rows) = Len(breakers)
  <2>1. \A f \in Seq([Names -> Breakers]) : \A i \in 1 .. Len(f) : \A m \in Names : \A x \in Breakers :
            \A k : k = [f EXCEPT ![i][m] = x] => k \in Seq([Names -> Breakers]) /\ Len(k) = Len(f)
    BY RowChanged
  <2> QED BY <1>1, <2>1
<1> HIDE DEF rows
<1> QED BY <1>1, <1>2

\* and of the record of its provider.
LEMMA RecordTurned ==
    ASSUME Typed, NEW r \in Requests, req[r].pos <= Len(req[r].plan), NEW h \in Records,
           health' = [health EXCEPT ![Tracker(r)][Candidate(r)] = h]
    PROVE  /\ health' \in Seq([Names -> Records]) /\ Len(health') = Len(health)
           /\ \A t \in 1 .. Len(health), n \in Names :
                health'[t][n] = IF t = Tracker(r) /\ n = Candidate(r) THEN h ELSE health[t][n]
<1> DEFINE i == Tracker(r)
           m == Candidate(r)
           rows == [health EXCEPT ![i][m] = h]
<1>1. i \in 1 .. Len(health) /\ m \in Names /\ health \in Seq([Names -> Records]) /\ health' = rows
  BY AskTyped DEF Typed, EngineTyped
<1> HIDE DEF i, m
<1>2. /\ rows \in Seq([Names -> Records]) /\ Len(rows) = Len(health)
      /\ \A t \in 1 .. Len(health), n \in Names : rows[t][n] = IF t = i /\ n = m THEN h ELSE health[t][n]
  <2>1. \A f \in Seq([Names -> Records]) : \A j \in 1 .. Len(f) : \A k \in Names : \A x \in Records :
            \A b : b = [f EXCEPT ![j][k] = x] =>
                /\ b \in Seq([Names -> Records]) /\ Len(b) = Len(f)
                /\ \A t \in 1 .. Len(f), n \in Names : b[t][n] = IF t = j /\ n = k THEN x ELSE f[t][n]
    BY RowChanged
  <2> QED BY <1>1, <2>1
<1> HIDE DEF rows
<1> QED BY <1>1, <1>2 DEF i, m

\* A turn leaves the engine what it was, whatever it reports.
LEMMA TurnEngine ==
    ASSUME Typed, NEW r \in Requests, req[r].pos <= Len(req[r].plan), UNCHANGED engine,
           NEW b \in Breakers, NEW h \in Records,
           breakers' = [breakers EXCEPT ![req[r].gen][Candidate(r)] = b] \/ breakers' = breakers,
           health' = [health EXCEPT ![Tracker(r)][Candidate(r)] = h] \/ health' = health
    PROVE  EngineTyped' /\ Len(breakers') = Len(breakers)
<1>1. tracker' = tracker /\ executor' = executor /\ reportsTo' = reportsTo
  BY DEF engine
<1>2. breakers' \in Seq([Names -> Breakers]) /\ Len(breakers') = Len(breakers)
  BY BreakerTurned DEF Typed, EngineTyped
<1>3. health' \in Seq([Names -> Records]) /\ Len(health') = Len(health)
  BY RecordTurned DEF Typed, EngineTyped
<1> QED BY <1>1, <1>2, <1>3 DEF Typed, EngineTyped

\* What a turn makes of them.
LEMMA TurnReports ==
    ASSUME Typed, NEW r \in Requests, req[r].pos <= Len(req[r].plan), NEW b, b = Breaker(r),
           NEW h, h = health[Tracker(r)][Candidate(r)]
    PROVE  /\ AfterAllow(b) \in Breakers /\ AfterSuccess(AfterAllow(b)) \in Breakers
           /\ AfterFailure(AfterAllow(b)) \in Breakers
           /\ h \in Records /\ AfterServed(h, Latency) \in Records /\ AfterCounted(h, seen[r]) \in Records
           /\ \A category : AfterRefused(h, category) \in Records
<1>1. b \in Breakers /\ h \in Records
  BY AskTyped
<1>2. AfterAllow(b) \in Breakers
  BY <1>1, MethodsKeepType
<1>3. seen[r] \in Nat
  BY DEF Typed, NumbersTyped
<1> QED BY <1>1, <1>2, <1>3, MethodsKeepType, RecordsKeepType
-----------------------------------------------------------------------------
\* The types hold at first.
LEMMA TypedInit == Init => Typed
<1> SUFFICES ASSUME Init PROVE Typed
  OBVIOUS
<1>1. FirstProviders \in Seq(AllProviders)
  BY ClientAssumption DEF ClientAssumption
<1>2. ListsTyped
  <2>1. World(FirstProviders, FreshHealth) \in Worlds
    BY <1>1, NewsAreTyped, WorldIsTyped
  <2> QED BY <1>1, <2>1 DEF Init, ListsTyped
<1>3. EngineTyped /\ Len(breakers) = 1
  <2>1. /\ breakers = <<FreshBreakers>> /\ health = <<FreshHealth>> /\ reportsTo = <<1>>
        /\ tracker = 1 /\ executor = 1
    BY DEF Init
  <2> HIDE DEF FreshBreakers, FreshHealth
  <2> QED BY <2>1, NewsAreTyped DEF EngineTyped
<1>4. NumbersTyped
  BY DEF Init, NumbersTyped
<1>5. NewRequest \in ARequest /\ Staged(NewRequest) /\ NewRequest.gen = 1
  <2>1. <<>> \in Seq(Candidates) /\ Len(<<>>) = 0
    OBVIOUS
  <2>2. NewRequest \in ARequest
    BY <2>1 DEF NewRequest, ARequest, Places
  <2> QED BY <2>1, <2>2 DEF NewRequest, Staged
<1>6. req = [r \in Requests |-> NewRequest]
  BY DEF Init
<1>7. RequestsTyped
  <2> HIDE DEF NewRequest
  <2> QED BY <1>3, <1>5, <1>6 DEF RequestsTyped
<1>8. AddsTyped
  BY DEF Init, AddsTyped, AnAddition, Steps
<1> QED BY <1>2, <1>3, <1>4, <1>7, <1>8 DEF Typed

\* Only requests are changed.
LEMMA QuietlyTyped ==
    ASSUME Typed, RequestsTyped', UNCHANGED <<providers, planning, engine, breakers, health, usage, seen, adds>>
    PROVE  Typed'
<1>1. ListsTyped'
  BY DEF Typed, ListsTyped, planning
<1>2. EngineTyped'
  BY DEF Typed, EngineTyped, engine
<1>3. NumbersTyped' /\ AddsTyped'
  BY DEF Typed, NumbersTyped, AddsTyped
<1> QED BY <1>1, <1>2, <1>3 DEF Typed

\* A request that raises.
LEMMA RaiseRequests ==
    ASSUME Typed, NEW r \in Requests, NEW o \in Outcomes, Raise(r, o), Len(breakers') = Len(breakers),
           req[r].at \notin {"idle", "returned"}, req[r].by # None => o = "hook"
    PROVE  RequestsTyped'
<1>1. Goes(r, "raised", req[r].plan, req[r].pos, req[r].gen, req[r].by, o)
  BY RaiseGoes
<1>2. o # None /\ req[r].gen \in 1 .. Len(breakers) /\ req[r].pos <= Len(req[r].plan) + 1
  BY RequestNow, ClientAssumption DEF Staged, ClientAssumption
<1> QED BY <1>1, <1>2, GoesTyped

\* What a request that plans can rely on.
LEMMA PlanTyped ==
    ASSUME Typed, NEW r \in Requests, req[r].at # "idle"
    PROVE  /\ planner \in Worlds /\ RequestOK(req[r].kind)
           /\ Ranked(planner, req[r].kind) \in Seq(Candidates)
<1>1. planner \in Worlds /\ RequestOK(req[r].kind)
  BY RequestNow, ClientAssumption DEF Typed, ListsTyped, Staged, ClientAssumption
<1> QED BY <1>1, RankedElements

\* A candidate's turn keeps the types, whatever comes of it.
LEMMA TypedTurns ==
    ASSUME Typed, NEW r \in Requests, NEW c,
           TurnRefused(r) \/ TurnAdapterless(r) \/ TurnServed(r) \/ TurnFailed(r, c) \/ TurnEscapes(r)
    PROVE  Typed'
<1> DEFINE b == Breaker(r)
           h == health[Tracker(r)][Candidate(r)]
<1>1. /\ req[r].at = "executing" /\ req[r].pos <= Len(req[r].plan) /\ req[r].by = None /\ req[r].outcome = None
      /\ UNCHANGED <<providers, planning, engine, usage, adds>>
  <2>1. AtCandidate(r) /\ UNCHANGED <<providers, planning, engine, usage, adds>>
    BY DEF TurnRefused, TurnAdapterless, TurnServed, TurnFailed, TurnEscapes, Called, catalogue
  <2> QED BY <2>1, Unanswered DEF AtCandidate
<1>2. /\ AfterAllow(b) \in Breakers /\ AfterSuccess(AfterAllow(b)) \in Breakers
      /\ AfterFailure(AfterAllow(b)) \in Breakers
      /\ h \in Records /\ AfterServed(h, Latency) \in Records /\ AfterRefused(h, c) \in Records
  BY <1>1, TurnReports
<1>3. EngineTyped' /\ Len(breakers') = Len(breakers)
  <2>1. /\ breakers' = [breakers EXCEPT ![req[r].gen][Candidate(r)] = AfterAllow(b)] \/
           breakers' = [breakers EXCEPT ![req[r].gen][Candidate(r)] = AfterSuccess(AfterAllow(b))] \/
           breakers' = [breakers EXCEPT ![req[r].gen][Candidate(r)] = AfterFailure(AfterAllow(b))]
        /\ health' = health \/
           health' = [health EXCEPT ![Tracker(r)][Candidate(r)] = AfterServed(h, Latency)] \/
           health' = [health EXCEPT ![Tracker(r)][Candidate(r)] = AfterRefused(h, c)]
    BY DEF TurnRefused, TurnAdapterless, TurnServed, TurnFailed, TurnEscapes, Breaker
  <2> HIDE DEF b, h
  <2> QED BY <1>1, <1>2, <2>1, TurnEngine
<1>4. NumbersTyped'
  <2>1. usage' = usage /\ (seen' = seen \/ seen' = [seen EXCEPT ![r] = h.count])
    BY DEF TurnRefused, TurnAdapterless, TurnServed, TurnFailed, TurnEscapes, counts
  <2>2. h.count \in Nat
    BY <1>2 DEF Records
  <2> HIDE DEF h
  <2> QED BY <2>1, <2>2 DEF Typed, NumbersTyped
<1>5. /\ req[r].gen \in 1 .. Len(breakers) /\ req[r].pos \in Nat \ {0} /\ req[r].plan \in Seq(Candidates)
      /\ "executing" # "raised"
  BY RequestNow, RequestShape
<1>6. req[r].pos + 1 <= Len(req[r].plan) + 1 /\ req[r].pos <= Len(req[r].plan) + 1
  <2> DEFINE p == req[r].pos
             l == Len(req[r].plan)
  <2>1. p \in Nat /\ l \in Nat /\ p <= l
    BY <1>1, <1>5
  <2> HIDE DEF p, l
  <2>2. p + 1 <= l + 1 /\ p <= l + 1
    BY <2>1
  <2> QED BY <2>2 DEF p, l
<1>7. RequestsTyped'
  <2>1. CASE TurnRefused(r)
    <3>1. Goes(r, req[r].at, req[r].plan, req[r].pos + 1, req[r].gen, req[r].by, req[r].outcome)
      BY <2>1, PassGoes DEF TurnRefused
    <3> QED BY <1>1, <1>3, <1>5, <1>6, <3>1, GoesTyped
  <2>2. CASE TurnAdapterless(r) \/ TurnFailed(r, c)
    <3>1. Goes(r, req[r].at, req[r].plan, req[r].pos + 1, req[r].gen, req[r].by, req[r].outcome)
      BY <2>2, FailGoes DEF TurnAdapterless, TurnFailed
    <3> QED BY <1>1, <1>3, <1>5, <1>6, <3>1, GoesTyped
  <2>3. CASE TurnServed(r)
    <3>1. Goes(r, "counting", req[r].plan, req[r].pos, req[r].gen, req[r].by, req[r].outcome)
      BY <2>3, PlaceGoes DEF TurnServed, Places
    <3> QED BY <1>1, <1>3, <1>5, <1>6, <3>1, GoesTyped
  <2>4. CASE TurnEscapes(r)
    BY <1>1, <1>3, <2>4, RaiseRequests DEF TurnEscapes, Outcomes
  <2> QED BY <2>1, <2>2, <2>3, <2>4
<1>8. ListsTyped' /\ AddsTyped'
  BY <1>1 DEF Typed, ListsTyped, AddsTyped, planning
<1> QED BY <1>3, <1>4, <1>7, <1>8 DEF Typed

\* So does the count of a response.
LEMMA TypedCount ==
    ASSUME Typed, NEW r \in Requests, CountServed(r)
    PROVE  Typed'
<1> DEFINE h == health[Tracker(r)][Candidate(r)]
           n == Candidate(r)
<1>1. /\ req[r].at = "counting" /\ UNCHANGED <<providers, planning, engine, breakers, usage, counts, adds>>
      /\ health' = [health EXCEPT ![Tracker(r)][Candidate(r)] = AfterCounted(h, seen[r])]
  BY DEF CountServed, catalogue
<1>2. /\ req[r].pos <= Len(req[r].plan) /\ req[r].by = None /\ req[r].outcome = None
      /\ req[r].gen \in 1 .. Len(breakers)
  BY <1>1, RequestNow, Unanswered DEF Staged
<1>3. AfterCounted(h, seen[r]) \in Records /\ n \in Names
  BY <1>2, TurnReports, AskTyped
<1>4. Goes(r, "executed", req[r].plan, req[r].pos, req[r].gen, n, req[r].outcome)
  <2>1. req' = [req EXCEPT ![r].at = "executed", ![r].by = n]
    BY DEF CountServed
  <2> HIDE DEF n
  <2> QED BY <1>3, <2>1, CountGoes
<1> HIDE DEF h, n
<1>5. EngineTyped'
  <2>1. UNCHANGED engine /\ \E b \in Breakers : breakers' = breakers
    BY <1>1, <1>2, AskTyped
  <2> QED BY <1>1, <1>2, <1>3, <2>1, TurnEngine
<1>6. RequestsTyped'
  <2>1. req[r].pos <= Len(req[r].plan) + 1
    BY RequestNow DEF Staged
  <2> QED BY <1>1, <1>2, <1>4, <2>1, GoesTyped
<1>7. ListsTyped' /\ NumbersTyped' /\ AddsTyped'
  BY <1>1 DEF Typed, ListsTyped, NumbersTyped, AddsTyped, planning, counts
<1> QED BY <1>5, <1>6, <1>7 DEF Typed
-----------------------------------------------------------------------------
\* The client's world of the moment.
LEMMA WorldNow ==
    ASSUME Typed
    PROVE  CurrentWorld \in Worlds
<1>1. health[tracker] \in [Names -> Records] /\ providers \in Seq(AllProviders)
  BY DEF Typed, EngineTyped, ListsTyped
<1> QED BY <1>1, WorldIsTyped DEF CurrentWorld

\* What a request that is called is at first, and what all others become.
LEMMA ReadGoes ==
    ASSUME Typed, NEW r \in Requests, NEW kind \in Kinds, ReadWorld(r, kind)
    PROVE  /\ req' = [q \in Requests |-> req'[q]]
           /\ req'[r] \in ARequest /\ Staged(req'[r]) /\ req'[r].at = "reading" /\ req'[r].gen = 1
           /\ req'[r].plan = <<>> /\ req'[r].by = None
           /\ req'[r].alone => Refreshing = {} /\ Adding = {}
           /\ \A s \in Requests : s # r => Beside(s)
<1> DEFINE w == CurrentWorld
           quiet == Refreshing = {} /\ Adding = {}
           new == [NewRequest EXCEPT !.at = "reading", !.kind = kind, !.world = w, !.alone = quiet]
<1>1. w \in Worlds
  BY WorldNow
<1>2. \A q \in Requests : req'[q] = IF q = r THEN new
                                    ELSE IF q \in Refreshing THEN [req[q] EXCEPT !.alone = FALSE] ELSE req[q]
  BY DEF ReadWorld
<1>3. req' = [q \in Requests |-> req'[q]]
  BY DEF ReadWorld
<1>4. PICK b \in BOOLEAN : b = quiet
  OBVIOUS
<1>5. new = [at |-> "reading", kind |-> kind, world |-> w, plan |-> <<>>, pos |-> 1, gen |-> 1,
             failed |-> FALSE, by |-> None, outcome |-> None, alone |-> b]
  <2>1. ASSUME NEW u, NEW n, n = [NewRequest EXCEPT !.at = "reading", !.kind = kind, !.world = u, !.alone = b]
        PROVE  n = [at |-> "reading", kind |-> kind, world |-> u, plan |-> <<>>, pos |-> 1, gen |-> 1,
                    failed |-> FALSE, by |-> None, outcome |-> None, alone |-> b]
    BY <2>1 DEF NewRequest
  <2>2. new = [NewRequest EXCEPT !.at = "reading", !.kind = kind, !.world = w, !.alone = b]
    BY <1>4
  <2> HIDE DEF w, quiet, new
  <2> QED BY <2>1, <2>2
<1> HIDE DEF w, quiet, new
<1>6. /\ new.at = "reading" /\ new.kind = kind /\ new.world = w /\ new.plan = <<>> /\ new.pos = 1
      /\ new.gen = 1 /\ new.by = None /\ new.outcome = None /\ new.alone = b
  BY <1>5
<1>7. new \in ARequest /\ Staged(new)
  <2>1. <<>> \in Seq(Candidates) /\ Len(<<>>) = 0
    OBVIOUS
  <2>2. [at |-> "reading", kind |-> kind, world |-> w, plan |-> <<>>, pos |-> 1, gen |-> 1,
         failed |-> FALSE, by |-> None, outcome |-> None, alone |-> b] \in ARequest
    BY <1>1, <2>1 DEF ARequest, Places
  <2>3. Staged(new)
    BY <1>1, <1>6, <2>1 DEF Staged
  <2> QED BY <1>5, <2>2, <2>3
<1>8. req'[r] = new
  BY <1>2
<1>9. new.alone => Refreshing = {} /\ Adding = {}
  BY <1>4, <1>6 DEF quiet
<1>10. \A s \in Requests : s # r => Beside(s)
  BY <1>2, Besides
<1> QED BY <1>3, <1>6, <1>7, <1>8, <1>9, <1>10

\* So does reading the world,
LEMMA TypedReads ==
    ASSUME Typed, NEW r \in Requests, NEW kind \in Kinds, ReadWorld(r, kind)
    PROVE  Typed'
<1>1. UNCHANGED <<providers, planning, engine, breakers, health, usage, seen, adds>>
  BY DEF ReadWorld, catalogue, counts
<1>2. ASSUME NEW q \in Requests
      PROVE  req'[q] \in ARequest /\ Staged(req'[q]) /\ req'[q].gen \in 1 .. Len(breakers)
  <2>1. CASE q = r
    <3>1. 1 \in 1 .. Len(breakers)
      BY DEF Typed, EngineTyped
    <3> QED BY <2>1, <3>1, ReadGoes
  <2>2. CASE q # r
    <3>1. Beside(q)
      BY <2>2, ReadGoes
    <3> QED BY <3>1, RequestNow DEF Beside
  <2> QED BY <2>1, <2>2
<1>3. RequestsTyped'
  <2>1. req' = [q \in Requests |-> req'[q]] /\ breakers' = breakers
    BY <1>1, ReadGoes
  <2>2. req' \in [Requests -> ARequest]
    BY <1>2, <2>1
  <2> QED BY <1>2, <2>1, <2>2 DEF RequestsTyped
<1> QED BY <1>1, <1>3, QuietlyTyped

\* the time that passes,
LEMMA TypedTicks ==
    ASSUME Typed, Tick
    PROVE  Typed'
<1>1. UNCHANGED <<providers, planning, engine, health, usage, seen, req, adds>>
  BY DEF Tick, catalogue, counts
<1>2. breakers' \in Seq([Names -> Breakers]) /\ Len(breakers') = Len(breakers)
  <2>1. breakers' = [g \in DOMAIN breakers |-> [n \in Names |-> Older(breakers[g][n])]]
    BY DEF Tick
  <2> DEFINE l == Len(breakers)
             row(g) == [n \in Names |-> Older(breakers[g][n])]
  <2>2. breakers \in Seq([Names -> Breakers])
    BY DEF Typed, EngineTyped
  <2>3. DOMAIN breakers = 1 .. l /\ l \in Nat /\ \A g \in 1 .. l : breakers[g] \in [Names -> Breakers]
    BY <2>2
  <2> HIDE DEF l
  <2>4. \A g \in 1 .. l, n \in Names : Older(breakers[g][n]) \in Breakers
    BY <2>3, MethodsKeepType
  <2>5. \A g \in 1 .. l : row(g) \in [Names -> Breakers]
    BY <2>4
  <2>6. breakers' = [g \in 1 .. l |-> row(g)]
    BY <2>1, <2>3
  <2> HIDE DEF row
  <2>7. breakers' \in Seq([Names -> Breakers]) /\ Len(breakers') = l
    BY <2>3, <2>5, <2>6
  <2> QED BY <2>7 DEF l
<1>3. ListsTyped' /\ NumbersTyped' /\ AddsTyped'
  BY <1>1 DEF Typed, ListsTyped, NumbersTyped, AddsTyped, planning
<1>4. EngineTyped' /\ RequestsTyped'
  BY <1>1, <1>2 DEF Typed, EngineTyped, RequestsTyped, engine
<1> QED BY <1>3, <1>4 DEF Typed
-----------------------------------------------------------------------------
\* An addition, changed in its place.
LEMMA AddMoves ==
    ASSUME Typed, NEW a \in Additions, NEW at \in Steps \ {"copied"},
           adds' = [adds EXCEPT ![a].at = at]
    PROVE  AddsTyped'
<1>1. adds \in [Additions -> AnAddition] /\ \A x \in Additions : adds[x].at = "copied" => adds[x].world \in Worlds
  BY DEF Typed, AddsTyped
<1> DEFINE o == adds[a]
           n == [o EXCEPT !.at = at]
<1>2. o \in AnAddition /\ adds' = [adds EXCEPT ![a] = n]
  BY <1>1
<1> HIDE DEF o
<1>3. n \in AnAddition /\ n.at = at
  BY <1>2 DEF AnAddition
<1> HIDE DEF n
<1> QED BY <1>1, <1>2, <1>3 DEF AddsTyped

\* An addition that lists its provider comes beside the requests that refresh.
LEMMA AddGoes ==
    ASSUME Typed, NEW a \in Additions, NEW p, AddProvider(a, p)
    PROVE  /\ req' = [q \in Requests |-> req'[q]]
           /\ \A s \in Requests : Beside(s)
<1>1. \A q \in Requests : req'[q] = IF q \in Refreshing THEN [req[q] EXCEPT !.alone = FALSE] ELSE req[q]
  BY DEF AddProvider
<1>2. req' = [q \in Requests |-> req'[q]]
  BY DEF AddProvider
<1> QED BY <1>1, <1>2, Besides

\* adding a provider,
LEMMA TypedListing ==
    ASSUME Typed, NEW a \in Additions, NEW p \in MoreProviders, AddProvider(a, p)
    PROVE  Typed'
<1>1. /\ UNCHANGED <<planning, engine, breakers, health, usage, counts>>
      /\ providers' = Append(providers, p)
      /\ adds' = [adds EXCEPT ![a].at = "listed", ![a].provider = p]
  BY DEF AddProvider
<1>2. ListsTyped'
  BY <1>1 DEF Typed, ListsTyped, planning, AllProviders
<1>3. EngineTyped' /\ NumbersTyped'
  BY <1>1 DEF Typed, EngineTyped, NumbersTyped, engine, counts
<1>4. RequestsTyped'
  <2>1. ASSUME NEW q \in Requests
        PROVE  req'[q] \in ARequest /\ Staged(req'[q]) /\ req'[q].gen \in 1 .. Len(breakers)
    BY AddGoes, RequestNow DEF Beside
  <2>2. req' \in [Requests -> ARequest]
    BY <2>1, AddGoes
  <2> QED BY <1>1, <2>1, <2>2 DEF RequestsTyped
<1>5. AddsTyped'
  <2>1. adds \in [Additions -> AnAddition] /\ \A x \in Additions : adds[x].at = "copied" => adds[x].world \in Worlds
    BY DEF Typed, AddsTyped
  <2> DEFINE o == adds[a]
             n == [o EXCEPT !.at = "listed", !.provider = p]
  <2>2. o \in AnAddition /\ adds' = [adds EXCEPT ![a] = n]
    BY <1>1, <2>1
  <2> HIDE DEF o
  <2>3. n \in AnAddition /\ n.at = "listed"
    BY <2>2 DEF AnAddition, Steps
  <2> HIDE DEF n
  <2> QED BY <2>1, <2>2, <2>3 DEF AddsTyped
<1> QED BY <1>2, <1>3, <1>4, <1>5 DEF Typed

\* its adapter and what else the addition replaces,
LEMMA TypedAdds ==
    ASSUME Typed, NEW a \in Additions, Add(a)
    PROVE  Typed'
<1>1. CASE RefuseAddress(a) \/ AddAdapter(a)
  <2>1. /\ UNCHANGED <<providers, planning, engine, breakers, health, usage, req, counts>>
        /\ adds' = [adds EXCEPT ![a].at = "raised"] \/ adds' = [adds EXCEPT ![a].at = "equipped"]
    BY <1>1 DEF RefuseAddress, AddAdapter, catalogue
  <2>2. AddsTyped'
    BY <2>1, AddMoves DEF Steps
  <2>3. ListsTyped' /\ EngineTyped' /\ NumbersTyped' /\ RequestsTyped'
    BY <2>1 DEF Typed, ListsTyped, EngineTyped, NumbersTyped, RequestsTyped, planning, engine, counts
  <2> QED BY <2>2, <2>3 DEF Typed
<1>2. CASE CopyWorld(a)
  <2>1. /\ UNCHANGED <<providers, planning, engine, breakers, health, usage, req, counts>>
        /\ adds' = [adds EXCEPT ![a].at = "copied", ![a].world = [world EXCEPT !.providers = providers]]
    BY <1>2 DEF CopyWorld, catalogue
  <2> DEFINE w == [world EXCEPT !.providers = providers]
  <2>2. w \in Worlds
    BY DEF Typed, ListsTyped, Worlds
  <2>3. AddsTyped'
    <3>1. adds \in [Additions -> AnAddition] /\ \A x \in Additions : adds[x].at = "copied" => adds[x].world \in Worlds
      BY DEF Typed, AddsTyped
    <3> DEFINE o == adds[a]
               n == [o EXCEPT !.at = "copied", !.world = w]
    <3>2. o \in AnAddition /\ adds' = [adds EXCEPT ![a] = n]
      BY <2>1, <3>1
    <3> HIDE DEF o, w
    <3>3. n \in AnAddition /\ n.at = "copied" /\ n.world = w
      BY <2>2, <3>2 DEF AnAddition, Steps
    <3> HIDE DEF n
    <3> QED BY <2>2, <3>1, <3>2, <3>3 DEF AddsTyped
  <2>4. ListsTyped' /\ EngineTyped' /\ NumbersTyped' /\ RequestsTyped'
    BY <2>1 DEF Typed, ListsTyped, EngineTyped, NumbersTyped, RequestsTyped, planning, engine, counts
  <2> QED BY <2>3, <2>4 DEF Typed
<1>3. CASE ReplaceWorld(a)
  <2>1. /\ UNCHANGED <<providers, planner, engine, breakers, health, usage, req, counts>>
        /\ adds' = [adds EXCEPT ![a].at = "kept"] /\ world' = adds[a].world /\ adds[a].at = "copied"
    BY <1>3 DEF ReplaceWorld, catalogue
  <2>2. AddsTyped'
    BY <2>1, AddMoves DEF Steps
  <2>3. ListsTyped'
    BY <2>1 DEF Typed, ListsTyped, AddsTyped
  <2>4. EngineTyped' /\ NumbersTyped' /\ RequestsTyped'
    BY <2>1 DEF Typed, EngineTyped, NumbersTyped, RequestsTyped, engine, counts
  <2> QED BY <2>2, <2>3, <2>4 DEF Typed
<1>4. CASE NewTracker(a)
  <2>1. /\ UNCHANGED <<providers, planning, executor, reportsTo, breakers, usage, req, counts>>
        /\ adds' = [adds EXCEPT ![a].at = "tracked"]
        /\ health' = Append(health, FreshHealth) /\ tracker' = Len(health) + 1
    BY <1>4 DEF NewTracker, catalogue
  <2>2. AddsTyped'
    BY <2>1, AddMoves DEF Steps
  <2>3. EngineTyped'
    <3> DEFINE more == Append(health, FreshHealth)
    <3>1. more \in Seq([Names -> Records]) /\ Len(more) = Len(health) + 1 /\ Len(health) \in Nat
      BY NewsAreTyped DEF Typed, EngineTyped
    <3>2. health' = more
      BY <2>1
    <3> HIDE DEF more
    <3>3. \A g \in 1 .. Len(reportsTo) : reportsTo[g] \in 1 .. Len(health')
      BY <3>1, <3>2 DEF Typed, EngineTyped
    <3> QED BY <2>1, <3>1, <3>2, <3>3 DEF Typed, EngineTyped
  <2>4. ListsTyped' /\ NumbersTyped' /\ RequestsTyped'
    BY <2>1 DEF Typed, ListsTyped, NumbersTyped, RequestsTyped, planning, counts
  <2> QED BY <2>2, <2>3, <2>4 DEF Typed
<1>5. CASE NewPlanner(a)
  <2>1. /\ UNCHANGED <<providers, world, engine, breakers, health, usage, req, counts>>
        /\ adds' = [adds EXCEPT ![a].at = "planned"] /\ planner' = world
    BY <1>5 DEF NewPlanner, catalogue
  <2>2. AddsTyped'
    BY <2>1, AddMoves DEF Steps
  <2>3. ListsTyped' /\ EngineTyped' /\ NumbersTyped' /\ RequestsTyped'
    BY <2>1 DEF Typed, ListsTyped, EngineTyped, NumbersTyped, RequestsTyped, engine, counts
  <2> QED BY <2>2, <2>3 DEF Typed
<1>6. CASE NewExecutor(a)
  <2>1. /\ UNCHANGED <<providers, planning, tracker, health, usage, req, counts>>
        /\ adds' = [adds EXCEPT ![a].at = "done"]
        /\ breakers' = Append(breakers, FreshBreakers) /\ reportsTo' = Append(reportsTo, tracker)
        /\ executor' = Len(breakers) + 1
    BY <1>6 DEF NewExecutor, catalogue
  <2>2. AddsTyped'
    BY <2>1, AddMoves DEF Steps
  <2>3. EngineTyped' /\ Len(breakers') = Len(breakers) + 1
    <3> DEFINE more == Append(breakers, FreshBreakers)
               longer == Append(reportsTo, tracker)
    <3>1. more \in Seq([Names -> Breakers]) /\ Len(more) = Len(breakers) + 1 /\ Len(breakers) \in Nat
      BY NewsAreTyped DEF Typed, EngineTyped
    <3>2. /\ longer \in Seq(Nat) /\ Len(longer) = Len(breakers) + 1
          /\ \A g \in 1 .. Len(longer) : longer[g] \in 1 .. Len(health)
      <4>1. /\ reportsTo \in Seq(Nat) /\ Len(reportsTo) = Len(breakers)
            /\ \A g \in 1 .. Len(reportsTo) : reportsTo[g] \in 1 .. Len(health)
            /\ tracker \in 1 .. Len(health) /\ tracker \in Nat
        BY DEF Typed, EngineTyped
      <4>2. /\ longer \in Seq(Nat) /\ Len(longer) = Len(reportsTo) + 1
            /\ \A g \in 1 .. Len(longer) : longer[g] = IF g = Len(reportsTo) + 1 THEN tracker ELSE reportsTo[g]
        BY <4>1
      <4> HIDE DEF longer
      <4>3. \A g \in 1 .. Len(longer) : g = Len(reportsTo) + 1 \/ g \in 1 .. Len(reportsTo)
        BY <4>1, <4>2
      <4> QED BY <4>1, <4>2, <4>3
    <3>3. breakers' = more /\ reportsTo' = longer
      BY <2>1
    <3> HIDE DEF more, longer
    <3> QED BY <2>1, <3>1, <3>2, <3>3 DEF Typed, EngineTyped
  <2>4. RequestsTyped'
    <3>1. Len(breakers) \in Nat /\ req' = req
      BY <2>1 DEF Typed, EngineTyped
    <3> QED BY <2>3, <3>1 DEF Typed, RequestsTyped
  <2>5. ListsTyped' /\ NumbersTyped'
    BY <2>1 DEF Typed, ListsTyped, NumbersTyped, planning, counts
  <2> QED BY <2>2, <2>3, <2>4, <2>5 DEF Typed
<1> QED BY <1>1, <1>2, <1>3, <1>4, <1>5, <1>6, TypedListing DEF Add
-----------------------------------------------------------------------------
\* and every step of a request.
LEMMA TypedMoves ==
    ASSUME Typed, NEW r \in Requests, Advance(r)
    PROVE  Typed'
<1> DEFINE quiet == UNCHANGED <<providers, planning, engine, breakers, health, usage, seen, adds>>
<1>1. CASE HookRaises(r)
  <2>1. "hook" \in Outcomes /\ req[r].at \notin {"idle", "returned"} /\ Raise(r, "hook") /\ quiet
    BY <1>1 DEF HookRaises, Outcomes, catalogue, counts
  <2>2. RequestsTyped'
    BY <2>1, RaiseRequests
  <2> QED BY <2>1, <2>2, QuietlyTyped
<1>2. CASE KeepWorld(r) \/ InstallPlanner(r)
  <2>1. /\ UNCHANGED <<providers, engine, breakers, health, usage, counts, adds>>
        /\ req[r].at \in {"reading", "kept"}
        /\ world' = req[r].world \/ world' = world
        /\ planner' = world \/ planner' = planner
    BY <1>2 DEF KeepWorld, InstallPlanner, catalogue
  <2>2. PICK at \in {"kept", "installed"} : req' = [req EXCEPT ![r].at = at]
    BY <1>2 DEF KeepWorld, InstallPlanner
  <2>3. Goes(r, at, req[r].plan, req[r].pos, req[r].gen, req[r].by, req[r].outcome)
    BY <2>2, PlaceGoes DEF Places
  <2>4. /\ req[r].by = None /\ req[r].outcome = None /\ req[r].plan = <<>> /\ req[r].world \in Worlds
        /\ req[r].gen \in 1 .. Len(breakers) /\ req[r].pos <= Len(req[r].plan) + 1
    BY <2>1, RequestNow, Unanswered DEF Staged
  <2>5. RequestsTyped'
    BY <2>1, <2>2, <2>3, <2>4, GoesTyped
  <2>6. ListsTyped'
    BY <2>1, <2>4 DEF Typed, ListsTyped
  <2>7. EngineTyped' /\ NumbersTyped' /\ AddsTyped'
    BY <2>1 DEF Typed, EngineTyped, NumbersTyped, AddsTyped, engine, counts
  <2> QED BY <2>5, <2>6, <2>7 DEF Typed
<1>3. CASE MakePlan(r)
  <2> DEFINE plan == Ranked(planner, req[r].kind)
  <2>1. req[r].at = "installed" /\ quiet
    BY <1>3 DEF MakePlan, catalogue, counts
  <2>2. plan \in Seq(Candidates) /\ Len(plan) \in Nat
    BY <2>1, PlanTyped
  <2>3. \/ Raise(r, "no_plan") \/ Raise(r, "invalid")
        \/ req' = [req EXCEPT ![r].at = "planned", ![r].plan = plan]
    BY <1>3 DEF MakePlan
  <2> HIDE DEF plan
  <2>4. "no_plan" \in Outcomes /\ "invalid" \in Outcomes
    BY DEF Outcomes
  <2>5. /\ req[r].by = None /\ req[r].outcome = None
        /\ req[r].gen \in 1 .. Len(breakers) /\ req[r].pos \in Nat /\ req[r].pos <= 1
    BY <2>1, RequestNow, RequestShape, Unanswered DEF Staged
  <2>6. RequestsTyped'
    <3>1. CASE Raise(r, "no_plan") \/ Raise(r, "invalid")
      BY <2>1, <2>4, <2>5, <3>1, RaiseRequests
    <3>2. CASE req' = [req EXCEPT ![r].at = "planned", ![r].plan = plan]
      <4>1. Goes(r, "planned", plan, req[r].pos, req[r].gen, req[r].by, req[r].outcome)
        BY <2>2, <3>2, PlanGoes
      <4>2. req[r].pos <= Len(plan) + 1
        BY <2>2, <2>5
      <4> QED BY <2>1, <2>5, <4>1, <4>2, GoesTyped
    <3> QED BY <2>3, <3>1, <3>2
  <2> QED BY <2>1, <2>6, QuietlyTyped
<1>4. CASE BeginExecution(r)
  <2>1. req[r].at = "planned" /\ quiet /\ req' = [req EXCEPT ![r].at = "executing", ![r].gen = executor]
    BY <1>4 DEF BeginExecution, catalogue, counts
  <2>2. executor \in 1 .. Len(breakers) /\ executor \in Nat \ {0}
    BY DEF Typed, EngineTyped
  <2>3. Goes(r, "executing", req[r].plan, req[r].pos, executor, req[r].by, req[r].outcome)
    BY <2>1, <2>2, BeginGoes
  <2>4. req[r].by = None /\ req[r].outcome = None /\ req[r].pos <= Len(req[r].plan) + 1
    BY <2>1, RequestNow, Unanswered DEF Staged
  <2>5. RequestsTyped'
    BY <2>1, <2>2, <2>3, <2>4, GoesTyped
  <2> QED BY <2>1, <2>5, QuietlyTyped
<1>5. CASE TurnRefused(r) \/ TurnAdapterless(r) \/ TurnServed(r) \/ TurnEscapes(r) \/ \E c \in Categories : TurnFailed(r, c)
  BY <1>5, TypedTurns
<1>6. CASE Exhaust(r)
  <2>1. /\ req[r].at = "executing" /\ quiet
        /\ Raise(r, "invalid") \/ req' = [req EXCEPT ![r].at = "executed"]
    BY <1>6 DEF Exhaust, catalogue, counts
  <2>2. /\ req[r].by = None /\ req[r].outcome = None /\ "invalid" \in Outcomes
        /\ req[r].gen \in 1 .. Len(breakers) /\ req[r].pos <= Len(req[r].plan) + 1
    BY <2>1, RequestNow, Unanswered DEF Staged, Outcomes
  <2>3. RequestsTyped'
    <3>1. CASE Raise(r, "invalid")
      BY <2>1, <2>2, <3>1, RaiseRequests
    <3>2. CASE req' = [req EXCEPT ![r].at = "executed"]
      <4>1. Goes(r, "executed", req[r].plan, req[r].pos, req[r].gen, req[r].by, req[r].outcome)
        BY <3>2, PlaceGoes DEF Places
      <4> QED BY <2>1, <2>2, <4>1, GoesTyped
    <3> QED BY <2>1, <3>1, <3>2
  <2> QED BY <2>1, <2>3, QuietlyTyped
<1>7. CASE Fail(r)
  <2>1. /\ req[r].at = "executed" /\ req[r].by = None /\ quiet
        /\ Raise(r, "failed") /\ "failed" \in Outcomes
    BY <1>7 DEF Fail, Outcomes, catalogue, counts
  <2>2. RequestsTyped'
    BY <2>1, RaiseRequests
  <2> QED BY <2>1, <2>2, QuietlyTyped
<1>8. CASE Return(r)
  <2>1. /\ req[r].at = "executed" /\ req[r].by # None
        /\ UNCHANGED <<providers, planning, engine, breakers, health, counts, adds>>
        /\ usage' = [usage EXCEPT ![req[r].by] = @ + 1] /\ req' = [req EXCEPT ![r].at = "returned"]
    BY <1>8 DEF Return, catalogue
  <2>2. /\ req[r].by \in Names /\ req[r].outcome = None
        /\ req[r].gen \in 1 .. Len(breakers) /\ req[r].pos <= Len(req[r].plan) + 1
    BY <2>1, RequestNow, RequestShape DEF Staged
  <2>3. Goes(r, "returned", req[r].plan, req[r].pos, req[r].gen, req[r].by, req[r].outcome)
    BY <2>1, PlaceGoes DEF Places
  <2>4. RequestsTyped'
    BY <2>1, <2>2, <2>3, GoesTyped
  <2>5. NumbersTyped'
    <3>1. usage \in [Names -> Nat] /\ seen' = seen
      BY <2>1 DEF Typed, NumbersTyped, counts
    <3> DEFINE n == req[r].by
    <3> HIDE DEF n
    <3>2. n \in Names /\ usage' = [usage EXCEPT ![n] = usage[n] + 1]
      BY <2>1, <2>2, <3>1 DEF n
    <3> QED BY <3>1, <3>2 DEF Typed, NumbersTyped
  <2>6. ListsTyped' /\ EngineTyped' /\ AddsTyped'
    BY <2>1 DEF Typed, ListsTyped, EngineTyped, AddsTyped, planning, engine
  <2> QED BY <2>4, <2>5, <2>6 DEF Typed
<1> QED BY <1>1, <1>2, <1>3, <1>4, <1>5, <1>6, <1>7, <1>8, TypedCount DEF Advance

\* The types are inductive.
LEMMA TypedNext == Typed /\ [Next]_vars => Typed'
<1> SUFFICES ASSUME Typed, [Next]_vars PROVE Typed'
  OBVIOUS
<1>1. CASE UNCHANGED vars
  <2>1. UNCHANGED <<providers, planning, engine, breakers, health, usage, seen, req, adds>>
    BY <1>1 DEF vars, catalogue, counts
  <2>2. RequestsTyped'
    BY <2>1 DEF Typed, RequestsTyped
  <2> QED BY <2>1, <2>2, QuietlyTyped
<1> QED BY <1>1, TypedTicks, TypedAdds, TypedReads, TypedMoves DEF Next

\* Hence they hold throughout.
LEMMA TypedAlways == Spec => []Typed
BY TypedInit, TypedNext, PTL DEF Spec

\* Types: every executor has a breaker of each provider and reports to a tracker
\* that exists, and a request stays with one of the client's executors, within
\* its plan, whatever overlaps.
THEOREM TypeCorrect == Spec => []TypeOK
<1>1. ASSUME Typed PROVE TypeOK
  <2>1. /\ executor \in DOMAIN breakers /\ tracker \in DOMAIN health /\ DOMAIN reportsTo = DOMAIN breakers
        /\ DOMAIN breakers = 1 .. Len(breakers)
        /\ \A g \in DOMAIN breakers : breakers[g] \in [Names -> Breakers] /\ reportsTo[g] \in DOMAIN health
    BY <1>1 DEF Typed, EngineTyped
  <2>2. ASSUME NEW r \in Requests
        PROVE  /\ req[r].gen \in DOMAIN breakers
               /\ req[r].pos \in 1 .. Len(req[r].plan) + 1
               /\ req[r].by \in Names \cup {None}
               /\ req[r].by # None => ~ req[r].outcome \in {"no_plan", "invalid", "failed", "escaped"}
    <3>1. req[r] \in ARequest /\ Staged(req[r]) /\ req[r].gen \in DOMAIN breakers
      BY <1>1, <2>1, RequestNow
    <3>2. req[r].pos \in Nat \ {0} /\ req[r].by \in Names \cup {None} /\ req[r].plan \in Seq(Candidates)
      BY <3>1, RequestShape
    <3>3. req[r].pos \in 1 .. Len(req[r].plan) + 1
      <4> DEFINE plan == req[r].plan
                 pos == req[r].pos
      <4>1. pos \in Nat \ {0} /\ Len(plan) \in Nat /\ pos <= Len(plan) + 1
        BY <3>1, <3>2 DEF Staged
      <4> HIDE DEF plan, pos
      <4>2. pos \in 1 .. Len(plan) + 1
        BY <4>1
      <4> QED BY <4>2 DEF plan, pos
    <3>4. req[r].by # None => ~ req[r].outcome \in {"no_plan", "invalid", "failed", "escaped"}
      BY <3>1, ClientAssumption DEF Staged, ClientAssumption, Outcomes
    <3> QED BY <3>1, <3>2, <3>3, <3>4
  <2> QED BY <2>1, <2>2 DEF TypeOK
<1> QED BY <1>1, TypedAlways, PTL
-----------------------------------------------------------------------------
\* A request that refreshes alone is the only one to do so, and no provider is
\* being added; the client's world has the health it read once it has put it
\* there, and so has the planner.
AloneRefreshes ==
    \A r \in Requests : req[r].alone /\ r \in Refreshing => Refreshing \subseteq {r} /\ Adding = {}

AloneKeeps ==
    \A r \in Requests : req[r].alone /\ req[r].at = "kept" => world.status = req[r].world.status

AloneInstalls ==
    \A r \in Requests : req[r].alone /\ req[r].at = "installed" => planner.status = req[r].world.status

Alone == AloneRefreshes /\ AloneKeeps /\ AloneInstalls /\ AlonePlansHealthy

\* A step of a request that neither refreshes nor plans.
LEMMA AloneKept ==
    ASSUME Typed, Alone, NEW r \in Requests, NEW at, NEW pos, NEW g, NEW by, NEW outcome,
           Goes(r, at, req[r].plan, pos, g, by, outcome), UNCHANGED <<planning, adds>>,
           at \in {"reading", "kept", "installed"} => at = req[r].at
    PROVE  Alone'
<1>1. \A s \in Requests : /\ req'[s].alone = req[s].alone /\ req'[s].world = req[s].world
                          /\ req'[s].plan = req[s].plan
                          /\ req'[s].at \in {"reading", "kept", "installed"} => req'[s].at = req[s].at
  BY DEF Goes
<1>2. Refreshing' \subseteq Refreshing /\ Adding' = Adding /\ world' = world /\ planner' = planner
  BY <1>1 DEF Refreshing, Adding, planning
<1>3. AloneRefreshes'
  <2> SUFFICES ASSUME NEW s \in Requests, req'[s].alone, s \in Refreshing'
               PROVE  Refreshing' \subseteq {s} /\ Adding' = {}
    BY DEF AloneRefreshes
  <2>1. req[s].alone /\ s \in Refreshing
    BY <1>1, <1>2
  <2> QED BY <1>2, <2>1 DEF Alone, AloneRefreshes
<1>4. AloneKeeps' /\ AloneInstalls'
  BY <1>1, <1>2 DEF Alone, AloneKeeps, AloneInstalls
<1>5. AlonePlansHealthy'
  <2> SUFFICES ASSUME NEW s \in Requests, req'[s].alone, NEW k \in DOMAIN req'[s].plan
               PROVE  req'[s].plan[k].provider \notin Sick(req'[s].world)
    BY DEF AlonePlansHealthy, Sick
  <2>1. req[s].alone /\ req'[s].world = req[s].world /\ req'[s].plan = req[s].plan
    BY <1>1
  <2> QED BY <2>1 DEF Alone, AlonePlansHealthy
<1> QED BY <1>3, <1>4, <1>5 DEF Alone

\* A request that puts its world or its planner in place, alone, finds there
\* what it put there before.
LEMMA AloneMovesOn ==
    ASSUME Typed, Alone, NEW r \in Requests, KeepWorld(r) \/ InstallPlanner(r)
    PROVE  Alone'
<1>1. /\ adds' = adds
      /\ \/ /\ req[r].at = "reading" /\ world' = req[r].world
            /\ req' = [req EXCEPT ![r].at = "kept"]
         \/ /\ req[r].at = "kept" /\ planner' = world
            /\ req' = [req EXCEPT ![r].at = "installed"]
  BY DEF KeepWorld, InstallPlanner
<1>2. PICK at \in {"kept", "installed"} :
        /\ req' = [req EXCEPT ![r].at = at]
        /\ at = "kept" => req[r].at = "reading" /\ world' = req[r].world
        /\ at = "installed" => req[r].at = "kept" /\ planner' = world
  BY <1>1
<1>3. Goes(r, at, req[r].plan, req[r].pos, req[r].gen, req[r].by, req[r].outcome)
  BY <1>2, PlaceGoes DEF Places
<1>4. \A s \in Requests : /\ req'[s].alone = req[s].alone /\ req'[s].world = req[s].world
                          /\ req'[s].plan = req[s].plan
                          /\ s # r => req'[s].at = req[s].at
  BY <1>3 DEF Goes
<1>5. req'[r].at = at /\ Refreshing' = Refreshing /\ r \in Refreshing /\ Adding' = Adding
  BY <1>1, <1>2, <1>3, <1>4 DEF Refreshing, Adding, Goes
<1>6. AloneRefreshes'
  <2> SUFFICES ASSUME NEW s \in Requests, req'[s].alone, s \in Refreshing'
               PROVE  Refreshing' \subseteq {s} /\ Adding' = {}
    BY DEF AloneRefreshes
  <2>1. req[s].alone
    BY <1>4
  <2> QED BY <1>5, <2>1 DEF Alone, AloneRefreshes
<1>7. \A s \in Requests : req'[s].alone /\ req'[s].at \in {"kept", "installed"} => s = r
  <2> SUFFICES ASSUME NEW s \in Requests, req'[s].alone, req'[s].at \in {"kept", "installed"}, s # r
               PROVE  FALSE
    OBVIOUS
  <2>1. req[s].alone /\ s \in Refreshing
    BY <1>4 DEF Refreshing
  <2> QED BY <1>5, <2>1 DEF Alone, AloneRefreshes
<1>8. AloneKeeps'
  BY <1>2, <1>4, <1>5, <1>7 DEF AloneKeeps
<1>9. AloneInstalls'
  <2> SUFFICES ASSUME req'[r].alone, at = "installed" PROVE planner'.status = req'[r].world.status
    BY <1>5, <1>7 DEF AloneInstalls
  <2>1. req[r].alone /\ req[r].at = "kept" /\ planner' = world
    BY <1>2, <1>4
  <2> QED BY <1>4, <2>1 DEF Alone, AloneKeeps
<1>10. AlonePlansHealthy'
  <2> SUFFICES ASSUME NEW s \in Requests, req'[s].alone, NEW k \in DOMAIN req'[s].plan
               PROVE  req'[s].plan[k].provider \notin Sick(req'[s].world)
    BY DEF AlonePlansHealthy, Sick
  <2>1. req[s].alone /\ req'[s].world = req[s].world /\ req'[s].plan = req[s].plan
    BY <1>4
  <2> QED BY <2>1 DEF Alone, AlonePlansHealthy
<1> QED BY <1>6, <1>8, <1>9, <1>10 DEF Alone

\* A plan names no provider that is sick in the planner's world.
LEMMA PlansAvoidSick ==
    ASSUME NEW seenWorld \in Worlds, NEW request, RequestOK(request), NEW k \in DOMAIN Ranked(seenWorld, request)
    PROVE  Ranked(seenWorld, request)[k].provider \notin Sick(seenWorld)
<1> DEFINE plan == Ranked(seenWorld, request)
<1>1. Range(plan) = {CandidateOf(pair, request, seenWorld) : pair \in Able(seenWorld, request)}
  BY RankedElements
<1>2. plan[k] \in Range(plan)
  BY DEF Range
<1> HIDE DEF plan
<1>3. PICK pair \in Able(seenWorld, request) : plan[k] = CandidateOf(pair, request, seenWorld)
  BY <1>1, <1>2
<1>4. seenWorld.status[pair.provider.name] # "unhealthy" /\ plan[k].provider = pair.provider.name
  BY <1>3 DEF Able, Satisfies, CandidateOf
<1> QED BY <1>4 DEF Sick, plan

\* A request that plans from the world it has read leaves the sick out.
LEMMA AlonePlans ==
    ASSUME Typed, Alone, NEW r \in Requests, MakePlan(r),
           req' = [req EXCEPT ![r].at = "planned", ![r].plan = Ranked(planner, req[r].kind)]
    PROVE  Alone'
<1> DEFINE plan == Ranked(planner, req[r].kind)
<1>1. req[r].at = "installed" /\ world' = world /\ planner' = planner /\ adds' = adds
  BY DEF MakePlan, planning
<1>2. planner \in Worlds /\ RequestOK(req[r].kind) /\ plan \in Seq(Candidates)
  BY <1>1, PlanTyped
<1>3. \A k \in DOMAIN plan : plan[k].provider \notin Sick(planner)
  BY <1>2, PlansAvoidSick
<1>4. req' = [req EXCEPT ![r].at = "planned", ![r].plan = plan]
  OBVIOUS
<1> HIDE DEF plan
<1>5. Goes(r, "planned", plan, req[r].pos, req[r].gen, req[r].by, req[r].outcome)
  BY <1>2, <1>4, PlanGoes
<1>6. \A s \in Requests : /\ req'[s].alone = req[s].alone /\ req'[s].world = req[s].world
                          /\ req'[s].at \in {"reading", "kept", "installed"} => s # r /\ req'[s].at = req[s].at
                          /\ s # r => req'[s].plan = req[s].plan
  BY <1>5 DEF Goes
<1>7. Refreshing' \subseteq Refreshing /\ Adding' = Adding /\ req'[r].plan = plan
  BY <1>1, <1>5, <1>6 DEF Refreshing, Adding, Goes
<1>8. AloneRefreshes'
  <2> SUFFICES ASSUME NEW s \in Requests, req'[s].alone, s \in Refreshing'
               PROVE  Refreshing' \subseteq {s} /\ Adding' = {}
    BY DEF AloneRefreshes
  <2>1. req[s].alone /\ s \in Refreshing
    BY <1>6, <1>7
  <2> QED BY <1>7, <2>1 DEF Alone, AloneRefreshes
<1>9. AloneKeeps' /\ AloneInstalls'
  <2>1. \A s \in Requests : req'[s].alone /\ req'[s].at = "kept" => world'.status = req'[s].world.status
    <3> SUFFICES ASSUME NEW s \in Requests, req'[s].alone, req'[s].at = "kept"
                 PROVE  world'.status = req'[s].world.status
      OBVIOUS
    <3>1. req[s].alone /\ req[s].at = "kept" /\ req'[s].world = req[s].world
      BY <1>6
    <3> QED BY <1>1, <3>1 DEF Alone, AloneKeeps
  <2>2. \A s \in Requests : req'[s].alone /\ req'[s].at = "installed" => planner'.status = req'[s].world.status
    <3> SUFFICES ASSUME NEW s \in Requests, req'[s].alone, req'[s].at = "installed"
                 PROVE  planner'.status = req'[s].world.status
      OBVIOUS
    <3>1. req[s].alone /\ req[s].at = "installed" /\ req'[s].world = req[s].world
      BY <1>6
    <3> QED BY <1>1, <3>1 DEF Alone, AloneInstalls
  <2> QED BY <2>1, <2>2 DEF AloneKeeps, AloneInstalls
<1>10. AlonePlansHealthy'
  <2> SUFFICES ASSUME NEW s \in Requests, req'[s].alone, NEW k \in DOMAIN req'[s].plan
               PROVE  req'[s].plan[k].provider \notin Sick(req'[s].world)
    BY DEF AlonePlansHealthy, Sick
  <2>1. req[s].alone /\ req'[s].world = req[s].world
    BY <1>6
  <2>2. CASE s # r
    BY <1>6, <2>1, <2>2 DEF Alone, AlonePlansHealthy
  <2>3. CASE s = r
    <3>1. planner.status = req[r].world.status
      BY <1>1, <2>1, <2>3 DEF Alone, AloneInstalls
    <3> QED BY <1>3, <1>7, <2>1, <2>3, <3>1 DEF Sick
  <2> QED BY <2>2, <2>3
<1> QED BY <1>8, <1>9, <1>10 DEF Alone

\* A request that reads is alone, or another one is and is no more.
LEMMA AloneReads ==
    ASSUME Typed, Alone, NEW r \in Requests, NEW kind \in Kinds, ReadWorld(r, kind)
    PROVE  Alone'
<1>1. /\ req'[r].at = "reading" /\ req'[r].plan = <<>>
      /\ req'[r].alone => Refreshing = {} /\ Adding = {}
      /\ \A s \in Requests : s # r => Beside(s)
  BY ReadGoes
<1>2. adds' = adds /\ Adding' = Adding
  BY DEF ReadWorld, Adding
<1>3. \A s \in Requests : s # r /\ req'[s].alone => /\ req[s].alone /\ s \notin Refreshing
                                                    /\ req'[s].at = req[s].at /\ req'[s].world = req[s].world
                                                    /\ req'[s].plan = req[s].plan
  BY <1>1 DEF Beside
<1>4. \A s \in Requests : s # r => (s \in Refreshing' <=> s \in Refreshing)
  BY <1>1 DEF Beside, Refreshing
<1>5. AloneRefreshes'
  <2> SUFFICES ASSUME NEW s \in Requests, req'[s].alone, s \in Refreshing'
               PROVE  Refreshing' \subseteq {s} /\ Adding' = {}
    BY DEF AloneRefreshes
  <2>1. s = r
    BY <1>3, <1>4
  <2>2. Refreshing = {} /\ Adding = {}
    BY <1>1, <2>1
  <2>3. Refreshing' \subseteq Requests
    BY DEF Refreshing
  <2> QED BY <1>2, <1>4, <2>1, <2>2, <2>3
<1>6. AloneKeeps' /\ AloneInstalls'
  <2> SUFFICES ASSUME NEW s \in Requests, req'[s].alone, req'[s].at \in {"kept", "installed"}
               PROVE  FALSE
    BY DEF AloneKeeps, AloneInstalls
  <2>1. s # r
    BY <1>1
  <2> QED BY <1>3, <2>1 DEF Refreshing
<1>7. AlonePlansHealthy'
  <2> SUFFICES ASSUME NEW s \in Requests, req'[s].alone, NEW k \in DOMAIN req'[s].plan
               PROVE  req'[s].plan[k].provider \notin Sick(req'[s].world)
    BY DEF AlonePlansHealthy, Sick
  <2>1. s # r
    BY <1>1
  <2>2. req[s].alone /\ req'[s].world = req[s].world /\ req'[s].plan = req[s].plan
    BY <1>3, <2>1
  <2> QED BY <2>2 DEF Alone, AlonePlansHealthy
<1> QED BY <1>5, <1>6, <1>7 DEF Alone

\* No request that refreshes is alone any more once a provider is listed,
LEMMA AloneListed ==
    ASSUME Typed, Alone, NEW a \in Additions, NEW p, AddProvider(a, p)
    PROVE  Alone'
<1>1. \A s \in Requests : req'[s].alone => /\ req[s].alone /\ s \notin Refreshing
                                           /\ req'[s].at = req[s].at /\ req'[s].world = req[s].world
                                           /\ req'[s].plan = req[s].plan
  BY AddGoes DEF Beside
<1>2. AloneRefreshes' /\ AloneKeeps' /\ AloneInstalls'
  BY <1>1 DEF AloneRefreshes, AloneKeeps, AloneInstalls, Refreshing
<1>3. AlonePlansHealthy'
  <2> SUFFICES ASSUME NEW s \in Requests, req'[s].alone, NEW k \in DOMAIN req'[s].plan
               PROVE  req'[s].plan[k].provider \notin Sick(req'[s].world)
    BY DEF AlonePlansHealthy, Sick
  <2>1. req[s].alone /\ req'[s].world = req[s].world /\ req'[s].plan = req[s].plan
    BY <1>1
  <2> QED BY <2>1 DEF Alone, AlonePlansHealthy
<1> QED BY <1>2, <1>3 DEF Alone

\* or while it is being added.
LEMMA AloneBeforeAdding ==
    ASSUME Typed, Alone, NEW a \in Adding, req' = req
    PROVE  Alone'
<1>1. \A r \in Requests : req'[r] = req[r]
  OBVIOUS
<1>2. \A r \in Requests : ~ (req'[r].alone /\ r \in Refreshing')
  BY <1>1 DEF Alone, AloneRefreshes, Refreshing
<1>3. AloneRefreshes' /\ AloneKeeps' /\ AloneInstalls'
  BY <1>2 DEF AloneRefreshes, AloneKeeps, AloneInstalls, Refreshing
<1>4. AlonePlansHealthy'
  BY <1>1 DEF Alone, AlonePlansHealthy, Sick
<1> QED BY <1>3, <1>4 DEF Alone
-----------------------------------------------------------------------------
\* A request that raises neither refreshes nor plans.
LEMMA AloneRaises ==
    ASSUME Typed, Alone, NEW r \in Requests, NEW o \in Outcomes, Raise(r, o), UNCHANGED <<planning, adds>>
    PROVE  Alone'
<1>1. Goes(r, "raised", req[r].plan, req[r].pos, req[r].gen, req[r].by, o)
  BY RaiseGoes
<1> QED BY <1>1, AloneKept

\* Alone is kept by every step of a request,
LEMMA AloneMoves ==
    ASSUME Typed, Alone, NEW r \in Requests, Advance(r)
    PROVE  Alone'
<1>1. CASE HookRaises(r) \/ TurnEscapes(r) \/ Fail(r)
  <2>1. UNCHANGED <<planning, adds>> /\ \E o \in Outcomes : Raise(r, o)
    BY <1>1 DEF HookRaises, TurnEscapes, Fail, Outcomes
  <2> QED BY <2>1, AloneRaises
<1>2. CASE KeepWorld(r) \/ InstallPlanner(r)
  BY <1>2, AloneMovesOn
<1>3. CASE MakePlan(r)
  <2>1. UNCHANGED <<planning, adds>>
    BY <1>3 DEF MakePlan
  <2>2. \/ \E o \in Outcomes : Raise(r, o)
        \/ req' = [req EXCEPT ![r].at = "planned", ![r].plan = Ranked(planner, req[r].kind)]
    BY <1>3 DEF MakePlan, Outcomes
  <2> QED BY <1>3, <2>1, <2>2, AloneRaises, AlonePlans
<1>4. CASE BeginExecution(r)
  <2>1. UNCHANGED <<planning, adds>> /\ executor \in Nat \ {0}
        /\ req' = [req EXCEPT ![r].at = "executing", ![r].gen = executor]
    BY <1>4 DEF BeginExecution, Typed, EngineTyped
  <2>2. Goes(r, "executing", req[r].plan, req[r].pos, executor, req[r].by, req[r].outcome)
    BY <2>1, BeginGoes
  <2> QED BY <2>1, <2>2, AloneKept
<1>5. CASE TurnRefused(r)
  <2>1. /\ UNCHANGED <<planning, adds>>
        /\ Goes(r, req[r].at, req[r].plan, req[r].pos + 1, req[r].gen, req[r].by, req[r].outcome)
    BY <1>5, PassGoes DEF TurnRefused
  <2> QED BY <2>1, AloneKept
<1>6. CASE TurnServed(r)
  <2>1. /\ UNCHANGED <<planning, adds>>
        /\ Goes(r, "counting", req[r].plan, req[r].pos, req[r].gen, req[r].by, req[r].outcome)
    BY <1>6, PlaceGoes DEF TurnServed, Places
  <2> QED BY <2>1, AloneKept
<1>7. CASE CountServed(r)
  <2> DEFINE n == Candidate(r)
  <2>1. /\ UNCHANGED <<planning, adds>> /\ req[r].at = "counting"
        /\ req' = [req EXCEPT ![r].at = "executed", ![r].by = n]
    BY <1>7 DEF CountServed
  <2>2. n \in Names
    BY <2>1, RequestNow, AskTyped DEF Staged
  <2> HIDE DEF n
  <2>3. Goes(r, "executed", req[r].plan, req[r].pos, req[r].gen, n, req[r].outcome)
    BY <2>1, <2>2, CountGoes
  <2> QED BY <2>1, <2>3, AloneKept
<1>8. ASSUME NEW c, TurnFailed(r, c) \/ TurnAdapterless(r) PROVE Alone'
  <2>1. /\ UNCHANGED <<planning, adds>>
        /\ Goes(r, req[r].at, req[r].plan, req[r].pos + 1, req[r].gen, req[r].by, req[r].outcome)
    BY <1>8, FailGoes DEF TurnFailed, TurnAdapterless
  <2> QED BY <2>1, AloneKept
<1>9. CASE Exhaust(r)
  <2>1. /\ UNCHANGED <<planning, adds>>
        /\ Raise(r, "invalid") \/ req' = [req EXCEPT ![r].at = "executed"]
    BY <1>9 DEF Exhaust
  <2>2. CASE req' = [req EXCEPT ![r].at = "executed"]
    <3>1. Goes(r, "executed", req[r].plan, req[r].pos, req[r].gen, req[r].by, req[r].outcome)
      BY <2>2, PlaceGoes DEF Places
    <3> QED BY <2>1, <3>1, AloneKept
  <2> QED BY <2>1, <2>2, AloneRaises DEF Outcomes
<1>10. CASE Return(r)
  <2>1. /\ UNCHANGED <<planning, adds>>
        /\ Goes(r, "returned", req[r].plan, req[r].pos, req[r].gen, req[r].by, req[r].outcome)
    BY <1>10, PlaceGoes DEF Return, Places
  <2> QED BY <2>1, AloneKept
<1> QED BY <1>1, <1>2, <1>3, <1>4, <1>5, <1>6, <1>7, <1>8, <1>9, <1>10 DEF Advance

\* and by one that leaves requests, world and planner as they are.
LEMMA AloneOtherwise ==
    ASSUME Typed, Alone, req' = req, UNCHANGED <<planning, adds>>
    PROVE  Alone'
<1>1. (\A r \in Requests : req'[r] = req[r]) /\ world' = world /\ planner' = planner /\ adds' = adds
  BY DEF planning
<1>2. AloneRefreshes' /\ AloneKeeps' /\ AloneInstalls'
  BY <1>1 DEF Alone, Refreshing, Adding, AloneRefreshes, AloneKeeps, AloneInstalls
<1>3. AlonePlansHealthy'
  BY <1>1 DEF Alone, AlonePlansHealthy, Sick
<1> QED BY <1>2, <1>3 DEF Alone

\* It holds at first,
LEMMA AloneInit == Init => Alone
<1> SUFFICES ASSUME Init, NEW r \in Requests
             PROVE  req[r].at = "idle" /\ req[r].plan = <<>>
  BY DEF Alone, AloneRefreshes, AloneKeeps, AloneInstalls, AlonePlansHealthy, Refreshing
<1> QED BY DEF Init, NewRequest

\* and is inductive.
LEMMA AloneNext == Typed /\ Alone /\ [Next]_vars => Alone'
<1> SUFFICES ASSUME Typed, Alone, [Next]_vars PROVE Alone'
  OBVIOUS
<1>1. CASE UNCHANGED vars
  BY <1>1, AloneOtherwise DEF vars
<1>2. CASE Tick
  BY <1>2, AloneOtherwise DEF Tick
<1>3. ASSUME NEW a \in Additions, Add(a) PROVE Alone'
  <2>1. ASSUME ~ \E p \in MoreProviders : AddProvider(a, p) PROVE a \in Adding /\ req' = req
    BY <1>3, <2>1 DEF Add, RefuseAddress, AddAdapter, CopyWorld, ReplaceWorld, NewTracker, NewPlanner,
                      NewExecutor, Adding
  <2> QED BY <2>1, AloneListed, AloneBeforeAdding
<1> QED BY <1>1, <1>2, <1>3, AloneReads, AloneMoves DEF Next

\* A request that refreshes and plans while no other one refreshes and while no
\* provider is being added plans no provider that was unhealthy when it was
\* called (LLMClient.execute, add_provider).
THEOREM AloneCorrect == Spec => []AlonePlansHealthy
<1>1. Spec => []Alone
  BY TypedAlways, AloneInit, AloneNext, PTL DEF Spec
<1>2. Alone => AlonePlansHealthy
  BY DEF Alone
<1> QED BY <1>1, <1>2, PTL
-----------------------------------------------------------------------------
\* Only making a plan leads from the one place to the other.
LEMMA OnlyPlanning ==
    ASSUME Typed, [Next]_vars, NEW r \in Requests, req[r].at = "installed", req'[r].at = "planned"
    PROVE  /\ req'[r].plan = Ranked(planner, req[r].kind)
           /\ ~ HasDuplicate(Ranked(planner, req[r].kind))
<1>1. req' # req
  OBVIOUS
<1>2. ASSUME NEW s \in Requests, NEW kind \in Kinds, ReadWorld(s, kind) PROVE FALSE
  <2>1. s # r
    BY <1>2 DEF ReadWorld
  <2> QED BY <1>2, <2>1, ReadGoes DEF Beside
<1>3. ASSUME NEW a \in Additions, Add(a) PROVE FALSE
  <2>1. PICK p \in MoreProviders : AddProvider(a, p)
    BY <1>1, <1>3 DEF Add, RefuseAddress, AddAdapter, CopyWorld, ReplaceWorld, NewTracker, NewPlanner, NewExecutor
  <2> QED BY <2>1, AddGoes DEF Beside
<1>4. PICK s \in Requests : Advance(s)
  BY <1>1, <1>2, <1>3 DEF Next, Tick, vars
<1>5. ASSUME NEW o \in Outcomes, Raise(s, o) PROVE FALSE
  BY <1>5, RaiseGoes DEF Goes
<1>6. ASSUME NEW at \in Places, at # "planned", req' = [req EXCEPT ![s].at = at] PROVE FALSE
  BY <1>6, PlaceGoes DEF Goes
<1>7. ~ KeepWorld(s) /\ ~ InstallPlanner(s) /\ ~ TurnServed(s) /\ ~ Return(s)
  BY <1>6 DEF KeepWorld, InstallPlanner, TurnServed, Return, Places
<1>8. ~ BeginExecution(s) /\ ~ TurnRefused(s) /\ ~ TurnAdapterless(s) /\ ~ \E c \in Categories : TurnFailed(s, c)
  <2>1. ASSUME BeginExecution(s) PROVE FALSE
    <3>1. executor \in Nat \ {0} /\ req' = [req EXCEPT ![s].at = "executing", ![s].gen = executor]
      BY <2>1 DEF BeginExecution, Typed, EngineTyped
    <3> QED BY <3>1, BeginGoes DEF Goes
  <2>2. ASSUME TurnRefused(s) PROVE FALSE
    <3>1. req[s].at = "executing"
      BY <2>2 DEF TurnRefused, AtCandidate
    <3> QED BY <2>2, <3>1, PassGoes DEF Goes, TurnRefused
  <2>3. ASSUME NEW c, TurnFailed(s, c) \/ TurnAdapterless(s) PROVE FALSE
    <3>1. req[s].at = "executing" /\ req' = [req EXCEPT ![s].pos = @ + 1, ![s].failed = TRUE]
      BY <2>3 DEF TurnFailed, TurnAdapterless, Called, AtCandidate
    <3> QED BY <3>1, FailGoes DEF Goes
  <2> QED BY <2>1, <2>2, <2>3
<1>9. ~ CountServed(s)
  <2> SUFFICES ASSUME CountServed(s) PROVE FALSE
    OBVIOUS
  <2> DEFINE n == Candidate(s)
  <2>1. req[s].at = "counting" /\ req' = [req EXCEPT ![s].at = "executed", ![s].by = n]
    BY DEF CountServed
  <2>2. n \in Names
    BY <2>1, RequestNow, AskTyped DEF Staged
  <2> HIDE DEF n
  <2> QED BY <2>1, <2>2, CountGoes DEF Goes
<1>10. ~ HookRaises(s) /\ ~ TurnEscapes(s) /\ ~ Fail(s)
  BY <1>5 DEF HookRaises, TurnEscapes, Fail, Outcomes
<1>11. ~ Exhaust(s)
  BY <1>5, <1>6 DEF Exhaust, Outcomes, Places
<1>12. MakePlan(s)
  BY <1>4, <1>7, <1>8, <1>9, <1>10, <1>11 DEF Advance
<1> DEFINE plan == Ranked(planner, req[s].kind)
<1>13. ~ HasDuplicate(plan) /\ req' = [req EXCEPT ![s].at = "planned", ![s].plan = plan] /\ plan \in Seq(Candidates)
  <2>1. req[s].at = "installed"
    BY <1>12 DEF MakePlan
  <2> QED BY <1>5, <1>12, <2>1, PlanTyped DEF MakePlan, Outcomes
<1> HIDE DEF plan
<1>14. Goes(s, "planned", plan, req[s].pos, req[s].gen, req[s].by, req[s].outcome)
  BY <1>13, PlanGoes
<1>15. s = r
  BY <1>14 DEF Goes
<1> QED BY <1>13, <1>14, <1>15 DEF Goes, plan

\* Every plan a request is given is a ranking of what the planner's world offers
\* it (Planner.plan): nothing that can serve is missing, nothing that cannot is
\* there, nothing is there twice, and the order is that of the sort key.
THEOREM PlansCorrect == Spec => PlansAreRankings
<1>1. ASSUME Typed, [Next]_vars,
             NEW r \in Requests, req[r].at = "installed", req'[r].at = "planned"
      PROVE  IsRanking(req'[r].plan, planner, req[r].kind)
  <2>1. req'[r].plan = Ranked(planner, req[r].kind) /\ ~ HasDuplicate(Ranked(planner, req[r].kind))
    BY <1>1, OnlyPlanning
  <2>2. planner \in Worlds /\ RequestOK(req[r].kind)
    BY <1>1, PlanTyped
  <2> QED BY <2>1, <2>2, AcceptedIsRanking
<1>2. Typed /\ [Next]_vars => [\A r \in Requests : req[r].at = "installed" /\ req'[r].at = "planned" =>
                                   IsRanking(req'[r].plan, planner, req[r].kind)]_vars
  BY <1>1
<1> QED BY <1>2, TypedAlways, PTL DEF Spec, PlansAreRankings
-----------------------------------------------------------------------------
\* The requests whose answer is in a provider's usage, those a tracker is about
\* to count for it, and what both say of usage and trackers.
Missing(r) == req[r].at = "executed" \/ req[r].outcome = "hook"

Charged(n) == {r \in Requests : req[r].by = n /\ ~ Missing(r)}

Counting(t, n) == {r \in Requests : req[r].at = "counting" /\ Tracker(r) = t /\ Candidate(r) = n}

Charges == \A n \in Names : usage[n] = Cardinality(Charged(n))

\* Unless two of them met, at most one request is counting, and from what the
\* tracker still has.
Reported(t, n) ==
    LET answers == Cardinality(Counted(t, n))
    IN  /\ health[t][n].count <= answers
        /\ \A r \in Counting(t, n) : seen[r] <= answers
        /\ <<t, n>> \notin met =>
              /\ health[t][n].count = answers
              /\ \A r \in Counting(t, n) : seen[r] = answers /\ Counting(t, n) \subseteq {r}

Reports == \A t \in 1 .. Len(health), n \in Names : Reported(t, n)

Counts == Charges /\ Reports

\* The answers of a set of requests are a number, and one more with one more.
LEMMA OneMore ==
    ASSUME NEW S, S \subseteq Requests, NEW r \in Requests, r \notin S
    PROVE  Cardinality(S \cup {r}) = Cardinality(S) + 1 /\ Cardinality(S) \in Nat
<1>1. IsFiniteSet(S)
  BY FS_Subset, ClientAssumption DEF ClientAssumption
<1> QED BY <1>1, FS_AddElement, FS_CardinalityType

\* Steps that change nobody's answers.
SameAnswers ==
    /\ \A n \in Names : Charged(n)' = Charged(n)
    /\ \A t \in 1 .. Len(health), n \in Names : Counted(t, n)' = Counted(t, n) /\ Counting(t, n)' \subseteq Counting(t, n)

SameCounts ==
    /\ usage' = usage /\ seen' = seen /\ met' = met /\ Len(health') = Len(health)
    /\ \A t \in 1 .. Len(health), n \in Names : health'[t][n].count = health[t][n].count

\* Counts is kept where the answers, the usage and the records' counts are.
LEMMA CountsKept ==
    ASSUME Counts, SameAnswers, SameCounts
    PROVE  Counts'
<1>1. Charges'
  BY DEF Counts, Charges, SameAnswers, SameCounts
<1>2. ASSUME NEW t \in 1 .. Len(health), NEW n \in Names PROVE Reported(t, n)'
  <2>1. Reported(t, n)
    BY DEF Counts, Reports
  <2>2. /\ Counted(t, n)' = Counted(t, n) /\ Counting(t, n)' \subseteq Counting(t, n)
        /\ health'[t][n].count = health[t][n].count /\ seen' = seen /\ met' = met
    BY DEF SameAnswers, SameCounts
  <2> QED BY <2>1, <2>2 DEF Reported
<1> QED BY <1>1, <1>2 DEF Counts, Reports, SameCounts

\* A request is the same to the counts.
SameTo(s) ==
    /\ req'[s].at = req[s].at /\ req'[s].plan = req[s].plan /\ req'[s].pos = req[s].pos
    /\ req'[s].gen = req[s].gen /\ req'[s].by = req[s].by /\ req'[s].outcome = req[s].outcome

\* What it is a member of stays, as long as its executor keeps its tracker.
LEMMA SameMember ==
    ASSUME Typed, NEW s \in Requests, SameTo(s), \A g \in 1 .. Len(reportsTo) : reportsTo'[g] = reportsTo[g]
    PROVE  \A t, n : /\ s \in Charged(n)' <=> s \in Charged(n)
                     /\ s \in Counted(t, n)' <=> s \in Counted(t, n)
                     /\ s \in Counting(t, n)' <=> s \in Counting(t, n)
<1>1. Tracker(s)' = Tracker(s)
  <2>1. req[s].gen \in 1 .. Len(reportsTo)
    BY RequestNow DEF Typed, EngineTyped
  <2> QED BY <2>1 DEF SameTo, Tracker
<1>2. Candidate(s)' = Candidate(s)
  BY DEF SameTo, Candidate
<1>3. Missing(s)' <=> Missing(s)
  BY DEF SameTo, Missing
<1> QED BY <1>1, <1>2, <1>3 DEF SameTo, Charged, Counted, Counting

\* The answers are the same where no request changes what it says of them.
LEMMA AnswersKept ==
    ASSUME Typed, NEW r \in Requests, NEW at, NEW plan, NEW pos, NEW g, NEW by, NEW outcome,
           Goes(r, at, plan, pos, g, by, outcome), by = req[r].by, at # "counting", reportsTo' = reportsTo,
           \/ by = None
           \/ g = req[r].gen /\ Missing(r) /\ (at = "executed" \/ outcome = "hook")
    PROVE  SameAnswers
<1>1. ASSUME NEW s \in Requests, NEW n \in Names
      PROVE  /\ s \in Charged(n)' <=> s \in Charged(n)
             /\ \A t : s \in Counted(t, n)' <=> s \in Counted(t, n)
             /\ \A t : s \in Counting(t, n)' => s \in Counting(t, n)
  <2>1. CASE s # r
    <3>1. SameTo(s)
      BY <2>1 DEF Goes, SameTo
    <3> QED BY <3>1, SameMember
  <2>2. CASE s = r
    <3>1. \A t : s \notin Counting(t, n)'
      BY <2>2 DEF Goes, Counting
    <3>2. CASE by = None
      <4>1. req[s].by # n /\ req'[s].by # n
        BY <2>2, <3>2, NewsAreTyped DEF Goes
      <4> QED BY <3>1, <4>1 DEF Charged, Counted
    <3>3. CASE g = req[r].gen /\ Missing(r) /\ (at = "executed" \/ outcome = "hook")
      <4>1. req'[s].by = req[s].by /\ req'[s].gen = req[s].gen /\ Missing(s) /\ Missing(s)'
        BY <2>2, <3>3 DEF Goes, Missing
      <4> QED BY <3>1, <4>1 DEF Charged, Counted, Tracker
    <3> QED BY <3>2, <3>3
  <2> QED BY <2>1, <2>2
<1>2. ASSUME NEW n \in Names PROVE Charged(n)' = Charged(n)
  BY <1>1 DEF Charged
<1>3. ASSUME NEW t \in 1 .. Len(health), NEW n \in Names
      PROVE  Counted(t, n)' = Counted(t, n) /\ Counting(t, n)' \subseteq Counting(t, n)
  <2>1. Counted(t, n)' = Counted(t, n)
    BY <1>1 DEF Counted
  <2>2. Counting(t, n)' \subseteq Counting(t, n)
    <3>1. Counting(t, n)' \subseteq Requests
      BY DEF Counting
    <3> QED BY <1>1, <3>1
  <2> QED BY <2>1, <2>2
<1> QED BY <1>2, <1>3 DEF SameAnswers
-----------------------------------------------------------------------------
\* A response is read for its count: by nobody else, or by somebody it met.
LEMMA CountsServed ==
    ASSUME Typed, Counts, NEW r \in Requests, TurnServed(r)
    PROVE  Counts'
<1> DEFINE t == Tracker(r)
           m == Candidate(r)
           o == health[t][m]
           h == AfterServed(o, Latency)
<1>1. /\ req[r].at = "executing" /\ req[r].pos <= Len(req[r].plan)
      /\ reportsTo' = reportsTo /\ usage' = usage
      /\ health' = [health EXCEPT ![t][m] = h] /\ seen' = [seen EXCEPT ![r] = o.count]
      /\ met' = IF Counting(t, m) # {} THEN met \cup {<<t, m>>} ELSE met
  BY DEF TurnServed, Called, AtCandidate, engine, Counting
<1>2. o \in Records /\ h \in Records /\ h.count = o.count
  <2>1. o \in Records
    BY <1>1, AskTyped
  <2> HIDE DEF o
  <2> QED BY <2>1, RecordsKeepType
<1>3. /\ t \in 1 .. Len(health) /\ m \in Names /\ Len(health') = Len(health)
      /\ \A i \in 1 .. Len(health), n \in Names : health'[i][n] = IF i = t /\ n = m THEN h ELSE health[i][n]
  <2> HIDE DEF h
  <2> QED BY <1>1, <1>2, AskTyped, RecordTurned
<1>4. req[r].by = None /\ None \notin Names
  BY <1>1, Unanswered, NewsAreTyped
<1>5. Goes(r, "counting", req[r].plan, req[r].pos, req[r].gen, req[r].by, req[r].outcome)
  BY PlaceGoes DEF TurnServed, Places
<1>6. ASSUME NEW s \in Requests, s # r
      PROVE  \A i, n : /\ s \in Charged(n)' <=> s \in Charged(n)
                       /\ s \in Counted(i, n)' <=> s \in Counted(i, n)
                       /\ s \in Counting(i, n)' <=> s \in Counting(i, n)
  <2>1. SameTo(s)
    BY <1>5, <1>6 DEF Goes, SameTo
  <2> QED BY <1>1, <2>1, SameMember
<1>7. \A i, n : r \in Counting(i, n)' <=> i = t /\ n = m
  <2>1. Tracker(r)' = t /\ Candidate(r)' = m /\ req'[r].at = "counting"
    BY <1>1, <1>5 DEF Goes, Tracker, Candidate
  <2> HIDE DEF t, m
  <2> QED BY <2>1 DEF Counting
<1>8. \A i, n : n \in Names => r \notin Charged(n) /\ r \notin Charged(n)' /\ r \notin Counted(i, n) /\ r \notin Counted(i, n)'
                               /\ r \notin Counting(i, n)
  BY <1>1, <1>4, <1>5 DEF Goes, Charged, Counted, Counting
<1> HIDE DEF t, m, h
<1>9. ASSUME NEW n \in Names PROVE Charged(n)' = Charged(n)
  BY <1>6, <1>8 DEF Charged
<1>10. ASSUME NEW i \in 1 .. Len(health), NEW n \in Names PROVE Reported(i, n)'
  <2>1. Reported(i, n)
    BY DEF Counts, Reports
  <2>2. Counted(i, n)' = Counted(i, n)
    BY <1>6, <1>8 DEF Counted
  <2>3. health'[i][n].count = health[i][n].count
    <3>1. i = t /\ n = m => health[i][n] = o
      BY DEF t, m
    <3> HIDE DEF o
    <3> QED BY <1>2, <1>3, <3>1
  <2>4. \A s \in Requests : s # r => seen'[s] = seen[s]
    BY <1>1 DEF Typed, NumbersTyped
  <2>5. CASE ~ (i = t /\ n = m)
    <3>1. Counting(i, n)' = Counting(i, n)
      BY <1>6, <1>7, <1>8, <2>5 DEF Counting
    <3>2. <<i, n>> \in met' <=> <<i, n>> \in met
      BY <1>1, <2>5
    <3>3. \A s \in Counting(i, n) : seen'[s] = seen[s]
      BY <1>8, <2>4 DEF Counting
    <3> QED BY <2>1, <2>2, <2>3, <3>1, <3>2, <3>3 DEF Reported
  <2>6. CASE i = t /\ n = m
    <3>1. Counting(i, n)' = Counting(i, n) \cup {r}
      <4>1. Counting(i, n)' \subseteq Requests /\ Counting(i, n) \subseteq Requests
        BY DEF Counting
      <4> QED BY <1>6, <1>7, <2>6, <4>1
    <3>2. seen'[r] = health[i][n].count
      BY <1>1, <2>6 DEF Typed, NumbersTyped, t, m
    <3>3. <<i, n>> \notin met' => <<i, n>> \notin met /\ Counting(i, n) = {}
      BY <1>1, <2>6
    <3>4. \A s \in Counting(i, n) : seen'[s] = seen[s]
      BY <1>8, <2>4 DEF Counting
    <3> QED BY <2>1, <2>2, <2>3, <3>1, <3>2, <3>3, <3>4 DEF Reported
  <2> QED BY <2>5, <2>6
<1>11. Charges'
  BY <1>1, <1>9 DEF Counts, Charges
<1> QED BY <1>3, <1>10, <1>11 DEF Counts, Reports

\* A response is counted, from what was read, and not charged yet.
LEMMA CountsCounted ==
    ASSUME Typed, Counts, NEW r \in Requests, CountServed(r)
    PROVE  Counts'
<1> DEFINE t == Tracker(r)
           m == Candidate(r)
           o == health[t][m]
           h == AfterCounted(o, seen[r])
<1>1. /\ req[r].at = "counting" /\ reportsTo' = reportsTo /\ usage' = usage /\ seen' = seen /\ met' = met
      /\ health' = [health EXCEPT ![t][m] = h]
      /\ req' = [req EXCEPT ![r].at = "executed", ![r].by = m]
  BY DEF CountServed, engine, counts
<1>2. req[r].pos <= Len(req[r].plan) /\ req[r].by = None /\ None \notin Names
  BY <1>1, RequestNow, Unanswered, NewsAreTyped DEF Staged
<1>3. o \in Records /\ h \in Records /\ h.count = seen[r] + 1 /\ seen[r] \in Nat
  <2>1. o \in Records /\ seen[r] \in Nat
    BY <1>2, AskTyped DEF Typed, NumbersTyped
  <2> HIDE DEF o
  <2> QED BY <2>1, RecordsKeepType
<1>4. /\ t \in 1 .. Len(health) /\ m \in Names /\ Len(health') = Len(health)
      /\ \A i \in 1 .. Len(health), n \in Names : health'[i][n] = IF i = t /\ n = m THEN h ELSE health[i][n]
  <2> HIDE DEF h
  <2> QED BY <1>1, <1>2, <1>3, AskTyped, RecordTurned
<1>5. Goes(r, "executed", req[r].plan, req[r].pos, req[r].gen, m, req[r].outcome)
  <2> HIDE DEF m
  <2> QED BY <1>1, <1>4, CountGoes
<1>6. ASSUME NEW s \in Requests, s # r
      PROVE  \A i, n : /\ s \in Charged(n)' <=> s \in Charged(n)
                       /\ s \in Counted(i, n)' <=> s \in Counted(i, n)
                       /\ s \in Counting(i, n)' <=> s \in Counting(i, n)
  <2>1. SameTo(s)
    BY <1>5, <1>6 DEF Goes, SameTo
  <2> QED BY <1>1, <2>1, SameMember
<1>7. \A i, n : /\ r \in Counting(i, n) <=> i = t /\ n = m
                /\ r \in Counted(i, n)' <=> i = t /\ n = m
                /\ r \notin Counting(i, n)'
  <2>1. Tracker(r)' = t /\ req'[r].by = m /\ req'[r].at = "executed"
    BY <1>1, <1>5 DEF Goes, Tracker
  <2>2. Tracker(r) = t /\ Candidate(r) = m
    OBVIOUS
  <2> HIDE DEF t, m
  <2> QED BY <1>1, <2>1, <2>2 DEF Counting, Counted
<1>8. \A i, n : n \in Names => r \notin Charged(n) /\ r \notin Charged(n)' /\ r \notin Counted(i, n)
  BY <1>2, <1>5 DEF Goes, Charged, Counted, Missing
<1> HIDE DEF t, m, h
<1>9. ASSUME NEW n \in Names PROVE Charged(n)' = Charged(n)
  BY <1>6, <1>8 DEF Charged
<1>10. ASSUME NEW i \in 1 .. Len(health), NEW n \in Names PROVE Reported(i, n)'
  <2>1. Reported(i, n)
    BY DEF Counts, Reports
  <2>2. CASE ~ (i = t /\ n = m)
    <3>1. Counting(i, n)' = Counting(i, n)
      BY <1>6, <1>7, <2>2 DEF Counting
    <3>2. Counted(i, n)' = Counted(i, n)
      BY <1>6, <1>7, <1>8, <2>2 DEF Counted
    <3>3. health'[i][n] = health[i][n]
      BY <1>4, <2>2
    <3> QED BY <1>1, <2>1, <3>1, <3>2, <3>3 DEF Reported
  <2>3. CASE i = t /\ n = m
    <3> DEFINE answers == Cardinality(Counted(i, n))
    <3>1. Counted(i, n)' = Counted(i, n) \cup {r} /\ Counting(i, n)' = Counting(i, n) \ {r}
      <4>1. /\ Counted(i, n)' \subseteq Requests /\ Counted(i, n) \subseteq Requests
            /\ Counting(i, n)' \subseteq Requests /\ Counting(i, n) \subseteq Requests
        BY DEF Counted, Counting
      <4>2. Counted(i, n)' = Counted(i, n) \cup {r}
        BY <1>6, <1>7, <2>3, <4>1
      <4>3. Counting(i, n)' = Counting(i, n) \ {r}
        BY <1>6, <1>7, <4>1
      <4> QED BY <4>2, <4>3
    <3>2. Cardinality(Counted(i, n)') = answers + 1 /\ answers \in Nat
      <4>1. r \notin Counted(i, n) /\ Counted(i, n) \subseteq Requests
        BY <1>8 DEF Counted
      <4> QED BY <3>1, <4>1, OneMore
    <3>3. health'[i][n].count = seen[r] + 1 /\ r \in Counting(i, n)
      BY <1>3, <1>4, <1>7, <2>3
    <3>4. /\ \A s \in Counting(i, n) : seen[s] <= answers
          /\ <<i, n>> \notin met => \A s \in Counting(i, n) : seen[s] = answers /\ Counting(i, n) \subseteq {s}
      BY <2>1 DEF Reported
    <3> HIDE DEF answers
    <3>5. \A s \in Requests : seen[s] \in Nat
      BY DEF Typed, NumbersTyped
    <3>6. \A s \in Counting(i, n)' : seen'[s] <= answers + 1
      <4>1. ASSUME NEW s \in Counting(i, n) PROVE seen[s] <= answers + 1
        <5>1. seen[s] \in Nat /\ seen[s] <= answers
          BY <3>4, <3>5 DEF Counting
        <5> QED BY <3>2, <5>1
      <4> QED BY <1>1, <3>1, <4>1
    <3>7. health'[i][n].count <= answers + 1
      BY <1>3, <3>2, <3>3, <3>4
    <3>8. <<i, n>> \notin met => health'[i][n].count = answers + 1 /\ Counting(i, n)' = {}
      BY <1>3, <3>1, <3>3, <3>4
    <3> QED BY <1>1, <3>2, <3>6, <3>7, <3>8 DEF Reported
  <2> QED BY <2>2, <2>3
<1>11. Charges'
  BY <1>1, <1>9 DEF Counts, Charges
<1> QED BY <1>4, <1>10, <1>11 DEF Counts, Reports

\* A request that returns is charged.
LEMMA CountsReturned ==
    ASSUME Typed, Counts, NEW r \in Requests, Return(r)
    PROVE  Counts'
<1> DEFINE m == req[r].by
<1>1. /\ req[r].at = "executed" /\ m # None /\ health' = health /\ seen' = seen /\ met' = met
      /\ reportsTo' = reportsTo
      /\ usage' = [usage EXCEPT ![m] = @ + 1]
  BY DEF Return, engine, counts
<1>2. req[r].outcome = None /\ m \in Names
  <2>1. req[r].by \in Names \cup {None} /\ req[r].outcome = None
    BY <1>1, RequestNow, RequestShape DEF Staged
  <2> QED BY <1>1, <2>1
<1>3. Goes(r, "returned", req[r].plan, req[r].pos, req[r].gen, req[r].by, req[r].outcome)
  BY PlaceGoes DEF Return, Places
<1>4. None # "hook"
  BY ClientAssumption DEF ClientAssumption, Outcomes
<1>5. ASSUME NEW s \in Requests, s # r
      PROVE  \A i, n : /\ s \in Charged(n)' <=> s \in Charged(n)
                       /\ s \in Counted(i, n)' <=> s \in Counted(i, n)
                       /\ s \in Counting(i, n)' <=> s \in Counting(i, n)
  <2>1. SameTo(s)
    BY <1>3, <1>5 DEF Goes, SameTo
  <2> QED BY <1>1, <2>1, SameMember
<1>6. ASSUME NEW n \in Names
      PROVE  Charged(n)' = IF n = m THEN Charged(n) \cup {r} ELSE Charged(n)
  <2>1. r \notin Charged(n)
    BY <1>1 DEF Charged, Missing
  <2>2. r \in Charged(n)' <=> n = m
    BY <1>2, <1>3, <1>4 DEF Goes, Charged, Missing
  <2>3. Charged(n) \subseteq Requests /\ Charged(n)' \subseteq Requests
    BY DEF Charged
  <2> QED BY <1>5, <2>1, <2>2, <2>3
<1>7. ASSUME NEW i, NEW n PROVE Counted(i, n)' = Counted(i, n) /\ Counting(i, n)' = Counting(i, n)
  <2>1. /\ r \in Counted(i, n)' <=> r \in Counted(i, n)
        /\ r \notin Counting(i, n)' /\ r \notin Counting(i, n)
    BY <1>1, <1>3 DEF Goes, Counted, Counting, Tracker
  <2>2. Counted(i, n)' = Counted(i, n)
    BY <1>5, <2>1 DEF Counted
  <2>3. Counting(i, n)' = Counting(i, n)
    <3>1. Counting(i, n)' \subseteq Requests /\ Counting(i, n) \subseteq Requests
      BY DEF Counting
    <3> QED BY <1>5, <2>1, <3>1
  <2> QED BY <2>2, <2>3
<1>8. ASSUME NEW n \in Names PROVE usage'[n] = Cardinality(Charged(n)')
  <2>1. usage[n] = Cardinality(Charged(n)) /\ usage \in [Names -> Nat]
    BY DEF Counts, Charges, Typed, NumbersTyped
  <2>2. CASE n = m
    <3>1. r \notin Charged(n) /\ Charged(n) \subseteq Requests
      BY <1>1 DEF Charged, Missing
    <3>2. Cardinality(Charged(n) \cup {r}) = Cardinality(Charged(n)) + 1
      BY <3>1, OneMore
    <3>3. usage'[n] = usage[n] + 1
      BY <1>1, <2>1, <2>2
    <3> QED BY <1>6, <2>1, <2>2, <3>2, <3>3
  <2>3. CASE n # m
    BY <1>1, <1>6, <2>1, <2>3
  <2> QED BY <2>2, <2>3
<1>9. ASSUME NEW i \in 1 .. Len(health), NEW n \in Names PROVE Reported(i, n)'
  <2>1. Reported(i, n)
    BY DEF Counts, Reports
  <2> QED BY <1>1, <1>7, <2>1 DEF Reported
<1> QED BY <1>1, <1>8, <1>9 DEF Counts, Charges, Reports
-----------------------------------------------------------------------------
\* A new tracker has counted nothing, as no request reports to it.
LEMMA CountsTracker ==
    ASSUME Typed, Counts, NEW a \in Additions, NewTracker(a)
    PROVE  Counts'
<1>1. /\ health' = Append(health, FreshHealth) /\ req' = req /\ usage' = usage /\ seen' = seen /\ met' = met
      /\ reportsTo' = reportsTo
  BY DEF NewTracker, counts
<1>2. health \in Seq([Names -> Records]) /\ Len(health) \in Nat /\ Len(health') = Len(health) + 1
  BY <1>1 DEF Typed, EngineTyped
<1>3. /\ \A n : Charged(n)' = Charged(n)
      /\ \A i, n : Counted(i, n)' = Counted(i, n) /\ Counting(i, n)' = Counting(i, n)
  BY <1>1 DEF Charged, Counted, Counting, Missing, Tracker, Candidate
<1>4. ASSUME NEW i \in 1 .. Len(health'), NEW n \in Names PROVE Reported(i, n)'
  <2>1. CASE i \in 1 .. Len(health)
    <3>1. health'[i] = health[i]
      BY <1>1, <1>2, <2>1
    <3>2. Reported(i, n)
      BY <2>1 DEF Counts, Reports
    <3> QED BY <1>1, <1>3, <3>1, <3>2 DEF Reported
  <2>2. CASE i = Len(health) + 1
    <3>1. health'[i] = FreshHealth
      BY <1>1, <1>2, <2>2
    <3>2. Counted(i, n) = {} /\ Counting(i, n) = {}
      <4>1. ASSUME NEW r \in Requests PROVE Tracker(r) # i
        <5>1. Tracker(r) \in 1 .. Len(health)
          BY RequestNow DEF Typed, EngineTyped, Tracker
        <5> QED BY <1>2, <2>2, <5>1
      <4> QED BY <4>1 DEF Counted, Counting
    <3>3. Cardinality({}) = 0
      BY FS_EmptySet
    <3>4. health'[i][n].count = 0 /\ Counted(i, n)' = {} /\ Counting(i, n)' = {}
      BY <1>3, <3>1, <3>2, NewsAreTyped
    <3> QED BY <3>3, <3>4 DEF Reported
  <2> QED BY <1>2, <2>1, <2>2
<1> QED BY <1>1, <1>3, <1>4 DEF Counts, Charges, Reports

\* Whoever comes beside a request takes nobody's answer.
LEMMA CountsBeside ==
    ASSUME Typed, Counts, SameCounts, reportsTo' = reportsTo,
           \A s \in Requests : \/ SameTo(s)
                               \/ /\ req[s].by = None /\ req'[s].by = None
                                  /\ req'[s].at # "counting"
    PROVE  Counts'
<1>1. ASSUME NEW s \in Requests, NEW n \in Names
      PROVE  /\ s \in Charged(n)' <=> s \in Charged(n)
             /\ \A t : s \in Counted(t, n)' <=> s \in Counted(t, n)
             /\ \A t : s \in Counting(t, n)' => s \in Counting(t, n)
  <2>1. CASE SameTo(s)
    BY <2>1, SameMember
  <2>2. CASE req[s].by = None /\ req'[s].by = None /\ req'[s].at # "counting"
    BY <2>2, NewsAreTyped DEF Charged, Counted, Counting
  <2> QED BY <2>1, <2>2
<1>2. ASSUME NEW n \in Names PROVE Charged(n)' = Charged(n)
  BY <1>1 DEF Charged
<1>3. ASSUME NEW t \in 1 .. Len(health), NEW n \in Names
      PROVE  Counted(t, n)' = Counted(t, n) /\ Counting(t, n)' \subseteq Counting(t, n)
  <2>1. Counted(t, n)' = Counted(t, n)
    BY <1>1 DEF Counted
  <2>2. Counting(t, n)' \subseteq Requests
    BY DEF Counting
  <2> QED BY <1>1, <2>1, <2>2
<1>4. SameAnswers
  BY <1>2, <1>3 DEF SameAnswers
<1> QED BY <1>4, CountsKept

\* A request that reads the world has no answer,
LEMMA CountsRead ==
    ASSUME Typed, Counts, NEW r \in Requests, NEW kind \in Kinds, ReadWorld(r, kind)
    PROVE  Counts'
<1>1. SameCounts /\ reportsTo' = reportsTo /\ req[r].at = "idle"
  BY DEF ReadWorld, engine, counts, SameCounts
<1>2. req[r].by = None /\ req'[r].by = None /\ req'[r].at # "counting"
  BY <1>1, Unanswered, ReadGoes
<1>3. \A s \in Requests : s # r => SameTo(s)
  BY ReadGoes DEF Beside, SameTo
<1> QED BY <1>1, <1>2, <1>3, CountsBeside

\* an addition takes none,
LEMMA CountsAdded ==
    ASSUME Typed, Counts, NEW a \in Additions, Add(a)
    PROVE  Counts'
<1>1. CASE \E p \in MoreProviders : AddProvider(a, p)
  <2>1. SameCounts /\ reportsTo' = reportsTo
    BY <1>1 DEF AddProvider, engine, counts, SameCounts
  <2>2. \A s \in Requests : SameTo(s)
    BY <1>1, AddGoes DEF Beside, SameTo
  <2> QED BY <2>1, <2>2, CountsBeside
<1>2. CASE RefuseAddress(a) \/ AddAdapter(a) \/ CopyWorld(a) \/ ReplaceWorld(a) \/ NewPlanner(a)
  <2>1. /\ usage' = usage /\ health' = health /\ req' = req /\ seen' = seen /\ met' = met /\ reportsTo' = reportsTo
    BY <1>2 DEF RefuseAddress, AddAdapter, CopyWorld, ReplaceWorld, NewPlanner, engine, counts
  <2>2. SameCounts /\ \A s \in Requests : SameTo(s)
    BY <2>1 DEF SameCounts, SameTo
  <2> QED BY <2>1, <2>2, CountsBeside
<1>3. CASE NewExecutor(a)
  <2>1. /\ usage' = usage /\ health' = health /\ req' = req /\ seen' = seen /\ met' = met
        /\ reportsTo' = Append(reportsTo, tracker)
    BY <1>3 DEF NewExecutor, counts
  <2>2. \A g \in 1 .. Len(reportsTo) : reportsTo'[g] = reportsTo[g]
    BY <2>1 DEF Typed, EngineTyped
  <2>3. SameCounts /\ \A s \in Requests : SameTo(s)
    BY <2>1 DEF SameCounts, SameTo
  <2>4. ASSUME NEW n PROVE Charged(n)' = Charged(n)
    BY <2>2, <2>3, SameMember DEF Charged
  <2>5. ASSUME NEW t, NEW n PROVE Counted(t, n)' = Counted(t, n) /\ Counting(t, n)' \subseteq Counting(t, n)
    <3>1. Counted(t, n)' = Counted(t, n)
      BY <2>2, <2>3, SameMember DEF Counted
    <3>2. Counting(t, n)' \subseteq Requests
      BY DEF Counting
    <3> QED BY <2>2, <2>3, <3>1, <3>2, SameMember
  <2>6. SameAnswers
    BY <2>4, <2>5 DEF SameAnswers
  <2> QED BY <2>3, <2>6, CountsKept
<1> QED BY <1>1, <1>2, <1>3, CountsTracker DEF Add

\* nor does a step that leaves usage and trackers alone and gives or takes no answer,
LEMMA CountsQuiet ==
    ASSUME Typed, Counts, NEW r \in Requests, NEW at, NEW plan, NEW pos, NEW g, NEW outcome,
           Goes(r, at, plan, pos, g, req[r].by, outcome), req[r].by = None, at # "counting",
           UNCHANGED <<engine, usage, health, counts>>
    PROVE  Counts'
<1>1. SameCounts /\ reportsTo' = reportsTo
  BY DEF SameCounts, engine, counts
<1>2. SameAnswers
  BY <1>1, AnswersKept
<1> QED BY <1>1, <1>2, CountsKept

\* a request that raises after its answer, which is missing before as after,
LEMMA CountsRaised ==
    ASSUME Typed, Counts, NEW r \in Requests, NEW o \in Outcomes, Raise(r, o),
           req[r].by = None \/ (o = "hook" /\ req[r].at = "executed"),
           UNCHANGED <<engine, usage, health, counts>>
    PROVE  Counts'
<1>1. SameCounts /\ reportsTo' = reportsTo
  BY DEF SameCounts, engine, counts
<1>2. Goes(r, "raised", req[r].plan, req[r].pos, req[r].gen, req[r].by, o)
  BY RaiseGoes
<1>3. SameAnswers
  BY <1>1, <1>2, AnswersKept DEF Missing
<1> QED BY <1>1, <1>3, CountsKept

\* or a failure, which changes a record, not its count.
LEMMA CountsFailed ==
    ASSUME Typed, Counts, NEW r \in Requests, NEW c, TurnFailed(r, c)
    PROVE  Counts'
<1> DEFINE t == Tracker(r)
           m == Candidate(r)
           o == health[t][m]
           h == AfterRefused(o, c)
<1>1. /\ req[r].at = "executing" /\ req[r].pos <= Len(req[r].plan)
      /\ reportsTo' = reportsTo /\ usage' = usage /\ seen' = seen /\ met' = met
      /\ health' = [health EXCEPT ![t][m] = h]
  BY DEF TurnFailed, Called, AtCandidate, engine, counts
<1>2. o \in Records /\ h \in Records /\ h.count = o.count
  <2>1. o \in Records
    BY <1>1, AskTyped
  <2> HIDE DEF o
  <2> QED BY <2>1, RecordsKeepType
<1>3. /\ Len(health') = Len(health)
      /\ \A i \in 1 .. Len(health), n \in Names : health'[i][n] = IF i = t /\ n = m THEN h ELSE health[i][n]
  <2> HIDE DEF h
  <2> QED BY <1>1, <1>2, RecordTurned
<1>4. req[r].by = None
  BY <1>1, Unanswered
<1>5. Goes(r, req[r].at, req[r].plan, req[r].pos + 1, req[r].gen, req[r].by, req[r].outcome)
  BY FailGoes DEF TurnFailed
<1>6. SameAnswers
  BY <1>1, <1>4, <1>5, AnswersKept
<1>7. ASSUME NEW i \in 1 .. Len(health), NEW n \in Names PROVE health'[i][n].count = health[i][n].count
  <2>1. i = t /\ n = m => health[i][n] = o
    OBVIOUS
  <2> HIDE DEF t, m, o, h
  <2> QED BY <1>2, <1>3, <2>1
<1> HIDE DEF t, m, o, h
<1> QED BY <1>1, <1>3, <1>6, <1>7, CountsKept DEF SameCounts

\* Counts is kept by every step of a request,
LEMMA CountsMoves ==
    ASSUME Typed, Counts, NEW r \in Requests, Advance(r)
    PROVE  Counts'
<1> DEFINE quiet == UNCHANGED <<engine, usage, health, counts>>
<1>1. CASE HookRaises(r)
  <2>1. Raise(r, "hook") /\ "hook" \in Outcomes /\ req[r].at \in {"installed", "planned", "executed"} /\ quiet
    BY <1>1 DEF HookRaises, Outcomes
  <2>2. req[r].by = None \/ req[r].at = "executed"
    BY <2>1, Unanswered
  <2> QED BY <2>1, <2>2, CountsRaised
<1>2. CASE KeepWorld(r) \/ InstallPlanner(r)
  <2>1. req[r].by = None /\ quiet
    BY <1>2, Unanswered DEF KeepWorld, InstallPlanner
  <2>2. PICK at \in {"kept", "installed"} : req' = [req EXCEPT ![r].at = at]
    BY <1>2 DEF KeepWorld, InstallPlanner
  <2>3. Goes(r, at, req[r].plan, req[r].pos, req[r].gen, req[r].by, req[r].outcome)
    BY <2>2, PlaceGoes DEF Places
  <2> QED BY <2>1, <2>2, <2>3, CountsQuiet
<1>3. CASE MakePlan(r)
  <2> DEFINE plan == Ranked(planner, req[r].kind)
  <2>1. req[r].by = None /\ quiet /\ plan \in Seq(Candidates)
    BY <1>3, Unanswered, PlanTyped DEF MakePlan
  <2>2. \/ \E o \in Outcomes : Raise(r, o)
        \/ req' = [req EXCEPT ![r].at = "planned", ![r].plan = plan]
    BY <1>3 DEF MakePlan, Outcomes
  <2> HIDE DEF plan
  <2>3. CASE req' = [req EXCEPT ![r].at = "planned", ![r].plan = plan]
    <3>1. Goes(r, "planned", plan, req[r].pos, req[r].gen, req[r].by, req[r].outcome)
      BY <2>1, <2>3, PlanGoes
    <3> QED BY <2>1, <3>1, CountsQuiet
  <2> QED BY <2>1, <2>2, <2>3, CountsRaised
<1>4. CASE BeginExecution(r)
  <2>1. req[r].by = None /\ quiet /\ req' = [req EXCEPT ![r].at = "executing", ![r].gen = executor]
    BY <1>4, Unanswered DEF BeginExecution
  <2>2. executor \in Nat \ {0}
    BY DEF Typed, EngineTyped
  <2>3. Goes(r, "executing", req[r].plan, req[r].pos, executor, req[r].by, req[r].outcome)
    BY <2>1, <2>2, BeginGoes
  <2> QED BY <2>1, <2>3, CountsQuiet
<1>5. CASE TurnRefused(r)
  <2>1. req[r].at = "executing" /\ req[r].by = None /\ quiet
    BY <1>5, Unanswered DEF TurnRefused, AtCandidate
  <2>2. Goes(r, req[r].at, req[r].plan, req[r].pos + 1, req[r].gen, req[r].by, req[r].outcome)
    BY <1>5, PassGoes DEF TurnRefused
  <2> QED BY <2>1, <2>2, CountsQuiet
<1>6. CASE TurnAdapterless(r)
  <2>1. req[r].at = "executing" /\ req[r].by = None /\ quiet
    BY <1>6, Unanswered DEF TurnAdapterless, AtCandidate
  <2>2. Goes(r, req[r].at, req[r].plan, req[r].pos + 1, req[r].gen, req[r].by, req[r].outcome)
    BY <1>6, FailGoes DEF TurnAdapterless
  <2> QED BY <2>1, <2>2, CountsQuiet
<1>7. CASE TurnEscapes(r)
  <2>1. req[r].by = None /\ Raise(r, "escaped") /\ "escaped" \in Outcomes /\ quiet
    BY <1>7, Unanswered DEF TurnEscapes, Called, AtCandidate, Outcomes
  <2> QED BY <2>1, CountsRaised
<1>8. CASE Exhaust(r)
  <2>1. req[r].by = None /\ quiet
    BY <1>8, Unanswered DEF Exhaust
  <2>2. Raise(r, "invalid") \/ req' = [req EXCEPT ![r].at = "executed"]
    BY <1>8 DEF Exhaust
  <2>3. CASE req' = [req EXCEPT ![r].at = "executed"]
    <3>1. Goes(r, "executed", req[r].plan, req[r].pos, req[r].gen, req[r].by, req[r].outcome)
      BY <2>3, PlaceGoes DEF Places
    <3> QED BY <2>1, <3>1, CountsQuiet
  <2> QED BY <2>1, <2>2, <2>3, CountsRaised DEF Outcomes
<1>9. CASE Fail(r)
  <2>1. req[r].by = None /\ Raise(r, "failed") /\ "failed" \in Outcomes /\ quiet
    BY <1>9 DEF Fail, Outcomes
  <2> QED BY <2>1, CountsRaised
<1> QED BY <1>1, <1>2, <1>3, <1>4, <1>5, <1>6, <1>7, <1>8, <1>9,
           CountsServed, CountsCounted, CountsFailed, CountsReturned DEF Advance

\* by a step that changes neither requests, usage nor records,
LEMMA CountsOtherwise ==
    ASSUME Typed, Counts, req' = req, UNCHANGED <<engine, usage, health, counts>>
    PROVE  Counts'
<1>1. SameCounts /\ reportsTo' = reportsTo /\ \A s \in Requests : SameTo(s)
  BY DEF SameCounts, SameTo, engine, counts
<1> QED BY <1>1, CountsBeside

\* holds at first,
LEMMA CountsInit == Init => Counts
<1> SUFFICES ASSUME Init PROVE Counts
  OBVIOUS
<1>1. \A r \in Requests : req[r].by = None /\ req[r].at = "idle"
  BY DEF Init, NewRequest
<1>2. /\ \A n \in Names : Charged(n) = {}
      /\ \A t, n : n \in Names => Counted(t, n) = {} /\ Counting(t, n) = {}
  BY <1>1, NewsAreTyped DEF Charged, Counted, Counting
<1>3. health = <<FreshHealth>> /\ usage = [n \in Names |-> 0] /\ met = {}
  BY DEF Init
<1>4. Len(health) = 1 /\ \A n \in Names : health[1][n].count = 0
  BY <1>3, NewsAreTyped
<1>5. Cardinality({}) = 0
  BY FS_EmptySet
<1>6. ASSUME NEW t \in 1 .. Len(health), NEW n \in Names PROVE Reported(t, n)
  <2>1. Counted(t, n) = {} /\ Counting(t, n) = {}
    BY <1>2
  <2>2. health[t][n].count = 0
    BY <1>4
  <2> QED BY <1>5, <2>1, <2>2 DEF Reported
<1>7. Charges
  BY <1>2, <1>3, <1>5 DEF Charges
<1> QED BY <1>6, <1>7 DEF Counts, Reports

\* is inductive,
LEMMA CountsNext == Typed /\ Counts /\ [Next]_vars => Counts'
<1> SUFFICES ASSUME Typed, Counts, [Next]_vars PROVE Counts'
  OBVIOUS
<1>1. CASE UNCHANGED vars
  BY <1>1, CountsOtherwise DEF vars
<1>2. CASE Tick
  BY <1>2, CountsOtherwise DEF Tick
<1> QED BY <1>1, <1>2, CountsAdded, CountsRead, CountsMoves DEF Next

\* and holds throughout.
LEMMA CountsAlways == Spec => []Counts
BY TypedAlways, CountsInit, CountsNext, PTL DEF Spec

\* What a provider answered is in its usage once, whichever executor it answered
\* through and however the requests overlap (LLMClient.execute, usage_store):
\* only the answers on their way and those a fatal extension took are missing.
THEOREM UsageCorrect == Spec => []UsageMatchesAnswers
<1>1. ASSUME Counts, NEW n \in Names
      PROVE  LET answered == {r \in Requests : req[r].by = n}
                 missing == {r \in answered : req[r].at = "executed" \/ req[r].outcome = "hook"}
             IN  usage[n] = Cardinality(answered \ missing)
  <2> DEFINE answered == {r \in Requests : req[r].by = n}
             missing == {r \in answered : req[r].at = "executed" \/ req[r].outcome = "hook"}
  <2>1. answered \ missing = Charged(n)
    BY DEF Charged, Missing
  <2> QED BY <1>1, <2>1 DEF Counts, Charges
<1>2. Counts => UsageMatchesAnswers
  BY <1>1 DEF UsageMatchesAnswers
<1> QED BY <1>2, CountsAlways, PTL

\* No tracker counts more than the answers of the requests whose executor reports
\* to it, and all of them unless two requests counted the provider at the same
\* time: what an executor that add_provider() replaced still reports goes to the
\* tracker it was built with (ExecutionEngine._try_candidate, record_success).
THEOREM TrackersCorrect == Spec => []TrackersKeepApart
<1>1. ASSUME Typed, Counts PROVE TrackersKeepApart
  <2>1. DOMAIN health = 1 .. Len(health)
    BY <1>1 DEF Typed, EngineTyped
  <2> QED BY <1>1, <2>1 DEF Counts, Reports, Reported, TrackersKeepApart
<1> QED BY <1>1, TypedAlways, CountsAlways, PTL
-----------------------------------------------------------------------------
\* What the scores are bounded by: a priority may be any integer, and enters the
\* default policy's score alone.
Weight(policy, provider) == IF policy = "default" THEN 100 * provider.priority ELSE 0

\* A quotient lies between zero and what the dividend allows.
LEMMA Quotients ==
    ASSUME NEW a \in Nat, NEW d \in Nat \ {0}
    PROVE  /\ a \div d \in Nat
           /\ \A b \in Nat : a <= d * b => a \div d <= b
<1> DEFINE q == a \div d
<1>1. q \in Int /\ d * q <= a /\ a < d * (q + 1)
  OBVIOUS
<1> HIDE DEF q
<1>2. q >= 0
  <2>1. q < 0 => d * (q + 1) <= 0
    BY <1>1
  <2> QED BY <1>1, <2>1
<1>3. ASSUME NEW b \in Nat, a <= d * b, q > b PROVE FALSE
  <2>1. d * q >= d * (b + 1)
    BY <1>1, <1>3
  <2>2. d * (b + 1) = d * b + d
    OBVIOUS
  <2> QED BY <1>1, <1>3, <2>1, <2>2
<1>4. q \in Nat /\ \A b \in Nat : a <= d * b => q <= b
  BY <1>1, <1>2, <1>3
<1> QED BY <1>4 DEF q

\* Where a score is without the bonus for the model that is asked for.
LEMMA ScoreBounds ==
    ASSUME NEW request, RequestOK(request), NEW seenWorld \in Worlds,
           NEW pr \in AllProviders, NEW m \in Range(pr.models),
           seenWorld.status[pr.name] # "unhealthy"
    PROVE  /\ request.model \notin m.parts =>
                  Score(request, pr, m, seenWorld) <= 130000 - Weight(request.policy, pr)
           /\ request.model = m.id =>
                  Score(request, pr, m, seenWorld) >= 9970000 - Weight(request.policy, pr)
<1> DEFINE known == seenWorld.latency[pr.name]
           used  == seenWorld.used[pr.name]
           context == m.context
           tokens == request.tokens
           limit == pr.limit
           cost == m.input + m.output
           quality == m.quality
           quick == m.latency
           priority == pr.priority
           named == Named(request.model \in m.parts)
           namedId == Named(request.model = m.id)
<1>1. known \in Nat \cup {Unset} /\ used \in Nat
  BY NewsAreTyped DEF Worlds
<1>2. /\ context \in Nat \ {0} /\ cost \in Nat /\ quality \in 0 .. 1000 /\ quick \in 0 .. 1000
      /\ priority \in Int /\ limit \in (Nat \ {0}) \cup {Unset}
      /\ tokens \in Nat \ {0} /\ m.id \in m.parts
  <2>1. ProviderOK(pr)
    BY ClientAssumption DEF ClientAssumption
  <2>2. ModelOK(m)
    BY <2>1 DEF ProviderOK
  <2>3. /\ context \in Nat \ {0} /\ m.input \in Nat /\ m.output \in Nat
        /\ quality \in 0 .. 1000 /\ quick \in 0 .. 1000 /\ m.id \in m.parts
    BY <2>2, Zenon DEF ModelOK
  <2>6. cost \in Nat
    <3>1. \A i, o \in Nat : i + o \in Nat
      OBVIOUS
    <3> QED BY <2>3, <3>1, Zenon
  <2>4. priority \in Int /\ limit \in (Nat \ {0}) \cup {Unset}
    BY <2>1, Zenon DEF ProviderOK
  <2>5. tokens \in Nat \ {0}
    BY DEF RequestOK
  <2> QED BY <2>3, <2>4, <2>5, <2>6, Zenon
<1>3. quality \in Int /\ 0 <= quality /\ quality <= 1000 /\ quick \in Int /\ 0 <= quick /\ quick <= 1000
  <2>1. quality \in 0 .. 1000 /\ quick \in 0 .. 1000
    BY <1>2, Zenon
  <2> HIDE DEF quality, quick
  <2> QED BY <2>1
<1>4. /\ request.model \notin m.parts => named = 0 /\ namedId = 0
      /\ request.model = m.id => named = 10000000 /\ namedId = 10000000
  BY <1>2 DEF Named, Unit
<1>5. named \in Int /\ namedId \in Int
  BY DEF Named, Unit
<1> HIDE DEF known, used, context, tokens, limit, cost, quality, quick, priority, named, namedId
<1> DEFINE between(x, low, high) == x \in Int /\ low <= x /\ x <= high
<1>6. \E x : /\ between(x, -30000, 90000)
             /\ DefaultScore(request, pr, m, seenWorld) = x + named - 100 * priority
  <2> DEFINE penalty == QuotaPenalty(used)
             wide == Smaller(Unit \div 20, (context * Unit) \div (200 * tokens))
             fast == IF known = Unset THEN 0 ELSE AtLeastZero(1000 - known) * 10
             able == IF request.needs = {} THEN 0 ELSE Unit \div 5
  <2>1. between(penalty, 0, 30000)
    BY <1>1 DEF QuotaPenalty, Smaller, Unit
  <2>2. between(wide, 0, 5000)
    <3> DEFINE a == context * Unit
               b == 200 * tokens
    <3>1. a \in Nat /\ b \in Nat \ {0}
      BY <1>2 DEF Unit
    <3> HIDE DEF a, b
    <3>2. a \div b \in Nat
      BY <3>1, Quotients
    <3> DEFINE q == a \div b
    <3> HIDE DEF q
    <3>3. between(Smaller(Unit \div 20, q), 0, 5000)
      BY <3>2 DEF Smaller, Unit, q
    <3> QED BY <3>3 DEF a, b, q
  <2>3. between(fast, 0, 10000)
    BY <1>1 DEF AtLeastZero
  <2>4. between(able, 0, 20000)
    BY DEF Unit
  <2>5. DefaultScore(request, pr, m, seenWorld)
          = quality * 35 + quick * 20 + able + wide - penalty + fast + named - priority * 100
    <3>1. Unit \div 1000 = 100
      BY DEF Unit
    <3> QED BY <3>1 DEF DefaultScore, known, used, context, tokens, quality, quick, priority, named
  <2> HIDE DEF penalty, wide, fast, able
  <2> DEFINE x == quality * 35 + quick * 20 + able + wide - penalty + fast
  <2>6. between(x, -30000, 90000)
    BY <1>3, <2>1, <2>2, <2>3, <2>4
  <2>7. x + named - 100 * priority
          = quality * 35 + quick * 20 + able + wide - penalty + fast + named - priority * 100
    BY <1>2, <1>3, <1>5, <2>1, <2>2, <2>3, <2>4
  <2> HIDE DEF x
  <2> QED BY <2>5, <2>6, <2>7
<1>7. \E x : between(x, 0, 130000) /\ FastestScore(request, pr, m, seenWorld) = x + namedId
  <2> DEFINE fast == IF known = Unset THEN 0 ELSE AtLeastZero(1000 - known) * 30
             x == quick * 100 + fast
  <2>1. between(fast, 0, 30000)
    BY <1>1 DEF AtLeastZero
  <2>2. FastestScore(request, pr, m, seenWorld) = x + namedId
    BY DEF FastestScore, known, quick, namedId
  <2> HIDE DEF fast
  <2>3. between(x, 0, 130000)
    BY <1>3, <2>1
  <2> HIDE DEF x
  <2> QED BY <2>2, <2>3
<1>8. \E x : between(x, 0, 100000) /\ CheapestScore(request, pr, m, seenWorld) = x + namedId
  <2> DEFINE d == 1000 + cost
             x == (1000 * Unit) \div d
  <2>1. CheapestScore(request, pr, m, seenWorld) = x + namedId
    BY DEF CheapestScore, cost, namedId
  <2>2. d \in Nat \ {0} /\ 100000000 <= d * 100000
    BY <1>2
  <2>3. 1000 * Unit = 100000000
    BY DEF Unit
  <2> HIDE DEF d
  <2>4. between(100000000 \div d, 0, 100000)
    <3>1. 100000000 \in Nat /\ 100000 \in Nat
      OBVIOUS
    <3>2. 100000000 \div d \in Nat /\ 100000000 \div d <= 100000
      BY <2>2, <3>1, Quotients
    <3> QED BY <3>2
  <2>5. between(x, 0, 100000)
    BY <2>3, <2>4
  <2> HIDE DEF x
  <2> QED BY <2>1, <2>5
<1>9. \E x : between(x, 0, 100000) /\ QualityScore(request, pr, m, seenWorld) = x + namedId
  <2> DEFINE x == quality * 100
  <2>1. between(x, 0, 100000) /\ QualityScore(request, pr, m, seenWorld) = x + namedId
    BY <1>3 DEF QualityScore, quality, namedId
  <2> HIDE DEF x
  <2> QED BY <2>1
<1>10. \E x : between(x, 0, 100000) /\ BestFreeScore(request, pr, m, seenWorld) = x + named
  <2> DEFINE status == seenWorld.status[pr.name]
             left == IF limit = Unset \/ used = 0 THEN Unit ELSE (AtLeastZero(limit - used) * Unit) \div limit
             fast == IF known \in {Unset, 0} THEN quick * 20 ELSE AtLeastZero(2000 - known) * 10
             sound == IF status = "degraded" THEN (Unit * 105) \div 1000 ELSE (Unit * 35) \div 100
             share == (left * 30) \div 100
  <2>1. between(left, 0, 100000)
    <3>1. CASE limit = Unset \/ used = 0
      BY <3>1 DEF Unit
    <3>2. CASE ~ (limit = Unset \/ used = 0)
      <4>1. limit \in Nat \ {0}
        BY <1>2, <3>2
      <4> DEFINE a == AtLeastZero(limit - used) * Unit
      <4>2. a \in Nat /\ a <= limit * 100000
        BY <1>1, <4>1 DEF AtLeastZero, Unit
      <4> HIDE DEF a
      <4>3. a \div limit \in Nat /\ a \div limit <= 100000
        <5>1. 100000 \in Nat
          OBVIOUS
        <5> QED BY <4>1, <4>2, <5>1, Quotients
      <4>4. left = a \div limit
        BY <3>2 DEF a
      <4> HIDE DEF left
      <4> QED BY <4>3, <4>4
    <3> QED BY <3>1, <3>2
  <2>2. between(fast, 0, 20000)
    BY <1>1, <1>3 DEF AtLeastZero
  <2>3. between(sound, 0, 35000)
    BY DEF Unit
  <2>4. BestFreeScore(request, pr, m, seenWorld) = sound + share + fast + quality * 15 + named
    BY DEF BestFreeScore, known, used, limit, quick, quality, named
  <2> HIDE DEF left, fast, sound, status
  <2>5. between(share, 0, 30000)
    BY <2>1
  <2> HIDE DEF share
  <2> DEFINE x == sound + share + fast + quality * 15
  <2>6. between(x, 0, 100000)
    BY <1>3, <2>2, <2>3, <2>5
  <2>7. x + named = sound + share + fast + quality * 15 + named
    OBVIOUS
  <2> HIDE DEF x
  <2> QED BY <2>4, <2>6, <2>7
<1> DEFINE policy == request.policy
           score == Score(request, pr, m, seenWorld)
<1>11. policy \in Policies
  BY DEF RequestOK
<1>12. /\ policy = "default" => score = DefaultScore(request, pr, m, seenWorld)
       /\ policy = "best_free" => score = BestFreeScore(request, pr, m, seenWorld)
       /\ policy = "fastest" => score = FastestScore(request, pr, m, seenWorld)
       /\ policy = "cheapest" => score = CheapestScore(request, pr, m, seenWorld)
       /\ policy = "quality" => score = QualityScore(request, pr, m, seenWorld)
  BY DEF Score
<1>13. Weight(policy, pr) = IF policy = "default" THEN 100 * priority ELSE 0
  BY DEF Weight, priority
<1> DEFINE weight == Weight(policy, pr)
           bounded == \E x : /\ between(x, -30000, 130000)
                             /\ (score = x + named - weight \/ score = x + namedId - weight)
<1> HIDE DEF score, weight, policy
<1>14. bounded
  <2>1. CASE policy = "default"
    <3>1. score = DefaultScore(request, pr, m, seenWorld) /\ weight = 100 * priority
      BY <1>12, <1>13, <2>1 DEF weight
    <3>2. PICK x : between(x, -30000, 90000) /\ DefaultScore(request, pr, m, seenWorld) = x + named - 100 * priority
      BY <1>6
    <3>3. between(x, -30000, 130000) /\ score = x + named - weight
      BY <3>1, <3>2
    <3> QED BY <3>3
  <2>2. CASE policy = "best_free"
    <3>1. score = BestFreeScore(request, pr, m, seenWorld) /\ weight = 0
      BY <1>12, <1>13, <2>2 DEF weight
    <3>2. PICK x : between(x, 0, 100000) /\ BestFreeScore(request, pr, m, seenWorld) = x + named
      BY <1>10
    <3>3. between(x, -30000, 130000) /\ score = x + named - weight
      BY <1>5, <3>1, <3>2
    <3> QED BY <3>3
  <2>3. CASE policy = "fastest"
    <3>1. score = FastestScore(request, pr, m, seenWorld) /\ weight = 0
      BY <1>12, <1>13, <2>3 DEF weight
    <3>2. PICK x : between(x, 0, 130000) /\ FastestScore(request, pr, m, seenWorld) = x + namedId
      BY <1>7
    <3>3. between(x, -30000, 130000) /\ score = x + namedId - weight
      BY <1>5, <3>1, <3>2
    <3> QED BY <3>3
  <2>4. CASE policy = "cheapest"
    <3>1. score = CheapestScore(request, pr, m, seenWorld) /\ weight = 0
      BY <1>12, <1>13, <2>4 DEF weight
    <3>2. PICK x : between(x, 0, 100000) /\ CheapestScore(request, pr, m, seenWorld) = x + namedId
      BY <1>8
    <3>3. between(x, -30000, 130000) /\ score = x + namedId - weight
      BY <1>5, <3>1, <3>2
    <3> QED BY <3>3
  <2>5. CASE policy = "quality"
    <3>1. score = QualityScore(request, pr, m, seenWorld) /\ weight = 0
      BY <1>12, <1>13, <2>5 DEF weight
    <3>2. PICK x : between(x, 0, 100000) /\ QualityScore(request, pr, m, seenWorld) = x + namedId
      BY <1>9
    <3>3. between(x, -30000, 130000) /\ score = x + namedId - weight
      BY <1>5, <3>1, <3>2
    <3> QED BY <3>3
  <2> HIDE DEF bounded
  <2> QED BY <1>11, <2>1, <2>2, <2>3, <2>4, <2>5 DEF Policies
<1>15. weight \in Int
  BY <1>2, <1>13 DEF weight
<1>16. /\ request.model \notin m.parts => score <= 130000 - weight
       /\ request.model = m.id => score >= 9970000 - weight
  <2>1. PICK x : between(x, -30000, 130000) /\ (score = x + named - weight \/ score = x + namedId - weight)
    BY <1>14
  <2>2. x \in Int /\ -30000 <= x /\ x <= 130000
    BY <2>1
  <2>3. request.model \notin m.parts => score = x - weight
    BY <1>4, <1>15, <2>1, <2>2
  <2>4. request.model = m.id => score = x + 10000000 - weight
    BY <1>4, <1>15, <2>1, <2>2
  <2> QED BY <1>15, <2>2, <2>3, <2>4
<1> QED BY <1>16 DEF score, weight, policy
-----------------------------------------------------------------------------
\* No two priorities are so far apart that the default policy's discount for the
\* one outweighs the bonus for a model that is asked for.
PrioritiesModest == \A p, q \in AllProviders : p.priority - q.priority < 98400

\* A named model outscores one whose id does not contain the name.
LEMMA NamedFirst ==
    ASSUME PrioritiesModest, NEW seenWorld \in Worlds, NEW request, RequestOK(request)
    PROVE  FirstIsAsked(Ranked(seenWorld, request), seenWorld, request.model)
<1> DEFINE plan == Ranked(seenWorld, request)
           of(pair) == CandidateOf(pair, request, seenWorld)
           asked == request.model
<1> SUFFICES ASSUME NEW c \in Range(plan), c.model = asked
             PROVE  \E pair \in Range(Pairs(seenWorld)) :
                        /\ pair.provider.name = plan[1].provider /\ pair.model.id = plan[1].model
                        /\ asked \in pair.model.parts
  BY DEF FirstIsAsked
<1>1. /\ plan \in Seq(Candidates)
      /\ Range(plan) = {of(pair) : pair \in Able(seenWorld, request)}
      /\ \A k, l \in DOMAIN plan : k < l => ~ Precedes(plan[l], plan[k])
  BY RankedElements
<1> HIDE DEF plan, of
<1>2. PICK l \in DOMAIN plan : c = plan[l]
  BY DEF Range
<1>3. l \in Nat /\ l >= 1 /\ 1 \in DOMAIN plan
  <2>1. DOMAIN plan = 1 .. Len(plan) /\ Len(plan) \in Nat
    BY <1>1
  <2> QED BY <1>2, <2>1
<1>4. plan[1] \in Range(plan)
  BY <1>3 DEF Range
<1>5. PICK first \in Able(seenWorld, request) : plan[1] = of(first)
  BY <1>1, <1>4
<1>6. PICK named \in Able(seenWorld, request) : c = of(named)
  BY <1>1
<1>7. \A pair \in Able(seenWorld, request) :
          /\ pair \in Range(Pairs(seenWorld)) /\ seenWorld.status[pair.provider.name] # "unhealthy"
          /\ pair.provider \in AllProviders /\ pair.model \in Range(pair.provider.models)
  <2> TAKE pair \in Able(seenWorld, request)
  <2>1. pair \in Range(Pairs(seenWorld)) /\ Satisfies(pair, request, seenWorld)
    BY DEF Able
  <2>2. pair \in Offers
    <3>1. Pairs(seenWorld) \in Seq(Offers)
      BY PairsElements
    <3> QED BY <2>1, <3>1 DEF Range
  <2> QED BY <2>1, <2>2 DEF Offers, Satisfies
<1>8. \A pair : /\ of(pair).provider = pair.provider.name /\ of(pair).model = pair.model.id
                /\ of(pair).score = Score(request, pair.provider, pair.model, seenWorld)
  BY DEF of, CandidateOf
<1>9. asked \in first.model.parts
  <2> SUFFICES ASSUME asked \notin first.model.parts PROVE FALSE
    OBVIOUS
  <2> DEFINE policy == request.policy
             low == plan[1].score
             high == plan[l].score
             lowWeight == Weight(policy, first.provider)
             highWeight == Weight(policy, named.provider)
  <2>1. low <= 130000 - lowWeight
    <3>1. Score(request, first.provider, first.model, seenWorld) <= 130000 - lowWeight
      BY <1>7, ScoreBounds
    <3> QED BY <1>5, <1>8, <3>1
  <2>2. high >= 9970000 - highWeight
    <3>1. named.model.id = asked
      BY <1>6, <1>8
    <3>2. Score(request, named.provider, named.model, seenWorld) >= 9970000 - highWeight
      BY <1>7, <3>1, ScoreBounds
    <3> QED BY <1>2, <1>6, <1>8, <3>2
  <2>3. low \in Int /\ high \in Int
    <3>1. \A pair \in Able(seenWorld, request) : Score(request, pair.provider, pair.model, seenWorld) \in Int
      BY <1>7, ScoreIsNumber
    <3> QED BY <1>2, <1>5, <1>6, <1>8, <3>1
  <2>4. lowWeight \in Int /\ highWeight \in Int /\ highWeight - lowWeight < 9840000
    <3>1. first.provider \in AllProviders /\ named.provider \in AllProviders
      BY <1>7
    <3> DEFINE p == named.provider.priority
               q == first.provider.priority
    <3>2. p \in Int /\ q \in Int
      BY <3>1, ClientAssumption DEF ClientAssumption, ProviderOK
    <3>3. p - q < 98400
      BY <3>1 DEF PrioritiesModest
    <3>4. /\ lowWeight = IF policy = "default" THEN 100 * q ELSE 0
          /\ highWeight = IF policy = "default" THEN 100 * p ELSE 0
      BY DEF Weight
    <3> HIDE DEF p, q, lowWeight, highWeight, policy
    <3> QED BY <3>2, <3>3, <3>4
  <2> HIDE DEF low, high, lowWeight, highWeight
  <2>5. high > low
    BY <2>1, <2>2, <2>3, <2>4
  <2>6. Precedes(plan[l], plan[1])
    BY <2>5 DEF Precedes, low, high
  <2>7. l # 1
    BY <2>5, <2>3 DEF low, high
  <2> QED BY <1>1, <1>2, <1>3, <2>6, <2>7
<1> QED BY <1>5, <1>7, <1>8, <1>9

\* Under every policy the first candidate has the name that is asked for, if a
\* model of that name can serve the request (the policies' score functions); the
\* default policy needs priorities that are no further apart than the bonus.
THEOREM NamedModelFirst == PrioritiesModest => (Spec => []RequestedModelFirst)
<1>1. ASSUME PrioritiesModest, Typed PROVE RequestedModelFirst
  <2> SUFFICES ASSUME NEW r \in Requests, req[r].at = "installed", NEW policy \in Policies, NEW asked \in Asked
               PROVE  FirstIsAsked(Ranked(planner, AskingFor(req[r].kind, policy, asked)), planner, asked)
    BY DEF RequestedModelFirst
  <2> DEFINE request == AskingFor(req[r].kind, policy, asked)
  <2>1. planner \in Worlds /\ RequestOK(req[r].kind)
    BY <1>1, PlanTyped
  <2>2. RequestOK(request) /\ request.model = asked
    BY <2>1 DEF RequestOK, AskingFor
  <2> HIDE DEF request
  <2>3. FirstIsAsked(Ranked(planner, request), planner, request.model)
    BY <1>1, <2>1, <2>2, NamedFirst
  <2> QED BY <2>2, <2>3 DEF request
<1>2. CASE PrioritiesModest
  <2>1. Typed => RequestedModelFirst
    BY <1>1, <1>2
  <2>2. Spec => []RequestedModelFirst
    BY <2>1, TypedAlways, PTL
  <2> QED BY <2>2
<1> QED BY <1>2
=============================================================================
