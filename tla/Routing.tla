------------------------------- MODULE Routing -------------------------------
(***************************************************************************)
(* The routing policies (planner.*Policy.score) as functions of a request, *)
(* a provider, one of its models and a world.  The code computes in        *)
(* floats; here one is Unit, the given scores (quality, latency), costs    *)
(* and delays are in thousandths, and quotients are rounded down.          *)
(*                                                                         *)
(* A request has tokens, needs, model (Unset, or a name) and policy.  A     *)
(* provider has name, caps, priority, limit (Unset, or requests a day) and  *)
(* models; a model has id, caps, context, quality, latency, the costs of   *)
(* its input and output, and parts, the names its id contains, itself      *)
(* included.  A world gives each provider name its status, the requests    *)
(* used and its average latency.                                           *)
(* A limit that is not positive counts for nothing and is Unset as well.   *)
(***************************************************************************)
EXTENDS Integers, Sequences, Functions

CONSTANT Unset   \* no model asked for, no limit, no latency known

\* What the validators of ModelMetadata and ProviderMetadata let through; a
\* priority may be any number.
ModelOK(model) ==
    /\ model.id \in Nat /\ model.id \in model.parts
    /\ model.context \in Nat \ {0} /\ model.input \in Nat /\ model.output \in Nat
    /\ model.quality \in 0 .. 1000 /\ model.latency \in 0 .. 1000

ProviderOK(provider) ==
    /\ provider.name \in Nat /\ provider.priority \in Int
    /\ provider.limit \in (Nat \ {0}) \cup {Unset}
    /\ provider.models \in Seq(Range(provider.models)) /\ provider.models # <<>>
    /\ \A model \in Range(provider.models) : ModelOK(model)

Unit == 100000
Smaller(a, b) == IF a < b THEN a ELSE b
AtLeastZero(a) == IF a < 0 THEN 0 ELSE a

\* What naming the model is worth: more than everything else together.
Named(asked) == IF asked THEN 100 * Unit ELSE 0

QuotaPenalty(used) == Smaller((Unit * 3) \div 10, used * (Unit \div 100))

\* Mutant of DefaultScore: naming the model is a bonus among others, and a small one.
DefaultScoreNamingLittle(request, provider, model, world) ==
    model.quality * 35 + model.latency * 20 + (IF request.model \in model.parts THEN Unit \div 100 ELSE 0)

\* The planner has filtered: all the needs of a candidate are met.
DefaultScore(request, provider, model, world) ==
    LET known == world.latency[provider.name]
    IN  model.quality * 35
        + model.latency * 20
        + (IF request.needs = {} THEN 0 ELSE Unit \div 5)
        + Smaller(Unit \div 20, (model.context * Unit) \div (200 * request.tokens))
        - QuotaPenalty(world.used[provider.name])
        + (IF known = Unset THEN 0 ELSE AtLeastZero(1000 - known) * 10)
        + Named(request.model \in model.parts)
        - provider.priority * (Unit \div 1000)

FastestScore(request, provider, model, world) ==
    LET known == world.latency[provider.name]
    IN  model.latency * 100
        + (IF known = Unset THEN 0 ELSE AtLeastZero(1000 - known) * 30)
        + Named(request.model = model.id)

CheapestScore(request, provider, model, world) ==
    (1000 * Unit) \div (1000 + (model.input + model.output)) + Named(request.model = model.id)

QualityScore(request, provider, model, world) == model.quality * 100 + Named(request.model = model.id)

\* Quota left counts for a provider with a limit; a known latency replaces the
\* model's own score, unless it is zero.
BestFreeScore(request, provider, model, world) ==
    LET status == world.status[provider.name]
        used   == world.used[provider.name]
        known  == world.latency[provider.name]
        left   == IF provider.limit = Unset \/ used = 0 THEN Unit
                  ELSE (AtLeastZero(provider.limit - used) * Unit) \div provider.limit
    IN  IF status = "unhealthy" THEN -Unit
        ELSE (IF status = "degraded" THEN (Unit * 105) \div 1000 ELSE (Unit * 35) \div 100)
             + (left * 30) \div 100
             + (IF known \in {Unset, 0} THEN model.latency * 20 ELSE AtLeastZero(2000 - known) * 10)
             + model.quality * 15
             + Named(request.model \in model.parts)

\* POLICY_REGISTRY; "best" is another name of "best_free".
Policies == {"default", "best_free", "fastest", "cheapest", "quality"}

\* An estimate of tokens is never below one.
RequestOK(request) == request.tokens \in Nat \ {0} /\ request.policy \in Policies

Score(request, provider, model, world) ==
    CASE request.policy = "default"   -> DefaultScore(request, provider, model, world)
      [] request.policy = "best_free" -> BestFreeScore(request, provider, model, world)
      [] request.policy = "fastest"   -> FastestScore(request, provider, model, world)
      [] request.policy = "cheapest"  -> CheapestScore(request, provider, model, world)
      [] request.policy = "quality"   -> QualityScore(request, provider, model, world)
=============================================================================
