------------------------------ MODULE Planner ------------------------------
(***************************************************************************)
(* The planner (planner.Planner.plan) as a function of a world and a       *)
(* request.  A world is the WorldState the planner was built with: the     *)
(* providers in order, and by name what Routing reads of them.  Provider   *)
(* names and model ids are numbers, which stand for their place in the     *)
(* alphabet.                                                               *)
(***************************************************************************)
EXTENDS Routing, Lists

\* The (provider, model) pairs in the order of the two nested loops.
Pairs(world) ==
    FlattenSeq([i \in DOMAIN world.providers |->
        [j \in DOMAIN world.providers[i].models |->
            [provider |-> world.providers[i], model |-> world.providers[i].models[j]]]])

\* Mutant of Capable: what the model adds to its provider's capabilities is forgotten.
CapableByProvider(pair, request) == request.needs \subseteq pair.provider.caps

\* _evaluate(): capabilities, then the context window, then health.
Capable(pair, request) == request.needs \subseteq pair.provider.caps \cup pair.model.caps
Fits(pair, request) == request.tokens <= pair.model.context

\* Mutant of Satisfies: the health filter is forgotten.
SatisfiesIgnoringHealth(pair, request, world) == Capable(pair, request) /\ Fits(pair, request)

Satisfies(pair, request, world) ==
    /\ Capable(pair, request)
    /\ Fits(pair, request)
    /\ world.status[pair.provider.name] # "unhealthy"

\* Mutant of Precedes: the lowest score first.
PrecedesAscending(c, d) == c.score < d.score

\* The sort key (-score, provider, model).
Precedes(c, d) ==
    \/ c.score > d.score
    \/ c.score = d.score /\ c.provider < d.provider
    \/ c.score = d.score /\ c.provider = d.provider /\ c.model < d.model

\* The candidates of the plan, best first.
Ranked(world, request) ==
    LET able == Picked(Pairs(world), {pair \in Range(Pairs(world)) : Satisfies(pair, request, world)})
        candidates == [k \in DOMAIN able |->
                          [provider |-> able[k].provider.name,
                           model    |-> able[k].model.id,
                           score    |-> Score(request, able[k].provider, able[k].model, world)]]
            all == Range(candidates)
    IN  Sorted(candidates, {two \in all \X all : Precedes(two[1], two[2])})

\* ExecutionPlan rejects a plan that names a (provider, model) twice.
HasDuplicate(candidates) ==
    \E i, j \in DOMAIN candidates :
        i < j /\ candidates[i].provider = candidates[j].provider
              /\ candidates[i].model = candidates[j].model
=============================================================================
