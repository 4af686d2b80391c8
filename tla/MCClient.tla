------------------------------ MODULE MCClient ------------------------------
(* Providers, models and requests for checking Client. *)
EXTENDS Client, TLC

\* The id of model 1 contains that of model 2.
Model(id, caps, context, quality, latency, input, output) ==
    [id |-> id, parts |-> id .. 2, caps |-> caps, context |-> context,
     quality |-> quality, latency |-> latency,
     input |-> input, output |-> output]
Provider(name, caps, priority, limit, models) ==
    [name |-> name, caps |-> caps, priority |-> priority, limit |-> limit, models |-> models]

\* Provider 1 has two models, one of them small but better and dearer; provider 2
\* lacks a capability the first one's models have, is fast, and has no limit.
One == Provider(1, {}, 1, 2, << Model(1, {"tools"}, 8, 500, 500, 0, 300),
                                Model(2, {"tools"}, 4, 900, 300, 200, 0) >>)
Two == Provider(2, {}, 0, Unset, << Model(1, {}, 8, 500, 900, 0, 0) >>)

MCFirst == << One, Two >>
MCOnlyOne == << One >>
\* The same, given without a base_url.
Bare == [Two EXCEPT !.priority = 1]
\* The first one may be given again.
MCMore == { One, Two, Bare }
MCNoAddress == { Bare }

Plain == [needs |-> {}, tokens |-> 2, model |-> Unset, policy |-> "default"]
Tools == [needs |-> {"tools"}, tokens |-> 6, model |-> 1, policy |-> "best_free"]

MCKinds == { Plain, Tools }
MCPlain == { Plain }

\* The requests only differ in name.
Interchangeable == Permutations(Requests)
=============================================================================
