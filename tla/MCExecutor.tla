----------------------------- MODULE MCExecutor -----------------------------
(* Plans and exchanges for checking Executor with the errors its adapter makes. *)
EXTENDS Executor, Adapter

C(p, m) == [provider |-> p, model |-> m]

\* Fallback to another provider; two models of one provider, then another one;
\* a candidate whose provider has no adapter in front.
MCPlans == { << C("p1", "m1"), C("p2", "m1") >>,
             << C("p1", "m1"), C("p1", "m2") >>,
             << C("p3", "m1"), C("p1", "m1") >> }

\* A limited provider, whose error is retried, and a body that is not JSON, whose
\* error is not although its category is one that is.
MCErrors == { Result([status |-> 429, end |-> "not_json"]),
              Result([status |-> 200, end |-> "not_json"]) }
=============================================================================
