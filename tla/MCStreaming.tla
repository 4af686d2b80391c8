----------------------------- MODULE MCStreaming -----------------------------
(* Plans for checking Streaming. *)
EXTENDS Streaming

MCPlans == { <<>>, <<"p3">>, <<"p1", "p2">>, <<"p1", "p3", "p2">>, <<"p1", "p1", "p2">> }
=============================================================================
