------------------------------ MODULE Fallback ------------------------------
(***************************************************************************)
(* What the executor promises of a request, with the breakers, the retries *)
(* and the health records left out: the candidates of its plan are taken   *)
(* in order, each is either given up for good or ends the request with its *)
(* response, and the request fails only when all of them are given up.     *)
(***************************************************************************)
EXTENDS Sequences

CONSTANTS Requests, Plans

VARIABLES
    left,      \* the candidates not given up yet, the one at hand first
    verdict    \* "waiting", "running", "completed", "failed" or "crashed"

Init ==
    /\ left = [r \in Requests |-> <<>>]
    /\ verdict = [r \in Requests |-> "waiting"]

Begin(r) ==
    /\ verdict[r] = "waiting"
    /\ \E plan \in Plans : left' = [left EXCEPT ![r] = plan]
    /\ verdict' = [verdict EXCEPT ![r] = "running"]

Drop(r) ==
    /\ verdict[r] = "running" /\ left[r] # <<>>
    /\ left' = [left EXCEPT ![r] = Tail(@)]
    /\ UNCHANGED verdict

\* The candidate at hand answered: it stays the first one left.
Complete(r) ==
    /\ verdict[r] = "running" /\ left[r] # <<>>
    /\ verdict' = [verdict EXCEPT ![r] = "completed"]
    /\ UNCHANGED left

Fail(r) ==
    /\ verdict[r] = "running" /\ left[r] = <<>>
    /\ verdict' = [verdict EXCEPT ![r] = "failed"]
    /\ UNCHANGED left

\* An exception the executor does not handle, raised by the candidate at hand.
Crash(r) ==
    /\ verdict[r] = "running" /\ left[r] # <<>>
    /\ verdict' = [verdict EXCEPT ![r] = "crashed"]
    /\ UNCHANGED left

Next == \E r \in Requests : Begin(r) \/ Drop(r) \/ Complete(r) \/ Fail(r) \/ Crash(r)

Spec == Init /\ [][Next]_<<left, verdict>>
=============================================================================
