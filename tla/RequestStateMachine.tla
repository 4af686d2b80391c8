------------------------ MODULE RequestStateMachine ------------------------
(***************************************************************************)
(* The life of a request as core.state_machine tabulates it.  Nothing in   *)
(* the client or the runtime holds a RequestStateMachine object: the       *)
(* module is the specification their requests are compared with (see       *)
(* Executor and Client), and the table is the whole of it.                 *)
(***************************************************************************)
CONSTANT Requests

VARIABLE state   \* the RequestState of each request

TerminalStates == {"completed", "failed", "cancelled", "timed_out"}

AllowedTransitions ==
    [pending   |-> {"planned", "cancelled"},
     planned   |-> {"executing", "cancelled", "failed"},
     executing |-> {"streaming"} \cup TerminalStates,
     streaming |-> TerminalStates,
     completed |-> {}, failed |-> {}, cancelled |-> {}, timed_out |-> {}]

Init == state = [r \in Requests |-> "pending"]

CanTransitionTo(r, target) ==
    /\ state[r] \notin TerminalStates
    /\ target \in AllowedTransitions[state[r]]

TransitionTo(r, target) ==
    /\ CanTransitionTo(r, target)
    /\ state' = [state EXCEPT ![r] = target]

Next == \E r \in Requests : \E target \in DOMAIN AllowedTransitions : TransitionTo(r, target)

Spec == Init /\ [][Next]_state
=============================================================================
