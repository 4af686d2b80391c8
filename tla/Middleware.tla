----------------------------- MODULE Middleware -----------------------------
(***************************************************************************)
(* The middleware chain (extensions.MiddlewareChain) under the requests    *)
(* that walk it and the callers that change it meanwhile.  Each hook of    *)
(* client.execute() walks the list object the chain has when the walk      *)
(* begins: add() appends to that object, so a walk under way meets the new *)
(* extension; remove() gives the chain another one, so it does not miss    *)
(* the old.  lists holds every list object there ever was.  What an        *)
(* extension makes of a request or response is not modelled, only that it  *)
(* was called, and whether it raised.                                      *)
(***************************************************************************)
EXTENDS Integers, Lists

CONSTANTS
    Requests, Callers, Extensions,
    Initial,       \* the extensions the chain is made with
    MaxChanges,    \* bound: the calls of add() and remove()
    None

ASSUME MiddlewareAssumption ==
    /\ Initial \in Seq(Extensions)
    /\ MaxChanges \in Nat
    /\ None \notin Extensions

VARIABLES
    lists,     \* the list objects, oldest first
    chain,     \* which of them is self._extensions
    fatal,     \* self._fatal
    op,        \* how far each caller is with add() or remove(), and of a fatal extension or not
    req,       \* how far each request is
    changes,
    member,    \* history: extensions added (or there from the start) and not removed since
    strict,    \* history: those among them added as fatal
    mixed      \* history: extensions whose calls of add() and remove() overlapped

book == <<changes, member, strict, mixed>>
vars == <<lists, chain, fatal, op, req, book>>

\* client.execute() calls them in this order.
Hooks == <<"on_request", "on_plan", "on_execution_start", "on_execution_end", "on_response">>

\* Extensions on their way into the fatal set, or out of it.
InDoubt == {op[c].ext : c \in {d \in Callers : op[d].fatal}}

\* The walk of one hook: list and pos are its iterator; the rest is history:
\* the list it began with, the extensions added to the chain since, those that
\* were on it throughout, those strict throughout or at some time, those
\* called, and those among them that raised and were passed over.
Walk(list, exts) ==
    [list |-> list, pos |-> 1, first |-> exts, joined |-> <<>>, stayed |-> Range(exts),
     firm |-> strict, everStrict |-> strict \cup InDoubt, called |-> <<>>, swallowed |-> {}]

Idle == [at |-> "idle", ext |-> None, fatal |-> FALSE, list |-> 1]

Init ==
    /\ lists = <<Initial>> /\ chain = 1 /\ fatal = {}
    /\ op = [c \in Callers |-> Idle]
    /\ member = Range(Initial) /\ strict = {} /\ mixed = {}
    /\ req = [r \in Requests |-> [at |-> "between", hook |-> 0, by |-> None, walk |-> Walk(1, Initial)]]
    /\ changes = 0

Walking(r) == req[r].at = "walking"
Current(r) == lists[req[r].walk.list][req[r].walk.pos]
AtExtension(r) == Walking(r) /\ req[r].walk.pos <= Len(lists[req[r].walk.list])

\* What a walk makes of a call of an extension, and what its history makes of
\* a change of the chain.
Called(walk, e, passedOver) ==
    [walk EXCEPT !.pos = @ + 1, !.called = Append(@, e), !.swallowed = @ \cup passedOver]
Joined(walk, e, flagged) == [walk EXCEPT !.joined = Append(@, e), !.everStrict = @ \cup flagged]
Flagged(walk, flagged) == [walk EXCEPT !.everStrict = @ \cup flagged]
Unregistered(walk, e) == [walk EXCEPT !.firm = @ \ {e}]
Left(walk, e) == [walk EXCEPT !.stayed = @ \ {e}]

Noting(Change(_)) ==
    req' = [r \in Requests |-> IF Walking(r) THEN [req[r] EXCEPT !.walk = Change(req[r].walk)] ELSE req[r]]

Start(c, now) ==
    /\ op[c] = Idle
    /\ changes < MaxChanges /\ changes' = changes + 1
    /\ op' = [op EXCEPT ![c] = now]

Removing == {c \in Callers : op[c].at \in {"filtering", "rebound"}}
-----------------------------------------------------------------------------
\* add(): on the list first ...
BeginAdd(c, e, asFatal) ==
    /\ Start(c, [at |-> "appended", ext |-> e, fatal |-> asFatal, list |-> chain])
    /\ lists' = [lists EXCEPT ![chain] = Append(@, e)]
    /\ Noting(LAMBDA walk : Joined(walk, e, IF asFatal THEN {e} ELSE {}))
    /\ mixed' = IF \E d \in Removing : op[d].ext = e THEN mixed \cup {e} ELSE mixed
    /\ UNCHANGED <<chain, fatal, member, strict>>

\* ... then, if it is fatal, among the fatal ones.
EndAdd(c) ==
    /\ op[c].at = "appended"
    /\ LET e == op[c].ext
           flagged == IF op[c].fatal THEN {e} ELSE {}
       IN  /\ fatal' = fatal \cup flagged
           /\ member' = member \cup {e}
           /\ strict' = strict \cup flagged
           /\ Noting(LAMBDA walk : Flagged(walk, flagged))
    /\ op' = [op EXCEPT ![c] = Idle]
    /\ UNCHANGED <<lists, chain, changes, mixed>>

\* remove(): the list it is going to filter is looked up.  What another remove()
\* overlapping this one takes off, or is added to the other's new list, is lost
\* to one of the two.
BeginRemove(c, e) ==
    /\ Start(c, [at |-> "filtering", ext |-> e, fatal |-> e \in strict, list |-> chain])
    /\ mixed' = IF Removing # {} THEN Extensions
                ELSE IF \E d \in Callers : op[d].ext = e THEN mixed \cup {e} ELSE mixed
    /\ member' = member \ {e}
    /\ strict' = strict \ {e}
    /\ Noting(LAMBDA walk : Unregistered(walk, e))
    /\ UNCHANGED <<lists, chain, fatal>>

Without(c) == Picked(lists[op[c].list], Extensions \ {op[c].ext})

\* Mutant of Rebind: the list object itself loses the extension.
FilterInPlace(c) ==
    /\ op[c].at = "filtering"
    /\ lists' = [lists EXCEPT ![op[c].list] = Without(c)]
    /\ op' = [op EXCEPT ![c].at = "rebound"]
    /\ Noting(LAMBDA walk : Left(walk, op[c].ext))
    /\ UNCHANGED <<chain, fatal, book>>

\* The filtered list, another object, becomes the chain ...
Rebind(c) ==
    /\ op[c].at = "filtering"
    /\ lists' = Append(lists, Without(c))
    /\ chain' = Len(lists) + 1
    /\ op' = [op EXCEPT ![c].at = "rebound"]
    /\ Noting(LAMBDA walk : Left(walk, op[c].ext))
    /\ UNCHANGED <<fatal, book>>

\* Mutant of EndRemove: a fatal extension that is removed is still among the fatal ones.
EndRemoveStillFatal(c) ==
    /\ op[c].at = "rebound"
    /\ op' = [op EXCEPT ![c] = Idle]
    /\ UNCHANGED <<lists, chain, fatal, req, book>>

\* ... and the extension is discarded from the fatal ones.
EndRemove(c) ==
    /\ op[c].at = "rebound"
    /\ fatal' = fatal \ {op[c].ext}
    /\ op' = [op EXCEPT ![c] = Idle]
    /\ UNCHANGED <<lists, chain, req, book>>
-----------------------------------------------------------------------------
BeginHook(r) ==
    /\ req[r].at = "between" /\ req[r].hook < Len(Hooks)
    /\ req' = [req EXCEPT ![r] = [at |-> "walking", hook |-> req[r].hook + 1, by |-> None,
                                  walk |-> Walk(chain, lists[chain])]]
    /\ UNCHANGED <<lists, chain, fatal, op, book>>

CallReturns(r) ==
    /\ AtExtension(r)
    /\ req' = [req EXCEPT ![r].walk = Called(req[r].walk, Current(r), {})]
    /\ UNCHANGED <<lists, chain, fatal, op, book>>

\* Mutant of CallSwallowed: whatever is raised is passed over.
CallSwallowedAlways(r) ==
    /\ AtExtension(r)
    /\ req' = [req EXCEPT ![r].walk = Called(req[r].walk, Current(r), {Current(r)})]
    /\ UNCHANGED <<lists, chain, fatal, op, book>>

\* An extension that raises is passed over ...
CallSwallowed(r) ==
    /\ AtExtension(r)
    /\ Current(r) \notin fatal
    /\ req' = [req EXCEPT ![r].walk = Called(req[r].walk, Current(r), {Current(r)})]
    /\ UNCHANGED <<lists, chain, fatal, op, book>>

\* ... unless it is fatal.
CallSurfaces(r) ==
    /\ AtExtension(r)
    /\ Current(r) \in fatal
    /\ req' = [req EXCEPT ![r].at = "raised", ![r].by = Current(r)]
    /\ UNCHANGED <<lists, chain, fatal, op, book>>

EndHook(r) ==
    /\ Walking(r) /\ ~ AtExtension(r)
    /\ req' = [req EXCEPT ![r].at = IF req[r].hook = Len(Hooks) THEN "returned" ELSE "between"]
    /\ UNCHANGED <<lists, chain, fatal, op, book>>

\* Planning finds no candidate, executing raises, or its result has no response.
RaisesBetween(r) ==
    /\ req[r].at = "between" /\ req[r].hook \in {1, 3, 4}
    /\ req' = [req EXCEPT ![r].at = "raised"]
    /\ UNCHANGED <<lists, chain, fatal, op, book>>

Next ==
    \/ \E c \in Callers :
        \/ \E e \in Extensions : BeginRemove(c, e) \/ \E asFatal \in BOOLEAN : BeginAdd(c, e, asFatal)
        \/ EndAdd(c) \/ Rebind(c) \/ EndRemove(c)
    \/ \E r \in Requests :
        \/ BeginHook(r) \/ CallReturns(r) \/ CallSwallowed(r) \/ CallSurfaces(r)
        \/ EndHook(r) \/ RaisesBetween(r)

Spec == Init /\ [][Next]_vars
-----------------------------------------------------------------------------
\* The last hook a request began has called all it was going to call.
HookDone(r) == req[r].hook > 0 /\ req[r].at \in {"between", "returned"}

\* Types of the variables; walks are over list objects there are.
TypeOK ==
    /\ lists \in Seq(Seq(Extensions)) /\ chain \in DOMAIN lists
    /\ fatal \subseteq Extensions /\ strict \subseteq Extensions
    /\ \A c \in Callers : op[c].at # "idle" => op[c].ext \in Extensions
    /\ \A r \in Requests : req[r].walk.list \in DOMAIN lists /\ req[r].walk.pos \in Nat \ {0}

\* Whatever is added and removed while a hook walks the chain, it calls the
\* extensions that stay on the chain all the while, in their order and as often
\* as they are on it; of the others it calls only those that were on it at some
\* time, and never one out of order or again.
WalkIsFaithful ==
    \A r \in Requests :
        LET walk == req[r].walk
            Staying(exts) == Picked(exts, walk.stayed)
        IN  /\ HookDone(r) => IsPrefix(Staying(walk.first), Staying(walk.called))
            /\ IsPrefix(walk.called, walk.first \o walk.joined)

\* "Extensions that raise are caught; errors are swallowed unless the extension
\* is registered as fatal": an error surfaces only if its extension was being
\* added as fatal, or was so registered, at some time of the walk, and is
\* swallowed only if it was not all the time, for the extensions whose add()
\* and remove() never overlapped.
FatalSurfaces ==
    \A r \in Requests :
        /\ req[r].by # None => req[r].by \in req[r].walk.everStrict \cup mixed
        /\ req[r].walk.swallowed \cap req[r].walk.firm \subseteq mixed

\* When no call is under way, the chain and its fatal set are what the calls
\* made them, whatever walks they overlapped, for the extensions whose own
\* add() and remove() did not overlap, as long as no two calls of remove() did.
ChainIsAsRegistered ==
    (\A c \in Callers : op[c] = Idle) =>
        \A e \in Extensions \ mixed :
            /\ e \in member <=> e \in Range(lists[chain])
            /\ e \in strict <=> e \in fatal
=============================================================================
