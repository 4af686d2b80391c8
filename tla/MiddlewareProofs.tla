-------------------------- MODULE MiddlewareProofs --------------------------
(***************************************************************************)
(* The chain under any number of requests that walk it, of callers that    *)
(* change it meanwhile and of extensions: which errors surface, what is    *)
(* registered, and what a walk calls.                                      *)
(*                                                                         *)
(* Errors.  A walk decides by the fatal set it finds when an extension     *)
(* raises; so the invariant (Inv) relates that set to what the calls of    *)
(* add() and remove() made of it, the ones under way included              *)
(* (FatalIsStrict, StrictIsFatal), and to what each walk under way has     *)
(* seen of it (WalksSawFatal).                                             *)
(*                                                                         *)
(* Registration.  The chain is the latest list object, and its elements    *)
(* are the members, but for what calls under way have put on it or not     *)
(* yet taken off (ChainIsMembers, OneRemoves).                             *)
(*                                                                         *)
(* Walks.  A list object only ever grows, and only while it is the chain;  *)
(* so what a walk has called begins its list, and its list begins what     *)
(* the walk began with followed by what joined since (Sound).              *)
(***************************************************************************)
EXTENDS Middleware, ListsProofs

\* The shapes of the records, as far as the provers need them.
WalkShape(w) ==
    w = [list |-> w.list, pos |-> w.pos, first |-> w.first, joined |-> w.joined, stayed |-> w.stayed,
         firm |-> w.firm, everStrict |-> w.everStrict, called |-> w.called, swallowed |-> w.swallowed]

RequestShape(x) ==
    /\ x = [at |-> x.at, hook |-> x.hook, by |-> x.by, walk |-> x.walk]
    /\ WalkShape(x.walk)

\* A caller inside add() or remove() is there for an extension.
CallShape(x) ==
    /\ x = [at |-> x.at, ext |-> x.ext, fatal |-> x.fatal, list |-> x.list]
    /\ x.fatal \in BOOLEAN
    /\ x.at \in {"idle", "appended", "filtering", "rebound"}
    /\ x.at = "idle" => x.ext = None /\ x.fatal = FALSE
    /\ x.at # "idle" => x.ext \in Extensions

Shapes ==
    /\ op = [c \in Callers |-> op[c]] /\ \A c \in Callers : CallShape(op[c])
    /\ req = [r \in Requests |-> req[r]] /\ \A r \in Requests : RequestShape(req[r])
    /\ mixed \subseteq Extensions

\* What is registered as fatal is in the fatal set, and nothing else is but what
\* an add() or a remove() under way is about to settle.
StrictIsFatal == strict \subseteq fatal \cup mixed
FatalIsStrict == fatal \subseteq strict \cup InDoubt \cup mixed

\* An extension being removed is not registered, and nobody else adds or removes it.
RemovedIsOut ==
    \A c \in Removing :
        \/ op[c].ext \in mixed
        \/ /\ op[c].ext \notin strict
           /\ \A d \in Callers \ {c} : op[d].ext # op[c].ext

\* A walk under way has seen every extension that is fatal now as strict, and
\* what it has seen strict throughout is strict.
WalksSawFatal ==
    \A r \in Requests : Walking(r) =>
        /\ req[r].walk.firm \subseteq strict
        /\ fatal \subseteq req[r].walk.everStrict \cup mixed

Inv == Shapes /\ StrictIsFatal /\ FatalIsStrict /\ RemovedIsOut /\ WalksSawFatal /\ FatalSurfaces
-----------------------------------------------------------------------------
\* What the history of a walk says after each change of it.
LEMMA CalledWalk ==
    ASSUME NEW w, WalkShape(w), NEW e, NEW S
    PROVE  LET v == Called(w, e, S)
           IN  /\ WalkShape(v) /\ v.firm = w.firm /\ v.everStrict = w.everStrict
               /\ v.swallowed = w.swallowed \cup S
<1> DEFINE v == Called(w, e, S)
<1>1. v = [w EXCEPT !.pos = @ + 1, !.called = Append(@, e), !.swallowed = @ \cup S]
  BY Zenon DEF Called
<1> HIDE DEF v
<1>2. WalkShape(v) /\ v.firm = w.firm /\ v.everStrict = w.everStrict /\ v.swallowed = w.swallowed \cup S
  BY <1>1 DEF WalkShape
<1> QED BY <1>2, Zenon DEF v

LEMMA JoinedWalk ==
    ASSUME NEW w, WalkShape(w), NEW e, NEW S
    PROVE  LET v == Joined(w, e, S)
           IN  /\ WalkShape(v) /\ v.firm = w.firm /\ v.everStrict = w.everStrict \cup S
               /\ v.swallowed = w.swallowed
<1> DEFINE v == Joined(w, e, S)
<1>1. v = [w EXCEPT !.joined = Append(@, e), !.everStrict = @ \cup S]
  BY Zenon DEF Joined
<1> HIDE DEF v
<1>2. WalkShape(v) /\ v.firm = w.firm /\ v.everStrict = w.everStrict \cup S /\ v.swallowed = w.swallowed
  BY <1>1 DEF WalkShape
<1> QED BY <1>2, Zenon DEF v

LEMMA FlaggedWalk ==
    ASSUME NEW w, WalkShape(w), NEW S
    PROVE  LET v == Flagged(w, S)
           IN  /\ WalkShape(v) /\ v.firm = w.firm /\ v.everStrict = w.everStrict \cup S
               /\ v.swallowed = w.swallowed
BY DEF WalkShape, Flagged

LEMMA UnregisteredWalk ==
    ASSUME NEW w, WalkShape(w), NEW e
    PROVE  LET v == Unregistered(w, e)
           IN  /\ WalkShape(v) /\ v.firm = w.firm \ {e} /\ v.everStrict = w.everStrict
               /\ v.swallowed = w.swallowed
BY DEF WalkShape, Unregistered

LEMMA LeftWalk ==
    ASSUME NEW w, WalkShape(w), NEW e
    PROVE  LET v == Left(w, e)
           IN  /\ WalkShape(v) /\ v.firm = w.firm /\ v.everStrict = w.everStrict
               /\ v.swallowed = w.swallowed
BY DEF WalkShape, Left

LEMMA WalkReplaced ==
    ASSUME NEW x, RequestShape(x), NEW w, WalkShape(w)
    PROVE  LET y == [x EXCEPT !.walk = w]
           IN  RequestShape(y) /\ y.at = x.at /\ y.by = x.by /\ y.walk = w
BY DEF RequestShape

LEMMA InitInv == Init => Inv
<1> SUFFICES ASSUME Init PROVE Inv
  OBVIOUS
<1> USE DEF Init, Idle
<1>1. Shapes
  <2>1. \A r \in Requests : RequestShape(req[r])
    BY DEF RequestShape, WalkShape, Walk
  <2>2. \A c \in Callers : CallShape(op[c])
    BY DEF CallShape
  <2> QED BY <2>1, <2>2 DEF Shapes
<1>2. StrictIsFatal /\ FatalIsStrict
  BY DEF StrictIsFatal, FatalIsStrict
<1>3. RemovedIsOut
  BY DEF RemovedIsOut, Removing
<1>4. WalksSawFatal /\ FatalSurfaces
  BY DEF WalksSawFatal, FatalSurfaces, Walking, Walk
<1> QED BY <1>1, <1>2, <1>3, <1>4 DEF Inv

\* What a step of add() or remove() does to the walks under way, as far as the
\* errors that surface depend on it.
Noted(Added, Gone) ==
    /\ req' = [r \in Requests |-> req'[r]]
    /\ \A r \in Requests :
        /\ RequestShape(req'[r]) /\ req'[r].at = req[r].at /\ req'[r].by = req[r].by
        /\ req'[r].walk.swallowed = req[r].walk.swallowed
        /\ req'[r].walk.everStrict = IF Walking(r) THEN req[r].walk.everStrict \cup Added
                                     ELSE req[r].walk.everStrict
        /\ req'[r].walk.firm = IF Walking(r) THEN req[r].walk.firm \ Gone ELSE req[r].walk.firm

LEMMA WalksNote ==
    ASSUME Inv, NEW Added, NEW Gone, Noted(Added, Gone),
           mixed \subseteq mixed',
           fatal' \subseteq fatal \cup Added,
           strict \ Gone \subseteq strict'
    PROVE  WalksSawFatal' /\ FatalSurfaces'
<1> USE DEF Noted
<1>1. WalksSawFatal'
  <2> SUFFICES ASSUME NEW r \in Requests, Walking(r)'
               PROVE  /\ req'[r].walk.firm \subseteq strict'
                      /\ fatal' \subseteq req'[r].walk.everStrict \cup mixed'
    BY DEF WalksSawFatal
  <2>1. Walking(r)
    BY DEF Walking
  <2>2. req[r].walk.firm \subseteq strict /\ fatal \subseteq req[r].walk.everStrict \cup mixed
    BY <2>1 DEF Inv, WalksSawFatal
  <2> QED BY <2>1, <2>2
<1>2. FatalSurfaces'
  <2> SUFFICES ASSUME NEW r \in Requests
               PROVE  /\ req'[r].by # None => req'[r].by \in req'[r].walk.everStrict \cup mixed'
                      /\ req'[r].walk.swallowed \cap req'[r].walk.firm \subseteq mixed'
    BY DEF FatalSurfaces
  <2>1. /\ req[r].by # None => req[r].by \in req[r].walk.everStrict \cup mixed
        /\ req[r].walk.swallowed \cap req[r].walk.firm \subseteq mixed
    BY DEF Inv, FatalSurfaces
  <2> QED BY <2>1
<1> QED BY <1>1, <1>2
-----------------------------------------------------------------------------
LEMMA BeginAddKeepsInv ==
    ASSUME Inv, NEW c \in Callers, NEW e \in Extensions, NEW asFatal \in BOOLEAN, BeginAdd(c, e, asFatal)
    PROVE  Inv'
<1> DEFINE flagged == IF asFatal THEN {e} ELSE {}
<1>1. /\ op[c] = Idle
      /\ op' = [op EXCEPT ![c] = [at |-> "appended", ext |-> e, fatal |-> asFatal, list |-> chain]]
      /\ mixed' = (IF \E d \in Removing : op[d].ext = e THEN mixed \cup {e} ELSE mixed)
      /\ fatal' = fatal /\ strict' = strict
  BY DEF BeginAdd, Start
<1>2. /\ op' = [d \in Callers |-> op'[d]] /\ \A d \in Callers : d # c => op'[d] = op[d]
      /\ op'[c] = [at |-> "appended", ext |-> e, fatal |-> asFatal, list |-> chain]
  BY <1>1 DEF Inv, Shapes
<1>3. CallShape(op'[c]) /\ op'[c].at = "appended" /\ op'[c].ext = e /\ op'[c].fatal = asFatal
  BY <1>2 DEF CallShape, Idle
<1>4. req' = [r \in Requests |->
                  IF Walking(r) THEN [req[r] EXCEPT !.walk = Joined(req[r].walk, e, flagged)] ELSE req[r]]
  BY DEF BeginAdd, Noting
<1>5. ASSUME NEW r \in Requests
      PROVE  /\ RequestShape(req'[r]) /\ req'[r].at = req[r].at /\ req'[r].by = req[r].by
             /\ req'[r].walk.swallowed = req[r].walk.swallowed
             /\ req'[r].walk.everStrict = IF Walking(r) THEN req[r].walk.everStrict \cup flagged
                                          ELSE req[r].walk.everStrict
             /\ req'[r].walk.firm = IF Walking(r) THEN req[r].walk.firm \ {} ELSE req[r].walk.firm
  <2> HIDE DEF flagged
  <2> DEFINE w == Joined(req[r].walk, e, flagged)
  <2>1. RequestShape(req[r]) /\ WalkShape(req[r].walk)
    BY DEF Inv, Shapes, RequestShape
  <2>2. /\ WalkShape(w) /\ w.firm = req[r].walk.firm
        /\ w.everStrict = req[r].walk.everStrict \cup flagged /\ w.swallowed = req[r].walk.swallowed
    BY <2>1, JoinedWalk
  <2>3. CASE Walking(r)
    <3>1. req'[r] = [req[r] EXCEPT !.walk = w]
      BY <1>4, <2>3 DEF flagged
    <3> HIDE DEF w
    <3>2. RequestShape(req'[r]) /\ req'[r].at = req[r].at /\ req'[r].by = req[r].by /\ req'[r].walk = w
      BY <2>1, <2>2, <3>1, WalkReplaced
    <3> QED BY <2>2, <2>3, <3>2
  <2>4. CASE ~ Walking(r)
    BY <1>4, <2>1, <2>4
  <2> QED BY <2>3, <2>4
<1>6. Noted(flagged, {})
  BY <1>4, <1>5 DEF Noted
<1>7. mixed \subseteq mixed' /\ mixed' \subseteq Extensions
  BY <1>1 DEF Inv, Shapes
<1>8. WalksSawFatal' /\ FatalSurfaces'
  <2>1. req' = [r \in Requests |-> req'[r]]
    BY <1>4
  <2> HIDE DEF flagged
  <2> QED BY <1>1, <1>7, <1>6, WalksNote
<1>9. Shapes'
  <2>1. req' = [r \in Requests |-> req'[r]]
    BY <1>4
  <2> QED BY <1>2, <1>3, <1>5, <1>7, <2>1 DEF Inv, Shapes
<1>10. StrictIsFatal'
  BY <1>1, <1>7 DEF Inv, StrictIsFatal
<1>11. FatalIsStrict'
  <2>1. InDoubt \subseteq InDoubt'
    BY <1>1, <1>2 DEF InDoubt, Idle
  <2> QED BY <1>1, <1>7, <2>1 DEF Inv, FatalIsStrict
<1>12. RemovedIsOut'
  <2> SUFFICES ASSUME NEW d \in Removing'
               PROVE  \/ op'[d].ext \in mixed'
                      \/ /\ op'[d].ext \notin strict'
                         /\ \A f \in Callers \ {d} : op'[f].ext # op'[d].ext
    BY DEF RemovedIsOut
  <2>1. d \in Removing /\ d # c /\ op'[d] = op[d]
    BY <1>2, <1>3 DEF Removing
  <2>2. CASE op[d].ext = e
    BY <1>1, <2>1, <2>2
  <2>3. CASE op[d].ext # e
    BY <1>1, <1>2, <1>3, <1>7, <2>1, <2>3 DEF Inv, RemovedIsOut
  <2> QED BY <2>2, <2>3
<1> QED BY <1>8, <1>9, <1>10, <1>11, <1>12 DEF Inv

LEMMA EndAddKeepsInv == ASSUME Inv, NEW c \in Callers, EndAdd(c) PROVE Inv'
<1> DEFINE e == op[c].ext
<1> DEFINE flagged == IF op[c].fatal THEN {e} ELSE {}
<1>1. /\ op[c].at = "appended" /\ op' = [op EXCEPT ![c] = Idle]
      /\ fatal' = fatal \cup flagged /\ strict' = strict \cup flagged /\ mixed' = mixed
  BY DEF EndAdd, book
<1>2. /\ op' = [d \in Callers |-> op'[d]] /\ \A d \in Callers : d # c => op'[d] = op[d]
      /\ op'[c] = Idle
  BY <1>1 DEF Inv, Shapes
<1>3. /\ CallShape(op'[c]) /\ op'[c].at = "idle" /\ op'[c].ext = None /\ op'[c].fatal = FALSE
      /\ CallShape(op[c]) /\ e \in Extensions
  BY <1>1, <1>2 DEF CallShape, Idle, Inv, Shapes
<1>4. req' = [r \in Requests |->
                  IF Walking(r) THEN [req[r] EXCEPT !.walk = Flagged(req[r].walk, flagged)] ELSE req[r]]
  BY DEF EndAdd, Noting
<1>5. ASSUME NEW r \in Requests
      PROVE  /\ RequestShape(req'[r]) /\ req'[r].at = req[r].at /\ req'[r].by = req[r].by
             /\ req'[r].walk.swallowed = req[r].walk.swallowed
             /\ req'[r].walk.everStrict = IF Walking(r) THEN req[r].walk.everStrict \cup flagged
                                          ELSE req[r].walk.everStrict
             /\ req'[r].walk.firm = IF Walking(r) THEN req[r].walk.firm \ {} ELSE req[r].walk.firm
  <2> HIDE DEF flagged
  <2> DEFINE w == Flagged(req[r].walk, flagged)
  <2>1. RequestShape(req[r]) /\ WalkShape(req[r].walk)
    BY DEF Inv, Shapes, RequestShape
  <2>2. /\ WalkShape(w) /\ w.firm = req[r].walk.firm
        /\ w.everStrict = req[r].walk.everStrict \cup flagged /\ w.swallowed = req[r].walk.swallowed
    BY <2>1, FlaggedWalk
  <2>3. CASE Walking(r)
    <3>1. req'[r] = [req[r] EXCEPT !.walk = w]
      BY <1>4, <2>3 DEF flagged
    <3> HIDE DEF w
    <3>2. RequestShape(req'[r]) /\ req'[r].at = req[r].at /\ req'[r].by = req[r].by /\ req'[r].walk = w
      BY <2>1, <2>2, <3>1, WalkReplaced
    <3> QED BY <2>2, <2>3, <3>2
  <2>4. CASE ~ Walking(r)
    BY <1>4, <2>1, <2>4
  <2> QED BY <2>3, <2>4
<1>6. Noted(flagged, {})
  BY <1>4, <1>5 DEF Noted
<1>7. req' = [r \in Requests |-> req'[r]]
  BY <1>4
<1>8. WalksSawFatal' /\ FatalSurfaces'
  <2> HIDE DEF flagged
  <2>1. mixed \subseteq mixed' /\ fatal' \subseteq fatal \cup flagged /\ strict \ {} \subseteq strict'
    BY <1>1
  <2> QED BY <1>6, <2>1, WalksNote
<1>9. Shapes'
  BY <1>1, <1>2, <1>3, <1>5, <1>7 DEF Inv, Shapes
<1>10. StrictIsFatal'
  BY <1>1 DEF Inv, StrictIsFatal
<1>11. FatalIsStrict'
  <2>1. InDoubt \subseteq InDoubt' \cup flagged
    BY <1>2 DEF InDoubt
  <2> QED BY <1>1, <2>1 DEF Inv, FatalIsStrict
<1>12. RemovedIsOut'
  <2> SUFFICES ASSUME NEW d \in Removing'
               PROVE  \/ op'[d].ext \in mixed'
                      \/ /\ op'[d].ext \notin strict'
                         /\ \A f \in Callers \ {d} : op'[f].ext # op'[d].ext
    BY DEF RemovedIsOut
  <2>1. d \in Removing /\ d # c /\ op'[d] = op[d]
    BY <1>2, <1>3 DEF Removing
  <2>2. op[d].ext \in Extensions
    BY <2>1 DEF Removing, Inv, Shapes, CallShape
  <2> QED BY <1>1, <1>2, <1>3, <2>1, <2>2, MiddlewareAssumption DEF Inv, RemovedIsOut, MiddlewareAssumption
<1> QED BY <1>8, <1>9, <1>10, <1>11, <1>12 DEF Inv

LEMMA BeginRemoveKeepsInv ==
    ASSUME Inv, NEW c \in Callers, NEW e \in Extensions, BeginRemove(c, e) PROVE Inv'
<1>1. /\ op[c] = Idle
      /\ op' = [op EXCEPT ![c] = [at |-> "filtering", ext |-> e, fatal |-> e \in strict, list |-> chain]]
      /\ mixed' = (IF Removing # {} THEN Extensions
                   ELSE IF \E d \in Callers : op[d].ext = e THEN mixed \cup {e} ELSE mixed)
      /\ fatal' = fatal /\ strict' = strict \ {e}
  BY DEF BeginRemove, Start
<1>2. /\ op' = [d \in Callers |-> op'[d]] /\ \A d \in Callers : d # c => op'[d] = op[d]
      /\ op'[c] = [at |-> "filtering", ext |-> e, fatal |-> e \in strict, list |-> chain]
  BY <1>1 DEF Inv, Shapes
<1>3. CallShape(op'[c]) /\ op'[c].at = "filtering" /\ op'[c].ext = e /\ op'[c].fatal = (e \in strict)
  <2>1. ASSUME NEW b \in BOOLEAN
        PROVE  LET x == [at |-> "filtering", ext |-> e, fatal |-> b, list |-> chain]
               IN  CallShape(x) /\ x.at = "filtering" /\ x.ext = e /\ x.fatal = b
    BY DEF CallShape, Idle
  <2>2. (e \in strict) \in BOOLEAN
    OBVIOUS
  <2> QED BY <1>2, <2>1, <2>2, Zenon
<1>4. req' = [r \in Requests |->
                  IF Walking(r) THEN [req[r] EXCEPT !.walk = Unregistered(req[r].walk, e)] ELSE req[r]]
  BY DEF BeginRemove, Noting
<1>5. ASSUME NEW r \in Requests
      PROVE  /\ RequestShape(req'[r]) /\ req'[r].at = req[r].at /\ req'[r].by = req[r].by
             /\ req'[r].walk.swallowed = req[r].walk.swallowed
             /\ req'[r].walk.everStrict = IF Walking(r) THEN req[r].walk.everStrict \cup {}
                                          ELSE req[r].walk.everStrict
             /\ req'[r].walk.firm = IF Walking(r) THEN req[r].walk.firm \ {e} ELSE req[r].walk.firm
  <2> DEFINE w == Unregistered(req[r].walk, e)
  <2>1. RequestShape(req[r]) /\ WalkShape(req[r].walk)
    BY DEF Inv, Shapes, RequestShape
  <2>2. /\ WalkShape(w) /\ w.firm = req[r].walk.firm \ {e}
        /\ w.everStrict = req[r].walk.everStrict /\ w.swallowed = req[r].walk.swallowed
    BY <2>1, UnregisteredWalk
  <2>3. CASE Walking(r)
    <3>1. req'[r] = [req[r] EXCEPT !.walk = w]
      BY <1>4, <2>3
    <3> HIDE DEF w
    <3>2. RequestShape(req'[r]) /\ req'[r].at = req[r].at /\ req'[r].by = req[r].by /\ req'[r].walk = w
      BY <2>1, <2>2, <3>1, WalkReplaced
    <3> QED BY <2>2, <2>3, <3>2
  <2>4. CASE ~ Walking(r)
    BY <1>4, <2>1, <2>4
  <2> QED BY <2>3, <2>4
<1>6. Noted({}, {e})
  BY <1>4, <1>5 DEF Noted
<1>7. req' = [r \in Requests |-> req'[r]]
  BY <1>4
<1>8. mixed \subseteq mixed' /\ mixed' \subseteq Extensions
  BY <1>1 DEF Inv, Shapes
<1>9. WalksSawFatal' /\ FatalSurfaces'
  <2>1. fatal' \subseteq fatal \cup {} /\ strict \ {e} \subseteq strict'
    BY <1>1
  <2> QED BY <1>8, <1>6, <2>1, WalksNote
<1>10. Shapes'
  BY <1>2, <1>3, <1>5, <1>7, <1>8 DEF Inv, Shapes
<1>11. StrictIsFatal'
  BY <1>1, <1>8 DEF Inv, StrictIsFatal
<1>12. FatalIsStrict'
  <2>1. InDoubt \subseteq InDoubt'
    BY <1>1, <1>2 DEF InDoubt, Idle
  <2>2. e \in strict => e \in InDoubt'
    BY <1>3 DEF InDoubt
  <2> QED BY <1>1, <1>8, <2>1, <2>2 DEF Inv, FatalIsStrict
<1>13. RemovedIsOut'
  <2> SUFFICES ASSUME NEW d \in Removing'
               PROVE  \/ op'[d].ext \in mixed'
                      \/ /\ op'[d].ext \notin strict'
                         /\ \A f \in Callers \ {d} : op'[f].ext # op'[d].ext
    BY DEF RemovedIsOut
  <2>1. d \in Callers /\ op'[d].ext \in Extensions
    BY <1>10 DEF Removing, Shapes, CallShape
  <2>2. CASE Removing # {}
    BY <1>1, <2>1, <2>2
  <2>3. CASE Removing = {}
    <3>1. d = c
      BY <1>2, <2>1, <2>3 DEF Removing
    <3> QED BY <1>1, <1>2, <1>3, <2>3, <3>1
  <2> QED BY <2>2, <2>3
<1> QED BY <1>9, <1>10, <1>11, <1>12, <1>13 DEF Inv

LEMMA RebindKeepsInv == ASSUME Inv, NEW c \in Callers, Rebind(c) PROVE Inv'
<1>1. /\ op[c].at = "filtering" /\ op' = [op EXCEPT ![c].at = "rebound"]
      /\ mixed' = mixed /\ fatal' = fatal /\ strict' = strict
  BY DEF Rebind, book
<1>2. /\ op' = [d \in Callers |-> op'[d]] /\ \A d \in Callers : d # c => op'[d] = op[d]
      /\ op'[c] = [op[c] EXCEPT !.at = "rebound"]
  BY <1>1 DEF Inv, Shapes
<1>3. CallShape(op'[c]) /\ op'[c].at = "rebound" /\ op'[c].ext = op[c].ext /\ op'[c].fatal = op[c].fatal
  <2>1. CallShape(op[c])
    BY DEF Inv, Shapes
  <2> QED BY <1>1, <1>2, <2>1 DEF CallShape
<1>4. req' = [r \in Requests |->
                  IF Walking(r) THEN [req[r] EXCEPT !.walk = Left(req[r].walk, op[c].ext)] ELSE req[r]]
  BY DEF Rebind, Noting
<1>5. ASSUME NEW r \in Requests
      PROVE  /\ RequestShape(req'[r]) /\ req'[r].at = req[r].at /\ req'[r].by = req[r].by
             /\ req'[r].walk.swallowed = req[r].walk.swallowed
             /\ req'[r].walk.everStrict = IF Walking(r) THEN req[r].walk.everStrict \cup {}
                                          ELSE req[r].walk.everStrict
             /\ req'[r].walk.firm = IF Walking(r) THEN req[r].walk.firm \ {} ELSE req[r].walk.firm
  <2> DEFINE w == Left(req[r].walk, op[c].ext)
  <2>1. RequestShape(req[r]) /\ WalkShape(req[r].walk)
    BY DEF Inv, Shapes, RequestShape
  <2>2. /\ WalkShape(w) /\ w.firm = req[r].walk.firm
        /\ w.everStrict = req[r].walk.everStrict /\ w.swallowed = req[r].walk.swallowed
    BY <2>1, LeftWalk
  <2>3. CASE Walking(r)
    <3>1. req'[r] = [req[r] EXCEPT !.walk = w]
      BY <1>4, <2>3
    <3> HIDE DEF w
    <3>2. RequestShape(req'[r]) /\ req'[r].at = req[r].at /\ req'[r].by = req[r].by /\ req'[r].walk = w
      BY <2>1, <2>2, <3>1, WalkReplaced
    <3> QED BY <2>2, <2>3, <3>2
  <2>4. CASE ~ Walking(r)
    BY <1>4, <2>1, <2>4
  <2> QED BY <2>3, <2>4
<1>6. Noted({}, {})
  BY <1>4, <1>5 DEF Noted
<1>7. req' = [r \in Requests |-> req'[r]]
  BY <1>4
<1>8. WalksSawFatal' /\ FatalSurfaces'
  <2>1. mixed \subseteq mixed' /\ fatal' \subseteq fatal \cup {} /\ strict \ {} \subseteq strict'
    BY <1>1
  <2> QED BY <1>6, <2>1, WalksNote
<1>9. Shapes'
  BY <1>1, <1>2, <1>3, <1>5, <1>7 DEF Inv, Shapes
<1>10. \A d \in Callers : op'[d].ext = op[d].ext /\ op'[d].fatal = op[d].fatal
  BY <1>2, <1>3
<1>11. StrictIsFatal' /\ FatalIsStrict'
  <2>1. InDoubt' = InDoubt
    BY <1>10 DEF InDoubt
  <2> QED BY <1>1, <2>1 DEF Inv, StrictIsFatal, FatalIsStrict
<1>12. RemovedIsOut'
  <2>1. Removing' = Removing
    BY <1>1, <1>2, <1>3 DEF Removing
  <2> QED BY <1>1, <1>10, <2>1 DEF Inv, RemovedIsOut, Removing
<1> QED BY <1>8, <1>9, <1>11, <1>12 DEF Inv

LEMMA EndRemoveKeepsInv == ASSUME Inv, NEW c \in Callers, EndRemove(c) PROVE Inv'
<1> DEFINE e == op[c].ext
<1>1. /\ op[c].at = "rebound" /\ op' = [op EXCEPT ![c] = Idle] /\ fatal' = fatal \ {e}
      /\ mixed' = mixed /\ strict' = strict /\ req' = req
  BY DEF EndRemove, book
<1>2. /\ op' = [d \in Callers |-> op'[d]] /\ \A d \in Callers : d # c => op'[d] = op[d]
      /\ op'[c] = Idle
  BY <1>1 DEF Inv, Shapes
<1>3. CallShape(op'[c]) /\ op'[c].at = "idle" /\ op'[c].ext = None /\ op'[c].fatal = FALSE
  BY <1>2 DEF CallShape, Idle
<1>4. Shapes'
  BY <1>1, <1>2, <1>3 DEF Inv, Shapes
<1>5. StrictIsFatal'
  <2>1. e \in mixed \/ e \notin strict
    BY <1>1 DEF Inv, RemovedIsOut, Removing
  <2> QED BY <1>1, <2>1 DEF Inv, StrictIsFatal
<1>6. FatalIsStrict'
  <2>1. InDoubt \subseteq InDoubt' \cup {e}
    BY <1>2 DEF InDoubt
  <2> QED BY <1>1, <2>1 DEF Inv, FatalIsStrict
<1>7. RemovedIsOut'
  <2> SUFFICES ASSUME NEW d \in Removing'
               PROVE  \/ op'[d].ext \in mixed'
                      \/ /\ op'[d].ext \notin strict'
                         /\ \A f \in Callers \ {d} : op'[f].ext # op'[d].ext
    BY DEF RemovedIsOut
  <2>1. d \in Removing /\ d # c /\ op'[d] = op[d]
    BY <1>2, <1>3 DEF Removing
  <2>2. op[d].ext \in Extensions
    BY <2>1 DEF Removing, Inv, Shapes, CallShape
  <2> QED BY <1>1, <1>2, <1>3, <2>1, <2>2, MiddlewareAssumption DEF Inv, RemovedIsOut, MiddlewareAssumption
<1>8. WalksSawFatal' /\ FatalSurfaces'
  BY <1>1 DEF Inv, WalksSawFatal, FatalSurfaces, Walking
<1> QED BY <1>4, <1>5, <1>6, <1>7, <1>8 DEF Inv
-----------------------------------------------------------------------------
\* The steps of a request change nothing but the request.
LEMMA OneRequestKeepsInv ==
    ASSUME Inv, NEW r \in Requests, UNCHANGED <<fatal, op, mixed, strict>>,
           req' = [s \in Requests |-> req'[s]],
           \A s \in Requests : s # r => req'[s] = req[s],
           RequestShape(req'[r]),
           req'[r].at = "walking" => /\ req'[r].walk.firm \subseteq strict
                                     /\ fatal \subseteq req'[r].walk.everStrict \cup mixed,
           req'[r].by # None => req'[r].by \in req'[r].walk.everStrict \cup mixed,
           req'[r].walk.swallowed \cap req'[r].walk.firm \subseteq mixed
    PROVE  Inv'
<1>1. Shapes'
  BY DEF Inv, Shapes
<1>2. StrictIsFatal' /\ FatalIsStrict' /\ RemovedIsOut'
  BY DEF Inv, StrictIsFatal, FatalIsStrict, RemovedIsOut, InDoubt, Removing
<1>3. WalksSawFatal'
  BY DEF Inv, WalksSawFatal, Walking
<1>4. FatalSurfaces'
  BY DEF Inv, FatalSurfaces
<1> QED BY <1>1, <1>2, <1>3, <1>4 DEF Inv

LEMMA BeginHookKeepsInv == ASSUME Inv, NEW r \in Requests, BeginHook(r) PROVE Inv'
<1>1. /\ UNCHANGED <<fatal, op, mixed, strict>>
      /\ req' = [req EXCEPT ![r] = [at |-> "walking", hook |-> req[r].hook + 1, by |-> None,
                                    walk |-> Walk(chain, lists[chain])]]
  BY DEF BeginHook, book
<1>2. /\ req' = [s \in Requests |-> req'[s]] /\ \A s \in Requests : s # r => req'[s] = req[s]
      /\ req'[r] = [at |-> "walking", hook |-> req[r].hook + 1, by |-> None,
                    walk |-> Walk(chain, lists[chain])]
  BY <1>1 DEF Inv, Shapes
<1>3. LET w == Walk(chain, lists[chain])
      IN  WalkShape(w) /\ w.firm = strict /\ w.everStrict = strict \cup InDoubt /\ w.swallowed = {}
  BY DEF Walk, WalkShape
<1>4. RequestShape(req'[r]) /\ req'[r].by = None /\ req'[r].walk = Walk(chain, lists[chain])
  BY <1>2, <1>3 DEF RequestShape
<1>5. fatal \subseteq strict \cup InDoubt \cup mixed
  BY DEF Inv, FatalIsStrict
<1> QED BY <1>1, <1>2, <1>3, <1>4, <1>5, OneRequestKeepsInv

LEMMA CalledRequest ==
    ASSUME NEW x, RequestShape(x), NEW e, NEW S
    PROVE  LET y == [x EXCEPT !.walk = Called(x.walk, e, S)]
           IN  RequestShape(y) /\ y.at = x.at /\ y.by = x.by /\ y.walk = Called(x.walk, e, S)
<1>1. WalkShape(x.walk)
  BY DEF RequestShape
<1> DEFINE w == Called(x.walk, e, S)
<1>2. WalkShape(w)
  BY <1>1, CalledWalk
<1> HIDE DEF w
<1>3. LET y == [x EXCEPT !.walk = w]
      IN  RequestShape(y) /\ y.at = x.at /\ y.by = x.by /\ y.walk = w
  BY <1>2, WalkReplaced
<1> QED BY <1>3 DEF w

\* A call that returns, or raises and is passed over.
LEMMA CalledKeepsInv ==
    ASSUME Inv, NEW r \in Requests, NEW passedOver, Walking(r), UNCHANGED <<fatal, op, mixed, strict>>,
           req' = [req EXCEPT ![r].walk = Called(req[r].walk, Current(r), passedOver)],
           passedOver \cap fatal = {}
    PROVE  Inv'
<1> DEFINE w == Called(req[r].walk, Current(r), passedOver)
<1>1. RequestShape(req[r]) /\ WalkShape(req[r].walk)
  BY DEF Inv, Shapes, RequestShape
<1>2. /\ WalkShape(w) /\ w.firm = req[r].walk.firm /\ w.everStrict = req[r].walk.everStrict
      /\ w.swallowed = req[r].walk.swallowed \cup passedOver
  BY <1>1, CalledWalk
<1>3. req' = [req EXCEPT ![r].walk = w]
  OBVIOUS
<1> HIDE DEF w
<1>4. /\ req' = [s \in Requests |-> req'[s]] /\ \A s \in Requests : s # r => req'[s] = req[s]
  BY <1>3 DEF Inv, Shapes
<1> DEFINE y == [req[r] EXCEPT !.walk = Called(req[r].walk, Current(r), passedOver)]
<1>5. RequestShape(y) /\ y.at = req[r].at /\ y.by = req[r].by /\ y.walk = w
  BY <1>1, CalledRequest DEF w
<1>6. req'[r] = y
  BY Zenon DEF Inv, Shapes
<1> HIDE DEF y
<1>7. RequestShape(req'[r]) /\ req'[r].at = req[r].at /\ req'[r].by = req[r].by /\ req'[r].walk = w
  BY <1>5, <1>6
<1>8. /\ req[r].walk.firm \subseteq strict /\ fatal \subseteq req[r].walk.everStrict \cup mixed
      /\ strict \subseteq fatal \cup mixed
      /\ req[r].by # None => req[r].by \in req[r].walk.everStrict \cup mixed
      /\ req[r].walk.swallowed \cap req[r].walk.firm \subseteq mixed
  BY DEF Inv, WalksSawFatal, StrictIsFatal, FatalSurfaces
<1>9. w.swallowed \cap w.firm \subseteq mixed
  BY <1>2, <1>8
<1> QED BY <1>2, <1>4, <1>7, <1>8, <1>9, OneRequestKeepsInv

\* A step that leaves the walk as it is.
LEMMA SameWalkKeepsInv ==
    ASSUME Inv, NEW r \in Requests, NEW at, NEW by, at # "walking", UNCHANGED <<fatal, op, mixed, strict>>,
           req' = [req EXCEPT ![r].at = at, ![r].by = by],
           by # None => by \in req[r].walk.everStrict \cup mixed
    PROVE  Inv'
<1>1. /\ req' = [s \in Requests |-> req'[s]] /\ \A s \in Requests : s # r => req'[s] = req[s]
  BY DEF Inv, Shapes
<1>2. RequestShape(req[r])
  BY DEF Inv, Shapes
<1>3. RequestShape(req'[r]) /\ req'[r].at = at /\ req'[r].by = by /\ req'[r].walk = req[r].walk
  BY <1>2 DEF RequestShape, Inv, Shapes
<1>4. req[r].walk.swallowed \cap req[r].walk.firm \subseteq mixed
  BY DEF Inv, FatalSurfaces
<1>5. /\ req'[r].by # None => req'[r].by \in req'[r].walk.everStrict \cup mixed
      /\ req'[r].walk.swallowed \cap req'[r].walk.firm \subseteq mixed
      /\ req'[r].at # "walking"
  BY <1>3, <1>4
<1> QED BY <1>1, <1>3, <1>5, OneRequestKeepsInv

LEMMA SameByKeepsInv ==
    ASSUME Inv, NEW r \in Requests, NEW at, at # "walking", UNCHANGED <<fatal, op, mixed, strict>>,
           req' = [req EXCEPT ![r].at = at]
    PROVE  Inv'
<1>1. /\ req' = [s \in Requests |-> req'[s]] /\ \A s \in Requests : s # r => req'[s] = req[s]
  BY DEF Inv, Shapes
<1>2. RequestShape(req[r])
  BY DEF Inv, Shapes
<1>3. RequestShape(req'[r]) /\ req'[r].at = at /\ req'[r].by = req[r].by /\ req'[r].walk = req[r].walk
  BY <1>2 DEF RequestShape, Inv, Shapes
<1>4. /\ req[r].by # None => req[r].by \in req[r].walk.everStrict \cup mixed
      /\ req[r].walk.swallowed \cap req[r].walk.firm \subseteq mixed
  BY DEF Inv, FatalSurfaces
<1>5. /\ req'[r].by # None => req'[r].by \in req'[r].walk.everStrict \cup mixed
      /\ req'[r].walk.swallowed \cap req'[r].walk.firm \subseteq mixed
      /\ req'[r].at # "walking"
  BY <1>3, <1>4
<1> QED BY <1>1, <1>3, <1>5, OneRequestKeepsInv

LEMMA RequestKeepsInv ==
    ASSUME Inv, NEW r \in Requests,
           \/ BeginHook(r) \/ CallReturns(r) \/ CallSwallowed(r) \/ CallSurfaces(r)
           \/ EndHook(r) \/ RaisesBetween(r)
    PROVE  Inv'
<1>1. CASE CallReturns(r)
  <2>1. /\ Walking(r) /\ UNCHANGED <<fatal, op, mixed, strict>> /\ {} \cap fatal = {}
        /\ req' = [req EXCEPT ![r].walk = Called(req[r].walk, Current(r), {})]
    BY <1>1 DEF CallReturns, AtExtension, book
  <2> QED BY <2>1, CalledKeepsInv
<1>2. CASE CallSwallowed(r)
  <2>1. /\ Walking(r) /\ UNCHANGED <<fatal, op, mixed, strict>> /\ {Current(r)} \cap fatal = {}
        /\ req' = [req EXCEPT ![r].walk = Called(req[r].walk, Current(r), {Current(r)})]
    BY <1>2 DEF CallSwallowed, AtExtension, book
  <2> QED BY <2>1, CalledKeepsInv
<1>3. CASE CallSurfaces(r)
  <2>1. fatal \subseteq req[r].walk.everStrict \cup mixed /\ Current(r) \in fatal
    BY <1>3 DEF CallSurfaces, AtExtension, Inv, WalksSawFatal
  <2> QED BY <1>3, <2>1, SameWalkKeepsInv DEF CallSurfaces, book
<1>4. CASE EndHook(r)
  <2> DEFINE at == IF req[r].hook = Len(Hooks) THEN "returned" ELSE "between"
  <2>1. at # "walking" /\ req' = [req EXCEPT ![r].at = at] /\ UNCHANGED <<fatal, op, mixed, strict>>
    BY <1>4 DEF EndHook, book
  <2> HIDE DEF at
  <2> QED BY <2>1, SameByKeepsInv
<1>5. CASE RaisesBetween(r)
  BY <1>5, SameByKeepsInv DEF RaisesBetween, book
<1> QED BY <1>1, <1>2, <1>3, <1>4, <1>5, BeginHookKeepsInv

LEMMA NextInv == Inv /\ [Next]_vars => Inv'
<1> SUFFICES ASSUME Inv, [Next]_vars PROVE Inv'
  OBVIOUS
<1>1. ASSUME NEW c \in Callers, NEW e \in Extensions,
             BeginRemove(c, e) \/ \E asFatal \in BOOLEAN : BeginAdd(c, e, asFatal)
      PROVE  Inv'
  BY <1>1, BeginRemoveKeepsInv, BeginAddKeepsInv
<1>2. ASSUME NEW c \in Callers, EndAdd(c) \/ Rebind(c) \/ EndRemove(c) PROVE Inv'
  BY <1>2, EndAddKeepsInv, RebindKeepsInv, EndRemoveKeepsInv
<1>3. CASE UNCHANGED vars
  BY <1>3 DEF vars, book, Inv, Shapes, StrictIsFatal, FatalIsStrict, RemovedIsOut, WalksSawFatal,
              FatalSurfaces, InDoubt, Removing, Walking
<1> QED BY <1>1, <1>2, <1>3, RequestKeepsInv DEF Next

LEMMA InvAlways == Spec => []Inv
BY InitInv, NextInv, PTL DEF Spec
-----------------------------------------------------------------------------
\* An error surfaces only if its extension was fatal at some time of the walk,
\* and is swallowed only if it was not so all the time, however add() and
\* remove() of other extensions overlap the walk and each other.
THEOREM SurfacingCorrect == Spec => []FatalSurfaces
<1>1. Inv => FatalSurfaces
  BY DEF Inv
<1> QED BY <1>1, InvAlways, PTL
-----------------------------------------------------------------------------
\* s is a beginning of t.
Begins(s, t) == Len(s) <= Len(t) /\ \A i \in 1 .. Len(s) : s[i] = t[i]

\* The chain is the latest list object, and callers know list objects there are.
Listed ==
    /\ lists \in Seq(Seq(Extensions)) /\ lists # <<>> /\ chain = Len(lists)
    /\ member \subseteq Extensions /\ fatal \subseteq Extensions /\ strict \subseteq Extensions
    /\ \A c \in Callers : op[c].list \in 1 .. Len(lists)

Adding(e) == \E c \in Callers : op[c].at = "appended" /\ op[c].ext = e
Filtering(e) == \E c \in Callers : op[c].at = "filtering" /\ op[c].ext = e

\* The chain is what is registered, but for what an add() under way has put on it
\* already and a remove() not yet taken off it.
ChainIsMembers ==
    \A e \in Extensions \ mixed :
        /\ e \in member \/ Adding(e) => e \in Range(lists[chain])
        /\ e \in Range(lists[chain]) => e \in member \/ Adding(e) \/ Filtering(e)

\* A remove() filters the chain there is, unless two of them overlapped, and what
\* it removes is no member.
OneRemoves ==
    \A c \in Removing :
        /\ op[c].ext \in member => op[c].ext \in mixed
        /\ op[c].at = "filtering" /\ op[c].list # chain => Extensions \subseteq mixed
        /\ Removing # {c} => Extensions \subseteq mixed

ListInv == Inv /\ Listed /\ ChainIsMembers /\ OneRemoves

\* What a longer list holds.
LEMMA LongerList ==
    ASSUME NEW X, NEW s \in Seq(X), NEW e \in X
    PROVE  /\ Append(s, e) \in Seq(X) /\ Append(s, e) # <<>>
           /\ Len(Append(s, e)) = Len(s) + 1 /\ Append(s, e)[Len(s) + 1] = e
           /\ \A i \in 1 .. Len(s) : Append(s, e)[i] = s[i]
OBVIOUS

\* The list objects after an append to the latest, and after a new one.
LEMMA ChainAppended ==
    ASSUME Listed, NEW e \in Extensions, lists' = [lists EXCEPT ![chain] = Append(@, e)]
    PROVE  /\ lists' \in Seq(Seq(Extensions)) /\ Len(lists') = Len(lists) /\ lists' # <<>>
           /\ lists'[chain] = Append(lists[chain], e)
           /\ \A k \in 1 .. Len(lists) : k # chain => lists'[k] = lists[k]
           /\ lists[chain] \in Seq(Extensions) /\ chain \in 1 .. Len(lists)
<1>1. chain \in 1 .. Len(lists) /\ lists[chain] \in Seq(Extensions)
  BY DEF Listed
<1>2. Append(lists[chain], e) \in Seq(Extensions)
  BY <1>1
<1> DEFINE longer == Append(lists[chain], e)
<1>3. lists' = [lists EXCEPT ![chain] = longer]
  OBVIOUS
<1> HIDE DEF longer
<1>4. /\ lists' \in Seq(Seq(Extensions)) /\ Len(lists') = Len(lists) /\ lists' # <<>>
      /\ lists'[chain] = longer
      /\ \A k \in 1 .. Len(lists) : k # chain => lists'[k] = lists[k]
  BY <1>1, <1>2, <1>3 DEF Listed, longer
<1> QED BY <1>1, <1>4 DEF longer

LEMMA ChainReplaced ==
    ASSUME Listed, NEW list \in Seq(Extensions), lists' = Append(lists, list)
    PROVE  /\ lists' \in Seq(Seq(Extensions)) /\ Len(lists') = Len(lists) + 1 /\ lists' # <<>>
           /\ lists'[Len(lists) + 1] = list
           /\ \A k \in 1 .. Len(lists) : lists'[k] = lists[k]
BY LongerList DEF Listed

\* A caller filters one of the lists there are.
LEMMA FilteredList ==
    ASSUME Listed, NEW c \in Callers
    PROVE  /\ Without(c) \in Seq(Extensions)
           /\ Range(Without(c)) = Range(lists[op[c].list]) \ {op[c].ext}
           /\ Range(lists[op[c].list]) \subseteq Extensions
<1>1. lists[op[c].list] \in Seq(Extensions)
  BY DEF Listed
<1>2. Range(lists[op[c].list]) \subseteq Extensions
  BY <1>1 DEF Range
<1>3. /\ Without(c) \in Seq(Extensions)
      /\ Range(Without(c)) = Range(lists[op[c].list]) \cap (Extensions \ {op[c].ext})
  BY <1>1, PickedElements DEF Without
<1> QED BY <1>2, <1>3

LEMMA InitLists == Init => Listed /\ ChainIsMembers /\ OneRemoves
<1> SUFFICES ASSUME Init PROVE Listed /\ ChainIsMembers /\ OneRemoves
  OBVIOUS
<1> USE MiddlewareAssumption DEF Init, Idle, MiddlewareAssumption
<1>1. Range(Initial) \subseteq Extensions
  BY DEF Range
<1>2. Listed
  BY <1>1 DEF Listed
<1>3. ChainIsMembers /\ OneRemoves
  BY DEF ChainIsMembers, OneRemoves, Adding, Filtering, Removing
<1> QED BY <1>2, <1>3

\* A step of a caller changes the state of that call alone.
LEMMA OneCall ==
    ASSUME Shapes, NEW c \in Callers, NEW x, op' = [op EXCEPT ![c] = x]
    PROVE  op'[c] = x /\ \A d \in Callers : d # c => op'[d] = op[d]
BY DEF Shapes

LEMMA BeginAddLists ==
    ASSUME ListInv, NEW c \in Callers, NEW e \in Extensions, NEW asFatal \in BOOLEAN, BeginAdd(c, e, asFatal)
    PROVE  Listed' /\ ChainIsMembers' /\ OneRemoves'
<1> DEFINE now == [at |-> "appended", ext |-> e, fatal |-> asFatal, list |-> chain]
<1>1. /\ op[c] = Idle /\ op' = [op EXCEPT ![c] = now]
      /\ lists' = [lists EXCEPT ![chain] = Append(@, e)]
      /\ mixed' = (IF \E d \in Removing : op[d].ext = e THEN mixed \cup {e} ELSE mixed)
      /\ UNCHANGED <<chain, fatal, member, strict>>
  BY DEF BeginAdd, Start
<1>2. op'[c] = now /\ \A d \in Callers : d # c => op'[d] = op[d]
  <2> HIDE DEF now
  <2> QED BY <1>1, OneCall DEF ListInv, Inv
<1>3. /\ lists' \in Seq(Seq(Extensions)) /\ Len(lists') = Len(lists) /\ lists' # <<>>
      /\ lists'[chain] = Append(lists[chain], e)
      /\ lists[chain] \in Seq(Extensions) /\ chain \in 1 .. Len(lists)
  BY <1>1, ChainAppended DEF ListInv
<1>4. Range(lists'[chain]) = Range(lists[chain]) \cup {e}
  BY <1>3, AppendElements
<1>5. mixed \subseteq mixed'
  BY <1>1
<1>6. Listed'
  <2>1. op'[c].list = chain
    <3>1. now.list = chain
      OBVIOUS
    <3> HIDE DEF now
    <3> QED BY <1>2, <3>1
  <2>2. \A d \in Callers : op[d].list \in 1 .. Len(lists)
    BY DEF ListInv, Listed
  <2>3. \A d \in Callers : op'[d].list \in 1 .. Len(lists')
    <3> HIDE DEF now
    <3> QED BY <1>2, <1>3, <2>1, <2>2
  <2> QED BY <1>1, <1>3, <2>3 DEF ListInv, Listed
<1>7. /\ \A f : Adding(f)' <=> Adding(f) \/ f = e
      /\ \A f : Filtering(f)' <=> Filtering(f)
      /\ Removing' = Removing /\ c \notin Removing
  BY <1>1, <1>2 DEF Adding, Filtering, Removing, Idle
<1>8. ChainIsMembers'
  BY <1>1, <1>4, <1>5, <1>7 DEF ListInv, ChainIsMembers
<1>9. OneRemoves'
  <2>1. \A d \in Removing : op'[d] = op[d]
    BY <1>2, <1>7 DEF Removing
  <2> QED BY <1>1, <1>5, <1>7, <2>1 DEF ListInv, OneRemoves
<1> QED BY <1>6, <1>8, <1>9

LEMMA EndAddLists ==
    ASSUME ListInv, NEW c \in Callers, EndAdd(c) PROVE Listed' /\ ChainIsMembers' /\ OneRemoves'
<1> DEFINE e == op[c].ext
<1>1. /\ op[c].at = "appended" /\ op' = [op EXCEPT ![c] = Idle]
      /\ member' = member \cup {e} /\ strict' = strict \cup (IF op[c].fatal THEN {e} ELSE {})
      /\ fatal' = fatal \cup (IF op[c].fatal THEN {e} ELSE {})
      /\ UNCHANGED <<lists, chain, mixed>>
  BY DEF EndAdd
<1>2. op'[c] = Idle /\ \A d \in Callers : d # c => op'[d] = op[d]
  BY <1>1, OneCall DEF ListInv, Inv
<1>3. e \in Extensions
  BY <1>1 DEF ListInv, Inv, Shapes, CallShape
<1>4. Listed'
  <2>1. \A d \in Callers : op'[d].list \in 1 .. Len(lists)
    BY <1>2 DEF ListInv, Listed, Idle
  <2> QED BY <1>1, <1>3, <2>1 DEF ListInv, Listed
<1>5. /\ Adding(e) /\ \A f : Adding(f) <=> Adding(f)' \/ f = e \/ Adding(f)
      /\ \A f : Adding(f)' => Adding(f)
      /\ \A f : f # e => (Adding(f) <=> Adding(f)')
      /\ \A f : Filtering(f)' <=> Filtering(f)
      /\ Removing' = Removing /\ c \notin Removing
  BY <1>1, <1>2 DEF Adding, Filtering, Removing, Idle
<1>6. ChainIsMembers'
  BY <1>1, <1>5 DEF ListInv, ChainIsMembers
<1>7. OneRemoves'
  <2>1. \A d \in Removing : op'[d] = op[d]
    BY <1>2, <1>5 DEF Removing
  <2>2. \A d \in Removing : op[d].ext = e => e \in mixed
    BY <1>5 DEF ListInv, Inv, RemovedIsOut
  <2> QED BY <1>1, <1>5, <2>1, <2>2 DEF ListInv, OneRemoves
<1> QED BY <1>4, <1>6, <1>7

LEMMA BeginRemoveLists ==
    ASSUME ListInv, NEW c \in Callers, NEW e \in Extensions, BeginRemove(c, e)
    PROVE  Listed' /\ ChainIsMembers' /\ OneRemoves'
<1> DEFINE now == [at |-> "filtering", ext |-> e, fatal |-> e \in strict, list |-> chain]
<1>1. /\ op[c] = Idle /\ op' = [op EXCEPT ![c] = now]
      /\ mixed' = (IF Removing # {} THEN Extensions
                   ELSE IF \E d \in Callers : op[d].ext = e THEN mixed \cup {e} ELSE mixed)
      /\ member' = member \ {e} /\ strict' = strict \ {e}
      /\ UNCHANGED <<lists, chain, fatal>>
  BY DEF BeginRemove, Start
<1>2. op'[c] = now /\ \A d \in Callers : d # c => op'[d] = op[d]
  <2> HIDE DEF now
  <2> QED BY <1>1, OneCall DEF ListInv, Inv
<1>3. now.at = "filtering" /\ now.ext = e /\ now.list = chain
  OBVIOUS
<1> HIDE DEF now
<1>4. mixed \subseteq mixed' /\ (Removing # {} => Extensions \subseteq mixed')
  BY <1>1 DEF ListInv, Inv, Shapes
<1>5. Listed'
  <2>1. \A d \in Callers : op'[d].list \in 1 .. Len(lists)
    BY <1>2, <1>3 DEF ListInv, Listed
  <2> QED BY <1>1, <2>1 DEF ListInv, Listed
<1>6. /\ \A f : Adding(f)' <=> Adding(f)
      /\ \A f : Filtering(f)' <=> Filtering(f) \/ f = e
      /\ Removing' = Removing \cup {c} /\ c \notin Removing
  BY <1>1, <1>2, <1>3 DEF Adding, Filtering, Removing, Idle
<1>7. ChainIsMembers'
  BY <1>1, <1>4, <1>6 DEF ListInv, ChainIsMembers
<1>8. OneRemoves'
  <2> SUFFICES ASSUME NEW d \in Removing'
               PROVE  /\ op'[d].ext \in member' => op'[d].ext \in mixed'
                      /\ op'[d].at = "filtering" /\ op'[d].list # chain' => Extensions \subseteq mixed'
                      /\ Removing' # {d} => Extensions \subseteq mixed'
    BY DEF OneRemoves
  <2>1. CASE d = c
    BY <1>1, <1>2, <1>3, <1>4, <1>6, <2>1
  <2>2. CASE d # c
    <3>1. d \in Removing /\ op'[d] = op[d]
      BY <1>2, <1>6, <2>2 DEF Removing
    <3>2. op[d].ext \in Extensions
      BY <3>1 DEF Removing, ListInv, Inv, Shapes, CallShape
    <3> QED BY <1>4, <3>1, <3>2
  <2> QED BY <2>1, <2>2
<1> QED BY <1>5, <1>7, <1>8

LEMMA RebindLists ==
    ASSUME ListInv, NEW c \in Callers, Rebind(c) PROVE Listed' /\ ChainIsMembers' /\ OneRemoves'
<1> DEFINE e == op[c].ext
<1>1. /\ op[c].at = "filtering" /\ op' = [op EXCEPT ![c].at = "rebound"]
      /\ lists' = Append(lists, Without(c)) /\ chain' = Len(lists) + 1
      /\ UNCHANGED <<fatal, member, strict, mixed>>
  BY DEF Rebind, book
<1>2. /\ \A d \in Callers : d # c => op'[d] = op[d]
      /\ op'[c].at = "rebound" /\ op'[c].ext = e /\ op'[c].list = op[c].list
  BY <1>1 DEF ListInv, Inv, Shapes, CallShape
<1>3. /\ Without(c) \in Seq(Extensions)
      /\ Range(Without(c)) = Range(lists[op[c].list]) \ {e}
  BY FilteredList DEF ListInv
<1>4. /\ lists' \in Seq(Seq(Extensions)) /\ Len(lists') = Len(lists) + 1 /\ lists' # <<>>
      /\ lists'[chain'] = Without(c)
  BY <1>1, <1>3, ChainReplaced DEF ListInv
<1>5. Listed'
  <2>1. Len(lists) \in Nat /\ \A d \in Callers : op[d].list \in 1 .. Len(lists)
    BY DEF ListInv, Listed
  <2>2. \A d \in Callers : op'[d].list \in 1 .. Len(lists')
    BY <1>2, <1>4, <2>1
  <2> QED BY <1>1, <1>4, <2>2 DEF ListInv, Listed
<1>6. c \in Removing /\ Removing' = Removing
  BY <1>1, <1>2 DEF Removing
<1>7. CASE Extensions \subseteq mixed
  <2>1. \A d \in Removing : op'[d].ext = op[d].ext /\ op[d].ext \in Extensions
    BY <1>2 DEF ListInv, Inv, Shapes, CallShape, Removing
  <2>2. ChainIsMembers'
    BY <1>1, <1>7 DEF ChainIsMembers
  <2>3. OneRemoves'
    BY <1>1, <1>6, <1>7, <2>1 DEF OneRemoves
  <2> QED BY <1>5, <2>2, <2>3
<1>8. CASE ~ (Extensions \subseteq mixed)
  <2>1. Removing = {c} /\ op[c].list = chain
    BY <1>1, <1>6, <1>8 DEF ListInv, OneRemoves
  <2>2. /\ \A f : Adding(f)' <=> Adding(f)
        /\ \A f : ~ Filtering(f)'
        /\ \A f : Filtering(f) => f = e
    BY <1>1, <1>2, <2>1 DEF Adding, Filtering, Removing
  <2>3. e \in mixed \/ (e \notin member /\ ~ Adding(e))
    BY <1>1, <1>6 DEF ListInv, OneRemoves, Inv, RemovedIsOut, Adding
  <2>4. Range(lists'[chain']) = Range(lists[chain]) \ {e}
    BY <1>3, <1>4, <2>1
  <2>5. ChainIsMembers'
    BY <1>1, <2>2, <2>3, <2>4 DEF ListInv, ChainIsMembers
  <2>6. OneRemoves'
    BY <1>1, <1>2, <1>6, <2>1, <2>3 DEF OneRemoves
  <2> QED BY <1>5, <2>5, <2>6
<1> QED BY <1>7, <1>8

LEMMA EndRemoveLists ==
    ASSUME ListInv, NEW c \in Callers, EndRemove(c) PROVE Listed' /\ ChainIsMembers' /\ OneRemoves'
<1>1. /\ op[c].at = "rebound" /\ op' = [op EXCEPT ![c] = Idle]
      /\ fatal' = fatal \ {op[c].ext}
      /\ UNCHANGED <<lists, chain, member, strict, mixed>>
  BY DEF EndRemove, book
<1>2. op'[c] = Idle /\ \A d \in Callers : d # c => op'[d] = op[d]
  BY <1>1, OneCall DEF ListInv, Inv
<1>3. Listed'
  <2>1. \A d \in Callers : op'[d].list \in 1 .. Len(lists)
    BY <1>2 DEF ListInv, Listed, Idle
  <2> QED BY <1>1, <2>1 DEF ListInv, Listed
<1>4. /\ \A f : Adding(f)' <=> Adding(f)
      /\ \A f : Filtering(f)' <=> Filtering(f)
      /\ Removing' = Removing \ {c} /\ c \in Removing
  BY <1>1, <1>2 DEF Adding, Filtering, Removing, Idle
<1>5. ChainIsMembers'
  BY <1>1, <1>4 DEF ListInv, ChainIsMembers
<1>6. OneRemoves'
  <2> SUFFICES ASSUME NEW d \in Removing' PROVE Extensions \subseteq mixed /\ op'[d].ext \in Extensions
    BY <1>1 DEF OneRemoves
  <2>1. d \in Removing /\ d # c /\ op'[d] = op[d]
    BY <1>2, <1>4 DEF Removing
  <2> QED BY <1>4, <2>1 DEF ListInv, OneRemoves, Inv, Shapes, CallShape, Removing
<1> QED BY <1>3, <1>5, <1>6

\* The steps of a request leave the lists and the calls alone.
LEMMA RequestLists ==
    ASSUME ListInv, UNCHANGED <<lists, chain, fatal, op, member, strict, mixed>>
    PROVE  Listed' /\ ChainIsMembers' /\ OneRemoves'
BY DEF ListInv, Listed, ChainIsMembers, OneRemoves, Adding, Filtering, Removing

LEMMA NextLists == ListInv /\ [Next]_vars => ListInv'
<1> SUFFICES ASSUME ListInv, [Next]_vars PROVE ListInv'
  OBVIOUS
<1>1. Inv'
  BY NextInv DEF ListInv
<1>2. ASSUME NEW c \in Callers, NEW e \in Extensions,
             BeginRemove(c, e) \/ \E asFatal \in BOOLEAN : BeginAdd(c, e, asFatal)
      PROVE  ListInv'
  BY <1>1, <1>2, BeginRemoveLists, BeginAddLists DEF ListInv
<1>3. ASSUME NEW c \in Callers, EndAdd(c) \/ Rebind(c) \/ EndRemove(c) PROVE ListInv'
  BY <1>1, <1>3, EndAddLists, RebindLists, EndRemoveLists DEF ListInv
<1>4. ASSUME NEW r \in Requests,
             \/ BeginHook(r) \/ CallReturns(r) \/ CallSwallowed(r) \/ CallSurfaces(r)
             \/ EndHook(r) \/ RaisesBetween(r)
      PROVE  ListInv'
  <2>1. UNCHANGED <<lists, chain, fatal, op, member, strict, mixed>>
    BY <1>4 DEF BeginHook, CallReturns, CallSwallowed, CallSurfaces, EndHook, RaisesBetween, book
  <2> QED BY <1>1, <2>1, RequestLists DEF ListInv
<1>5. CASE UNCHANGED vars
  BY <1>1, <1>5, RequestLists DEF ListInv, vars, book
<1> QED BY <1>2, <1>3, <1>4, <1>5 DEF Next

LEMMA ListsAlways == Spec => []ListInv
<1>1. Init => ListInv
  BY InitInv, InitLists DEF ListInv
<1> QED BY <1>1, NextLists, PTL DEF Spec

\* When no call is under way, the chain and its fatal set are what the calls
\* made them, for every extension whose add() and remove() never overlapped.
THEOREM RegistrationCorrect == Spec => []ChainIsAsRegistered
<1>1. ListInv => ChainIsAsRegistered
  <2> SUFFICES ASSUME ListInv, \A c \in Callers : op[c] = Idle, NEW e \in Extensions \ mixed
               PROVE  (e \in member <=> e \in Range(lists[chain])) /\ (e \in strict <=> e \in fatal)
    BY DEF ChainIsAsRegistered
  <2>1. InDoubt = {} /\ ~ Adding(e) /\ ~ Filtering(e)
    BY DEF InDoubt, Adding, Filtering, Idle
  <2>2. e \in strict <=> e \in fatal
    BY <2>1 DEF ListInv, Inv, StrictIsFatal, FatalIsStrict
  <2> QED BY <2>1, <2>2 DEF ListInv, ChainIsMembers
<1> QED BY <1>1, ListsAlways, PTL
-----------------------------------------------------------------------------
\* A request x among the list objects ls: its walk has called a beginning of what
\* its list had or got, and before it is done, all that its list has.
Sound(x, ls) ==
    LET w    == x.walk
        list == ls[w.list]
        all  == w.first \o w.joined
    IN  /\ w.first \in Seq(Extensions) /\ w.joined \in Seq(Extensions) /\ w.called \in Seq(Extensions)
        /\ w.list \in 1 .. Len(ls) /\ w.pos \in Nat \ {0}
        /\ Begins(w.called, all)
        /\ x.hook > 0 /\ x.at \in {"between", "returned"} => Len(w.first) <= Len(w.called)
        /\ x.at = "walking" =>
            /\ Begins(list, all) /\ Len(w.first) <= Len(list)
            /\ Len(w.called) = w.pos - 1 /\ w.pos <= Len(list) + 1
            /\ w.list = Len(ls) => Len(list) = Len(all)

WalksSound == \A r \in Requests : Sound(req[r], lists)

\* A list followed by a longer one is longer by as much.
LEMMA JoinedMore ==
    ASSUME NEW X, NEW s \in Seq(X), NEW t \in Seq(X), NEW e \in X
    PROVE  /\ s \o t \in Seq(X) /\ s \o Append(t, e) \in Seq(X)
           /\ s \o Append(t, e) = Append(s \o t, e) /\ Len(s \o t) = Len(s) + Len(t)
OBVIOUS

\* Beginnings of one list begin each other, and stay beginnings when it grows.
LEMMA Beginnings ==
    ASSUME NEW X, NEW a \in Seq(X), NEW s \in Seq(X), NEW t \in Seq(X)
    PROVE  /\ Begins(s, a) /\ Begins(t, a) /\ Len(s) <= Len(t) => Begins(s, t)
           /\ \A e \in X : Begins(s, a) => Begins(s, Append(a, e))
           /\ \A e \in X : Begins(s, a) /\ Len(s) = Len(a) => Begins(Append(s, e), Append(a, e))
           /\ \A k \in 1 .. Len(a) : Begins(s, a) /\ Len(s) = k - 1 => Begins(Append(s, a[k]), a)
<1>1. Begins(s, a) /\ Begins(t, a) /\ Len(s) <= Len(t) => Begins(s, t)
  BY DEF Begins
<1>2. ASSUME NEW e \in X, Begins(s, a)
      PROVE  /\ Begins(s, Append(a, e))
             /\ Len(s) = Len(a) => Begins(Append(s, e), Append(a, e))
  <2>1. /\ Len(Append(a, e)) = Len(a) + 1 /\ Append(a, e)[Len(a) + 1] = e
        /\ \A i \in 1 .. Len(a) : Append(a, e)[i] = a[i]
    BY LongerList
  <2>2. /\ Len(Append(s, e)) = Len(s) + 1 /\ Append(s, e)[Len(s) + 1] = e
        /\ \A i \in 1 .. Len(s) : Append(s, e)[i] = s[i]
    BY LongerList
  <2>3. Len(a) \in Nat /\ Len(s) \in Nat
    OBVIOUS
  <2> QED BY <1>2, <2>1, <2>2, <2>3 DEF Begins
<1>3. ASSUME NEW k \in 1 .. Len(a), Begins(s, a), Len(s) = k - 1 PROVE Begins(Append(s, a[k]), a)
  <2>1. a[k] \in X
    OBVIOUS
  <2>2. /\ Len(Append(s, a[k])) = k /\ Append(s, a[k])[k] = a[k]
        /\ \A i \in 1 .. k - 1 : Append(s, a[k])[i] = s[i]
    BY <1>3, <2>1, LongerList
  <2> QED BY <1>3, <2>2 DEF Begins
<1> QED BY <1>1, <1>2, <1>3

\* What each change makes of the path a walk has come.
SamePath(v, w) ==
    /\ v.list = w.list /\ v.pos = w.pos /\ v.first = w.first /\ v.joined = w.joined
    /\ v.called = w.called

LEMMA WalkPaths ==
    ASSUME NEW w, WalkShape(w), NEW e, NEW S
    PROVE  SamePath(Flagged(w, S), w) /\ SamePath(Unregistered(w, e), w) /\ SamePath(Left(w, e), w)
BY DEF WalkShape, SamePath, Flagged, Unregistered, Left

LEMMA JoinedPath ==
    ASSUME NEW w, WalkShape(w), NEW e, NEW S, NEW v, v = Joined(w, e, S)
    PROVE  /\ v.list = w.list /\ v.pos = w.pos /\ v.first = w.first
           /\ v.called = w.called /\ v.joined = Append(w.joined, e)
<1> DEFINE longer == Append(w.joined, e)
<1>1. v = [w EXCEPT !.joined = longer, !.everStrict = w.everStrict \cup S]
  BY DEF Joined
<1> HIDE DEF longer
<1>2. /\ v.list = w.list /\ v.pos = w.pos /\ v.first = w.first
      /\ v.called = w.called /\ v.joined = longer
  BY <1>1 DEF WalkShape
<1> QED BY <1>2 DEF longer

LEMMA CalledPath ==
    ASSUME NEW w, WalkShape(w), NEW e, NEW S, NEW v, v = Called(w, e, S)
    PROVE  /\ v.list = w.list /\ v.pos = w.pos + 1 /\ v.first = w.first
           /\ v.joined = w.joined /\ v.called = Append(w.called, e)
<1> DEFINE longer == Append(w.called, e)
<1>1. v = [w EXCEPT !.pos = w.pos + 1, !.called = longer, !.swallowed = w.swallowed \cup S]
  BY DEF Called
<1> HIDE DEF longer
<1>2. /\ v.list = w.list /\ v.pos = w.pos + 1 /\ v.first = w.first
      /\ v.joined = w.joined /\ v.called = longer
  BY <1>1 DEF WalkShape
<1> QED BY <1>2 DEF longer
-----------------------------------------------------------------------------
\* A request whose walk has come the same path is as sound ...
LEMMA SamePathSound ==
    ASSUME NEW x, NEW y, NEW ls, Sound(x, ls), SamePath(y.walk, x.walk), y.at = x.at, y.hook = x.hook
    PROVE  Sound(y, ls)
BY DEF Sound, SamePath

\* ... and stays so when there are more lists.
LEMMA MoreListsSound ==
    ASSUME NEW x, NEW ls, NEW ls2, Sound(x, ls), Len(ls) \in Nat, Len(ls2) = Len(ls) + 1,
           \A k \in 1 .. Len(ls) : ls2[k] = ls[k]
    PROVE  Sound(x, ls2)
<1>1. x.walk.list \in 1 .. Len(ls2) /\ x.walk.list # Len(ls2) /\ ls2[x.walk.list] = ls[x.walk.list]
  BY DEF Sound
<1> QED BY <1>1 DEF Sound

\* An extension joins the latest list, and the walks under way note it.
LEMMA JoinedSound ==
    ASSUME NEW x, NEW y, NEW ls \in Seq(Seq(Extensions)), NEW ls2, NEW e \in Extensions, NEW S,
           Sound(x, ls), WalkShape(x.walk), x.at = "walking",
           y.at = x.at, y.hook = x.hook, y.walk = Joined(x.walk, e, S),
           Len(ls2) = Len(ls), ls2[Len(ls)] = Append(ls[Len(ls)], e),
           \A k \in 1 .. Len(ls) : k # Len(ls) => ls2[k] = ls[k]
    PROVE  Sound(y, ls2)
<1> DEFINE w == x.walk
           all == w.first \o w.joined
           list == ls[w.list]
           v == y.walk
<1>1. /\ w.first \in Seq(Extensions) /\ w.joined \in Seq(Extensions) /\ w.called \in Seq(Extensions)
      /\ w.list \in 1 .. Len(ls) /\ w.pos \in Nat \ {0}
      /\ Begins(w.called, all) /\ Begins(list, all)
      /\ Len(w.first) <= Len(list) /\ Len(w.called) = w.pos - 1 /\ w.pos <= Len(list) + 1
      /\ w.list = Len(ls) => Len(list) = Len(all)
  BY DEF Sound
<1>2. /\ v.list = w.list /\ v.pos = w.pos /\ v.first = w.first
      /\ v.called = w.called /\ v.joined = Append(w.joined, e)
  BY JoinedPath
<1>3. /\ all \in Seq(Extensions) /\ v.first \o v.joined = Append(all, e)
      /\ v.joined \in Seq(Extensions) /\ list \in Seq(Extensions)
  <2>1. list \in Seq(Extensions)
    BY <1>1
  <2> HIDE DEF v, w, list
  <2>2. /\ all \in Seq(Extensions) /\ w.first \o Append(w.joined, e) = Append(all, e)
        /\ Append(w.joined, e) \in Seq(Extensions)
    <3> DEFINE f == w.first
               j == w.joined
    <3>1. f \in Seq(Extensions) /\ j \in Seq(Extensions)
      BY <1>1
    <3> HIDE DEF f, j
    <3>2. f \o j \in Seq(Extensions) /\ f \o Append(j, e) = Append(f \o j, e)
      <4>1. \A s, t \in Seq(Extensions) : \A c \in Extensions :
                s \o t \in Seq(Extensions) /\ s \o Append(t, c) = Append(s \o t, c)
        BY JoinedMore
      <4> QED BY <3>1, <4>1, Zenon
    <3>3. Append(j, e) \in Seq(Extensions)
      BY <3>1
    <3> QED BY <3>2, <3>3 DEF f, j
  <2> QED BY <1>2, <2>1, <2>2
<1>4. Begins(v.called, v.first \o v.joined) /\ Begins(list, Append(all, e))
  <2> HIDE DEF all, list, v, w
  <2> QED BY <1>1, <1>2, <1>3, Beginnings
<1>5. CASE w.list # Len(ls)
  <2>1. ls2[v.list] = list
    BY <1>1, <1>2, <1>5
  <2> HIDE DEF all, list, w
  <2> QED BY <1>1, <1>2, <1>3, <1>4, <1>5, <2>1 DEF Sound
<1>6. CASE w.list = Len(ls)
  <2>1. ls2[v.list] = Append(list, e) /\ Len(list) = Len(all)
    BY <1>1, <1>2, <1>6
  <2>2. Begins(Append(list, e), Append(all, e))
    <3> HIDE DEF all, list, v, w
    <3> QED BY <1>1, <1>3, <2>1, Beginnings
  <2>3. Len(Append(list, e)) = Len(list) + 1 /\ Len(Append(all, e)) = Len(all) + 1
    BY <1>3, LongerList
  <2> HIDE DEF all, list, w
  <2>4. Len(list) \in Nat /\ Len(w.first) \in Nat /\ Len(w.called) \in Nat
    <3>1. list \in Seq(Extensions) /\ w.first \in Seq(Extensions) /\ w.called \in Seq(Extensions)
      BY <1>1, <1>3
    <3> QED BY <3>1
  <2>5. Len(w.first) <= Len(list) + 1 /\ w.pos <= Len(list) + 2
    BY <1>1, <2>4
  <2> DEFINE list2 == Append(list, e)
             all2 == Append(all, e)
  <2>6. /\ ls2[v.list] = list2 /\ v.first \o v.joined = all2
        /\ Begins(v.called, all2) /\ Begins(list2, all2) /\ Len(v.first) <= Len(list2)
        /\ Len(v.called) = v.pos - 1 /\ v.pos <= Len(list2) + 1 /\ Len(list2) = Len(all2)
        /\ v.first \in Seq(Extensions) /\ v.joined \in Seq(Extensions) /\ v.called \in Seq(Extensions)
        /\ v.list \in 1 .. Len(ls2) /\ v.pos \in Nat \ {0}
    BY <1>1, <1>2, <1>3, <1>4, <2>1, <2>2, <2>3, <2>4, <2>5
  <2> HIDE DEF list2, all2
  <2> QED BY <2>6 DEF Sound
<1> QED BY <1>5, <1>6

\* An extension is called.
LEMMA CalledSound ==
    ASSUME NEW x, NEW y, NEW ls \in Seq(Seq(Extensions)), NEW S,
           Sound(x, ls), WalkShape(x.walk), x.at = "walking", x.walk.pos <= Len(ls[x.walk.list]),
           y.at = x.at, y.hook = x.hook, y.walk = Called(x.walk, ls[x.walk.list][x.walk.pos], S)
    PROVE  Sound(y, ls)
<1> DEFINE w == x.walk
           all == w.first \o w.joined
           list == ls[w.list]
           v == y.walk
           e == list[w.pos]
<1>1. /\ w.first \in Seq(Extensions) /\ w.joined \in Seq(Extensions) /\ w.called \in Seq(Extensions)
      /\ w.list \in 1 .. Len(ls) /\ w.pos \in Nat \ {0}
      /\ Begins(w.called, all) /\ Begins(list, all)
      /\ Len(w.first) <= Len(list) /\ Len(w.called) = w.pos - 1
      /\ w.list = Len(ls) => Len(list) = Len(all)
  BY DEF Sound
<1>2. /\ v.list = w.list /\ v.pos = w.pos + 1 /\ v.first = w.first
      /\ v.joined = w.joined /\ v.called = Append(w.called, e)
  BY CalledPath
<1>3. all \in Seq(Extensions) /\ list \in Seq(Extensions)
  BY <1>1, JoinedMore
<1>4. e = all[w.pos] /\ w.pos \in 1 .. Len(all) /\ w.pos \in 1 .. Len(list) /\ e \in Extensions
  <2>1. w.pos <= Len(list) /\ w.pos \in Nat \ {0}
    BY <1>1
  <2> HIDE DEF all, list, w
  <2>2. Len(list) \in Nat /\ Len(all) \in Nat
    BY <1>3
  <2>3. Len(list) <= Len(all) /\ \A i \in 1 .. Len(list) : list[i] = all[i]
    BY <1>1 DEF Begins
  <2>4. w.pos \in 1 .. Len(list) /\ w.pos \in 1 .. Len(all)
    BY <2>1, <2>2, <2>3
  <2>5. list[w.pos] \in Extensions
    BY <1>3, <2>4
  <2> QED BY <2>3, <2>4, <2>5
<1>5. Begins(v.called, all) /\ v.called \in Seq(Extensions) /\ Len(v.called) = w.pos
  <2> HIDE DEF all, list, v, w, e
  <2>1. v.called \in Seq(Extensions) /\ Len(v.called) = Len(w.called) + 1
    BY <1>1, <1>2, <1>4, LongerList
  <2> QED BY <1>1, <1>2, <1>3, <1>4, <2>1, Beginnings
<1>6. v.pos \in Nat \ {0} /\ v.pos <= Len(list) + 1 /\ Len(v.called) = v.pos - 1
  <2> HIDE DEF all, list, v, w, e
  <2>1. w.pos \in Nat \ {0} /\ v.pos = w.pos + 1 /\ Len(v.called) = w.pos
        /\ w.pos \in 1 .. Len(list) /\ Len(list) \in Nat
    <3>1. list \in Seq(Extensions)
      BY <1>3
    <3> QED BY <1>1, <1>2, <1>4, <1>5, <3>1
  <2> QED BY <2>1
<1> HIDE DEF list, e
<1> QED BY <1>1, <1>2, <1>5, <1>6 DEF Sound, list

\* A hook begins on the latest list, and ends when it has called all of its list.
LEMMA BegunSound ==
    ASSUME NEW y, NEW ls \in Seq(Seq(Extensions)), ls # <<>>, y.at = "walking",
           y.walk = Walk(Len(ls), ls[Len(ls)])
    PROVE  Sound(y, ls)
<1> DEFINE list == ls[Len(ls)]
<1>1. Len(ls) \in 1 .. Len(ls) /\ list \in Seq(Extensions)
  OBVIOUS
<1>2. list \o <<>> = list /\ <<>> \in Seq(Extensions) /\ Len(<<>>) = 0 /\ Len(list) \in Nat
  BY <1>1
<1>3. Begins(<<>>, list) /\ Begins(list, list)
  BY <1>2 DEF Begins
<1>4. /\ y.walk.list = Len(ls) /\ y.walk.pos = 1 /\ y.walk.first = list
      /\ y.walk.joined = <<>> /\ y.walk.called = <<>>
  BY DEF Walk
<1> HIDE DEF list
<1> QED BY <1>1, <1>2, <1>3, <1>4 DEF Sound, list

LEMMA EndedSound ==
    ASSUME NEW x, NEW y, NEW ls \in Seq(Seq(Extensions)), Sound(x, ls),
           x.at = "walking" => ~ (x.walk.pos <= Len(ls[x.walk.list])),
           y.walk = x.walk, y.at # "walking", y.hook = x.hook,
           y.at \in {"between", "returned"} => x.at = "walking"
    PROVE  Sound(y, ls)
<1>1. ASSUME y.at \in {"between", "returned"} PROVE Len(x.walk.first) <= Len(x.walk.called)
  <2>1. x.walk.list \in 1 .. Len(ls) /\ x.walk.first \in Seq(Extensions)
        /\ Len(x.walk.first) <= Len(ls[x.walk.list]) /\ Len(x.walk.called) = x.walk.pos - 1
        /\ x.walk.pos \in Nat
    BY <1>1 DEF Sound
  <2>2. Len(ls[x.walk.list]) \in Nat /\ Len(x.walk.first) \in Nat
    BY <2>1
  <2> QED BY <1>1, <2>1, <2>2
<1> QED BY <1>1 DEF Sound
-----------------------------------------------------------------------------
WalkInv == ListInv /\ WalksSound

\* A walk whose path stays the same, or is none, under a change that it notes.
LEMMA ReplacedSound ==
    ASSUME NEW x, RequestShape(x), NEW ls, Sound(x, ls), NEW w, SamePath(w, x.walk),
           NEW y, y = [x EXCEPT !.walk = w]
    PROVE  Sound(y, ls)
<1>1. y.walk = w /\ y.at = x.at /\ y.hook = x.hook
  BY DEF RequestShape
<1> QED BY <1>1, SamePathSound

LEMMA RequestShapes ==
    ASSUME WalkInv, NEW r \in Requests
    PROVE  RequestShape(req[r]) /\ WalkShape(req[r].walk) /\ Sound(req[r], lists)
BY DEF WalkInv, WalksSound, ListInv, Inv, Shapes, RequestShape

LEMMA BeginAddSound ==
    ASSUME WalkInv, NEW c \in Callers, NEW e \in Extensions, NEW asFatal \in BOOLEAN, BeginAdd(c, e, asFatal)
    PROVE  WalksSound'
<1> DEFINE flagged == IF asFatal THEN {e} ELSE {}
<1>1. /\ lists' = [lists EXCEPT ![chain] = Append(@, e)]
      /\ req' = [r \in Requests |->
                     IF Walking(r) THEN [req[r] EXCEPT !.walk = Joined(req[r].walk, e, flagged)] ELSE req[r]]
  BY DEF BeginAdd, Noting
<1> HIDE DEF flagged
<1>2. /\ Len(lists') = Len(lists) /\ lists'[Len(lists)] = Append(lists[Len(lists)], e)
      /\ \A k \in 1 .. Len(lists) : k # Len(lists) => lists'[k] = lists[k]
      /\ lists \in Seq(Seq(Extensions))
  BY <1>1, ChainAppended DEF WalkInv, ListInv, Listed
<1>3. ASSUME NEW r \in Requests PROVE Sound(req'[r], lists')
  <2>1. RequestShape(req[r]) /\ WalkShape(req[r].walk) /\ Sound(req[r], lists)
    BY RequestShapes
  <2>2. CASE Walking(r)
    <3> DEFINE w == Joined(req[r].walk, e, flagged)
    <3>1. req'[r] = [req[r] EXCEPT !.walk = w]
      BY <1>1, <2>2
    <3>2. req'[r].walk = w /\ req'[r].at = req[r].at /\ req'[r].hook = req[r].hook
      <4> HIDE DEF w
      <4> QED BY <2>1, <3>1 DEF RequestShape
    <3>3. req[r].at = "walking"
      BY <2>2 DEF Walking
    <3> QED BY <1>2, <2>1, <3>2, <3>3, JoinedSound
  <2>3. CASE ~ Walking(r)
    <3>1. req'[r] = req[r] /\ req[r].at # "walking"
      BY <1>1, <2>3 DEF Walking
    <3> QED BY <1>2, <2>1, <3>1 DEF Sound
  <2> QED BY <2>2, <2>3
<1> QED BY <1>3 DEF WalksSound

LEMMA EndAddSound == ASSUME WalkInv, NEW c \in Callers, EndAdd(c) PROVE WalksSound'
<1> DEFINE flagged == IF op[c].fatal THEN {op[c].ext} ELSE {}
<1>1. /\ lists' = lists
      /\ req' = [r \in Requests |->
                     IF Walking(r) THEN [req[r] EXCEPT !.walk = Flagged(req[r].walk, flagged)] ELSE req[r]]
  BY DEF EndAdd, Noting
<1> HIDE DEF flagged
<1>2. ASSUME NEW r \in Requests PROVE Sound(req'[r], lists)
  <2>1. RequestShape(req[r]) /\ WalkShape(req[r].walk) /\ Sound(req[r], lists)
    BY RequestShapes
  <2> DEFINE w == Flagged(req[r].walk, flagged)
  <2>2. SamePath(w, req[r].walk)
    BY <2>1, WalkPaths
  <2>3. req'[r] = [req[r] EXCEPT !.walk = w] \/ req'[r] = req[r]
    BY <1>1
  <2> HIDE DEF w
  <2> QED BY <2>1, <2>2, <2>3, ReplacedSound
<1> QED BY <1>1, <1>2 DEF WalksSound

LEMMA BeginRemoveSound ==
    ASSUME WalkInv, NEW c \in Callers, NEW e \in Extensions, BeginRemove(c, e) PROVE WalksSound'
<1>1. /\ lists' = lists
      /\ req' = [r \in Requests |->
                     IF Walking(r) THEN [req[r] EXCEPT !.walk = Unregistered(req[r].walk, e)] ELSE req[r]]
  BY DEF BeginRemove, Noting
<1>2. ASSUME NEW r \in Requests PROVE Sound(req'[r], lists)
  <2>1. RequestShape(req[r]) /\ WalkShape(req[r].walk) /\ Sound(req[r], lists)
    BY RequestShapes
  <2> DEFINE w == Unregistered(req[r].walk, e)
  <2>2. SamePath(w, req[r].walk)
    BY <2>1, WalkPaths
  <2>3. req'[r] = [req[r] EXCEPT !.walk = w] \/ req'[r] = req[r]
    BY <1>1
  <2> HIDE DEF w
  <2> QED BY <2>1, <2>2, <2>3, ReplacedSound
<1> QED BY <1>1, <1>2 DEF WalksSound

LEMMA RebindSound == ASSUME WalkInv, NEW c \in Callers, Rebind(c) PROVE WalksSound'
<1>1. /\ lists' = Append(lists, Without(c))
      /\ req' = [r \in Requests |->
                     IF Walking(r) THEN [req[r] EXCEPT !.walk = Left(req[r].walk, op[c].ext)] ELSE req[r]]
  BY DEF Rebind, Noting
<1>2. Len(lists') = Len(lists) + 1 /\ \A k \in 1 .. Len(lists) : lists'[k] = lists[k]
  BY <1>1, FilteredList, ChainReplaced DEF WalkInv, ListInv
<1>3. Len(lists) \in Nat
  BY DEF WalkInv, ListInv, Listed
<1>4. ASSUME NEW r \in Requests PROVE Sound(req'[r], lists')
  <2>1. RequestShape(req[r]) /\ WalkShape(req[r].walk) /\ Sound(req[r], lists)
    BY RequestShapes
  <2> DEFINE w == Left(req[r].walk, op[c].ext)
  <2>2. SamePath(w, req[r].walk)
    BY <2>1, WalkPaths
  <2>3. req'[r] = [req[r] EXCEPT !.walk = w] \/ req'[r] = req[r]
    BY <1>1
  <2> HIDE DEF w
  <2>4. Sound(req'[r], lists)
    BY <2>1, <2>2, <2>3, ReplacedSound
  <2> QED BY <1>2, <1>3, <2>4, MoreListsSound
<1> QED BY <1>4 DEF WalksSound

\* The steps of a request.
LEMMA OneWalkSound ==
    ASSUME WalkInv, lists' = lists, NEW r \in Requests, NEW x, req' = [req EXCEPT ![r] = x], Sound(x, lists)
    PROVE  WalksSound'
BY DEF WalkInv, WalksSound, ListInv, Inv, Shapes

LEMMA CallSound ==
    ASSUME WalkInv, lists' = lists, NEW r \in Requests, NEW S, AtExtension(r),
           req' = [req EXCEPT ![r].walk = Called(req[r].walk, Current(r), S)]
    PROVE  WalksSound'
<1> DEFINE w == Called(req[r].walk, Current(r), S)
           y == [req[r] EXCEPT !.walk = w]
<1>1. RequestShape(req[r]) /\ WalkShape(req[r].walk) /\ Sound(req[r], lists)
  BY RequestShapes
<1>2. y.walk = w /\ y.at = req[r].at /\ y.hook = req[r].hook
  <2> HIDE DEF w
  <2> QED BY <1>1 DEF RequestShape
<1>3. lists \in Seq(Seq(Extensions))
  BY DEF WalkInv, ListInv, Listed
<1>4. Sound(y, lists)
  <2>1. req[r].at = "walking" /\ req[r].walk.pos <= Len(lists[req[r].walk.list])
        /\ w = Called(req[r].walk, lists[req[r].walk.list][req[r].walk.pos], S)
    BY DEF AtExtension, Walking, Current
  <2> HIDE DEF w, y
  <2> QED BY <1>1, <1>2, <1>3, <2>1, CalledSound
<1>5. req' = [req EXCEPT ![r] = y]
  BY Zenon DEF WalkInv, ListInv, Inv, Shapes
<1> HIDE DEF y
<1> QED BY <1>4, <1>5, OneWalkSound

LEMMA RequestSound ==
    ASSUME WalkInv, NEW r \in Requests,
           \/ BeginHook(r) \/ CallReturns(r) \/ CallSwallowed(r) \/ CallSurfaces(r)
           \/ EndHook(r) \/ RaisesBetween(r)
    PROVE  WalksSound'
<1>1. RequestShape(req[r]) /\ WalkShape(req[r].walk) /\ Sound(req[r], lists)
  BY RequestShapes
<1>2. /\ lists \in Seq(Seq(Extensions)) /\ lists # <<>> /\ chain = Len(lists)
      /\ req = [s \in Requests |-> req[s]]
  BY DEF WalkInv, ListInv, Listed, Inv, Shapes
<1>3. CASE BeginHook(r)
  <2> DEFINE y == [at |-> "walking", hook |-> req[r].hook + 1, by |-> None,
                   walk |-> Walk(chain, lists[chain])]
  <2>1. req' = [req EXCEPT ![r] = y] /\ lists' = lists
    BY <1>3 DEF BeginHook
  <2>2. y.at = "walking" /\ y.walk = Walk(Len(lists), lists[Len(lists)])
    BY <1>2
  <2> HIDE DEF y
  <2>3. Sound(y, lists)
    BY <1>2, <2>2, BegunSound
  <2> QED BY <2>1, <2>3, OneWalkSound
<1>4. CASE CallReturns(r)
  BY <1>4, CallSound DEF CallReturns
<1>5. CASE CallSwallowed(r)
  BY <1>5, CallSound DEF CallSwallowed
<1>6. CASE CallSurfaces(r)
  <2> DEFINE y == [req[r] EXCEPT !.at = "raised", !.by = Current(r)]
  <2>1. req' = [req EXCEPT ![r] = y] /\ lists' = lists
    BY <1>2, <1>6 DEF CallSurfaces
  <2>2. y.walk = req[r].walk /\ y.at = "raised" /\ y.hook = req[r].hook
    BY <1>1 DEF RequestShape
  <2> HIDE DEF y
  <2>3. Sound(y, lists)
    BY <1>1, <2>2 DEF Sound
  <2> QED BY <2>1, <2>3, OneWalkSound
<1>7. CASE EndHook(r)
  <2> DEFINE at == IF req[r].hook = Len(Hooks) THEN "returned" ELSE "between"
             y == [req[r] EXCEPT !.at = at]
  <2>1. /\ req' = [req EXCEPT ![r] = y] /\ lists' = lists
        /\ req[r].at = "walking" /\ ~ (req[r].walk.pos <= Len(lists[req[r].walk.list]))
        /\ at \in {"between", "returned"}
    BY <1>2, <1>7 DEF EndHook, Walking, AtExtension
  <2> HIDE DEF at
  <2>2. y.walk = req[r].walk /\ y.at = at /\ y.hook = req[r].hook
    BY <1>1 DEF RequestShape
  <2> HIDE DEF y
  <2>3. Sound(y, lists)
    BY <1>1, <1>2, <2>1, <2>2, EndedSound
  <2> QED BY <2>1, <2>3, OneWalkSound
<1>8. CASE RaisesBetween(r)
  <2> DEFINE y == [req[r] EXCEPT !.at = "raised"]
  <2>1. req' = [req EXCEPT ![r] = y] /\ lists' = lists
    BY <1>2, <1>8 DEF RaisesBetween
  <2>2. y.walk = req[r].walk /\ y.at = "raised" /\ y.hook = req[r].hook
    BY <1>1 DEF RequestShape
  <2> HIDE DEF y
  <2>3. Sound(y, lists)
    BY <1>1, <2>2 DEF Sound
  <2> QED BY <2>1, <2>3, OneWalkSound
<1> QED BY <1>3, <1>4, <1>5, <1>6, <1>7, <1>8

LEMMA InitSound == Init => WalksSound
<1> SUFFICES ASSUME Init, NEW r \in Requests PROVE Sound(req[r], lists)
  BY DEF WalksSound
<1> DEFINE w == req[r].walk
<1>1. /\ w.list = 1 /\ w.pos = 1 /\ w.first = Initial /\ w.joined = <<>> /\ w.called = <<>>
      /\ req[r].at = "between" /\ req[r].hook = 0
  BY DEF Init, Walk
<1>2. /\ Len(lists) = 1 /\ Initial \in Seq(Extensions) /\ <<>> \in Seq(Extensions)
      /\ Initial \o <<>> = Initial /\ Len(<<>>) = 0 /\ Len(Initial) \in Nat
  BY MiddlewareAssumption DEF Init, MiddlewareAssumption
<1>3. Begins(<<>>, Initial)
  BY <1>2 DEF Begins
<1> HIDE DEF w
<1> QED BY <1>1, <1>2, <1>3 DEF Sound, w

LEMMA NextSound == WalkInv /\ [Next]_vars => WalkInv'
<1> SUFFICES ASSUME WalkInv, [Next]_vars PROVE WalkInv'
  OBVIOUS
<1>1. ListInv'
  BY NextLists DEF WalkInv
<1>2. ASSUME NEW c \in Callers, NEW e \in Extensions,
             BeginRemove(c, e) \/ \E asFatal \in BOOLEAN : BeginAdd(c, e, asFatal)
      PROVE  WalksSound'
  BY <1>2, BeginRemoveSound, BeginAddSound
<1>3. ASSUME NEW c \in Callers, EndAdd(c) \/ Rebind(c) PROVE WalksSound'
  BY <1>3, EndAddSound, RebindSound
<1>4. ASSUME NEW c \in Callers, EndRemove(c) PROVE WalksSound'
  BY <1>4 DEF EndRemove, WalkInv, WalksSound
<1>5. CASE UNCHANGED vars
  <2>1. lists' = lists /\ req' = req
    BY <1>5 DEF vars
  <2>2. ASSUME NEW r \in Requests PROVE Sound(req'[r], lists')
    <3>1. Sound(req[r], lists)
      BY RequestShapes
    <3> QED BY <2>1, <3>1
  <2> QED BY <1>1, <2>2 DEF WalkInv, WalksSound
<1> QED BY <1>1, <1>2, <1>3, <1>4, <1>5, RequestSound DEF Next, WalkInv

LEMMA WalksAlways == Spec => []WalkInv
<1>1. Init => WalkInv
  BY InitInv, InitLists, InitSound DEF ListInv, WalkInv
<1> QED BY <1>1, NextSound, PTL DEF Spec

\* A beginning of a list, as the library says it, and the rest of it.
LEMMA BeginningIsPrefix ==
    ASSUME NEW X, NEW s \in Seq(X), NEW t \in Seq(X), Begins(s, t)
    PROVE  IsPrefix(s, t) /\ \E rest \in Seq(X) : t = s \o rest
<1> DEFINE rest == SubSeq(t, Len(s) + 1, Len(t))
<1>1. Len(s) <= Len(t) /\ \A i \in 1 .. Len(s) : s[i] = t[i]
  BY DEF Begins
<1>2. rest \in Seq(X) /\ t = s \o rest
  BY <1>1
<1>3. SubSeq(s, 1, Len(s)) = SubSeq(t, 1, Len(s))
  BY <1>1
<1> QED BY <1>1, <1>2, <1>3 DEF IsPrefix

\* Whatever is added and removed while a hook walks the chain, the walk calls what
\* stays on the chain, in order and as often as it is on it, and nothing else but
\* what joined the chain meanwhile.
THEOREM WalksCorrect == Spec => []WalkIsFaithful
<1>1. ASSUME WalkInv, NEW r \in Requests
      PROVE  LET walk == req[r].walk
             IN  /\ HookDone(r) => IsPrefix(Picked(walk.first, walk.stayed), Picked(walk.called, walk.stayed))
                 /\ IsPrefix(walk.called, walk.first \o walk.joined)
  <2> DEFINE w == req[r].walk
             all == w.first \o w.joined
  <2>1. /\ w.first \in Seq(Extensions) /\ w.joined \in Seq(Extensions) /\ w.called \in Seq(Extensions)
        /\ Begins(w.called, all)
        /\ HookDone(r) => Len(w.first) <= Len(w.called)
    BY <1>1 DEF WalkInv, WalksSound, Sound, HookDone
  <2> HIDE DEF w
  <2>2. all \in Seq(Extensions) /\ Begins(w.first, all)
    <3> DEFINE f == w.first
               j == w.joined
    <3>1. f \in Seq(Extensions) /\ j \in Seq(Extensions)
      BY <2>1
    <3> HIDE DEF f, j
    <3>2. f \o j \in Seq(Extensions) /\ Begins(f, f \o j)
      BY <3>1 DEF Begins
    <3> QED BY <3>2 DEF f, j
  <2> HIDE DEF all
  <2>3. IsPrefix(w.called, all)
    BY <2>1, <2>2, BeginningIsPrefix
  <2>4. ASSUME HookDone(r) PROVE IsPrefix(Picked(w.first, w.stayed), Picked(w.called, w.stayed))
    <3>1. Begins(w.first, w.called)
      BY <2>1, <2>2, <2>4, Beginnings
    <3>2. PICK rest \in Seq(Extensions) : w.called = w.first \o rest
      BY <2>1, <3>1, BeginningIsPrefix
    <3> QED BY <2>1, <3>2, PickedOfPrefix
  <2> QED BY <2>3, <2>4 DEF w, all
<1>2. WalkInv => WalkIsFaithful
  BY <1>1 DEF WalkIsFaithful
<1> QED BY <1>2, WalksAlways, PTL

\* The lists are lists of extensions, and walks are over lists there are.
THEOREM TypeCorrect == Spec => []TypeOK
<1>1. ASSUME WalkInv PROVE TypeOK
  <2>1. \A r \in Requests : req[r].walk.list \in 1 .. Len(lists) /\ req[r].walk.pos \in Nat \ {0}
    BY <1>1 DEF WalkInv, WalksSound, Sound
  <2>2. /\ lists \in Seq(Seq(Extensions)) /\ chain \in DOMAIN lists /\ DOMAIN lists = 1 .. Len(lists)
        /\ fatal \subseteq Extensions /\ strict \subseteq Extensions
    BY <1>1 DEF WalkInv, ListInv, Listed
  <2>3. \A c \in Callers : op[c].at # "idle" => op[c].ext \in Extensions
    BY <1>1 DEF WalkInv, ListInv, Inv, Shapes, CallShape
  <2> QED BY <2>1, <2>2, <2>3 DEF TypeOK
<1> QED BY <1>1, WalksAlways, PTL
=============================================================================
