------------------------------- MODULE Lists -------------------------------
(***************************************************************************)
(* What the code does with lists by Python's own means: a comprehension    *)
(* that keeps some of the elements, sorted() and sum().  The first two say *)
(* which elements by a set, not by an operator, and all recur as functions, *)
(* so that facts about them can be proved once and cited (ListsProofs).    *)
(***************************************************************************)
EXTENDS SequencesExt

\* [x for x in s if x in S]
Picked(s, S) ==
    LET picked[n \in 0 .. Len(s)] ==
            IF n = 0 THEN <<>>
            ELSE IF s[n] \in S THEN Append(picked[n - 1], s[n]) ELSE picked[n - 1]
    IN  picked[Len(s)]

\* How many of the first elements of t an element e does not come before.
Place(t, e, Before) ==
    CHOOSE k \in 0 .. Len(t) :
        /\ \A i \in 1 .. k : <<e, t[i]>> \notin Before
        /\ k < Len(t) => <<e, t[k + 1]>> \in Before

\* sorted(s), where the pairs in Before say which element comes before which.
Sorted(s, Before) ==
    LET sorted[n \in 0 .. Len(s)] ==
            IF n = 0 THEN <<>>
            ELSE LET t == sorted[n - 1] IN InsertAt(t, Place(t, s[n], Before) + 1, s[n])
    IN  sorted[Len(s)]

\* sum(s)
Total(s) ==
    LET total[n \in 0 .. Len(s)] == IF n = 0 THEN 0 ELSE total[n - 1] + s[n]
    IN  total[Len(s)]
=============================================================================
