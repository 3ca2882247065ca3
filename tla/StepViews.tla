------------------------------ MODULE StepViews ------------------------------
(***************************************************************************)
(* What the contexts of a process promise: every step, and the process     *)
(* itself, has a view of its own.  A value that is set reaches the views   *)
(* of the steps behind its writer and no other, a result is shown to the   *)
(* steps behind the step that returned it, and a recovery begins with the  *)
(* views that were saved.  There is no table, no path and no index here.   *)
(***************************************************************************)
CONSTANTS Name,      \* the steps of the process
          Process,   \* the process itself
          Key,       \* the keys of values
          Value,     \* what can be set or returned
          Nothing,   \* the answer for a key that is not there
          Input      \* the value of each key in the context of the flow

VARIABLES
    up,      \* the steps that come before each step
    view,    \* what a step or the process gets for each key
    own,     \* what each step itself has set last for each key
    shown,   \* the result of each step as another step is shown it
    kept     \* the views of the last checkpoint, <<>> before it

vars == <<up, view, own, shown, kept>>

Actor == Name \cup {Process}

\* Whether actor r sees what actor w sets.
Sees(r, w) == r = Process \/ w = Process \/ w = r \/ w \in up[r]

Init == /\ up \in [Name -> SUBSET Name]
        /\ view = [r \in Actor |-> Input]
        /\ own = [n \in Name |-> [k \in Key |-> Nothing]]
        /\ shown = [n \in Name |-> [s \in Name |-> Nothing]]
        /\ kept = <<>>

\* The first conjunct follows from the second and spares TLC the values that are
\* not v.
Set(w, k, v) ==
    /\ view'[w][k] = v
    /\ view' = [r \in Actor |-> [x \in Key |->
                   IF x = k /\ Sees(r, w) THEN v ELSE view[r][x]]]
    /\ own' = [n \in Name |-> [x \in Key |->
                   IF x = k /\ n = w THEN v ELSE own[n][x]]]
    /\ UNCHANGED <<up, shown, kept>>

Return(s, v) ==
    /\ shown' = [n \in Name |-> [x \in Name |->
                    IF x = s /\ Sees(n, s) THEN v ELSE shown[n][x]]]
    /\ UNCHANGED <<up, view, own, kept>>

Save == /\ kept' = <<view, own, shown>>
        /\ UNCHANGED <<up, view, own, shown>>

Recover == /\ kept # <<>>
           /\ <<view, own, shown>>' = kept
           /\ UNCHANGED <<up, kept>>

Next == \/ \E w \in Actor, k \in Key, v \in Value : Set(w, k, v)
        \/ \E s \in Name, v \in Value : Return(s, v)
        \/ Save \/ Recover

Spec == Init /\ [][Next]_vars
===============================================================================
