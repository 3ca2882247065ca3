------------------------------- MODULE EventBag -------------------------------
(***************************************************************************)
(* What the event dispatcher promises to a component that sends it an      *)
(* event: the event is handled once or discarded once, and not both.       *)
(***************************************************************************)
CONSTANT Event

VARIABLES pending,      \* events that were sent and are neither
          handled,      \* events whose handler chain was called
          discarded     \* events whose discard chain was called

vars == <<pending, handled, discarded>>

Init == pending = {} /\ handled = {} /\ discarded = {}

Send(e) == /\ e \notin pending \cup handled \cup discarded
           /\ pending' = pending \cup {e}
           /\ UNCHANGED <<handled, discarded>>

Handle(e) == /\ e \in pending
             /\ pending' = pending \ {e}
             /\ handled' = handled \cup {e}
             /\ UNCHANGED discarded

Discard(e) == /\ e \in pending
              /\ pending' = pending \ {e}
              /\ discarded' = discarded \cup {e}
              /\ UNCHANGED handled

Next == \E e \in Event : Send(e) \/ Handle(e) \/ Discard(e)

Spec == Init /\ [][Next]_vars
===============================================================================
