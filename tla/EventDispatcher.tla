---------------------------- MODULE EventDispatcher ----------------------------
(***************************************************************************)
(* The dispatcher of events (flow/event.go): a bounded bus, and a pool of  *)
(* handlers that grows when the bus fills, shrinks when it stays empty and *)
(* replaces handlers that are late.                                        *)
(*                                                                         *)
(* A handlerLifecycle is a slot of the list `handlers'; the goroutines     *)
(* that execute its loop are workers, more than one for a slot when one is *)
(* replaced.  Time is left out: the timer of an idle handler may fire, and *)
(* the deadline of a running one may pass, at any moment.  `quit', which   *)
(* only a test of the repository uses, is left out too.                    *)
(***************************************************************************)
EXTENDS Integers, Sequences, FiniteSets

CONSTANTS Sender,       \* the goroutines that send events
          Worker,       \* bounds the goroutines that handle them
          None,
          MaxSends,     \* bound on the number of events
          Capacity,     \* of the bus
          MaxHandler,   \* maxHandler
          Share         \* 4 in the code: the part of the bus that asks for help

ASSUME DispatcherAssumption ==
    /\ IsFiniteSet(Sender) /\ IsFiniteSet(Worker)
    /\ MaxSends \in Nat /\ MaxHandler \in Nat
    /\ Capacity \in Nat \ {0} /\ Share \in Nat \ {0}
    /\ Sender \cap Worker = {}
    /\ None \notin Worker /\ None \notin 1..MaxSends

Event == 1..MaxSends

VARIABLES
    bus,        \* eventBus
    num,        \* handlerNum
    status,     \* status[h]: the status of slot h, a sequence
    latest,     \* latest[h]: counts the workers that slot h was given to
    sent,       \* events sent so far
    spc,        \* spc[s]: where sender s is
    hand,       \* hand[s]: the event of addHandler, or None
    found,      \* found[s]: the slot findHandler has found
    wpc,        \* wpc[w]: where worker w is, "none" if there is no goroutine
    slot,       \* slot[w]: the slot of worker w
    index,      \* index[w]: what latest was when its loop began
    event,      \* event[w]: the event worker w is to handle
    nth,        \* history: nth[w], what latest was when its slot was given to
                \* worker w, by a sender who had nth[s] before
    handled, discarded

bag == <<handled, discarded>>
senderVars == <<spc, hand, found>>
workerVars == <<wpc, slot, index, event, nth>>
pool == <<num, status, latest>>
vars == <<bus, pool, sent, senderVars, workerVars, bag>>

Slot == DOMAIN status
Idle == {w \in Worker : wpc[w] = "none"}

\* After boostHandler: one slot, and its worker at the beginning of loop(nil).
Init == /\ bus = <<>> /\ num = 1 /\ sent = 0
        /\ status = <<"running">> /\ latest = <<1>>
        /\ spc = [s \in Sender |-> "idle"]
        /\ hand = [s \in Sender |-> None]
        /\ found = [s \in Sender |-> 0]
        /\ \E w \in Worker : wpc = [x \in Worker |-> IF x = w THEN "load" ELSE "none"]
        /\ slot = [w \in Worker |-> 1]
        /\ index = [w \in Worker |-> 0]
        /\ event = [w \in Worker |-> None]
        /\ nth = [x \in Sender \cup Worker |-> 1]
        /\ handled = {} /\ discarded = {}

SenderAt(s, l) == spc[s] = l
SenderGoes(s, l) == spc' = [spc EXCEPT ![s] = l]

-------------------------------------------------------------------------------
(***************************************************************************)
(* send and addHandler.                                                    *)
(***************************************************************************)
\* Mutant: the handler that is asked for is given the event of the bus as well.
HelpWithEvent(e) == e

HelpWith(e) == None

Send(s) ==
    /\ SenderAt(s, "idle") /\ sent < MaxSends
    /\ sent' = sent + 1
    /\ \/ /\ Len(bus) < Capacity
          /\ bus' = Append(bus, sent + 1)
          /\ hand' = [hand EXCEPT ![s] = HelpWith(sent + 1)]
          /\ SenderGoes(s, "check")
       \/ /\ Len(bus) = Capacity
          /\ hand' = [hand EXCEPT ![s] = sent + 1]
          /\ SenderGoes(s, "count")
          /\ UNCHANGED bus
    /\ UNCHANGED <<pool, found, workerVars, bag>>

\* A long bus asks for a handler that is not bound to an event.
Check(s) == /\ SenderAt(s, "check")
            /\ SenderGoes(s, IF Len(bus) \div Share > num THEN "count" ELSE "idle")
            /\ UNCHANGED <<bus, pool, sent, hand, found, workerVars, bag>>

\* addHandler has no handler for the event in hand.
GiveUp(s) == /\ SenderGoes(s, "idle")
             /\ discarded' = discarded \cup ({hand[s]} \ {None})
             /\ UNCHANGED <<bus, num, latest, sent, hand, found, workerVars,
                            handled>>

\* The event that worker w begins with; it is taken up by the loop if None.
Launch(s) ==
    /\ SenderAt(s, "launch")
    /\ status' = [status EXCEPT ![found[s]] = "running"]
    /\ \E w \in Idle :
          /\ wpc' = [wpc EXCEPT ![w] = IF hand[s] = None THEN "load" ELSE "bind"]
          /\ slot' = [slot EXCEPT ![w] = found[s]]
          /\ event' = [event EXCEPT ![w] = hand[s]]
          /\ nth' = [nth EXCEPT ![w] = nth[s]]
    /\ SenderGoes(s, "idle")
    /\ UNCHANGED <<bus, num, latest, sent, hand, found, index, bag>>

-------------------------------------------------------------------------------
(***************************************************************************)
(* findHandler.                                                            *)
(***************************************************************************)
Full(n) == n > MaxHandler

Count(s) == /\ SenderAt(s, "count")
            /\ num' = num + 1
            /\ SenderGoes(s, IF Full(num + 1) THEN "uncount" ELSE "pick")
            /\ UNCHANGED <<bus, status, latest, sent, hand, found, workerVars,
                           bag>>

Uncount(s) == /\ SenderAt(s, "uncount")
              /\ num' = num - 1
              /\ SenderGoes(s, "replace")
              /\ UNCHANGED <<bus, status, latest, sent, hand, found, workerVars,
                             bag>>

\* A slot is claimed by a compare-and-swap of its status.
Claim(s, h, from, to) ==
    /\ status[h] = from
    /\ status' = [status EXCEPT ![h] = to]
    /\ found' = [found EXCEPT ![s] = h]
    /\ SenderGoes(s, "bump")
    /\ UNCHANGED <<bus, num, latest, sent, hand, workerVars, bag>>

Replace(s) == /\ SenderAt(s, "replace")
              /\ \/ \E h \in Slot : Claim(s, h, "running", "expired")
                 \/ GiveUp(s) /\ UNCHANGED status

\* len(handlers) and handlerNum are read again.
Pick(s) == /\ SenderAt(s, "pick")
           /\ SenderGoes(s, IF Len(status) < num THEN "append" ELSE "reuse")
           /\ UNCHANGED <<bus, pool, sent, hand, found, workerVars, bag>>

AppendSlot(s) == /\ SenderAt(s, "append")
                 /\ status' = Append(status, "idle")
                 /\ latest' = Append(latest, 0)
                 /\ found' = [found EXCEPT ![s] = Len(status) + 1]
                 /\ SenderGoes(s, "launch")
                 /\ nth' = [nth EXCEPT ![s] = 0]
                 /\ UNCHANGED <<bus, num, sent, hand, wpc, slot, index, event, bag>>

\* handlerNum is not counted back when there is no slot to use again.
Reuse(s) == /\ SenderAt(s, "reuse")
            /\ \/ \E h \in Slot : Claim(s, h, "unattached", "idle")
               \/ /\ \A h \in Slot : status[h] # "unattached"
                  /\ GiveUp(s) /\ UNCHANGED status

\* Mutant: the handler that is replaced is not told.
BumpNot(s) == /\ SenderAt(s, "bump")
              /\ SenderGoes(s, "launch")
              /\ nth' = [nth EXCEPT ![s] = latest[found[s]]]
              /\ UNCHANGED <<bus, pool, sent, hand, found, wpc, slot, index, event,
                             bag>>

Bump(s) == /\ SenderAt(s, "bump")
           /\ latest' = [latest EXCEPT ![found[s]] = @ + 1]
           /\ SenderGoes(s, "launch")
           /\ nth' = [nth EXCEPT ![s] = latest'[found[s]]]
           /\ UNCHANGED <<bus, num, status, sent, hand, found, wpc, slot, index,
                          event, bag>>

-------------------------------------------------------------------------------
(***************************************************************************)
(* loop.                                                                   *)
(***************************************************************************)
WorkerAt(w, l) == wpc[w] = l
WorkerGoes(w, l) == wpc' = [wpc EXCEPT ![w] = l]

\* The handler chain returns or panics.
Handle(w, from, to) == /\ WorkerAt(w, from)
                       /\ handled' = handled \cup {event[w]}
                       /\ event' = [event EXCEPT ![w] = None]
                       /\ WorkerGoes(w, to)
                       /\ UNCHANGED <<bus, pool, sent, senderVars, slot, nth,
                                      index, discarded>>

Load(w) == /\ WorkerAt(w, "load")
           /\ index' = [index EXCEPT ![w] = latest[slot[w]]]
           /\ WorkerGoes(w, "loop")
           /\ UNCHANGED <<bus, pool, sent, senderVars, slot, nth, event, bag>>

Take(w, from, to) == /\ WorkerAt(w, from) /\ bus # <<>>
                     /\ event' = [event EXCEPT ![w] = Head(bus)]
                     /\ bus' = Tail(bus)
                     /\ WorkerGoes(w, to)
                     /\ UNCHANGED <<pool, sent, senderVars, slot, nth, index,
                                    bag>>

Replaced(w) == index[w] # latest[slot[w]]

Again(w) == /\ WorkerAt(w, "again")
            /\ WorkerGoes(w, IF Replaced(w) THEN "none" ELSE "loop")
            /\ UNCHANGED <<bus, pool, sent, senderVars, slot, nth, index, event,
                           bag>>

-------------------------------------------------------------------------------
(***************************************************************************)
(* tryUnattached.                                                          *)
(***************************************************************************)
Swap(h, from, to) == status' = IF status[h] = from
                               THEN [status EXCEPT ![h] = to] ELSE status

Try(w) == /\ WorkerAt(w, "loop") /\ bus = <<>>
          /\ WorkerGoes(w, IF status[slot[w]] = "running" THEN "wait" ELSE "again")
          /\ Swap(slot[w], "running", "discard")
          /\ UNCHANGED <<bus, num, latest, sent, senderVars, slot, nth, index,
                         event, bag>>

\* The event that was waited for is handled; or nothing is removed yet.
Restore(w) == /\ WorkerAt(w, "restore") \/ WorkerAt(w, "wait")
              /\ Swap(slot[w], "discard", "running")
              /\ WorkerGoes(w, "again")
              /\ UNCHANGED <<bus, num, latest, sent, senderVars, slot, nth,
                             index, event, bag>>

\* The timer has fired and the last removal is a minute ago, which two handlers
\* do not see at the same time.
Unattach(w) == /\ WorkerAt(w, "wait")
               /\ \A x \in Worker : wpc[x] \notin {"minus", "keep", "plus"}
               /\ status' = [status EXCEPT ![slot[w]] = "unattached"]
               /\ WorkerGoes(w, "minus")
               /\ UNCHANGED <<bus, num, latest, sent, senderVars, slot, nth,
                              index, event, bag>>

Minus(w) == /\ WorkerAt(w, "minus")
            /\ num' = num - 1
            /\ WorkerGoes(w, IF num = 1 THEN "keep" ELSE "none")
            /\ UNCHANGED <<bus, status, latest, sent, senderVars, slot, nth,
                           index, event, bag>>

Keep(w) == /\ WorkerAt(w, "keep")
           /\ status' = [status EXCEPT ![slot[w]] = "running"]
           /\ WorkerGoes(w, "plus")
           /\ UNCHANGED <<bus, num, latest, sent, senderVars, slot, nth, index,
                          event, bag>>

\* Mutant: the handler that is kept is not counted again.
PlusForgotten(w) == /\ WorkerAt(w, "plus")
                    /\ WorkerGoes(w, "again")
                    /\ UNCHANGED <<bus, pool, sent, senderVars, slot, nth,
                                   index, event, bag>>

Plus(w) == /\ WorkerAt(w, "plus")
           /\ num' = num + 1
           /\ WorkerGoes(w, "again")
           /\ UNCHANGED <<bus, status, latest, sent, senderVars, slot, nth,
                          index, event, bag>>

-------------------------------------------------------------------------------
AddHandler(s) == Count(s) \/ Uncount(s) \/ Replace(s) \/ Pick(s) \/ AppendSlot(s)
                 \/ Reuse(s) \/ Bump(s) \/ Launch(s)

Work(w) == \/ Handle(w, "bind", "load") \/ Handle(w, "handle", "again")
           \/ Handle(w, "handleLate", "restore")
           \/ Load(w) \/ Take(w, "loop", "handle") \/ Take(w, "wait", "handleLate")
           \/ Again(w) \/ Try(w) \/ Minus(w) \/ Keep(w) \/ Plus(w)

Next == \/ \E s \in Sender : Send(s) \/ Check(s) \/ AddHandler(s)
        \/ \E w \in Worker : Work(w) \/ Restore(w) \/ Unattach(w)

Spec == Init /\ [][Next]_vars
-------------------------------------------------------------------------------
(***************************************************************************)
(* Properties.                                                             *)
(***************************************************************************)
Attached == {h \in Slot : status[h] \in {"running", "discard"}}

\* handlerNum counts every slot that is attached, however senders and handlers
\* meet in findHandler and tryUnattached; the handler that is kept as the last
\* one is counted again a step after its slot is attached again.  It is never
\* negative.
NumCovers ==
    /\ num >= 0
    /\ num + Cardinality({w \in Worker : wpc[w] = "plus"}) >= Cardinality(Attached)

\* "handler timeout and is replaced by the new" (event.go:267): a slot has at most
\* one goroutine in its loop that takes itself for the latest.  One is left out:
\* a goroutine that was replaced before it had read "latest", during the event it
\* was launched with, takes the number of its successor for its own and stays.
InLoop(w) == wpc[w] \in {"loop", "wait", "handle", "handleLate", "restore", "again"}

OneLoop ==
    \A h \in Slot :
        Cardinality({w \in Worker : /\ slot[w] = h /\ InLoop(w) /\ ~Replaced(w)
                                    /\ index[w] = nth[w]}) <= 1

\* The events that were sent, and are neither handled nor discarded.
inHand == {event[w] : w \in Worker}
          \cup {hand[s] : s \in {x \in Sender : spc[x] # "idle"}}
pending == {bus[i] : i \in DOMAIN bus} \cup (inHand \ {None})

Bag == INSTANCE EventBag
           WITH Event <- Event, pending <- pending, handled <- handled,
                discarded <- discarded

\* No event is handled twice, discarded after it was handled, or lost between the
\* bus, the sender that looks for a handler and the goroutine it launches.
RefinesEventBag == Bag!Spec
===============================================================================
