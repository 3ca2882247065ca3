------------------------ MODULE EventDispatcher_proofs ------------------------
(***************************************************************************)
(* Proofs about the dispatcher of events, for any number of senders,       *)
(* handlers and events, any bus and any size of the pool.                  *)
(***************************************************************************)
EXTENDS EventDispatcher, SequenceTheorems, FiniteSetTheorems, TLAPS

(***************************************************************************)
(* Types.                                                                  *)
(***************************************************************************)
SlotStatus == {"idle", "running", "discard", "expired", "unattached"}

SenderPlace == {"idle", "check", "count", "uncount", "replace", "pick", "append",
                "reuse", "bump", "launch"}

WorkerPlace == {"none", "bind", "load", "loop", "handle", "handleLate", "again",
                "wait", "restore", "minus", "keep", "plus"}

SenderType == /\ spc \in [Sender -> SenderPlace]
              /\ hand \in [Sender -> Event \cup {None}]
              /\ found \in [Sender -> Nat]
              /\ \A s \in Sender : spc[s] \in {"bump", "launch"} => found[s] \in Slot

WorkerType == /\ wpc \in [Worker -> WorkerPlace]
              /\ slot \in [Worker -> Slot]
              /\ index \in [Worker -> Nat]
              /\ event \in [Worker -> Event \cup {None}]

PoolType == /\ num \in Int
            /\ status \in Seq(SlotStatus)
            /\ latest \in Seq(Nat) /\ Len(latest) = Len(status)
            /\ nth \in [Sender \cup Worker -> Nat]

DispatchType == /\ bus \in Seq(Event) /\ sent \in Nat /\ Capacity \in Nat
                /\ SenderType /\ WorkerType /\ PoolType

\* What an action does to the status of one slot.
LEMMA StatusChange ==
  ASSUME PoolType, NEW h \in Slot, NEW to \in SlotStatus,
         status' = [status EXCEPT ![h] = to]
  PROVE  /\ status' \in Seq(SlotStatus) /\ Len(status') = Len(status)
         /\ Slot' = Slot
         /\ status'[h] = to /\ \A x \in Slot \ {h} : status'[x] = status[x]
<1>1. status \in Seq(SlotStatus) /\ Slot = 1..Len(status)
  BY LenProperties DEF PoolType, Slot
<1>2. /\ status' \in Seq(SlotStatus) /\ Len(status') = Len(status)
      /\ status'[h] = to /\ \A x \in 1..Len(status) : x # h => status'[x] = status[x]
  BY <1>1, ExceptSeq
<1>3. Slot' = 1..Len(status')
  BY <1>2, LenProperties DEF Slot
<1>4. QED
  BY <1>1, <1>2, <1>3

LEMMA SwapChange ==
  ASSUME PoolType, NEW h \in Slot, NEW from, NEW to \in SlotStatus, Swap(h, from, to)
  PROVE  /\ status' \in Seq(SlotStatus) /\ Len(status') = Len(status)
         /\ Slot' = Slot
         /\ status'[h] = IF status[h] = from THEN to ELSE status[h]
         /\ \A x \in Slot \ {h} : status'[x] = status[x]
<1>1. CASE status[h] = from
  <2>1. status' = [status EXCEPT ![h] = to]
    BY <1>1 DEF Swap
  <2>2. QED
    BY <1>1, <2>1, StatusChange
<1>2. CASE status[h] # from
  BY <1>2 DEF Swap, PoolType, Slot
<1>3. QED
  BY <1>1, <1>2

LEMMA AppendChange ==
  ASSUME PoolType, NEW s \in Sender, AppendSlot(s)
  PROVE  /\ PoolType' /\ Slot' = Slot \cup {Len(status) + 1}
         /\ Len(status) + 1 \notin Slot /\ Slot = 1..Len(status)
         /\ status'[Len(status) + 1] = "idle" /\ latest'[Len(status) + 1] = 0
         /\ \A x \in Slot : status'[x] = status[x] /\ latest'[x] = latest[x]
<1>1. /\ status \in Seq(SlotStatus) /\ latest \in Seq(Nat) /\ Len(latest) = Len(status)
      /\ status' = Append(status, "idle") /\ latest' = Append(latest, 0)
      /\ "idle" \in SlotStatus /\ 0 \in Nat
  BY DEF PoolType, AppendSlot, SlotStatus
<1>2. /\ status' \in Seq(SlotStatus) /\ latest' \in Seq(Nat)
      /\ Len(status') = Len(status) + 1 /\ Len(latest') = Len(status')
      /\ Len(status) \in Nat
      /\ status'[Len(status) + 1] = "idle" /\ latest'[Len(status) + 1] = 0
      /\ \A x \in 1..Len(status) : status'[x] = status[x] /\ latest'[x] = latest[x]
  BY <1>1, AppendProperties, LenProperties
<1>3. Slot = 1..Len(status) /\ Slot' = 1..(Len(status) + 1)
  BY <1>1, <1>2, LenProperties DEF Slot
<1>4. num' \in Int /\ nth' \in [Sender \cup Worker -> Nat]
  BY DEF AppendSlot, PoolType
<1>5. QED
  BY <1>2, <1>3, <1>4 DEF PoolType

LEMMA BumpChange ==
  ASSUME PoolType, NEW s \in Sender, found[s] \in Slot, Bump(s)
  PROVE  /\ PoolType' /\ Slot' = Slot
         /\ latest'[found[s]] = latest[found[s]] + 1 /\ nth'[s] = latest[found[s]] + 1
         /\ \A x \in Slot \ {found[s]} : latest'[x] = latest[x]
<1>1. /\ status \in Seq(SlotStatus) /\ latest \in Seq(Nat) /\ Len(latest) = Len(status)
      /\ Slot = 1..Len(status) /\ DOMAIN latest = 1..Len(status)
  BY LenProperties DEF PoolType, Slot
<1>2. latest[found[s]] + 1 \in Nat
  BY <1>1, ElementOfSeq
<1>3. latest' = [latest EXCEPT ![found[s]] = latest[found[s]] + 1]
  BY DEF Bump
<1>4. /\ latest' \in Seq(Nat) /\ Len(latest') = Len(status)
      /\ latest'[found[s]] = latest[found[s]] + 1
      /\ \A x \in 1..Len(status) : x # found[s] => latest'[x] = latest[x]
  BY <1>1, <1>2, <1>3, ExceptSeq
<1>5. /\ nth' \in [Sender \cup Worker -> Nat] /\ nth'[s] = latest[found[s]] + 1
      /\ UNCHANGED <<num, status>>
  BY <1>2, <1>4 DEF Bump, PoolType
<1>6. QED
  BY <1>1, <1>4, <1>5 DEF PoolType, Slot

LEMMA TypeInit == Init => DispatchType
<1> SUFFICES ASSUME Init PROVE DispatchType
  OBVIOUS
<1>1. Slot = {1} /\ status \in Seq(SlotStatus) /\ latest \in Seq(Nat)
      /\ Len(latest) = Len(status)
  BY DEF Init, Slot, SlotStatus
<1>2. SenderType /\ WorkerType
  BY <1>1 DEF Init, SenderType, WorkerType, SenderPlace, WorkerPlace
<1>3. PoolType
  BY <1>1 DEF Init, PoolType
<1>4. QED
  BY <1>2, <1>3, DispatcherAssumption DEF Init, DispatchType

\* The actions of a sender that leave the slots as they are.
LEMMA SenderKeepsType ==
  ASSUME DispatchType, NEW s \in Sender,
         Send(s) \/ Check(s) \/ Count(s) \/ Uncount(s) \/ Pick(s)
         \/ (GiveUp(s) /\ UNCHANGED status)
  PROVE  DispatchType'
<1>1. CASE Send(s)
  <2>1. sent + 1 \in Event /\ sent' = sent + 1
    BY <1>1, DispatcherAssumption DEF Send, Event, DispatchType
  <2>2. /\ hand' \in [Sender -> Event \cup {None}]
        /\ (bus' = bus \/ bus' = Append(bus, sent + 1))
        /\ \E l \in {"check", "count"} : SenderGoes(s, l)
    BY <1>1, <2>1 DEF Send, HelpWith, DispatchType, SenderType
  <2>3. bus' \in Seq(Event) /\ sent' \in Nat
    BY <2>1, <2>2, AppendProperties DEF DispatchType
  <2>4. SenderType'
    BY <1>1, <2>2 DEF Send, SenderGoes, SenderPlace, DispatchType, SenderType, pool, Slot
  <2>5. QED
    BY <1>1, <2>3, <2>4 DEF Send, DispatchType, WorkerType, PoolType, pool, workerVars, Slot
<1>2. CASE Check(s)
  <2>1. \E l \in {"count", "idle"} : SenderGoes(s, l)
    BY <1>2 DEF Check
  <2>2. QED
    BY <1>2, <2>1 DEF Check, SenderGoes, DispatchType, SenderType, WorkerType, PoolType,
       pool, workerVars, SenderPlace, Slot
<1>3. CASE Count(s) \/ Uncount(s)
  <2>1. num' \in Int /\ \E l \in {"uncount", "pick", "replace"} : SenderGoes(s, l)
    BY <1>3 DEF Count, Uncount, DispatchType, PoolType
  <2>2. UNCHANGED <<bus, status, latest, sent, hand, found, workerVars>>
    BY <1>3 DEF Count, Uncount
  <2>3. QED
    BY <2>1, <2>2 DEF SenderGoes, DispatchType, SenderType, WorkerType, PoolType,
       workerVars, SenderPlace, Slot
<1>4. CASE Pick(s) \/ (GiveUp(s) /\ UNCHANGED status)
  BY <1>4 DEF Pick, GiveUp, SenderAt, SenderGoes, DispatchType, SenderType, WorkerType,
     PoolType, pool, workerVars, SenderPlace, Slot
<1>5. QED
  BY <1>1, <1>2, <1>3, <1>4

LEMMA ClaimKeepsType ==
  ASSUME DispatchType, NEW s \in Sender, NEW h \in Slot, NEW from, NEW to \in SlotStatus,
         Claim(s, h, from, to)
  PROVE  DispatchType'
<1>1. status' \in Seq(SlotStatus) /\ Len(status') = Len(status) /\ Slot' = Slot
  BY StatusChange DEF Claim, DispatchType
<1>2. QED
  BY <1>1 DEF Claim, SenderGoes, DispatchType, SenderType, WorkerType, PoolType, workerVars,
     SenderPlace

LEMMA SlotsKeepType ==
  ASSUME DispatchType, NEW s \in Sender, AppendSlot(s) \/ Bump(s) \/ Launch(s)
  PROVE  DispatchType'
<1>1. CASE AppendSlot(s)
  <2>1. PoolType' /\ Slot \subseteq Slot' /\ Len(status) + 1 \in Slot' /\ Len(status) \in Nat
    BY <1>1, AppendChange, LenProperties DEF DispatchType, PoolType
  <2>2. QED
    BY <1>1, <2>1 DEF AppendSlot, SenderGoes, DispatchType, SenderType, WorkerType,
       SenderPlace
<1>2. CASE Bump(s)
  <2>1. PoolType' /\ Slot' = Slot
    BY <1>2, BumpChange DEF DispatchType, SenderType, Bump, SenderAt
  <2>2. QED
    BY <1>2, <2>1 DEF Bump, SenderAt, SenderGoes, DispatchType, SenderType, WorkerType,
       SenderPlace
<1>3. CASE Launch(s)
  <2>1. found[s] \in Slot
    BY <1>3 DEF Launch, SenderAt, DispatchType, SenderType
  <2>2. status' \in Seq(SlotStatus) /\ Len(status') = Len(status) /\ Slot' = Slot
    BY <1>3, <2>1, StatusChange DEF Launch, DispatchType, SlotStatus
  <2>3. PICK w \in Idle :
            /\ wpc' = [wpc EXCEPT ![w] = IF hand[s] = None THEN "load" ELSE "bind"]
            /\ slot' = [slot EXCEPT ![w] = found[s]]
            /\ event' = [event EXCEPT ![w] = hand[s]]
            /\ nth' = [nth EXCEPT ![w] = nth[s]]
    BY <1>3 DEF Launch
  <2>4. SenderType'
    BY <1>3, <2>2 DEF Launch, SenderGoes, DispatchType, SenderType, SenderPlace
  <2>5. WorkerType'
    BY <1>3, <2>1, <2>2, <2>3 DEF Launch, DispatchType, SenderType, WorkerType,
       WorkerPlace, Idle
  <2>6. nth' \in [Sender \cup Worker -> Nat]
    BY <2>3 DEF DispatchType, PoolType, Idle
  <2>7. QED
    BY <1>3, <2>2, <2>4, <2>5, <2>6 DEF Launch, DispatchType, PoolType
<1>4. QED
  BY <1>1, <1>2, <1>3

LEMMA WorkerKeepsType ==
  ASSUME DispatchType, NEW w \in Worker, Work(w) \/ Restore(w) \/ Unattach(w)
  PROVE  DispatchType'
<1>1. slot[w] \in Slot /\ PoolType /\ latest[slot[w]] \in Nat
  BY LenProperties, ElementOfSeq DEF DispatchType, WorkerType, PoolType, Slot
<1>2. ASSUME NEW from, NEW to \in WorkerPlace, Handle(w, from, to) PROVE DispatchType'
  BY <1>2 DEF Handle, WorkerGoes, DispatchType, SenderType, WorkerType, PoolType, pool,
     senderVars, Slot
<1>3. ASSUME NEW from, NEW to \in WorkerPlace, Take(w, from, to) PROVE DispatchType'
  <2>1. Head(bus) \in Event /\ bus' \in Seq(Event)
    BY <1>3, HeadTailProperties DEF Take, DispatchType
  <2>2. QED
    BY <1>3, <2>1 DEF Take, WorkerGoes, DispatchType, SenderType, WorkerType, PoolType, pool,
       senderVars, Slot
<1>4. CASE Load(w) \/ Again(w)
  <2>1. index' \in [Worker -> Nat]
    BY <1>1, <1>4 DEF Load, Again, DispatchType, WorkerType
  <2>2. wpc' \in [Worker -> WorkerPlace]
    BY <1>4 DEF Load, Again, WorkerGoes, DispatchType, WorkerType, WorkerPlace
  <2>3. UNCHANGED <<bus, pool, sent, senderVars, slot, nth, event>>
    BY <1>4 DEF Load, Again
  <2>4. QED
    BY <2>1, <2>2, <2>3 DEF DispatchType, SenderType, WorkerType, PoolType, pool,
       senderVars, Slot
<1>5. CASE Minus(w) \/ Plus(w)
  <2>1. num' \in Int /\ \E l \in {"keep", "none", "again"} : WorkerGoes(w, l)
    BY <1>5 DEF Minus, Plus, DispatchType, PoolType
  <2>2. UNCHANGED <<bus, status, latest, sent, senderVars, slot, nth, index, event>>
    BY <1>5 DEF Minus, Plus
  <2>3. QED
    BY <2>1, <2>2 DEF WorkerGoes, DispatchType, SenderType, WorkerType, PoolType,
       senderVars, WorkerPlace, Slot
<1>6. CASE Try(w) \/ Restore(w)
  <2>1. status' \in Seq(SlotStatus) /\ Len(status') = Len(status) /\ Slot' = Slot
    BY <1>1, <1>6, SwapChange DEF Try, Restore, SlotStatus
  <2>2. QED
    BY <1>6, <2>1 DEF Try, Restore, WorkerGoes, DispatchType, SenderType, WorkerType,
       PoolType, senderVars, WorkerPlace
<1>7. CASE Unattach(w) \/ Keep(w)
  <2>1. status' \in Seq(SlotStatus) /\ Len(status') = Len(status) /\ Slot' = Slot
    BY <1>1, <1>7, StatusChange DEF Unattach, Keep, SlotStatus
  <2>2. QED
    BY <1>7, <2>1 DEF Unattach, Keep, WorkerGoes, DispatchType, SenderType, WorkerType,
       PoolType, senderVars, WorkerPlace
<1>8. QED
  BY <1>2, <1>3, <1>4, <1>5, <1>6, <1>7 DEF Work, WorkerPlace

LEMMA TypeNext == DispatchType /\ [Next]_vars => DispatchType'
<1> SUFFICES ASSUME DispatchType, [Next]_vars PROVE DispatchType'
  OBVIOUS
<1>1. ASSUME UNCHANGED vars PROVE DispatchType'
  BY <1>1 DEF vars, DispatchType, SenderType, WorkerType, PoolType, pool, senderVars,
     workerVars, Slot
<1>2. ASSUME NEW s \in Sender, Replace(s) \/ Reuse(s) PROVE DispatchType'
  <2>1. \/ GiveUp(s) /\ UNCHANGED status
        \/ \E h \in Slot : Claim(s, h, "running", "expired")
        \/ \E h \in Slot : Claim(s, h, "unattached", "idle")
    BY <1>2 DEF Replace, Reuse
  <2>2. QED
    BY <2>1, SenderKeepsType, ClaimKeepsType DEF SlotStatus
<1>3. ASSUME NEW s \in Sender, Send(s) \/ Check(s) \/ AddHandler(s) PROVE DispatchType'
  BY <1>2, <1>3, SenderKeepsType, SlotsKeepType DEF AddHandler
<1>4. QED
  BY <1>1, <1>3, WorkerKeepsType DEF Next

\* Every variable of the dispatcher keeps its type.
THEOREM DispatchTypeCorrect == Spec => []DispatchType
  BY TypeInit, TypeNext, PTL DEF Spec

-------------------------------------------------------------------------------
(***************************************************************************)
(* A slot has one goroutine in its loop: "latest" gives each goroutine     *)
(* that a slot was given to a number of its own.                           *)
(***************************************************************************)
Given(s) == spc[s] = "launch"

Active(w) == wpc[w] # "none"

NumbersLow == /\ \A w \in Worker : Active(w) => nth[w] <= latest[slot[w]]
              /\ \A s \in Sender : Given(s) => nth[s] <= latest[found[s]]

NumbersDiffer ==
    /\ \A w, x \in Worker : Active(w) /\ Active(x) /\ w # x /\ slot[w] = slot[x]
                               => nth[w] # nth[x]
    /\ \A w \in Worker, s \in Sender : Active(w) /\ Given(s) /\ slot[w] = found[s]
                               => nth[w] # nth[s]
    /\ \A s, t \in Sender : Given(s) /\ Given(t) /\ s # t /\ found[s] = found[t]
                               => nth[s] # nth[t]

NumberInv == NumbersLow /\ NumbersDiffer

LEMMA NumberInit == Init => NumberInv
  BY DEF Init, NumberInv, NumbersLow, NumbersDiffer, Given, Active

\* What gives no slot to anybody.
LEMMA QuietKeepsNumbers ==
  ASSUME NumberInv, UNCHANGED <<latest, nth, slot>>,
         \A w \in Worker : wpc'[w] # "none" => wpc[w] # "none",
         \A s \in Sender : spc'[s] = "launch" =>
                              spc[s] = "launch" /\ found'[s] = found[s]
  PROVE  NumberInv'
  BY DEF NumberInv, NumbersLow, NumbersDiffer, Given, Active

LEMMA AppendKeepsNumbers ==
  ASSUME DispatchType, NumberInv, NEW s \in Sender, AppendSlot(s)
  PROVE  NumberInv'
<1>1. /\ Len(status) + 1 \notin Slot /\ latest'[Len(status) + 1] = 0
      /\ \A x \in Slot : latest'[x] = latest[x]
  BY AppendChange DEF DispatchType
<1>2. /\ found'[s] = Len(status) + 1 /\ nth'[s] = 0 /\ spc'[s] = "launch"
      /\ \A t \in Sender \ {s} : UNCHANGED <<spc[t], found[t], nth[t]>>
      /\ \A w \in Worker : nth'[w] = nth[w]
      /\ UNCHANGED <<wpc, slot>>
  BY DispatcherAssumption DEF AppendSlot, SenderGoes, DispatchType, SenderType, PoolType
<1>3. /\ \A w \in Worker : slot[w] \in Slot
      /\ \A t \in Sender : spc[t] = "launch" => found[t] \in Slot
  BY DEF DispatchType, SenderType, WorkerType
<1>4. NumbersLow'
  BY <1>1, <1>2, <1>3 DEF NumberInv, NumbersLow, Given, Active
<1>5. NumbersDiffer'
  BY <1>1, <1>2, <1>3 DEF NumberInv, NumbersDiffer, Given, Active
<1>6. QED
  BY <1>4, <1>5 DEF NumberInv

LEMMA BumpKeepsNumbers ==
  ASSUME DispatchType, NumberInv, NEW s \in Sender, Bump(s)
  PROVE  NumberInv'
<1>1. /\ found[s] \in Slot /\ spc[s] = "bump"
      /\ latest'[found[s]] = latest[found[s]] + 1 /\ nth'[s] = latest[found[s]] + 1
      /\ \A x \in Slot \ {found[s]} : latest'[x] = latest[x]
  BY BumpChange DEF DispatchType, SenderType, Bump, SenderAt
<1>2. /\ \A t \in Sender \ {s} : UNCHANGED <<spc[t], nth[t]>>
      /\ \A w \in Worker : nth'[w] = nth[w]
      /\ UNCHANGED <<wpc, slot, found>>
  BY DispatcherAssumption DEF Bump, SenderGoes, DispatchType, SenderType, PoolType
<1>3. /\ \A w \in Worker : slot[w] \in Slot /\ nth[w] \in Nat
      /\ \A t \in Sender : nth[t] \in Nat /\ (spc[t] = "launch" => found[t] \in Slot)
      /\ \A x \in Slot : latest[x] \in Nat
  BY LenProperties, ElementOfSeq DEF DispatchType, SenderType, WorkerType, PoolType, Slot
<1>4. NumbersLow'
  BY <1>1, <1>2, <1>3 DEF NumberInv, NumbersLow, Given, Active
<1>5. NumbersDiffer'
  BY <1>1, <1>2, <1>3 DEF NumberInv, NumbersLow, NumbersDiffer, Given, Active
<1>6. QED
  BY <1>4, <1>5 DEF NumberInv

LEMMA LaunchKeepsNumbers ==
  ASSUME DispatchType, NumberInv, NEW s \in Sender, Launch(s)
  PROVE  NumberInv'
<1>1. PICK w \in Idle : /\ slot' = [slot EXCEPT ![w] = found[s]]
                        /\ nth' = [nth EXCEPT ![w] = nth[s]]
                        /\ \E l \in WorkerPlace : wpc' = [wpc EXCEPT ![w] = l]
  BY DEF Launch, WorkerPlace
<1>2. /\ spc[s] = "launch" /\ spc'[s] = "idle" /\ UNCHANGED <<latest, found>>
      /\ \A t \in Sender \ {s} : spc'[t] = spc[t]
  BY DEF Launch, SenderAt, SenderGoes, DispatchType, SenderType
<1>3. /\ w \in Worker /\ wpc[w] = "none" /\ slot'[w] = found[s] /\ nth'[w] = nth[s]
      /\ \A x \in Worker \ {w} : UNCHANGED <<slot[x], nth[x], wpc[x]>>
      /\ \A t \in Sender : nth'[t] = nth[t]
  BY <1>1, DispatcherAssumption DEF Idle, DispatchType, WorkerType, PoolType
<1>4. NumbersLow'
  BY <1>2, <1>3 DEF NumberInv, NumbersLow, Given, Active
<1>5. NumbersDiffer'
  BY <1>2, <1>3 DEF NumberInv, NumbersDiffer, Given, Active
<1>6. QED
  BY <1>4, <1>5 DEF NumberInv

LEMMA NumberNext == DispatchType /\ NumberInv /\ [Next]_vars => NumberInv'
<1> SUFFICES ASSUME DispatchType, NumberInv, [Next]_vars PROVE NumberInv'
  OBVIOUS
<1>1. ASSUME UNCHANGED vars PROVE NumberInv'
  BY <1>1, QuietKeepsNumbers DEF vars, pool, senderVars, workerVars
<1>2. ASSUME NEW s \in Sender,
             \/ Send(s) \/ Check(s) \/ Count(s) \/ Uncount(s) \/ Replace(s) \/ Pick(s)
             \/ Reuse(s)
      PROVE NumberInv'
  <2>1. /\ UNCHANGED <<latest, nth, slot, wpc>> /\ spc'[s] # "launch"
        /\ \A t \in Sender \ {s} : UNCHANGED <<spc[t], found[t]>>
    BY <1>2 DEF Send, Check, Count, Uncount, Replace, Pick, Reuse, Claim, GiveUp,
       SenderGoes, pool, workerVars, DispatchType, SenderType
  <2>2. QED
    BY <2>1, QuietKeepsNumbers
<1>3. ASSUME NEW w \in Worker, Work(w) \/ Restore(w) \/ Unattach(w) PROVE NumberInv'
  <2>1. /\ UNCHANGED <<latest, nth, slot, spc, found>> /\ wpc[w] # "none"
        /\ \A x \in Worker \ {w} : wpc'[x] = wpc[x]
    BY <1>3 DEF Work, Handle, Load, Take, Again, Try, Minus, Keep, Plus, Restore, Unattach,
       WorkerGoes, WorkerAt, pool, senderVars, DispatchType, WorkerType
  <2>2. QED
    BY <2>1, QuietKeepsNumbers
<1>4. QED
  BY <1>1, <1>2, <1>3, AppendKeepsNumbers, BumpKeepsNumbers, LaunchKeepsNumbers
     DEF Next, AddHandler

\* A handler that was replaced leaves the loop to its successor, however many are
\* replaced at once; one that had not read "latest" yet is left out (loop).
THEOREM OneLoopCorrect == Spec => []OneLoop
<1>1. ASSUME DispatchType, NumberInv, NEW h \in Slot
      PROVE  Cardinality({w \in Worker : /\ slot[w] = h /\ InLoop(w) /\ ~Replaced(w)
                                         /\ index[w] = nth[w]}) <= 1
  <2> DEFINE own == {w \in Worker : /\ slot[w] = h /\ InLoop(w) /\ ~Replaced(w)
                                    /\ index[w] = nth[w]}
  <2>1. ASSUME NEW w \in own, NEW x \in own PROVE w = x
    BY <1>1, <2>1 DEF NumberInv, NumbersDiffer, Active, InLoop, Replaced
  <2>2. own = {} \/ \E w : own = {w}
    BY <2>1
  <2>3. Cardinality(own) <= 1
    <3>1. own = {} => Cardinality(own) = 0
      BY FS_EmptySet
    <3>2. ASSUME NEW w, own = {w} PROVE Cardinality(own) = 1
      BY <3>2, FS_Singleton
    <3> HIDE DEF own
    <3>3. QED
      BY <2>2, <3>1, <3>2
  <2>4. QED
    BY <2>3
<1>2. DispatchType /\ NumberInv => OneLoop
  BY <1>1 DEF OneLoop
<1>3. QED
  BY <1>2, TypeInit, TypeNext, NumberInit, NumberNext, PTL DEF Spec

-------------------------------------------------------------------------------
(***************************************************************************)
(* handlerNum.  A slot that runs has been counted, and so has a sender that *)
(* is about to make one run and a handler that is about to be counted off. *)
(***************************************************************************)
Counted == {s \in Sender : spc[s] \in {"uncount", "pick", "append", "reuse"}}

Busy == {s \in Sender : spc[s] \in {"uncount", "pick", "append", "reuse", "bump", "launch"}}

Running == {h \in Slot : status[h] = "running"}

Owing == {w \in Worker : wpc[w] \in {"wait", "handleLate", "restore", "minus"}}

Leaving == {w \in Worker : wpc[w] = "minus"}

Pluses == {w \in Worker : wpc[w] = "plus"}

EnoughCounted == num + Cardinality(Pluses) >=
                     Cardinality(Busy) + Cardinality(Running) + Cardinality(Owing)

CountedFew == num >= Cardinality(Counted) + Cardinality(Leaving)

\* One handler at a time is counted off.
OneLeaves ==
    \A w, x \in Worker :
        wpc[w] \in {"minus", "keep", "plus"} /\ wpc[x] \in {"minus", "keep", "plus"}
        => w = x

\* A handler waits for an event, or handles it, in each slot that may be discarded.
DiscardWaits == \A h \in Slot : status[h] = "discard" =>
                    \E w \in Owing \ Leaving : slot[w] = h

CountInv == EnoughCounted /\ CountedFew /\ OneLeaves /\ DiscardWaits

LEMMA CardinalityBounds ==
  ASSUME NEW S, IsFiniteSet(S), NEW T
  PROVE  /\ Cardinality(S) \in Nat
         /\ T \subseteq S => Cardinality(T) \in Nat /\ Cardinality(T) <= Cardinality(S)
         /\ \A x : T \subseteq S \cup {x} =>
               Cardinality(T) \in Nat /\ Cardinality(T) <= Cardinality(S) + 1
         /\ \A x \in S : T \subseteq S \ {x} =>
               Cardinality(T) \in Nat /\ Cardinality(T) <= Cardinality(S) - 1
         /\ \A x : x \notin S /\ T = S \cup {x} => Cardinality(T) = Cardinality(S) + 1
<1>1. Cardinality(S) \in Nat
  BY FS_CardinalityType
<1>2. T \subseteq S => Cardinality(T) \in Nat /\ Cardinality(T) <= Cardinality(S)
  BY FS_Subset, FS_CardinalityType
<1>3. ASSUME NEW x, T \subseteq S \cup {x}
      PROVE  Cardinality(T) \in Nat /\ Cardinality(T) <= Cardinality(S) + 1
  <2>1. IsFiniteSet(S \cup {x}) /\ Cardinality(S \cup {x}) <= Cardinality(S) + 1
    BY <1>1, FS_AddElement
  <2>2. IsFiniteSet(T) /\ Cardinality(T) <= Cardinality(S \cup {x})
    BY <1>3, <2>1, FS_Subset
  <2>3. Cardinality(T) \in Nat /\ Cardinality(S \cup {x}) \in Nat
    BY <2>1, <2>2, FS_CardinalityType
  <2>4. QED
    BY <1>1, <2>1, <2>2, <2>3
<1>4. ASSUME NEW x \in S, T \subseteq S \ {x}
      PROVE  Cardinality(T) \in Nat /\ Cardinality(T) <= Cardinality(S) - 1
  <2>1. IsFiniteSet(S \ {x}) /\ Cardinality(S \ {x}) = Cardinality(S) - 1
    BY <1>4, FS_RemoveElement
  <2>2. IsFiniteSet(T) /\ Cardinality(T) <= Cardinality(S \ {x})
    BY <1>4, <2>1, FS_Subset
  <2>3. Cardinality(T) \in Nat
    BY <2>2, FS_CardinalityType
  <2>4. QED
    BY <2>1, <2>2, <2>3
<1>5. ASSUME NEW x, x \notin S, T = S \cup {x} PROVE Cardinality(T) = Cardinality(S) + 1
  BY <1>5, FS_AddElement
<1>6. QED
  BY <1>1, <1>2, <1>3, <1>4, <1>5

LEMMA CountFinite ==
  ASSUME DispatchType
  PROVE  /\ IsFiniteSet(Counted) /\ IsFiniteSet(Busy) /\ IsFiniteSet(Running)
         /\ IsFiniteSet(Owing) /\ IsFiniteSet(Leaving) /\ IsFiniteSet(Pluses)
<1>1. Counted \subseteq Sender /\ Busy \subseteq Sender
  BY DEF Counted, Busy
<1>2. Owing \subseteq Worker /\ Leaving \subseteq Worker /\ Pluses \subseteq Worker
  BY DEF Owing, Leaving, Pluses
<1>3. Running \subseteq Slot /\ IsFiniteSet(Slot)
  <2>1. Slot = 1..Len(status) /\ Len(status) \in Nat
    BY LenProperties DEF DispatchType, PoolType, Slot
  <2>2. IsFiniteSet(1..Len(status))
    BY <2>1, FS_Interval
  <2>3. QED
    BY <2>1, <2>2 DEF Running
<1>4. QED
  BY <1>1, <1>2, <1>3, FS_Subset, DispatcherAssumption

LEMMA CountNat ==
  ASSUME DispatchType
  PROVE  /\ Cardinality(Busy) \in Nat /\ Cardinality(Running) \in Nat
         /\ Cardinality(Owing) \in Nat /\ Cardinality(Pluses) \in Nat
         /\ Cardinality(Counted) \in Nat /\ Cardinality(Leaving) \in Nat /\ num \in Int
  BY CountFinite, CardinalityBounds DEF DispatchType, PoolType

\* The sets stay, or become smaller where that does no harm.
LEMMA CountsKept ==
  ASSUME DispatchType, CountInv, num' = num, Pluses' = Pluses,
         Busy' \subseteq Busy, Running' \subseteq Running, Owing' \subseteq Owing,
         Counted' \subseteq Counted, Leaving' \subseteq Leaving
  PROVE  EnoughCounted' /\ CountedFew'
<1>1. /\ Cardinality(Busy)' <= Cardinality(Busy) /\ Cardinality(Busy)' \in Nat
      /\ Cardinality(Running)' <= Cardinality(Running) /\ Cardinality(Running)' \in Nat
      /\ Cardinality(Owing)' <= Cardinality(Owing) /\ Cardinality(Owing)' \in Nat
  BY CountFinite, CardinalityBounds
<1>2. /\ Cardinality(Counted)' <= Cardinality(Counted) /\ Cardinality(Counted)' \in Nat
      /\ Cardinality(Leaving)' <= Cardinality(Leaving) /\ Cardinality(Leaving)' \in Nat
  BY CountFinite, CardinalityBounds
<1>3. EnoughCounted'
  BY <1>1, CountNat DEF CountInv, EnoughCounted
<1>4. CountedFew'
  BY <1>2, CountNat DEF CountInv, CountedFew
<1>5. QED
  BY <1>3, <1>4

\* A sender that counts, or counts itself off again.
LEMMA CountKeepsCounts ==
  ASSUME DispatchType, CountInv, NEW s \in Sender, Count(s)
  PROVE  EnoughCounted' /\ CountedFew'
<1>1. /\ num' = num + 1 /\ UNCHANGED <<Running, Owing, Leaving, Pluses>>
      /\ Busy' \subseteq Busy \cup {s} /\ Counted' \subseteq Counted \cup {s}
  BY DEF Count, SenderAt, SenderGoes, workerVars, Running, Owing, Leaving, Pluses, Busy,
     Counted, Slot, DispatchType, SenderType
<1>2. /\ Cardinality(Busy)' <= Cardinality(Busy) + 1 /\ Cardinality(Busy)' \in Nat
      /\ Cardinality(Counted)' <= Cardinality(Counted) + 1 /\ Cardinality(Counted)' \in Nat
  BY <1>1, CountFinite, CardinalityBounds
<1>3. EnoughCounted'
  BY <1>1, <1>2, CountNat DEF CountInv, EnoughCounted
<1>4. CountedFew'
  BY <1>1, <1>2, CountNat DEF CountInv, CountedFew
<1>5. QED
  BY <1>3, <1>4

LEMMA UncountKeepsCounts ==
  ASSUME DispatchType, CountInv, NEW s \in Sender, Uncount(s)
  PROVE  EnoughCounted' /\ CountedFew'
<1>1. /\ num' = num - 1 /\ UNCHANGED <<Running, Owing, Leaving, Pluses>>
      /\ s \in Busy /\ Busy' \subseteq Busy \ {s}
      /\ s \in Counted /\ Counted' \subseteq Counted \ {s}
  BY DEF Uncount, SenderAt, SenderGoes, workerVars, Running, Owing, Leaving, Pluses, Busy,
     Counted, Slot, DispatchType, SenderType
<1>2. /\ Cardinality(Busy)' <= Cardinality(Busy) - 1 /\ Cardinality(Busy)' \in Nat
      /\ Cardinality(Counted)' <= Cardinality(Counted) - 1 /\ Cardinality(Counted)' \in Nat
  BY <1>1, CountFinite, CardinalityBounds
<1>3. EnoughCounted'
  BY <1>1, <1>2, CountNat DEF CountInv, EnoughCounted
<1>4. CountedFew'
  BY <1>1, <1>2, CountNat DEF CountInv, CountedFew
<1>5. QED
  BY <1>3, <1>4

\* A token moves from one of the three sets to another.
LEMMA TransferKeepsCounts ==
  ASSUME DispatchType, CountInv, num' = num, Pluses' = Pluses,
         Counted' \subseteq Counted, Leaving' \subseteq Leaving,
         NEW x, NEW y,
         \/ /\ x \in Running /\ Running' \subseteq Running \ {x}
            /\ \/ Busy' \subseteq Busy \cup {y} /\ Owing' \subseteq Owing
               \/ Busy' \subseteq Busy /\ Owing' \subseteq Owing \cup {y}
         \/ /\ Running' \subseteq Running \cup {y}
            /\ \/ x \in Busy /\ Busy' \subseteq Busy \ {x} /\ Owing' \subseteq Owing
               \/ x \in Owing /\ Busy' \subseteq Busy /\ Owing' \subseteq Owing \ {x}
  PROVE  EnoughCounted' /\ CountedFew'
<1>1. /\ Cardinality(Counted)' <= Cardinality(Counted) /\ Cardinality(Counted)' \in Nat
      /\ Cardinality(Leaving)' <= Cardinality(Leaving) /\ Cardinality(Leaving)' \in Nat
  BY CountFinite, CardinalityBounds
<1>2. CountedFew'
  BY <1>1, CountNat DEF CountInv, CountedFew
<1>3. CASE x \in Running /\ Running' \subseteq Running \ {x}
  <2>1. Cardinality(Running)' <= Cardinality(Running) - 1 /\ Cardinality(Running)' \in Nat
    BY <1>3, CountFinite, CardinalityBounds
  <2>2. CASE Busy' \subseteq Busy \cup {y} /\ Owing' \subseteq Owing
    <3>1. /\ Cardinality(Busy)' <= Cardinality(Busy) + 1 /\ Cardinality(Busy)' \in Nat
          /\ Cardinality(Owing)' <= Cardinality(Owing) /\ Cardinality(Owing)' \in Nat
      BY <2>2, CountFinite, CardinalityBounds
    <3>2. QED
      BY <1>2, <2>1, <3>1, CountNat DEF CountInv, EnoughCounted
  <2>3. CASE Busy' \subseteq Busy /\ Owing' \subseteq Owing \cup {y}
    <3>1. /\ Cardinality(Busy)' <= Cardinality(Busy) /\ Cardinality(Busy)' \in Nat
          /\ Cardinality(Owing)' <= Cardinality(Owing) + 1 /\ Cardinality(Owing)' \in Nat
      BY <2>3, CountFinite, CardinalityBounds
    <3>2. QED
      BY <1>2, <2>1, <3>1, CountNat DEF CountInv, EnoughCounted
  <2>4. CASE x \in Busy /\ Busy' \subseteq Busy \ {x} /\ Owing' \subseteq Owing
    BY <1>2, <1>3, <2>4, CountsKept
  <2>5. CASE x \in Owing /\ Busy' \subseteq Busy /\ Owing' \subseteq Owing \ {x}
    BY <1>2, <1>3, <2>5, CountsKept
  <2>6. QED
    BY <2>2, <2>3, <2>4, <2>5
<1>4. CASE /\ Running' \subseteq Running \cup {y}
           /\ x \in Busy /\ Busy' \subseteq Busy \ {x} /\ Owing' \subseteq Owing
  <2>1. /\ Cardinality(Running)' <= Cardinality(Running) + 1 /\ Cardinality(Running)' \in Nat
        /\ Cardinality(Busy)' <= Cardinality(Busy) - 1 /\ Cardinality(Busy)' \in Nat
        /\ Cardinality(Owing)' <= Cardinality(Owing) /\ Cardinality(Owing)' \in Nat
    BY <1>4, CountFinite, CardinalityBounds
  <2>2. QED
    BY <1>2, <2>1, CountNat DEF CountInv, EnoughCounted
<1>5. CASE /\ Running' \subseteq Running \cup {y}
           /\ x \in Owing /\ Busy' \subseteq Busy /\ Owing' \subseteq Owing \ {x}
  <2>1. /\ Cardinality(Running)' <= Cardinality(Running) + 1 /\ Cardinality(Running)' \in Nat
        /\ Cardinality(Busy)' <= Cardinality(Busy) /\ Cardinality(Busy)' \in Nat
        /\ Cardinality(Owing)' <= Cardinality(Owing) - 1 /\ Cardinality(Owing)' \in Nat
    BY <1>5, CountFinite, CardinalityBounds
  <2>2. QED
    BY <1>2, <2>1, CountNat DEF CountInv, EnoughCounted
<1>6. QED
  BY <1>3, <1>4, <1>5

\* The handler that leaves is counted: it was one that owed.
LEMMA UnattachKeepsCounts ==
  ASSUME DispatchType, CountInv, NEW w \in Worker, Unattach(w)
  PROVE  EnoughCounted' /\ CountedFew'
<1>1. /\ wpc[w] = "wait" /\ wpc' = [wpc EXCEPT ![w] = "minus"] /\ num' = num
      /\ UNCHANGED <<Busy, Counted>>
      /\ \A x \in Worker : wpc[x] \notin {"minus", "keep", "plus"}
  BY DEF Unattach, WorkerAt, WorkerGoes, senderVars, Busy, Counted
<1>2. Running' \subseteq Running
  <2>1. Slot' = Slot /\ \A h \in Slot : status'[h] = "running" => status[h] = "running"
    BY StatusChange DEF Unattach, DispatchType, WorkerType, SlotStatus
  <2>2. QED
    BY <2>1 DEF Running
<1>3. /\ Owing' = Owing /\ w \in Owing /\ Leaving = {} /\ Leaving' = {w}
      /\ Pluses = {} /\ Pluses' = {}
  BY <1>1 DEF Owing, Leaving, Pluses, DispatchType, WorkerType
<1>4. /\ Cardinality(Running)' <= Cardinality(Running) /\ Cardinality(Running)' \in Nat
  BY <1>2, CountFinite, CardinalityBounds
<1>5. EnoughCounted'
  BY <1>1, <1>3, <1>4, CountNat DEF CountInv, EnoughCounted
<1>6. Cardinality(Counted) <= Cardinality(Busy)
  <2>1. Counted \subseteq Busy
    BY DEF Counted, Busy
  <2>2. QED
    BY <2>1, CountFinite, CardinalityBounds
<1>7. Cardinality(Owing) >= 1 /\ Cardinality({w}) = 1 /\ Cardinality(Pluses) = 0
  <2>1. Cardinality(Owing \ {w}) \in Nat /\ Cardinality(Owing \ {w}) <= Cardinality(Owing) - 1
    BY <1>3, CountFinite, CardinalityBounds
  <2>2. Cardinality({w}) = 1
    BY FS_Singleton
  <2>3. Cardinality(Pluses) = 0
    BY <1>3, FS_EmptySet
  <2>4. QED
    BY <2>1, <2>2, <2>3, CountNat
<1>8. num >= Cardinality(Counted) + 1
  BY <1>6, <1>7, CountNat DEF CountInv, EnoughCounted
<1>9. Cardinality(Counted)' = Cardinality(Counted) /\ Cardinality(Leaving)' = 1
  BY <1>1, <1>3, <1>7
<1>10. QED
  BY <1>1, <1>5, <1>8, <1>9 DEF CountedFew

LEMMA MinusKeepsCounts ==
  ASSUME DispatchType, CountInv, NEW w \in Worker, Minus(w)
  PROVE  EnoughCounted' /\ CountedFew'
<1>1. /\ num' = num - 1 /\ UNCHANGED <<Busy, Counted, Running, Pluses>>
      /\ w \in Owing /\ Owing' \subseteq Owing \ {w}
      /\ w \in Leaving /\ Leaving' \subseteq Leaving \ {w}
  BY DEF Minus, WorkerAt, WorkerGoes, senderVars, Busy, Counted, Running, Slot, Owing,
     Leaving, Pluses, DispatchType, WorkerType
<1>2. /\ Cardinality(Owing)' <= Cardinality(Owing) - 1 /\ Cardinality(Owing)' \in Nat
      /\ Cardinality(Leaving)' <= Cardinality(Leaving) - 1 /\ Cardinality(Leaving)' \in Nat
  BY <1>1, CountFinite, CardinalityBounds
<1>3. EnoughCounted'
  BY <1>1, <1>2, CountNat DEF CountInv, EnoughCounted
<1>4. CountedFew'
  BY <1>1, <1>2, CountNat DEF CountInv, CountedFew
<1>5. QED
  BY <1>3, <1>4

\* The last handler runs again a step before it is counted again.
LEMMA KeepKeepsCounts ==
  ASSUME DispatchType, CountInv, NEW w \in Worker, Keep(w)
  PROVE  EnoughCounted' /\ CountedFew'
<1>1. /\ num' = num /\ UNCHANGED <<Busy, Counted, Owing, Leaving>>
      /\ w \notin Pluses /\ Pluses' = Pluses \cup {w}
  BY DEF Keep, WorkerAt, WorkerGoes, senderVars, Busy, Counted, Owing, Leaving, Pluses,
     DispatchType, WorkerType
<1>2. Running' \subseteq Running \cup {slot[w]}
  <2>1. Slot' = Slot /\ \A h \in Slot \ {slot[w]} : status'[h] = status[h]
    BY StatusChange DEF Keep, DispatchType, WorkerType, SlotStatus
  <2>2. QED
    BY <2>1 DEF Running
<1>3. /\ Cardinality(Running)' <= Cardinality(Running) + 1 /\ Cardinality(Running)' \in Nat
      /\ Cardinality(Pluses)' = Cardinality(Pluses) + 1
  BY <1>1, <1>2, CountFinite, CardinalityBounds
<1>4. EnoughCounted'
  BY <1>1, <1>3, CountNat DEF CountInv, EnoughCounted
<1>5. CountedFew'
  BY <1>1, CountNat DEF CountInv, CountedFew
<1>6. QED
  BY <1>4, <1>5

LEMMA PlusKeepsCounts ==
  ASSUME DispatchType, CountInv, NEW w \in Worker, Plus(w)
  PROVE  EnoughCounted' /\ CountedFew'
<1>1. /\ num' = num + 1 /\ UNCHANGED <<Busy, Counted, Running, Owing, Leaving>>
      /\ w \in Pluses /\ Pluses' = Pluses \ {w}
  BY DEF Plus, WorkerAt, WorkerGoes, senderVars, Busy, Counted, Running, Slot, Owing,
     Leaving, Pluses, DispatchType, WorkerType
<1>2. Cardinality(Pluses)' = Cardinality(Pluses) - 1
  BY <1>1, CountFinite, FS_RemoveElement
<1>3. EnoughCounted'
  BY <1>1, <1>2, CountNat DEF CountInv, EnoughCounted
<1>4. CountedFew'
  BY <1>1, CountNat DEF CountInv, CountedFew
<1>5. QED
  BY <1>3, <1>4

\* The counts of the actions that move no token, or move it within the three sets.
LEMMA SenderKeepsCounts ==
  ASSUME DispatchType, CountInv, NEW s \in Sender, Send(s) \/ Check(s) \/ AddHandler(s)
  PROVE  EnoughCounted' /\ CountedFew'
<1>1. CASE Send(s) \/ Check(s) \/ Pick(s) \/ Bump(s)
  <2>1. /\ UNCHANGED <<num, status, wpc>>
        /\ \A t \in Sender \ {s} : spc'[t] = spc[t]
        /\ Send(s) \/ Check(s) => spc'[s] \in {"check", "count", "idle"}
        /\ Pick(s) => spc[s] = "pick" /\ spc'[s] \in {"append", "reuse"}
        /\ Bump(s) => spc[s] = "bump" /\ spc'[s] = "launch"
    BY <1>1 DEF Send, Check, Pick, Bump, SenderAt, SenderGoes, pool, workerVars,
       DispatchType, SenderType
  <2>2. UNCHANGED <<num, Pluses, Running, Owing, Leaving>>
    BY <2>1 DEF Pluses, Running, Slot, Owing, Leaving
  <2>3. Busy' \subseteq Busy /\ Counted' \subseteq Counted
    BY <1>1, <2>1 DEF Busy, Counted
  <2>4. QED
    BY <2>2, <2>3, CountsKept
<1>2. CASE AppendSlot(s)
  <2>1. /\ UNCHANGED <<num, wpc>> /\ spc[s] = "append" /\ spc'[s] = "launch"
        /\ \A t \in Sender \ {s} : spc'[t] = spc[t]
    BY <1>2 DEF AppendSlot, SenderAt, SenderGoes, DispatchType, SenderType
  <2>2. UNCHANGED <<num, Pluses, Owing, Leaving>>
    BY <2>1 DEF Pluses, Owing, Leaving
  <2>3. Running' \subseteq Running
    BY <1>2, AppendChange DEF Running, DispatchType
  <2>4. Busy' \subseteq Busy /\ Counted' \subseteq Counted
    BY <2>1 DEF Busy, Counted
  <2>5. QED
    BY <2>2, <2>3, <2>4, CountsKept
<1>3. ASSUME NEW h \in Slot, NEW from \in SlotStatus, NEW to \in SlotStatus,
             Claim(s, h, from, to), to # "running",
             \/ from = "running" /\ spc[s] = "replace"
             \/ from = "unattached" /\ spc[s] = "reuse"
      PROVE  EnoughCounted' /\ CountedFew'
  <2>1. /\ UNCHANGED <<num, wpc>> /\ spc'[s] = "bump" /\ status[h] = from
        /\ \A t \in Sender \ {s} : spc'[t] = spc[t]
    BY <1>3 DEF Claim, SenderGoes, workerVars, DispatchType, SenderType
  <2>2. UNCHANGED <<num, Pluses, Owing, Leaving>>
    BY <2>1 DEF Pluses, Owing, Leaving
  <2>3. Running' \subseteq Running \ {h}
    <3>1. Slot' = Slot /\ status'[h] = to /\ \A x \in Slot \ {h} : status'[x] = status[x]
      BY <1>3, StatusChange DEF Claim, DispatchType
    <3>2. QED
      BY <1>3, <3>1 DEF Running
  <2>4. Counted' \subseteq Counted /\ Busy' \subseteq Busy \cup {s}
    BY <1>3, <2>1 DEF Busy, Counted
  <2>5. CASE from = "running"
    <3>1. h \in Running
      BY <2>1, <2>5 DEF Running
    <3>2. QED
      BY <2>2, <2>3, <2>4, <3>1, TransferKeepsCounts
  <2>6. CASE spc[s] = "reuse"
    <3>1. Busy' \subseteq Busy
      BY <2>1, <2>6 DEF Busy
    <3>2. QED
      BY <2>2, <2>3, <2>4, <3>1, CountsKept
  <2>7. QED
    BY <1>3, <2>5, <2>6
<1>4. ASSUME GiveUp(s), UNCHANGED status PROVE EnoughCounted' /\ CountedFew'
  <2>1. /\ UNCHANGED <<num, status, wpc>> /\ spc'[s] = "idle"
        /\ \A t \in Sender \ {s} : spc'[t] = spc[t]
    BY <1>4 DEF GiveUp, SenderGoes, workerVars, DispatchType, SenderType
  <2>2. UNCHANGED <<num, Pluses, Running, Owing, Leaving>>
    BY <2>1 DEF Pluses, Running, Slot, Owing, Leaving
  <2>3. Busy' \subseteq Busy /\ Counted' \subseteq Counted
    BY <2>1 DEF Busy, Counted
  <2>4. QED
    BY <2>2, <2>3, CountsKept
<1>5. CASE Launch(s)
  <2>1. /\ num' = num /\ spc[s] = "launch" /\ spc'[s] = "idle"
        /\ \A t \in Sender \ {s} : spc'[t] = spc[t]
        /\ found[s] \in Slot /\ status' = [status EXCEPT ![found[s]] = "running"]
    BY <1>5 DEF Launch, SenderAt, SenderGoes, DispatchType, SenderType
  <2>2. \A w \in Worker : wpc'[w] = wpc[w] \/ (wpc[w] = "none" /\ wpc'[w] \in {"load", "bind"})
    BY <1>5 DEF Launch, Idle, DispatchType, WorkerType
  <2>3. UNCHANGED <<Pluses, Owing, Leaving>>
    BY <2>2 DEF Pluses, Owing, Leaving
  <2>4. Running' \subseteq Running \cup {found[s]}
    <3>1. Slot' = Slot /\ \A x \in Slot \ {found[s]} : status'[x] = status[x]
      BY <2>1, StatusChange DEF DispatchType, SlotStatus
    <3>2. QED
      BY <3>1 DEF Running
  <2>5. s \in Busy /\ Busy' \subseteq Busy \ {s} /\ Counted' \subseteq Counted
    BY <2>1 DEF Busy, Counted
  <2>6. QED
    BY <2>1, <2>3, <2>4, <2>5, TransferKeepsCounts
<1>6. CASE Replace(s) \/ Reuse(s)
  <2>1. \/ GiveUp(s) /\ UNCHANGED status
        \/ spc[s] = "replace" /\ \E h \in Slot : Claim(s, h, "running", "expired")
        \/ spc[s] = "reuse" /\ \E h \in Slot : Claim(s, h, "unattached", "idle")
    BY <1>6 DEF Replace, Reuse, SenderAt
  <2>2. QED
    BY <1>3, <1>4, <2>1 DEF SlotStatus
<1>7. QED
  BY <1>1, <1>2, <1>5, <1>6, CountKeepsCounts, UncountKeepsCounts DEF AddHandler

LEMMA WorkerKeepsCounts ==
  ASSUME DispatchType, CountInv, NEW w \in Worker, Work(w) \/ Restore(w) \/ Unattach(w)
  PROVE  EnoughCounted' /\ CountedFew'
<1>1. slot[w] \in Slot /\ PoolType
  BY DEF DispatchType, WorkerType
<1>2. ASSUME UNCHANGED <<num, status, spc>>,
             \A x \in Worker \ {w} : wpc'[x] = wpc[x],
             wpc[w] \notin {"minus", "plus"}, wpc'[w] \notin {"minus", "plus"},
             wpc'[w] \in {"wait", "handleLate", "restore"} =>
                 wpc[w] \in {"wait", "handleLate", "restore"}
      PROVE  EnoughCounted' /\ CountedFew'
  <2>1. UNCHANGED <<Running, Busy, Counted, Pluses>> /\ Leaving' \subseteq Leaving
    BY <1>2 DEF Running, Slot, Busy, Counted, Pluses, Leaving
  <2>2. Owing' \subseteq Owing
    BY <1>2 DEF Owing
  <2>3. QED
    BY <1>2, <2>1, <2>2, CountsKept
<1>3. CASE \/ Handle(w, "bind", "load") \/ Handle(w, "handle", "again")
           \/ Handle(w, "handleLate", "restore")
           \/ Load(w) \/ Take(w, "loop", "handle") \/ Take(w, "wait", "handleLate")
           \/ Again(w)
  BY <1>2, <1>3 DEF Handle, Load, Take, Again, WorkerAt, WorkerGoes, pool, senderVars,
     DispatchType, WorkerType
<1>4. CASE Try(w)
  <2>1. /\ UNCHANGED <<num, spc>> /\ wpc[w] = "loop"
        /\ \A x \in Worker \ {w} : wpc'[x] = wpc[x]
        /\ wpc'[w] = IF status[slot[w]] = "running" THEN "wait" ELSE "again"
        /\ Swap(slot[w], "running", "discard")
    BY <1>4 DEF Try, WorkerAt, WorkerGoes, senderVars, DispatchType, WorkerType
  <2>2. UNCHANGED <<Busy, Counted, Pluses, Leaving>>
    BY <2>1 DEF Busy, Counted, Pluses, Leaving
  <2>3. CASE status[slot[w]] = "running"
    <3>1. slot[w] \in Running
      BY <1>1, <2>3 DEF Running
    <3>2. Running' \subseteq Running \ {slot[w]}
      BY <1>1, <2>1, <2>3, SwapChange DEF Running, SlotStatus
    <3>3. Owing' \subseteq Owing \cup {w}
      BY <2>1 DEF Owing
    <3>4. QED
      BY <2>1, <2>2, <3>1, <3>2, <3>3, TransferKeepsCounts
  <2>4. CASE status[slot[w]] # "running"
    <3>1. UNCHANGED status /\ Owing' \subseteq Owing
      BY <2>1, <2>4 DEF Swap, Owing
    <3>2. Running' = Running
      BY <3>1 DEF Running, Slot
    <3>3. QED
      BY <2>1, <2>2, <3>1, <3>2, CountsKept
  <2>5. QED
    BY <2>3, <2>4
<1>5. CASE Restore(w)
  <2>1. /\ UNCHANGED <<num, spc>> /\ wpc[w] \in {"restore", "wait"} /\ wpc'[w] = "again"
        /\ \A x \in Worker \ {w} : wpc'[x] = wpc[x]
        /\ Swap(slot[w], "discard", "running")
    BY <1>5 DEF Restore, WorkerAt, WorkerGoes, senderVars, DispatchType, WorkerType
  <2>2. UNCHANGED <<Busy, Counted, Pluses, Leaving>>
    BY <2>1 DEF Busy, Counted, Pluses, Leaving
  <2>3. w \in Owing /\ Owing' \subseteq Owing \ {w}
    BY <2>1 DEF Owing
  <2>4. Running' \subseteq Running \cup {slot[w]}
    BY <1>1, <2>1, SwapChange DEF Running, SlotStatus
  <2>5. QED
    BY <2>1, <2>2, <2>3, <2>4, TransferKeepsCounts
<1>6. QED
  BY <1>3, <1>4, <1>5, UnattachKeepsCounts, MinusKeepsCounts, KeepKeepsCounts,
     PlusKeepsCounts DEF Work

LEMMA LeaveNext ==
  ASSUME DispatchType, OneLeaves, [Next]_vars
  PROVE  OneLeaves'
<1> DEFINE off(w) == wpc[w] \in {"minus", "keep", "plus"}
<1>1. ASSUME \A w \in Worker : off(w)' => off(w) PROVE OneLeaves'
  <2>1. \A w, x \in Worker : off(w) /\ off(x) => w = x
    BY DEF OneLeaves
  <2>2. \A w, x \in Worker : off(w)' /\ off(x)' => w = x
    BY <1>1, <2>1
  <2>3. QED
    BY <2>2 DEF OneLeaves
<1>2. ASSUME NEW s \in Sender, Send(s) \/ Check(s) \/ AddHandler(s) PROVE OneLeaves'
  <2>1. \A w \in Worker : wpc'[w] = wpc[w] \/ wpc'[w] \in {"load", "bind"}
    BY <1>2 DEF Send, Check, AddHandler, Count, Uncount, Replace, Pick, AppendSlot, Reuse,
       Claim, GiveUp, Bump, Launch, Idle, workerVars, DispatchType, WorkerType
  <2>2. QED
    BY <1>1, <2>1
<1>3. ASSUME NEW w \in Worker, Work(w) \/ Restore(w) PROVE OneLeaves'
  <2>1. (off(w)' => off(w)) /\ \A x \in Worker \ {w} : wpc'[x] = wpc[x]
    BY <1>3 DEF Work, Handle, Load, Take, Again, Try, Minus, Keep, Plus, Restore,
       WorkerAt, WorkerGoes, DispatchType, WorkerType
  <2>2. QED
    BY <1>1, <2>1
<1>4. ASSUME NEW w \in Worker, Unattach(w) PROVE OneLeaves'
  BY <1>4 DEF Unattach, WorkerGoes, OneLeaves, DispatchType, WorkerType
<1>5. ASSUME UNCHANGED vars PROVE OneLeaves'
  BY <1>1, <1>5 DEF vars, workerVars
<1>6. QED
  BY <1>2, <1>3, <1>4, <1>5 DEF Next

\* No new slot is to be discarded, and the handlers that wait go on waiting.
LEMMA QuietKeepsWaits ==
  ASSUME DispatchType, DiscardWaits,
         \A h \in Slot' : status'[h] = "discard" => h \in Slot /\ status[h] = "discard",
         NEW w, \A h \in Slot : status'[h] = "discard" => w \notin Worker \/ slot[w] # h
                                    \/ wpc[w] \notin {"wait", "handleLate", "restore"}
                                    \/ wpc'[w] \in {"wait", "handleLate", "restore"},
         \A x \in Worker : wpc[x] # "none" => slot'[x] = slot[x],
         \A x \in Worker \ {w} : wpc'[x] = wpc[x] \/ wpc[x] = "none"
  PROVE  DiscardWaits'
<1>1. Owing \ Leaving = {x \in Worker : wpc[x] \in {"wait", "handleLate", "restore"}}
  BY DEF Owing, Leaving
<1>2. (Owing \ Leaving)' = {x \in Worker : wpc'[x] \in {"wait", "handleLate", "restore"}}
  BY DEF Owing, Leaving
<1> SUFFICES ASSUME NEW h \in Slot', status'[h] = "discard"
             PROVE  \E x \in (Owing \ Leaving)' : slot'[x] = h
  BY DEF DiscardWaits
<1>3. PICK x \in Owing \ Leaving : slot[x] = h
  BY DEF DiscardWaits
<1>4. QED
  BY <1>1, <1>2, <1>3

LEMMA SenderKeepsWaits ==
  ASSUME DispatchType, DiscardWaits, NEW s \in Sender,
         Send(s) \/ Check(s) \/ AddHandler(s)
  PROVE  DiscardWaits'
<1>1. \A x \in Worker : /\ wpc[x] # "none" => slot'[x] = slot[x]
                        /\ wpc'[x] = wpc[x] \/ wpc[x] = "none"
  BY DEF Send, Check, AddHandler, Count, Uncount, Replace, Pick, AppendSlot, Reuse, Claim,
     GiveUp, Bump, Launch, Idle, workerVars, DispatchType, WorkerType
<1>2. \A h \in Slot' : status'[h] = "discard" => h \in Slot /\ status[h] = "discard"
  <2>1. CASE AppendSlot(s)
    BY <2>1, AppendChange DEF DispatchType
  <2>2. ASSUME NEW h \in Slot, NEW to \in SlotStatus, to # "discard",
               status' = [status EXCEPT ![h] = to]
        PROVE  \A x \in Slot' : status'[x] = "discard" => x \in Slot /\ status[x] = "discard"
    BY <2>2, StatusChange DEF DispatchType
  <2>3. CASE Launch(s)
    <3>1. found[s] \in Slot /\ status' = [status EXCEPT ![found[s]] = "running"]
      BY <2>3 DEF Launch, SenderAt, DispatchType, SenderType
    <3>2. QED
      BY <2>2, <3>1 DEF SlotStatus
  <2>4. CASE Replace(s) \/ Reuse(s)
    <3>1. \/ UNCHANGED status
          \/ \E h \in Slot, to \in {"expired", "idle"} : status' = [status EXCEPT ![h] = to]
      BY <2>4 DEF Replace, Reuse, Claim
    <3>2. CASE UNCHANGED status
      BY <3>2 DEF Slot
    <3>3. QED
      BY <2>2, <3>1, <3>2 DEF SlotStatus
  <2>5. CASE Send(s) \/ Check(s) \/ Count(s) \/ Uncount(s) \/ Pick(s) \/ Bump(s)
    <3>1. UNCHANGED status
      BY <2>5 DEF Send, Check, Count, Uncount, Pick, Bump, pool
    <3>2. QED
      BY <3>1 DEF Slot
  <2>6. QED
    BY <2>1, <2>3, <2>4, <2>5 DEF AddHandler
<1>3. s \notin Worker
  BY DispatcherAssumption
<1>4. QED
  BY <1>1, <1>2, <1>3, QuietKeepsWaits

LEMMA WorkerKeepsWaits ==
  ASSUME DispatchType, DiscardWaits, NEW w \in Worker, Work(w) \/ Restore(w) \/ Unattach(w)
  PROVE  DiscardWaits'
<1>1. /\ slot' = slot /\ \A x \in Worker \ {w} : wpc'[x] = wpc[x]
      /\ slot[w] \in Slot /\ PoolType
  BY DEF Work, Handle, Load, Take, Again, Try, Minus, Keep, Plus, Restore, Unattach,
     WorkerGoes, pool, senderVars, DispatchType, WorkerType
<1>2. CASE UNCHANGED status /\ (wpc[w] \in {"wait", "handleLate", "restore"}
                                => wpc'[w] \in {"wait", "handleLate", "restore"})
  <2>1. Slot' = Slot
    BY <1>2 DEF Slot
  <2>2. QED
    BY <1>1, <1>2, <2>1, QuietKeepsWaits
<1>3. ASSUME \/ Handle(w, "bind", "load") \/ Handle(w, "handle", "again")
             \/ Handle(w, "handleLate", "restore")
             \/ Load(w) \/ Take(w, "loop", "handle") \/ Take(w, "wait", "handleLate")
             \/ Again(w) \/ Minus(w) \/ Plus(w)
      PROVE  DiscardWaits'
  BY <1>2, <1>3 DEF Handle, Load, Take, Again, Minus, Plus, WorkerAt, WorkerGoes, pool,
     DispatchType, WorkerType
<1>4. CASE Try(w)
  <2>1. /\ wpc[w] = "loop" /\ Swap(slot[w], "running", "discard")
        /\ wpc'[w] = IF status[slot[w]] = "running" THEN "wait" ELSE "again"
    BY <1>4 DEF Try, WorkerAt, WorkerGoes, DispatchType, WorkerType
  <2>2. CASE status[slot[w]] # "running"
    BY <1>2, <2>1, <2>2 DEF Swap
  <2>3. CASE status[slot[w]] = "running"
    <3>1. w \in (Owing \ Leaving)' /\ slot'[w] = slot[w]
      BY <1>1, <2>1, <2>3 DEF Owing, Leaving
    <3>2. Slot' = Slot /\ \A h \in Slot \ {slot[w]} : status'[h] = status[h]
      BY <1>1, <2>1, SwapChange DEF SlotStatus
    <3>3. Owing \ Leaving \subseteq (Owing \ Leaving)'
      BY <1>1, <2>1 DEF Owing, Leaving
    <3>4. QED
      BY <1>1, <3>1, <3>2, <3>3 DEF DiscardWaits
  <2>4. QED
    BY <2>2, <2>3
<1>5. CASE Restore(w) \/ Unattach(w) \/ Keep(w)
  <2>1. /\ Slot' = Slot /\ status'[slot[w]] # "discard"
        /\ \A h \in Slot \ {slot[w]} : status'[h] = status[h]
    BY <1>1, <1>5, SwapChange, StatusChange DEF Restore, Unattach, Keep, SlotStatus
  <2>2. QED
    BY <1>1, <2>1, QuietKeepsWaits
<1>6. QED
  BY <1>3, <1>4, <1>5 DEF Work

LEMMA CountNext == DispatchType /\ CountInv /\ [Next]_vars => CountInv'
<1> SUFFICES ASSUME DispatchType, CountInv, [Next]_vars PROVE CountInv'
  OBVIOUS
<1>1. OneLeaves'
  BY LeaveNext DEF CountInv
<1>2. ASSUME UNCHANGED vars PROVE EnoughCounted' /\ CountedFew' /\ DiscardWaits'
  <2>1. UNCHANGED <<num, Busy, Counted, Running, Owing, Leaving, Pluses>>
    BY <1>2 DEF vars, pool, senderVars, workerVars, Busy, Counted, Running, Slot, Owing,
       Leaving, Pluses
  <2>2. UNCHANGED <<slot, status>>
    BY <1>2 DEF vars, pool, workerVars
  <2>3. QED
    BY <2>1, <2>2 DEF CountInv, EnoughCounted, CountedFew, DiscardWaits, Slot
<1>3. QED
  BY <1>1, <1>2, SenderKeepsCounts, WorkerKeepsCounts, SenderKeepsWaits, WorkerKeepsWaits
     DEF Next, CountInv

LEMMA CountInit == Init => CountInv
<1> SUFFICES ASSUME Init PROVE CountInv
  OBVIOUS
<1>1. /\ Busy = {} /\ Counted = {} /\ Owing = {} /\ Leaving = {} /\ Pluses = {}
      /\ Slot = {1} /\ Running = {1} /\ num = 1
  BY DEF Init, Busy, Counted, Owing, Leaving, Pluses, Running, Slot
<1>2. Cardinality({}) = 0 /\ Cardinality({1}) = 1
  BY FS_EmptySet, FS_Singleton
<1>3. EnoughCounted /\ CountedFew
  BY <1>1, <1>2 DEF EnoughCounted, CountedFew
<1>4. OneLeaves
  BY DEF Init, OneLeaves
<1>5. DiscardWaits
  BY <1>1 DEF Init, DiscardWaits
<1>6. QED
  BY <1>3, <1>4, <1>5 DEF CountInv

\* The slots that may be discarded are no more than the handlers that wait in them.
LEMMA DiscardFew ==
  ASSUME DispatchType, DiscardWaits
  PROVE  /\ IsFiniteSet({h \in Slot : status[h] = "discard"})
         /\ Cardinality({h \in Slot : status[h] = "discard"}) <= Cardinality(Owing)
<1> DEFINE D == {h \in Slot : status[h] = "discard"}
           W == {w \in Owing : slot[w] \in D}
           f == [w \in W |-> slot[w]]
<1>1. IsFiniteSet(W) /\ Cardinality(W) <= Cardinality(Owing)
  BY CountFinite, FS_Subset
<1>2. f \in Surjection(W, D)
  BY DEF Surjection, DiscardWaits
<1>3. IsFiniteSet(D) /\ Cardinality(D) <= Cardinality(W)
  BY <1>1, <1>2, FS_Surjection
<1>4. Cardinality(D) \in Nat /\ Cardinality(W) \in Nat /\ Cardinality(Owing) \in Nat
  BY <1>1, <1>3, FS_CardinalityType, CountNat
<1>5. QED
  BY <1>1, <1>3, <1>4

\* handlerNum counts every slot that is attached, however many senders and handlers
\* change the two at once, and is never negative.
THEOREM NumCorrect == Spec => []NumCovers
<1>1. ASSUME DispatchType, CountInv PROVE NumCovers
  <2> DEFINE D == {h \in Slot : status[h] = "discard"}
  <2>1. Attached = Running \cup D
    BY DEF Attached, Running
  <2>2. IsFiniteSet(D) /\ Cardinality(D) <= Cardinality(Owing) /\ Cardinality(D) \in Nat
    BY <1>1, DiscardFew, FS_CardinalityType DEF CountInv
  <2>3. Running \cap D = {}
    BY DEF Running
  <2>4. Cardinality(Attached) = Cardinality(Running) + Cardinality(D)
    <3> HIDE DEF D
    <3>1. Cardinality(Running \cup D) =
              Cardinality(Running) + Cardinality(D) - Cardinality(Running \cap D)
      BY <1>1, <2>2, CountFinite, FS_Union
    <3>2. QED
      BY <1>1, <2>1, <2>2, <2>3, <3>1, CountNat, FS_EmptySet
  <2>5. num + Cardinality(Pluses) >= Cardinality(Attached)
    BY <1>1, <2>2, <2>4, CountNat DEF CountInv, EnoughCounted
  <2>6. num >= 0
    BY <1>1, CountNat DEF CountInv, CountedFew
  <2>7. QED
    BY <2>5, <2>6 DEF NumCovers, Pluses
<1>2. QED
  BY <1>1, TypeInit, TypeNext, CountInit, CountNext, PTL DEF Spec

-------------------------------------------------------------------------------
(***************************************************************************)
(* The dispatcher implements the bag of events.  An event is in one place: *)
(* on the bus, or carried by one goroutine that sends or handles.          *)
(***************************************************************************)
Carrier == Sender \cup Worker

carried == [x \in Carrier |-> IF x \in Worker THEN event[x]
                              ELSE IF spc[x] = "idle" THEN None ELSE hand[x]]

OnBus == {bus[i] : i \in DOMAIN bus}

HandInv ==
    /\ \A w \in Worker : wpc[w] \in {"bind", "handle", "handleLate"} <=> event[w] # None
    /\ \A s \in Sender : spc[s] = "check" => hand[s] = None

BusOnce == \A i, j \in DOMAIN bus : bus[i] = bus[j] => i = j

CarriedOnce == \A x, y \in Carrier :
                  carried[x] # None /\ carried[x] = carried[y] => x = y

Apart == \A x \in Carrier : carried[x] \notin OnBus

Settled == handled \cup discarded

Outside == /\ pending \cup Settled \subseteq 1..sent
           /\ pending \cap Settled = {}

BagInv == HandInv /\ BusOnce /\ CarriedOnce /\ Apart /\ Outside

\* What a step does to the events.
Queues == /\ sent < MaxSends /\ sent' = sent + 1 /\ bus' = Append(bus, sent + 1)
          /\ carried' = carried /\ UNCHANGED bag

Keeps(x) == /\ sent < MaxSends /\ sent' = sent + 1 /\ carried[x] = None
            /\ carried' = [carried EXCEPT ![x] = sent + 1] /\ UNCHANGED <<bus, bag>>

Drops(x) == /\ carried[x] # None /\ carried' = [carried EXCEPT ![x] = None]
            /\ discarded' = discarded \cup {carried[x]} /\ UNCHANGED <<bus, sent, handled>>

Hands(x, y) == /\ carried[y] = None /\ x # y
               /\ carried' = [carried EXCEPT ![x] = None, ![y] = carried[x]]
               /\ UNCHANGED <<bus, sent, bag>>

Takes(x) == /\ bus # <<>> /\ bus' = Tail(bus) /\ carried[x] = None
            /\ carried' = [carried EXCEPT ![x] = Head(bus)] /\ UNCHANGED <<sent, bag>>

Ends(x) == /\ carried[x] # None /\ carried' = [carried EXCEPT ![x] = None]
           /\ handled' = handled \cup {carried[x]} /\ UNCHANGED <<bus, sent, discarded>>

Rests == UNCHANGED <<carried, bus, sent, bag>>

Moves == \/ Queues \/ Rests
         \/ \E x \in Carrier : Keeps(x) \/ Drops(x) \/ Takes(x) \/ Ends(x)
         \/ \E x, y \in Carrier : Hands(x, y)

LEMMA SenderMoves ==
  ASSUME DispatchType, HandInv, NEW s \in Sender, Send(s) \/ Check(s) \/ AddHandler(s)
  PROVE  Moves
<1> USE DispatcherAssumption
<1>1. /\ s \in Carrier /\ s \notin Worker
      /\ spc \in [Sender -> SenderPlace] /\ hand \in [Sender -> Event \cup {None}]
      /\ \A x \in Sender : x \notin Worker
  BY DEF Carrier, DispatchType, SenderType
<1>2. CASE Send(s)
  <2>1. carried[s] = None /\ event' = event
    BY <1>1, <1>2 DEF Send, SenderAt, carried, workerVars
  <2>2. CASE bus' = Append(bus, sent + 1) /\ SenderGoes(s, "check")
             /\ hand' = [hand EXCEPT ![s] = HelpWith(sent + 1)]
    <3>1. carried' = carried
      BY <1>1, <1>2, <2>1, <2>2 DEF Send, SenderAt, SenderGoes, HelpWith, carried, Carrier
    <3>2. QED
      BY <1>2, <2>2, <3>1 DEF Send, Moves, Queues
  <2>3. CASE bus' = bus /\ SenderGoes(s, "count") /\ hand' = [hand EXCEPT ![s] = sent + 1]
    <3>1. carried' = [carried EXCEPT ![s] = sent + 1]
      BY <1>1, <1>2, <2>1, <2>3 DEF SenderGoes, carried, Carrier
    <3>2. QED
      BY <1>1, <1>2, <2>1, <2>3, <3>1 DEF Send, Moves, Keeps
  <2>4. QED
    BY <1>2, <2>2, <2>3 DEF Send
<1>3. ASSUME SenderAt(s, "replace") \/ SenderAt(s, "reuse"), GiveUp(s) PROVE Moves
  <2>1. carried[s] = hand[s] /\ event' = event /\ hand' = hand /\ spc' = [spc EXCEPT ![s] = "idle"]
    BY <1>1, <1>3 DEF GiveUp, SenderAt, SenderGoes, carried, workerVars
  <2>2. carried' = [carried EXCEPT ![s] = None]
    BY <1>1, <2>1 DEF carried, Carrier
  <2>3. CASE hand[s] = None
    <3>1. carried' = carried
      BY <1>1, <2>1, <2>2, <2>3 DEF carried
    <3>2. QED
      BY <1>3, <2>3, <3>1 DEF GiveUp, Moves, Rests, bag
  <2>4. CASE hand[s] # None
    BY <1>1, <1>3, <2>1, <2>2, <2>4 DEF GiveUp, Moves, Drops
  <2>5. QED
    BY <2>3, <2>4
<1>4. CASE Launch(s)
  <2>1. PICK w \in Idle :
           /\ wpc' = [wpc EXCEPT ![w] = IF hand[s] = None THEN "load" ELSE "bind"]
           /\ event' = [event EXCEPT ![w] = hand[s]]
    BY <1>4 DEF Launch
  <2>2. /\ w \in Worker /\ w \in Carrier /\ event[w] = None /\ s # w
    BY <1>1, <2>1 DEF Idle, HandInv, Carrier
  <2>3. carried[s] = hand[s] /\ carried[w] = None
    BY <1>1, <1>4, <2>2 DEF Launch, SenderAt, carried
  <2>4. spc' = [spc EXCEPT ![s] = "idle"] /\ hand' = hand
    BY <1>4 DEF Launch, SenderGoes
  <2>5. event \in [Worker -> Event \cup {None}]
    BY DEF DispatchType, WorkerType
  <2>6. carried' = [carried EXCEPT ![s] = None, ![w] = carried[s]]
    <3>1. ASSUME NEW x \in Carrier
          PROVE  carried'[x] = IF x = w THEN hand[s] ELSE IF x = s THEN None ELSE carried[x]
      BY <1>1, <2>1, <2>2, <2>4, <2>5 DEF carried, Carrier
    <3>2. QED
      BY <1>1, <2>2, <2>3, <3>1 DEF carried
  <2>7. QED
    BY <1>1, <1>4, <2>2, <2>3, <2>6 DEF Launch, Moves, Hands
<1>5. ASSUME UNCHANGED <<hand, event, bus, sent, bag>>, spc[s] # "idle",
             \E l \in SenderPlace : SenderGoes(s, l) /\ (l = "idle" => hand[s] = None)
      PROVE  Moves
  <2>1. carried' = carried
    BY <1>1, <1>5 DEF SenderGoes, carried, Carrier
  <2>2. QED
    BY <1>5, <2>1 DEF Moves, Rests
<1>6. ASSUME NEW h, NEW from, NEW to, Claim(s, h, from, to), spc[s] # "idle" PROVE Moves
  <2>1. UNCHANGED <<hand, event, bus, sent, bag>> /\ SenderGoes(s, "bump")
    BY <1>6 DEF Claim, workerVars
  <2>2. QED
    BY <1>5, <1>6, <2>1 DEF SenderPlace
<1>7. CASE Check(s)
  <2>1. UNCHANGED <<hand, event, bus, sent, bag>> /\ hand[s] = None /\ spc[s] # "idle"
    BY <1>7 DEF Check, SenderAt, workerVars, HandInv
  <2>2. SenderGoes(s, "count") \/ SenderGoes(s, "idle")
    BY <1>7 DEF Check
  <2>3. QED
    BY <1>5, <2>1, <2>2 DEF SenderPlace
<1>8. CASE Count(s) \/ Uncount(s) \/ Pick(s) \/ AppendSlot(s) \/ Bump(s)
  <2>1. UNCHANGED <<hand, event, bus, sent, bag>> /\ spc[s] # "idle"
    BY <1>8 DEF Count, Uncount, Pick, AppendSlot, Bump, SenderAt, workerVars
  <2>2. \E l \in {"uncount", "pick", "replace", "append", "reuse", "launch"} : SenderGoes(s, l)
    BY <1>8 DEF Count, Uncount, Pick, AppendSlot, Bump
  <2>3. QED
    BY <1>5, <2>1, <2>2 DEF SenderPlace
<1>9. CASE Replace(s) \/ Reuse(s)
  <2>1. SenderAt(s, "replace") \/ SenderAt(s, "reuse")
    BY <1>9 DEF Replace, Reuse
  <2>2. GiveUp(s) \/ \E h, from, to : Claim(s, h, from, to)
    BY <1>9 DEF Replace, Reuse
  <2>3. QED
    BY <1>3, <1>6, <2>1, <2>2 DEF SenderAt
<1>10. QED
  BY <1>2, <1>4, <1>7, <1>8, <1>9 DEF AddHandler

LEMMA WorkerMoves ==
  ASSUME DispatchType, HandInv, NEW w \in Worker, Work(w) \/ Restore(w) \/ Unattach(w)
  PROVE  Moves
<1>1. /\ w \in Carrier /\ event \in [Worker -> Event \cup {None}]
      /\ carried[w] = event[w]
  BY DEF Carrier, DispatchType, WorkerType, carried
<1>2. ASSUME NEW from \in {"bind", "handle", "handleLate"}, NEW to, Handle(w, from, to)
      PROVE  Moves
  <2>1. event[w] # None
    BY <1>2 DEF Handle, WorkerAt, HandInv
  <2>2. carried' = [carried EXCEPT ![w] = None]
    BY <1>1, <1>2 DEF Handle, senderVars, carried, Carrier
  <2>3. QED
    BY <1>1, <1>2, <2>1, <2>2 DEF Handle, Moves, Ends
<1>3. ASSUME NEW from \in {"loop", "wait"}, NEW to, Take(w, from, to) PROVE Moves
  <2>1. event[w] = None
    BY <1>3 DEF Take, WorkerAt, HandInv
  <2>2. carried' = [carried EXCEPT ![w] = Head(bus)]
    BY <1>1, <1>3 DEF Take, senderVars, carried, Carrier
  <2>3. QED
    BY <1>1, <1>3, <2>1, <2>2 DEF Take, Moves, Takes
<1>4. CASE Load(w) \/ Again(w) \/ Try(w) \/ Restore(w) \/ Unattach(w) \/ Minus(w)
           \/ Keep(w) \/ Plus(w)
  <2>1. UNCHANGED <<bus, sent, senderVars, event, bag>>
    BY <1>4 DEF Load, Again, Try, Restore, Unattach, Minus, Keep, Plus
  <2>2. QED
    BY <2>1 DEF senderVars, carried, Moves, Rests
<1>5. QED
  BY <1>2, <1>3, <1>4 DEF Work

LEMMA StepMoves == ASSUME DispatchType, HandInv, [Next]_vars PROVE Moves
<1>1. ASSUME UNCHANGED vars PROVE Moves
  BY <1>1 DEF vars, senderVars, workerVars, carried, Moves, Rests
<1>2. QED
  BY <1>1, SenderMoves, WorkerMoves DEF Next

\* Who carries an event is where it works on it.
LEMMA HandNext == ASSUME DispatchType, HandInv, [Next]_vars PROVE HandInv'
<1> USE DispatcherAssumption
<1>1. /\ spc \in [Sender -> SenderPlace] /\ hand \in [Sender -> Event \cup {None}]
      /\ wpc \in [Worker -> WorkerPlace] /\ event \in [Worker -> Event \cup {None}]
      /\ sent \in Nat /\ bus \in Seq(Event)
  BY DEF DispatchType, SenderType, WorkerType
<1>2. ASSUME UNCHANGED <<wpc, event>>, \A s \in Sender : spc'[s] = "check" => hand'[s] = None
      PROVE  HandInv'
  BY <1>2 DEF HandInv
<1>3. ASSUME UNCHANGED <<spc, hand>>, NEW w \in Worker, NEW l, NEW e,
             wpc' = [wpc EXCEPT ![w] = l], event' = [event EXCEPT ![w] = e],
             l \in {"bind", "handle", "handleLate"} <=> e # None
      PROVE  HandInv'
  BY <1>1, <1>3 DEF HandInv
<1>4. CASE UNCHANGED vars
  BY <1>2, <1>4 DEF vars, senderVars, workerVars, HandInv
<1>5. ASSUME NEW s \in Sender, Send(s) PROVE HandInv'
  BY <1>1, <1>2, <1>5 DEF Send, SenderGoes, HelpWith, workerVars, HandInv
<1>6. ASSUME NEW s \in Sender, NEW l \in SenderPlace \ {"check"}, SenderGoes(s, l),
             UNCHANGED <<hand, wpc, event>>
      PROVE  HandInv'
  BY <1>1, <1>2, <1>6 DEF SenderGoes, HandInv
<1>7. ASSUME NEW s \in Sender, Launch(s) PROVE HandInv'
  <2>1. PICK w \in Idle :
           /\ wpc' = [wpc EXCEPT ![w] = IF hand[s] = None THEN "load" ELSE "bind"]
           /\ event' = [event EXCEPT ![w] = hand[s]]
    BY <1>7 DEF Launch
  <2>2. w \in Worker /\ spc' = [spc EXCEPT ![s] = "idle"] /\ hand' = hand
    BY <1>7, <2>1 DEF Launch, SenderGoes, Idle
  <2>3. QED
    BY <1>1, <2>1, <2>2 DEF HandInv
<1>8. ASSUME NEW s \in Sender, Check(s) \/ AddHandler(s) PROVE HandInv'
  <2>1. CASE Launch(s)
    BY <1>7, <2>1
  <2>2. CASE Check(s) \/ Count(s) \/ Uncount(s) \/ Pick(s) \/ AppendSlot(s) \/ Bump(s)
    <3>1. UNCHANGED <<hand, wpc, event>>
      BY <2>2 DEF Check, Count, Uncount, Pick, AppendSlot, Bump, workerVars
    <3>2. \E l \in SenderPlace \ {"check"} : SenderGoes(s, l)
      BY <2>2 DEF Check, Count, Uncount, Pick, AppendSlot, Bump, SenderPlace
    <3>3. QED
      BY <1>6, <3>1, <3>2
  <2>3. CASE Replace(s) \/ Reuse(s)
    <3>1. GiveUp(s) \/ \E h, from, to : Claim(s, h, from, to)
      BY <2>3 DEF Replace, Reuse
    <3>2. UNCHANGED <<hand, wpc, event>> /\ (SenderGoes(s, "idle") \/ SenderGoes(s, "bump"))
      BY <3>1 DEF GiveUp, Claim, workerVars
    <3>3. QED
      BY <1>6, <3>2 DEF SenderPlace
  <2>4. QED
    BY <1>8, <2>1, <2>2, <2>3 DEF AddHandler
<1>9. ASSUME NEW w \in Worker, NEW from, NEW to \in {"load", "again", "restore"},
             Handle(w, from, to)
      PROVE  HandInv'
  BY <1>3, <1>9 DEF Handle, WorkerGoes, senderVars
<1>10. ASSUME NEW w \in Worker, NEW from, NEW to \in {"handle", "handleLate"},
              Take(w, from, to)
       PROVE  HandInv'
  <2>1. Head(bus) # None
    BY <1>1, <1>10, HeadTailProperties DEF Take, Event
  <2>2. QED
    BY <1>3, <1>10, <2>1 DEF Take, WorkerGoes, senderVars
<1>11. ASSUME NEW w \in Worker,
              Load(w) \/ Again(w) \/ Try(w) \/ Restore(w) \/ Unattach(w) \/ Minus(w)
              \/ Keep(w) \/ Plus(w)
       PROVE  HandInv'
  <2>1. wpc[w] \notin {"bind", "handle", "handleLate"} /\ event[w] = None
    BY <1>11 DEF Load, Again, Try, Restore, Unattach, Minus, Keep, Plus, WorkerAt, HandInv
  <2>2. UNCHANGED <<spc, hand, event>>
    BY <1>11 DEF Load, Again, Try, Restore, Unattach, Minus, Keep, Plus, senderVars
  <2>3. \E l \in {"loop", "none", "wait", "again", "minus", "keep", "plus"} : WorkerGoes(w, l)
    BY <1>11 DEF Load, Again, Try, Restore, Unattach, Minus, Keep, Plus
  <2>4. event' = [event EXCEPT ![w] = None]
    BY <1>1, <2>1, <2>2
  <2>5. QED
    BY <1>3, <2>2, <2>3, <2>4 DEF WorkerGoes
<1>12. QED
  BY <1>4, <1>5, <1>8, <1>9, <1>10, <1>11 DEF Next, Work

InHands == {carried[x] : x \in Carrier} \ {None}

PendingRight == pending = OnBus \cup InHands

LEMMA PendingIs == PendingRight /\ PendingRight'
<1>1. PendingRight
  <2>1. \A s \in Sender : s \notin Worker
    BY DispatcherAssumption
  <2>2. InHands = inHand \ {None}
    BY <2>1 DEF InHands, inHand, carried, Carrier
  <2>3. QED
    BY <2>2 DEF PendingRight, pending, OnBus
<1>2. QED
  BY <1>1, PTL

\* What a step does to the bus.
LEMMA BusAppended ==
  ASSUME DispatchType, NEW e \in Event, bus' = Append(bus, e)
  PROVE  /\ OnBus' = OnBus \cup {e}
         /\ BusOnce /\ e \notin OnBus => BusOnce'
<1>1. /\ bus \in Seq(Event) /\ Len(bus) \in Nat /\ DOMAIN bus = 1..Len(bus)
      /\ DOMAIN bus' = 1..(Len(bus) + 1) /\ bus'[Len(bus) + 1] = e
      /\ \A i \in 1..Len(bus) : bus'[i] = bus[i]
  BY AppendProperties, LenProperties DEF DispatchType
<1>2. OnBus' = OnBus \cup {e}
  <2>1. ASSUME NEW x \in OnBus' PROVE x \in OnBus \cup {e}
    <3>1. PICK i \in 1..(Len(bus) + 1) : x = bus'[i]
      BY <1>1, <2>1 DEF OnBus
    <3>2. i = Len(bus) + 1 \/ i \in 1..Len(bus)
      BY <1>1, <3>1
    <3>3. QED
      BY <1>1, <3>1, <3>2 DEF OnBus
  <2>2. ASSUME NEW i \in DOMAIN bus PROVE bus[i] \in OnBus'
    BY <1>1 DEF OnBus
  <2>3. e \in OnBus'
    BY <1>1 DEF OnBus
  <2>4. QED
    BY <2>1, <2>2, <2>3 DEF OnBus
<1>3. ASSUME BusOnce, e \notin OnBus PROVE BusOnce'
  <2>1. ASSUME NEW i \in 1..(Len(bus) + 1), NEW j \in 1..(Len(bus) + 1), bus'[i] = bus'[j]
        PROVE  i = j
    BY <1>1, <1>3, <2>1 DEF BusOnce, OnBus
  <2>2. QED
    BY <1>1, <2>1 DEF BusOnce
<1>4. QED
  BY <1>2, <1>3

LEMMA BusTaken ==
  ASSUME DispatchType, BusOnce, bus # <<>>, bus' = Tail(bus)
  PROVE  /\ Head(bus) \in OnBus /\ OnBus' = OnBus \ {Head(bus)}
         /\ BusOnce'
<1>1. /\ bus \in Seq(Event) /\ Len(bus) \in Nat /\ DOMAIN bus = 1..Len(bus)
      /\ Len(bus) >= 1 /\ DOMAIN bus' = 1..(Len(bus) - 1) /\ Head(bus) = bus[1]
      /\ \A i \in 1..(Len(bus) - 1) : bus'[i] = bus[i + 1]
  <2>1. bus \in Seq(Event)
    BY DEF DispatchType
  <2>2. /\ Len(bus) \in Nat /\ DOMAIN bus = 1..Len(bus) /\ Len(bus) # 0
    BY <2>1, LenProperties, EmptySeq
  <2>3. /\ Tail(bus) \in Seq(Event) /\ Len(Tail(bus)) = Len(bus) - 1
        /\ \A i \in 1..(Len(bus) - 1) : Tail(bus)[i] = bus[i + 1]
    BY <2>1, HeadTailProperties
  <2>4. QED
    BY <2>1, <2>2, <2>3, LenProperties
<1>2. OnBus' \subseteq OnBus \ {Head(bus)}
  <2>1. ASSUME NEW i \in 1..(Len(bus) - 1) PROVE bus'[i] \in OnBus \ {Head(bus)}
    <3>1. i + 1 \in DOMAIN bus /\ 1 \in DOMAIN bus /\ i + 1 # 1 /\ bus'[i] = bus[i + 1]
      BY <1>1
    <3>2. QED
      BY <1>1, <3>1 DEF OnBus, BusOnce
  <2>2. QED
    BY <1>1, <2>1 DEF OnBus
<1>3. OnBus \ {Head(bus)} \subseteq OnBus'
  <2>1. ASSUME NEW i \in DOMAIN bus, i # 1 PROVE bus[i] \in OnBus'
    <3>1. i - 1 \in 1..(Len(bus) - 1) /\ bus'[i - 1] = bus[i]
      BY <1>1, <2>1
    <3>2. QED
      BY <1>1, <3>1 DEF OnBus
  <2>2. QED
    BY <1>1, <2>1 DEF OnBus
<1>4. BusOnce'
  <2>1. ASSUME NEW i \in 1..(Len(bus) - 1), NEW j \in 1..(Len(bus) - 1), bus'[i] = bus'[j]
        PROVE  i = j
    <3>1. i + 1 \in DOMAIN bus /\ j + 1 \in DOMAIN bus /\ bus[i + 1] = bus[j + 1]
      BY <1>1, <2>1
    <3>2. i + 1 = j + 1
      BY <3>1 DEF BusOnce
    <3>3. QED
      BY <3>2
  <2>2. QED
    BY <1>1, <2>1 DEF BusOnce
<1>5. Head(bus) \in OnBus
  <2>1. 1 \in DOMAIN bus
    BY <1>1
  <2>2. QED
    BY <1>1, <2>1 DEF OnBus
<1>6. OnBus' = OnBus \ {Head(bus)}
  BY <1>2, <1>3
<1>7. QED
  BY <1>4, <1>5, <1>6

Once == BusOnce /\ CarriedOnce /\ Apart

\* A step of the bag of events, or none.
BagStep == Bag!Next \/ UNCHANGED <<pending, bag>>

LEMMA CarriedType == DispatchType => carried \in [Carrier -> Event \cup {None}]
  BY DEF DispatchType, SenderType, WorkerType, carried, Carrier

\* What a step does to the events in hands.
LEMMA HandFilled ==
  ASSUME DispatchType, CarriedOnce, NEW x \in Carrier, NEW e \in Event,
         carried[x] = None, e \notin InHands, carried' = [carried EXCEPT ![x] = e]
  PROVE  InHands' = InHands \cup {e} /\ CarriedOnce'
<1>1. e # None /\ \A y \in Carrier : carried'[y] = IF y = x THEN e ELSE carried[y]
  BY DispatcherAssumption DEF Event, carried
<1>2. \A y \in Carrier : carried[y] # e
  BY <1>1 DEF InHands
<1>3. QED
  BY <1>1, <1>2 DEF InHands, CarriedOnce

LEMMA HandEmptied ==
  ASSUME CarriedOnce, NEW x \in Carrier, carried[x] # None,
         carried' = [carried EXCEPT ![x] = None]
  PROVE  InHands' = InHands \ {carried[x]} /\ CarriedOnce'
<1>1. \A y \in Carrier : carried'[y] = IF y = x THEN None ELSE carried[y]
  BY DEF carried
<1>2. QED
  BY <1>1 DEF InHands, CarriedOnce

LEMMA HandPassed ==
  ASSUME CarriedOnce, NEW x \in Carrier, NEW y \in Carrier, x # y, carried[y] = None,
         carried' = [carried EXCEPT ![x] = None, ![y] = carried[x]]
  PROVE  InHands' = InHands /\ CarriedOnce'
<1>1. \A z \in Carrier : carried'[z] = IF z = x THEN None ELSE
                                       IF z = y THEN carried[x] ELSE carried[z]
  BY DEF carried
<1>2. CarriedOnce'
  BY <1>1 DEF CarriedOnce
<1>3. \A z \in Carrier : carried'[z] \in InHands \cup {None}
  BY <1>1 DEF InHands
<1>4. ASSUME NEW z \in Carrier, carried[z] # None PROVE carried[z] \in InHands'
  <2>1. \E u \in Carrier : carried'[u] = carried[z]
    BY <1>1
  <2>2. QED
    BY <1>4, <2>1 DEF InHands
<1>5. QED
  BY <1>2, <1>3, <1>4 DEF InHands

LEMMA ApartIs == /\ Apart => OnBus \cap InHands = {}
                 /\ DispatchType' /\ OnBus' \cap InHands' = {} => Apart'
<1>1. Apart => OnBus \cap InHands = {}
  BY DEF Apart, InHands
<1>2. ASSUME DispatchType, OnBus \cap InHands = {} PROVE Apart
  <2>1. None \notin OnBus
    <3>1. \A i \in DOMAIN bus : bus[i] \in Event
      BY <1>2, LenProperties, ElementOfSeq DEF DispatchType
    <3>2. QED
      BY <3>1, DispatcherAssumption DEF OnBus, Event
  <2>2. QED
    BY <1>2, <2>1 DEF Apart, InHands
<1>3. (DispatchType /\ OnBus \cap InHands = {} => Apart)'
  BY <1>2, PTL
<1>4. QED
  BY <1>1, <1>3

LEMMA QueuesKeeps ==
  ASSUME DispatchType, DispatchType', Once, Outside, Queues
  PROVE  Once' /\ Outside' /\ BagStep
<1>1. sent \in Nat /\ sent + 1 \in Event /\ sent + 1 \notin pending \cup Settled
  BY DispatcherAssumption DEF Queues, DispatchType, Event, Outside
<1>2. InHands' = InHands /\ CarriedOnce'
  BY DEF Queues, Once, CarriedOnce, InHands
<1>3. OnBus' = OnBus \cup {sent + 1} /\ BusOnce'
  BY <1>1, BusAppended, PendingIs DEF Queues, Once, PendingRight
<1>4. pending' = pending \cup {sent + 1}
  BY <1>2, <1>3, PendingIs DEF PendingRight
<1>5. Apart'
  BY <1>1, <1>2, <1>3, ApartIs, PendingIs DEF Once, PendingRight
<1>6. Outside'
  BY <1>1, <1>4 DEF Outside, Settled, Queues, bag
<1>7. Bag!Send(sent + 1)
  BY <1>1, <1>4 DEF Bag!Send, Settled, Queues, bag
<1>8. QED
  BY <1>1, <1>2, <1>3, <1>5, <1>6, <1>7 DEF Once, BagStep, Bag!Next

LEMMA KeepsKeeps ==
  ASSUME DispatchType, DispatchType', Once, Outside, NEW x \in Carrier, Keeps(x)
  PROVE  Once' /\ Outside' /\ BagStep
<1>1. sent \in Nat /\ sent + 1 \in Event /\ sent + 1 \notin pending \cup Settled
  BY DispatcherAssumption DEF Keeps, DispatchType, Event, Outside
<1>2. InHands' = InHands \cup {sent + 1} /\ CarriedOnce'
  BY <1>1, HandFilled, PendingIs DEF Keeps, Once, PendingRight
<1>3. OnBus' = OnBus /\ BusOnce'
  BY DEF Keeps, Once, OnBus, BusOnce
<1>4. pending' = pending \cup {sent + 1}
  BY <1>2, <1>3, PendingIs DEF PendingRight
<1>5. Apart'
  BY <1>1, <1>2, <1>3, ApartIs, PendingIs DEF Once, PendingRight
<1>6. Outside'
  BY <1>1, <1>4 DEF Outside, Settled, Keeps, bag
<1>7. Bag!Send(sent + 1)
  BY <1>1, <1>4 DEF Bag!Send, Settled, Keeps, bag
<1>8. QED
  BY <1>1, <1>2, <1>3, <1>5, <1>6, <1>7 DEF Once, BagStep, Bag!Next

LEMMA LeavesKeeps ==
  ASSUME DispatchType, DispatchType', Once, Outside, NEW x \in Carrier, Drops(x) \/ Ends(x)
  PROVE  Once' /\ Outside' /\ BagStep
<1>1. carried[x] \in Event /\ carried[x] \in InHands
  BY CarriedType DEF Drops, Ends, InHands
<1>2. InHands' = InHands \ {carried[x]} /\ CarriedOnce'
  BY HandEmptied DEF Drops, Ends, Once
<1>3. OnBus' = OnBus /\ BusOnce'
  BY DEF Drops, Ends, Once, OnBus, BusOnce
<1>4. Apart'
  BY <1>2, <1>3, ApartIs DEF Once
<1>5. pending' = pending \ {carried[x]} /\ carried[x] \in pending
  BY <1>1, <1>2, <1>3, ApartIs, PendingIs DEF Once, PendingRight
<1>6. Settled' = Settled \cup {carried[x]} /\ sent' = sent
  BY DEF Drops, Ends, Settled
<1>7. Outside'
  BY <1>5, <1>6 DEF Outside
<1>8. Bag!Discard(carried[x]) \/ Bag!Handle(carried[x])
  BY <1>5 DEF Drops, Ends, Bag!Discard, Bag!Handle
<1>9. QED
  BY <1>1, <1>2, <1>3, <1>4, <1>7, <1>8 DEF Once, BagStep, Bag!Next

LEMMA TakesKeeps ==
  ASSUME DispatchType, DispatchType', Once, Outside, NEW x \in Carrier, Takes(x)
  PROVE  Once' /\ Outside' /\ BagStep
<1>1. Head(bus) \in OnBus /\ OnBus' = OnBus \ {Head(bus)} /\ BusOnce'
  BY BusTaken DEF Takes, Once
<1>2. Head(bus) \in Event /\ Head(bus) \notin InHands
  BY <1>1, ApartIs, HeadTailProperties DEF Once, Takes, DispatchType
<1>3. InHands' = InHands \cup {Head(bus)} /\ CarriedOnce'
  BY <1>2, HandFilled DEF Takes, Once
<1>4. Apart'
  BY <1>1, <1>2, <1>3, ApartIs DEF Once
<1>5. UNCHANGED <<pending, bag, sent>>
  BY <1>1, <1>3, PendingIs DEF Takes, PendingRight
<1>6. QED
  BY <1>1, <1>3, <1>4, <1>5 DEF Once, BagStep, Outside, Settled, bag

LEMMA HandsKeeps ==
  ASSUME DispatchType, DispatchType', Once, Outside,
         Rests \/ \E x, y \in Carrier : Hands(x, y)
  PROVE  Once' /\ Outside' /\ BagStep
<1>1. InHands' = InHands /\ CarriedOnce'
  BY HandPassed DEF Rests, Hands, Once, InHands, CarriedOnce
<1>2. OnBus' = OnBus /\ BusOnce'
  BY DEF Rests, Hands, Once, OnBus, BusOnce
<1>3. UNCHANGED <<pending, bag, sent>>
  BY <1>1, <1>2, PendingIs DEF Rests, Hands, PendingRight
<1>4. QED
  BY <1>1, <1>2, <1>3, ApartIs DEF Once, BagStep, Outside, Settled, bag

LEMMA BagNext ==
  ASSUME DispatchType, BagInv, [Next]_vars PROVE BagInv' /\ BagStep
<1>1. Moves /\ HandInv'
  BY StepMoves, HandNext DEF BagInv
<1>2. DispatchType' /\ Once
  BY TypeNext DEF BagInv, Once
<1>3. Once' /\ Outside' /\ BagStep
  BY <1>1, <1>2, QueuesKeeps, KeepsKeeps, LeavesKeeps, TakesKeeps, HandsKeeps
     DEF Moves, BagInv
<1>4. QED
  BY <1>1, <1>3 DEF BagInv, Once

LEMMA BagInit == Init => BagInv /\ Bag!Init
<1> SUFFICES ASSUME Init PROVE BagInv /\ Bag!Init
  OBVIOUS
<1>1. /\ bus = <<>> /\ sent = 0 /\ handled = {} /\ discarded = {}
      /\ \A x \in Carrier : carried[x] = None
      /\ DOMAIN bus = {}
  BY DEF Init, carried, Carrier
<1>2. OnBus = {} /\ InHands = {} /\ pending = {}
  BY <1>1, PendingIs DEF OnBus, InHands, PendingRight
<1>3. HandInv
  BY DEF Init, HandInv
<1>4. QED
  BY <1>1, <1>2, <1>3 DEF BagInv, BusOnce, CarriedOnce, Apart, Outside, Settled, Bag!Init

\* No event is handled twice, discarded after it was handled, or lost between the
\* bus, the sender that looks for a handler and the goroutine it launches
\* (send, addHandler and loop).
THEOREM BagCorrect == Spec => RefinesEventBag
<1>1. BagStep => [Bag!Next]_(Bag!vars)
  BY DEF BagStep, Bag!vars, bag
<1>2. QED
  BY <1>1, TypeInit, TypeNext, BagInit, BagNext, PTL DEF Spec, RefinesEventBag, Bag!Spec

===============================================================================
