# light-flow: a verification development

TLA+ models of [light-flow](../src/README.md), a Go framework that executes
flows: a flow has processes, a process has steps, steps depend on each other, and
everything that can run in parallel does. A flow that fails can be written to a
store and recovered later. The modules here model that code, TLC checks them on
small instances, and TLAPS proves most of what they say of processes and their arrangement,
flows, callbacks, status words, resources, contexts and events for every value of the constants.

Paths are relative to `src/`. `PROJECT.json` names, for every definition of the
modules that stands for code, the lines it stands for.

## 1. The system

### Components

| Component | Code | State | Operations |
|---|---|---|---|
| Process execution | `flow/process_run.go`, `flow/step.go` | per process: status word, WaitGroup `running`, resources; per step: status word, counter of unfinished dependencies in `segments`, channel `finish` | `schedule`, `startStep`, `runStep`, `startNextSteps`, `waitFinish`, `finalize`, `Stop`, `Pause`, `Resume` |
| Flow execution | `flow/workflow.go` | status word, `running`, end time | `Done`, `DoneFlow`, `AsyncFlow` |
| Recovery | `flow/recover.go` | checkpoints and a record in the user's store; break points in the contexts | `saveCheckpoints`, `RecoverFlow`, `loadCheckpoint`, `loadStatus`, `clearExecutedFromRoot` |
| Callback chains | `flow/callback.go` | six chains for each unit, each with its leading must callbacks; a break point per unit | `filter`, `loadBreakPoint`, `saveBreakPoint`, `add` |
| Status words | `flow/context.go` | one `int64` of flags each | `append`, `add`, `clear`, `Has`, `Normal` |
| Arrangement | `flow/process_meta.go`, `flow/step.go` | the steps of a process with dependencies, waiters, layer, position, index and path | `CustomStep`, `Follow`, `Parallel`, `After`, `Merge`, `SyncAll`, `constructVisible` |
| Contexts | `flow/context.go` | per key a linked list of values, each with the path of its writer | `Get`, `Set`, `Result`, `EndValues`, `GetByStepName` |
| Conditions | `flow/condition.go` | per step groups of conditions and a list of excluded steps | `meetCondition`, `evaluate` |
| Event dispatcher | `flow/event.go` | a bounded queue, a pool of handlers with counters and deadlines | `send`, `addHandler`, `loop`, `tryUnattached`, `exit` |
| Resources | `flow/resources.go`, `flow/process_run.go` | resources attached to a process | `Attach`, `Acquire`, `manageResources` |
| Persistence hooks | `flow/save.go` | user functions | called on insert and update |
| Configuration, logging, enumerations | `flow/config.go`, `flow/utils.go`, `flow/logs.go` | | |

### How they interact

`Done` starts one goroutine per process (`schedule`) and waits for all of them.
`schedule` starts one goroutine per step of the first layer. `startStep` examines
the step, runs its callbacks, starts a goroutine of its own for the function
(`runStep`) and waits for it or for the timer. Its deferred `startNextSteps` counts
the step down in each of its waiters; the one that brings a counter to zero starts
the waiter, the last one in the same goroutine, the others in new ones. `waitFinish`
waits for the WaitGroup or for the timer of the process. Everything these
goroutines tell each other goes through status words, the counters, the WaitGroup
and the context; no lock covers two of them. `Stop`, `Pause` and `Resume` come from
goroutines of the user.

When a flow ends abnormally and is recoverable, `saveCheckpoints` writes the flow,
its abnormal processes and those of their steps that need recovery.
`RecoverFlow` builds a new flow, loads the contexts and works out from the
checkpoints which steps are executed again (`loadStatus`): all of them when a
before callback of the flow or process failed, otherwise those saved and everything
downstream of them. Break points in the contexts tell the callback chains and the
steps where to go on.

### What is hard

* Two dependencies finish together: who starts the waiter, and only once?
* A failed step puts `Cancel` on its waiters after it has counted them down.
* Three timers and a controller race with the steps: a step or a process may be
  given up while its functions still run.
* A recovery has to be right after any number of failures, at any mixture of body
  and callbacks, and after failures of a recovery.
* The arrangement is changed by calls in any order; layers and paths are derived
  from it incrementally, and later code trusts them.

The complete list, each with its line, is `hazards` in `PROJECT.json`.

### What makes each component correct

* Process: each step runs once, after its dependencies; failures reach exactly the
  dependents; the process ends, says Success only if all is done, and releases its
  resources when nothing runs any more.
* Recovery: nothing is lost, nothing that succeeded is repeated, no failure is passed
  over, over several recoveries.
* Callbacks: a failed must callback blocks what it should block; a break point says
  truly where to go on.
* Arrangement: layers follow dependencies, circles are found, a step sees the data of
  what is upstream of it and nothing else.
* Event dispatcher: an event is handled once or discarded once; the pool is counted
  right, a replaced handler leaves, and somebody is there to handle what is in the bus.
* Status words: whatever goroutines append and clear at once, no flag of another one is
  lost, and the answer says truly whether the flag was changed. `Pause` and `Resume`,
  which change the word and then a WaitGroup, keep the two together; a WaitGroup panics when
  they do not.
* Resources: all steps of a process share one instance, which is suspended if a step has
  failed, released once, and, unless the process times out, not before the last step is through.
* Contexts: a value reaches the steps behind its writer and no other, nobody is disturbed
  by steps that run next to it, and a recovery begins with what was saved.
* `Done`: every caller returns, and none before the flow is done.

## 2. The modules

| Module | Models | Extends |
|---|---|---|
| `Status` | status words as sets of flags; `Normal`, `needRecover` | |
| `TaskGraph` | **abstract**: what a process promises. A step is waiting, running or finished; a result is given once; a recovery begins anew (`SpecAgain`) | |
| `ProcessRun` | the execution of one process | `Status` |
| `FlowRecovery` | a flow of one process that is executed, saved and recovered | `ProcessRun` |
| `FlagSet` | **abstract**: what a status word promises. An append or clear takes effect at one moment | |
| `StatusWord` | the loops of `append` and `clear` over compare-and-swap | |
| `ProcessObject` | a process that controllers, steps, its own goroutine and callers of `Done` share: the gate of `Pause`, a resource, the timer of the process, the lock of the flow | `StatusWord` |
| `UnitRun` | **abstract**: what `ProcessRun` and `FlowRecovery` suppose of callbacks. One move before the body, one after it, and a break point | |
| `CallbackChain` | the six chains around one unit over an execution and its recoveries | |
| `Arrange` | building, merging and initialising a process | |
| `StepViews` | **abstract**: what the contexts promise. Every step has a view of its own | |
| `StepContext` | the table of values with the paths of their writers, while steps run, time out, fail and are recovered | |
| `EventBag` | **abstract**: what the dispatcher promises. An event that was sent is handled once or discarded once | |
| `EventDispatcher` | the bus of events and its pool of handlers | |
| `MC...` | instances for TLC | the module they name |

| Proofs | Of |
|---|---|
| `ProcessRun_proofs` | type correctness of `ProcessRun`; the countdown; `ProcessRun` implements `TaskGraph` |
| `FlowRecovery_proofs` | failures, verdict, resources, break points and Stop of a process; recoveries lose nothing and repeat nothing; each execution implements `TaskGraph`; every execution has an end |
| `StatusWord_proofs` | `StatusWord` implements `FlagSet` |
| `ProcessObject_proofs` | the same for the shared process; the gate, the resource, `Done` |
| `CallbackChain_proofs` | the invariants of `CallbackChain`, which implements `UnitRun` |
| `Arrange_proofs` | layers, ends, circles, numbers and paths, call by call |
| `StepContext_proofs` | `StepContext` implements `StepViews`; what disturbs the view of a step; `EndValues` and `GetByStepName` |
| `EventDispatcher_proofs` | types, the count, one loop for each slot; `EventDispatcher` implements `EventBag` |

A definition whose comment begins "Mutant" is no part of a model. It is the
definition below it with a plausible mistake, kept to show that the property it
breaks depends on that definition.

### ProcessRun

A step of TLA+ is the code between two points where another goroutine can change
or see what it reads. The program counters are

| Variable | Values | Code |
|---|---|---|
| `ppc` | `init` - `before` - `spawn` - `wait` - `after` - `final` - `end` | `schedule` with its deferred `finalize` |
| `pc[s]` | `wait` (not started) - `start` - `gate` - `cond` - `hold` - `before` - `select` - `after` - `fin` | the tests of `startStep` in their order, the callbacks, the select |
| | `settle` - `next` - `mark` - `done` | `startNextSteps`: reading the statuses, the loop over the waiters, the marks after a count, `Done` |
| `worker[s]` | `none` - `ready` - `run` - `done` | the goroutine of `runStep` |

`cancel`, `skip`, `to`, `left` and `bind` are the local variables of
`startNextSteps`; `todo` is what is left of its loop. The order of the waiters in
that loop is the order in which they were wired; the model allows any order. User
code (functions, callbacks, conditions) fails as `Faults[s]` allows: an error with
retries, a panic, a step timeout, failing before and after callbacks, an unmet
condition, and `hang`, a function that need not return.

A step that times out leaves its function running: `worker` and `pc` then go their
own ways, and the function may add `Success` to the status word after the process
has ended.

### FlowRecovery

Adds the goroutine of `Done`, the store and the caller of `RecoverFlow`. A snapshot
has what the checkpoints have: whether the process was saved, the steps that need
recovery, the break points (those not `Used`), the exclude marks. A recovery
initialises all of `ProcessRun` from it. It begins when the goroutines of the last
execution are gone, since they belong to objects the new flow does not share.
`SaveFails` is a store that refuses; then there is nothing to recover. `complete` is
a history variable: the steps whose work was done in some execution, where a step
that its condition passes over counts as done.

### CallbackChain

Looks into what `ProcessRun` takes as one step. The chains are numbered in the order
of `Stage0`; one action is one call of a callback, which may go on, end its chain, or
fail. `Must[g]` is `funcChain.Index`, the number of leading must callbacks of chain
`g`. For a step the body is `runStep`; for a process it is its steps, of which those
that are not normal have checkpoints of their own. A flow is a process whose third
and sixth chain are empty. `passed`, `failing`, `left`, `over` and `done` are history
variables; `over` has the callbacks that the index of another chain's break point has
passed over, for which see section 4.

`UnitRun` is the seam between the two views. It has no chains: a unit has one move before its
body and one after it, each of which passes or fails, and a break point that is one of the seven
values of `BreakPoint`. Its guards are those that `BeforeStepFail`, `BeforeProcessFail`, `RunStep`, `Recorded` and `Used`
have in `ProcessRun` and `FlowRecovery`; that the chains implement it (`RefinesUnit`) is why those modules
may take a chain for one step.

### Arrange

One action is one call of the builder. The loops of `Merge` and `constructVisible` go
over `sortedSteps`, which sorts the values of a map by layer: the model visits one
step at a time, any of those of the least layer. Waiters are the inverse of
dependencies (`wireDepends` writes both), and `updateWaitersLayer` is a recursive
function that computes what the recursion of the code arrives at. The process that is
merged is any acyclic arrangement of its steps. `After` is called on any step. When the
waiters of that step stay on their old layer, `behind` is set: from then on `Merge`,
which relies on the layers, is not called, and the properties promise less (section 4).

### StatusWord and ProcessObject

The word is a set of bits; an abnormal flag is its own bit and that of `Failed`. A goroutine is `idle`, about to `load`, or about to `cas`. What makes
`clear` special is in `Retry`: it has no branch for it.

`ProcessObject` takes that word, one step of TLA+ for each load and each swap, and puts
around it everything of a process that goroutines outside of it touch:

| Variable | Code |
|---|---|
| `call[c]` | a controller in `Pause`, `Resume` or `Stop`, or in a `Done` that opens the gate (`Release`) |
| `gate`, `panic` | the counter of the WaitGroup `pause`, changed in a step after the flag; how it has ended the program |
| `pos[s]` | `startStep`: `new` - `start` - `gate` - `held` - `asleep` - `woken`, or `gate` - `run` - `init` - `store` - `work` - `finalize` - `end` |
| `attached`, `instance`, `got` | `Attach`: the look under the read lock, the initialisation under no lock, the second look under the lock |
| `ppc` | `idle`, then `waitFinish` (`steps`, left by the steps or by the timer, `Expire`; `scan`, `judge`), `finalize` (`final`) and `manageResources` (`release`) of the process, `done` |
| `dpc[d]`, `holder`, `ended` | `Done`: the look at the end time and the lock (`call`), the before callbacks (`begin`), which may fail, `wait`, the after callbacks, `returned` |

The WaitGroup is a library, and is modelled as far as `Pause`, `Resume` and `startStep` use
it: a step that calls `Wait` on a closed gate is registered (`asleep`); a `Done` that takes the
counter to zero then releases all that are registered, in a second step (`Awaken`); a released
step still looks at the gate before it leaves `Wait`. Go panics in three places, and nobody
recovers a panic of a user's goroutine or of `startStep`, so that the program ends:

* `negative`: a `Done` with the counter at zero (`Open`);
* `misuse`: an `Add` that comes between the two halves of a `Done` (`Close`);
* `reused`: a released step finds the gate in use again (`Wake`).

`Runs` is a guard of every action: nothing is claimed of what happens after a panic.

Its steps have no dependencies and their functions do not outlive them: `ProcessRun` has both,
and takes an append as one step, which `RefinesFlags` justifies. It also takes the gate as one with
the flag (`Unhold`), which `GateCounted` justifies as long as there is no panic.

### StepContext

One list of nodes for each key, and in each node the path of its writer. Paths are sets
of bits, computed from the order of the steps as `Arrange` shows they are as long as `behind` is not
set (`VisibleIsUpstream`), and from the numbers of the steps. `CustomStep` numbers steps as they are
defined, and `After` may put a step behind one with a higher number, so any numbering is possible;
only those of `Merge` rise with the layers (`MergeNumbersUpwards`). `by`, the writer of a node, is a
history variable that the properties compare with what the highest bit says. An access is one step, since it is under the lock of the table.
A step that has timed out is `late` and writes on; the process may be timed out or saved
while it does. `Renumbers` says that the steps come from a merged process and the program is started
again before a recovery: then the numbers are chosen anew.

### EventDispatcher

A slot is a `handlerLifecycle` in the list `handlers`; a worker is a goroutine that
executes its `loop`. Each atomic operation is a step of its own, since no lock covers
two of them: `num` is `handlerNum`, and `latest[h]` numbers the workers of slot h.

| Variable | Values | Code |
|---|---|---|
| `spc[s]` | `idle` - `check` | `send`: the event is in the bus, or not; the test of its length |
| | `count` - `uncount` - `replace` | `findHandler` with a full pool: a late handler is replaced, or the event discarded |
| | `count` - `pick` - `append` or `reuse` | `findHandler` otherwise: a new slot, or one that is unattached |
| | `bump` - `launch` | `latest` is raised, the goroutine started |
| `wpc[w]` | `bind` - `load` - `loop` - `handle` - `again` | `loop`: the event it begins with, reading `latest`, the select, the test of `latest` |
| | `wait` - `handleLate` - `restore` | `tryUnattached`: an event arrives before the timer |
| | `wait` - `minus` - `keep` - `plus` | the timer fires first; the last handler is kept |

There is no clock: a timer fires, and the deadline of a running slot passes, at any
moment. Of `discardDelay`, a minute in the code, the model keeps that two removals do
not overlap. The receiver of a channel takes an event in a step after the send; in Go
the two may be one step, which is among the behaviours of the model.

## 3. Runs that pass

| Run | Instance | States | Shows |
|---|---|---|---|
| `process_join` | a and b join in c, b leads to d; a may return errors and has a retry; b may panic or fail in its before callback; the conditions of a and b may not be met, so that their dependents are skipped, but c is not if it was a that excluded it; a failing before callback and the timeout of the process | 96,188 | the counters of the steps and the WaitGroup are exact (`CountersExact`), a step is claimed by one dependency (`Ownership`), nobody waits for a step that will not come (`NoneStranded`), a failure reaches its dependents (`FailureReachesDependents`) and marks go to them only (`MarksJustified`), Success is complete (`SuccessIsComplete`), and the process implements the task graph (`RefinesTaskGraph`). `TypeOK` |
| `process_control` | a and b join in c; a may hang and has a timeout; Stop, one Pause, process timeout | 70,056 | nothing starts after a stop (`NoStartAfterStop`), resources are released when nothing runs (`ReleasedWhenQuiet`), the process ends (`Terminates`) and every step departs (`AllStepsSettle`) |
| `process_object` | two controllers, two steps of which one may fail, two callers of `Done`; three calls of the controllers, or one and the timer of the process; the before callback of the flow may fail | 1,097,057 | the gate follows the flag, and its counter ends the program only where a `Resume` overlaps a `Pause` or a step has not yet left an opened gate (`GateCounted`); the resource is shared and, without a timeout, released once after the last step, and suspended exactly after a failure (`ResourcesRight`); `Done` blocks (`DoneBlocks`) and, without a panic, returns (`DoneReturns`); the word is an atomic set of flags (`RefinesFlags`) |
| `flow_recovery` | a and b join in c, d follows; a fails in body, before or after callback, b is passed over by its condition, c fails; process and flow callbacks fail; the store fails; two recoveries | 267,208 | no step is lost (`NothingLost`), none begins below a failure (`BeginsAtFailure`) or runs again after success (`BodyRunsOnce`), no failed body is passed over (`SkippedBodyHasRun`), break points and `Suspend` arrive (`PointRecorded`, `SuspendReaches`), and every execution implements the task graph (`RefinesTaskGraphAgain`) |
| `callback` | chains of 2, 2, 1 and 2, 2, 0 callbacks with 2, 1, 0 and 2, 2, 0 must callbacks; an execution and two recoveries, of a step and of a process | 18,426 | a failed must callback is called again (`NoFailureForgotten`) and blocks what follows (`FailureBlocks`), one that passed before the body is not called again (`BeforeOnce`), and the chains implement one unit (`RefinesUnit`) |
| `arrange` | four steps, three of which may come from another process arranged in any way; four calls | 365,224 | `FirstLayerStarts`, `LayersFollowDepends`, `PanicJustified`, `EndsCover`, `VisibleIsUpstream`, `MergeNumbersUpwards` |
| `context` | three steps in every order with every numbering, one key, three values, one failure, one recovery | 414,199 | every step has its view (`RefinesViews`) and keeps it (`StableView`), however the steps are numbered; what `EndValues` and `GetByStepName` tell of a step is right as far as the numbers are (`OwnersRight`) |
| `event` | two senders, three events, three goroutines, a bus of two, `MaxHandler` two | 963,441 | no event is lost, or handled or discarded twice (`RefinesEventBag`); `handlerNum` covers the slots that are attached and is never negative (`NumCovers`); a slot has one goroutine in its loop (`OneLoop`) |

`TypeOK` of `ProcessRun` is checked and proved. The types of the other modules are parts of the
inductive invariants of section 5, or follow from the properties.

### Why the bounds are enough

* *Graphs.* What can go wrong in the countdown needs a step with two dependencies (they
  race) and a step with two waiters (one goroutine, one new one); the join with a side
  branch has both, and a step that no failure of a may touch. The proofs do away
  with the bound. Recovery needs something two levels below a root (`Downstream` is
  transitive) and a failed step next to a step that is done.
* *Retries.* One retry distinguishes the first attempt, a later one and the last.
* *Pauses.* In `process_control` one pause and its resume; more of them repeat the same
  states. In `process_object` one controller calls `Pause` and `Resume` and the other all
  three. Three calls let two calls overlap after a `Pause` has closed the gate, which reaches
  each of the three panics; the timer counts for two of them, and so meets a step at the gate. The
  safety properties are proved for any number.
* *Recoveries.* Two: the second loads what the first has left, and is the first in
  which break points have been `Used`.
* *Callbacks.* Chains with none, one or two callbacks, a must callback that is not the
  first of its chain, and one that follows in a later chain. The properties also held
  with two must callbacks in every chain and five executions (1.2 million states), and are proved.
* *Arrangement.* Four steps let a merge raise a step with waiters of its own; four
  calls let steps exist before a merge and be defined anew after it. `MaxNodes`, 62 in
  the code, is not reached. `Alike` makes the names of the merged steps
  interchangeable, which is sound: they are named in no definition.
* *Contexts.* Three steps have every shape that paths tell apart: in a row, fork, join,
  side by side. Three values let a step write, another overwrite and a third come in between,
  or be a result. Keys do not touch each other, so that one of the user and those of the
  results are enough. With three steps there is also an order that `After` makes against the numbers,
  with a step that the misled one sees or not. The steps are interchangeable.
* *Events.* Two senders race in `findHandler`; a pool of two has handlers that are
  added, removed, used again and replaced; a third goroutine is the successor of one
  that is late. `Share`, 4 in the code, is 1, so that a bus of two can ask for a handler.
  The system may stop when all events are sent and no goroutine is left to launch, so
  deadlock is not checked. Senders and goroutines are interchangeable.

### Fairness

`FairSpec` of `ProcessRun`, used by `process_control`: weak fairness of the goroutine
of `schedule` and of each step, as Go runs every runnable goroutine; it includes the
timer of a step, which has three hours by default, and the return of callbacks and
conditions. The function of a step is assumed to return only when `hang` is not among
its faults. Nothing is assumed of the timer of the process, of `Stop`, `Pause` and
`Resume`. So the two liveness properties have the hypothesis that the process does not
stay paused; a paused process waits for ever, as it should.

`FairSpec` of `ProcessObject`: weak fairness of every goroutine, from each of its points;
nobody has to call a controller, but a call that was made is carried on, and the timer of the
process (`Expire`) need not fire. `DoneReturns`
has the same hypothesis on pauses, and that no panic ends the program. The lock of `Done` needs no more than weak fairness,
since it is never given back to a caller that will start the process again.

## 4. Runs that find a disagreement

Each of these checks one sentence of the documentation or one comment of the code, and
TLC shows the steps by which the code does something else.

| Run | Sentence | What happens |
|---|---|---|
| `stop_loses_steps` (`NothingLost`) | Recover.en.md: recovery "continues execution from the failed `Step`" and the task "remains consistent" | A step that is past the gate when `Stop` comes succeeds; its waiters have `Cancel` only, are not saved, and no saved step leads to them. The recovered flow is a Success without them |
| `callback_index` (`MustNotOverlooked`) | Callback.en.md:165: critical logic is not overlooked; Recover.en.md:37: subsequent callbacks are re-executed | The index of the break point is applied to every later chain, whose first callbacks are passed over without ever having been called, or although they failed in an earlier execution |
| `context_recover` (`RecoversViews`) | Recover.en.md:5: recovery restores the state of the `Context` | A checkpoint keeps paths made of step numbers. A merged process numbers the steps of a layer in the order of a map, which a program that is started again need not repeat: a recovered step reads the values of another |
| `resume_spins` (`ResumeReturns`) | context.go:332: `clear` removes the bit and returns true, or returns false | `clear` loads the word once. If another goroutine appends a flag before the swap, the swap can never succeed: `Resume` spins, and what waits at the gate waits for ever if nobody else resumes |

What these are about is left out of the passing runs: `flow_recovery` has no
`Stop`, `NoFailureForgotten` excepts `over`, `context` has no `Renumbers`, and
`DoneReturns` asks that the process does not stay paused, which is what a spinning `Resume` makes it do.
Other exceptions are in the properties themselves: `DoneReturns` asks for no panic, `ResourcesRight` for
no timeout where it speaks of the release, `OwnersRight` for numbers that follow the order where it
speaks of owners, and the properties of `Arrange` for `behind` not being set.

Met while modelling, and no run, because no document promises the opposite plainly:

* `startNextSteps` counts a waiter down before it puts `Cancel` on it. A healthy dependency that
  reaches zero in between starts the waiter, which may be past its test of `Cancel` when
  the mark comes, and runs after a failed dependency.
* `Stop` does not raise `Suspend`, so the resources of a stopped process are released
  without it although a checkpoint is written.
* `After` raises the layer of the head of a chain and not of the rest; `constructVisible`
  may then visit the second step before the first has its path, and the second does not
  see what lies further up. A `Merge` that follows may miss a circle.
* A WaitGroup panics, and the program ends, in three ways. A `Resume` that comes after the append and before the
  `Add` of a `Pause` calls `Done` on zero (`process_run.go:119`). A `Pause` whose `Add` comes while
  a `Done` has opened the gate and not yet released the steps at it panics itself (`:126`). The third needs no overlap of
  calls: `Pause`, `Resume` and a second `Pause`, one after the other, and a step released by the `Resume` that has not
  left `Wait` when the second `Pause` adds (`:195`).
* When the process times out its resources are released at once (`process_run.go:248`), while steps still use them;
  a step that fails later is too late for their suspension, and one that attaches later makes an instance
  that nobody releases. `docs/Resource.en.md:43` has the release "after the `Process` execution ends".
* `After` can put a step behind one that was defined later, and so has a higher number:
  `chain := p.Follow(A); p.Follow(B); chain.After(B)`. The highest bit of the path of A is then that of B,
  and `EndValues` and `GetByStepName` give the value of A as that of B, and may leave out the value of B. `Get` is not affected.
* A handler that is replaced during the event it was launched with, before it has read
  `latest`, takes the number of its successor for its own and stays in the loop.
* A recovered step whose break point lies behind its body and that gets `Stop` at the gate loses the break
  point, since one that was loaded is left out of the next checkpoint (`buildSnapshot`): the recovery after it
  runs the body again. The hypothesis `NoCut` of `BodyOnceCorrect` leaves this out.
* A step excluded from a skip is executed and still hands the flag on
  (`process_run.go:330`), while `docs/Condition.en.md:56` speaks of dependents "if the
  current step is skipped". `process_join` has such a step (`Excludes`).

## 5. Proofs

The theorems hold for every value of the constants, so for every finite set of steps, every
dependency relation (also one with circles, then the steps on it never start; except `StrandedCorrect` and
`ConcludesCorrect`, which say that they do not ask for circles), every
number of retries, recoveries, senders, handlers and controllers, chains of every length, and every
combination of faults and controls. They rest on the ASSUMEs of the modules, which TLC
evaluates in the runs: `StepAssumption` (finitely many steps, `None` is not one),
`GraphAssumption` and `ConfigAssumption` (types), `FlowAssumption`, `FlagAssumption` (flags are
sets of bits, and what is cleared is one bit), `ObjectAssumption`, `ChainAssumption`, `ArrangeAssumption`
(finitely many names), `ContextAssumption` (at most 62 steps, which the code checks), `DispatcherAssumption`.

| Theorem | Statement |
|---|---|
| `TypeCorrect` | `Spec => []TypeOK` of a process |
| `OrderCorrect` and its parts `CountersCorrect`, `OwnershipCorrect` | `Spec => []OrderInv`, `[]CountersExact`, `[]Ownership` |
| `StartedOnceCorrect`, `RefinementCorrect` | `Spec => StartedOnce` (no step is handed to two goroutines), `Spec => RefinesTaskGraph` |
| `RunCorrect` and its parts `SpreadCorrect`, `MarksCorrect`, `SuccessCorrect`, `QuietCorrect`, `SuspendCorrect`, `PointRecordCorrect` | `RunInv` and `FailureReachesDependents`, `MarksJustified`, `SuccessIsComplete`, `ReleasedWhenQuiet`, `SuspendReaches`, `PointRecorded`, in one execution (`Spec`) and in every execution of a flow that is recovered (`FlowSpec`) |
| `StrandedCorrect` | `AcyclicGraph => (Spec => []NoneStranded) /\ (FlowSpec => []NoneStranded)` |
| `StopCorrect`, `StopAgainCorrect` | `Spec => NoStartAfterStop`; in every execution, what is cut off stays so until the next recovery |
| `RefinementAgainCorrect`, `OrderAgainCorrect` | `FlowSpec => RefinesTaskGraphAgain`; `FlowSpec => [](TypeOK /\ CountersExact /\ Ownership) /\ StartedOnce` |
| `SkippedCorrect` | `FlowSpec => SkippedBodyHasRun` |
| `NothingLostCorrect`, `BeginsCorrect` | `NoCut => (FlowSpec => []NothingLost)`, `NoCut => (FlowSpec => BeginsAtFailure)`, where `NoCut` says that there is no `Stop` and no timeout of the process |
| `BodyOnceCorrect` | `NoCut /\ NoLate => (FlowSpec => BodyRunsOnce)`, where `NoLate` says that steps of the first layer do not time out |
| `MeasureCorrect` | every step of an execution but `Pause` and `Resume` reduces the natural number `Measure`, for `Spec`, and for `FlowSpec` between recoveries |
| `ConcludesCorrect` | `AcyclicGraph /\ HangsTimeOut => (Spec => []Concludes) /\ (FlowSpec => []Concludes)`, where `HangsTimeOut` says that a function that may hang has a timeout |
| `WordCorrect`, `ObjectRefinesFlags` | `StatusWord` and `ProcessObject` implement `FlagSet` |
| `GateCorrect`, `DoneCorrect`, `ResourcesCorrect`, `NobodyLeftCorrect` | `GateCounted`, `DoneBlocks`, `ResourcesRight`; `Spec => []NobodyLeft` (without a panic, at rest and not paused, all callers of `Done` are back) |
| `BeforeOnceCorrect`, `BlocksCorrect`, `NoneForgotten`, `UnitCorrect` | the four properties of `callback`: `BeforeOnce`, `FailureBlocks`, `NoFailureForgotten`, `RefinesUnit` |
| `PointCorrect` | `Spec => []PointTells`: a failed execution leaves a new break point, which passes the body of a step over only if it succeeded |
| `LayersCorrect`, `FirstLayerCorrect`, `EndsCorrect`, `PanicCorrect`, `VisibleCorrect`, `NumbersCorrect` | the six properties of `Arrange`: `LayersFollowDepends`, `FirstLayerStarts`, `EndsCover`, `PanicJustified`, `VisibleIsUpstream`, `MergeNumbersUpwards` |
| `GraphCorrect` | `Spec => []NoCircle`: `CustomStep` and `Merge` close no circle, so that there is none when the caller of `After` closes none |
| `ViewsCorrect`, `StableCorrect`, `OwnersCorrect` | `~Renumbers => (Spec => RefinesViews)`, and so for `StableView` and `[]OwnersRight`, for every numbering of the steps |
| `DispatchTypeCorrect`, `OneLoopCorrect`, `NumCorrect`, `BagCorrect` | types of the dispatcher, `OneLoop`, `NumCovers`, `RefinesEventBag` |

### The countdown

`CountdownExact` alone is inductive only as long as nobody counts twice,
and that nobody starts a step twice does not follow from it: between the decrement that
reaches zero and the start of the waiter, a dependency holds the waiter in a local
variable. `OrderInv` therefore joins four facts: the type invariant, `CountdownExact`,
`RunningExact`, and `Ownership`, which says what the locals of `startNextSteps` are at
each of its points (`FramesExact`), that a waiter held by one dependency is at zero, not
started and held by no other (`ClaimsExact`), and that what is not on the first layer
and has been started is at zero (`HeldBack`). A step that starts a waiter has a claim
on it; a claim is made by a decrement to zero; two decrements to zero are excluded by
`CountdownExact`. `StartedOnce` and the order of dependencies follow. For the
refinement, `pc[s]` is mapped to waiting, running or finished and the status word of
the process to a result; each action maps to a step of `TaskGraph` or to a stutter, the
start of a step by `HeldBack` and `CountdownExact`, the Success of the process by
`RunningExact`.

### Failures, verdict and break points in every execution

`RunInv` joins `OrderInv` with what the status word, the goroutine and the break point of
one step say of each other (`StepFits`, with `WorkerFits` and `PointFits`), what holds when
no step is under way (`RestFits`), where `Suspend` has arrived (`SuspendFits`), what
Success implies (`SuccessFits`), that marks arrive (`CancelInv`: a failed step has
marked every waiter it has passed, or has the mark in hand), that they are deserved (`MarkInv`), and that
nobody is forgotten (`StrandInv`). It is inductive for `Next`.

`MarksJustified` quantifies over the sets that contain, with a step, everything downstream of it: a
mark is in every such set that contains the steps that failed by themselves. Alone it is not
inductive, since a mark is decided on when a step settles and made later. `MarkInv` adds that a step which is about to
mark (`CancelMeant`, `SkipMeant`) has the flag itself or has read it off the process. `StrandInv`
says that a step that waits is waited for: it has a dependency that has not counted it down, or
one that has it in hand, or it is on the first layer and that is still to be begun. So in a state
without goroutines of steps the steps that wait have each a dependency that waits, and in a
graph without circles there are none.

A recovery does not lead back to `Init` of `ProcessRun`: steps may have `executed` or
`Recovering` and old break points. So the base case is proved for any `Fresh` state, of which
`FlowInit` and the result of `RecoverFlow` are two, and `RunInv` holds over all executions.

`NoStartAfterStop` relates a state to all later ones. `CutOff(s)` says that the process is abnormal and
`s` has not passed the gate, or has left it without its function. No step leads out of `CutOff`, since
nothing takes an abnormal flag off the process but a recovery (`StopAgainCorrect`).

`TaskGraph` is implemented by every execution, not only by one that begins in `Init`: `RecoverFlow`
maps to `Again`, a second beginning of the graph (`RecoverAgain`), and the refinement is otherwise that of `ProcessRun`,
under the weaker `ResultInv` that also covers a process loaded as `executed`. The counters, the
claims and the single start follow from `RunInv` in the same way.

### Every execution has an end

TLC checks `Terminates`, `AllStepsSettle` and `DoneReturns` under fairness; that a fair behaviour reaches
a state needs ENABLED, which the provers have not. The two facts it rests on need neither:

* Nothing goes round in a loop. `Measure` counts what is still to do: phases of `schedule`, places on the
  way of each step, states of its function, attempts left, waiters to count down and to mark, and a
  `Stop` that may come. Each action takes something off one of these sets and adds to none
  (`MeasureFalls`), the attempts because a retry uses one up, a waiter that is started because it
  is further on its way. Only a pause and its resume leave the measure alone, and
  `MaxPauses` bounds those.
* Nothing stops short. `Halted` is that no goroutine can go on: it is made of the guards of the actions that
  `FairSpec` is fair to, negated. Then the process is at its end, and every step has departed,
  unless none has begun (`Concludes`). The step that everybody waits for is excluded by
  `StrandInv` and by `RunningExact`: a process that waits has a step that has not departed, and
  a step that is not under way waits for another.

What stays with TLC is only that fair goroutines take the steps they can. In
`ProcessObject`, `NobodyLeft` is the second half of `DoneReturns`: `HeldLock` says that the lock
of `Done` is held by a caller that is still in it, and `GateInv` that, when no call of `Pause` or `Resume` is
half done and the flag is off, the counter of the gate is zero and no step is registered at it. A call of `Resume` that
spins keeps the flag on; but for this, and for the panics, no caller is left.

### Recovery

`SkippedBodyHasRun` needs `WorkInv` only: what succeeded is in `complete`, and a break point
that passes the body over, in a step or in the store, is of a step in `complete`. It holds however
executions are cut short.

`NothingLost` does not, as `stop_loses_steps` shows, and the proof shows where `NoCut` enters. Its invariant
`NoLossInv` says: a process that is abnormal in the end has seen all of its steps depart, or none
begin (`ProcessDone`; false after a timeout); every step that is abnormal or marked is
downstream of a root, a step that has failed of itself and needs recovery (`TraceInv`; after `Stop` it is
not); a step with `executed` is in `complete` (`ExecutedDone`); a process that ends well
has all steps in `complete` (`VerdictDone`); and what is neither root nor downstream of a
root in the record is in `complete` (`RecordDone`). A mark counts from the moment a dependency is
about to make it, since a failed step can be cancelled late. The record is then right for the next
`loadStatus`, which gives `executed` to just those steps.

`BodyRunsOnce` is about the first layer, which nobody cancels: what fails there fails by itself. `OnceInv` says that a
step of it in `complete` is either `executed`, or recovering from a break point behind its body, or has
just succeeded; that a step which failed after its body left a break point that is new; and that the record
has what is still true of the execution it was taken of. Both hypotheses are needed.
Without `NoLate`, a function may succeed after its failure was saved. Without `NoCut`, a
recovered step that is behind its body can get `Stop` at the gate: it is saved as failed,
but its break point was loaded, is `Used`, and left out (`buildSnapshot`), so the next recovery runs its
body again.

### Arrangement

The recursive functions of the model count rounds up to the number of names, and the proof has to
show that this is enough. For `Upstream`: a round that adds nothing is the last, and each
round before it has added a step; so the result is closed under dependencies, and it is the
least such set (`UpstreamIs`), from which everything else about reachability follows. For
`Raised`, what `updateWaitersLayer` arrives at: a step whose layer changes in round `k` has at
least `k` steps on lower layers (`RaisedOnly`), so after the last round every waiter is above its
dependencies (`RaisedFollows`). This needs the old layers to follow the dependencies, which is why
`Merge` after `behind` is out of reach of it. Induction over rounds is the choice
of the least round for which a statement fails (`Smallest`, `Interval`).

There is no circle (`NoCircle`), also once `behind` is set. A new step has no waiters, and `After` is called by
somebody who closes no circle, which is a guard of the model: such dependencies are above
none of their waiters (`WireNoCircle`). A merged step that is defined anew is above its dependencies by the
layers that `updateWaitersLayer` leaves, which is enough (`LayersNoCircle`). The conclusion is the hypothesis `AcyclicGraph` of `StrandedCorrect` and
`ConcludesCorrect`, with `Step` and `Depends` for `steps` and `depends`.

### The others

* *Status words.* `WordInv` gives each goroutine between load and swap a word that was read;
  a swap that succeeds found it unchanged, so that it changes the flag and nothing else
  (`SwapChanges`). `^` takes bits off only if they were set: `ClearsOneBit` needs that what is
  cleared is one bit, which `FlagAssumption` states and the code satisfies.
* *The gate.* `GateInv`: the goroutine that took the flag on or off is `Owing` until it has changed
  the counter, and what a goroutine does to the word is what its call says (`OpsMatch`).
  A swap that changes `Pause` moves a controller into `Owing`; nothing else changes the word's
  `Pause`. The rest is arithmetic of cardinalities: where a `Resume` is owing and the counter is zero, a `Pause` is
  owing too (`PanicOverlaps`). A step is registered only while the gate is closed or a `Done` is about to
  release it (`SleepersReleased`).
* *Resources and `Done`.* `ResourceInv`: an instance in the table is not replaced, a step has what
  is in the table, and a failed step is at its end only when its `Suspend` is on the word, where nobody else
  puts it (`SuspendMeans`). Unless `Timeout` is on the word, or the process is about to put it there
  (`TimedOut`), it leaves `waitFinish` when all steps are at their end, so that no `Attach` comes after the release and no failure
  after the suspension. `DoneInv`: the flow has an end time only when the process is done, or was
  never started.
* *Callbacks.* `ChainInv`: what was passed lies before the callback in hand or the break
  point, what is failing is what the break point names, and the next execution begins there. For the
  refinement of `UnitRun` it needs `UnitInv` besides: a break point with `SkipRun` is not of a before
  chain, and a recovery that is in a before chain is at or behind its break point. Each chain maps to a
  stutter but for its last step; the third and the sixth, or one that fails, to a move.
* *Contexts.* `Ordered`, that the steps have an order and each a number of its own, makes a path say who is behind its
  writer, and makes its highest bit that of the writer or of a step before it; who wrote the node it says only
  of a step that is `Top` (`PathsTell`). `LatestAppended` and `WithResultIs` say what a new node
  and a new result do to each search. So a write changes the views as `StepViews` says, a result is shown
  and changes no view, and `Loaded` keeps the table as long as the numbers are the same
  (`~Renumbers`; `context_recover` shows what happens otherwise). For `StableView`, `RunsAfter`
  says that whatever is before a running step is done and writes no more. The loop of `EndValues`
  is a recursive function: `LoopExists` shows that there is one, and `LoopKnows` what it has found after
  each node (`Knows`): the values of the nodes that it did not pass over, which are the last of their writers and of
  steps in `Ends` (`FreshEnds`). Both are by the least number of nodes for which it would be otherwise (`Smallest`).
  `OwnersCorrect` has the hypothesis `~Renumbers` because of the recovery only.
* *Events.* `NumberInv` numbers the goroutines of a slot, so that only the one with the latest number
  stays. `CountInv` gives each unit of `handlerNum` a token: an attached slot, a
  sender that has counted itself, a handler about to be counted again. `BagInv`: an event
  is in one place.

### What is only model-checked

Of liveness (`Terminates`, `AllStepsSettle`, `DoneReturns`), the step from "can go on" to "goes on", which needs
fairness and ENABLED, out of reach of the installed provers. `ResumeReturns`, which does not
hold, has no theorem.

## 6. What is not modelled

* Several processes of a flow: they share the flow's status word, its context and the
  lock of `Done`. `FlowRecovery` and `ProcessObject` have one process.
* The locks inside `GetByStepName` (two read locks, with a writer that queues in between): an
  access of the table is one step.
* `exit` of the dispatcher, which only tests call, its clock, and the registration of handlers.
* The filters of callbacks on names and the comparison of values in conditions: data that no
  property here depends on. `Restrict`, nested conditions and the copying of configurations.
* What resources keep (`Put`, `Fetch`, `Update`, `Clear`) and `loadResource`.
* Serialisation, encryption, logging, persistence hooks: calls of user code whose errors
  become events. An error of a snapshot has the effect of `SaveFails`.
* A mistake of the caller of `After` that closes a circle, or of `CustomStep` that makes a merged step depend on
  itself: the code does not look for one there, and the process never ends. `GraphCorrect`
  says that there is no other way to a circle.
* What other goroutines still do between a panic of the WaitGroup and the end of the program, as the deferred
  `startNextSteps` of the step that panics.
* Configuration, enumerations and the command line tool: no state of a flow.

Facts of the code in these parts, read and not modelled, that a reader may want to know:

* `Attach` makes an instance before it looks again; the one that loses is never released.
* `Restrict` keeps the number a step has when it is called, which a later `Merge` changes, and a
  restricted `Get` has no fallback, despite `docs/Context.en.md:146`.
* `GT` of a condition is the negation of `LT` and holds for equal values.
* `buildSnapshot` reads the table without its lock while functions of steps that timed out may write.
* A step name that is also the name of the process has the number 0 in `toIndex`.
* A handler that leaves while a sender counts itself (`event.go:297`) may be the last one;
  events then wait until the bus is longer than a quarter of the count.

## 7. What is left

Two processes of a flow, with one status word and one context. `Restrict` with the numbers it has
kept. `Arrange` composed with `StepContext`, in place of the paths that the one shows and the other
assumes, also when `behind` is set. The locks of `GetByStepName`.
