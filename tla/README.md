# Genevieve in TLA+

Specifications of `farbodsalimi/genevieve`, a Go library that runs language-model
calls as a typed state graph (`pkg/graph`), a bounded tool loop (`pkg/agent`) and
a registry of providers (`pkg/llm`, `pkg/providers`). The modules are translated
from the source; `PROJECT.json` maps every definition to the lines it stands for.

## The system

| Component | Source | State | Operations |
|---|---|---|---|
| Builder | `pkg/graph/graph.go` | nodes in insertion order, edges, routers, terminal marks, entry, recorded errors; a mutex | `AddNode`, `AddEdge`, `AddConditionalEdge`, `AddFanEdge`, `SetEntryPoint`, `SetTerminal` |
| Compile | `pkg/graph/compile.go` | none | topology checks, defaults, a copy of the topology into a `Runner` |
| Runner | `pkg/graph/runner.go` | immutable; a call keeps state, frontier and step on its stack | `Run`, `RunWithThread`, `Resume`, `Stream` |
| MapNode | `pkg/graph/mapnode.go` | per call: one slot per payload | one node that runs its payloads in an errgroup of its own |
| Checkpointer | `pkg/graph/checkpoint.go` | per thread, the newest `maxHistory` checkpoints; a mutex | `Save`, `LoadLatest`, `History` |
| Agent | `pkg/agent/agent.go` | tools and middleware under a mutex; a run keeps messages, usage and turn | `Run` (turns of generate, tools, budget), `wrapUp` |
| LLM router, AskAll | `pkg/llm` | provider registry under a mutex | `Register`, `Get`, `GetAll`, `Ask`, `AskAll` |
| Providers | `pkg/providers/*` | none | `Generate`, `Stream`: request and response translation |
| Adapters, chat | `pkg/graph/nodes`, `pkg/graph/chat` | none | nodes that call a provider, a tool or an agent; a message-list state and reducer |

A caller chains Builder calls and compiles. The Runner then drives *super-steps*:
it launches one goroutine per frontier node through an `errgroup` with a limit,
waits for all of them, folds their updates into the state in node-ID order,
saves a checkpoint every `checkpointInterval` steps and asks `nextFrontier` where
to go. Nodes, routers, the reducer, the error handler and the checkpointer are
the caller's code and may fail or (the checkpointer apart) panic; the first
failing node cancels its siblings unless a `NodeErrorHandler` turns failures into
updates. `Resume` loads the latest checkpoint of a thread and enters the same loop.
Adapter nodes call providers and agents; an agent's loop calls a provider and the
caller's tools in turn.

What is hard: the order in which the goroutines of a super-step run against the
fan-in that assigns the variable they read; failures half way through a
super-step; cancellation by the caller and by a sibling; what a checkpoint
remembers and what a resumed call does with it; Compile's approximation of what
the Runner will do at run time; a stream's two channels, closed behind a consumer
that may stop; calls that share a checkpointer; errgroups inside an errgroup, each
with a limit and a cancellation of its own; in the agent, five ways out of a turn,
each with its own idea of which results it hands back; registrations that race with
a fan-out; three clients that cut, fold and re-send answers in three ways.
`PROJECT.json` lists these hazards one by one with the properties that cover them.

What makes each part correct, in a sentence: *Builder and Compile* accept exactly
the graphs a Runner can run; *Runner* executes a thread as a sequence of atomic
super-steps, reports the first failure, leaves no goroutine behind and always
returns once cancelled; *checkpoints* of a thread are one growing lineage and a
resumed run goes on like an uninterrupted one; *Stream* shows the states of that
same run and ends with closed channels; *MapNode* combines one update per payload
or reports the first failure; *Agent* never exceeds its turns, starts
no generation over budget, and hands providers well-formed conversations;
*Register* keeps the first provider of a name and *AskAll* returns one result per
provider registered when it began; a *provider's* stream tells its handler all of
the answer and returns what the non-streaming call would, and its answers can be
sent back to it on the next turn.

## The modules

| Module | What it is |
|---|---|
| `GraphTopology` | a compiled Runner as a record, and `nextFrontier` as operators |
| `GraphRun` | the abstract specification: a run is a sequence of atomic super-steps |
| `GraphRunner` | `runLoop`, `runSuperStep`, `nextFrontier`, `Resume` at the grain of goroutine steps |
| `GraphRunner_proofs` | theorems about `GraphRunner`: its inductive invariant and what follows from it; what relates a thread's states (whole super-steps, one lineage, what an error costs, which branches are followed); and the proof that it implements `GraphRun` |
| `GraphBuilder` | the Builder's calls and `Compile` |
| `GraphBuilder_proofs` | theorems about `GraphBuilder` |
| `MemoryCheckpointer` | the in-memory checkpointer at the grain of its mutex; part of `GraphCalls` |
| `GraphCalls` | concurrent `RunWithThread`, `Resume` and `Stream` calls over one checkpointer, and the streams' consumers |
| `GraphCalls_proofs` | theorems about `GraphCalls` |
| `MapNode` | a super-step of `MapNode`s: errgroups inside an errgroup |
| `MapNode_proofs` | theorems about `MapNode` |
| `AgentLoop` | `Agent.Run`: turns, tools, budget, wrap-up |
| `AgentLoop_proofs` | theorems about `AgentLoop` |
| `Genevieve` | the provider registry, `Ask` and `AskAll` |
| `Genevieve_proofs` | theorems about `Genevieve` |
| `ProviderClient` | the three clients: requests, streamed and plain answers, the next turn |
| `ProviderClient_proofs` | theorems about `ProviderClient` |
| `DataLemmas` | lemmas on numbers, finite sets and sequences that several proofs cite |
| `MC...` | small instances of each for TLC |

### GraphTopology

A node ID is a positive number because the code compares IDs; the empty ID is 0
and never enters a frontier. `nextFrontier` looks at a node's terminal mark,
static edges, conditional router and fan router in this order: `Ends`, `Static`,
`Conds`, `Fans`, and `DeadEnd` for the fall-through. A router's answer depends on
the caller, so `Routed` lets it be any set of at most one ID per `Router`, and
any set at all once a `FanRouter` is asked, IDs that name no node included.

### GraphRunner

One thread: a `RunWithThread` call followed by `Resume` calls. `pc` is the place
of the runner's own goroutine:

| `pc` | code | actions |
|---|---|---|
| `loop` | head of `runLoop`'s `for`, `step++`, limit | `Complete`, `HitLimit`, `BeginSuperStep` |
| `launch` | the `eg.Go` loop and `eg.Wait` | `Launch`, `Wait` |
| `fanin` | the sorted reduce loop | `Reduce`, `ReduceFails` |
| `save` | the checkpointer | `Save`, `SaveFails` |
| `route` | `nextFrontier` | `Route`, `RouteFails` |
| `returned` | between calls | `ResumeRuns`, `ResumeFails`, `Stopped` |

Each frontier node has a goroutine (`gor`: idle, launched, executing, done) with
the steps `Snapshot` and `Succeed` or `Fail`; `Fail` covers an error, a panic
(a nil node for an unregistered ID can only panic, and a panicking cloner is a
panic of its node) and an error that says the context was cancelled. The caller
may `Cancel` at any moment of a call. `errgroup` is external and modelled by what
the code relies on: `Go` blocks while all slots are out, the first error is kept
and cancels the group's context, `Wait` waits for every goroutine.

The graph state is the sequence of the updates reduced into it, each tagged with
its node, its super-step, the length of the snapshot the node had read and
whether the node or the error handler produced it. That is exactly what the
properties tell apart. `state` is `runLoop`'s variable and `acc` is
`runSuperStep`'s parameter of the same name, the one that goroutine closures
capture and the fan-in assigns: the model keeps them apart as the code does, so
that a snapshot taken too late would show.

Left open on purpose: in which order the frontier's goroutines are launched (the
code's order is that of the frontier slice; the model allows every order, so it
covers the code's). A router failure reports any router of the frontier, where
the code reports the first to fail; routers being arbitrary, each may be that one.

### GraphRun

The same thread without goroutines: `SuperStep` adds the updates of a whole
frontier at once, every one having read the state the step began with;
`Checkpointed` and `Routing` follow; `Returns` ends a call at any point without
touching the state. `GraphRunner`'s `Run` instance maps `loop`, `launch` and
`fanin` to `step` and every other place to itself, and `AtomicSuperSteps` says
that the detailed specification implements this one.

### GraphBuilder

Every Builder method holds the mutex from its first line to its last, so a call is
one action and concurrent callers are covered by the interleaving of calls.
Static edges stay sequences, since `AddEdge` may record an edge twice and
`isAcyclic` counts it twice. `Checks` lists what each of Compile's checks may
report, in order; checks that range over a Go map may report any offender, checks
that range over `b.order` the first. `ReachableSet` is the depth-first walk with
its stack and `IsAcyclic` is Kahn's algorithm with its queue, both as recursive
functions over the turns of the loop (`WalkTurn`, `Removal`), the inner loops over a
node's edges as folds (`Pushed`, `Relax`). The code's `for len(stack) > 0` has no
bound; `Turns` is one that is never reached with work left, which the proofs show.
`compiled` and `rejected` hold what Compile returned.

### MemoryCheckpointer and GraphCalls

`GraphCalls` puts calls of one Runner side by side. A super-step is one action here,
which is what `GraphRunner`'s refinement of `GraphRun` justifies, so that the
interleavings left are those of the calls: each has its `pc`, `frontier` and `state`,
and all share the checkpointer. `MemoryCheckpointer` is a module of its own that
`GraphCalls` extends: `SaveReads` takes the mutex, reads the thread's history and
trims it, `SaveStores` writes it back and releases, and a `LoadLatest` gets in only
while nobody holds the mutex. `saved` is a history variable. A caller's own
checkpointer may return an error or panic instead, without having stored anything
(`SaveFails`) or after it has (`SaveFailsStored`), and may fail to load (`ResumeFails`).

`runLoop` and `Stream` run the same loop, and so do both kinds of call here; what
`Stream` adds is where they differ:

| Go | model |
|---|---|
| `states := make(chan T)` and the `select` | place `offer`: `Deliver` is a rendezvous with a reading consumer, `Withdraw` the case of the done context |
| `errs := make(chan error, 1)` | `errs[c]`, empty or of one error; `SendErr` blocks on a second |
| deferred recover, `close(errs)`, `close(states)` | `Finish` leads to `sendErr`, `closeErrs`, `closeStates` in that order |
| the consumer | `reader`: reads the states, then the error channel once they end; or stops |
| `newThreadID()` | a thread no other call uses |

A state is the sequence of its super-steps, each with its nodes and the call that
ran it: enough to tell which run a state or a checkpoint belongs to.

### MapNode

One super-step of the Runner with nothing but MapNodes in its frontier, to have
both levels of goroutines: `pc` is where a node's goroutine is (launching payloads,
in `eg.Wait`, in `combine`), `inner` where its payloads' goroutines are. `SlotFree`
is the runner's limit, `InnerSlotFree` the node's; a node is `Busy`, and so counts
against the runner's, for as long as it waits for its payloads. Each group keeps its
first error, and its context is done when it has one or its parent's is. The update of
payload `i` is `i`, so that a slice out of order or with a hole shows. `InnerPanics`
ends the program: the guard of `runSuperStep` is on the node's goroutine, not on the
payload's, and errgroup, which is external, is modelled without a recover of its own.

### AgentLoop

One `Agent.Run` while other goroutines register tools and middleware. `pc` follows the code:
`turn` is the head of the loop, `generate` a call of the model, `tools` the loop
over the response's calls, `wrapup` the entry of `wrapUp` and `summary` its
generation. `messages` is `Run`'s slice and `result` what a return hands back; the
two differ while a turn's tools run, as in the code, because `result.Messages` is
assigned at two places only. A message keeps its role, its tool calls or the
number of the call it answers; a usage keeps its two counts. `asked` and
`executed` are histories no action reads. The model may call any name, registered
or not; a tool fails or succeeds (invalid JSON is a failure). Middleware is only ever
appended, so a chain is known by its length: `installed` is the agent's, `chain` the
run's copy, and `through` says which one an execution or a generation used.

### Genevieve

Goroutines that call `Register`, each with a provider of its own, and goroutines that
call `Ask` or `AskAll`. A lock is taken in one action and released in another, with
what is read or written in between in these two: `LooksUp` and `Stores` are
`Register`'s two halves, `Locks` and `Copies` those of `Get` and `GetAll`, and
`StartsResult` and `StoresResult` the write of one entry of the result map, which
copies the map it found, so that an unguarded write would lose another's. A provider
in `mute` answers only once the context is done. A panic on one of `AskAll`'s
goroutines ends the program (`crashed`).

### ProviderClient

One conversation with one of the three clients, over several turns. `params` turns
the conversation into a request or refuses it; the answer arrives in chunks that are
any the service may send (`MaySend`); streaming, each chunk is folded and its events
emitted one by one, the handler being free to stop; the response's calls are executed
and the next turn carries them and their results back, as `Agent.Run` does. Where
the clients differ there are three definitions, named for them: what is refused
(`OpenAIRefusals`: a tool call's input is passed on unparsed; `AnthropicRefusals`:
parsed as any value; `GeminiRefusals`: as an object), what is sent, how the stop
reason is chosen and how a stream ends. openai and anthropic let their SDK
accumulate (`Whole`, external) and translate once; gemini translates every chunk and
adds up the results.

A part of an answer is its place in it; text and JSON have no content, except whether
a JSON text is an object, null, an array or broken. A chunk's usage is its number, so
that a wrong choice or a sum shows. The 32-bit limit is scaled down to `MaxInt32`.
`ClientAssumption` says of the caller's conversations that each tool call in them has
its result after it, as the services demand (`Answered`): the clients check nothing of
the kind, so what they owe is to keep it so; and of gemini's calls that their arguments
are a map or nil, as the Go type of `FunctionCall.Args` has it.

## The runs

| Run | Instance | Distinct states | Expected |
|---|---|---|---|
| `runner_safety` | 7 graphs of 4 nodes and one unregistered ID, a run and a Resume | 563,364 | pass |
| `runner_liveness` | 5 graphs, node 3 waits for a cancellation | 20,594 | pass |
| `resume` | the diamond | | `FollowsBranches` violated |
| `deadend` | the loop with a handler | | `NoDeadEndRouted` violated |
| `compile` | 3 IDs, 5 starting builders, 3 calls, 3 option sets | 135,911 | pass |
| `unreachable` | as `compile` | | `EveryNodeCanRun` violated |
| `calls` | 4 graphs, two calls at a time: run and run, run and Resume, stream and run | 70,155 | pass |
| `mapnode` | 5 super-steps of up to 3 MapNodes of up to 3 payloads | 89,295 | pass |
| `agent` | 2 tools, 7 requests, responses of up to 2 calls, one middleware of each kind | 216,476 | pass |
| `genevieve` | 3 registrars, 2 askers, 2 names | 173,560 | pass |
| `providers` | 3 clients, 2 conversations, 5 requests, two turns of up to 3 and 2 chunks | 896,564 | pass |
| `gemini` | gemini's chunks, as `providers` | | `SameAsGenerate` violated |

`runner_safety` asks whether concurrency, failure and resumption can be seen in
the result. `ReadsCommitted`: a node reads every update of the earlier super-steps
and none of its siblings'. `SortedFanIn`: equal runs give equal states.
`WholeSuperSteps`: no caller, checkpoint or router sees half a super-step, not
even after an error half way through the fan-in. `RootCause`: the error returned
is the failure that started the trouble. `NoStragglers`: no goroutine outlives its
super-step. `StepBound`: the recursion limit holds over all calls of a thread.
`OneLineage`: a thread's checkpoints only grow, through errors, failed saves and
Resumes. `RedoBound`: a crash or an error, at any moment, costs at most
`checkpointInterval` super-steps, the one under way included, although history is
trimmed; it costs fewer finished ones, unless it strikes while the checkpoint that is
due is being saved or is that save's failure, which with interval 1 costs the one
super-step just finished. `FollowsBranchesInOneCall`: the next frontier is the
union of what each branch leads to. `AtomicSuperSteps`: refinement of `GraphRun`.

`runner_liveness` asks whether a call always ends. `CallReturns`: yes once the
context is cancelled, and without it when no node waits for a cancellation.
`FailFast`: a failing node brings the group down even while a sibling waits, and
even when that sibling had not been launched.

`compile` asks whether Compile draws the line in the right place.
`RunnableOnceCompiled` is what the Runner takes for granted (`GraphRunner`'s
assumption on its `Runners` is one of its conjuncts); `AcceptsExactlyValid`
compares the code's checks and its walk with a definition by reachability
(`Reached`: a node is reached from another when it is in every set that has the
other and, with a node, its targets); `AcyclicIsExact` compares Kahn's algorithm
with the same reachability.

`agent` asks whether the loop keeps its books. `ConversationAnswered`: providers are
handed conversations in which every tool call is answered, in order, failures
included. The wrap-up request after a turn with tool calls is the exception: the code
sends the calls of the last response unanswered, and the property says that there no
earlier call is. `WholeTurns` and `EffectsReported`: what a caller gets back never holds part of a turn's results, and holds all of them
unless an unknown or a terminal tool cut the turn short (then the results of
earlier calls of that turn are lost, although those tools have run).
`ToolsInOrder`: no call runs twice or out of order, none after a terminal tool.
`OffersHold`: only tools the model was offered are executed, and a run goes through
the same middleware from its first call to its last. `StartsWithinLimits`: no
generation starts once a cap is used up (for a reserve that is not negative; a
negative one widens the caps), and there is one per turn and one more for the wrap-up.

`calls` asks what callers and consumers see of each other. `DeliveredInOrder`: a
stream shows every super-step's state of its own run, once and in order, whatever the
checkpoint interval. `VerdictArrives`: who reads the states to the end learns how the
run ended, without blocking, and has missed no state but one that a cancellation or a
failed save withheld. `SavedBeforeShown`: a state that was due to be saved has been
when a consumer sees it. `NoLostSave`: two calls on one thread lose none of each
other's checkpoints (they do interleave, and a Resume takes up whichever came last).
`StreamEnds`: drained or cancelled, a stream leaks no goroutine; one that is left
without a cancellation does, as the comment on `Stream` warns.

`mapnode` asks whether the two levels of errgroups agree. `WholeFold`: `combine` sees
every payload's update at its place, and no goroutine outlives its node. `RootCause`:
no context error is reported unless the caller's context is done. `SuperStepEnds`: the
super-step ends whatever the two limits are, because they are independent; the
definition `RunnersSlotFree`, which draws both from the runner's, deadlocks, as the
comment on `WithMapParallel` says it would.

`genevieve` asks whether the registry is one. `OneWinner`: of racing registrations of
a name one wins and stays. `AllAnswered`: `AskAll` returns an entry for every provider
registered before it was called, each the answer of that provider. `CallsReturn`: a
provider that never answers keeps nobody else waiting.

`providers` asks whether the clients keep llm.LLM's contract. `EventsTellAll`: the
handler has been told all of the response when `Stream` returns, calls once, usage
last. `AsGenerated`: text, calls and usage are `Generate`'s, and the stop reason but
for gemini. `TurnsCarryOver`: the client can send its own answer back to the service
unless an anthropic stop reason said that it was cut off.

The bounds. Frontiers of two and three nodes are the smallest in which siblings
interleave, one fails while another runs, and one is launched behind the
semaphore (`maxParallel` 1, 2 and 3 all occur). The loop under a limit of three
or four exceeds it. One Resume after a call that may have ended anywhere reaches
every pair of an ending and a continuation; intervals 1 and 2 and histories 0, 1
and 2 make checkpoints skip steps and be trimmed. For Compile, three calls from a
prepared builder make every pair of faults, duplicate edges, self-loops and cycles
of three, and chains through terminal nodes and routers. For the agent, two calls in
a response are the fewest that can be cut between, and caps of two to six tokens
are met exactly, passed in one step and passed by a wrap-up; one middleware of each
kind may be added at any moment, before, during or after the copy.
Two calls are the fewest that race for a thread, and a loop that exceeds its limit
after two super-steps makes a stream end in each of its ways at a first, a middle and
a last state. Two and three payloads under limits of one, two and none are launched
behind each of the two limits, and a node that fails finds siblings running, waiting
and not launched. Two registrars race for one name beside a third of another, while
two askers look. Three chunks separate a call, a finish and a usage; a second turn is
what it takes to send an answer back.

The bounds that are not in the code are `MaxCalls` (`GraphRunner`: Resumes,
`GraphBuilder`: builder calls, `AgentLoop`: calls in a response), `MaxMiddleware`,
`MaxPayloads` and `MaxChunks`, which is also the number of turns; `MaxInt32` is one
scaled down.

Deadlock is checked in every run: `Stopped`, `Compiled` and `Returned` stutter where the
program is done, so a state without a successor would be a real one.

Beside some definitions stands one no behaviour uses (`OverLimitOffByOne`,
`WaitForFirstError`, `ReduceFailsHalfway`, ...): the same idea with a plausible bug. Each
property of a passing run is paired in `PROJECT.json` with one of them, which
breaks it when put in the definition's place: evidence that the property depends
on the code.

## Fairness

`WF_vars(RunLoop)`: the runner's goroutine is scheduled while it can move.
`WF_vars(Goroutine(n))` for each node: the scheduler runs a node's goroutine and
the caller's `Execute` returns. Code that never returns is the caller's fault and
no run would end; a node in `Waiters` is weaker, it returns only after its context
is cancelled, which is what a blocking provider call does. Neither `Cancel` nor
`Resume` is fair: nobody has to cancel or to resume.

`GraphCalls`: each call's goroutine runs, a consumer that reads goes on reading, and
one that stopped reading cancels. The last is not a promise of the scheduler but what
the comment on `Stream` (`runner.go:281-282`) asks of the caller; without it
`StreamEnds` is false, and should be. `MapNode`: as `GraphRunner`, with an inner call
in the place of `Execute` and `waiters` in that of `Waiters`. `Genevieve`: every
goroutine runs, and whoever waits for a lock gets it once it is free, which weak
fairness gives here because the calls are finitely many; a mute provider returns only
after a cancellation, which nobody owes.

`GraphBuilder`, `AgentLoop` and `ProviderClient` need no fairness, having no liveness
property.

## Where the code and its documentation part

1. **Resume loses branches** (`resume`). A checkpoint names the last-reduced node
   only, and `Resume` continues from the frontier that node leads to. After a
   super-step over nodes 2 and 3 of the diamond the successors of 2 are never run,
   and `Resume` may return the checkpoint's state as final. Super-steps of one
   node resume correctly (`FollowsBranchesInOneCall`).
2. **The "unreachable" fall-through of `nextFrontier` is reached** (`deadend`): a
   router names an ID that is not registered, a `NodeErrorHandler` absorbs the nil
   node's panic, and the branch ends silently.
3. **Compile accepts nodes no run can execute** (`unreachable`): its walk goes
   through terminal nodes, whose edges the Runner never follows.
4. **A gemini stream forgets its tool_use** (`gemini`): each chunk's stop reason
   overwrites the last, and a chunk without calls says `end_turn` (`gemini.go:88`,
   `203`), so an answer whose calls and whose finish come in different chunks
   returns another stop reason than `Generate`. The contract is that `Stream`
   "returns the same complete response as Generate" (`model.go:8-9`). The agent
   does not look at stop reasons, so its loop is not affected.

Three more disagreements show in the models without a run of their own. An inner
function of a `MapNode` that panics ends the program (`InnerPanics`; `SuperStepEnds`
counts that as an end), where the README, naming `MapNode` in the same sentence,
promises that "a panicking node surfaces as a `NodePanicError` rather than taking down
the run". openai's `Stream` panics on an answer without choices, for which
its `Generate` returns an error (`EmptyChoices`). `Stream`'s comment speaks of a
"state snapshot", but the state itself is sent; the models, which hold states by
value, cannot tell the two apart.

## What is proved

The proof modules are checked by TLAPS to the last leaf, for every value of the
constants that satisfies the assumptions of the modules: `NodeIDAssumption`,
`RunnersAssumption`, `BuilderAssumption` (IDs are a finite set of positive
numbers, Runners are well-typed and statically closed, a chain of Builder calls
starts from a Builder that lists no node twice, `MaxCalls` and `MaxProcs` are
natural numbers), `CallsAssumption`, `MapAssumption`, `AgentAssumption` and `GenevieveAssumption`
(the constants have their types, and special names differ from ordinary ones), and
`ClientAssumption` (see `ProviderClient`).

`GraphRunner_proofs` proves `TypeOK`, `ReadsCommitted`, `SortedFanIn`,
`StepBound`, `NoStragglers` and `RootCause` invariant. None of them is inductive.
`ReadsCommitted` of `state` after a fan-in depends on `acc` during it, on the
snapshots the goroutines took during the launch, and, after a Resume, on every
state in `history`. The invariant `IInv` is therefore:

- `TypeInv`: `TypeOK`, and a state to be saved is never the empty one;
- `StepInv`: a running super-step's number is within the recursion limit, and
  `state` holds updates of super-steps up to `step` only (up to `step - 1` during
  the launch and the fan-in, where `step` is at least 1);
- `BarrierInv`: goroutines run only while `pc = "launch"`, and only for frontier
  nodes;
- `CtxInv`: a context error recorded by the group, or returned, implies that the
  caller's context is done;
- `MergeInv`: during the launch `acc = state` and every snapshot has its length;
  during the fan-in `acc` extends `state` by updates of this step, in ID order, all
  smaller than what is still pending, whose snapshots have `state`'s length;
- `GoodState(state)`: steps within the limit, committed reads, updates ordered by
  step and then by node;
- `HistoryInv`: every checkpoint's state is such a state, and holds no update of a
  super-step later than the checkpoint's own.

TLC checked `IInv` as an invariant before it was proved. The proof has one lemma
per conjunct that an action disturbs, and lemmas on what appending an update and
trimming a history preserve.

The second half of the module builds three more invariants on `IInv`.

- `WholeInv`, for `WholeSuperSteps`: during the fan-in `acc` has the updates of
  exactly the frontier nodes that are not pending any more, and no error is kept
  while a call runs.
- `LineageInv`, for `OneLineage` and `RedoBound`: where `runLoop` stands
  (`PositionInv`: the last update's step is `step`, or `step - 1` within a
  super-step or after an error that ended one, and a failed save leaves it at
  `step`), the history as a lineage (`Descends`), the latest checkpoint as a prefix
  of the running state (`AheadInv`), and no due super-step passed without a
  checkpoint (`DueInv`), but for the one whose save is under way or has failed
  (`Saving`). `RedoBound` follows because of any `checkpointInterval` super-steps in a
  row one is due (the division is confined to that lemma) and because the step count
  is never more than one ahead of the state, and not ahead of it at all while a
  checkpoint is saved.
- `FollowInv`, for `FollowsBranchesInOneCall`: every checkpoint names the node of
  its state's last update, which is the whole frontier when the frontier is one
  node.

The module ends with the proof of `AtomicSuperSteps`, that `GraphRunner`
implements `GraphRun`, under the mapping described above. The steps of goroutines
and the turns of the fan-in stutter, except the last turn: there `Merging` (from
`MergeInv`) and `WholeInv` together say that `state'` is `state` after one whole
super-step, and counting its updates takes a bijection to the frontier
(`OnePerNode`). Errors are `GraphRun`'s `Returns`; a save stores what `GraphRun`
keeps (`KeptIsRetained`).

`GraphBuilder_proofs` proves all of `GraphBuilder`'s invariants. `TypeOK` and
`RunnableOnceCompiled` go through what Compile has established when every check
came out empty (`ChecksAre`), what an empty `EdgeFaults` says of one node
(`NoEdgeFaults`), and that the copy made from such a Builder is a well-typed,
statically closed Runner without dead ends (`CompiledIsRunnable`). Together with
`GraphRunner`'s theorems, which assume exactly `Runner` and `StaticallyClosed`,
it says that every Runner the library can hand out has the proved properties.

The other two are about algorithms. `WalkIs` says of the depth-first walk that it
returns the least closed set with the entry: `WalkInv` holds after any number of
turns (what is visited or on the stack contains every target of what is visited,
and lies in every closed set), and `Work`, the height of the stack and the edges of
nodes not visited yet, shrinks with every turn, so the stack is empty after `Turns`
of them. With it `PassesIsValid` says that the checks come out empty for exactly the
valid graphs, and `AcceptsExactlyValid` follows from `VerdictInv`. `KahnIsExact`
rests on `KahnInv`: there is a set of removed nodes, as many as were counted, such
that every count is the number of edges from nodes not removed (`Counted`), the
queue holds the nodes not removed whose count is 0, once each, and every removed
node `Escapes`: its edges lead into a closed set it is not in, the nodes still left
when it was removed, so it is on no cycle. If the loop stops with nodes left, each
of them has a predecessor among them; the one to which the fewest of them lead is
then on a cycle (`PredecessorsCycle`). `NodesCounted` is where it matters that no
node is registered twice: the loop's result compares a count with the number of
nodes.

`MapNode_proofs` proves `TypeOK`, `WholeFold` and `RootCause` for any nodes,
payloads and limits. What a MapNode may fold follows from where its payloads'
goroutines are: `Progress` says, for each place of the launch and the wait, which
payloads have been started and which have returned, and `Stores` that a payload
that is done has left its update at its own place, unless the group has an error.
With these `WholeFold` and `RootCause` are inductive: the loop cannot reach
`combine` without an update of every payload, and each group keeps its first
error, so a cancellation it caused itself is never the one it reports.

`Genevieve_proofs` proves `OneWinner` from `LockInv` (from its lookup to its store
a `Register` holds the lock alone, so what it found still holds when it stores)
and `WinnersInv` (outcomes and registry agree, registrar by registrar).
`RegistryStep` gives a second fact, `Grows`: no step replaces or removes an entry.
That is what `AllAnswered` rests on, whose `QueryInv` says that a copy agrees with
the registry as it is *now* (`SnapshotInv`), that goroutines run for the names
of the copy only (`GoroutineInv`), and that a goroutine that is writing holds the
mutex alone, so that what it adds its entry to are the current results
(`ResultsInv`).

`GraphCalls_proofs` proves all of `GraphCalls`' invariants, for any number of
callers, threads and checkpoints; TLC checked the parts of `IInv` first.

- `LockInv`: the mutex is held by the call that stands between `SaveReads` and
  `SaveStores`, and by nobody else. With it `SaveInv` can say that what such a call
  is about to store is still the thread's history with its own checkpoint appended
  and trimmed: nobody has stored anything since it read.
- `NewestInv`: a thread's history is the newest `maxHistory` of all checkpoints
  ever saved to it. It is `NoLostSave` counted from the end, and the lemma
  `NewestOfAppend` is why a bounded history can be trimmed again and again.
- `StreamInv`, which holds for each stream on its own: what its consumer has are
  prefixes of the stream's state, one super-step longer each time (`ReceivedInv`);
  only a state still being saved or offered, or one withheld by a cancellation, a
  failed save or a panic, is missing (`PaceInv`); the channels close in order and
  the error stays in its buffer until it is read (`ChannelInv`); and a due state
  has its checkpoint from the moment it is offered (`OfferInv`). `VerdictArrives`
  and `DeliveredInOrder` need the first three together: that the last state was
  delivered when the run ended well can be seen from nothing the consumer holds.
  A call that is no stream keeps clear of the channels (`PlainInv`).

`AgentLoop_proofs` proves all of `AgentLoop`'s invariants. `CallInv`: a call that is to be run is one of the response's. `AskedInv`
ties the number of generations to the turn and excludes a wrap-up before the
last; `BudgetInv` that each started with something left of every cap, for any
reserve that is not negative. `OffersInv`: every generation of a turn was offered
exactly the run's copy of the tools. `OrderInv` places each execution before the
turn and call to come. `MessagesInv` is what both conversation theorems need:
during the tools, everything before the assistant's message (`CallsAt`) is
answered and what follows are its answers so far, in order (`AnsweringInv`); from
there to the wrap-up only the last message's calls are open (`AnsweredButLast`).
`ReportInv`, for `EffectsReported`, counts: as long as a run has not returned, the
conversation it keeps has one tool message per execution, and the result's
conversation is that one wherever a run may end without an exempt error. Between
two tools of a turn the two conversations differ, which is why the count is kept of
`messages` and not of `result`.

`ProviderClient_proofs` proves `EventsTellAll`, `AsGenerated` and `TurnsCarryOver` for
any chunks, conversations, requests and numbers of chunks and turns. All three compare
what was done piece by piece with what the whole amounts to, and the definitions on
both sides flatten sequences (`TextIn`, `CallsIn`, `Parts`, `TextTold`, `OfRole`): the
lemmas say of each that it takes a concatenation to a concatenation (`TextInConcat`,
`CallsInConcat`, ..., by way of `FlattenConcat` of `DataLemmas`), and of `Usage` and
`Finish` what one chunk more makes of them (`LastToldOfMore`). `IInv` has, besides the
types:

- `StreamInv`: while chunks arrive, the events emitted and those pending tell just
  what has arrived (`ReadingInv`); once the stream has ended they tell everything, the
  usage last (`ToldInv`); and gemini's response, which grows event by event, is what
  its events told, its usage that of the chunks before the one being emitted
  (`GeminiInv`). With the first, `PrefixInv` holds wherever a stream breaks off.
- `PlainInv`: without streaming there are no events and the response is `Generated`.
- `CutInv`: an anthropic answer with an input cut off has not finished otherwise than
  by its limit. It is what the last part of the next item needs.
- `CarryInv`: the conversation stays `Answered`; it is refused on a later turn only if
  the anthropic response it carries says that it is incomplete. The step is
  `NextTurn`, where the inputs that come back are those of the answer's calls
  (`CarriedInputs`): for gemini an object or null, by their type; for anthropic any
  value, unless one was cut off, and then `CutInv` gives the stop reason.
- `SentInv`: what was sent, as `TurnsCarryOver` has it, which stays true of the longer
  conversation because what is carried on adds no system message.

TLC checked this invariant too before it was proved. The proof found an ambiguity in
the model: two arms of the `CASE` in `Extended` overlapped, and which of them TLA+
chooses is left open, although TLC takes the first.

`DataLemmas` holds what these proofs share. Induction over the natural numbers is
there in a first-order form (`SetInduction`, from the library's fact that a
nonempty set of naturals has a least element), since a theorem with an operator
parameter cannot be instantiated. So are the existence of a function defined by
iteration (`IterationExists`) or by the recursion behind `FoldLeft` (`FoldExists`):
that `Walk`, `IsAcyclic` and their folds are what their equations say is proved, not
assumed. `FlattenSeq` is treated the same way: `FlattenExists` gives the function
behind its fold, the sequences joined so far, and the other lemmas follow from that.

Only model-checked: liveness (`CallReturns`, `FailFast`, `StreamEnds`,
`SuperStepEnds`, `CallsReturn`), out of the prover's reach like everything that needs
`ENABLED`. Every invariant and every action property of a passing run is proved.

## What is not modelled

Of the modelled parts:

- in `GraphRunner`, a panicking `Checkpointer` of a plain call (there is no recover
  on that path, it escapes to the caller; `GraphCalls` models it for a stream,
  whose own recover reports it), nil router functions, and the aliasing of a state
  that has neither a cloner nor `Clone`: whether goroutines then race is a matter
  of the caller's type, not of the runner's steps;
- random thread IDs: `Run` is `RunWithThread` with a fresh thread, and the ID
  that `Stream` makes up for an empty one is never told to its caller;
- in `AgentLoop`, a panicking tool (it escapes `Agent.Run`) and the contents of
  messages. The agent ignores stop reasons, so what `ProviderClient` shows of a
  truncated answer reaches it unseen;
- in `Genevieve`, `ListProviders` and in `MemoryCheckpointer`, `History`: reads
  under the same locks that change nothing;
- in `ProviderClient`, an SDK accumulator that rejects a chunk (`openai.go:62` drops
  what `AddChunk` returns; that it takes every chunk is an assumption about the SDK),
  limits above the greatest 32-bit integer in `TurnsCarryOver`, thinking effort, the wrapping of tool results, the
  translation to the SDKs' types, HTTP and the SDKs themselves;
- the texts of errors everywhere.

Node adapters, the chat state and the examples have no module; `PROJECT.json`
says why for each.

## Plan

Done, in this order: `GraphTopology`, `GraphRunner` with `GraphRun`,
`GraphBuilder`, their proofs, `AgentLoop`; then `MemoryCheckpointer` and
`GraphCalls` (streams, and calls that share a thread), `MapNode`, the agent's
middleware, `Genevieve`, `ProviderClient`, the proofs of `MapNode`, `Genevieve`
and `AgentLoop`, the lineage and refinement proofs of `GraphRunner`, and the proofs
of `GraphCalls`, of Compile's algorithms and of `ProviderClient`; last the bound of
`RedoBound` carried through saves and returns. To come: a property for the
repository's promise that a panicking node is contained, which a `MapNode`'s inner
function breaks.

Runs stay within small instances: two or three goroutines, one or two calls,
budgets of a handful of tokens.
