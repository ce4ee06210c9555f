----------------------------- MODULE GraphRunner -----------------------------
(***************************************************************************)
(* One thread's calls of Runner.RunWithThread and Runner.Resume            *)
(* (pkg/graph/runner.go), at the grain of goroutine steps.                 *)
(*                                                                         *)
(* The runner's goroutine drives the super-steps: it launches one          *)
(* goroutine per frontier node through an errgroup with a limit, waits for *)
(* all of them, folds their updates into the state in ID order, saves a    *)
(* checkpoint and computes the next frontier.  Nodes, routers, reducer,    *)
(* error handler and checkpointer are the caller's code: they succeed or   *)
(* fail as they like.                                                      *)
(*                                                                         *)
(* A graph state is the sequence of the updates reduced into it.  Each is  *)
(* tagged with its node and super-step, with the length of the snapshot    *)
(* the node read, and with who produced it, the node or the error handler. *)
(***************************************************************************)
EXTENDS GraphTopology, SequencesExt

CONSTANTS
  Runners,    \* compiled Runners, configuration included
  Waiters,    \* nodes that return only once their context is cancelled
  MaxCalls    \* bound: RunWithThread once, then Resume up to MaxCalls-1 times

ASSUME RunnersAssumption ==
  /\ Runners \subseteq Runner
  /\ \A r \in Runners : StaticallyClosed(r)
  /\ Waiters \subseteq NodeID
  /\ MaxCalls \in Nat \ {0}

VARIABLES
  runner,     \* the Runner, immutable
  ctxDone,    \* the caller's context is cancelled
  pc,         \* where the runner's goroutine is
  calls,      \* calls made so far
  frontier,   \* runLoop's frontier
  step,       \* runLoop's step
  state,      \* runLoop's state, what a return hands back
  acc,        \* runSuperStep's state, which its goroutines' closures read
  gor,        \* the frontier nodes' goroutines
  read,       \* length of the snapshot each goroutine took
  results,    \* runSuperStep's result slots
  groupErr,   \* the errgroup's first error
  pending,    \* results the fan-in has not reduced yet
  err,        \* the error the last call returned
  history     \* the checkpoints the checkpointer holds for the thread

superStepVars == <<acc, gor, read, results, groupErr, pending>>
vars == <<runner, ctxDone, pc, calls, frontier, step, state, superStepVars,
          err, history>>

PC == {"loop", "launch", "fanin", "save", "route", "returned"}

(* What an error says: its kind and the node it names (0 for none).        *)
NoErr == [kind |-> "none", node |-> 0]
ErrKind == {"none", "limit", "exec", "panic", "ctx", "handler", "reducer",
            "save", "router", "load", "notfound", "nocheckpointer"}
Err == [kind : ErrKind, node : NodeID \cup {0}]
NodeErrKind == {"exec", "panic", "ctx"}

Update == [node : NodeID, step : Nat, read : Nat, by : {"node", "handler"}]
State  == Seq(Update)
Checkpoint == [node : NodeID, step : Nat, state : State]

Running == { n \in NodeID : gor[n] \in {"launched", "executing"} }

(* The group's context: derived from the caller's, cancelled by the first  *)
(* error of a goroutine.                                                   *)
GroupCtxOfCaller == ctxDone
GroupCtxOfGroup == groupErr # NoErr
GroupCtxDone == ctxDone \/ groupErr # NoErr

Return(e) == pc' = "returned" /\ err' = e

-----------------------------------------------------------------------------
(* RunWithThread: the loop starts at the entry with step 0.                *)
Init ==
  /\ runner \in Runners
  /\ ctxDone = FALSE
  /\ pc = "loop"
  /\ calls = 1
  /\ frontier = {runner.entry}
  /\ step = 0
  /\ state = <<>>
  /\ acc = <<>>
  /\ gor = [n \in NodeID |-> "idle"]
  /\ read = [n \in NodeID |-> 0]
  /\ results = [n \in NodeID |-> "empty"]
  /\ groupErr = NoErr
  /\ pending = {}
  /\ err = NoErr
  /\ history = <<>>

(* The caller cancels its context, at any moment of a call.                *)
Cancel ==
  /\ pc # "returned"
  /\ ~ctxDone
  /\ ctxDone' = TRUE
  /\ UNCHANGED <<runner, pc, calls, frontier, step, state, superStepVars,
                 err, history>>

(* Head of runLoop's for: the frontier is empty, the run is over.          *)
Complete ==
  /\ pc = "loop"
  /\ frontier = {}
  /\ Return(NoErr)
  /\ UNCHANGED <<runner, ctxDone, calls, frontier, step, state, superStepVars,
                 history>>

OverLimitOffByOne(s) == s > runner.recursionLimit + 1
OverLimit(s) == s > runner.recursionLimit

(* step++, and the recursion limit refuses the super-step.                 *)
HitLimit ==
  /\ pc = "loop"
  /\ frontier # {}
  /\ step' = step + 1
  /\ OverLimit(step + 1)
  /\ Return([kind |-> "limit", node |-> 0])
  /\ UNCHANGED <<runner, ctxDone, calls, frontier, state, superStepVars,
                 history>>

(* step++, and runSuperStep sets up its result slots and a fresh errgroup. *)
BeginSuperStep ==
  /\ pc = "loop"
  /\ frontier # {}
  /\ step' = step + 1
  /\ ~OverLimit(step + 1)
  /\ pc' = "launch"
  /\ acc' = state
  /\ gor' = [n \in NodeID |-> "idle"]
  /\ read' = [n \in NodeID |-> 0]
  /\ results' = [n \in NodeID |-> "empty"]
  /\ groupErr' = NoErr
  /\ UNCHANGED <<runner, ctxDone, calls, frontier, state, pending, err,
                 history>>

-----------------------------------------------------------------------------
(* errgroup (external): Go blocks while the limit's tokens are all out,    *)
(* and launches even when the group's context is already cancelled.        *)
SlotFree == Cardinality(Running) < runner.maxParallel

Launch(n) ==
  /\ pc = "launch"
  /\ n \in frontier
  /\ gor[n] = "idle"
  /\ SlotFree
  /\ gor' = [gor EXCEPT ![n] = "launched"]
  /\ UNCHANGED <<runner, ctxDone, pc, calls, frontier, step, state, acc, read,
                 results, groupErr, pending, err, history>>

(* The goroutine clones the state its closure captured, then executes.     *)
Snapshot(n) ==
  /\ gor[n] = "launched"
  /\ gor' = [gor EXCEPT ![n] = "executing"]
  /\ read' = [read EXCEPT ![n] = Len(acc)]
  /\ UNCHANGED <<runner, ctxDone, pc, calls, frontier, step, state, acc,
                 results, groupErr, pending, err, history>>

Waits(n) == n \in runner.nodes \cap Waiters

(* Execute returned an update.  An ID no node is registered under has a    *)
(* nil node: its Execute can only panic.                                   *)
Succeed(n) ==
  /\ gor[n] = "executing"
  /\ n \in runner.nodes \ Waiters
  /\ gor' = [gor EXCEPT ![n] = "done"]
  /\ results' = [results EXCEPT ![n] = "update"]
  /\ UNCHANGED <<runner, ctxDone, pc, calls, frontier, step, state, acc, read,
                 groupErr, pending, err, history>>

MayFail(n, kind) ==
  \/ kind = "panic" /\ ~Waits(n)
  \/ kind = "exec" /\ n \in runner.nodes \ Waiters
  \/ kind = "ctx" /\ n \in runner.nodes /\ GroupCtxDone

(* The errgroup keeps the first error and cancels the group's context.     *)
FirstError(old, new) == IF old = NoErr THEN new ELSE old

(* Execute returned an error or panicked.  Without a handler the goroutine *)
(* fails the group; with one it leaves the error in its slot.              *)
Fail(n, kind) ==
  /\ gor[n] = "executing"
  /\ MayFail(n, kind)
  /\ gor' = [gor EXCEPT ![n] = "done"]
  /\ IF runner.handler
     THEN /\ results' = [results EXCEPT ![n] = "error"]
          /\ UNCHANGED groupErr
     ELSE /\ groupErr' = FirstError(groupErr, [kind |-> kind, node |-> n])
          /\ UNCHANGED results
  /\ UNCHANGED <<runner, ctxDone, pc, calls, frontier, step, state, acc, read,
                 pending, err, history>>

-----------------------------------------------------------------------------
(* eg.Wait returns once every goroutine of the frontier has; runSuperStep  *)
(* then returns the group's error or goes on to the fan-in.                *)
AllDone == \A n \in frontier : gor[n] = "done"

Waited(done, e) ==
  /\ pc = "launch"
  /\ done
  /\ \/ /\ groupErr # NoErr
        /\ Return(e)
        /\ UNCHANGED pending
     \/ /\ groupErr = NoErr
        /\ pc' = "fanin"
        /\ pending' = frontier
        /\ UNCHANGED err
  /\ UNCHANGED <<runner, ctxDone, calls, frontier, step, state, acc, gor,
                 read, results, groupErr, history>>

WaitForLaunches == Waited(\A n \in frontier : gor[n] # "idle", groupErr)
WaitForFirstError == Waited(AllDone \/ groupErr # NoErr, groupErr)
WaitReturnsCtxErr == Waited(AllDone, [kind |-> "ctx", node |-> 0])
Wait == Waited(AllDone, groupErr)

(* sort.Slice: the smallest ID not reduced yet.                            *)
InAnyOrder(n) == n \in pending
NextToReduce(n) == n \in pending /\ \A m \in pending : n <= m

UpdateOf(n) ==
  [ node |-> n, step |-> step, read |-> read[n],
    by |-> IF results[n] = "error" THEN "handler" ELSE "node" ]

(* One turn of the reduce loop; the last one hands the state to runLoop.   *)
Reduce(n) ==
  /\ pc = "fanin"
  /\ NextToReduce(n)
  /\ acc' = Append(acc, UpdateOf(n))
  /\ pending' = pending \ {n}
  /\ IF pending' = {} THEN pc' = "save" /\ state' = acc'
                      ELSE UNCHANGED <<pc, state>>
  /\ UNCHANGED <<runner, ctxDone, calls, frontier, step, gor, read, results,
                 groupErr, err, history>>

(* The handler or the reducer fails or panics: runLoop returns its own     *)
(* state, without the updates this super-step already reduced.             *)
ReduceFailsHalfway(n, kind) ==
  /\ pc = "fanin"
  /\ NextToReduce(n)
  /\ kind = "handler" => results[n] = "error"
  /\ Return([kind |-> kind, node |-> n])
  /\ state' = acc
  /\ UNCHANGED <<runner, ctxDone, calls, frontier, step, superStepVars,
                 history>>

ReduceFails(n, kind) ==
  /\ pc = "fanin"
  /\ NextToReduce(n)
  /\ kind = "handler" => results[n] = "error"
  /\ Return([kind |-> kind, node |-> n])
  /\ UNCHANGED <<runner, ctxDone, calls, frontier, step, state, superStepVars,
                 history>>

-----------------------------------------------------------------------------
(* The node reduced last: the only one of the frontier a checkpoint names. *)
LastReduced == Last(state).node

SaveDue == runner.checkpointer /\ step % runner.checkpointInterval = 0

(* MemoryCheckpointer.Save: append, then drop the oldest over the limit.   *)
RetainOldest(hist) ==
  IF runner.maxHistory > 0 /\ Len(hist) > runner.maxHistory
  THEN SubSeq(hist, 1, runner.maxHistory)
  ELSE hist

Retain(hist) ==
  IF runner.maxHistory > 0 /\ Len(hist) > runner.maxHistory
  THEN SubSeq(hist, Len(hist) - runner.maxHistory + 1, Len(hist))
  ELSE hist

Saved ==
  Retain(Append(history,
                [node |-> LastReduced, step |-> step, state |-> state]))

Save ==
  /\ pc = "save"
  /\ pc' = "route"
  /\ history' = IF SaveDue THEN Saved ELSE history
  /\ UNCHANGED <<runner, ctxDone, calls, frontier, step, state, superStepVars,
                 err>>

(* A Checkpointer of the caller's may fail, with or without having stored. *)
SaveFails ==
  /\ pc = "save"
  /\ SaveDue
  /\ Return([kind |-> "save", node |-> 0])
  /\ history' \in {history, Saved}
  /\ UNCHANGED <<runner, ctxDone, calls, frontier, step, state,
                 superStepVars>>

Route ==
  /\ pc = "route"
  /\ pc' = "loop"
  /\ frontier' \in NextFrontiers(runner, frontier)
  /\ UNCHANGED <<runner, ctxDone, calls, step, state, superStepVars, err,
                 history>>

RouteFails ==
  /\ pc = "route"
  /\ \E n \in Conds(runner, frontier) \cup Fans(runner, frontier) :
       Return([kind |-> "router", node |-> n])
  /\ UNCHANGED <<runner, ctxDone, calls, frontier, step, state, superStepVars,
                 history>>

-----------------------------------------------------------------------------
(* Resume, a later call on the same thread with a context of its own.      *)
Oldest == history[1]
Latest == Last(history)

ResumeCall ==
  /\ pc = "returned"
  /\ calls < MaxCalls
  /\ calls' = calls + 1
  /\ ctxDone' = FALSE
  /\ UNCHANGED <<runner, superStepVars, history>>

(* Resume goes on from the frontier the checkpoint's one node leads to.    *)
ResumeRedoes ==
  /\ ResumeCall
  /\ history # <<>>
  /\ state' = Latest.state
  /\ step' = Latest.step
  /\ frontier' = {Latest.node}
  /\ pc' = "loop"
  /\ err' = NoErr

ResumeRuns ==
  /\ ResumeCall
  /\ history # <<>>
  /\ state' = Latest.state
  /\ step' = Latest.step
  /\ frontier' \in NextFrontiers(runner, {Latest.node})
  /\ pc' = IF frontier' = {} THEN "returned" ELSE "loop"
  /\ err' = NoErr

(* No checkpointer, no checkpoint, a Checkpointer of the caller's that     *)
(* cannot load, or the router of the checkpoint's node fails: the zero     *)
(* state comes back.                                                       *)
ResumeFails ==
  /\ ResumeCall
  /\ \/ /\ ~runner.checkpointer
        /\ Return([kind |-> "nocheckpointer", node |-> 0])
     \/ /\ runner.checkpointer
        /\ history = <<>>
        /\ Return([kind |-> "notfound", node |-> 0])
     \/ /\ runner.checkpointer
        /\ Return([kind |-> "load", node |-> 0])
     \/ /\ history # <<>>
        /\ CallsRouter(runner, {Latest.node})
        /\ Return([kind |-> "router", node |-> Latest.node])
  /\ state' = <<>>
  /\ step' = 0
  /\ frontier' = {}

(* The caller makes no further call.                                       *)
Stopped == pc = "returned" /\ UNCHANGED vars

RunLoop ==
  \/ Complete \/ HitLimit \/ BeginSuperStep
  \/ \E n \in NodeID : Launch(n)
  \/ Wait
  \/ \E n \in NodeID : Reduce(n)
  \/ \E n \in NodeID, kind \in {"handler", "reducer"} : ReduceFails(n, kind)
  \/ Save \/ SaveFails \/ Route \/ RouteFails

NodeReturns(n) == Succeed(n) \/ \E kind \in NodeErrKind : Fail(n, kind)

Goroutine(n) == Snapshot(n) \/ NodeReturns(n)

Next ==
  \/ RunLoop
  \/ \E n \in NodeID : Goroutine(n)
  \/ Cancel
  \/ ResumeRuns \/ ResumeFails
  \/ Stopped

(* The Go scheduler runs every runnable goroutine, and the caller's nodes  *)
(* return (a Waiter once its context is cancelled).  Neither Cancel nor    *)
(* Resume is promised.                                                     *)
Fairness == WF_vars(RunLoop) /\ \A n \in NodeID : WF_vars(Goroutine(n))

Spec == Init /\ [][Next]_vars /\ Fairness

-----------------------------------------------------------------------------
(* Properties.                                                             *)

LastStep(s) == IF s = <<>> THEN 0 ELSE Last(s).step
NodesAt(s, k) == { s[i].node : i \in { j \in DOMAIN s : s[j].step = k } }

CommittedReads(s) ==
  \A i, j \in DOMAIN s : j <= s[i].read <=> s[j].step < s[i].step

StepThenNode(s) ==
  \A i, j \in DOMAIN s :
    i < j => \/ s[i].step < s[j].step
             \/ s[i].step = s[j].step /\ s[i].node < s[j].node

(* Every variable keeps its type.                                          *)
TypeOK ==
  /\ runner \in Runners
  /\ ctxDone \in BOOLEAN
  /\ pc \in PC
  /\ calls \in 1..MaxCalls
  /\ frontier \in SUBSET NodeID
  /\ step \in Nat
  /\ state \in State
  /\ acc \in State
  /\ gor \in [NodeID -> {"idle", "launched", "executing", "done"}]
  /\ read \in [NodeID -> Nat]
  /\ results \in [NodeID -> {"empty", "update", "error"}]
  /\ groupErr \in Err
  /\ pending \in SUBSET NodeID
  /\ err \in Err
  /\ history \in Seq(Checkpoint)

(* A node reads the updates of the earlier super-steps, all of them, and   *)
(* none of its siblings', however the goroutines were scheduled and even   *)
(* across a Resume: the snapshot is taken in the goroutine, from the       *)
(* variable the fan-in goes on to assign (runner.go:127, 162).             *)
ReadsCommitted == CommittedReads(state)

(* Within a super-step updates are reduced in ascending ID order and one   *)
(* per node, so equal runs give equal states (runner.go:146-147).          *)
SortedFanIn == StepThenNode(state)

(* The state a caller, a checkpointer or a router sees holds whole super-  *)
(* steps: all of the frontier's updates once it is reduced, and none of    *)
(* them after an error of a node, the handler or the reducer, even one     *)
(* that struck with half the frontier reduced (runner.go:67-71, 154, 160). *)
WholeSuperSteps ==
  /\ (pc \in {"save", "route"} \/ err.kind \in {"save", "router"}) =>
       NodesAt(state, step) = frontier
  /\ (pc \in {"launch", "fanin"} \/
        err.kind \in NodeErrKind \cup {"handler", "reducer"}) =>
       NodesAt(state, step) = {}

(* A fail-fast run reports the failure that started the trouble: an error  *)
(* that only says a context was cancelled comes back only when the caller  *)
(* did cancel, not when a failing sibling cancelled the group.             *)
RootCause == pc = "returned" /\ err.kind = "ctx" => ctxDone

(* No goroutine of a super-step outlives it, not even when the group has   *)
(* failed or the caller has cancelled (runner.go:142).                     *)
NoStragglers == pc # "launch" => Running = {}

(* The recursion limit bounds a thread's super-steps over all its calls:   *)
(* a Resume takes the step count up where the checkpoint left it.          *)
StepBound == \A i \in DOMAIN state : state[i].step <= runner.recursionLimit

(* The checkpoints of a thread are one lineage, whatever the errors and    *)
(* Resumes: steps strictly increase, each state ends with its own step and *)
(* continues the one before, and a running call continues the latest.      *)
OneLineage ==
  /\ \A i \in DOMAIN history :
       /\ LastStep(history[i].state) = history[i].step
       /\ \A j \in (i + 1)..Len(history) :
            /\ history[i].step < history[j].step
            /\ IsPrefix(history[i].state, history[j].state)
  /\ pc # "returned" /\ history # <<>> => IsPrefix(Latest.state, state)

(* A crash or an error, at any moment, costs at most checkpointInterval    *)
(* super-steps, the one under way or refused included: no more have been   *)
(* counted since the latest checkpoint, whatever maxHistory has dropped.   *)
(* And less than that many finished ones, save while the checkpoint that   *)
(* is due is being saved or after saving it has failed (runner.go:73-81).  *)
RedoBound ==
  runner.checkpointer =>
    LET saved == IF history = <<>> THEN 0 ELSE Latest.step
    IN /\ step - saved <= runner.checkpointInterval
       /\ pc # "save" /\ err.kind # "save" =>
            LastStep(state) - saved < runner.checkpointInterval

Branches(f) == UNION { runner.edges[n] : n \in f \ runner.terminal }

(* The next frontier holds every static successor of every node of the     *)
(* last super-step, and, no router being involved, nothing else.           *)
FollowsBranches ==
  LET last == NodesAt(state, LastStep(state))
      routed == \/ pc = "loop"
                \/ pc = "returned" /\ err.kind \in {"none", "limit"}
  IN routed /\ state # <<>> =>
       /\ Branches(last) \subseteq frontier
       /\ last \cap (runner.conds \cup runner.fans) = {} =>
            frontier = Branches(last)

(* FollowsBranches of a thread whose super-steps run one node at a time,   *)
(* or that was never resumed.                                              *)
FollowsBranchesInOneCall ==
  (calls = 1 \/ Cardinality(NodesAt(state, LastStep(state))) = 1) =>
    FollowsBranches

(* What nextFrontier's last comment says (runner.go:235-236): a node with  *)
(* no edges, no router and no terminal mark never reaches it.              *)
NoDeadEndRouted ==
  pc = "route" => \A n \in frontier : ~DeadEnd(runner, n)

(* Once its context is cancelled a call returns, and so does every call of *)
(* a graph none of whose nodes waits for that.                             *)
CallReturns ==
  (pc # "returned" /\ (ctxDone \/ runner.nodes \cap Waiters = {}))
    ~> pc = "returned"

(* The first node to fail brings the call down without the caller's help:  *)
(* siblings that wait for a cancellation get one.                          *)
FailFast == (pc = "launch" /\ groupErr # NoErr) ~> pc = "returned"

(* The run is a sequence of atomic super-steps.                            *)
Run == INSTANCE GraphRun WITH
  phase <- CASE pc \in {"loop", "launch", "fanin"} -> "step"
             [] OTHER -> pc

AtomicSuperSteps == Run!Spec
=============================================================================
