------------------------------ MODULE GraphCalls ------------------------------
(***************************************************************************)
(* Concurrent calls of one Runner: RunWithThread, Resume and Stream        *)
(* (pkg/graph/runner.go), which share its MemoryCheckpointer, and the      *)
(* consumers of the streams.                                               *)
(*                                                                         *)
(* A super-step is one action here: GraphRunner shows that runSuperStep    *)
(* makes it one.  A graph state is the sequence of its super-steps, each   *)
(* with its nodes and the call that ran it.                                *)
(*                                                                         *)
(* A consumer ranges over the states and reads the error channel once they *)
(* end; it may stop reading, and then, as Stream's comment asks, cancels.  *)
(***************************************************************************)
EXTENDS GraphTopology, MemoryCheckpointer

CONSTANTS
  Runners,   \* compiled Runners, configuration included
  Plans      \* which calls are made, on which threads

Plan == [Caller -> [kind : {"run", "resume", "stream"}, thread : Thread]]

(* Stream draws a thread ID of its own.                                    *)
FreshThreads(p) ==
  \A c, d \in Caller :
    c # d /\ p[c].kind = "stream" => p[c].thread # p[d].thread

ASSUME CallsAssumption ==
  /\ Runners \subseteq Runner
  /\ \A r \in Runners : StaticallyClosed(r)
  /\ Plans \subseteq { p \in Plan : FreshThreads(p) }

VARIABLES
  runner,    \* the Runner, immutable
  plan,      \* the calls, fixed
  ctxDone,   \* each call's context is cancelled
  pc,        \* where each call is
  frontier,  \* runLoop's or Stream's frontier
  state,     \* runLoop's or Stream's state
  err,       \* how each call ended
  errs,      \* a stream's error channel, with its buffer of one
  open,      \* which of a stream's channels are open
  reader,    \* where a stream's consumer is
  received,  \* the states it has received
  verdict    \* the error it read once the states ended

loopVars == <<pc, frontier, state, err>>
channelVars == <<errs, open>>
consumerVars == <<reader, received, verdict>>
vars == <<runner, plan, ctxDone, loopVars, channelVars, consumerVars,
          checkpointerVars>>

PC == {"idle", "loop", "save", "saving", "offer", "route", "sendErr",
       "closeErrs", "closeStates", "returned"}
ErrKind == {"none", "limit", "node", "ctx", "save", "panic", "router",
            "load", "notfound", "nocheckpointer"}
SuperSteps == Seq([step : Nat, nodes : SUBSET NodeID, by : Caller])

Streams(c) == plan[c].kind = "stream"
ThreadOf(c) == plan[c].thread
LastStep(s) == IF s = <<>> THEN 0 ELSE Last(s).step
Goto(c, label) == pc' = [pc EXCEPT ![c] = label]

(* A call returns.  Stream's goroutine first sends the error, if there is  *)
(* one, and then closes both channels: its own deferred recover makes a    *)
(* panic an error, where RunWithThread and Resume let it through.          *)
Finish(c, e) ==
  /\ err' = [err EXCEPT ![c] = e]
  /\ Goto(c, CASE ~Streams(c) -> "returned"
               [] Streams(c) /\ e = "none" -> "closeErrs"
               [] OTHER -> "sendErr")

Init ==
  /\ runner \in Runners
  /\ plan \in Plans
  /\ ctxDone = [c \in Caller |-> FALSE]
  /\ pc = [c \in Caller |-> "idle"]
  /\ frontier = [c \in Caller |-> {}]
  /\ state = [c \in Caller |-> <<>>]
  /\ err = [c \in Caller |-> "none"]
  /\ errs = [c \in Caller |-> <<>>]
  /\ open = [c \in Caller |-> {"states", "errs"}]
  /\ reader = [c \in Caller |-> "reading"]
  /\ received = [c \in Caller |-> <<>>]
  /\ verdict = [c \in Caller |-> "none"]
  /\ CheckpointerInit

-----------------------------------------------------------------------------
(* RunWithThread and Stream start at the entry.                            *)
Begin(c) ==
  /\ pc[c] = "idle"
  /\ plan[c].kind # "resume"
  /\ Goto(c, "loop")
  /\ frontier' = [frontier EXCEPT ![c] = {runner.entry}]
  /\ UNCHANGED <<runner, plan, ctxDone, state, err, channelVars, consumerVars,
                 checkpointerVars>>

(* Resume goes on from the thread's latest checkpoint, whoever saved it.   *)
Resume(c) ==
  /\ pc[c] = "idle"
  /\ plan[c].kind = "resume"
  /\ runner.checkpointer
  /\ LoadFinds(ThreadOf(c))
  /\ LET cp == LatestOf(ThreadOf(c))
     IN /\ state' = [state EXCEPT ![c] = cp.state]
        /\ \E next \in NextFrontiers(runner, {cp.node}) :
             /\ frontier' = [frontier EXCEPT ![c] = next]
             /\ IF next = {} THEN Finish(c, "none")
                             ELSE Goto(c, "loop") /\ UNCHANGED err
  /\ UNCHANGED <<runner, plan, ctxDone, channelVars, consumerVars,
                 checkpointerVars>>

(* No checkpointer, no checkpoint, a Checkpointer of the caller's that     *)
(* cannot load, or the router of the checkpoint's node fails.              *)
ResumeFails(c) ==
  /\ pc[c] = "idle"
  /\ plan[c].kind = "resume"
  /\ \/ /\ ~runner.checkpointer
        /\ Finish(c, "nocheckpointer")
     \/ /\ runner.checkpointer
        /\ LoadFindsNothing(ThreadOf(c))
        /\ Finish(c, "notfound")
     \/ /\ runner.checkpointer
        /\ Finish(c, "load")
     \/ /\ LoadFinds(ThreadOf(c))
        /\ CallsRouter(runner, {LatestOf(ThreadOf(c)).node})
        /\ Finish(c, "router")
  /\ UNCHANGED <<runner, plan, ctxDone, frontier, state, channelVars,
                 consumerVars, checkpointerVars>>

-----------------------------------------------------------------------------
(* The loop over super-steps.                                              *)
Loops(c) == pc[c] = "loop" /\ frontier[c] # {}
OverLimit(c) == LastStep(state[c]) + 1 > runner.recursionLimit

Complete(c) ==
  /\ pc[c] = "loop"
  /\ frontier[c] = {}
  /\ Finish(c, "none")
  /\ UNCHANGED <<runner, plan, ctxDone, frontier, state, channelVars,
                 consumerVars, checkpointerVars>>

HitLimit(c) ==
  /\ Loops(c)
  /\ OverLimit(c)
  /\ Finish(c, "limit")
  /\ UNCHANGED <<runner, plan, ctxDone, frontier, state, channelVars,
                 consumerVars, checkpointerVars>>

SaveDue(step) == runner.checkpointer /\ step % runner.checkpointInterval = 0

(* Stream offers every state, a due checkpoint being saved before.         *)
AfterSave(c) == IF Streams(c) THEN "offer" ELSE "route"

SavedOnlyIfBlocking(c, step) ==
  IF SaveDue(step) /\ ~Streams(c) THEN "save" ELSE AfterSave(c)
OfferedIfSaved(c, step) == IF SaveDue(step) THEN "save" ELSE "route"
AfterSuperStep(c, step) == IF SaveDue(step) THEN "save" ELSE AfterSave(c)

SuperStep(c) ==
  LET step == LastStep(state[c]) + 1
  IN /\ Loops(c)
     /\ ~OverLimit(c)
     /\ state' = [state EXCEPT ![c] =
                    Append(@, [step |-> step, nodes |-> frontier[c], by |-> c])]
     /\ Goto(c, AfterSuperStep(c, step))
     /\ UNCHANGED <<runner, plan, ctxDone, frontier, err, channelVars,
                    consumerVars, checkpointerVars>>

SuperStepFails(c) ==
  /\ Loops(c)
  /\ ~OverLimit(c)
  /\ \E e \in {"node", "ctx"} : (e = "ctx" => ctxDone[c]) /\ Finish(c, e)
  /\ UNCHANGED <<runner, plan, ctxDone, frontier, state, channelVars,
                 consumerVars, checkpointerVars>>

(* A checkpoint names the node of the super-step that was reduced last.    *)
CheckpointOf(c) ==
  [ node |-> Max(Last(state[c]).nodes), step |-> LastStep(state[c]),
    state |-> state[c] ]

SaveBegins(c) ==
  /\ pc[c] = "save"
  /\ SaveReads(c, ThreadOf(c), CheckpointOf(c), runner.maxHistory)
  /\ Goto(c, "saving")
  /\ UNCHANGED <<runner, plan, ctxDone, frontier, state, err, channelVars,
                 consumerVars>>

SaveEnds(c) ==
  /\ pc[c] = "saving"
  /\ SaveStores(c, ThreadOf(c))
  /\ Goto(c, AfterSave(c))
  /\ UNCHANGED <<runner, plan, ctxDone, frontier, state, err, channelVars,
                 consumerVars>>

(* A Checkpointer of the caller's returns an error or panics, and has      *)
(* stored nothing ...                                                      *)
SaveFails(c) ==
  /\ pc[c] = "save"
  /\ \E e \in {"save", "panic"} : Finish(c, e)
  /\ UNCHANGED <<runner, plan, ctxDone, frontier, state, channelVars,
                 consumerVars, checkpointerVars>>

(* ... or has stored the checkpoint all the same.                          *)
SaveFailsStored(c) ==
  /\ pc[c] = "saving"
  /\ SaveStores(c, ThreadOf(c))
  /\ \E e \in {"save", "panic"} : Finish(c, e)
  /\ UNCHANGED <<runner, plan, ctxDone, frontier, state, channelVars,
                 consumerVars>>

Route(c) ==
  /\ pc[c] = "route"
  /\ Goto(c, "loop")
  /\ \E next \in NextFrontiers(runner, frontier[c]) :
       frontier' = [frontier EXCEPT ![c] = next]
  /\ UNCHANGED <<runner, plan, ctxDone, state, err, channelVars, consumerVars,
                 checkpointerVars>>

RouteFails(c) ==
  /\ pc[c] = "route"
  /\ CallsRouter(runner, frontier[c])
  /\ Finish(c, "router")
  /\ UNCHANGED <<runner, plan, ctxDone, frontier, state, channelVars,
                 consumerVars, checkpointerVars>>

-----------------------------------------------------------------------------
(* Stream's select: the consumer takes the state, or the context is done;  *)
(* when both are possible, either happens.                                 *)
Deliver(c) ==
  /\ pc[c] = "offer"
  /\ reader[c] = "reading"
  /\ received' = [received EXCEPT ![c] = Append(@, state[c])]
  /\ Goto(c, "route")
  /\ UNCHANGED <<runner, plan, ctxDone, frontier, state, err, channelVars,
                 reader, verdict, checkpointerVars>>

NeverWithdraws(c) == FALSE

WithdrawSilently(c) ==
  /\ pc[c] = "offer"
  /\ ctxDone[c]
  /\ err' = [err EXCEPT ![c] = "ctx"]
  /\ Goto(c, "closeErrs")
  /\ UNCHANGED <<runner, plan, ctxDone, frontier, state, channelVars,
                 consumerVars, checkpointerVars>>

Withdraw(c) ==
  /\ pc[c] = "offer"
  /\ ctxDone[c]
  /\ Finish(c, "ctx")
  /\ UNCHANGED <<runner, plan, ctxDone, frontier, state, channelVars,
                 consumerVars, checkpointerVars>>

(* errs has room for one error: the send blocks on a second.               *)
SendErr(c) ==
  /\ pc[c] = "sendErr"
  /\ errs[c] = <<>>
  /\ errs' = [errs EXCEPT ![c] = <<err[c]>>]
  /\ Goto(c, "closeErrs")
  /\ UNCHANGED <<runner, plan, ctxDone, frontier, state, err, open,
                 consumerVars, checkpointerVars>>

(* The deferred closes run in reverse order: errs, then states.            *)
CloseErrs(c) ==
  /\ pc[c] = "closeErrs"
  /\ open' = [open EXCEPT ![c] = @ \ {"errs"}]
  /\ Goto(c, "closeStates")
  /\ UNCHANGED <<runner, plan, ctxDone, frontier, state, err, errs,
                 consumerVars, checkpointerVars>>

CloseStates(c) ==
  /\ pc[c] = "closeStates"
  /\ open' = [open EXCEPT ![c] = @ \ {"states"}]
  /\ Goto(c, "returned")
  /\ UNCHANGED <<runner, plan, ctxDone, frontier, state, err, errs,
                 consumerVars, checkpointerVars>>

-----------------------------------------------------------------------------
(* The callers and the streams' consumers.                                 *)
Cancel(c) ==
  /\ pc[c] \notin {"idle", "returned"}
  /\ ~ctxDone[c]
  /\ ctxDone' = [ctxDone EXCEPT ![c] = TRUE]
  /\ UNCHANGED <<runner, plan, loopVars, channelVars, consumerVars,
                 checkpointerVars>>

StopReading(c) ==
  /\ Streams(c)
  /\ pc[c] # "idle"
  /\ reader[c] = "reading"
  /\ reader' = [reader EXCEPT ![c] = "left"]
  /\ UNCHANGED <<runner, plan, ctxDone, loopVars, channelVars, received,
                 verdict, checkpointerVars>>

SeeStatesEnd(c) ==
  /\ reader[c] = "reading"
  /\ "states" \notin open[c]
  /\ reader' = [reader EXCEPT ![c] = "atErrs"]
  /\ UNCHANGED <<runner, plan, ctxDone, loopVars, channelVars, received,
                 verdict, checkpointerVars>>

ReadVerdict(c) ==
  /\ reader[c] = "atErrs"
  /\ errs[c] # <<>> \/ "errs" \notin open[c]
  /\ verdict' = [verdict EXCEPT ![c] =
                   IF errs[c] = <<>> THEN "none" ELSE Head(errs[c])]
  /\ errs' = [errs EXCEPT ![c] = <<>>]
  /\ reader' = [reader EXCEPT ![c] = "done"]
  /\ UNCHANGED <<runner, plan, ctxDone, loopVars, open, received,
                 checkpointerVars>>

Running(c) ==
  \/ Complete(c) \/ HitLimit(c) \/ SuperStep(c) \/ SuperStepFails(c)
  \/ SaveBegins(c) \/ SaveEnds(c)
  \/ SaveFails(c) \/ SaveFailsStored(c)
  \/ Route(c) \/ RouteFails(c)
  \/ Deliver(c) \/ Withdraw(c)
  \/ SendErr(c) \/ CloseErrs(c) \/ CloseStates(c)

Consuming(c) == SeeStatesEnd(c) \/ ReadVerdict(c)

Stopped == (\A c \in Caller : pc[c] = "returned") /\ UNCHANGED vars

Next ==
  \/ \E c \in Caller :
       \/ Begin(c) \/ Resume(c) \/ ResumeFails(c)
       \/ Running(c)
       \/ Cancel(c) \/ StopReading(c) \/ Consuming(c)
  \/ Stopped

(* Every runnable goroutine runs, a consumer that reads goes on reading,   *)
(* and one that stopped cancels, as runner.go:281-282 asks of it.          *)
Fairness ==
  \A c \in Caller :
    /\ WF_vars(Running(c))
    /\ WF_vars(Consuming(c))
    /\ WF_vars(reader[c] = "left" /\ Cancel(c))

Spec == Init /\ [][Next]_vars /\ Fairness

-----------------------------------------------------------------------------
(* Properties.                                                             *)

(* Every variable keeps its type; the mutex has one holder at most and the *)
(* error channel one error.                                                *)
TypeOK ==
  /\ runner \in Runners /\ plan \in Plans
  /\ ctxDone \in [Caller -> BOOLEAN]
  /\ pc \in [Caller -> PC]
  /\ frontier \in [Caller -> SUBSET NodeID]
  /\ state \in [Caller -> SuperSteps]
  /\ err \in [Caller -> ErrKind] /\ verdict \in [Caller -> ErrKind]
  /\ errs \in [Caller -> {<<>>} \cup { <<e>> : e \in ErrKind }]
  /\ open \in [Caller -> SUBSET {"states", "errs"}]
  /\ reader \in [Caller -> {"reading", "left", "atErrs", "done"}]
  /\ received \in [Caller -> Seq(SuperSteps)]
  /\ mu \in {{}} \cup { {c} : c \in Caller }

(* A consumer receives the states after super-steps 1, 2, 3 and so on, all *)
(* of them and each once, whatever the checkpoint interval and however its *)
(* reads, the cancellation and other calls interleave (runner.go:279-281). *)
DeliveredInOrder ==
  \A c \in Caller :
    /\ \A i \in DOMAIN received[c] :
         /\ Len(received[c][i]) = i
         /\ \A k \in 1..i : /\ received[c][i][k].step = k
                            /\ received[c][i][k].by = c
         /\ IsPrefix(received[c][i], state[c])
    /\ Streams(c) /\ pc[c] \in {"loop", "route"} =>
         Len(received[c]) = Len(state[c])

(* Who reads the states to their end and then the error channel learns how *)
(* the run ended, never blocks there, and has every state the run reached  *)
(* save one that a cancellation or a failed save withheld: the error is    *)
(* sent before errs closes, and errs closes before states does, a panic of *)
(* the checkpointer included (runner.go:288-294).                          *)
VerdictArrives ==
  \A c \in Caller :
    /\ reader[c] = "atErrs" => errs[c] # <<>> \/ "errs" \notin open[c]
    /\ reader[c] = "done" =>
         /\ verdict[c] = err[c]
         /\ \/ Len(received[c]) = Len(state[c])
            \/ /\ verdict[c] \in {"ctx", "save", "panic"}
               /\ Len(received[c]) = Len(state[c]) - 1

(* What a consumer has seen of a due super-step is in the checkpointer's   *)
(* hands by then: the save comes before the select (runner.go:315-329).    *)
SavedBeforeShown ==
  \A c \in Caller : \A i \in DOMAIN received[c] :
    SaveDue(i) =>
      \E k \in DOMAIN saved[ThreadOf(c)] :
        saved[ThreadOf(c)][k].state = received[c][i]

(* Calls that save on one thread at the same time lose none of each        *)
(* other's checkpoints: a history always is the newest maxHistory of all   *)
(* that were stored, the last of them being what a Resume takes up.        *)
NoLostSave ==
  \A t \in Thread :
    /\ IsSuffix(threads[t], saved[t])
    /\ Len(threads[t]) =
         IF runner.maxHistory = 0 THEN Len(saved[t])
         ELSE Min({runner.maxHistory, Len(saved[t])})

(* Stream's goroutine ends, and its consumer with it: drained or           *)
(* cancelled, a stream leaks no goroutine.                                 *)
StreamEnds ==
  \A c \in Caller :
    (Streams(c) /\ pc[c] # "idle")
      ~> (pc[c] = "returned" /\ reader[c] \in {"left", "done"})
=============================================================================
