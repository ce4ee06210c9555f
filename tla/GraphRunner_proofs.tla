-------------------------- MODULE GraphRunner_proofs -------------------------
(***************************************************************************)
(* Proofs about GraphRunner: its type invariant, and the safety            *)
(* properties about what a node may read, the order of the fan-in, the     *)
(* recursion limit, the errgroup's barrier and the error it reports.  Then *)
(* what relates a thread's states to each other: every state seen is whole *)
(* super-steps, the checkpoints are one lineage, and a call is never       *)
(* further ahead of them than the interval allows; and, from those, that   *)
(* GraphRunner implements GraphRun.                                        *)
(***************************************************************************)
EXTENDS GraphRunner, DataLemmas

-----------------------------------------------------------------------------
(* The inductive invariant, in the parts the properties need.              *)

(* A checkpoint names the node reduced last, so that the state is not      *)
(* empty when one is saved is part of type correctness.                    *)
TypeInv == TypeOK /\ (pc = "save" => state # <<>>)

StepsUpTo(s, k) == \A i \in DOMAIN s : s[i].step <= k

(* t is s with some of super-step k's updates appended, in ID order.       *)
Merging(s, t, k) ==
  /\ Len(s) <= Len(t)
  /\ \A i \in DOMAIN s : t[i] = s[i]
  /\ \A i \in DOMAIN t \ DOMAIN s : t[i].step = k /\ t[i].read = Len(s)
  /\ \A i, j \in DOMAIN t \ DOMAIN s : i < j => t[i].node < t[j].node

(* What a checkpoint hands to a later Resume.                              *)
GoodState(s) ==
  /\ StepsUpTo(s, runner.recursionLimit)
  /\ CommittedReads(s)
  /\ StepThenNode(s)

GoodCheckpoint(cp) == GoodState(cp.state) /\ StepsUpTo(cp.state, cp.step)

StepInv ==
  /\ pc \in {"launch", "fanin", "save", "route"} => step <= runner.recursionLimit
  /\ pc \in {"launch", "fanin"} => step >= 1 /\ StepsUpTo(state, step - 1)
  /\ StepsUpTo(state, step)

BarrierInv ==
  /\ \A n \in NodeID : gor[n] \in {"launched", "executing"} => pc = "launch"
  /\ pc = "launch" => \A n \in NodeID : gor[n] # "idle" => n \in frontier

CtxInv ==
  /\ pc = "launch" /\ groupErr.kind = "ctx" => ctxDone
  /\ pc = "returned" /\ err.kind = "ctx" => ctxDone

MergeInv ==
  /\ pc = "launch" =>
       /\ acc = state
       /\ \A n \in NodeID : gor[n] \in {"executing", "done"} =>
            read[n] = Len(state)
  /\ pc = "fanin" =>
       /\ Merging(state, acc, step)
       /\ \A n \in pending : read[n] = Len(state)
       /\ \A i \in DOMAIN acc \ DOMAIN state : \A n \in pending : acc[i].node < n

HistoryInv == \A k \in DOMAIN history : GoodCheckpoint(history[k])

IInv ==
  /\ TypeInv
  /\ StepInv
  /\ BarrierInv
  /\ CtxInv
  /\ MergeInv
  /\ GoodState(state)
  /\ HistoryInv

-----------------------------------------------------------------------------
(* Lemmas about the operators.                                             *)

(* Where nextFrontier leads is always a set of IDs.                        *)
LEMMA NextFrontiersType ==
  ASSUME NEW r \in Runner, NEW f \in SUBSET NodeID,
         NEW g \in NextFrontiers(r, f)
  PROVE  g \in SUBSET NodeID
  BY DEF NextFrontiers, Follow, Routed, Runner

(* What MemoryCheckpointer.Save keeps was there before.                    *)
LEMMA RetainKeeps ==
  ASSUME NEW hist \in Seq(Checkpoint), runner.maxHistory \in Nat
  PROVE  /\ Retain(hist) \in Seq(Checkpoint)
         /\ \A k \in DOMAIN Retain(hist) :
              \E j \in DOMAIN hist : Retain(hist)[k] = hist[j]
<1> DEFINE m == runner.maxHistory
<1>1. CASE m > 0 /\ Len(hist) > m
  <2>1. Retain(hist) = SubSeq(hist, Len(hist) - m + 1, Len(hist))
    BY <1>1 DEF Retain
  <2>2. /\ SubSeq(hist, Len(hist) - m + 1, Len(hist)) \in Seq(Checkpoint)
        /\ Len(Retain(hist)) = m
        /\ \A k \in 1..m : Retain(hist)[k] = hist[Len(hist) - m + k]
    BY <1>1, <2>1, SubSeqProperties
  <2>3. /\ Retain(hist) \in Seq(Checkpoint) /\ Len(hist) \in Nat
        /\ DOMAIN Retain(hist) = 1..m /\ DOMAIN hist = 1..Len(hist)
    BY <2>1, <2>2
  <2>4. \A k \in 1..m : Len(hist) - m + k \in 1..Len(hist)
    BY <1>1, <2>3
  <2> QED BY <2>2, <2>3, <2>4
<1>2. CASE ~(m > 0 /\ Len(hist) > m)
  BY <1>2 DEF Retain
<1> QED BY <1>1, <1>2

(* Reducing a super-step in ID order, each update having read the state    *)
(* before it, keeps reads committed and the order by step and node.        *)
LEMMA MergeIsGood ==
  ASSUME NEW s \in State, NEW t \in State, NEW k \in Nat, k >= 1,
         CommittedReads(s), StepThenNode(s), StepsUpTo(s, k - 1),
         Merging(s, t, k)
  PROVE  /\ CommittedReads(t)
         /\ StepThenNode(t)
         /\ StepsUpTo(t, k)
<1>1. /\ DOMAIN s = 1..Len(s) /\ DOMAIN t = 1..Len(t)
      /\ Len(s) \in Nat /\ Len(t) \in Nat /\ Len(s) <= Len(t)
  BY DEF State, Merging
<1>2. \A i \in DOMAIN s : t[i] = s[i] /\ s[i] \in Update
  BY DEF Merging, State
<1>3. \A i \in DOMAIN t : t[i] \in Update /\ t[i].step \in Nat
                            /\ t[i].read \in Nat /\ t[i].node \in Nat
  <2> TAKE i \in DOMAIN t
  <2>1. t[i] \in Update
    BY DEF State
  <2>2. t[i].node \in NodeID /\ t[i].step \in Nat /\ t[i].read \in Nat
    BY <2>1 DEF Update
  <2> QED BY <2>1, <2>2, NodeIDAssumption DEF NodeIDAssumption
<1>4. \A i \in DOMAIN s : t[i].step < k /\ t[i].read < i
  <2> TAKE i \in DOMAIN s
  <2>1. ~(i <= s[i].read)
    BY <1>1, <1>2, <1>3 DEF CommittedReads
  <2>2. /\ t[i] = s[i] /\ i \in Nat
        /\ t[i].step \in Nat /\ t[i].read \in Nat
    BY <1>1, <1>2, <1>3
  <2>3. t[i].step <= k - 1
    BY <2>2 DEF StepsUpTo
  <2> QED BY <2>1, <2>2, <2>3
<1>5. \A i \in DOMAIN t \ DOMAIN s :
        t[i].step = k /\ t[i].read = Len(s) /\ i > Len(s)
  BY <1>1 DEF Merging
<1>6. CommittedReads(t)
  <2> SUFFICES ASSUME NEW i \in DOMAIN t, NEW j \in DOMAIN t
               PROVE  j <= t[i].read <=> t[j].step < t[i].step
    BY DEF CommittedReads
  <2>1. CASE i \in DOMAIN s /\ j \in DOMAIN s
    BY <2>1, <1>2 DEF CommittedReads
  <2>2. CASE i \in DOMAIN s /\ j \notin DOMAIN s
    BY <2>2, <1>1, <1>3, <1>4, <1>5
  <2>3. CASE i \notin DOMAIN s
    BY <2>3, <1>1, <1>3, <1>4, <1>5
  <2> QED BY <2>1, <2>2, <2>3
<1>7. StepThenNode(t)
  <2> SUFFICES ASSUME NEW i \in DOMAIN t, NEW j \in DOMAIN t, i < j
               PROVE  \/ t[i].step < t[j].step
                      \/ t[i].step = t[j].step /\ t[i].node < t[j].node
    BY DEF StepThenNode
  <2>1. CASE j \in DOMAIN s
    BY <2>1, <1>1, <1>2 DEF StepThenNode
  <2>2. CASE i \in DOMAIN s /\ j \notin DOMAIN s
    BY <2>2, <1>4, <1>5
  <2>3. CASE i \notin DOMAIN s
    BY <2>3, <1>1, <1>5 DEF Merging
  <2> QED BY <2>1, <2>2, <2>3
<1>8. StepsUpTo(t, k)
  BY <1>3, <1>4, <1>5 DEF StepsUpTo
<1> QED BY <1>6, <1>7, <1>8

-----------------------------------------------------------------------------
(* Type correctness.                                                       *)

LEMMA RunnerFacts ==
  ASSUME runner \in Runners
  PROVE  /\ runner \in Runner
         /\ runner.entry \in NodeID
         /\ runner.recursionLimit \in Nat \ {0}
         /\ runner.maxHistory \in Nat
  BY RunnersAssumption DEF RunnersAssumption, Runner

LEMMA TypeInit == Init => TypeInv
<1> SUFFICES ASSUME Init PROVE TypeInv
  OBVIOUS
<1>1. MaxCalls \in Nat \ {0}
  BY RunnersAssumption DEF RunnersAssumption
<1>2. runner \in Runners /\ runner.entry \in NodeID
  BY RunnerFacts DEF Init
<1>3. NoErr \in Err
  BY DEF NoErr, Err, ErrKind
<1>4. /\ state \in State /\ acc \in State /\ history \in Seq(Checkpoint)
  BY EmptySeq DEF Init, State
<1>5. /\ gor \in [NodeID -> {"idle", "launched", "executing", "done"}]
      /\ read \in [NodeID -> Nat]
      /\ results \in [NodeID -> {"empty", "update", "error"}]
  BY DEF Init
<1>6. /\ calls \in 1..MaxCalls /\ step \in Nat /\ pending \in SUBSET NodeID
      /\ pc \in PC /\ pc # "save"
  BY <1>1 DEF Init, PC
<1>8. ctxDone \in BOOLEAN
  BY DEF Init
<1>7. groupErr \in Err /\ err \in Err /\ frontier \in SUBSET NodeID
  BY <1>2, <1>3 DEF Init
<1> QED
  BY <1>2, <1>4, <1>5, <1>6, <1>7, <1>8 DEF TypeInv, TypeOK

LEMMA TypeStep == TypeInv /\ [Next]_vars => TypeInv'
<1> SUFFICES ASSUME TypeInv, [Next]_vars PROVE TypeInv'
  OBVIOUS
<1> USE DEF TypeInv, TypeOK
<1>0. /\ runner \in Runner /\ runner.maxHistory \in Nat
  BY RunnerFacts
<1>1. CASE Cancel
  BY <1>1 DEF Cancel, superStepVars
<1>2. CASE Complete
  BY <1>2 DEF Complete, Return, superStepVars, PC, NoErr, Err, ErrKind
<1>3. CASE HitLimit
  BY <1>3 DEF HitLimit, Return, superStepVars, PC, Err, ErrKind
<1>4. CASE BeginSuperStep
  BY <1>4 DEF BeginSuperStep, PC, NoErr, Err, ErrKind
<1>5. ASSUME NEW n \in NodeID, Launch(n) PROVE TypeInv'
  BY <1>5 DEF Launch
<1>6. CASE Wait
  BY <1>6 DEF Wait, Waited, Return, PC
<1>7. ASSUME NEW n \in NodeID, Reduce(n) PROVE TypeInv'
  <2>1. UpdateOf(n) \in Update
    BY DEF UpdateOf, Update
  <2>2. Append(acc, UpdateOf(n)) \in State /\ Append(acc, UpdateOf(n)) # <<>>
    BY <2>1, AppendProperties DEF State
  <2>3. acc' \in State /\ state' \in State /\ (pc' = "save" => state' # <<>>)
    BY <1>7, <2>2 DEF Reduce
  <2> QED BY <1>7, <2>3 DEF Reduce, PC
<1>8. ASSUME NEW n \in NodeID, NEW kind \in {"handler", "reducer"},
             ReduceFails(n, kind)
      PROVE  TypeInv'
  BY <1>8 DEF ReduceFails, Return, superStepVars, PC, Err, ErrKind
<1>9. ASSUME pc = "save" PROVE Saved \in Seq(Checkpoint)
  <2>1. LastReduced \in NodeID
    <3>1. state \in Seq(Update) /\ state # <<>>
      BY <1>9 DEF State
    <3>2. Last(state) \in Update
      BY <3>1, LastOfSeq
    <3> QED BY <3>2 DEF LastReduced, Update
  <2>2. Append(history, [node |-> LastReduced, step |-> step, state |-> state])
          \in Seq(Checkpoint)
    BY <2>1, AppendProperties DEF Checkpoint
  <2> QED BY <1>0, <2>2, RetainKeeps DEF Saved
<1>10. CASE Save
  BY <1>9, <1>10 DEF Save, superStepVars, PC
<1>11. CASE SaveFails
  BY <1>9, <1>11 DEF SaveFails, Return, superStepVars, PC, Err, ErrKind
<1>12. CASE Route
  BY <1>0, <1>12, NextFrontiersType DEF Route, superStepVars, PC
<1>13. CASE RouteFails
  BY <1>13
  DEF RouteFails, Return, Conds, Fans, superStepVars, PC, Err, ErrKind
<1>14. ASSUME NEW n \in NodeID, Snapshot(n) PROVE TypeInv'
  <2>1. Len(acc) \in Nat
    BY DEF State
  <2> QED BY <1>14, <2>1 DEF Snapshot
<1>15. ASSUME NEW n \in NodeID, Succeed(n) PROVE TypeInv'
  BY <1>15 DEF Succeed
<1>16. ASSUME NEW n \in NodeID, NEW kind \in NodeErrKind, Fail(n, kind)
       PROVE  TypeInv'
  <2>1. [kind |-> kind, node |-> n] \in Err
    BY DEF Err, ErrKind, NodeErrKind
  <2>2. groupErr' \in Err /\ results' \in [NodeID -> {"empty", "update", "error"}]
    BY <1>16, <2>1 DEF Fail, FirstError
  <2> QED BY <1>16, <2>2 DEF Fail
<1>17. ASSUME history # <<>>
       PROVE  /\ Latest \in Checkpoint /\ Latest.node \in NodeID
              /\ Latest.step \in Nat /\ Latest.state \in State
  <2>1. Latest \in Checkpoint
    BY <1>17, LastOfSeq DEF Latest
  <2> QED BY <2>1 DEF Checkpoint
<1>18. ResumeCall => calls' \in 1..MaxCalls
  BY RunnersAssumption DEF ResumeCall, RunnersAssumption
<1>19. CASE ResumeRuns
  <2>1. frontier' \in SUBSET NodeID
    BY <1>0, <1>17, <1>19, NextFrontiersType DEF ResumeRuns
  <2> QED BY <1>17, <1>18, <1>19, <2>1
    DEF ResumeRuns, ResumeCall, superStepVars, PC, NoErr, Err, ErrKind
<1>20. CASE ResumeFails
  <2>1. err' \in Err /\ pc' = "returned"
    BY <1>17, <1>20 DEF ResumeFails, Return, Err, ErrKind
  <2>2. state' \in State /\ step' \in Nat /\ frontier' \in SUBSET NodeID
    BY <1>20 DEF ResumeFails, State
  <2> QED BY <1>18, <1>20, <2>1, <2>2
    DEF ResumeFails, ResumeCall, superStepVars, PC
<1>21. CASE UNCHANGED vars
  BY <1>21 DEF vars, superStepVars
<1> QED
  BY <1>1, <1>2, <1>3, <1>4, <1>5, <1>6, <1>7, <1>8, <1>10, <1>11, <1>12,
     <1>13, <1>14, <1>15, <1>16, <1>19, <1>20, <1>21
  DEF Next, RunLoop, Goroutine, NodeReturns, Stopped

(* Every variable keeps its type in every reachable state.                 *)
THEOREM TypeCorrect == Spec => []TypeOK
<1>1. TypeInv => TypeOK
  BY DEF TypeInv
<1> QED BY TypeInit, TypeStep, <1>1, PTL DEF Spec

-----------------------------------------------------------------------------
(* The inductive invariant.  What most steps leave alone is stated once.   *)

LEMMA GoroutineFrame ==
  ASSUME NEW n \in NodeID, Launch(n) \/ Goroutine(n)
  PROVE  UNCHANGED <<runner, ctxDone, pc, calls, frontier, step, state, acc,
                     pending, err, history>>
  BY DEF Launch, Goroutine, Snapshot, NodeReturns, Succeed, Fail

LEMMA RunnerFixed == [Next]_vars => runner' = runner
  BY GoroutineFrame
  DEF Next, RunLoop, Cancel, Complete, HitLimit, BeginSuperStep, Wait, Waited, Reduce,
      ReduceFails, Save, SaveFails, Route, RouteFails, ResumeRuns, ResumeFails,
      ResumeCall, Stopped, vars

(* One turn of the fan-in keeps the accumulated state a merge of state.    *)
LEMMA ReduceMerges ==
  ASSUME IInv, NEW n \in NodeID, Reduce(n)
  PROVE  /\ Merging(state, acc', step)
         /\ \A i \in DOMAIN acc' \ DOMAIN state : \A m \in pending' : acc'[i].node < m
<1> DEFINE u == UpdateOf(n)
<1>1. /\ pc = "fanin" /\ n \in pending /\ (\A m \in pending : n <= m)
      /\ acc' = Append(acc, u) /\ pending' = pending \ {n}
  BY DEF Reduce, NextToReduce
<1>2. /\ state \in State /\ acc \in State /\ pending \subseteq Nat
  BY NodeIDAssumption DEF IInv, TypeInv, TypeOK, NodeIDAssumption
<1>3. /\ Merging(state, acc, step) /\ read[n] = Len(state)
      /\ \A i \in DOMAIN acc \ DOMAIN state : acc[i].node < n
      /\ \A i \in DOMAIN acc \ DOMAIN state : \A m \in pending : acc[i].node < m
  BY <1>1 DEF IInv, MergeInv
<1>4. u.node = n /\ u.step = step /\ u.read = Len(state)
  BY <1>3 DEF UpdateOf
<1>5. /\ Len(acc) \in Nat /\ Len(state) \in Nat /\ Len(state) <= Len(acc)
      /\ DOMAIN state = 1..Len(state) /\ DOMAIN acc = 1..Len(acc)
      /\ DOMAIN acc' = 1..(Len(acc) + 1) /\ Len(acc') = Len(acc) + 1
      /\ acc'[Len(acc) + 1] = u
      /\ \A i \in 1..Len(acc) : acc'[i] = acc[i]
  <2>1. acc \in Seq(Update) /\ state \in Seq(Update) /\ u \in Update
    BY <1>2 DEF State, UpdateOf, Update, IInv, TypeInv, TypeOK
  <2>2. Len(state) <= Len(acc)
    BY <1>3 DEF Merging
  <2> QED BY <1>1, <2>1, <2>2, AppendProperties, LenProperties
<1>6. Merging(state, acc', step)
  <2>1. \A i \in DOMAIN state : acc'[i] = state[i]
    BY <1>3, <1>5 DEF Merging
  <2>2. \A i \in DOMAIN acc' \ DOMAIN state :
          \/ i \in DOMAIN acc \ DOMAIN state /\ acc'[i] = acc[i]
          \/ i = Len(acc) + 1 /\ acc'[i] = u
    BY <1>5
  <2>3. \A i \in DOMAIN acc' \ DOMAIN state :
          acc'[i].step = step /\ acc'[i].read = Len(state)
    BY <1>3, <1>4, <2>2 DEF Merging
  <2>4. ASSUME NEW i \in DOMAIN acc' \ DOMAIN state,
               NEW j \in DOMAIN acc' \ DOMAIN state, i < j
        PROVE  acc'[i].node < acc'[j].node
    <3>1. i \in DOMAIN acc \ DOMAIN state /\ acc'[i] = acc[i]
      BY <1>5, <2>2, <2>4
    <3>2. CASE j \in DOMAIN acc \ DOMAIN state /\ acc'[j] = acc[j]
      BY <1>3, <2>4, <3>1, <3>2 DEF Merging
    <3>3. CASE acc'[j] = u
      BY <1>3, <1>4, <3>1, <3>3
    <3> QED BY <2>2, <3>2, <3>3
  <2> QED BY <1>5, <2>1, <2>3, <2>4 DEF Merging
<1>7. ASSUME NEW i \in DOMAIN acc' \ DOMAIN state, NEW m \in pending'
      PROVE  acc'[i].node < m
  <2>1. m \in pending /\ m # n /\ n <= m /\ n \in Nat /\ m \in Nat
    BY <1>1, <1>2
  <2>2. CASE i \in DOMAIN acc
    BY <1>3, <1>5, <2>1, <2>2
  <2>3. CASE i = Len(acc) + 1
    BY <1>4, <1>5, <2>1, <2>3
  <2> QED BY <1>5, <2>2, <2>3
<1> QED BY <1>6, <1>7

(* What a Resume takes up is a checkpoint of the history.                  *)
LEMMA LatestIsGood ==
  ASSUME TypeOK, HistoryInv, history # <<>>
  PROVE  /\ Latest.state \in State /\ Latest.step \in Nat
         /\ GoodState(Latest.state)
         /\ StepsUpTo(Latest.state, Latest.step)
<1>1. /\ Latest \in Checkpoint
      /\ Len(history) \in DOMAIN history /\ Latest = history[Len(history)]
  BY LastOfSeq DEF TypeOK, Latest
<1> QED BY <1>1 DEF HistoryInv, GoodCheckpoint, Checkpoint

LEMMA EmptyIsGood ==
  GoodState(<<>>) /\ \A k \in Nat : StepsUpTo(<<>>, k)
  BY DEF GoodState, StepsUpTo, CommittedReads, StepThenNode

(* The last reduction of a super-step leaves runLoop a good state.         *)
LEMMA LastReduceIsGood ==
  ASSUME IInv, TypeInv', NEW n \in NodeID, Reduce(n)
  PROVE  state' = state \/ (GoodState(state') /\ StepsUpTo(state', step))
<1> SUFFICES ASSUME state' # state
             PROVE  GoodState(state') /\ StepsUpTo(state', step)
  OBVIOUS
<1>1. /\ state' = acc' /\ pc = "fanin" /\ runner' = runner
  BY DEF Reduce
<1>2. /\ state \in State /\ state' \in State /\ step \in Nat /\ step >= 1
      /\ step <= runner.recursionLimit /\ runner.recursionLimit \in Nat
      /\ StepsUpTo(state, step - 1)
  BY <1>1, RunnerFacts DEF IInv, TypeInv, TypeOK, StepInv
<1>3. CommittedReads(state) /\ StepThenNode(state)
  BY DEF IInv, GoodState
<1>4. /\ CommittedReads(state') /\ StepThenNode(state')
      /\ StepsUpTo(state', step)
  BY <1>1, <1>2, <1>3, ReduceMerges, MergeIsGood
<1>5. StepsUpTo(state', runner.recursionLimit)
  <2>1. \A i \in DOMAIN state' : state'[i] \in Update
    BY <1>2 DEF State
  <2>2. \A i \in DOMAIN state' : state'[i].step \in Nat
    BY <2>1 DEF Update
  <2> QED BY <1>2, <1>4, <2>2 DEF StepsUpTo
<1> QED BY <1>4, <1>5 DEF GoodState

LEMMA GoodStateStep == IInv /\ TypeInv' /\ [Next]_vars => GoodState(state)'
<1> SUFFICES ASSUME IInv, TypeInv', [Next]_vars PROVE GoodState(state)'
  OBVIOUS
<1>1. runner' = runner /\ GoodState(state)
  BY RunnerFixed DEF IInv
<1>2. ASSUME state' = state \/ GoodState(state') PROVE GoodState(state)'
  BY <1>1, <1>2 DEF GoodState
<1>3. CASE \E n \in NodeID : Reduce(n)
  BY <1>2, <1>3, LastReduceIsGood
<1>4. CASE ResumeRuns
  BY <1>2, <1>4, LatestIsGood DEF IInv, TypeInv, ResumeRuns
<1>5. CASE ResumeFails
  BY <1>2, <1>5, EmptyIsGood DEF ResumeFails
<1>6. CASE \E n \in NodeID : Launch(n) \/ Goroutine(n)
  BY <1>2, <1>6, GoroutineFrame
<1>7. CASE \/ Complete \/ HitLimit \/ BeginSuperStep \/ Wait
           \/ \E n \in NodeID, kind \in {"handler", "reducer"} : ReduceFails(n, kind)
           \/ Save \/ SaveFails \/ Route \/ RouteFails
  BY <1>2, <1>7
  DEF Complete, HitLimit, BeginSuperStep, Wait, Waited, ReduceFails, Save, SaveFails,
      Route, RouteFails
<1>8. CASE Cancel \/ UNCHANGED vars
  BY <1>2, <1>8 DEF Cancel, vars
<1> QED BY <1>3, <1>4, <1>5, <1>6, <1>7, <1>8 DEF Next, RunLoop, Stopped

(* A checkpoint is saved of a state that is good, at the step it is at.    *)
LEMMA HistoryStep == IInv /\ TypeInv' /\ [Next]_vars => HistoryInv'
<1> SUFFICES ASSUME IInv, TypeInv', [Next]_vars PROVE HistoryInv'
  OBVIOUS
<1>1. runner' = runner /\ HistoryInv
  BY RunnerFixed DEF IInv
<1>2. ASSUME history' = history PROVE HistoryInv'
  BY <1>1, <1>2 DEF HistoryInv, GoodCheckpoint, GoodState
<1>3. ASSUME pc = "save", history' = Saved PROVE HistoryInv'
  <2> DEFINE cp == [node |-> LastReduced, step |-> step, state |-> state]
             longer == Append(history, cp)
  <2>1. GoodCheckpoint(cp)
    BY DEF GoodCheckpoint, IInv, StepInv
  <2>2. /\ history \in Seq(Checkpoint) /\ runner.maxHistory \in Nat
        /\ cp \in Checkpoint
    <3>1. /\ state \in Seq(Update) /\ state # <<>> /\ runner \in Runners
          /\ history \in Seq(Checkpoint) /\ step \in Nat
      BY <1>3 DEF IInv, TypeInv, TypeOK, State
    <3>2. Last(state) \in Update
      BY <3>1, LastOfSeq
    <3>3. LastReduced \in NodeID
      BY <3>2 DEF LastReduced, Update
    <3> QED BY <3>1, <3>3, RunnerFacts DEF Checkpoint, State
  <2>3. longer \in Seq(Checkpoint) /\ \A k \in DOMAIN longer : GoodCheckpoint(longer[k])
    <3>1. /\ longer \in Seq(Checkpoint) /\ DOMAIN longer = 1..(Len(history) + 1)
          /\ DOMAIN history = 1..Len(history) /\ Len(history) \in Nat
          /\ longer[Len(history) + 1] = cp
          /\ \A k \in 1..Len(history) : longer[k] = history[k]
      BY <2>2, AppendProperties, LenProperties
    <3>2. \A k \in DOMAIN longer : k \in DOMAIN history \/ k = Len(history) + 1
      BY <3>1
    <3> QED BY <1>1, <2>1, <3>1, <3>2 DEF HistoryInv
  <2>4. history' = Retain(longer)
    BY <1>3 DEF Saved
  <2>5. \A k \in DOMAIN history' : GoodCheckpoint(history'[k])
    BY <2>2, <2>3, <2>4, RetainKeeps
  <2> QED BY <1>1, <2>5 DEF HistoryInv, GoodCheckpoint, GoodState
<1>4. CASE Save
  BY <1>2, <1>3, <1>4 DEF Save
<1>5. CASE SaveFails
  BY <1>2, <1>3, <1>5 DEF SaveFails
<1>6. CASE \E n \in NodeID : Launch(n) \/ Goroutine(n)
  BY <1>2, <1>6, GoroutineFrame
<1>7. CASE \/ Complete \/ HitLimit \/ BeginSuperStep \/ Wait
           \/ \E n \in NodeID : Reduce(n)
           \/ \E n \in NodeID, kind \in {"handler", "reducer"} : ReduceFails(n, kind)
           \/ Route \/ RouteFails
  BY <1>2, <1>7
  DEF Complete, HitLimit, BeginSuperStep, Wait, Waited, Reduce, ReduceFails, Route,
      RouteFails
<1>8. CASE Cancel \/ ResumeRuns \/ ResumeFails \/ UNCHANGED vars
  BY <1>2, <1>8 DEF Cancel, ResumeRuns, ResumeFails, ResumeCall, vars
<1> QED BY <1>4, <1>5, <1>6, <1>7, <1>8 DEF Next, RunLoop, Stopped

LEMMA StepInvStep == IInv /\ TypeInv' /\ [Next]_vars => StepInv'
<1> SUFFICES ASSUME IInv, TypeInv', [Next]_vars PROVE StepInv'
  OBVIOUS
<1>1. /\ runner' = runner /\ StepInv /\ step \in Nat /\ state \in State
      /\ runner.recursionLimit \in Nat
  BY RunnerFixed, RunnerFacts DEF IInv, TypeInv, TypeOK
<1>2. \A i \in DOMAIN state : state[i].step \in Nat
  <2>1. \A i \in DOMAIN state : state[i] \in Update
    BY <1>1 DEF State
  <2> QED BY <2>1 DEF Update
<1>3. ASSUME step' = step, state' = state,
             \/ pc' = pc
             \/ pc' \in {"loop", "returned"}
             \/ pc = "save" /\ pc' = "route"
             \/ pc = "launch" /\ pc' = "fanin"
      PROVE  StepInv'
  BY <1>1, <1>3 DEF StepInv, StepsUpTo
<1>4. CASE HitLimit
  BY <1>1, <1>2, <1>4 DEF HitLimit, Return, StepInv, StepsUpTo
<1>5. CASE BeginSuperStep
  BY <1>1, <1>2, <1>5 DEF BeginSuperStep, OverLimit, StepInv, StepsUpTo
<1>6. ASSUME NEW n \in NodeID, Reduce(n) PROVE StepInv'
  <2>1. /\ step' = step /\ pc = "fanin" /\ step <= runner.recursionLimit
        /\ (pc' = pc /\ state' = state) \/ pc' = "save"
    BY <1>1, <1>6 DEF Reduce, StepInv
  <2>2. CASE pc' = pc /\ state' = state
    BY <1>3, <2>1, <2>2
  <2>3. CASE pc' = "save"
    BY <1>1, <1>6, <2>1, <2>3, LastReduceIsGood DEF StepInv
  <2> QED BY <2>1, <2>2, <2>3
<1>7. CASE ResumeRuns
  <2>1. StepsUpTo(state', step') /\ pc' \in {"returned", "loop"}
    BY <1>7, LatestIsGood DEF ResumeRuns, IInv, TypeInv
  <2> QED BY <2>1 DEF StepInv
<1>8. CASE ResumeFails
  BY <1>8, EmptyIsGood DEF ResumeFails, Return, StepInv
<1>9. CASE \E n \in NodeID : Launch(n) \/ Goroutine(n)
  BY <1>3, <1>9, GoroutineFrame
<1>10. CASE Complete \/ Save \/ SaveFails \/ Route \/ RouteFails
  BY <1>3, <1>10
  DEF Complete, Save, SaveFails, Route, RouteFails, Return
<1>13. CASE Wait
  BY <1>3, <1>13 DEF Wait, Waited, Return
<1>12. ASSUME NEW n \in NodeID, NEW kind \in {"handler", "reducer"},
              ReduceFails(n, kind)
       PROVE  StepInv'
  BY <1>3, <1>12 DEF ReduceFails, Return
<1>11. CASE Cancel \/ UNCHANGED vars
  BY <1>3, <1>11 DEF Cancel, vars
<1> QED BY <1>4, <1>5, <1>6, <1>7, <1>8, <1>9, <1>10, <1>11, <1>12, <1>13
        DEF Next, RunLoop, Stopped

(* Goroutines run only while runLoop waits for them, and only for nodes of *)
(* the frontier.                                                           *)
LEMMA BarrierStep == IInv /\ [Next]_vars => BarrierInv'
<1> SUFFICES ASSUME IInv, [Next]_vars PROVE BarrierInv'
  OBVIOUS
<1>1. BarrierInv /\ gor \in [NodeID -> {"idle", "launched", "executing", "done"}]
  BY DEF IInv, TypeInv, TypeOK
<1>2. CASE BeginSuperStep
  BY <1>2 DEF BeginSuperStep, BarrierInv
<1>3. ASSUME NEW n \in NodeID, Launch(n) PROVE BarrierInv'
  BY <1>1, <1>3 DEF Launch, BarrierInv
<1>4. ASSUME NEW n \in NodeID, Goroutine(n) PROVE BarrierInv'
  <2>1. /\ gor[n] \in {"launched", "executing"}
        /\ \E s \in {"executing", "done"} : gor' = [gor EXCEPT ![n] = s]
    BY <1>4 DEF Goroutine, Snapshot, NodeReturns, Succeed, Fail
  <2> QED BY <1>1, <1>4, <2>1, GoroutineFrame DEF BarrierInv
<1>5. CASE Wait
  <2>1. \A n \in NodeID : gor[n] \notin {"launched", "executing"}
    BY <1>1, <1>5 DEF Wait, Waited, AllDone, BarrierInv
  <2> QED BY <1>5, <2>1 DEF Wait, Waited, Return, BarrierInv
<1>6. ASSUME gor' = gor, pc # "launch", pc' # "launch" PROVE BarrierInv'
  BY <1>1, <1>6 DEF BarrierInv
<1>7. CASE Complete \/ HitLimit \/ Save \/ SaveFails \/ Route \/ RouteFails
  BY <1>6, <1>7
  DEF Complete, HitLimit, Save, SaveFails, Route, RouteFails, Return,
      superStepVars
<1>10. ASSUME NEW n \in NodeID, Reduce(n) PROVE BarrierInv'
  BY <1>6, <1>10 DEF Reduce
<1>11. ASSUME NEW n \in NodeID, NEW kind \in {"handler", "reducer"},
              ReduceFails(n, kind)
       PROVE  BarrierInv'
  BY <1>6, <1>11 DEF ReduceFails, Return, superStepVars
<1>8. CASE ResumeRuns \/ ResumeFails
  BY <1>6, <1>8
  DEF ResumeRuns, ResumeFails, ResumeCall, Return, superStepVars
<1>9. CASE Cancel \/ UNCHANGED vars
  BY <1>1, <1>9 DEF Cancel, vars, superStepVars, BarrierInv
<1> QED BY <1>2, <1>3, <1>4, <1>5, <1>7, <1>8, <1>9, <1>10, <1>11
        DEF Next, RunLoop, Stopped

(* Only the caller's cancellation can be a group's first error.            *)
LEMMA CtxStep == IInv /\ [Next]_vars => CtxInv'
<1> SUFFICES ASSUME IInv, [Next]_vars PROVE CtxInv'
  OBVIOUS
<1>1. CtxInv
  BY DEF IInv
<1>2. CASE BeginSuperStep
  BY <1>2 DEF BeginSuperStep, CtxInv, NoErr
<1>3. ASSUME NEW n \in NodeID, NEW kind \in NodeErrKind, Fail(n, kind)
      PROVE  CtxInv'
  <2>1. UNCHANGED <<ctxDone, pc, err>>
    BY <1>3 DEF Fail
  <2>2. CASE groupErr' = groupErr
    BY <1>1, <2>1, <2>2 DEF CtxInv
  <2>3. CASE groupErr' # groupErr
    <3>1. groupErr = NoErr /\ groupErr'.kind = kind
      BY <1>3, <2>3 DEF Fail, FirstError
    <3>2. kind = "ctx" => ctxDone
      BY <1>3, <3>1 DEF Fail, MayFail, GroupCtxDone, NodeErrKind
    <3> QED BY <1>1, <2>1, <3>1, <3>2 DEF CtxInv
  <2> QED BY <2>2, <2>3
<1>4. CASE Wait
  BY <1>1, <1>4 DEF Wait, Waited, Return, CtxInv
<1>5. CASE Cancel
  BY <1>5 DEF Cancel, CtxInv
<1>6. ASSUME err'.kind # "ctx", pc' # "launch" PROVE CtxInv'
  BY <1>6 DEF CtxInv
<1>7. CASE \/ Complete \/ HitLimit \/ SaveFails \/ RouteFails
           \/ \E n \in NodeID, kind \in {"handler", "reducer"} : ReduceFails(n, kind)
  BY <1>6, <1>7
  DEF Complete, HitLimit, SaveFails, RouteFails, ReduceFails, Return, NoErr
<1>8. CASE ResumeRuns \/ ResumeFails
  BY <1>6, <1>8 DEF ResumeRuns, ResumeFails, Return, NoErr
<1>9. ASSUME pc' \notin {"launch", "returned"} PROVE CtxInv'
  BY <1>9 DEF CtxInv
<1>10. CASE Save \/ Route \/ \E n \in NodeID : Reduce(n)
  BY <1>9, <1>10 DEF Save, Route, Reduce
<1>11. CASE \E n \in NodeID : Launch(n) \/ Snapshot(n) \/ Succeed(n)
  BY <1>1, <1>11 DEF Launch, Snapshot, Succeed, CtxInv
<1>12. CASE UNCHANGED vars
  BY <1>1, <1>12 DEF vars, superStepVars, CtxInv
<1> QED BY <1>2, <1>3, <1>4, <1>5, <1>7, <1>8, <1>10, <1>11, <1>12
        DEF Next, RunLoop, Goroutine, NodeReturns, Stopped

(* The snapshots are of runLoop's state, and the fan-in extends it.        *)
LEMMA MergeStep == IInv /\ TypeInv' /\ [Next]_vars => MergeInv'
<1> SUFFICES ASSUME IInv, TypeInv', [Next]_vars PROVE MergeInv'
  OBVIOUS
<1>1. /\ MergeInv /\ read \in [NodeID -> Nat] /\ state \in State
      /\ gor \in [NodeID -> {"idle", "launched", "executing", "done"}]
      /\ frontier \subseteq NodeID
  BY DEF IInv, TypeInv, TypeOK
<1>2. CASE BeginSuperStep
  BY <1>2 DEF BeginSuperStep, MergeInv
<1>3. ASSUME NEW n \in NodeID, Launch(n) PROVE MergeInv'
  BY <1>1, <1>3 DEF Launch, MergeInv
<1>4. ASSUME NEW n \in NodeID, Snapshot(n) PROVE MergeInv'
  <2>1. pc = "launch" /\ acc = state
    BY <1>1, <1>4 DEF Snapshot, IInv, BarrierInv, MergeInv
  <2> QED BY <1>1, <1>4, <2>1 DEF Snapshot, MergeInv
<1>5. ASSUME NEW n \in NodeID, gor[n] = "executing",
             gor' = [gor EXCEPT ![n] = "done"],
             UNCHANGED <<pc, step, state, acc, read, pending>>
      PROVE  MergeInv'
  <2>1. pc = "launch"
    BY <1>5 DEF IInv, BarrierInv
  <2> QED BY <1>1, <1>5, <2>1 DEF MergeInv
<1>6. CASE \E n \in NodeID : NodeReturns(n)
  BY <1>5, <1>6 DEF NodeReturns, Succeed, Fail
<1>7. CASE Wait
  <2>1. CASE pc' = "fanin"
    <3>1. /\ pc = "launch" /\ acc' = acc /\ state' = state /\ read' = read
          /\ step' = step /\ pending' = frontier /\ AllDone
      BY <1>7, <2>1 DEF Wait, Waited, Return
    <3>2. acc = state /\ \A n \in frontier : read[n] = Len(state)
      BY <1>1, <3>1 DEF MergeInv, AllDone
    <3>3. Merging(state, state, step)
      BY <1>1 DEF Merging, State
    <3> QED BY <2>1, <3>1, <3>2, <3>3 DEF MergeInv
  <2>2. CASE pc' = "returned"
    BY <2>2 DEF MergeInv
  <2> QED BY <1>7, <2>1, <2>2 DEF Wait, Waited, Return
<1>8. ASSUME NEW n \in NodeID, Reduce(n) PROVE MergeInv'
  <2>1. CASE pc' = "save"
    BY <2>1 DEF MergeInv
  <2>2. CASE pc' = pc /\ state' = state
    <3>1. /\ pc = "fanin" /\ read' = read /\ step' = step /\ pending' \subseteq pending
      BY <1>8 DEF Reduce
    <3> QED BY <1>1, <1>8, <2>2, <3>1, ReduceMerges DEF MergeInv
  <2> QED BY <1>8, <2>1, <2>2 DEF Reduce
<1>9. ASSUME pc' \notin {"launch", "fanin"} PROVE MergeInv'
  BY <1>9 DEF MergeInv
<1>10. CASE \/ Complete \/ HitLimit \/ Save \/ SaveFails \/ Route \/ RouteFails
            \/ \E n \in NodeID, kind \in {"handler", "reducer"} : ReduceFails(n, kind)
  BY <1>9, <1>10
  DEF Complete, HitLimit, Save, SaveFails, Route, RouteFails, ReduceFails,
      Return
<1>11. CASE ResumeRuns \/ ResumeFails
  BY <1>9, <1>11 DEF ResumeRuns, ResumeFails, Return
<1>12. CASE Cancel \/ UNCHANGED vars
  BY <1>1, <1>12 DEF Cancel, vars, superStepVars, MergeInv
<1> QED BY <1>2, <1>3, <1>4, <1>6, <1>7, <1>8, <1>10, <1>11, <1>12
        DEF Next, RunLoop, Goroutine, Stopped

LEMMA IInvInit == Init => IInv
<1> SUFFICES ASSUME Init PROVE IInv
  OBVIOUS
<1>1. TypeInv /\ GoodState(state) /\ StepsUpTo(state, 0)
  BY TypeInit, EmptyIsGood DEF Init
<1>2. HistoryInv
  BY DEF Init, HistoryInv
<1>3. StepInv /\ BarrierInv /\ CtxInv /\ MergeInv
  BY <1>1 DEF Init, StepInv, BarrierInv, CtxInv, MergeInv
<1> QED BY <1>1, <1>2, <1>3 DEF IInv

LEMMA IInvStep == IInv /\ [Next]_vars => IInv'
<1> SUFFICES ASSUME IInv, [Next]_vars PROVE IInv'
  OBVIOUS
<1>1. TypeInv'
  BY TypeStep DEF IInv
<1> QED
  BY <1>1, StepInvStep, BarrierStep, CtxStep, MergeStep, GoodStateStep,
     HistoryStep
  DEF IInv

LEMMA Invariance == Spec => []IInv
  BY IInvInit, IInvStep, PTL DEF Spec

-----------------------------------------------------------------------------
(* The theorems.                                                           *)

(* For every graph, every handler, limit and interval, any schedule of the *)
(* goroutines and any Resume: a node reads exactly the updates of the      *)
(* super-steps before its own (runner.go:127).                             *)
THEOREM Isolation == Spec => []ReadsCommitted
<1>1. IInv => ReadsCommitted
  BY DEF IInv, GoodState, ReadsCommitted
<1> QED BY <1>1, Invariance, PTL

(* The updates of a super-step are reduced once each, in ID order          *)
(* (runner.go:146-147).                                                    *)
THEOREM DeterministicFanIn == Spec => []SortedFanIn
<1>1. IInv => SortedFanIn
  BY DEF IInv, GoodState, SortedFanIn
<1> QED BY <1>1, Invariance, PTL

(* No update is ever made by a super-step past the recursion limit,        *)
(* however often the thread is resumed (runner.go:62-65).                  *)
THEOREM LimitHolds == Spec => []StepBound
<1>1. IInv => StepBound
  BY DEF IInv, GoodState, StepsUpTo, StepBound
<1> QED BY <1>1, Invariance, PTL

(* Every goroutine of a super-step has ended when runSuperStep goes on or  *)
(* returns (runner.go:142).                                                *)
THEOREM Barrier == Spec => []NoStragglers
<1>1. IInv => NoStragglers
  BY DEF IInv, BarrierInv, NoStragglers, Running
<1> QED BY <1>1, Invariance, PTL

(* A call reports a cancelled context only to a caller who cancelled it    *)
(* (runner.go:109, 142).                                                   *)
THEOREM ReportsRootCause == Spec => []RootCause
<1>1. IInv => RootCause
  BY DEF IInv, CtxInv, RootCause
<1> QED BY <1>1, Invariance, PTL

-----------------------------------------------------------------------------
(* Whole super-steps.                                                      *)

(* An error is only ever a returned call's, a group's error one of a node. *)
ErrInv ==
  /\ pc # "returned" => err = NoErr
  /\ groupErr = NoErr \/ groupErr.kind \in NodeErrKind

(* During the fan-in acc has the updates of what is not pending any more.  *)
FanInInv ==
  pc = "fanin" => /\ pending \subseteq frontier
                  /\ NodesAt(acc, step) = frontier \ pending

WholeInv == ErrInv /\ FanInInv /\ WholeSuperSteps

LEMMA NodesAtAppend ==
  ASSUME NEW s \in State, NEW u \in Update, NEW k \in Nat, u.step = k
  PROVE  NodesAt(Append(s, u), k) = NodesAt(s, k) \cup {u.node}
<1> DEFINE t == Append(s, u)
<1>1. /\ Len(s) \in Nat /\ DOMAIN s = 1..Len(s) /\ DOMAIN t = 1..(Len(s) + 1)
      /\ \A i \in DOMAIN s : t[i] = s[i]
      /\ t[Len(s) + 1] = u
  BY DEF State
<1> HIDE DEF t
<1>2. \A i \in DOMAIN t : i \in DOMAIN s \/ i = Len(s) + 1
  BY <1>1
<1>3. \A i \in DOMAIN s : i \in DOMAIN t
  BY <1>1
<1>4. Len(s) + 1 \in DOMAIN t
  BY <1>1
<1>5. NodesAt(t, k) = NodesAt(s, k) \cup {u.node}
  BY <1>1, <1>2, <1>3, <1>4 DEF NodesAt
<1> QED BY <1>5 DEF t

(* A super-step later than every update has none yet.                      *)
LEMMA NodesAtNone ==
  ASSUME NEW s \in State, NEW k \in Nat, StepsUpTo(s, k - 1)
  PROVE  NodesAt(s, k) = {}
<1>1. \A i \in DOMAIN s : s[i].step \in Nat
  <2>1. \A i \in DOMAIN s : s[i] \in Update
    BY DEF State
  <2> QED BY <2>1 DEF Update
<1> QED BY <1>1 DEF NodesAt, StepsUpTo

LEMMA WholeInit == Init => WholeInv
<1> SUFFICES ASSUME Init PROVE WholeInv
  OBVIOUS
<1>1. pc = "loop" /\ err = NoErr /\ groupErr = NoErr
  BY DEF Init
<1>2. err.kind = "none"
  BY <1>1 DEF NoErr
<1> QED BY <1>1, <1>2 DEF WholeInv, ErrInv, FanInInv, WholeSuperSteps, NodeErrKind

LEMMA WholeStep ==
  ASSUME IInv, WholeInv, [Next]_vars
  PROVE  WholeInv'
<1>1. /\ state \in State /\ acc \in State /\ step \in Nat /\ frontier \subseteq NodeID
      /\ pending \subseteq NodeID
      /\ NoErr.kind = "none"
  BY DEF IInv, TypeInv, TypeOK, NoErr
<1>2. ErrInv /\ FanInInv /\ WholeSuperSteps
  BY DEF WholeInv
<1> USE DEF WholeInv
<1>3. ASSUME UNCHANGED <<pc, frontier, step, state, acc, pending, err>>,
             groupErr' = NoErr \/ groupErr'.kind \in NodeErrKind
      PROVE  WholeInv'
  BY <1>2, <1>3 DEF ErrInv, FanInInv, WholeSuperSteps, NodesAt
<1>4. CASE UNCHANGED vars \/ Cancel
  BY <1>2, <1>3, <1>4 DEF vars, superStepVars, Cancel, ErrInv
<1>5. ASSUME NEW n \in NodeID, Launch(n) \/ Snapshot(n) \/ Succeed(n)
      PROVE  WholeInv'
  BY <1>2, <1>3, <1>5 DEF Launch, Snapshot, Succeed, ErrInv
<1>6. ASSUME NEW n \in NodeID, NEW kind \in NodeErrKind, Fail(n, kind)
      PROVE  WholeInv'
  BY <1>2, <1>3, <1>6 DEF Fail, FirstError, ErrInv
<1>7. ASSUME pc' \in {"loop", "returned"}, pc' # "returned" => err' = NoErr,
             err'.kind \notin NodeErrKind \cup {"handler", "reducer", "save", "router"},
             groupErr' = groupErr
      PROVE  WholeInv'
  BY <1>2, <1>7 DEF ErrInv, FanInInv, WholeSuperSteps
<1>8. CASE Complete \/ HitLimit \/ ResumeRuns \/ Route
  BY <1>1, <1>2, <1>7, <1>8 DEF Complete, HitLimit, ResumeRuns, ResumeCall, Route,
     Return, superStepVars, NodeErrKind, ErrInv
<1>9. CASE ResumeFails
  <2>1. state' = <<>> /\ step' = 0 /\ frontier' = {} /\ pc' = "returned"
        /\ err'.kind \in {"nocheckpointer", "notfound", "load", "router"}
        /\ groupErr' = groupErr
    BY <1>9 DEF ResumeFails, ResumeCall, Return, superStepVars
  <2>2. NodesAt(<<>>, 0) = {}
    BY DEF NodesAt
  <2> QED BY <1>2, <2>1, <2>2 DEF ErrInv, FanInInv, WholeSuperSteps, NodesAt,
          NodeErrKind
<1>10. CASE BeginSuperStep
  <2>1. NodesAt(state, step + 1) = {}
    BY <1>1, NodesAtNone DEF IInv, StepInv
  <2>2. /\ pc' = "launch" /\ state' = state /\ step' = step + 1 /\ err' = NoErr
        /\ groupErr' = NoErr
    BY <1>2, <1>10 DEF BeginSuperStep, ErrInv
  <2> QED BY <1>1, <2>1, <2>2 DEF ErrInv, FanInInv, WholeSuperSteps, NodesAt,
          NodeErrKind
<1>11. CASE Wait
  <2>1. NodesAt(state, step) = {} /\ pc = "launch"
    BY <1>2, <1>11 DEF Wait, Waited, WholeSuperSteps
  <2>2. UNCHANGED <<state, acc, step, frontier, groupErr>>
    BY <1>11 DEF Wait, Waited
  <2>3. CASE pc' = "returned"
    <3>1. groupErr # NoErr /\ err' = groupErr
      BY <1>11, <2>3 DEF Wait, Waited, Return
    <3>2. err'.kind \in NodeErrKind
      BY <1>2, <3>1 DEF ErrInv
    <3> QED BY <1>2, <2>1, <2>2, <2>3, <3>2 DEF ErrInv, FanInInv,
            WholeSuperSteps, NodesAt, NodeErrKind
  <2>4. CASE pc' = "fanin"
    <3>1. acc = state /\ pending' = frontier /\ err' = err
      BY <1>11, <2>1, <2>4 DEF Wait, Waited, Return, IInv, MergeInv
    <3>2. err' = NoErr
      BY <1>2, <2>1, <3>1 DEF ErrInv
    <3>3. ErrInv'
      BY <1>2, <2>2, <3>2 DEF ErrInv
    <3>4. NodesAt(acc', step') = {} /\ NodesAt(state', step') = {}
      BY <2>1, <2>2, <3>1
    <3>5. FanInInv'
      BY <2>2, <3>1, <3>4 DEF FanInInv
    <3>6. WholeSuperSteps'
      BY <1>1, <2>4, <3>2, <3>4 DEF WholeSuperSteps, NodeErrKind
    <3> QED BY <3>3, <3>5, <3>6
  <2> QED BY <1>11, <2>3, <2>4 DEF Wait, Waited, Return
<1>12. ASSUME NEW n \in NodeID, Reduce(n) PROVE WholeInv'
  <2>1. /\ pc = "fanin" /\ n \in pending /\ acc' = Append(acc, UpdateOf(n))
        /\ pending' = pending \ {n}
        /\ UNCHANGED <<frontier, step, groupErr, err>>
    BY <1>12 DEF Reduce, NextToReduce
  <2>2. UpdateOf(n) \in Update /\ UpdateOf(n).step = step /\ UpdateOf(n).node = n
    BY DEF UpdateOf, Update, IInv, TypeInv, TypeOK
  <2>3. NodesAt(acc', step) = NodesAt(acc, step) \cup {n}
    BY <1>1, <2>1, <2>2, NodesAtAppend
  <2>4. NodesAt(acc', step) = frontier \ pending' /\ pending' \subseteq frontier
    BY <1>2, <2>1, <2>3 DEF FanInInv
  <2>5. ErrInv' /\ err' = NoErr
    BY <1>2, <2>1 DEF ErrInv
  <2>6. FanInInv'
    BY <2>1, <2>4 DEF FanInInv
  <2>7. CASE pending' = {}
    <3>1. pc' = "save" /\ state' = acc'
      BY <1>12, <2>7 DEF Reduce
    <3>2. NodesAt(state', step') = frontier'
      BY <2>1, <2>4, <2>7, <3>1
    <3>3. WholeSuperSteps'
      BY <1>1, <2>5, <3>1, <3>2 DEF WholeSuperSteps, NodeErrKind
    <3> QED BY <2>5, <2>6, <3>3
  <2>8. CASE pending' # {}
    <3>1. pc' = pc /\ state' = state
      BY <1>12, <2>8 DEF Reduce
    <3>2. NodesAt(state', step') = {}
      BY <1>2, <2>1, <3>1 DEF WholeSuperSteps
    <3>3. WholeSuperSteps'
      BY <1>1, <2>1, <2>5, <3>1, <3>2 DEF WholeSuperSteps, NodeErrKind
    <3> QED BY <2>5, <2>6, <3>3
  <2> QED BY <2>7, <2>8
<1>13. ASSUME NEW n \in NodeID, NEW kind \in {"handler", "reducer"},
              ReduceFails(n, kind)
       PROVE  WholeInv'
  BY <1>2, <1>13 DEF ReduceFails, Return, superStepVars, ErrInv, FanInInv,
     WholeSuperSteps, NodesAt, NodeErrKind
<1>14. CASE Save
  BY <1>1, <1>2, <1>14 DEF Save, superStepVars, ErrInv, FanInInv, WholeSuperSteps,
     NodesAt, NodeErrKind
<1>15. CASE SaveFails \/ RouteFails
  BY <1>2, <1>15 DEF SaveFails, RouteFails, Return, superStepVars, ErrInv,
     FanInInv, WholeSuperSteps, NodesAt, NodeErrKind
<1> QED
  BY <1>4, <1>5, <1>6, <1>8, <1>9, <1>10, <1>11, <1>12, <1>13, <1>14, <1>15
     DEF Next, RunLoop, Goroutine, NodeReturns, Stopped

LEMMA WholeInvariant == Spec => [](IInv /\ WholeInv)
<1>1. IInv /\ WholeInv /\ [Next]_vars => WholeInv'
  BY WholeStep
<1> QED BY Invariance, WholeInit, <1>1, PTL DEF Spec

(* Whoever sees the state sees whole super-steps: an error in the middle   *)
(* of a fan-in leaves none of its updates (runner.go:67-71, 154, 160).     *)
THEOREM StepsAreWhole == Spec => []WholeSuperSteps
<1>1. WholeInv => WholeSuperSteps
  BY DEF WholeInv
<1> QED BY WholeInvariant, <1>1, PTL

-----------------------------------------------------------------------------
(* Prefixes, and what MemoryCheckpointer.Save makes of a lineage.          *)

LEMMA PrefixElements ==
  ASSUME NEW s \in State, NEW t \in State
  PROVE  IsPrefix(s, t) <=> Len(s) <= Len(t) /\ \A i \in 1..Len(s) : s[i] = t[i]
<1>1. Len(s) \in Nat /\ Len(t) \in Nat
  BY DEF State
<1>2. ASSUME Len(s) <= Len(t)
      PROVE  SubSeq(s, 1, Len(s)) = SubSeq(t, 1, Len(s))
               <=> \A i \in 1..Len(s) : s[i] = t[i]
  <2> DEFINE a == SubSeq(s, 1, Len(s))
             b == SubSeq(t, 1, Len(s))
  <2>1. /\ \A i \in 1..Len(s) : s[i] \in Update
        /\ \A i \in 1..Len(s) : t[i] \in Update
    BY <1>1, <1>2 DEF State
  <2>2. /\ a \in Seq(Update) /\ Len(a) = Len(s)
        /\ \A i \in 1..Len(s) : a[i] = s[i]
    BY <1>1, <2>1, SubSeqProperties
  <2>3. /\ b \in Seq(Update) /\ Len(b) = Len(s)
        /\ \A i \in 1..Len(s) : b[i] = t[i]
    BY <1>1, <2>1, SubSeqProperties
  <2> HIDE DEF a, b
  <2>4. (\A i \in 1..Len(s) : s[i] = t[i]) => a = b
    BY <2>2, <2>3, SeqEqual
  <2>5. a = b => \A i \in 1..Len(s) : s[i] = t[i]
    BY <2>2, <2>3
  <2> QED BY <2>4, <2>5 DEF a, b
<1> QED BY <1>2 DEF IsPrefix

LEMMA PrefixReflexive == \A s \in State : IsPrefix(s, s)
<1>1. \A s \in State : Len(s) \in Nat
  BY DEF State
<1> QED BY <1>1, PrefixElements

LEMMA PrefixTransitive ==
  ASSUME NEW s \in State, NEW t \in State, NEW u \in State,
         IsPrefix(s, t), IsPrefix(t, u)
  PROVE  IsPrefix(s, u)
<1>1. Len(s) \in Nat /\ Len(t) \in Nat /\ Len(u) \in Nat
  BY DEF State
<1>2. Len(s) <= Len(t) /\ \A i \in 1..Len(s) : s[i] = t[i]
  BY PrefixElements
<1>3. Len(t) <= Len(u) /\ \A i \in 1..Len(t) : t[i] = u[i]
  BY PrefixElements
<1>4. Len(s) <= Len(u) /\ \A i \in 1..Len(s) : s[i] = u[i]
  BY <1>1, <1>2, <1>3
<1> QED BY <1>4, PrefixElements

LEMMA MergingIsPrefix ==
  ASSUME NEW s \in State, NEW t \in State, NEW k, Merging(s, t, k)
  PROVE  IsPrefix(s, t)
<1>1. DOMAIN s = 1..Len(s)
  BY DEF State
<1> QED BY <1>1, PrefixElements DEF Merging

(* A history that is one lineage: the part of OneLineage about it.         *)
Descends(h) ==
  \A i \in DOMAIN h :
    /\ LastStep(h[i].state) = h[i].step
    /\ \A j \in (i + 1)..Len(h) :
         /\ h[i].step < h[j].step
         /\ IsPrefix(h[i].state, h[j].state)

Follows(cp, h) ==
  /\ LastStep(cp.state) = cp.step
  /\ h # <<>> => Last(h).step < cp.step /\ IsPrefix(Last(h).state, cp.state)

LEMMA AppendDescends ==
  ASSUME NEW h \in Seq(Checkpoint), NEW cp \in Checkpoint,
         Descends(h), Follows(cp, h)
  PROVE  Descends(Append(h, cp))
<1> DEFINE g == Append(h, cp)
<1>1. /\ Len(h) \in Nat /\ DOMAIN h = 1..Len(h) /\ DOMAIN g = 1..Len(g)
      /\ Len(g) = Len(h) + 1 /\ g[Len(h) + 1] = cp
      /\ \A i \in 1..Len(h) : g[i] = h[i]
  BY AppendProperties, LenProperties
<1>0. Len(h) \in Nat
  BY LenProperties
<1>2. ASSUME NEW i \in 1..Len(h)
      PROVE  h[i].step < cp.step /\ IsPrefix(h[i].state, cp.state)
  <2>1. h # <<>> /\ Last(h) = h[Len(h)] /\ Len(h) \in 1..Len(h)
    BY <1>1, <1>2, LastOfSeq
  <2>2. h[i] \in Checkpoint /\ h[Len(h)] \in Checkpoint
    BY <1>2, <2>1, ElementOfSeq
  <2>3. /\ h[i].state \in State /\ h[i].step \in Nat
        /\ h[Len(h)].state \in State /\ h[Len(h)].step \in Nat
        /\ cp.state \in State /\ cp.step \in Nat
    BY <2>2 DEF Checkpoint
  <2>4. h[Len(h)].step < cp.step /\ IsPrefix(h[Len(h)].state, cp.state)
    BY <2>1 DEF Follows
  <2>5. CASE i = Len(h)
    BY <2>4, <2>5
  <2>6. CASE i # Len(h)
    <3>0. i \in Nat /\ i <= Len(h) /\ i \in DOMAIN h
      BY <1>1, <1>2
    <3>1. Len(h) \in (i + 1)..Len(h)
      BY <1>0, <2>6, <3>0
    <3>2. /\ h[i].step < h[Len(h)].step
          /\ IsPrefix(h[i].state, h[Len(h)].state)
      BY <3>0, <3>1 DEF Descends
    <3> QED BY <2>3, <2>4, <3>2, PrefixTransitive
  <2> QED BY <2>5, <2>6
<1> HIDE DEF g
<1>3. ASSUME NEW i \in DOMAIN g
      PROVE  /\ LastStep(g[i].state) = g[i].step
             /\ \A j \in (i + 1)..Len(g) :
                  g[i].step < g[j].step /\ IsPrefix(g[i].state, g[j].state)
  <2>1. CASE i = Len(h) + 1
    BY <1>1, <2>1 DEF Follows
  <2>2. CASE i \in 1..Len(h)
    <3>1. g[i] = h[i] /\ LastStep(h[i].state) = h[i].step
      BY <1>1, <2>2 DEF Descends
    <3>2. ASSUME NEW j \in (i + 1)..Len(g)
          PROVE  g[i].step < g[j].step /\ IsPrefix(g[i].state, g[j].state)
      <4>1. CASE j = Len(h) + 1
        BY <1>1, <1>2, <2>2, <3>1, <4>1
      <4>2. CASE j # Len(h) + 1
        <5>1. j \in (i + 1)..Len(h) /\ j \in 1..Len(h) /\ i \in DOMAIN h
          BY <1>1, <2>2, <4>2
        <5> QED BY <1>1, <3>1, <5>1 DEF Descends
      <4> QED BY <4>1, <4>2
    <3> QED BY <3>1, <3>2
  <2> QED BY <1>1, <2>1, <2>2
<1>4. Descends(g)
  BY <1>3 DEF Descends
<1> QED BY <1>4 DEF g

(* Dropping the oldest keeps a lineage, and keeps its latest checkpoint.   *)
LEMMA RetainDescends ==
  ASSUME NEW h \in Seq(Checkpoint), h # <<>>, runner.maxHistory \in Nat
  PROVE  /\ Descends(h) => Descends(Retain(h))
         /\ Retain(h) # <<>>
         /\ Last(Retain(h)) = Last(h)
<1> DEFINE m == runner.maxHistory
           g == Retain(h)
<1>1. Len(h) \in Nat \ {0} /\ DOMAIN h = 1..Len(h)
  BY LenProperties, EmptySeq
<1>2. CASE ~(m > 0 /\ Len(h) > m)
  BY <1>2 DEF Retain
<1>3. CASE m > 0 /\ Len(h) > m
  <2>1. g = SubSeq(h, Len(h) - m + 1, Len(h))
    BY <1>3 DEF Retain
  <2>2. /\ SubSeq(h, Len(h) - m + 1, Len(h)) \in Seq(Checkpoint)
        /\ Len(g) = m
        /\ \A k \in 1..m : g[k] = h[Len(h) - m + k]
    BY <1>3, <2>1, SubSeqProperties
  <2>3. DOMAIN g = 1..m
    BY <2>1, <2>2, LenProperties
  <2> HIDE DEF g
  <2>4. g # <<>> /\ g[Len(g)] = h[Len(h)]
    <3>1. m \in 1..m /\ Len(h) - m + m = Len(h)
      BY <1>1, <1>3
    <3>2. g[m] = h[Len(h)]
      BY <2>2, <3>1
    <3> QED BY <1>3, <2>2, <3>2, EmptySeq
  <2>5. ASSUME Descends(h) PROVE Descends(g)
    <3> SUFFICES ASSUME NEW i \in DOMAIN g
                 PROVE  /\ LastStep(g[i].state) = g[i].step
                        /\ \A j \in (i + 1)..Len(g) :
                             /\ g[i].step < g[j].step
                             /\ IsPrefix(g[i].state, g[j].state)
      BY DEF Descends
    <3> DEFINE o == Len(h) - m
    <3>1. i \in 1..m /\ o + i \in DOMAIN h /\ g[i] = h[o + i]
      BY <1>1, <1>3, <2>2, <2>3
    <3>2. ASSUME NEW j \in (i + 1)..Len(g)
          PROVE  /\ g[i].step < g[j].step
                 /\ IsPrefix(g[i].state, g[j].state)
      <4>1. Len(h) \in Nat /\ m \in Nat /\ m <= Len(h) /\ i \in 1..m
        BY <1>1, <1>3, <3>1
      <4>2. j \in (i + 1)..m
        BY <2>2
      <4>3. j \in 1..m /\ o + j \in (o + i + 1)..Len(h)
        BY <4>1, <4>2
      <4> QED BY <2>2, <2>5, <3>1, <4>3 DEF Descends
    <3> QED BY <2>5, <3>1, <3>2 DEF Descends
  <2> QED BY <2>4, <2>5 DEF g, Last
<1> QED BY <1>2, <1>3

-----------------------------------------------------------------------------
(* The lineage invariant.                                                  *)

(* Where runLoop stands: at the step of the state's last update, or, once  *)
(* a super-step has begun, one further; and where an error leaves it.      *)
PositionInv ==
  /\ pc \in {"loop", "save", "route"} => LastStep(state) = step
  /\ pc \in {"launch", "fanin"} => LastStep(state) = step - 1
  /\ pc = "returned" => LastStep(state) \in {step - 1, step}
  /\ err.kind = "save" => LastStep(state) = step
  /\ pc # "returned" => err = NoErr

(* A running call continues the latest checkpoint.                         *)
AheadInv ==
  pc # "returned" /\ history # <<>> =>
    /\ IsPrefix(Latest.state, state)
    /\ Latest.step <= LastStep(state)
    /\ pc = "save" => Latest.step < step

SavedStep == IF history = <<>> THEN 0 ELSE Latest.step

(* The checkpoint that is due is being saved, or saving it has failed.     *)
Saving == pc = "save" \/ err.kind = "save"

(* No super-step whose checkpoint is due has been passed without one.      *)
DueInv ==
  runner.checkpointer =>
    \A t \in Nat :
      SavedStep < t /\ t <= LastStep(state) /\ (Saving => t # step) =>
        t % runner.checkpointInterval # 0

LineageInv == PositionInv /\ Descends(history) /\ AheadInv /\ DueInv

LEMMA LineageInit == Init => LineageInv
<1> SUFFICES ASSUME Init PROVE LineageInv
  OBVIOUS
<1>1. /\ pc = "loop" /\ step = 0 /\ state = <<>> /\ history = <<>>
      /\ LastStep(state) = 0 /\ SavedStep = 0
  BY DEF Init, LastStep, SavedStep
<1>2. PositionInv /\ Descends(history) /\ AheadInv
  BY <1>1 DEF Init, NoErr, PositionInv, Descends, AheadInv
<1>3. DueInv
  BY <1>1 DEF DueInv
<1> QED BY <1>2, <1>3 DEF LineageInv

(* The latest checkpoint, and where a Resume of it stands.                 *)
LEMMA LatestDescends ==
  ASSUME TypeOK, Descends(history), history # <<>>
  PROVE  /\ Latest.state \in State /\ Latest.step \in Nat
         /\ LastStep(Latest.state) = Latest.step
<1>1. /\ Latest \in Checkpoint
      /\ Len(history) \in DOMAIN history /\ Latest = history[Len(history)]
  BY LastOfSeq DEF TypeOK, Latest
<1> QED BY <1>1 DEF Descends, Checkpoint

LEMMA LastStepType == \A s \in State : LastStep(s) \in Nat
<1> SUFFICES ASSUME NEW s \in State PROVE LastStep(s) \in Nat
  OBVIOUS
<1>1. s # <<>> => Last(s) \in Update
  BY LastOfSeq DEF State
<1> QED BY <1>1 DEF LastStep, Update

(* What Save stores continues the lineage, and is its latest.              *)
LEMMA SavedDescends ==
  ASSUME IInv, LineageInv, pc = "save"
  PROVE  /\ Saved # <<>> /\ Descends(Saved)
         /\ Last(Saved).step = step /\ Last(Saved).state = state
<1> DEFINE cp == [node |-> LastReduced, step |-> step, state |-> state]
<1>1. /\ state \in Seq(Update) /\ state # <<>> /\ step \in Nat
      /\ history \in Seq(Checkpoint) /\ runner.maxHistory \in Nat
  BY RunnerFacts DEF IInv, TypeInv, TypeOK, State
<1>2. cp \in Checkpoint
  <2>1. Last(state) \in Update
    BY <1>1, LastOfSeq
  <2>2. LastReduced \in NodeID
    BY <2>1 DEF LastReduced, Update
  <2> QED BY <1>1, <2>2 DEF Checkpoint, State
<1>3. cp.step = step /\ cp.state = state
  OBVIOUS
<1> HIDE DEF cp
<1>4. Follows(cp, history)
  BY <1>3 DEF Follows, LineageInv, PositionInv, AheadInv, Latest
<1>5. /\ Append(history, cp) \in Seq(Checkpoint)
      /\ Append(history, cp) # <<>>
      /\ Last(Append(history, cp)) = cp
  BY <1>1, <1>2, AppendProperties DEF Last
<1>6. Descends(Append(history, cp))
  BY <1>1, <1>2, <1>4, AppendDescends DEF LineageInv
<1>7. Saved = Retain(Append(history, cp))
  BY DEF Saved, cp
<1> QED BY <1>1, <1>3, <1>5, <1>6, <1>7, RetainDescends

LEMMA LineageStep ==
  ASSUME IInv, IInv', ErrInv, LineageInv, [Next]_vars
  PROVE  LineageInv'
<1>1. /\ state \in State /\ acc \in State /\ step \in Nat /\ state' \in State
      /\ LastStep(state) \in Nat /\ LastStep(state') \in Nat
      /\ history \in Seq(Checkpoint)
  BY LastStepType DEF IInv, TypeInv, TypeOK
<1>2. PositionInv /\ Descends(history) /\ AheadInv /\ DueInv
  BY DEF LineageInv
<1>3. history # <<>> => /\ Latest.state \in State /\ Latest.step \in Nat
                        /\ LastStep(Latest.state) = Latest.step
  BY <1>2, LatestDescends DEF IInv, TypeInv
<1>4. runner' = runner
  BY RunnerFixed
<1> USE DEF LineageInv
(* A step that moves pc but neither the state nor the history, and does    *)
(* not return.                                                             *)
<1>5. ASSUME UNCHANGED <<state, history, err>>, PositionInv',
             pc # "returned" \/ pc' = "returned", pc' = "save" => pc = "save",
             step' = step \/ ~Saving', pc = "save" => pc' = "save"
      PROVE  LineageInv'
  <2>1. AheadInv'
    BY <1>2, <1>5 DEF AheadInv, Latest, Saving
  <2>2. DueInv'
    BY <1>2, <1>4, <1>5 DEF DueInv, Saving, SavedStep, Latest
  <2> QED BY <1>2, <1>5, <2>1, <2>2
(* A return from elsewhere than the save.                                  *)
<1>6. ASSUME pc \notin {"save", "returned"}, pc' = "returned",
             err'.kind # "save", UNCHANGED <<state, history>>, PositionInv'
      PROVE  LineageInv'
  <2>1. ~Saving /\ ~Saving'
    BY <1>2, <1>6 DEF Saving, PositionInv, NoErr
  <2>2. AheadInv'
    BY <1>6 DEF AheadInv
  <2>3. DueInv'
    BY <1>2, <1>4, <1>6, <2>1 DEF DueInv, SavedStep, Latest
  <2> QED BY <1>2, <1>6, <2>2, <2>3
<1>7. CASE UNCHANGED vars \/ Cancel
  BY <1>2, <1>5, <1>7 DEF vars, superStepVars, Cancel, PositionInv
<1>8. ASSUME NEW n \in NodeID, Launch(n) \/ Goroutine(n) PROVE LineageInv'
  <2>1. UNCHANGED <<pc, step, state, history, err>>
    BY <1>8, GoroutineFrame
  <2> QED BY <1>2, <1>5, <2>1 DEF PositionInv
<1>9. CASE Complete \/ HitLimit \/ RouteFails
  <2>1. /\ pc \in {"loop", "route"} /\ pc' = "returned"
        /\ err'.kind \in {"none", "limit", "router"}
        /\ step' \in {step, step + 1} /\ UNCHANGED <<state, history>>
    BY <1>9 DEF Complete, HitLimit, RouteFails, Return, NoErr
  <2>2. PositionInv'
    BY <1>1, <1>2, <2>1 DEF PositionInv
  <2> QED BY <1>6, <2>1, <2>2
<1>18. CASE ResumeFails
  <2>1. /\ pc' = "returned" /\ err'.kind # "save" /\ err'.kind # "none"
        /\ state' = <<>> /\ step' = 0 /\ UNCHANGED history
    BY <1>18 DEF ResumeFails, ResumeCall, Return
  <2>2. LastStep(state') = 0 /\ PositionInv'
    BY <2>1 DEF LastStep, PositionInv
  <2>3. SavedStep' \in Nat
    BY <1>3, <2>1 DEF SavedStep, Latest
  <2>4. AheadInv' /\ DueInv'
    BY <2>1, <2>2, <2>3 DEF AheadInv, DueInv
  <2> QED BY <1>2, <2>1, <2>2, <2>4
<1>10. CASE BeginSuperStep
  <2>1. /\ pc = "loop" /\ pc' = "launch" /\ step' = step + 1
        /\ UNCHANGED <<state, history, err>>
    BY <1>10 DEF BeginSuperStep
  <2>2. PositionInv' /\ ~Saving'
    BY <1>1, <1>2, <2>1 DEF PositionInv, Saving, NoErr
  <2> QED BY <1>5, <2>1, <2>2
<1>11. CASE Wait
  <2>1. pc = "launch" /\ UNCHANGED <<step, state, history>>
    BY <1>11 DEF Wait, Waited
  <2>2. CASE pc' = "returned"
    <3>1. err' = groupErr /\ groupErr # NoErr
      BY <1>11, <2>2 DEF Wait, Waited, Return
    <3>2. err'.kind # "save"
      BY <3>1 DEF ErrInv, NodeErrKind
    <3>3. PositionInv'
      BY <1>1, <1>2, <2>1, <2>2, <3>2 DEF PositionInv
    <3> QED BY <1>6, <2>1, <2>2, <3>2, <3>3
  <2>3. CASE pc' = "fanin"
    <3>1. err' = err
      BY <1>11, <2>3 DEF Wait, Waited, Return
    <3> QED BY <1>2, <1>5, <2>1, <2>3, <3>1 DEF PositionInv
  <2> QED BY <1>11, <2>2, <2>3 DEF Wait, Waited, Return
<1>12. ASSUME NEW n \in NodeID, Reduce(n) PROVE LineageInv'
  <2>1. /\ pc = "fanin" /\ acc' = Append(acc, UpdateOf(n))
        /\ UNCHANGED <<step, history, err>>
    BY <1>12 DEF Reduce
  <2>0. err = NoErr /\ ~Saving
    BY <1>2, <2>1 DEF PositionInv, Saving, NoErr
  <2>2. CASE pending' # {}
    <3>1. pc' = "fanin" /\ state' = state
      BY <1>12, <2>1, <2>2 DEF Reduce
    <3>2. PositionInv'
      BY <1>2, <2>1, <3>1 DEF PositionInv
    <3> QED BY <1>5, <2>1, <3>1, <3>2
  <2>3. CASE pending' = {}
    <3>1. pc' = "save" /\ state' = acc'
      BY <1>12, <2>3 DEF Reduce
    <3>2. UpdateOf(n) \in Update /\ UpdateOf(n).step = step
      BY DEF UpdateOf, Update, IInv, TypeInv, TypeOK
    <3>3. LastStep(state') = step
      <4>1. acc \in Seq(Update)
        BY <1>1 DEF State
      <4>2. /\ acc' # <<>> /\ Len(acc') = Len(acc) + 1
            /\ acc'[Len(acc) + 1] = UpdateOf(n)
        BY <2>1, <3>2, <4>1, AppendProperties
      <4> QED BY <3>1, <3>2, <4>2 DEF LastStep, Last
    <3>4. LastStep(state) = step - 1
      BY <1>2, <2>1 DEF PositionInv
    <3>5. IsPrefix(state, state')
      BY <1>1, <1>12, <3>1, ReduceMerges, MergingIsPrefix
    <3>6. PositionInv'
      BY <2>0, <2>1, <3>1, <3>3 DEF PositionInv, NoErr
    <3>7. AheadInv'
      <4> SUFFICES ASSUME history # <<>>
                   PROVE  /\ IsPrefix(Latest.state, state')
                          /\ Latest.step <= step /\ Latest.step < step
        BY <2>1, <3>3 DEF AheadInv, Latest
      <4>1. IsPrefix(Latest.state, state) /\ Latest.step <= step - 1
        BY <1>2, <2>1, <3>4 DEF AheadInv
      <4> QED BY <1>1, <1>3, <3>5, <4>1, PrefixTransitive
    <3>8. DueInv'
      <4> SUFFICES ASSUME runner.checkpointer, NEW t \in Nat, SavedStep < t,
                          t <= step, t # step
                   PROVE  t % runner.checkpointInterval # 0
        BY <1>4, <2>1, <3>1, <3>3 DEF DueInv, Saving, SavedStep, Latest
      <4>1. t <= LastStep(state)
        BY <1>1, <3>4
      <4> QED BY <1>2, <2>0, <4>1 DEF DueInv
    <3> QED BY <1>2, <2>1, <3>6, <3>7, <3>8
  <2> QED BY <2>2, <2>3
<1>13. ASSUME NEW n \in NodeID, NEW kind \in {"handler", "reducer"},
              ReduceFails(n, kind)
       PROVE  LineageInv'
  <2>1. /\ pc = "fanin" /\ pc' = "returned" /\ err'.kind # "save"
        /\ UNCHANGED <<step, state, history>>
    BY <1>13 DEF ReduceFails, Return
  <2>2. PositionInv'
    BY <1>1, <1>2, <2>1 DEF PositionInv
  <2> QED BY <1>6, <2>1, <2>2
<1>14. CASE Save
  <2>1. pc = "save" /\ pc' = "route" /\ UNCHANGED <<step, state, err>>
    BY <1>14 DEF Save
  <2>2. LastStep(state) = step /\ PositionInv'
    BY <1>2, <2>1 DEF PositionInv
  <2>3. CASE SaveDue
    <3>1. history' = Saved
      BY <1>14, <2>3 DEF Save
    <3>2. /\ history' # <<>> /\ Descends(history')
          /\ Last(history').step = step /\ Last(history').state = state
      BY <2>1, <3>1, SavedDescends
    <3>3. AheadInv'
      BY <1>1, <2>1, <2>2, <3>2, PrefixReflexive DEF AheadInv, Latest
    <3>4. DueInv'
      BY <1>1, <2>1, <2>2, <3>2 DEF DueInv, SavedStep, Latest
    <3> QED BY <2>2, <3>2, <3>3, <3>4
  <2>4. CASE ~SaveDue
    <3>1. history' = history
      BY <1>14, <2>4 DEF Save
    <3>2. AheadInv'
      BY <1>2, <2>1, <3>1 DEF AheadInv, Latest
    <3>3. runner.checkpointer => step % runner.checkpointInterval # 0
      BY <2>4 DEF SaveDue
    <3>4. DueInv'
      BY <1>2, <1>4, <2>1, <3>1, <3>3 DEF DueInv, Saving, SavedStep, Latest
    <3> QED BY <1>2, <2>2, <3>1, <3>2, <3>4
  <2> QED BY <2>3, <2>4
<1>15. CASE SaveFails
  <2>1. /\ pc = "save" /\ pc' = "returned" /\ err'.kind = "save"
        /\ UNCHANGED <<step, state>>
        /\ history' = history \/ history' = Saved
    BY <1>15 DEF SaveFails, Return
  <2>2. PositionInv' /\ AheadInv' /\ LastStep(state) = step
    BY <1>2, <2>1 DEF PositionInv, AheadInv
  <2>3. CASE history' = history
    <3>1. DueInv'
      BY <1>2, <1>4, <2>1, <2>3 DEF DueInv, Saving, SavedStep, Latest
    <3> QED BY <1>2, <2>2, <2>3, <3>1
  <2>4. CASE history' = Saved
    <3>1. history' # <<>> /\ Descends(history') /\ Last(history').step = step
      BY <2>1, <2>4, SavedDescends
    <3>2. DueInv'
      BY <1>1, <2>1, <2>2, <3>1 DEF DueInv, SavedStep, Latest
    <3> QED BY <2>2, <3>1, <3>2
  <2> QED BY <2>1, <2>3, <2>4
<1>16. CASE Route
  <2>1. /\ pc = "route" /\ pc' = "loop"
        /\ UNCHANGED <<step, state, history, err>>
    BY <1>16 DEF Route
  <2>2. PositionInv'
    BY <1>2, <2>1 DEF PositionInv
  <2> QED BY <1>5, <2>1, <2>2
<1>17. CASE ResumeRuns
  <2>1. /\ history # <<>> /\ history' = history
        /\ state' = Latest.state /\ step' = Latest.step
        /\ pc' \in {"returned", "loop"} /\ err' = NoErr
    BY <1>17 DEF ResumeRuns, ResumeCall
  <2>2. LastStep(state') = step'
    BY <1>3, <2>1
  <2>3. PositionInv'
    BY <2>1, <2>2 DEF PositionInv, NoErr
  <2>4. AheadInv'
    BY <1>3, <2>1, <2>2, PrefixReflexive DEF AheadInv, Latest
  <2>5. DueInv'
    BY <1>3, <2>1, <2>2 DEF DueInv, SavedStep, Latest
  <2> QED BY <1>2, <2>1, <2>3, <2>4, <2>5
<1> QED
  BY <1>7, <1>8, <1>9, <1>10, <1>11, <1>12, <1>13, <1>14, <1>15, <1>16, <1>17,
     <1>18
     DEF Next, RunLoop, Stopped

LEMMA LineageInvariant == Spec => [](IInv /\ LineageInv)
<1>1. WholeInv => ErrInv
  BY DEF WholeInv
<1>2. IInv /\ IInv' /\ ErrInv /\ LineageInv /\ [Next]_vars => LineageInv'
  BY LineageStep
<1> QED BY WholeInvariant, LineageInit, <1>1, <1>2, PTL DEF Spec

(* The checkpoints of a thread are one lineage, whatever the errors, the   *)
(* Resumes and the history limit (runner.go:74, checkpoint.go:58-62).      *)
THEOREM CheckpointsAreOneLineage == Spec => []OneLineage
<1>1. LineageInv => OneLineage
  BY DEF LineageInv, Descends, AheadInv, OneLineage
<1> QED BY LineageInvariant, <1>1, PTL

-----------------------------------------------------------------------------
(* How much a crash can cost.                                              *)

(* Of any k steps in a row one is a multiple of k.                         *)
LEMMA DueWithinInterval ==
  ASSUME NEW s \in Nat, NEW k \in Nat \ {0}
  PROVE  \E t \in Nat : s < t /\ t <= s + k /\ t % k = 0
<1> DEFINE q == s \div k
<1>1. s = k * q + (s % k) /\ s % k \in 0..(k - 1) /\ q \in Nat
  BY SMTT(30)
<1> HIDE DEF q
<1> DEFINE t == k * (q + 1)
<1>2. t \in Nat /\ t % k = 0
  BY <1>1, SMTT(30)
<1>3. t = k * q + k
  BY <1>1, SMTT(30)
<1>4. s < t /\ t <= s + k
  <2>1. k * q \in Nat
    BY <1>1, SMTT(30)
  <2> HIDE DEF t
  <2> QED BY <1>1, <1>3, <2>1, SMTT(30)
<1> QED BY <1>2, <1>4

(* A crash or an error costs at most checkpointInterval super-steps, the   *)
(* one under way included, and less than that many finished ones unless    *)
(* the save that is due is under way or has failed (runner.go:73-81).      *)
THEOREM CrashCostsAtMostInterval == Spec => []RedoBound
<1>1. IInv /\ LineageInv => RedoBound
  <2> SUFFICES ASSUME IInv, LineageInv, runner.checkpointer
               PROVE  /\ step - SavedStep <= runner.checkpointInterval
                      /\ ~Saving =>
                           LastStep(state) - SavedStep
                             < runner.checkpointInterval
    BY DEF RedoBound, SavedStep, Saving
  <2>1. /\ LastStep(state) \in Nat /\ SavedStep \in Nat /\ step \in Nat
        /\ runner.checkpointInterval \in Nat \ {0}
    <3>1. TypeOK /\ Descends(history)
      BY DEF IInv, TypeInv, LineageInv
    <3>2. SavedStep \in Nat
      BY <3>1, LatestDescends DEF SavedStep
    <3>3. runner.checkpointInterval \in Nat \ {0}
      BY <3>1, RunnerFacts DEF TypeOK, Runner
    <3> QED BY <3>1, <3>2, <3>3, LastStepType DEF TypeOK
  <2>2. PICK t \in Nat : /\ SavedStep < t /\ t % runner.checkpointInterval = 0
                         /\ t <= SavedStep + runner.checkpointInterval
    BY <2>1, DueWithinInterval
  (* The loop is at most one step beyond the state, none while saving.     *)
  <2>3. step <= LastStep(state) + 1 /\ (Saving => LastStep(state) = step)
    BY <2>1 DEF LineageInv, PositionInv, Saving, IInv, TypeInv, TypeOK, PC
  <2>4. CASE ~Saving
    <3>1. ~(t <= LastStep(state))
      BY <2>2, <2>4 DEF LineageInv, DueInv
    <3> QED BY <2>1, <2>2, <2>3, <3>1
  <2>5. CASE Saving
    <3>1. t <= step => t = step
      BY <2>2, <2>3, <2>5 DEF LineageInv, DueInv
    <3> QED BY <2>1, <2>2, <2>3, <2>5, <3>1
  <2> QED BY <2>4, <2>5
<1> QED BY LineageInvariant, <1>1, PTL

-----------------------------------------------------------------------------
(* Where the next frontier comes from.                                     *)

LEMMA RoutedFollows ==
  ASSUME NEW f \in SUBSET NodeID, NEW g \in NextFrontiers(runner, f)
  PROVE  /\ Branches(f) \subseteq g
         /\ f \cap (runner.conds \cup runner.fans) = {} => g = Branches(f)
<1>1. Branches(f) = Follow(runner, f)
  BY DEF Branches, Follow, Static, Ends
<1>2. PICK S \in Routed(runner, f) : g = Follow(runner, f) \cup S
  BY DEF NextFrontiers
<1>3. ASSUME f \cap (runner.conds \cup runner.fans) = {} PROVE S = {}
  <2>1. Conds(runner, f) = {} /\ Fans(runner, f) = {}
    BY <1>3 DEF Conds, Fans
  <2>2. S \subseteq NodeID /\ Cardinality(S) <= Cardinality({})
    BY <2>1 DEF Routed
  <2>3. IsFiniteSet(S) /\ Cardinality({}) = 0 /\ Cardinality(S) \in Nat
    BY <2>2, NodeIDAssumption, FS_Subset, FS_EmptySet, FS_CardinalityType
    DEF NodeIDAssumption
  <2>4. Cardinality(S) = 0
    BY <2>2, <2>3
  <2> QED BY <2>3, <2>4, FS_EmptySet
<1> QED BY <1>1, <1>2, <1>3

(* A checkpoint names the node of its state's last update.                 *)
NamesLastNode(cp) == cp.state # <<>> /\ cp.node = Last(cp.state).node

FollowInv ==
  /\ FollowsBranchesInOneCall
  /\ \A k \in DOMAIN history : NamesLastNode(history[k])

LEMMA LastNodeIsOfLastStep ==
  ASSUME NEW s \in State, s # <<>>
  PROVE  /\ Last(s).node \in NodesAt(s, LastStep(s))
         /\ NodesAt(s, LastStep(s)) \subseteq NodeID
<1>1. Len(s) \in DOMAIN s /\ Last(s) = s[Len(s)]
  BY LastOfSeq DEF State
<1>2. \A i \in DOMAIN s : s[i].node \in NodeID
  <2>1. \A i \in DOMAIN s : s[i] \in Update
    BY DEF State
  <2> QED BY <2>1 DEF Update
<1> QED BY <1>1, <1>2 DEF NodesAt, LastStep

LEMMA SavedNamesLastNode ==
  ASSUME IInv, FollowInv, pc = "save", NEW k \in DOMAIN Saved
  PROVE  NamesLastNode(Saved[k])
<1> DEFINE cp == [node |-> LastReduced, step |-> step, state |-> state]
           h == Append(history, cp)
<1>1. /\ state \in Seq(Update) /\ state # <<>> /\ step \in Nat
      /\ history \in Seq(Checkpoint) /\ runner.maxHistory \in Nat
  BY RunnerFacts DEF IInv, TypeInv, TypeOK, State
<1>2. cp \in Checkpoint
  <2>1. Last(state) \in Update
    BY <1>1, LastOfSeq
  <2>2. LastReduced \in NodeID
    BY <2>1 DEF LastReduced, Update
  <2> QED BY <1>1, <2>2 DEF Checkpoint, State
<1>3. NamesLastNode(cp)
  BY <1>1 DEF NamesLastNode, LastReduced
<1> HIDE DEF cp
<1>4. /\ h \in Seq(Checkpoint) /\ Len(h) = Len(history) + 1
      /\ \A i \in 1..Len(history) : h[i] = history[i]
      /\ h[Len(history) + 1] = cp
  BY <1>1, <1>2, AppendProperties
<1>5. /\ Len(history) \in Nat /\ DOMAIN history = 1..Len(history)
      /\ DOMAIN h = 1..Len(h)
  BY <1>1, <1>4, LenProperties
<1> HIDE DEF h
<1>6. \A i \in DOMAIN h : NamesLastNode(h[i])
  BY <1>3, <1>4, <1>5 DEF FollowInv
<1>7. Saved = Retain(h)
  BY DEF Saved, h, cp
<1> QED BY <1>1, <1>4, <1>6, <1>7, RetainKeeps

LEMMA FollowStep ==
  ASSUME IInv, WholeInv, LineageInv, FollowInv, [Next]_vars
  PROVE  FollowInv'
<1>1. /\ state \in State /\ frontier \in SUBSET NodeID
      /\ history \in Seq(Checkpoint) /\ runner' = runner
  BY RunnerFixed DEF IInv, TypeInv, TypeOK
<1>2. FollowsBranchesInOneCall /\ \A k \in DOMAIN history : NamesLastNode(history[k])
  BY DEF FollowInv
<1> USE DEF FollowInv
<1>3. ASSUME UNCHANGED <<runner, pc, calls, frontier, state, err, history>>
      PROVE  FollowInv'
  BY <1>2, <1>3 DEF FollowsBranchesInOneCall, FollowsBranches, NodesAt, Branches,
     LastStep
(* Where the property says nothing: in a super-step and after most errors. *)
<1>4. ASSUME pc' # "loop", pc' = "returned" => err'.kind \notin {"none", "limit"}
      PROVE  FollowsBranchesInOneCall'
  BY <1>4 DEF FollowsBranchesInOneCall, FollowsBranches
<1>5. CASE UNCHANGED vars \/ Cancel
  BY <1>3, <1>5 DEF vars, superStepVars, Cancel
<1>6. ASSUME NEW n \in NodeID, Launch(n) \/ Goroutine(n) PROVE FollowInv'
  BY <1>3, <1>6, GoroutineFrame
<1>7. CASE Complete \/ HitLimit
  <2>1. /\ pc = "loop" /\ UNCHANGED <<runner, calls, frontier, state, history>>
    BY <1>7 DEF Complete, HitLimit
  <2> QED BY <1>2, <2>1 DEF FollowsBranchesInOneCall, FollowsBranches, NodesAt,
          Branches, LastStep
<1>8. CASE BeginSuperStep
  BY <1>2, <1>4, <1>8 DEF BeginSuperStep
<1>9. CASE Wait
  <2>1. history' = history /\ pc' \in {"returned", "fanin"}
    BY <1>9 DEF Wait, Waited, Return
  <2>2. CASE pc' = "returned"
    <3>1. err'.kind \in NodeErrKind
      BY <1>9, <2>2 DEF Wait, Waited, Return, WholeInv, ErrInv
    <3> QED BY <1>2, <1>4, <2>1, <2>2, <3>1 DEF NodeErrKind
  <2>3. CASE pc' = "fanin"
    BY <1>2, <1>4, <2>1, <2>3
  <2> QED BY <2>1, <2>2, <2>3
<1>10. ASSUME NEW n \in NodeID, Reduce(n) PROVE FollowInv'
  BY <1>2, <1>4, <1>10 DEF Reduce
<1>11. ASSUME NEW n \in NodeID, NEW kind \in {"handler", "reducer"},
              ReduceFails(n, kind)
       PROVE  FollowInv'
  BY <1>2, <1>4, <1>11 DEF ReduceFails, Return
<1>12. CASE Save
  BY <1>2, <1>4, <1>12, SavedNamesLastNode DEF Save
<1>13. CASE SaveFails
  BY <1>2, <1>4, <1>13, SavedNamesLastNode DEF SaveFails, Return
<1>14. CASE RouteFails
  BY <1>2, <1>4, <1>14 DEF RouteFails, Return
<1>15. ASSUME NEW f \in SUBSET NodeID, frontier' \in NextFrontiers(runner, f),
              state' # <<>> => NodesAt(state', LastStep(state')) = f
       PROVE  FollowsBranches'
  BY <1>1, <1>15, RoutedFollows DEF FollowsBranches, Branches
<1>16. CASE Route
  <2>1. /\ pc = "route" /\ frontier' \in NextFrontiers(runner, frontier)
        /\ UNCHANGED <<runner, state, history>>
    BY <1>16 DEF Route
  <2>2. NodesAt(state, LastStep(state)) = frontier
    BY <2>1 DEF WholeInv, WholeSuperSteps, LineageInv, PositionInv
  <2> QED BY <1>1, <1>2, <1>15, <2>1, <2>2 DEF FollowsBranchesInOneCall
<1>17. CASE ResumeRuns
  <2>1. /\ calls' = calls + 1 /\ history # <<>> /\ state' = Latest.state
        /\ frontier' \in NextFrontiers(runner, {Latest.node})
        /\ UNCHANGED <<runner, history>>
    BY <1>17 DEF ResumeRuns, ResumeCall
  <2>2. calls' # 1
    BY <2>1 DEF IInv, TypeInv, TypeOK
  <2>3. /\ Latest \in Checkpoint /\ NamesLastNode(Latest)
    BY <1>1, <1>2, <2>1, LastOfSeq DEF Latest
  <2> DEFINE last == NodesAt(state', LastStep(state'))
  <2>4. Latest.node \in last /\ last \subseteq NodeID /\ Latest.node \in NodeID
    BY <2>1, <2>3, LastNodeIsOfLastStep DEF NamesLastNode, Checkpoint
  <2>5. ASSUME Cardinality(last) = 1 PROVE FollowsBranches'
    <3> HIDE DEF last
    <3>1. IsFiniteSet(last)
      BY <2>4, NodeIDAssumption, FS_Subset DEF NodeIDAssumption
    <3>2. last = {Latest.node}
      BY <2>4, <2>5, <3>1, FS_Singleton
    <3> QED BY <1>15, <2>1, <2>4, <3>2 DEF last
  <2> QED BY <1>2, <2>1, <2>2, <2>5 DEF FollowsBranchesInOneCall
<1>18. CASE ResumeFails
  <2>1. state' = <<>> /\ history' = history
    BY <1>18 DEF ResumeFails, ResumeCall
  <2> QED BY <1>2, <2>1 DEF FollowsBranchesInOneCall, FollowsBranches
<1> QED
  BY <1>5, <1>6, <1>7, <1>8, <1>9, <1>10, <1>11, <1>12, <1>13, <1>14, <1>16,
     <1>17, <1>18 DEF Next, RunLoop, Stopped

(* Every branch of the last super-step is followed, unless a Resume of a   *)
(* checkpoint that names one of its nodes dropped the others               *)
(* (runner.go:191-238, 356).                                               *)
THEOREM BranchesAreFollowed == Spec => []FollowsBranchesInOneCall
<1>1. Init => FollowInv
  <2> SUFFICES ASSUME Init PROVE FollowInv
    OBVIOUS
  <2>1. state = <<>> /\ history = <<>>
    BY DEF Init
  <2> QED BY <2>1 DEF FollowInv, FollowsBranchesInOneCall, FollowsBranches
<1>2. IInv /\ WholeInv /\ LineageInv /\ FollowInv /\ [Next]_vars => FollowInv'
  BY FollowStep
<1>3. FollowInv => FollowsBranchesInOneCall
  BY DEF FollowInv
<1> QED BY WholeInvariant, LineageInvariant, <1>1, <1>2, <1>3, PTL DEF Spec

-----------------------------------------------------------------------------
(* GraphRunner implements GraphRun: whatever the goroutines of a super-    *)
(* step do, the run is a sequence of atomic super-steps.                   *)

(* The refinement mapping, and its values on the places of GraphRunner.    *)
phase == CASE pc \in {"loop", "launch", "fanin"} -> "step" [] OTHER -> pc

LEMMA PhaseIs ==
  /\ pc \in {"loop", "launch", "fanin"} => phase = "step"
  /\ pc \notin {"loop", "launch", "fanin"} => phase = pc
  BY DEF phase

(* The two modules mean the same by what they define alike.                *)
LEMMA SameCardinality == \A S : Run!Cardinality(S) = Cardinality(S)
  BY DEF Run!Cardinality, Cardinality

LEMMA SameNextFrontiers ==
  \A g, f : Run!NextFrontiers(g, f) = NextFrontiers(g, f)
<1> SUFFICES ASSUME NEW g, NEW f
             PROVE  Run!NextFrontiers(g, f) = NextFrontiers(g, f)
  OBVIOUS
<1>1. \A n : (Run!Static(g, n) <=> Static(g, n)) /\ (Run!Ends(g, n) <=> Ends(g, n))
  BY DEF Run!Static, Static, Run!Ends, Ends
<1>2. Run!Conds(g, f) = Conds(g, f) /\ Run!Fans(g, f) = Fans(g, f)
  BY <1>1 DEF Run!Conds, Conds, Run!Fans, Fans
<1>3. Run!Follow(g, f) = Follow(g, f)
  <2>1. { m \in f : Run!Static(g, m) } = { m \in f : Static(g, m) }
    BY <1>1
  <2> QED BY <2>1 DEF Run!Follow, Follow
<1>4. Run!Routed(g, f) = Routed(g, f)
  BY <1>2, SameCardinality DEF Run!Routed, Routed
<1> QED BY <1>3, <1>4 DEF Run!NextFrontiers, NextFrontiers

LEMMA SameOnSequences ==
  /\ \A s : Run!Last(s) = Last(s)
  /\ \A s : Run!LastStep(s) = LastStep(s)
  /\ \A s, t : Run!IsPrefix(s, t) <=> IsPrefix(s, t)
  BY DEF Run!Last, Last, Run!LastStep, LastStep, Run!IsPrefix, IsPrefix

-----------------------------------------------------------------------------
(* The fan-in's last turn is a super-step of GraphRun.                     *)

(* A super-step's updates are as many as its frontier has nodes.           *)
LEMMA OnePerNode ==
  ASSUME NEW s \in State, NEW t \in State, NEW k, NEW f, Merging(s, t, k),
         f = { t[i].node : i \in (Len(s) + 1)..Len(t) }
  PROVE  Len(t) = Len(s) + Cardinality(f)
<1> DEFINE D == (Len(s) + 1)..Len(t)
           b == [i \in D |-> t[i].node]
<1>1. /\ Len(s) \in Nat /\ Len(t) \in Nat /\ Len(s) <= Len(t)
      /\ DOMAIN s = 1..Len(s) /\ DOMAIN t = 1..Len(t)
  BY DEF State, Merging
<1>2. D = DOMAIN t \ DOMAIN s /\ D \subseteq Nat
  BY <1>1
<1>3. \A i \in D : t[i].node \in Nat
  <2>1. \A i \in D : t[i] \in Update
    BY <1>2 DEF State
  <2> QED BY <2>1, NodeIDAssumption DEF Update, NodeIDAssumption
<1>4. \A i, j \in D : i < j => t[i].node < t[j].node
  BY <1>2 DEF Merging
<1>5. \A i, j \in D : t[i].node = t[j].node => i = j
  <2> SUFFICES ASSUME NEW i \in D, NEW j \in D, t[i].node = t[j].node
               PROVE  i = j
    OBVIOUS
  <2>1. i \in Nat /\ j \in Nat /\ t[i].node \in Nat
    BY <1>2, <1>3
  <2>2. ~(i < j) /\ ~(j < i)
    BY <1>3, <1>4
  <2> QED BY <2>1, <2>2
<1>6. IsFiniteSet(D) /\ Cardinality(D) = Len(t) - Len(s)
  <2> DEFINE a == Len(s) + 1
             c == Len(t)
  <2>1. a \in Int /\ c \in Int
    BY <1>1
  <2>2. (IF a > c THEN 0 ELSE c - a + 1) = c - a + 1 /\ c - a + 1 = Len(t) - Len(s)
    <3>1. Len(s) \in Nat /\ Len(t) \in Nat /\ Len(s) <= Len(t)
      BY <1>1
    <3> QED BY <3>1
  <2> HIDE DEF a, c
  <2>3. IsFiniteSet(a..c) /\ Cardinality(a..c) = IF a > c THEN 0 ELSE c - a + 1
    BY <2>1, FS_Interval
  <2> QED BY <2>2, <2>3 DEF a, c
<1> HIDE DEF D
<1>7. b \in Bijection(D, f)
  BY <1>5 DEF Bijection, Injection, Surjection, IsInjective, D
<1>8. Cardinality(f) = Cardinality(D)
  BY <1>6, <1>7, FS_Bijection DEF ExistsBijection
<1> QED BY <1>1, <1>6, <1>8

LEMMA LastReduceIsSuperStep ==
  ASSUME IInv, WholeInv, WholeInv', LineageInv, NEW n \in NodeID, Reduce(n),
         pending' = {}
  PROVE  Run!SuperStep
<1>1. /\ pc = "fanin" /\ n \in pending /\ pc' = "save" /\ state' = acc'
      /\ UNCHANGED <<runner, frontier, step, history>>
  BY DEF Reduce, NextToReduce
<1>2. /\ state \in State /\ step \in Nat /\ step >= 1
      /\ step <= runner.recursionLimit /\ runner.recursionLimit \in Nat
      /\ StepsUpTo(state, step - 1) /\ LastStep(state) = step - 1
  BY <1>1, RunnerFacts
  DEF IInv, TypeInv, TypeOK, StepInv, LineageInv, PositionInv
<1>3. state' \in State
  <2>1. UpdateOf(n) \in Update /\ acc \in Seq(Update)
    BY DEF UpdateOf, Update, IInv, TypeInv, TypeOK, State
  <2> QED BY <1>1, <2>1, AppendProperties DEF Reduce, State
<1>4. Merging(state, state', step)
  BY <1>1, ReduceMerges
<1>5. IsPrefix(state, state')
  BY <1>2, <1>3, <1>4, MergingIsPrefix
<1> DEFINE D == (Len(state) + 1)..Len(state')
<1>6. /\ D = DOMAIN state' \ DOMAIN state /\ D \subseteq Nat
      /\ Len(state') \in Nat
  BY <1>2, <1>3 DEF State
<1>7. \A i \in DOMAIN state' : state'[i].step = step <=> i \in D
  <2> TAKE i \in DOMAIN state'
  <2>1. CASE i \in D
    BY <1>4, <1>6, <2>1 DEF Merging
  <2>2. CASE i \in DOMAIN state
    <3>1. state'[i] = state[i] /\ state[i] \in Update
      BY <1>2, <1>4, <2>2 DEF Merging, State
    <3>2. state'[i].step <= step - 1 /\ state'[i].step \in Nat
      BY <1>2, <2>2, <3>1 DEF StepsUpTo, Update
    <3> QED BY <1>2, <1>6, <2>2, <3>2
  <2> QED BY <1>6, <2>1, <2>2
<1>8. NodesAt(state', step) = frontier
  BY <1>1 DEF WholeInv, WholeSuperSteps
<1>9. D \subseteq DOMAIN state'
  BY <1>6
<1>10. frontier = { state'[i].node : i \in D }
  <2> HIDE DEF D
  <2> QED BY <1>7, <1>8, <1>9 DEF NodesAt
<1>11. Len(state') = Len(state) + Cardinality(frontier)
  BY <1>2, <1>3, <1>4, <1>10, OnePerNode
<1>12. ASSUME NEW i \in D
       PROVE  /\ state'[i].step = LastStep(state) + 1
              /\ state'[i].read = Len(state)
              /\ \A j \in (i + 1)..Len(state') : state'[i].node < state'[j].node
  <2>1. state'[i].step = step /\ state'[i].read = Len(state)
    BY <1>4, <1>6 DEF Merging
  <2>2. \A j \in (i + 1)..Len(state') : j \in D /\ i < j
    BY <1>2, <1>6 DEF State
  <2>3. \A j \in D : i < j => state'[i].node < state'[j].node
    BY <1>4, <1>6 DEF Merging
  <2> QED BY <1>2, <2>1, <2>2, <2>3
<1>13. Run!IsSuperStep(state, state', frontier)
  BY <1>5, <1>10, <1>11, <1>12, SameOnSequences, SameCardinality
  DEF Run!IsSuperStep
<1>14. frontier # {}
  BY <1>1 DEF WholeInv, FanInInv
<1>15. phase = "step" /\ phase' = "save"
  BY <1>1 DEF phase
<1> QED BY <1>1, <1>2, <1>13, <1>14, <1>15, SameOnSequences
        DEF Run!SuperStep, phase

-----------------------------------------------------------------------------
(* A checkpoint is due when GraphRun says, and leaves what it keeps.       *)
LEMMA KeptIsRetained ==
  ASSUME NEW h \in Seq(Checkpoint), runner.maxHistory \in Nat
  PROVE  Run!Kept(h) = Retain(h)
<1> DEFINE m == runner.maxHistory
<1>1. Len(h) \in Nat
  BY LenProperties
<1>2. CASE m > 0 /\ Len(h) > m
  <2> DEFINE g == [i \in 1..m |-> h[Len(h) - m + i]]
             u == SubSeq(h, Len(h) - m + 1, Len(h))
  <2>1. Run!Kept(h) = g
    <3>1. ~(m = 0 \/ Len(h) <= m)
      BY <1>1, <1>2
    <3> QED BY <3>1 DEF Run!Kept
  <2>4. Retain(h) = u
    BY <1>2 DEF Retain
  <2>2. /\ u \in Seq(Checkpoint) /\ Len(u) = m
        /\ \A i \in 1..m : u[i] = h[Len(h) - m + i]
    BY <1>2, SubSeqProperties
  <2>3. u = [i \in 1..m |-> u[i]]
    <3> HIDE DEF u
    <3> QED BY <2>2, LenProperties
  <2> QED BY <2>1, <2>2, <2>3, <2>4
<1>3. CASE ~(m > 0 /\ Len(h) > m)
  BY <1>1, <1>3 DEF Run!Kept, Retain
<1> QED BY <1>2, <1>3

LEMMA SavesAlike ==
  ASSUME IInv, LineageInv, pc = "save"
  PROVE  Run!SavedHistory = Saved /\ Run!SaveDue = SaveDue
<1>1. LastStep(state) = step /\ runner.maxHistory \in Nat
  BY RunnerFacts DEF LineageInv, PositionInv, IInv, TypeInv, TypeOK
<1> DEFINE cp == [node |-> LastReduced, step |-> step, state |-> state]
<1>2. Append(history, cp) \in Seq(Checkpoint)
  <2>1. state \in Seq(Update) /\ state # <<>> /\ step \in Nat /\ history \in Seq(Checkpoint)
    BY DEF IInv, TypeInv, TypeOK, State
  <2>2. Last(state) \in Update
    BY <2>1, LastOfSeq
  <2>3. LastReduced \in NodeID
    BY <2>2 DEF LastReduced, Update
  <2>4. cp \in Checkpoint
    BY <2>1, <2>3 DEF Checkpoint, State
  <2> HIDE DEF cp
  <2> QED BY <2>1, <2>4, AppendProperties
<1>3. Run!SavedHistory = Run!Kept(Append(history, cp))
  BY <1>1, SameOnSequences DEF Run!SavedHistory, LastReduced
<1> QED BY <1>1, <1>2, <1>3, KeptIsRetained, SameOnSequences
        DEF Run!SaveDue, SaveDue, Saved

-----------------------------------------------------------------------------
LEMMA RefinesInit == Init => Run!Init
  BY DEF Init, Run!Init

LEMMA RefinesStep ==
  ASSUME IInv, WholeInv, WholeInv', LineageInv, [Next]_vars
  PROVE  [Run!Next]_Run!vars
<1> DEFINE Stutters == UNCHANGED <<runner, phase, frontier, state, history>>
<1>1. Stutters => [Run!Next]_Run!vars
  BY DEF Run!vars, phase
<1>2. ASSUME UNCHANGED <<runner, pc, frontier, state, history>>
      PROVE  Stutters
  BY <1>2 DEF phase
<1>3. ASSUME UNCHANGED <<runner, frontier, state, history>>,
             pc \in {"loop", "launch", "fanin"}, pc' \in {"loop", "launch", "fanin"}
      PROVE  Stutters
  BY <1>3 DEF phase
<1>4. ASSUME pc \in PC \ {"returned"}, pc' = "returned",
             UNCHANGED <<runner, frontier, state>>,
             \/ history' = history
             \/ pc = "save" /\ Run!SaveDue /\ history' = Run!SavedHistory
      PROVE  Run!Next
  <2>1. phase # "returned" /\ phase' = "returned"
    BY <1>4 DEF phase, PC
  <2>2. pc = "save" => phase = "save"
    BY DEF phase
  <2> QED BY <1>4, <2>1, <2>2 DEF Run!Next, Run!Returns, phase
<1>5. pc \in PC
  BY DEF IInv, TypeInv, TypeOK
<1>6. CASE UNCHANGED vars \/ Cancel
  BY <1>1, <1>2, <1>6 DEF vars, superStepVars, Cancel
<1>7. ASSUME NEW n \in NodeID, Launch(n) \/ Goroutine(n)
      PROVE  [Run!Next]_Run!vars
  BY <1>1, <1>2, <1>7, GoroutineFrame
<1>8. CASE BeginSuperStep
  BY <1>1, <1>3, <1>8 DEF BeginSuperStep
<1>9. CASE Complete \/ HitLimit \/ RouteFails
  BY <1>4, <1>5, <1>9 DEF Complete, HitLimit, RouteFails, Return
<1>10. CASE Wait
  BY <1>1, <1>3, <1>4, <1>5, <1>10 DEF Wait, Waited, Return
<1>11. ASSUME NEW n \in NodeID, Reduce(n) PROVE [Run!Next]_Run!vars
  <2>1. CASE pending' = {}
    BY <1>11, <2>1, LastReduceIsSuperStep DEF Run!Next
  <2>2. CASE pending' # {}
    BY <1>1, <1>3, <1>11, <2>2 DEF Reduce
  <2> QED BY <2>1, <2>2
<1>12. ASSUME NEW n \in NodeID, NEW kind \in {"handler", "reducer"},
              ReduceFails(n, kind)
       PROVE  Run!Next
  BY <1>4, <1>5, <1>12 DEF ReduceFails, Return
<1>13. CASE Save
  <2>1. pc = "save" /\ pc' = "route" /\ UNCHANGED <<runner, frontier, state>>
    BY <1>13 DEF Save
  <2>2. phase = "save" /\ phase' = "route"
    BY <2>1 DEF phase
  <2> QED BY <1>13, <2>1, <2>2, SavesAlike
          DEF Save, Run!Next, Run!Checkpointed, phase
<1>14. CASE SaveFails
  BY <1>4, <1>5, <1>14, SavesAlike DEF SaveFails, Return
<1>15. CASE Route
  <2>1. pc = "route" /\ pc' = "loop" /\ UNCHANGED <<runner, state, history>>
    BY <1>15 DEF Route
  <2>2. phase = "route" /\ phase' = "step"
    BY <2>1 DEF phase
  <2> QED BY <1>15, <2>1, <2>2, SameNextFrontiers
          DEF Route, Run!Next, Run!Routing, phase
<1>16. CASE ResumeRuns
  <2>1. /\ pc = "returned" /\ history # <<>> /\ state' = Latest.state
        /\ frontier' \in NextFrontiers(runner, {Latest.node})
        /\ pc' = IF frontier' = {} THEN "returned" ELSE "loop"
        /\ UNCHANGED <<runner, history>>
    BY <1>16 DEF ResumeRuns, ResumeCall
  <2>2. /\ phase = "returned"
        /\ phase' = IF frontier' = {} THEN "returned" ELSE "step"
    BY <2>1 DEF phase
  <2> QED BY <2>1, <2>2, SameNextFrontiers, SameOnSequences
          DEF Run!Next, Run!Resumes, phase, Latest
<1>17. CASE ResumeFails
  <2>1. /\ pc = "returned" /\ pc' = "returned" /\ state' = <<>>
        /\ frontier' = {} /\ UNCHANGED <<runner, history>>
    BY <1>17 DEF ResumeFails, ResumeCall, Return
  <2>2. phase = "returned" /\ phase' = "returned"
    BY <2>1 DEF phase
  <2> QED BY <2>1, <2>2 DEF Run!Next, Run!ResumeRefused, phase
<1> QED
  BY <1>6, <1>7, <1>8, <1>9, <1>10, <1>11, <1>12, <1>13, <1>14, <1>15, <1>16, <1>17
     DEF Next, RunLoop, Stopped

(* The run is a sequence of atomic super-steps: GraphRunner implements     *)
(* GraphRun (runner.go:51-165).                                            *)
THEOREM RunsAreAtomicSuperSteps == Spec => AtomicSuperSteps
<1>1. /\ IInv /\ LineageInv /\ WholeInv /\ WholeInv' /\ [Next]_vars
      => [Run!Next]_Run!vars
  BY RefinesStep
<1> QED BY RefinesInit, LineageInvariant, WholeInvariant, <1>1, PTL
        DEF Spec, AtomicSuperSteps, Run!Spec
=============================================================================
