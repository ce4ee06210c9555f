-------------------------- MODULE GraphCalls_proofs ---------------------------
(***************************************************************************)
(* Proofs about GraphCalls: its type invariant, that concurrent calls lose *)
(* none of each other's checkpoints, and what a stream's consumer is       *)
(* promised: every state in order, saved before it is shown when it is     *)
(* due, and the verdict at the end.                                        *)
(***************************************************************************)
EXTENDS GraphCalls, DataLemmas

-----------------------------------------------------------------------------
(* The inductive invariant, in the parts the properties need.              *)

OneStep == [step : Nat, nodes : SUBSET NodeID, by : Caller]
Checkpoint == [node : NodeID, step : Nat, state : SuperSteps]

TypeInv ==
  /\ TypeOK
  /\ threads \in [Thread -> Seq(Checkpoint)]
  /\ saved \in [Thread -> Seq(Checkpoint)]
  /\ hist \in [Caller -> Seq(Checkpoint)]

(* The mutex is held by the one call that is between reading its thread's  *)
(* history and storing it.                                                 *)
LockInv == \A c \in Caller : pc[c] = "saving" <=> c \in mu

(* A checkpoint is only taken of a state whose last super-step ran nodes   *)
(* and is due, and until it is stored nothing overtakes what was read.     *)
SaveInv ==
  \A c \in Caller :
    /\ pc[c] \in {"save", "saving"} =>
         /\ state[c] # <<>>
         /\ Last(state[c]).nodes # {}
    /\ pc[c] = "saving" =>
         hist[c] = Retain(Append(threads[ThreadOf(c)], CheckpointOf(c)),
                          runner.maxHistory)

(* h is the newest m of s, or all of s if m = 0.                           *)
Newest(h, s, m) ==
  /\ Len(h) <= Len(s)
  /\ IF m = 0 \/ Len(s) <= m THEN Len(h) = Len(s) ELSE Len(h) = m
  /\ \A i \in DOMAIN h : h[i] = s[(Len(s) - Len(h)) + i]

NewestInv ==
  \A t \in Thread : Newest(threads[t], saved[t], runner.maxHistory)

(* A call that is no Stream keeps clear of the channels.                   *)
PlainInv(c) ==
  /\ pc[c] \notin {"offer", "sendErr", "closeErrs", "closeStates"}
  /\ received[c] = <<>>
  /\ reader[c] = "reading"
  /\ open[c] = {"states", "errs"}

(* A stream's state is its own steps 1, 2, ..., and what its consumer has  *)
(* received are prefixes of it, one longer than the other.                 *)
ReceivedInv(c) ==
  /\ \A k \in DOMAIN state[c] : state[c][k].step = k /\ state[c][k].by = c
  /\ Len(received[c]) <= Len(state[c])
  /\ \A i \in DOMAIN received[c] :
       /\ Len(received[c][i]) = i
       /\ \A k \in 1..i : received[c][i][k] = state[c][k]

Withheld == {"ctx", "save", "panic"}

(* The consumer has the state itself, unless that is still being saved or  *)
(* offered, or was withheld.                                               *)
PaceInv(c) ==
  /\ pc[c] \in {"idle", "loop", "route"} => Len(received[c]) = Len(state[c])
  /\ pc[c] \in {"save", "saving", "offer"} =>
       Len(received[c]) = Len(state[c]) - 1
  /\ pc[c] \in {"sendErr", "closeErrs", "closeStates", "returned"} =>
       \/ Len(received[c]) = Len(state[c])
       \/ err[c] \in Withheld /\ Len(received[c]) = Len(state[c]) - 1

(* The channels close in order, errs with the error still to be read.      *)
ChannelInv(c) ==
  /\ "states" \in open[c] <=> pc[c] # "returned"
  /\ "errs" \in open[c] <=> pc[c] \notin {"closeStates", "returned"}
  /\ reader[c] \in {"atErrs", "done"} => pc[c] = "returned"
  /\ pc[c] \notin {"closeErrs", "closeStates", "returned"} => errs[c] = <<>>
  /\ pc[c] = "sendErr" => err[c] # "none"
  /\ pc[c] \in {"closeErrs", "closeStates", "returned"} /\ reader[c] # "done"
       => errs[c] = IF err[c] = "none" THEN <<>> ELSE <<err[c]>>
  /\ reader[c] = "done" => verdict[c] = err[c]

(* A due state is saved when it is offered, and stays saved.               *)
IsSaved(t, s) == \E k \in DOMAIN saved[t] : saved[t][k].state = s

OfferInv(c) ==
  /\ pc[c] = "offer" /\ SaveDue(LastStep(state[c])) =>
       IsSaved(ThreadOf(c), state[c])
  /\ \A i \in DOMAIN received[c] :
       SaveDue(i) => IsSaved(ThreadOf(c), received[c][i])

StreamInv ==
  \A c \in Caller :
    IF Streams(c)
    THEN ReceivedInv(c) /\ PaceInv(c) /\ ChannelInv(c) /\ OfferInv(c)
    ELSE PlainInv(c)

IInv == TypeInv /\ LockInv /\ SaveInv /\ NewestInv /\ StreamInv

-----------------------------------------------------------------------------
(* Lemmas about the operators.                                             *)

LEMMA CallFacts ==
  ASSUME TypeOK
  PROVE  /\ runner \in Runner /\ runner \in Runners
         /\ plan \in Plan /\ plan \in Plans
         /\ \A c \in Caller : ThreadOf(c) \in Thread
         /\ runner.maxHistory \in Nat /\ runner.entry \in NodeID
  BY CallsAssumption DEF TypeOK, Plan, ThreadOf, Runner

LEMMA NextFrontiersType ==
  ASSUME NEW r \in Runner, NEW f \in SUBSET NodeID,
         NEW g \in NextFrontiers(r, f)
  PROVE  g \in SUBSET NodeID
  BY DEF NextFrontiers, Follow, Routed, Runner

LEMMA LastStepType ==
  ASSUME NEW s \in SuperSteps
  PROVE  LastStep(s) \in Nat /\ (s # <<>> => Last(s) \in OneStep)
<1>1. s # <<>> => Last(s) \in OneStep
  BY LastOfSeq DEF SuperSteps, OneStep
<1> QED BY <1>1 DEF LastStep, OneStep

(* What a super-step of c appends to its state.                            *)
StepOf(s, f, c) == [step |-> LastStep(s) + 1, nodes |-> f, by |-> c]

LEMMA AppendStep ==
  ASSUME NEW s \in SuperSteps, NEW f \in SUBSET NodeID, NEW c \in Caller
  PROVE  /\ Append(s, StepOf(s, f, c)) \in SuperSteps
         /\ Append(s, StepOf(s, f, c)) # <<>>
         /\ Last(Append(s, StepOf(s, f, c))) = StepOf(s, f, c)
         /\ Len(Append(s, StepOf(s, f, c))) = Len(s) + 1
         /\ \A k \in DOMAIN s : Append(s, StepOf(s, f, c))[k] = s[k]
         /\ Append(s, StepOf(s, f, c))[Len(s) + 1] = StepOf(s, f, c)
<1>1. StepOf(s, f, c) \in OneStep
  BY LastStepType DEF OneStep, StepOf
<1>2. s \in Seq(OneStep) /\ SuperSteps = Seq(OneStep)
  BY DEF SuperSteps, OneStep
<1> QED BY <1>1, <1>2, AppendTypes

(* A checkpoint names one of the nodes of the last super-step.             *)
LEMMA CheckpointType ==
  ASSUME TypeOK, NEW c \in Caller, state[c] # <<>>, Last(state[c]).nodes # {}
  PROVE  CheckpointOf(c) \in Checkpoint /\ CheckpointOf(c).state = state[c]
<1>1. state[c] \in SuperSteps /\ LastStep(state[c]) \in Nat
  BY LastStepType DEF TypeOK
<1>2. Last(state[c]).nodes \in SUBSET NodeID
  BY <1>1, LastStepType DEF OneStep
<1>3. Max(Last(state[c]).nodes) \in NodeID
  <2>1. Last(state[c]).nodes \in SUBSET Nat /\ IsFiniteSet(Last(state[c]).nodes)
    BY <1>2, NodeIDAssumption, FS_Subset
  <2> QED BY <1>2, <2>1, MaxOfFinite
<1> QED BY <1>1, <1>3 DEF CheckpointOf, Checkpoint

LEMMA LatestType ==
  ASSUME TypeInv, NEW t \in Thread, threads[t] # <<>>
  PROVE  /\ LatestOf(t).state \in SuperSteps
         /\ {LatestOf(t).node} \in SUBSET NodeID
<1>1. LatestOf(t) \in Checkpoint
  BY LastOfSeq DEF TypeInv, LatestOf
<1> QED BY <1>1 DEF Checkpoint

(* What Retain keeps is the newest of what it is given.                    *)
LEMMA RetainNewest ==
  ASSUME NEW S, NEW h \in Seq(S), NEW m \in Nat, h # <<>>
  PROVE  /\ Retain(h, m) \in Seq(S) /\ Retain(h, m) # <<>>
         /\ Last(Retain(h, m)) = Last(h)
         /\ Newest(Retain(h, m), h, m)
<1>1. Len(h) \in Nat \ {0}
  BY EmptySeq
<1>0. DOMAIN h = 1..Len(h) /\ \A i \in 1..Len(h) : h[i] \in S
  BY LenProperties, ElementOfSeq
<1>2. CASE ~(m > 0 /\ Len(h) > m)
  <2>1. Retain(h, m) = h
    BY <1>2 DEF Retain
  <2>2. \A i \in DOMAIN h : (Len(h) - Len(h)) + i = i
    BY <1>0, <1>1
  <2>3. Newest(h, h, m)
    <3>1. Len(h) <= Len(h) /\ (m # 0 /\ ~(Len(h) <= m) => Len(h) = m)
      BY <1>1, <1>2
    <3>2. \A i \in DOMAIN h : h[i] = h[(Len(h) - Len(h)) + i]
      BY <2>2
    <3> QED BY <3>1, <3>2 DEF Newest
  <2> QED BY <2>1, <2>3
<1>3. CASE m > 0 /\ Len(h) > m
  <2> DEFINE g == Retain(h, m)
  <2>1. g = SubSeq(h, Len(h) - m + 1, Len(h))
    BY <1>3 DEF Retain
  <2>2. /\ SubSeq(h, Len(h) - m + 1, Len(h)) \in Seq(S)
        /\ Len(g) = m
        /\ \A i \in 1..m : g[i] = h[(Len(h) - m) + i]
    BY <1>3, <2>1, SubSeqProperties
  <2>3. g \in Seq(S)
    BY <2>1, <2>2
  <2>4. DOMAIN g = 1..m
    BY <2>2, <2>3
  <2> HIDE DEF g
  <2>5. Newest(g, h, m)
    <3>1. Len(g) <= Len(h) /\ ~(m = 0 \/ Len(h) <= m) /\ Len(g) = m
      BY <1>1, <1>3, <2>2
    <3>2. \A i \in DOMAIN g : g[i] = h[(Len(h) - Len(g)) + i]
      BY <2>2, <2>4
    <3> QED BY <3>1, <3>2 DEF Newest
  <2>6. g # <<>> /\ Last(g) = Last(h)
    <3>1. m \in 1..m /\ (Len(h) - m) + m = Len(h)
      BY <1>1, <1>3
    <3>2. g[m] = h[Len(h)]
      BY <2>2, <3>1
    <3> QED BY <1>3, <2>2, <2>3, <3>2, EmptySeq DEF Last
  <2> QED BY <2>3, <2>5, <2>6 DEF g
<1> QED BY <1>2, <1>3

(* Of what was the newest of all before an append, it still is afterwards. *)
LEMMA NewestOfAppend ==
  ASSUME NEW S, NEW h \in Seq(S), NEW s \in Seq(S), NEW x \in S, NEW m \in Nat,
         Newest(h, s, m)
  PROVE  Newest(Retain(Append(h, x), m), Append(s, x), m)
<1> DEFINE h1 == Append(h, x)
           s1 == Append(s, x)
           g  == Retain(h1, m)
<1>1. /\ h1 \in Seq(S) /\ h1 # <<>> /\ Len(h1) = Len(h) + 1
      /\ \A i \in DOMAIN h : h1[i] = h[i]
      /\ h1[Len(h) + 1] = x
  BY AppendTypes
<1>2. /\ s1 \in Seq(S) /\ Len(s1) = Len(s) + 1
      /\ \A i \in DOMAIN s : s1[i] = s[i]
      /\ s1[Len(s) + 1] = x
  BY AppendTypes
<1>3. Len(h) \in Nat /\ Len(s) \in Nat
  BY LenProperties
<1>4. Len(h) \in Nat /\ DOMAIN h = 1..Len(h) /\ DOMAIN s = 1..Len(s)
  BY LenProperties
<1> HIDE DEF h1, s1
<1>5. g \in Seq(S) /\ Newest(g, h1, m)
  BY <1>1, RetainNewest
<1>6. Len(g) \in Nat /\ DOMAIN g = 1..Len(g)
  BY <1>5
<1> HIDE DEF g
<1>7. \A i \in 1..Len(h1) : h1[i] = s1[(Len(s) - Len(h)) + i]
  <2> SUFFICES ASSUME NEW i \in 1..Len(h1)
               PROVE  h1[i] = s1[(Len(s) - Len(h)) + i]
    OBVIOUS
  <2>1. CASE i = Len(h) + 1
    <3>1. (Len(s) - Len(h)) + i = Len(s) + 1
      BY <1>4, <2>1
    <3> QED BY <1>1, <1>2, <2>1, <3>1
  <2>2. CASE i # Len(h) + 1
    <3>1. i \in DOMAIN h
      BY <1>1, <1>4, <2>2
    <3>2. (Len(s) - Len(h)) + i \in DOMAIN s
      <4>1. Len(h) <= Len(s)
        BY DEF Newest
      <4> QED BY <1>4, <3>1, <4>1
    <3>3. h[i] = s[(Len(s) - Len(h)) + i]
      BY <3>1 DEF Newest
    <3> QED BY <1>1, <1>2, <3>1, <3>2, <3>3
  <2> QED BY <2>1, <2>2
<1>8. \A i \in 1..Len(g) : g[i] = s1[(Len(s1) - Len(g)) + i]
  <2> SUFFICES ASSUME NEW i \in 1..Len(g)
               PROVE  g[i] = s1[(Len(s1) - Len(g)) + i]
    OBVIOUS
  <2> DEFINE j == (Len(h1) - Len(g)) + i
  <2>1. g[i] = h1[j]
    BY <1>5, <1>6 DEF Newest
  <2>2. j \in 1..Len(h1)
    <3>1. Len(g) <= Len(h1)
      BY <1>5 DEF Newest
    <3> QED BY <1>1, <1>4, <1>6, <3>1
  <2>3. (Len(s) - Len(h)) + j = (Len(s1) - Len(g)) + i
    BY <1>1, <1>2, <1>4, <1>6
  <2> HIDE DEF j
  <2> QED BY <1>7, <2>1, <2>2, <2>3
<1>9. /\ Len(g) <= Len(s1)
      /\ IF m = 0 \/ Len(s1) <= m THEN Len(g) = Len(s1) ELSE Len(g) = m
  <2>1. Len(g) <= Len(h1)
        /\ IF m = 0 \/ Len(h1) <= m THEN Len(g) = Len(h1) ELSE Len(g) = m
    BY <1>5 DEF Newest
  <2>2. Len(h) <= Len(s)
        /\ IF m = 0 \/ Len(s) <= m THEN Len(h) = Len(s) ELSE Len(h) = m
    BY DEF Newest
  <2>3. Len(g) \in Nat
    BY <1>6
  <2>4. Len(h1) = Len(h) + 1 /\ Len(s1) = Len(s) + 1
    BY <1>1, <1>2
  <2>5. m = 0 \/ Len(s1) <= m => Len(h1) = Len(s1) /\ (m = 0 \/ Len(h1) <= m)
    BY <1>3, <2>2, <2>4
  <2>6. ~(m = 0 \/ Len(s1) <= m) => Len(h) >= m /\ ~(m = 0)
    BY <1>3, <2>2, <2>4
  <2>7. ~(m = 0 \/ Len(s1) <= m) => Len(g) = m
    BY <1>3, <2>1, <2>4, <2>6
  <2> QED BY <1>3, <2>3, <2>1, <2>2, <2>4, <2>5, <2>7
<1>10. Newest(g, s1, m)
  BY <1>6, <1>8, <1>9 DEF Newest
<1> QED BY <1>10 DEF g, h1, s1

-----------------------------------------------------------------------------
(* The steps.                                                              *)

(* A call stores its checkpoint.                                           *)
Stores(c) == pc[c] = "saving" /\ SaveStores(c, ThreadOf(c))

(* A call ends with error e, or "none", and changes nothing else but for   *)
(* the checkpoint a save that fails may have stored.                       *)
Halts(c, e) ==
  /\ Finish(c, e)
  /\ \/ pc[c] = "idle" /\ ~Streams(c)
     \/ pc[c] \in {"loop", "route"}
     \/ pc[c] \in {"save", "saving"} /\ e \in Withheld
     \/ pc[c] = "offer" /\ e = "ctx"
  /\ \/ pc[c] # "saving" /\ UNCHANGED checkpointerVars
     \/ Stores(c)
  /\ UNCHANGED <<runner, plan, ctxDone, frontier, state, channelVars,
                 consumerVars>>

LEMMA HaltsCases ==
  ASSUME NEW c \in Caller,
         \/ ResumeFails(c) \/ Complete(c) \/ HitLimit(c) \/ SuperStepFails(c)
         \/ SaveFails(c) \/ SaveFailsStored(c) \/ RouteFails(c)
         \/ Withdraw(c)
  PROVE  \E e \in ErrKind : Halts(c, e)
<1>1. CASE ResumeFails(c)
  <2>1. \E e \in ErrKind : Finish(c, e)
    BY <1>1 DEF ResumeFails, ErrKind
  <2> QED BY <1>1, <2>1 DEF ResumeFails, Halts, Streams
<1>2. CASE Complete(c)
  BY <1>2 DEF Complete, Halts, ErrKind
<1>3. CASE HitLimit(c)
  BY <1>3 DEF HitLimit, Loops, Halts, ErrKind
<1>4. CASE SuperStepFails(c)
  <2>1. \E e \in ErrKind : Finish(c, e)
    BY <1>4 DEF SuperStepFails, ErrKind
  <2> QED BY <1>4, <2>1 DEF SuperStepFails, Loops, Halts
<1>5. CASE SaveFails(c) \/ SaveFailsStored(c)
  <2>1. PICK e \in {"save", "panic"} : Finish(c, e)
    BY <1>5 DEF SaveFails, SaveFailsStored
  <2>2. e \in ErrKind /\ e \in Withheld
    BY DEF ErrKind, Withheld
  <2> QED BY <1>5, <2>1, <2>2 DEF SaveFails, SaveFailsStored, Stores, Halts
<1>6. CASE RouteFails(c)
  BY <1>6 DEF RouteFails, Halts, ErrKind
<1>7. CASE Withdraw(c)
  BY <1>7 DEF Withdraw, Halts, ErrKind
<1> QED BY <1>1, <1>2, <1>3, <1>4, <1>5, <1>6, <1>7

(* A step of call c, the ways to end taken together.                       *)
CallStep(c) ==
  \/ Begin(c) \/ Resume(c) \/ SuperStep(c) \/ Route(c)
  \/ \E e \in ErrKind : Halts(c, e)
  \/ SaveBegins(c) \/ SaveEnds(c)
  \/ Deliver(c) \/ SendErr(c) \/ CloseErrs(c) \/ CloseStates(c)
  \/ Cancel(c) \/ StopReading(c) \/ SeeStatesEnd(c) \/ ReadVerdict(c)

LEMMA NextCases ==
  [Next]_vars => UNCHANGED vars \/ \E c \in Caller : CallStep(c)
BY HaltsCases DEF Next, Stopped, Running, Consuming, CallStep

(* Where a call goes when it ends.                                         *)
LEMMA FinishEffect ==
  ASSUME TypeOK, NEW c \in Caller, NEW e \in ErrKind, Finish(c, e)
  PROVE  /\ pc' \in [Caller -> PC] /\ err' \in [Caller -> ErrKind]
         /\ err'[c] = e
         /\ ~Streams(c) => pc'[c] = "returned"
         /\ Streams(c) => pc'[c] = IF e = "none" THEN "closeErrs" ELSE "sendErr"
         /\ \A d \in Caller \ {c} : pc'[d] = pc[d] /\ err'[d] = err[d]
<1> DEFINE l == CASE ~Streams(c) -> "returned"
                  [] Streams(c) /\ e = "none" -> "closeErrs"
                  [] OTHER -> "sendErr"
<1>1. /\ pc' = [pc EXCEPT ![c] = l] /\ err' = [err EXCEPT ![c] = e]
      /\ pc \in [Caller -> PC] /\ err \in [Caller -> ErrKind]
  BY DEF Finish, Goto, TypeOK
<1>2. /\ ~Streams(c) => l = "returned"
      /\ Streams(c) => l = IF e = "none" THEN "closeErrs" ELSE "sendErr"
  OBVIOUS
<1>3. l \in PC
  BY <1>2 DEF PC
<1> HIDE DEF l
<1> QED BY <1>1, <1>2, <1>3

LEMMA Fixed ==
  ASSUME [Next]_vars
  PROVE  runner' = runner /\ plan' = plan
<1> USE DEF vars
<1>1. CASE UNCHANGED vars
  BY <1>1
<1>2. ASSUME NEW c \in Caller,
             \/ Begin(c) \/ Resume(c) \/ SuperStep(c) \/ Route(c)
             \/ \E e \in ErrKind : Halts(c, e)
             \/ SaveBegins(c) \/ SaveEnds(c)
      PROVE  runner' = runner /\ plan' = plan
  BY <1>2 DEF Begin, Resume, SuperStep, Route, Halts, SaveBegins, SaveEnds
<1>3. ASSUME NEW c \in Caller,
             \/ Deliver(c) \/ SendErr(c) \/ CloseErrs(c) \/ CloseStates(c)
             \/ Cancel(c) \/ StopReading(c) \/ SeeStatesEnd(c) \/ ReadVerdict(c)
      PROVE  runner' = runner /\ plan' = plan
  BY <1>3 DEF Deliver, SendErr, CloseErrs, CloseStates, Cancel, StopReading,
     SeeStatesEnd, ReadVerdict
<1> QED BY <1>1, <1>2, <1>3, NextCases DEF CallStep

-----------------------------------------------------------------------------
(* Types.                                                                  *)

(* What a call stores in the end: the newest of its thread's history and   *)
(* its own checkpoint, which is the last.                                  *)
LEMMA HistoryToStore ==
  ASSUME TypeInv, NEW c \in Caller, state[c] # <<>>, Last(state[c]).nodes # {}
  PROVE  /\ Retain(Append(threads[ThreadOf(c)], CheckpointOf(c)),
                   runner.maxHistory) \in Seq(Checkpoint)
         /\ Retain(Append(threads[ThreadOf(c)], CheckpointOf(c)),
                   runner.maxHistory) # <<>>
         /\ Last(Retain(Append(threads[ThreadOf(c)], CheckpointOf(c)),
                        runner.maxHistory)) = CheckpointOf(c)
<1>1. CheckpointOf(c) \in Checkpoint
  BY CheckpointType DEF TypeInv
<1>2. threads[ThreadOf(c)] \in Seq(Checkpoint) /\ runner.maxHistory \in Nat
  BY CallFacts DEF TypeInv
<1> DEFINE h == Append(threads[ThreadOf(c)], CheckpointOf(c))
<1>3. h \in Seq(Checkpoint) /\ h # <<>> /\ Last(h) = CheckpointOf(c)
  BY <1>1, <1>2, AppendTypes
<1> HIDE DEF h
<1>4. /\ Retain(h, runner.maxHistory) \in Seq(Checkpoint)
      /\ Retain(h, runner.maxHistory) # <<>>
      /\ Last(Retain(h, runner.maxHistory)) = Last(h)
  BY <1>2, <1>3, RetainNewest
<1> QED BY <1>3, <1>4 DEF h

LEMMA TypeInit == Init => TypeInv
<1> SUFFICES ASSUME Init PROVE TypeInv
  OBVIOUS
<1>1. <<>> \in SuperSteps /\ <<>> \in Seq(SuperSteps) /\ <<>> \in Seq(Checkpoint)
  BY EmptySeq DEF SuperSteps
<1>2. /\ runner \in Runners /\ plan \in Plans /\ mu = {}
      /\ ctxDone \in [Caller -> BOOLEAN]
      /\ pc \in [Caller -> PC] /\ frontier \in [Caller -> SUBSET NodeID]
      /\ err \in [Caller -> ErrKind] /\ verdict \in [Caller -> ErrKind]
      /\ open \in [Caller -> SUBSET {"states", "errs"}]
      /\ reader \in [Caller -> {"reading", "left", "atErrs", "done"}]
  BY DEF Init, CheckpointerInit, PC, ErrKind
<1>3. /\ state \in [Caller -> SuperSteps] /\ received \in [Caller -> Seq(SuperSteps)]
      /\ errs \in [Caller -> {<<>>} \cup { <<e>> : e \in ErrKind }]
      /\ threads \in [Thread -> Seq(Checkpoint)]
      /\ saved \in [Thread -> Seq(Checkpoint)]
      /\ hist \in [Caller -> Seq(Checkpoint)]
  BY <1>1 DEF Init, CheckpointerInit
<1> QED BY <1>2, <1>3 DEF TypeInv, TypeOK

LEMMA StoresType ==
  ASSUME TypeInv, SaveInv, NEW c \in Caller, Stores(c)
  PROVE  /\ threads' \in [Thread -> Seq(Checkpoint)]
         /\ saved' \in [Thread -> Seq(Checkpoint)]
         /\ hist' \in [Caller -> Seq(Checkpoint)]
         /\ mu' \in {{}} \cup { {d} : d \in Caller }
<1> USE DEF TypeInv, TypeOK
<1>0. ThreadOf(c) \in Thread
  BY CallFacts
<1>1. hist[c] \in Seq(Checkpoint) /\ hist[c] # <<>>
  BY HistoryToStore DEF Stores, SaveInv
<1>2. Last(hist[c]) \in Checkpoint
  BY <1>1, LastOfSeq
<1>3. saved[ThreadOf(c)] \in Seq(Checkpoint)
  BY <1>0
<1>4. Append(saved[ThreadOf(c)], Last(hist[c])) \in Seq(Checkpoint)
  BY <1>2, <1>3, AppendTypes
<1>5. /\ threads' \in [Thread -> Seq(Checkpoint)]
      /\ saved' \in [Thread -> Seq(Checkpoint)]
      /\ hist' \in [Caller -> Seq(Checkpoint)]
  BY <1>0, <1>1, <1>4, EmptySeq DEF Stores, SaveStores
<1>6. mu' \in {{}} \cup { {d} : d \in Caller }
  <2>1. mu = {} \/ \E d \in Caller : mu = {d}
    OBVIOUS
  <2>2. mu' = mu \ {c}
    BY DEF Stores, SaveStores
  <2>3. mu' = {} \/ \E d \in Caller : mu' = {d}
    BY <2>1, <2>2
  <2> QED BY <2>3
<1> QED BY <1>5, <1>6

LEMMA TypeStep ==
  ASSUME TypeInv, SaveInv, [Next]_vars
  PROVE  TypeInv'
<1> USE DEF TypeInv, TypeOK
<1>0. /\ runner \in Runner /\ \A c \in Caller : ThreadOf(c) \in Thread
      /\ runner.maxHistory \in Nat /\ runner.entry \in NodeID
  BY CallFacts
<1>1. CASE UNCHANGED vars
  BY <1>1 DEF vars, loopVars, channelVars, consumerVars, checkpointerVars
<1> SUFFICES ASSUME NEW c \in Caller, CallStep(c) PROVE TypeInv'
  BY <1>1, NextCases
<1>2. CASE Begin(c)
  BY <1>0, <1>2 DEF Begin, Goto, PC, channelVars, consumerVars, checkpointerVars
<1>3. CASE Resume(c)
  <2>1. /\ LatestOf(ThreadOf(c)).state \in SuperSteps
        /\ {LatestOf(ThreadOf(c)).node} \in SUBSET NodeID
    BY <1>0, <1>3, LatestType DEF Resume, LoadFinds
  <2>2. state' \in [Caller -> SuperSteps]
    BY <1>3, <2>1 DEF Resume
  <2>3. frontier' \in [Caller -> SUBSET NodeID]
    <3> DEFINE f == {LatestOf(ThreadOf(c)).node}
    <3> HIDE DEF f
    <3>1. f \in SUBSET NodeID
      BY <2>1 DEF f
    <3>2. PICK next \in NextFrontiers(runner, f) :
            frontier' = [frontier EXCEPT ![c] = next]
      BY <1>3 DEF Resume, f
    <3>3. next \in SUBSET NodeID
      BY <1>0, <3>1, NextFrontiersType
    <3> QED BY <3>2, <3>3
  <2>4. pc' \in [Caller -> PC] /\ err' \in [Caller -> ErrKind]
    <3>1. CASE Finish(c, "none")
      BY <3>1, FinishEffect DEF ErrKind
    <3>2. CASE Goto(c, "loop") /\ UNCHANGED err
      BY <3>2 DEF Goto, PC
    <3> QED BY <1>3, <3>1, <3>2 DEF Resume
  <2> QED BY <1>3, <2>2, <2>3, <2>4
      DEF Resume, channelVars, consumerVars, checkpointerVars
<1>4. CASE SuperStep(c)
  <2>1. state'[c] = Append(state[c], StepOf(state[c], frontier[c], c))
    BY <1>4 DEF SuperStep, StepOf
  <2>2. state'[c] \in SuperSteps
    <3> DEFINE s == state[c]
               f == frontier[c]
    <3>1. s \in SuperSteps /\ f \in SUBSET NodeID
      OBVIOUS
    <3> HIDE DEF s, f
    <3>2. Append(s, StepOf(s, f, c)) \in SuperSteps
      BY <3>1, AppendStep
    <3> QED BY <2>1, <3>2 DEF s, f
  <2>3. state' \in [Caller -> SuperSteps]
    BY <1>4, <2>2 DEF SuperStep
  <2>4. pc' \in [Caller -> PC]
    BY <1>4 DEF SuperStep, AfterSuperStep, AfterSave, Goto, PC
  <2> QED BY <1>4, <2>3, <2>4
      DEF SuperStep, channelVars, consumerVars, checkpointerVars
<1>5. CASE Route(c)
  <2>1. frontier' \in [Caller -> SUBSET NodeID]
    <3>1. PICK next \in NextFrontiers(runner, frontier[c]) :
            frontier' = [frontier EXCEPT ![c] = next]
      BY <1>5 DEF Route
    <3>2. frontier[c] \in SUBSET NodeID
      OBVIOUS
    <3>3. next \in SUBSET NodeID
      BY <1>0, <3>2, NextFrontiersType
    <3> QED BY <3>1, <3>3
  <2> QED BY <1>5, <2>1
      DEF Route, Goto, PC, channelVars, consumerVars, checkpointerVars
<1>6. ASSUME NEW e \in ErrKind, Halts(c, e) PROVE TypeInv'
  <2>1. pc' \in [Caller -> PC] /\ err' \in [Caller -> ErrKind]
    BY <1>6, FinishEffect DEF Halts
  <2>2. CASE Stores(c)
    BY <1>6, <2>1, <2>2, StoresType DEF Halts, channelVars, consumerVars
  <2>3. CASE UNCHANGED checkpointerVars
    BY <1>6, <2>1, <2>3 DEF Halts, channelVars, consumerVars, checkpointerVars
  <2> QED BY <1>6, <2>2, <2>3 DEF Halts
<1>7. CASE SaveBegins(c)
  <2>1. Retain(Append(threads[ThreadOf(c)], CheckpointOf(c)), runner.maxHistory)
          \in Seq(Checkpoint)
    BY <1>7, HistoryToStore DEF SaveBegins, SaveInv
  <2>2. hist' \in [Caller -> Seq(Checkpoint)]
    BY <1>7, <2>1 DEF SaveBegins, SaveReads
  <2>3. mu' = {c}
    BY <1>7 DEF SaveBegins, SaveReads, Unlocked
  <2> QED BY <1>7, <2>2, <2>3
      DEF SaveBegins, SaveReads, Goto, PC, channelVars, consumerVars
<1>8. CASE SaveEnds(c)
  <2>1. Stores(c)
    BY <1>8 DEF SaveEnds, Stores
  <2>2. pc' \in [Caller -> PC]
    BY <1>8 DEF SaveEnds, AfterSave, Goto, PC
  <2> QED BY <1>8, <2>1, <2>2, StoresType DEF SaveEnds, channelVars, consumerVars
<1>9. CASE Deliver(c)
  <2>1. Append(received[c], state[c]) \in Seq(SuperSteps)
    BY AppendTypes
  <2> QED BY <1>9, <2>1 DEF Deliver, Goto, PC, channelVars, checkpointerVars
<1>10. CASE SendErr(c)
  <2>1. errs' \in [Caller -> {<<>>} \cup { <<e>> : e \in ErrKind }]
    BY <1>10 DEF SendErr
  <2> QED BY <1>10, <2>1 DEF SendErr, Goto, PC, consumerVars, checkpointerVars
<1>11. CASE CloseErrs(c)
  BY <1>11 DEF CloseErrs, Goto, PC, consumerVars, checkpointerVars
<1>12. CASE CloseStates(c)
  BY <1>12 DEF CloseStates, Goto, PC, consumerVars, checkpointerVars
<1>13. CASE Cancel(c)
  BY <1>13 DEF Cancel, loopVars, channelVars, consumerVars, checkpointerVars
<1>14. CASE StopReading(c) \/ SeeStatesEnd(c)
  BY <1>14
  DEF StopReading, SeeStatesEnd, loopVars, channelVars, checkpointerVars
<1>15. CASE ReadVerdict(c)
  <2>1. verdict' \in [Caller -> ErrKind]
    <3>1. errs[c] # <<>> => Head(errs[c]) \in ErrKind
      OBVIOUS
    <3> QED BY <1>15, <3>1 DEF ReadVerdict, ErrKind
  <2> QED BY <1>15, <2>1 DEF ReadVerdict, loopVars, checkpointerVars
<1> QED BY <1>2, <1>3, <1>4, <1>5, <1>6, <1>7, <1>8, <1>9, <1>10, <1>11, <1>12,
        <1>13, <1>14, <1>15 DEF CallStep

-----------------------------------------------------------------------------
(* The lock, and what is being saved under it.                             *)

LEMMA LockStep ==
  ASSUME TypeInv, LockInv, [Next]_vars
  PROVE  LockInv'
<1>0. /\ pc \in [Caller -> PC]
      /\ \A d \in Caller : pc[d] = "saving" <=> d \in mu
  BY DEF TypeInv, TypeOK, LockInv
(* A step that leaves the mutex alone and moves no call to or from         *)
(* "saving".                                                               *)
<1>1. ASSUME mu' = mu,
             \A d \in Caller :
               pc'[d] = pc[d] \/ (pc[d] # "saving" /\ pc'[d] # "saving")
      PROVE  LockInv'
  BY <1>0, <1>1 DEF LockInv
<1>2. CASE UNCHANGED vars
  BY <1>1, <1>2 DEF vars, loopVars, checkpointerVars
<1>3. ASSUME NEW c \in Caller,
             Begin(c) \/ SuperStep(c) \/ Route(c) \/ Deliver(c)
             \/ SendErr(c) \/ CloseErrs(c) \/ CloseStates(c)
      PROVE  LockInv'
  <2>1. mu' = mu
    BY <1>3 DEF Begin, SuperStep, Route, Deliver, SendErr, CloseErrs,
       CloseStates, checkpointerVars
  <2>2. \E l \in PC \ {"saving"} : Goto(c, l)
    BY <1>3 DEF Begin, SuperStep, AfterSuperStep, AfterSave, Route, Deliver,
       SendErr, CloseErrs, CloseStates, PC
  <2>3. pc[c] # "saving"
    BY <1>3 DEF Begin, SuperStep, Loops, Route, Deliver, SendErr, CloseErrs,
       CloseStates
  <2> QED BY <1>0, <1>1, <2>1, <2>2, <2>3 DEF Goto
<1>4. ASSUME NEW c \in Caller, NEW e \in ErrKind, Halts(c, e) PROVE LockInv'
  <2>1. /\ pc'[c] # "saving"
        /\ \A d \in Caller \ {c} : pc'[d] = pc[d]
    BY <1>4, FinishEffect DEF Halts, TypeInv
  <2>2. CASE Stores(c)
    <3>1. mu' = mu \ {c}
      BY <2>2 DEF Stores, SaveStores
    <3> QED BY <1>0, <2>1, <3>1 DEF LockInv
  <2>3. CASE pc[c] # "saving" /\ UNCHANGED checkpointerVars
    BY <1>1, <2>1, <2>3 DEF checkpointerVars
  <2> QED BY <1>4, <2>2, <2>3 DEF Halts
<1>5. ASSUME NEW c \in Caller, Resume(c) PROVE LockInv'
  <2>1. pc[c] = "idle" /\ mu' = mu
    BY <1>5 DEF Resume, checkpointerVars
  <2>2. Finish(c, "none") \/ Goto(c, "loop")
    BY <1>5 DEF Resume
  <2>3. /\ pc'[c] # "saving"
        /\ \A d \in Caller \ {c} : pc'[d] = pc[d]
    <3>1. CASE Finish(c, "none")
      BY <3>1, FinishEffect DEF TypeInv, ErrKind
    <3>2. CASE Goto(c, "loop")
      BY <1>0, <3>2 DEF Goto
    <3> QED BY <2>2, <3>1, <3>2
  <2> QED BY <1>1, <2>1, <2>3
<1>6. ASSUME NEW c \in Caller, SaveBegins(c) PROVE LockInv'
  <2>1. mu = {} /\ mu' = {c} /\ Goto(c, "saving")
    BY <1>6 DEF SaveBegins, SaveReads, Unlocked
  <2> QED BY <1>0, <2>1 DEF LockInv, Goto
<1>7. ASSUME NEW c \in Caller, SaveEnds(c) PROVE LockInv'
  <2>1. mu' = mu \ {c} /\ Goto(c, AfterSave(c)) /\ AfterSave(c) # "saving"
    BY <1>7 DEF SaveEnds, SaveStores, AfterSave
  <2> QED BY <1>0, <2>1 DEF LockInv, Goto
<1>8. ASSUME NEW c \in Caller,
             Cancel(c) \/ StopReading(c) \/ SeeStatesEnd(c) \/ ReadVerdict(c)
      PROVE  LockInv'
  BY <1>1, <1>8 DEF Cancel, StopReading, SeeStatesEnd, ReadVerdict, loopVars,
     checkpointerVars
<1> QED BY <1>2, <1>3, <1>4, <1>5, <1>6, <1>7, <1>8, NextCases DEF CallStep

LEMMA SaveStep ==
  ASSUME TypeInv, LockInv, SaveInv, [Next]_vars
  PROVE  SaveInv'
<1>0. /\ pc \in [Caller -> PC] /\ state \in [Caller -> SuperSteps]
      /\ hist \in [Caller -> Seq(Checkpoint)]
      /\ threads \in [Thread -> Seq(Checkpoint)]
      /\ runner' = runner /\ plan' = plan
  BY Fixed DEF TypeInv, TypeOK
<1> SUFFICES ASSUME NEW d \in Caller
             PROVE  /\ pc'[d] \in {"save", "saving"} =>
                         /\ state'[d] # <<>>
                         /\ Last(state'[d]).nodes # {}
                    /\ pc'[d] = "saving" =>
                         hist'[d] = Retain(Append(threads'[ThreadOf(d)],
                                                  CheckpointOf(d)'),
                                           runner.maxHistory)
  BY <1>0 DEF SaveInv, ThreadOf
<1> DEFINE Goal == /\ pc'[d] \in {"save", "saving"} =>
                        /\ state'[d] # <<>>
                        /\ Last(state'[d]).nodes # {}
                   /\ pc'[d] = "saving" =>
                        hist'[d] = Retain(Append(threads'[ThreadOf(d)],
                                                 CheckpointOf(d)'),
                                          runner.maxHistory)
<1>1. ASSUME pc'[d] = pc[d], state'[d] = state[d], hist'[d] = hist[d],
             pc[d] = "saving" => threads'[ThreadOf(d)] = threads[ThreadOf(d)]
      PROVE  Goal
  BY <1>1 DEF SaveInv, CheckpointOf
<1>2. ASSUME pc'[d] \notin {"save", "saving"} PROVE Goal
  BY <1>2
<1>3. CASE UNCHANGED vars
  BY <1>1, <1>3 DEF vars, loopVars, checkpointerVars
<1>4. ASSUME NEW c \in Caller, SuperStep(c) PROVE Goal
  <2>1. CASE c = d
    <3>1. /\ state'[d] = Append(state[d], StepOf(state[d], frontier[d], d))
          /\ frontier[d] # {} /\ pc'[d] # "saving"
      BY <1>0, <1>4, <2>1
      DEF SuperStep, StepOf, Loops, Goto, AfterSuperStep, AfterSave
    <3>2. state[d] \in SuperSteps /\ frontier[d] \in SUBSET NodeID
      BY DEF TypeInv, TypeOK
    <3>3. state'[d] # <<>> /\ Last(state'[d]) = StepOf(state[d], frontier[d], d)
      BY <3>1, <3>2, AppendStep
    <3> QED BY <3>1, <3>3 DEF StepOf
  <2>2. CASE c # d
    BY <1>0, <1>1, <1>4, <2>2 DEF SuperStep, Goto, checkpointerVars
  <2> QED BY <2>1, <2>2
<1>5. ASSUME NEW c \in Caller,
             Begin(c) \/ Route(c) \/ Deliver(c) \/ SendErr(c) \/ CloseErrs(c)
             \/ CloseStates(c)
      PROVE  Goal
  <2>1. \E l \in PC \ {"save", "saving"} : Goto(c, l)
    BY <1>5
    DEF Begin, Route, Deliver, SendErr, CloseErrs, CloseStates, PC
  <2>2. UNCHANGED <<state, hist, threads>>
    BY <1>5 DEF Begin, Route, Deliver, SendErr, CloseErrs, CloseStates,
       checkpointerVars
  <2> QED BY <1>0, <1>1, <1>2, <2>1, <2>2 DEF Goto
<1>6. ASSUME NEW c \in Caller, NEW e \in ErrKind, Halts(c, e) PROVE Goal
  <2>1. /\ pc'[c] \notin {"save", "saving"}
        /\ c # d => pc'[d] = pc[d]
    BY <1>6, FinishEffect DEF Halts, TypeInv
  <2>2. state' = state
    BY <1>6 DEF Halts
  <2>3. CASE Stores(c) /\ c # d
    <3>1. pc[d] # "saving"
      <4>1. c \in mu
        BY <2>3 DEF Stores, LockInv
      <4>2. d \notin mu
        BY <2>3, <4>1 DEF TypeInv, TypeOK
      <4> QED BY <4>2 DEF LockInv
    <3>2. hist'[d] = hist[d]
      BY <1>0, <2>3 DEF Stores, SaveStores
    <3> QED BY <1>1, <2>1, <2>2, <2>3, <3>1, <3>2
  <2>4. CASE UNCHANGED checkpointerVars
    BY <1>1, <1>2, <2>1, <2>2, <2>4 DEF checkpointerVars
  <2> QED BY <1>2, <1>6, <2>1, <2>3, <2>4 DEF Halts
<1>7. ASSUME NEW c \in Caller, Resume(c) PROVE Goal
  <2>1. Finish(c, "none") \/ Goto(c, "loop")
    BY <1>7 DEF Resume
  <2>2. /\ pc'[c] \notin {"save", "saving"}
        /\ c # d => pc'[d] = pc[d]
    <3>1. CASE Finish(c, "none")
      BY <3>1, FinishEffect DEF TypeInv, ErrKind
    <3>2. CASE Goto(c, "loop")
      BY <1>0, <3>2 DEF Goto
    <3> QED BY <2>1, <3>1, <3>2
  <2>3. /\ c # d => state'[d] = state[d]
        /\ UNCHANGED <<hist, threads>>
    BY <1>0, <1>7 DEF Resume, checkpointerVars
  <2> QED BY <1>1, <1>2, <2>2, <2>3
<1>8. ASSUME NEW c \in Caller, SaveBegins(c) PROVE Goal
  <2>1. UNCHANGED <<state, threads>>
    BY <1>8 DEF SaveBegins, SaveReads
  <2>2. CASE c = d
    <3>1. hist'[d] = Retain(Append(threads[ThreadOf(d)], CheckpointOf(d)),
                            runner.maxHistory)
      BY <1>0, <1>8, <2>2 DEF SaveBegins, SaveReads
    <3>2. CheckpointOf(d)' = CheckpointOf(d)
      BY <2>1 DEF CheckpointOf
    <3>3. state[d] # <<>> /\ Last(state[d]).nodes # {}
      BY <1>8, <2>2 DEF SaveBegins, SaveInv
    <3> QED BY <2>1, <3>1, <3>2, <3>3
  <2>3. CASE c # d
    BY <1>0, <1>1, <1>8, <2>1, <2>3 DEF SaveBegins, SaveReads, Goto
  <2> QED BY <2>2, <2>3
<1>9. ASSUME NEW c \in Caller, SaveEnds(c) PROVE Goal
  <2>1. CASE c = d
    BY <1>0, <1>2, <1>9, <2>1 DEF SaveEnds, AfterSave, Goto
  <2>2. CASE c # d
    <3>1. pc[d] # "saving"
      <4>1. c \in mu
        BY <1>9 DEF SaveEnds, LockInv
      <4>2. d \notin mu
        BY <2>2, <4>1 DEF TypeInv, TypeOK
      <4> QED BY <4>2 DEF LockInv
    <3>2. state'[d] = state[d] /\ hist'[d] = hist[d] /\ pc'[d] = pc[d]
      BY <1>0, <1>9, <2>2 DEF SaveEnds, SaveStores, Goto
    <3> QED BY <1>1, <3>1, <3>2
  <2> QED BY <2>1, <2>2
<1>10. ASSUME NEW c \in Caller,
              Cancel(c) \/ StopReading(c) \/ SeeStatesEnd(c) \/ ReadVerdict(c)
       PROVE  Goal
  BY <1>1, <1>10 DEF Cancel, StopReading, SeeStatesEnd, ReadVerdict, loopVars,
     checkpointerVars
<1> QED BY <1>3, <1>4, <1>5, <1>6, <1>7, <1>8, <1>9, <1>10, NextCases
        DEF CallStep

(* No history is anything else than the newest of what was saved.          *)
LEMMA NewestStep ==
  ASSUME TypeInv, SaveInv, NewestInv, [Next]_vars
  PROVE  NewestInv'
<1>1. runner' = runner
  BY Fixed
<1>2. CASE UNCHANGED <<threads, saved>>
  BY <1>1, <1>2 DEF NewestInv, Newest
<1>3. ASSUME NEW c \in Caller, Stores(c) PROVE NewestInv'
  <2> DEFINE t == ThreadOf(c)
             cp == CheckpointOf(c)
  <2>1. state[c] # <<>> /\ Last(state[c]).nodes # {}
    BY <1>3 DEF Stores, SaveInv
  <2>2. /\ cp \in Checkpoint /\ t \in Thread /\ runner.maxHistory \in Nat
        /\ threads[t] \in Seq(Checkpoint) /\ saved[t] \in Seq(Checkpoint)
    BY <2>1, CheckpointType, CallFacts DEF TypeInv
  <2>3. hist[c] = Retain(Append(threads[t], cp), runner.maxHistory)
    BY <1>3 DEF Stores, SaveInv
  <2>4. Last(hist[c]) = cp
    BY <2>1, <2>3, HistoryToStore
  <2>5. /\ threads' = [threads EXCEPT ![t] = hist[c]]
        /\ saved' = [saved EXCEPT ![t] = Append(@, cp)]
    BY <1>3, <2>4 DEF Stores, SaveStores
  <2> HIDE DEF t, cp
  <2>6. Newest(threads[t], saved[t], runner.maxHistory)
    BY <2>2 DEF NewestInv
  <2>7. Newest(hist[c], Append(saved[t], cp), runner.maxHistory)
    BY <2>2, <2>3, <2>6, NewestOfAppend
  <2>8. /\ threads'[t] = hist[c] /\ saved'[t] = Append(saved[t], cp)
        /\ \A w \in Thread \ {t} : threads'[w] = threads[w] /\ saved'[w] = saved[w]
    BY <2>2, <2>5 DEF TypeInv
  <2>9. \A w \in Thread : Newest(threads'[w], saved'[w], runner.maxHistory)
    <3> SUFFICES ASSUME NEW w \in Thread
                 PROVE  Newest(threads'[w], saved'[w], runner.maxHistory)
      OBVIOUS
    <3>1. CASE w = t
      BY <2>7, <2>8, <3>1
    <3>2. CASE w # t
      BY <2>8, <3>2 DEF NewestInv
    <3> QED BY <3>1, <3>2
  <2> QED BY <1>1, <2>9 DEF NewestInv
<1>4. ASSUME NEW c \in Caller,
             \/ Begin(c) \/ Resume(c) \/ SuperStep(c) \/ Route(c)
             \/ SaveBegins(c) \/ SaveEnds(c)
             \/ \E e \in ErrKind : Halts(c, e)
             \/ Deliver(c) \/ SendErr(c) \/ CloseErrs(c) \/ CloseStates(c)
      PROVE  Stores(c) \/ UNCHANGED <<threads, saved>>
  BY <1>4 DEF Begin, Resume, SuperStep, Route, Halts, SaveBegins, SaveReads,
     SaveEnds, Stores, Deliver, SendErr, CloseErrs, CloseStates,
     checkpointerVars
<1>5. ASSUME NEW c \in Caller,
             Cancel(c) \/ StopReading(c) \/ SeeStatesEnd(c) \/ ReadVerdict(c)
      PROVE  UNCHANGED <<threads, saved>>
  BY <1>5 DEF Cancel, StopReading, SeeStatesEnd, ReadVerdict, checkpointerVars
<1>6. CASE UNCHANGED vars
  BY <1>2, <1>6 DEF vars, checkpointerVars
<1> QED BY <1>2, <1>3, <1>4, <1>5, <1>6, NextCases DEF CallStep

-----------------------------------------------------------------------------
(* The streams and their consumers.                                        *)

(* What is saved stays saved.                                              *)
LEMMA SavedGrows ==
  ASSUME TypeInv, SaveInv, [Next]_vars, NEW t \in Thread, NEW s, IsSaved(t, s)
  PROVE  \E k \in DOMAIN saved'[t] : saved'[t][k].state = s
<1>1. PICK k \in DOMAIN saved[t] : saved[t][k].state = s
  BY DEF IsSaved
<1>2. CASE UNCHANGED saved
  BY <1>1, <1>2
<1>3. ASSUME NEW c \in Caller, Stores(c)
      PROVE  \E j \in DOMAIN saved'[t] : saved'[t][j].state = s
  <2> DEFINE h == saved[t]
             cp == CheckpointOf(c)
  <2>1. state[c] # <<>> /\ Last(state[c]).nodes # {}
    BY <1>3 DEF Stores, SaveInv
  <2>2. Last(hist[c]) = cp
    BY <1>3, <2>1, HistoryToStore DEF Stores, SaveInv
  <2>3. h \in Seq(Checkpoint) /\ cp \in Checkpoint
    BY <2>1, CheckpointType DEF TypeInv
  <2>4. saved'[t] = h \/ saved'[t] = Append(h, cp)
    BY <1>3, <2>2 DEF Stores, SaveStores, TypeInv
  <2> HIDE DEF h, cp
  <2>5. /\ DOMAIN h = 1..Len(h) /\ Len(h) \in Nat
        /\ DOMAIN Append(h, cp) = 1..(Len(h) + 1)
        /\ \A i \in DOMAIN h : Append(h, cp)[i] = h[i]
    BY <2>3, AppendTypes, LenProperties
  <2>6. k \in DOMAIN h /\ h[k].state = s
    BY <1>1 DEF h
  <2>7. k \in DOMAIN Append(h, cp) /\ Append(h, cp)[k] = h[k]
    BY <2>5, <2>6
  <2> QED BY <2>4, <2>6, <2>7
<1>4. ASSUME NEW c \in Caller,
             \/ Begin(c) \/ Resume(c) \/ SuperStep(c) \/ Route(c)
             \/ \E e \in ErrKind : Halts(c, e)
             \/ SaveBegins(c) \/ SaveEnds(c)
             \/ Deliver(c) \/ SendErr(c) \/ CloseErrs(c) \/ CloseStates(c)
             \/ Cancel(c) \/ StopReading(c) \/ SeeStatesEnd(c) \/ ReadVerdict(c)
      PROVE  Stores(c) \/ UNCHANGED saved
  BY <1>4 DEF Begin, Resume, SuperStep, Route, Halts, SaveBegins, SaveReads,
     SaveEnds, Stores, Deliver, SendErr, CloseErrs, CloseStates, Cancel, StopReading,
     SeeStatesEnd, ReadVerdict, checkpointerVars
<1>5. CASE UNCHANGED vars
  BY <1>2, <1>5 DEF vars, checkpointerVars
<1> QED BY <1>2, <1>3, <1>4, <1>5, NextCases DEF CallStep

(* A call's step leaves every other call and its stream alone.             *)
LEMMA OthersKeep ==
  ASSUME TypeOK, NEW c \in Caller, CallStep(c), NEW d \in Caller \ {c}
  PROVE  /\ pc'[d] = pc[d] /\ state'[d] = state[d] /\ err'[d] = err[d]
         /\ errs'[d] = errs[d] /\ open'[d] = open[d] /\ reader'[d] = reader[d]
         /\ received'[d] = received[d] /\ verdict'[d] = verdict[d]
<1> DEFINE Same == /\ pc'[d] = pc[d] /\ state'[d] = state[d] /\ err'[d] = err[d]
                   /\ errs'[d] = errs[d] /\ open'[d] = open[d]
                   /\ reader'[d] = reader[d] /\ received'[d] = received[d]
                   /\ verdict'[d] = verdict[d]
<1> USE DEF TypeOK
<1>1. CASE Begin(c) \/ SuperStep(c) \/ Route(c) \/ SaveBegins(c) \/ SaveEnds(c)
  BY <1>1 DEF Begin, SuperStep, Route, SaveBegins, SaveEnds, Goto, channelVars,
     consumerVars
<1>2. CASE Resume(c)
  <2>1. pc'[d] = pc[d] /\ err'[d] = err[d]
    <3>1. CASE Finish(c, "none")
      BY <3>1, FinishEffect DEF ErrKind
    <3>2. CASE Goto(c, "loop") /\ UNCHANGED err
      BY <3>2 DEF Goto
    <3> QED BY <1>2, <3>1, <3>2 DEF Resume
  <2> QED BY <1>2, <2>1 DEF Resume, channelVars, consumerVars
<1>3. ASSUME NEW e \in ErrKind, Halts(c, e) PROVE Same
  <2>1. pc'[d] = pc[d] /\ err'[d] = err[d]
    BY <1>3, FinishEffect DEF Halts
  <2> QED BY <1>3, <2>1 DEF Halts, channelVars, consumerVars
<1>4. CASE Deliver(c) \/ SendErr(c) \/ CloseErrs(c) \/ CloseStates(c)
  BY <1>4 DEF Deliver, SendErr, CloseErrs, CloseStates, Goto, channelVars,
     consumerVars
<1>5. CASE Cancel(c) \/ StopReading(c) \/ SeeStatesEnd(c) \/ ReadVerdict(c)
  BY <1>5 DEF Cancel, StopReading, SeeStatesEnd, ReadVerdict, loopVars,
     channelVars, consumerVars
<1> QED BY <1>1, <1>2, <1>3, <1>4, <1>5 DEF CallStep

LEMMA PlainStep ==
  ASSUME TypeOK, NEW c \in Caller, ~Streams(c), PlainInv(c), CallStep(c)
  PROVE  PlainInv(c)'
<1> USE DEF TypeOK, PlainInv
<1>1. CASE Begin(c) \/ Route(c) \/ SaveBegins(c)
  BY <1>1 DEF Begin, Route, SaveBegins, Goto, channelVars, consumerVars
<1>2. CASE SuperStep(c) \/ SaveEnds(c)
  BY <1>2 DEF SuperStep, SaveEnds, AfterSuperStep, AfterSave, Goto, channelVars,
     consumerVars
<1>3. CASE Resume(c)
  <2>1. pc'[c] \in {"loop", "returned"}
    <3>1. CASE Finish(c, "none")
      BY <3>1, FinishEffect DEF ErrKind
    <3>2. CASE Goto(c, "loop")
      BY <3>2 DEF Goto
    <3> QED BY <1>3, <3>1, <3>2 DEF Resume
  <2> QED BY <1>3, <2>1 DEF Resume, channelVars, consumerVars
<1>4. ASSUME NEW e \in ErrKind, Halts(c, e) PROVE PlainInv(c)'
  <2>1. pc'[c] = "returned"
    BY <1>4, FinishEffect DEF Halts
  <2> QED BY <1>4, <2>1 DEF Halts, channelVars, consumerVars
<1>5. CASE Cancel(c)
  BY <1>5 DEF Cancel, loopVars, channelVars, consumerVars
<1>6. ~(Deliver(c) \/ SendErr(c) \/ CloseErrs(c) \/ CloseStates(c)
        \/ StopReading(c) \/ SeeStatesEnd(c) \/ ReadVerdict(c))
  BY DEF Deliver, SendErr, CloseErrs, CloseStates, StopReading, SeeStatesEnd,
     ReadVerdict
<1> QED BY <1>1, <1>2, <1>3, <1>4, <1>5, <1>6 DEF CallStep

(* A super-step's effect on a stream, and the delivery of a state.         *)
LEMMA StreamSuperStep ==
  ASSUME TypeOK, NEW c \in Caller, ReceivedInv(c), SuperStep(c)
  PROVE  /\ LastStep(state[c]) = Len(state[c])
         /\ Len(state'[c]) = Len(state[c]) + 1
         /\ LastStep(state'[c]) = Len(state[c]) + 1
         /\ ReceivedInv(c)'
<1> DEFINE s == state[c]
           e == StepOf(s, frontier[c], c)
           t == state'[c]
           r == received[c]
<1>1. s \in SuperSteps /\ frontier[c] \in SUBSET NodeID /\ t = Append(s, e)
  BY DEF TypeOK, SuperStep, StepOf
<1>2. /\ t # <<>> /\ Last(t) = e /\ Len(t) = Len(s) + 1
      /\ \A k \in DOMAIN s : t[k] = s[k]
      /\ t[Len(s) + 1] = e
      /\ t \in SuperSteps
  <2> HIDE DEF s, t
  <2>1. frontier[c] \in SUBSET NodeID
    BY <1>1
  <2> QED BY <1>1, <2>1, AppendStep DEF e
<1>3. e.step = LastStep(s) + 1 /\ e.by = c
  BY DEF StepOf
<1>4. /\ \A k \in DOMAIN s : s[k].step = k /\ s[k].by = c
      /\ Len(r) <= Len(s)
      /\ \A i \in DOMAIN r : Len(r[i]) = i /\ \A k \in 1..i : r[i][k] = s[k]
  BY DEF ReceivedInv
<1>5. received'[c] = r /\ received[c] \in Seq(SuperSteps)
  BY DEF SuperStep, consumerVars, TypeOK
<1> HIDE DEF s, e, t, r
<1>6. /\ Len(s) \in Nat /\ DOMAIN s = 1..Len(s) /\ DOMAIN t = 1..(Len(s) + 1)
  BY <1>1, <1>2 DEF SuperSteps
<1>7. LastStep(s) = Len(s)
  <2>1. CASE s = <<>>
    BY <2>1 DEF LastStep
  <2>2. CASE s # <<>>
    <3>1. Len(s) \in DOMAIN s /\ Last(s) = s[Len(s)]
      BY <1>1, <2>2, LastOfSeq DEF SuperSteps
    <3> QED BY <1>4, <2>2, <3>1 DEF LastStep
  <2> QED BY <2>1, <2>2
<1>8. LastStep(t) = Len(s) + 1
  BY <1>2, <1>3, <1>7 DEF LastStep
<1>9. \A k \in DOMAIN t : t[k].step = k /\ t[k].by = c
  BY <1>2, <1>3, <1>4, <1>6, <1>7
<1>10. Len(r) \in Nat /\ DOMAIN r = 1..Len(r)
  BY <1>5 DEF r
<1>11. Len(r) <= Len(t)
  BY <1>2, <1>4, <1>6, <1>10
<1>12. \A i \in DOMAIN r : Len(r[i]) = i /\ \A k \in 1..i : r[i][k] = t[k]
  <2> SUFFICES ASSUME NEW i \in DOMAIN r, NEW k \in 1..i PROVE r[i][k] = t[k]
    BY <1>4
  <2>1. k \in DOMAIN s
    BY <1>4, <1>6, <1>10
  <2> QED BY <1>2, <1>4, <2>1
<1>13. ReceivedInv(c)'
  BY <1>5, <1>9, <1>11, <1>12 DEF ReceivedInv, t
<1> QED BY <1>2, <1>7, <1>8, <1>13 DEF s, t

LEMMA StreamDelivery ==
  ASSUME TypeOK, NEW c \in Caller, ReceivedInv(c), Deliver(c),
         Len(received[c]) = Len(state[c]) - 1
  PROVE  /\ LastStep(state[c]) = Len(state[c])
         /\ Len(received'[c]) = Len(state[c])
         /\ DOMAIN received'[c] = 1..Len(state[c])
         /\ \A i \in DOMAIN received[c] : received'[c][i] = received[c][i]
         /\ received'[c][Len(state[c])] = state[c]
         /\ ReceivedInv(c)'
<1> DEFINE s == state[c]
           r == received[c]
           q == received'[c]
<1>1. s \in SuperSteps /\ r \in Seq(SuperSteps) /\ q = Append(r, s)
  BY DEF TypeOK, Deliver
<1>2. /\ \A k \in DOMAIN s : s[k].step = k /\ s[k].by = c
      /\ \A i \in DOMAIN r : Len(r[i]) = i /\ \A k \in 1..i : r[i][k] = s[k]
      /\ Len(r) = Len(s) - 1
  BY DEF ReceivedInv
<1>3. state'[c] = s
  BY DEF Deliver
<1> HIDE DEF s, r, q
<1>4. Len(s) \in Nat /\ DOMAIN s = 1..Len(s)
  BY <1>1 DEF SuperSteps
<1>5. Len(r) \in Nat /\ DOMAIN r = 1..Len(r) /\ Len(r) + 1 = Len(s)
  <2>1. Len(r) \in Nat /\ DOMAIN r = 1..Len(r)
    BY <1>1
  <2>2. Len(s) \in Nat
    BY <1>4
  <2> QED BY <1>2, <2>1, <2>2
<1>6. /\ Len(q) = Len(s) /\ DOMAIN q = 1..Len(s)
      /\ \A i \in DOMAIN r : q[i] = r[i]
      /\ q[Len(s)] = s
  BY <1>1, <1>5, AppendTypes
<1>7. LastStep(s) = Len(s)
  <2>1. CASE s = <<>>
    BY <2>1 DEF LastStep
  <2>2. CASE s # <<>>
    <3>1. Len(s) \in DOMAIN s /\ Last(s) = s[Len(s)]
      BY <1>1, <2>2, LastOfSeq DEF SuperSteps
    <3> QED BY <1>2, <2>2, <3>1 DEF LastStep
  <2> QED BY <2>1, <2>2
<1>8. ASSUME NEW i \in DOMAIN q
      PROVE  Len(q[i]) = i /\ \A k \in 1..i : q[i][k] = s[k]
  <2>1. CASE i = Len(s)
    BY <1>6, <2>1
  <2>2. CASE i # Len(s)
    <3>1. i \in DOMAIN r
      BY <1>4, <1>5, <1>6, <2>2
    <3> QED BY <1>2, <1>6, <3>1
  <2> QED BY <2>1, <2>2
<1>9. Len(q) <= Len(s)
  BY <1>4, <1>6
<1>10. ReceivedInv(c)'
  BY <1>2, <1>3, <1>8, <1>9 DEF ReceivedInv, q
<1> QED BY <1>6, <1>7, <1>10 DEF s, r, q

(* A stream never goes through Resume; only a super-step changes its state *)
(* and only a delivery what its consumer has.                              *)
LEMMA StreamFrame ==
  ASSUME NEW c \in Caller, Streams(c), CallStep(c)
  PROVE  /\ ~Resume(c)
         /\ SuperStep(c) \/ state'[c] = state[c]
         /\ Deliver(c) \/ received'[c] = received[c]
<1>1. ~Resume(c)
  BY DEF Resume, Streams
<1>2. CASE Begin(c) \/ Route(c) \/ SaveBegins(c) \/ SaveEnds(c) \/ SuperStep(c)
           \/ \E e \in ErrKind : Halts(c, e)
  BY <1>1, <1>2
  DEF Begin, Route, SaveBegins, SaveEnds, SuperStep, Halts, consumerVars
<1>3. CASE SendErr(c) \/ CloseErrs(c) \/ CloseStates(c) \/ Cancel(c)
           \/ StopReading(c) \/ SeeStatesEnd(c) \/ ReadVerdict(c) \/ Deliver(c)
  BY <1>1, <1>3
  DEF SendErr, CloseErrs, CloseStates, Cancel, StopReading, SeeStatesEnd,
      ReadVerdict, Deliver, loopVars, consumerVars
<1> QED BY <1>1, <1>2, <1>3 DEF CallStep

LEMMA ReceivedStep ==
  ASSUME TypeOK, NEW c \in Caller, Streams(c), ReceivedInv(c), PaceInv(c),
         CallStep(c)
  PROVE  ReceivedInv(c)'
<1>1. CASE SuperStep(c)
  BY <1>1, StreamSuperStep
<1>2. CASE Deliver(c)
  BY <1>2, StreamDelivery DEF PaceInv, Deliver
<1>3. CASE state'[c] = state[c] /\ received'[c] = received[c]
  BY <1>3 DEF ReceivedInv
<1> QED BY <1>1, <1>2, <1>3, StreamFrame DEF SuperStep, Deliver, consumerVars

LEMMA PaceStep ==
  ASSUME TypeOK, NEW c \in Caller, Streams(c), ReceivedInv(c), PaceInv(c),
         CallStep(c)
  PROVE  PaceInv(c)'
<1>0. pc \in [Caller -> PC]
  BY DEF TypeOK
<1>1. Len(state[c]) \in Nat /\ Len(received[c]) \in Nat
  BY DEF TypeOK, SuperSteps
<1>2. CASE SuperStep(c)
  <2>1. /\ Len(state'[c]) = Len(state[c]) + 1
        /\ Len(received'[c]) = Len(received[c])
    BY <1>2, StreamSuperStep DEF SuperStep, consumerVars
  <2>2. pc[c] = "loop" /\ pc'[c] \in {"save", "offer"}
    BY <1>0, <1>2
    DEF SuperStep, Loops, Goto, AfterSuperStep, AfterSave
  <2> QED BY <1>1, <2>1, <2>2 DEF PaceInv
<1>3. CASE Deliver(c)
  <2>1. pc[c] = "offer" /\ pc'[c] = "route" /\ state'[c] = state[c]
    BY <1>0, <1>3 DEF Deliver, Goto
  <2>2. Len(received'[c]) = Len(state[c])
    BY <1>3, <2>1, StreamDelivery DEF PaceInv
  <2> QED BY <2>1, <2>2 DEF PaceInv
<1>4. ASSUME NEW e \in ErrKind, Halts(c, e) PROVE PaceInv(c)'
  <2>1. pc'[c] \in {"closeErrs", "sendErr"} /\ err'[c] = e
    BY <1>4, FinishEffect DEF Halts
  <2>2. state'[c] = state[c] /\ received'[c] = received[c]
    BY <1>4 DEF Halts, consumerVars
  <2>3. \/ Len(received[c]) = Len(state[c])
        \/ e \in Withheld /\ Len(received[c]) = Len(state[c]) - 1
    BY <1>4 DEF Halts, PaceInv, Withheld
  <2> QED BY <2>1, <2>2, <2>3 DEF PaceInv
<1>5. CASE /\ UNCHANGED <<err>>
           /\ state'[c] = state[c] /\ received'[c] = received[c]
           /\ \/ pc'[c] = pc[c]
              \/ pc[c] \in {"idle", "route"} /\ pc'[c] = "loop"
              \/ pc[c] \in {"save", "saving"} /\ pc'[c] \in {"saving", "offer"}
              \/ /\ pc[c] \in {"sendErr", "closeErrs", "closeStates"}
                 /\ pc'[c] \in {"closeErrs", "closeStates", "returned"}
  BY <1>5 DEF PaceInv
<1>6. CASE Begin(c) \/ Route(c)
  BY <1>0, <1>5, <1>6 DEF Begin, Route, Goto, consumerVars
<1>7. CASE SaveBegins(c) \/ SaveEnds(c)
  BY <1>0, <1>5, <1>7 DEF SaveBegins, SaveEnds, AfterSave, Goto, consumerVars
<1>8. CASE SendErr(c) \/ CloseErrs(c) \/ CloseStates(c)
  BY <1>0, <1>5, <1>8 DEF SendErr, CloseErrs, CloseStates, Goto, consumerVars
<1>9. CASE Cancel(c) \/ StopReading(c) \/ SeeStatesEnd(c) \/ ReadVerdict(c)
  BY <1>5, <1>9 DEF Cancel, StopReading, SeeStatesEnd, ReadVerdict, loopVars,
     consumerVars
<1> QED BY <1>2, <1>3, <1>4, <1>6, <1>7, <1>8, <1>9, StreamFrame DEF CallStep

LEMMA ChannelStep ==
  ASSUME TypeOK, NEW c \in Caller, Streams(c), ChannelInv(c), CallStep(c)
  PROVE  ChannelInv(c)'
<1>0. /\ pc \in [Caller -> PC] /\ err \in [Caller -> ErrKind]
      /\ errs \in [Caller -> {<<>>} \cup { <<e>> : e \in ErrKind }]
      /\ open \in [Caller -> SUBSET {"states", "errs"}]
      /\ reader \in [Caller -> {"reading", "left", "atErrs", "done"}]
      /\ verdict \in [Caller -> ErrKind]
  BY DEF TypeOK
<1> USE DEF ChannelInv
(* Before the error is sent the channels are open and errs is empty.       *)
<1>1. CASE /\ UNCHANGED <<errs, open, reader, verdict>>
           /\ pc[c] \notin {"closeErrs", "closeStates", "returned"}
           /\ pc'[c] \notin {"closeErrs", "closeStates", "returned"}
           /\ pc'[c] = "sendErr" => err'[c] # "none"
  BY <1>1
<1>2. CASE Begin(c) \/ Route(c) \/ SuperStep(c) \/ Deliver(c)
  BY <1>0, <1>1, <1>2
  DEF Begin, Route, SuperStep, Loops, AfterSuperStep, AfterSave, Deliver, Goto,
      channelVars, consumerVars
<1>3. CASE SaveBegins(c) \/ SaveEnds(c)
  BY <1>0, <1>1, <1>3
  DEF SaveBegins, SaveEnds, AfterSave, Goto, channelVars, consumerVars
<1>4. ASSUME NEW e \in ErrKind, Halts(c, e) PROVE ChannelInv(c)'
  <2>1. /\ pc'[c] = IF e = "none" THEN "closeErrs" ELSE "sendErr"
        /\ err'[c] = e
    BY <1>4, FinishEffect DEF Halts
  <2>2. UNCHANGED <<errs, open, reader, verdict>>
    BY <1>4 DEF Halts, channelVars, consumerVars
  <2>3. pc[c] \in {"loop", "route", "save", "saving", "offer", "idle"}
    BY <1>4 DEF Halts
  <2> QED BY <2>1, <2>2, <2>3
<1>5. CASE SendErr(c)
  <2>1. /\ pc[c] = "sendErr" /\ pc'[c] = "closeErrs"
        /\ errs'[c] = <<err[c]>>
        /\ UNCHANGED <<err, open, reader, verdict>>
    BY <1>0, <1>5 DEF SendErr, Goto, consumerVars
  <2> QED BY <2>1
<1>6. CASE CloseErrs(c)
  <2>1. /\ pc[c] = "closeErrs" /\ pc'[c] = "closeStates"
        /\ open'[c] = open[c] \ {"errs"}
        /\ UNCHANGED <<err, errs, reader, verdict>>
    BY <1>0, <1>6 DEF CloseErrs, Goto, consumerVars
  <2> QED BY <2>1
<1>7. CASE CloseStates(c)
  <2>1. /\ pc[c] = "closeStates" /\ pc'[c] = "returned"
        /\ open'[c] = open[c] \ {"states"}
        /\ UNCHANGED <<err, errs, reader, verdict>>
    BY <1>0, <1>7 DEF CloseStates, Goto, consumerVars
  <2> QED BY <2>1
<1>8. CASE Cancel(c)
  BY <1>8 DEF Cancel, loopVars, channelVars, consumerVars
<1>9. CASE StopReading(c) \/ SeeStatesEnd(c)
  <2>1. /\ reader[c] = "reading" /\ reader'[c] \in {"left", "atErrs"}
        /\ reader'[c] = "atErrs" => "states" \notin open[c]
        /\ UNCHANGED <<pc, err, errs, open, verdict>>
    BY <1>0, <1>9
    DEF StopReading, SeeStatesEnd, loopVars, channelVars
  <2> QED BY <2>1
<1>10. CASE ReadVerdict(c)
  <2>1. /\ reader[c] = "atErrs" /\ reader'[c] = "done" /\ errs'[c] = <<>>
        /\ verdict'[c] = IF errs[c] = <<>> THEN "none" ELSE Head(errs[c])
        /\ UNCHANGED <<pc, err, open>>
    BY <1>0, <1>10 DEF ReadVerdict, loopVars
  <2>2. /\ pc[c] = "returned"
        /\ errs[c] = IF err[c] = "none" THEN <<>> ELSE <<err[c]>>
    BY <2>1
  <2>3. verdict'[c] = err[c]
    <3>1. CASE err[c] = "none"
      BY <2>1, <2>2, <3>1
    <3>2. CASE err[c] # "none"
      <4>1. errs[c] = <<err[c]>>
        BY <2>2, <3>2
      <4>2. errs[c] # <<>> /\ Head(errs[c]) = err[c]
        BY <4>1
      <4> QED BY <2>1, <4>2
    <3> QED BY <3>1, <3>2
  <2> QED BY <2>1, <2>2, <2>3
<1> QED BY <1>2, <1>3, <1>4, <1>5, <1>6, <1>7, <1>8, <1>9, <1>10, StreamFrame
        DEF CallStep

LEMMA OfferStep ==
  ASSUME TypeInv, SaveInv, NEW c \in Caller, Streams(c), ReceivedInv(c),
         PaceInv(c), OfferInv(c), CallStep(c), [Next]_vars
  PROVE  OfferInv(c)'
<1> DEFINE t == ThreadOf(c)
<1>0. /\ pc \in [Caller -> PC] /\ t \in Thread /\ t' = t
      /\ runner' = runner /\ \A k : SaveDue(k)' = SaveDue(k)
  BY CallFacts, Fixed DEF TypeInv, TypeOK, SaveDue, ThreadOf
<1>1. ASSUME NEW s, IsSaved(t, s)
      PROVE  \E k \in DOMAIN saved'[t] : saved'[t][k].state = s
  BY <1>0, <1>1, SavedGrows
<1> HIDE DEF t
<1>2. /\ pc[c] = "offer" /\ SaveDue(LastStep(state[c])) => IsSaved(t, state[c])
      /\ \A i \in DOMAIN received[c] : SaveDue(i) => IsSaved(t, received[c][i])
  BY DEF OfferInv, t
<1> DEFINE Saved(s) == \E k \in DOMAIN saved'[t] : saved'[t][k].state = s
<1>3. SUFFICES
        /\ pc'[c] = "offer" /\ SaveDue(LastStep(state'[c])) => Saved(state'[c])
        /\ \A i \in DOMAIN received'[c] : SaveDue(i) => Saved(received'[c][i])
  BY <1>0 DEF OfferInv, IsSaved, t, SaveDue, LastStep
<1>4. \A s : IsSaved(t, s) => Saved(s)
  BY <1>1
<1> HIDE DEF Saved
<1>5. CASE Deliver(c)
  <2>1. /\ pc[c] = "offer" /\ pc'[c] # "offer"
    BY <1>0, <1>5 DEF Deliver, Goto
  <2>2. /\ LastStep(state[c]) = Len(state[c])
        /\ DOMAIN received'[c] = 1..Len(state[c])
        /\ \A i \in DOMAIN received[c] : received'[c][i] = received[c][i]
        /\ received'[c][Len(state[c])] = state[c]
        /\ Len(received[c]) = Len(state[c]) - 1
    BY <1>5, <2>1, StreamDelivery DEF PaceInv, TypeInv
  <2>3. DOMAIN received[c] = 1..Len(received[c]) /\ Len(state[c]) \in Nat
    BY DEF TypeInv, TypeOK, SuperSteps
  <2>4. \A i \in DOMAIN received'[c] : i = Len(state[c]) \/ i \in DOMAIN received[c]
    BY <2>2, <2>3
  <2> QED BY <1>2, <1>4, <2>1, <2>2, <2>4
<1>6. CASE ~Deliver(c) /\ received'[c] = received[c]
  <2>1. \A i \in DOMAIN received'[c] : SaveDue(i) => Saved(received'[c][i])
    BY <1>2, <1>4, <1>6
  <2>2. ASSUME pc'[c] = "offer", SaveDue(LastStep(state'[c]))
        PROVE  Saved(state'[c])
    <3>1. CASE SuperStep(c)
      <4>1. /\ LastStep(state[c]) = Len(state[c])
            /\ LastStep(state'[c]) = Len(state[c]) + 1
        BY <3>1, StreamSuperStep DEF TypeInv
      <4>2. ~SaveDue(LastStep(state[c]) + 1)
        BY <1>0, <2>2, <3>1 DEF SuperStep, Goto, AfterSuperStep
      <4> QED BY <2>2, <4>1, <4>2
    <3>2. CASE SaveEnds(c)
      <4>1. state[c] # <<>> /\ Last(state[c]).nodes # {} /\ state'[c] = state[c]
        BY <3>2 DEF SaveEnds, SaveInv
      <4>2. Last(hist[c]) = CheckpointOf(c)
        BY <3>2, <4>1, HistoryToStore DEF SaveEnds, SaveInv
      <4>3. /\ CheckpointOf(c) \in Checkpoint /\ CheckpointOf(c).state = state[c]
            /\ saved[t] \in Seq(Checkpoint)
        BY <1>0, <4>1, CheckpointType DEF TypeInv
      <4>4. saved'[t] = Append(saved[t], CheckpointOf(c))
        BY <1>0, <3>2, <4>2 DEF SaveEnds, SaveStores, TypeInv, t
      <4>5. /\ Len(saved[t]) + 1 \in DOMAIN saved'[t]
            /\ saved'[t][Len(saved[t]) + 1] = CheckpointOf(c)
        <5> DEFINE h == saved[t]
                   cp == CheckpointOf(c)
        <5>1. h \in Seq(Checkpoint) /\ cp \in Checkpoint
          BY <4>3
        <5> HIDE DEF h, cp
        <5>2. /\ DOMAIN Append(h, cp) = 1..(Len(h) + 1) /\ Len(h) \in Nat
              /\ Append(h, cp)[Len(h) + 1] = cp
          BY <5>1, AppendTypes, LenProperties
        <5>3. Len(h) + 1 \in 1..(Len(h) + 1)
          BY <5>2
        <5> QED BY <4>4, <5>2, <5>3 DEF h, cp
      <4> QED BY <4>1, <4>3, <4>5 DEF Saved
    <3>3. CASE pc[c] = "offer" /\ state'[c] = state[c]
      BY <1>2, <1>4, <2>2, <3>3
    <3>4. ~(Begin(c) \/ Route(c) \/ SaveBegins(c) \/ SendErr(c) \/ CloseErrs(c)
            \/ CloseStates(c))
      BY <1>0, <2>2 DEF Begin, Route, SaveBegins, SendErr, CloseErrs,
         CloseStates, Goto
    <3>5. ASSUME NEW e \in ErrKind, Halts(c, e) PROVE FALSE
      BY <2>2, <3>5, FinishEffect DEF Halts, TypeInv
    <3>6. CASE Cancel(c) \/ StopReading(c) \/ SeeStatesEnd(c) \/ ReadVerdict(c)
      BY <2>2, <3>3, <3>6
      DEF Cancel, StopReading, SeeStatesEnd, ReadVerdict, loopVars
    <3> QED BY <1>6, <3>1, <3>2, <3>4, <3>5, <3>6, StreamFrame DEF CallStep
  <2> QED BY <2>1, <2>2
<1> QED BY <1>5, <1>6, StreamFrame

LEMMA StreamStep ==
  ASSUME TypeInv, SaveInv, StreamInv, [Next]_vars
  PROVE  StreamInv'
<1>0. TypeOK /\ runner' = runner /\ plan' = plan
  BY Fixed DEF TypeInv
<1> SUFFICES ASSUME NEW d \in Caller
             PROVE  IF Streams(d)
                    THEN /\ ReceivedInv(d)' /\ PaceInv(d)'
                         /\ ChannelInv(d)' /\ OfferInv(d)'
                    ELSE PlainInv(d)'
  BY <1>0 DEF StreamInv, Streams
<1>1. IF Streams(d)
      THEN ReceivedInv(d) /\ PaceInv(d) /\ ChannelInv(d) /\ OfferInv(d)
      ELSE PlainInv(d)
  BY DEF StreamInv
<1>2. CASE CallStep(d)
  BY <1>0, <1>1, <1>2, PlainStep, ReceivedStep, PaceStep, ChannelStep, OfferStep
<1>3. CASE /\ pc'[d] = pc[d] /\ state'[d] = state[d] /\ err'[d] = err[d]
           /\ errs'[d] = errs[d] /\ open'[d] = open[d]
           /\ reader'[d] = reader[d] /\ received'[d] = received[d]
           /\ verdict'[d] = verdict[d]
  <2>1. ~Streams(d) => PlainInv(d)'
    BY <1>1, <1>3 DEF PlainInv
  <2>2. Streams(d) => ReceivedInv(d)' /\ PaceInv(d)' /\ ChannelInv(d)'
    BY <1>1, <1>3 DEF ReceivedInv, PaceInv, ChannelInv
  <2>3. Streams(d) => OfferInv(d)'
    <3> DEFINE t == ThreadOf(d)
    <3>1. t \in Thread /\ t' = t /\ \A k : SaveDue(k)' = SaveDue(k)
      BY <1>0, CallFacts DEF ThreadOf, SaveDue
    <3>2. ASSUME NEW s, IsSaved(t, s)
          PROVE  \E k \in DOMAIN saved'[t] : saved'[t][k].state = s
      BY <3>1, <3>2, SavedGrows
    <3> HIDE DEF t
    <3> DEFINE Saved(s) == \E k \in DOMAIN saved'[t] : saved'[t][k].state = s
    <3>3. \A s : IsSaved(t, s) => Saved(s)
      BY <3>2
    <3> HIDE DEF Saved
    <3>4. ASSUME Streams(d)
          PROVE  /\ pc'[d] = "offer" /\ SaveDue(LastStep(state'[d])) =>
                      Saved(state'[d])
                 /\ \A i \in DOMAIN received'[d] :
                      SaveDue(i) => Saved(received'[d][i])
      BY <1>1, <1>3, <3>3, <3>4 DEF OfferInv, t
    <3> QED BY <1>0, <3>1, <3>4 DEF OfferInv, IsSaved, Saved, t, LastStep, SaveDue
  <2> QED BY <2>1, <2>2, <2>3
<1>4. CASE UNCHANGED vars
  BY <1>3, <1>4 DEF vars, loopVars, channelVars, consumerVars
<1>5. ASSUME NEW c \in Caller, CallStep(c), c # d
      PROVE  /\ pc'[d] = pc[d] /\ state'[d] = state[d] /\ err'[d] = err[d]
             /\ errs'[d] = errs[d] /\ open'[d] = open[d]
             /\ reader'[d] = reader[d] /\ received'[d] = received[d]
             /\ verdict'[d] = verdict[d]
  BY <1>0, <1>5, OthersKeep
<1> QED BY <1>2, <1>3, <1>4, <1>5, NextCases

-----------------------------------------------------------------------------
(* The theorems.                                                           *)

LEMMA IInvInit == Init => IInv
<1> SUFFICES ASSUME Init PROVE IInv
  OBVIOUS
<1>1. /\ pc = [c \in Caller |-> "idle"] /\ state = [c \in Caller |-> <<>>]
      /\ received = [c \in Caller |-> <<>>] /\ errs = [c \in Caller |-> <<>>]
      /\ open = [c \in Caller |-> {"states", "errs"}]
      /\ reader = [c \in Caller |-> "reading"]
      /\ mu = {}
      /\ threads = [t \in Thread |-> <<>>] /\ saved = [t \in Thread |-> <<>>]
  BY DEF Init, CheckpointerInit
<1>2. LockInv /\ SaveInv
  BY <1>1 DEF LockInv, SaveInv
<1>3. NewestInv
  <2>1. \A t \in Thread : threads[t] = <<>> /\ saved[t] = <<>>
    BY <1>1
  <2>2. \A m \in Nat : Newest(<<>>, <<>>, m)
    <3>1. Len(<<>>) = 0 /\ DOMAIN <<>> = {}
      OBVIOUS
    <3>2. \A i \in DOMAIN <<>> : FALSE
      BY <3>1
    <3> QED BY <3>1, <3>2 DEF Newest
  <2>3. runner.maxHistory \in Nat
    BY TypeInit, CallFacts DEF TypeInv
  <2> QED BY <2>1, <2>2, <2>3 DEF NewestInv
<1>4. StreamInv
  <2> SUFFICES ASSUME NEW c \in Caller
               PROVE  /\ ReceivedInv(c) /\ PaceInv(c) /\ ChannelInv(c)
                      /\ OfferInv(c) /\ PlainInv(c)
    BY DEF StreamInv
  <2>1. /\ pc[c] = "idle" /\ state[c] = <<>> /\ received[c] = <<>>
        /\ errs[c] = <<>> /\ open[c] = {"states", "errs"}
        /\ reader[c] = "reading"
    BY <1>1
  <2> QED BY <2>1 DEF ReceivedInv, PaceInv, ChannelInv, OfferInv, PlainInv
<1> QED BY <1>2, <1>3, <1>4, TypeInit DEF IInv

LEMMA Invariance == Spec => []IInv
<1>1. IInv /\ [Next]_vars => IInv'
  BY TypeStep, LockStep, SaveStep, NewestStep, StreamStep DEF IInv
<1> QED BY <1>1, IInvInit, PTL DEF Spec

(* Every variable keeps its type in every reachable state, whatever calls  *)
(* are made at once: the mutex has one holder at most, the error channel   *)
(* one error, and every checkpoint names a node (checkpoint.go,            *)
(* runner.go:277-340).                                                     *)
THEOREM TypeCorrect == Spec => []TypeOK
<1>1. IInv => TypeOK
  BY DEF IInv, TypeInv
<1> QED BY <1>1, Invariance, PTL

(* Calls that save on one thread at the same time lose none of each        *)
(* other's checkpoints, for any number of them and any maxHistory          *)
(* (checkpoint.go).                                                        *)
THEOREM SavesAreKept == Spec => []NoLostSave
<1>1. ASSUME IInv, NEW t \in Thread
      PROVE  /\ IsSuffix(threads[t], saved[t])
             /\ Len(threads[t]) =
                  IF runner.maxHistory = 0 THEN Len(saved[t])
                  ELSE Min({runner.maxHistory, Len(saved[t])})
  <2> DEFINE h == threads[t]
             s == saved[t]
             m == runner.maxHistory
  <2>1. h \in Seq(Checkpoint) /\ s \in Seq(Checkpoint) /\ m \in Nat
    BY <1>1, CallFacts DEF IInv, TypeInv
  <2>2. Newest(h, s, m)
    BY <1>1 DEF IInv, NewestInv
  <2> HIDE DEF h, s, m
  <2>3. /\ Len(h) <= Len(s)
        /\ \A i \in DOMAIN h : h[i] = s[(Len(s) - Len(h)) + i]
    BY <2>2 DEF Newest
  <2>4. IsSuffix(h, s)
    BY <2>1, <2>3, SuffixByElements
  <2>5. Len(s) \in Nat
    BY <2>1
  <2>6. ASSUME NEW n \in Nat PROVE Min({m, n}) = IF n <= m THEN n ELSE m
    BY <2>1 DEF Min
  <2>7. Len(h) = IF m = 0 THEN Len(s) ELSE Min({m, Len(s)})
    BY <2>1, <2>2, <2>5, <2>6 DEF Newest
  <2> QED BY <2>4, <2>7 DEF h, s, m
<1>2. IInv => NoLostSave
  BY <1>1 DEF NoLostSave
<1> QED BY <1>2, Invariance, PTL

(* A stream's consumer receives the states after super-steps 1, 2, 3 and   *)
(* so on, all of them and each once (runner.go:279-281).                   *)
THEOREM InOrder == Spec => []DeliveredInOrder
<1>1. ASSUME IInv, NEW c \in Caller
      PROVE  /\ \A i \in DOMAIN received[c] :
                  /\ Len(received[c][i]) = i
                  /\ \A k \in 1..i : /\ received[c][i][k].step = k
                                     /\ received[c][i][k].by = c
                  /\ IsPrefix(received[c][i], state[c])
             /\ Streams(c) /\ pc[c] \in {"loop", "route"} =>
                  Len(received[c]) = Len(state[c])
  <2>1. CASE ~Streams(c)
    <3>1. received[c] = <<>>
      BY <1>1, <2>1 DEF IInv, StreamInv, PlainInv
    <3> QED BY <2>1, <3>1
  <2>2. CASE Streams(c)
    <3>1. ReceivedInv(c) /\ PaceInv(c)
      BY <1>1, <2>2 DEF IInv, StreamInv
    <3>2. state[c] \in Seq(OneStep) /\ received[c] \in Seq(Seq(OneStep))
      BY <1>1 DEF IInv, TypeInv, TypeOK, SuperSteps, OneStep
    <3>3. ASSUME NEW i \in DOMAIN received[c]
          PROVE  /\ Len(received[c][i]) = i
                 /\ \A k \in 1..i : /\ received[c][i][k].step = k
                                    /\ received[c][i][k].by = c
                 /\ IsPrefix(received[c][i], state[c])
      <4> DEFINE r == received[c][i]
                 s == state[c]
      <4>1. r \in Seq(OneStep) /\ s \in Seq(OneStep)
        BY <3>2
      <4>2. Len(r) = i /\ \A k \in 1..i : r[k] = s[k]
        BY <3>1 DEF ReceivedInv
      <4>3. i <= Len(s) /\ i \in Nat
        <5>1. DOMAIN received[c] = 1..Len(received[c])
          BY <3>2
        <5>2. Len(received[c]) <= Len(s)
          BY <3>1 DEF ReceivedInv
        <5>3. Len(received[c]) \in Nat /\ Len(s) \in Nat
          BY <3>2
        <5> QED BY <5>1, <5>2, <5>3
      <4>4. \A k \in DOMAIN s : s[k].step = k /\ s[k].by = c
        BY <3>1 DEF ReceivedInv
      <4> HIDE DEF r, s
      <4>5. \A k \in 1..i : k \in DOMAIN s
        BY <4>1, <4>3
      <4>6. IsPrefix(r, s)
        BY <4>1, <4>2, <4>3, PrefixByElements
      <4> QED BY <4>2, <4>4, <4>5, <4>6 DEF r, s
    <3> QED BY <3>1, <3>3 DEF PaceInv
  <2> QED BY <2>1, <2>2
<1>2. IInv => DeliveredInOrder
  BY <1>1 DEF DeliveredInOrder
<1> QED BY <1>2, Invariance, PTL

(* Who reads the states to their end and then the error channel learns how *)
(* the run ended, and has every state it reached save one that a           *)
(* cancellation or a failed save withheld (runner.go:288-294).             *)
THEOREM VerdictIsTrue == Spec => []VerdictArrives
<1>1. ASSUME IInv, NEW c \in Caller
      PROVE  /\ reader[c] = "atErrs" => errs[c] # <<>> \/ "errs" \notin open[c]
             /\ reader[c] = "done" =>
                  /\ verdict[c] = err[c]
                  /\ \/ Len(received[c]) = Len(state[c])
                     \/ /\ verdict[c] \in {"ctx", "save", "panic"}
                        /\ Len(received[c]) = Len(state[c]) - 1
  <2>1. CASE ~Streams(c)
    BY <1>1, <2>1 DEF IInv, StreamInv, PlainInv
  <2>2. CASE Streams(c)
    BY <1>1, <2>2 DEF IInv, StreamInv, ChannelInv, PaceInv, Withheld
  <2> QED BY <2>1, <2>2
<1>2. IInv => VerdictArrives
  BY <1>1 DEF VerdictArrives
<1> QED BY <1>2, Invariance, PTL

(* What a consumer has seen of a due super-step the checkpointer has: the  *)
(* save comes before the select (runner.go:315-329).                       *)
THEOREM SavedFirst == Spec => []SavedBeforeShown
<1>1. ASSUME IInv, NEW c \in Caller, NEW i \in DOMAIN received[c], SaveDue(i)
      PROVE  \E k \in DOMAIN saved[ThreadOf(c)] :
               saved[ThreadOf(c)][k].state = received[c][i]
  <2>1. CASE ~Streams(c)
    BY <1>1, <2>1 DEF IInv, StreamInv, PlainInv
  <2>2. CASE Streams(c)
    BY <1>1, <2>2 DEF IInv, StreamInv, OfferInv, IsSaved
  <2> QED BY <2>1, <2>2
<1>2. IInv => SavedBeforeShown
  BY <1>1 DEF SavedBeforeShown
<1> QED BY <1>2, Invariance, PTL
=============================================================================
