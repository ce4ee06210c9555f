------------------------------ MODULE GraphRun -------------------------------
(***************************************************************************)
(* What a Runner promises the caller of RunWithThread and Resume           *)
(* (pkg/graph/runner.go), with no goroutine, snapshot or fan-in in sight:  *)
(* a thread's run is a sequence of atomic super-steps.  A super-step       *)
(* happens whole, with every update of the frontier reduced in ID order    *)
(* and every node reading the state the step began with, or it leaves the  *)
(* state alone and the call returns.                                       *)
(*                                                                         *)
(* GraphRunner implements this module.                                     *)
(***************************************************************************)
EXTENDS GraphTopology, SequencesExt

CONSTANT Runners   \* compiled Runners, configuration included

VARIABLES
  runner,     \* the Runner, immutable
  phase,      \* what comes next: "step", "save", "route", or "returned"
  frontier,   \* the nodes of the next super-step
  state,      \* the graph state, as the sequence of updates it is made of
  history     \* the thread's checkpoints

vars == <<runner, phase, frontier, state, history>>

LastStep(s) == IF s = <<>> THEN 0 ELSE Last(s).step

(* t is s after one super-step over the frontier f.                        *)
IsSuperStep(s, t, f) ==
  /\ IsPrefix(s, t)
  /\ Len(t) = Len(s) + Cardinality(f)
  /\ f = { t[i].node : i \in (Len(s) + 1)..Len(t) }
  /\ \A i \in (Len(s) + 1)..Len(t) :
       /\ t[i].step = LastStep(s) + 1
       /\ t[i].read = Len(s)
       /\ \A j \in (i + 1)..Len(t) : t[i].node < t[j].node

(* MemoryCheckpointer.Save keeps the newest maxHistory checkpoints.        *)
Kept(hist) ==
  LET k == runner.maxHistory
  IN IF k = 0 \/ Len(hist) <= k THEN hist
     ELSE [i \in 1..k |-> hist[Len(hist) - k + i]]

SavedHistory ==
  Kept(Append(history, [ node |-> Last(state).node, step |-> LastStep(state),
                         state |-> state ]))

SaveDue ==
  runner.checkpointer /\ LastStep(state) % runner.checkpointInterval = 0

Init ==
  /\ runner \in Runners
  /\ phase = "step"
  /\ frontier = {runner.entry}
  /\ state = <<>>
  /\ history = <<>>

SuperStep ==
  /\ phase = "step"
  /\ frontier # {}
  /\ LastStep(state) < runner.recursionLimit
  /\ phase' = "save"
  /\ IsSuperStep(state, state', frontier)
  /\ UNCHANGED <<runner, frontier, history>>

Checkpointed ==
  /\ phase = "save"
  /\ phase' = "route"
  /\ history' = IF SaveDue THEN SavedHistory ELSE history
  /\ UNCHANGED <<runner, frontier, state>>

Routing ==
  /\ phase = "route"
  /\ phase' = "step"
  /\ frontier' \in NextFrontiers(runner, frontier)
  /\ UNCHANGED <<runner, state, history>>

(* A call returns its state as the last whole super-step left it; only a   *)
(* checkpointer that stored and still failed makes a difference.           *)
Returns ==
  /\ phase # "returned"
  /\ phase' = "returned"
  /\ history' \in {history} \cup
       (IF phase = "save" /\ SaveDue THEN {SavedHistory} ELSE {})
  /\ UNCHANGED <<runner, frontier, state>>

(* Resume takes the latest checkpoint up, or fails and returns nothing.    *)
Resumes ==
  /\ phase = "returned"
  /\ history # <<>>
  /\ state' = Last(history).state
  /\ frontier' \in NextFrontiers(runner, {Last(history).node})
  /\ phase' = IF frontier' = {} THEN "returned" ELSE "step"
  /\ UNCHANGED <<runner, history>>

ResumeRefused ==
  /\ phase = "returned"
  /\ state' = <<>>
  /\ frontier' = {}
  /\ UNCHANGED <<runner, phase, history>>

Next == SuperStep \/ Checkpointed \/ Routing \/ Returns \/ Resumes
          \/ ResumeRefused

Spec == Init /\ [][Next]_vars
=============================================================================
