-------------------------- MODULE MemoryCheckpointer --------------------------
(***************************************************************************)
(* The in-memory Checkpointer (pkg/graph/checkpoint.go): per thread a      *)
(* history of checkpoints behind one mutex, at the grain of what happens   *)
(* between taking the mutex and releasing it.                              *)
(***************************************************************************)
EXTENDS Naturals, SequencesExt

CONSTANTS
  Caller,   \* goroutines that use the checkpointer
  Thread    \* thread IDs

VARIABLES
  mu,       \* who holds the mutex for writing: at most one
  threads,  \* the histories
  hist,     \* Save's local history, between reading the map and storing it
  saved     \* history variable: every checkpoint stored, in that order

checkpointerVars == <<mu, threads, hist, saved>>

CheckpointerInit ==
  /\ mu = {}
  /\ threads = [t \in Thread |-> <<>>]
  /\ hist = [c \in Caller |-> <<>>]
  /\ saved = [t \in Thread |-> <<>>]

(* sync.RWMutex (external): neither a writer nor a reader gets in while a  *)
(* writer holds it.                                                        *)
NeverBlocks == TRUE
Unlocked == mu = {}

(* The newest maxHistory checkpoints, 0 for all of them.                   *)
Retain(h, maxHistory) ==
  IF maxHistory > 0 /\ Len(h) > maxHistory
  THEN SubSeq(h, Len(h) - maxHistory + 1, Len(h))
  ELSE h

(* Save takes the mutex, reads the thread's history and appends to it ...  *)
SaveReads(c, t, cp, maxHistory) ==
  /\ Unlocked
  /\ mu' = mu \cup {c}
  /\ hist' = [hist EXCEPT ![c] = Retain(Append(threads[t], cp), maxHistory)]
  /\ UNCHANGED <<threads, saved>>

(* ... stores the result and releases the mutex.                           *)
SaveStores(c, t) ==
  /\ mu' = mu \ {c}
  /\ threads' = [threads EXCEPT ![t] = hist[c]]
  /\ saved' = [saved EXCEPT ![t] = Append(@, Last(hist[c]))]
  /\ hist' = [hist EXCEPT ![c] = <<>>]

(* LoadLatest, under the read lock: nothing, or the newest checkpoint.     *)
LatestOf(t) == Last(threads[t])

LoadFinds(t) == Unlocked /\ threads[t] # <<>>
LoadFindsNothing(t) == Unlocked /\ threads[t] = <<>>
=============================================================================
