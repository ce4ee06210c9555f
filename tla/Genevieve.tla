------------------------------- MODULE Genevieve -------------------------------
(***************************************************************************)
(* The provider registry (pkg/llm/router.go) and the queries over it, Ask  *)
(* and AskAll (pkg/llm/gen.go): registrations, lookups and fan-outs that   *)
(* run concurrently, at the grain of what happens between taking a lock    *)
(* and releasing it.                                                       *)
(*                                                                         *)
(* A provider is known by the goroutine that registers it, an answer by    *)
(* the provider that gave it.                                              *)
(***************************************************************************)
EXTENDS Naturals, SequencesExt

CONSTANTS
  Registrar,  \* goroutines that call Register, each with its provider
  Asker,      \* goroutines that call Ask or AskAll
  Name,       \* provider names
  Empty, All, \* the empty name; what AskAll asks for
  Offers,     \* the names of the registrars' providers, "nil" for nil
  Asks,       \* what the askers ask: a name, or All
  Mutes       \* providers that answer only once the context is done

ASSUME GenevieveAssumption ==
  /\ {Empty, All} \cap Name = {} /\ Empty # All
  /\ Offers \subseteq [Registrar -> Name \cup {Empty, "nil"}]
  /\ Asks \subseteq [Asker -> Name \cup {All}]
  /\ Mutes \subseteq SUBSET Registrar

VARIABLES
  offer, ask, mute,  \* the calls and the providers, fixed
  providers,  \* the registry: names to providers
  writer,     \* who holds its RWMutex for writing
  readers,    \* who holds it for reading
  reg,        \* where each registrar is
  exists,     \* what its lookup found
  outcome,    \* what Register returned
  pc,         \* where each asker is
  ctxDone,    \* its context is cancelled
  snapshot,   \* the providers it asks
  gor,        \* the goroutine per name of its snapshot
  resultsMu,  \* who holds AskAll's mutex
  view,       \* the results a goroutine found, before it adds its own
  results,    \* names to answers
  known,      \* history variable: the registry when the call began
  crashed     \* a provider panicked: the program is gone

fixedVars == <<offer, ask, mute>>
lockVars == <<writer, readers>>
registerVars == <<reg, exists, outcome>>
askVars == <<pc, ctxDone, snapshot, gor, resultsMu, view, results, known>>
vars == <<fixedVars, providers, lockVars, registerVars, askVars, crashed>>

Nobody == [n \in {} |-> Empty]

(* The Go map f after f[x] = y.                                            *)
Put(f, x, y) == [z \in DOMAIN f \cup {x} |-> IF z = x THEN y ELSE f[z]]

Init ==
  /\ offer \in Offers /\ ask \in Asks /\ mute \in Mutes
  /\ providers = Nobody
  /\ writer = {} /\ readers = {}
  /\ reg = [r \in Registrar |-> "idle"]
  /\ exists = [r \in Registrar |-> FALSE]
  /\ outcome = [r \in Registrar |-> "none"]
  /\ pc = [a \in Asker |-> "idle"]
  /\ ctxDone = [a \in Asker |-> FALSE]
  /\ snapshot = [a \in Asker |-> Nobody]
  /\ gor = [a \in Asker |-> [n \in Name |-> "idle"]]
  /\ resultsMu = [a \in Asker |-> {}]
  /\ view = [a \in Asker |-> [n \in Name |-> Nobody]]
  /\ results = [a \in Asker |-> Nobody]
  /\ known = [a \in Asker |-> Nobody]
  /\ crashed = FALSE

(* sync.RWMutex and sync.Mutex (external).                                 *)
AlwaysFree == TRUE
LockFree == writer = {} /\ readers = {}
RLockFree == writer = {}
ResultsUnguarded(a) == TRUE
ResultsFree(a) == resultsMu[a] = {}

-----------------------------------------------------------------------------
(* Register: a nil or nameless provider is refused before the lock.        *)
Refuses(r) ==
  /\ reg[r] = "idle"
  /\ offer[r] \in {"nil", Empty}
  /\ reg' = [reg EXCEPT ![r] = "done"]
  /\ outcome' = [outcome EXCEPT ![r] = "refused"]
  /\ UNCHANGED <<fixedVars, providers, lockVars, exists, askVars, crashed>>

Calls(r) ==
  /\ reg[r] = "idle"
  /\ offer[r] \in Name
  /\ reg' = [reg EXCEPT ![r] = "lock"]
  /\ UNCHANGED <<fixedVars, providers, lockVars, exists, outcome, askVars,
                 crashed>>

LooksUp(r) ==
  /\ reg[r] = "lock"
  /\ LockFree
  /\ writer' = writer \cup {r}
  /\ exists' = [exists EXCEPT ![r] = offer[r] \in DOMAIN providers]
  /\ reg' = [reg EXCEPT ![r] = "store"]
  /\ UNCHANGED <<fixedVars, providers, readers, outcome, askVars, crashed>>

Stores(r) ==
  /\ reg[r] = "store"
  /\ IF exists[r]
     THEN /\ outcome' = [outcome EXCEPT ![r] = "duplicate"]
          /\ UNCHANGED providers
     ELSE /\ outcome' = [outcome EXCEPT ![r] = "ok"]
          /\ providers' = Put(providers, offer[r], r)
  /\ writer' = writer \ {r}
  /\ reg' = [reg EXCEPT ![r] = "done"]
  /\ UNCHANGED <<fixedVars, readers, exists, askVars, crashed>>

-----------------------------------------------------------------------------
(* Ask and AskAll.                                                         *)
CallsAsk(a) ==
  /\ pc[a] = "idle"
  /\ pc' = [pc EXCEPT ![a] = "lock"]
  /\ known' = [known EXCEPT ![a] = providers]
  /\ UNCHANGED <<fixedVars, providers, lockVars, registerVars, ctxDone,
                 snapshot, gor, resultsMu, view, results, crashed>>

(* Get and GetAll take the read lock ...                                   *)
Locks(a) ==
  /\ pc[a] = "lock"
  /\ RLockFree
  /\ readers' = readers \cup {a}
  /\ pc' = [pc EXCEPT ![a] = "copy"]
  /\ UNCHANGED <<fixedVars, providers, writer, registerVars, ctxDone, snapshot,
                 gor, resultsMu, view, results, known, crashed>>

Wanted(a) ==
  IF ask[a] = All THEN providers
  ELSE Restrict(providers, DOMAIN providers \cap {ask[a]})

(* ... and release it once they have a copy: the fan-out is made without.  *)
HeldByAskAll(a) == IF ask[a] = All THEN {} ELSE {a}
Released(a) == {a}

Copies(a) ==
  /\ pc[a] = "copy"
  /\ readers' = readers \ Released(a)
  /\ snapshot' = [snapshot EXCEPT ![a] = Wanted(a)]
  /\ pc' = [pc EXCEPT ![a] = IF ask[a] \in Name /\ Wanted(a) = Nobody
                             THEN "notfound" ELSE "asking"]
  /\ gor' = [gor EXCEPT ![a] =
               [n \in Name |-> IF n \in DOMAIN Wanted(a) THEN "running"
                               ELSE "idle"]]
  /\ UNCHANGED <<fixedVars, providers, writer, registerVars, ctxDone,
                 resultsMu, view, results, known, crashed>>

(* Generate returns, with a response or an error; a mute provider returns  *)
(* when the context is done.  Ask hands its answer on ...                  *)
Answers(a, n) ==
  /\ gor[a][n] = "running"
  /\ snapshot[a][n] \in mute => ctxDone[a]

AnswersAsk(a, n) ==
  /\ ask[a] = n
  /\ Answers(a, n)
  /\ results' = [results EXCEPT ![a] = Put(@, n, snapshot[a][n])]
  /\ gor' = [gor EXCEPT ![a][n] = "done"]
  /\ UNCHANGED <<fixedVars, providers, lockVars, registerVars, pc, ctxDone,
                 snapshot, resultsMu, view, known, crashed>>

(* ... and AskAll's goroutine takes the mutex ...                          *)
Generates(a, n) ==
  /\ ask[a] = All
  /\ Answers(a, n)
  /\ gor' = [gor EXCEPT ![a][n] = "answered"]
  /\ UNCHANGED <<fixedVars, providers, lockVars, registerVars, pc, ctxDone,
                 snapshot, resultsMu, view, results, known, crashed>>

StartsResult(a, n) ==
  /\ gor[a][n] = "answered"
  /\ ResultsFree(a)
  /\ resultsMu' = [resultsMu EXCEPT ![a] = @ \cup {n}]
  /\ view' = [view EXCEPT ![a][n] = results[a]]
  /\ gor' = [gor EXCEPT ![a][n] = "writing"]
  /\ UNCHANGED <<fixedVars, providers, lockVars, registerVars, pc, ctxDone,
                 snapshot, results, known, crashed>>

(* ... writes its entry of the map, and releases it.                       *)
StoresResult(a, n) ==
  /\ gor[a][n] = "writing"
  /\ results' = [results EXCEPT ![a] = Put(view[a][n], n, snapshot[a][n])]
  /\ resultsMu' = [resultsMu EXCEPT ![a] = @ \ {n}]
  /\ view' = [view EXCEPT ![a][n] = Nobody]
  /\ gor' = [gor EXCEPT ![a][n] = "done"]
  /\ UNCHANGED <<fixedVars, providers, lockVars, registerVars, pc, ctxDone,
                 snapshot, known, crashed>>

(* wg.Wait; for Ask, the one call's return.                                *)
FirstDone(a) == \E n \in DOMAIN snapshot[a] : gor[a][n] = "done"
AllDone(a) == \A n \in DOMAIN snapshot[a] : gor[a][n] = "done"

Returns(a) ==
  /\ pc[a] = "asking"
  /\ AllDone(a)
  /\ pc' = [pc EXCEPT ![a] = "returned"]
  /\ readers' = readers \ {a}
  /\ UNCHANGED <<fixedVars, providers, writer, registerVars, ctxDone, snapshot,
                 gor, resultsMu, view, results, known, crashed>>

Cancel(a) ==
  /\ pc[a] \in {"lock", "copy", "asking"}
  /\ ~ctxDone[a]
  /\ ctxDone' = [ctxDone EXCEPT ![a] = TRUE]
  /\ UNCHANGED <<fixedVars, providers, lockVars, registerVars, pc, snapshot,
                 gor, resultsMu, view, results, known, crashed>>

(* Nothing recovers a provider's panic on one of AskAll's goroutines; on   *)
(* Ask's it is the caller's.                                               *)
Panics(a, n) ==
  /\ ask[a] = All
  /\ gor[a][n] = "running"
  /\ snapshot[a][n] \notin mute
  /\ crashed' = TRUE
  /\ UNCHANGED <<fixedVars, providers, lockVars, registerVars, askVars>>

Registers(r) == ~crashed /\ (Refuses(r) \/ Calls(r) \/ LooksUp(r) \/ Stores(r))
Looks(a) == ~crashed /\ (Locks(a) \/ Copies(a) \/ Returns(a))
Queries(a, n) ==
  /\ ~crashed
  /\ \/ AnswersAsk(a, n) \/ Generates(a, n)
     \/ StartsResult(a, n) \/ StoresResult(a, n)

Over == crashed \/ /\ \A r \in Registrar : reg[r] = "done"
                   /\ \A a \in Asker : pc[a] \in {"returned", "notfound"}
Stopped == Over /\ UNCHANGED vars

Next ==
  \/ \E r \in Registrar : Registers(r)
  \/ \E a \in Asker :
       \/ Looks(a)
       \/ ~crashed /\ (CallsAsk(a) \/ Cancel(a))
       \/ \E n \in Name : Queries(a, n) \/ (~crashed /\ Panics(a, n))
  \/ Stopped

(* Every goroutine that can run does; whoever waits for a lock gets it     *)
(* once it is free, the calls being finitely many.  Nobody has to cancel.  *)
Fairness ==
  /\ \A r \in Registrar : WF_vars(reg[r] # "idle" /\ Registers(r))
  /\ \A a \in Asker :
       /\ WF_vars(Looks(a))
       /\ \A n \in Name : WF_vars(Queries(a, n))

Spec == Init /\ [][Next]_vars /\ Fairness

-----------------------------------------------------------------------------
(* Properties.                                                             *)

(* Of the Register calls for a name, however they interleave, one returns  *)
(* nil, and its provider is the one every later lookup finds: no other     *)
(* replaces it, and no provider is listed whose Register failed            *)
(* (router.go:27-35).                                                      *)
OneWinner ==
  /\ \A n \in DOMAIN providers :
       /\ offer[providers[n]] = n
       /\ { r \in Registrar : offer[r] = n /\ outcome[r] = "ok" }
            = {providers[n]}
  /\ \A r \in Registrar :
       /\ outcome[r] = "ok" => r \in Range(providers)
       /\ outcome[r] = "duplicate" => offer[r] \in DOMAIN providers

(* AskAll's results have one entry per provider registered when it was     *)
(* called, perhaps some registered meanwhile, and each is the answer of    *)
(* the provider of that name; Ask answers with the provider of the name    *)
(* it was given and says it is not found only if it was not registered     *)
(* before the call (gen.go:17-50, router.go:55-63).                        *)
AllAnswered ==
  \A a \in Asker :
    /\ pc[a] = "returned" =>
         /\ DOMAIN results[a] = DOMAIN snapshot[a]
         /\ \A n \in DOMAIN results[a] : results[a][n] = providers[n]
         /\ ask[a] = All => DOMAIN known[a] \subseteq DOMAIN results[a]
         /\ ask[a] # All => DOMAIN results[a] = {ask[a]}
    /\ pc[a] = "notfound" => ask[a] \notin DOMAIN known[a]

(* Every Register returns, even while providers keep the fan-outs waiting  *)
(* that nothing ever ends; a query returns if its providers do or if its   *)
(* context is cancelled.                                                   *)
CallsReturn ==
  /\ \A r \in Registrar : reg[r] = "lock" ~> (reg[r] = "done" \/ crashed)
  /\ \A a \in Asker :
       (pc[a] # "idle" /\ (mute = {} \/ ctxDone[a]))
         ~> (pc[a] \in {"returned", "notfound"} \/ crashed)
=============================================================================
