--------------------------- MODULE Genevieve_proofs ---------------------------
(***************************************************************************)
(* Proofs about Genevieve: of the providers that claim a name one is       *)
(* registered for good, and AskAll answers with all there were.            *)
(***************************************************************************)
EXTENDS Genevieve, TLAPS

-----------------------------------------------------------------------------
(* The registry.                                                           *)

RegistryType ==
  /\ offer \in [Registrar -> Name \cup {Empty, "nil"}]
  /\ reg \in [Registrar -> {"idle", "lock", "store", "done"}]
  /\ exists \in [Registrar -> BOOLEAN]
  /\ outcome \in [Registrar -> {"none", "refused", "duplicate", "ok"}]
  /\ writer \subseteq Registrar
  /\ DOMAIN providers \subseteq Name
  /\ \A n \in DOMAIN providers : providers[n] \in Registrar

(* Between its lookup and its store a Register holds the lock alone, so    *)
(* that what it looked up still holds.                                     *)
LockInv ==
  /\ \A r \in Registrar : reg[r] = "store" <=> r \in writer
  /\ \A r, s \in writer : r = s
  /\ \A r \in Registrar : reg[r] = "store" =>
       offer[r] \in Name /\ exists[r] = (offer[r] \in DOMAIN providers)
  /\ \A r \in Registrar : outcome[r] # "none" => reg[r] = "done"
  /\ \A r \in Registrar : reg[r] = "lock" => offer[r] \in Name

(* OneWinner, registrar by registrar.                                      *)
WinnersInv ==
  /\ \A n \in DOMAIN providers :
       offer[providers[n]] = n /\ outcome[providers[n]] = "ok"
  /\ \A r \in Registrar :
       /\ outcome[r] = "ok" =>
            offer[r] \in DOMAIN providers /\ providers[offer[r]] = r
       /\ outcome[r] = "duplicate" => offer[r] \in DOMAIN providers

RegistryInv == RegistryType /\ LockInv /\ WinnersInv

(* A step of anyone's only adds to the registry.                           *)
Grows ==
  /\ DOMAIN providers \subseteq DOMAIN providers'
  /\ \A n \in DOMAIN providers : providers'[n] = providers[n]

LEMMA RegistryInit == Init => RegistryInv
BY GenevieveAssumption
   DEF Init, Nobody, RegistryInv, RegistryType, LockInv, WinnersInv

LEMMA RegistryStep ==
  ASSUME RegistryInv, [Next]_vars
  PROVE  RegistryInv' /\ Grows
<1> USE DEF RegistryInv
<1>1. ASSUME NEW r \in Registrar, Refuses(r) \/ Calls(r)
      PROVE  RegistryInv' /\ Grows
  BY <1>1 DEF Refuses, Calls, RegistryType, LockInv, WinnersInv, Grows,
     fixedVars, lockVars
<1>2. ASSUME NEW r \in Registrar, LooksUp(r) PROVE RegistryInv' /\ Grows
  BY <1>2 DEF LooksUp, LockFree, RegistryType, LockInv, WinnersInv, Grows,
     fixedVars
<1>3. ASSUME NEW r \in Registrar, Stores(r) PROVE RegistryInv' /\ Grows
  <2>1. CASE exists[r]
    <3>1. /\ outcome' = [outcome EXCEPT ![r] = "duplicate"]
          /\ reg' = [reg EXCEPT ![r] = "done"]
          /\ writer' = writer \ {r} /\ writer = {r}
          /\ offer[r] \in DOMAIN providers
          /\ UNCHANGED <<offer, exists, providers>>
      BY <1>3, <2>1 DEF Stores, LockInv, fixedVars
    <3>2. RegistryType' /\ Grows
      BY <3>1 DEF RegistryType, Grows
    <3>3. LockInv'
      BY <3>1 DEF LockInv, RegistryType
    <3>4. WinnersInv'
      BY <1>3, <3>1 DEF WinnersInv, RegistryType, Stores, LockInv
    <3> QED BY <3>2, <3>3, <3>4
  <2>2. CASE ~exists[r]
    <3> DEFINE n == offer[r]
    <3>1. /\ n \in Name /\ n \notin DOMAIN providers
          /\ DOMAIN providers' = DOMAIN providers \cup {n}
          /\ providers'[n] = r
          /\ \A z \in DOMAIN providers : providers'[z] = providers[z]
      BY <1>3, <2>2 DEF Stores, LockInv, Put
    <3>2. Grows
      BY <3>1 DEF Grows
    <3>3. /\ outcome' = [outcome EXCEPT ![r] = "ok"]
          /\ reg' = [reg EXCEPT ![r] = "done"]
          /\ writer' = writer \ {r} /\ writer = {r}
          /\ UNCHANGED <<offer, exists>>
      BY <1>3, <2>2 DEF Stores, LockInv, fixedVars
    <3> HIDE DEF n
    <3>4. RegistryType'
      BY <3>1, <3>3 DEF RegistryType
    <3>5. LockInv'
      BY <3>3 DEF LockInv, RegistryType
    <3>6. WinnersInv'
      BY <3>1, <3>3 DEF WinnersInv, RegistryType, n
    <3> QED BY <3>2, <3>4, <3>5, <3>6
  <2> QED BY <2>1, <2>2
<1>4. CASE UNCHANGED <<offer, providers, writer, reg, exists, outcome>>
  BY <1>4 DEF RegistryType, LockInv, WinnersInv, Grows
<1> QED
  BY <1>1, <1>2, <1>3, <1>4
     DEF Next, Registers, Looks, Queries, Locks, Copies, Returns, CallsAsk, Cancel,
         AnswersAsk, Generates, StartsResult, StoresResult, Panics, Stopped, vars,
         fixedVars, lockVars, registerVars

LEMMA RegistryInvariant == Spec => []RegistryInv
<1>1. RegistryInv /\ [Next]_vars => RegistryInv'
  BY RegistryStep
<1> QED BY RegistryInit, <1>1, PTL DEF Spec

(* Of the Register calls for a name one returns nil, and every later       *)
(* lookup finds its provider, whatever calls race (router.go:27-35).       *)
THEOREM OneIsRegistered == Spec => []OneWinner
<1>1. RegistryInv => OneWinner
  <2> SUFFICES ASSUME RegistryInv PROVE OneWinner
    OBVIOUS
  <2> USE DEF RegistryInv, RegistryType, WinnersInv
  <2>1. ASSUME NEW n \in DOMAIN providers
        PROVE  { r \in Registrar : offer[r] = n /\ outcome[r] = "ok" }
                 = {providers[n]}
    OBVIOUS
  <2>2. \A r \in Registrar : outcome[r] = "ok" => r \in Range(providers)
    BY DEF Range
  <2> QED BY <2>1, <2>2 DEF OneWinner
<1> QED BY RegistryInvariant, <1>1, PTL

-----------------------------------------------------------------------------
(* The queries.                                                            *)

QueryType ==
  /\ ask \in [Asker -> Name \cup {All}]
  /\ pc \in [Asker -> {"idle", "lock", "copy", "asking", "returned",
                      "notfound"}]
  /\ gor \in [Asker -> [Name -> {"idle", "running", "answered", "writing",
                                "done"}]]
  /\ resultsMu \in [Asker -> SUBSET Name]
  /\ DOMAIN snapshot = Asker /\ DOMAIN results = Asker
  /\ DOMAIN known = Asker /\ DOMAIN view = Asker
  /\ \A a \in Asker : DOMAIN view[a] = Name

(* What a query has copied is what the registry holds, and all it held.    *)
SnapshotInv(a) ==
  /\ DOMAIN known[a] \subseteq DOMAIN providers
  /\ DOMAIN snapshot[a] \subseteq DOMAIN providers
  /\ \A n \in DOMAIN snapshot[a] : snapshot[a][n] = providers[n]
  /\ pc[a] \in {"asking", "returned"} =>
       /\ ask[a] = All => DOMAIN known[a] \subseteq DOMAIN snapshot[a]
       /\ ask[a] # All => DOMAIN snapshot[a] = {ask[a]}
  /\ pc[a] = "notfound" => ask[a] \notin DOMAIN known[a]

(* One goroutine per name of the copy, none before there is one.           *)
GoroutineInv(a) ==
  /\ pc[a] \in {"idle", "lock", "copy"} => \A n \in Name : gor[a][n] = "idle"
  /\ \A n \in Name : gor[a][n] # "idle" => n \in DOMAIN snapshot[a]
  /\ \A n \in Name : gor[a][n] \in {"answered", "writing"} => ask[a] = All
  /\ pc[a] = "returned" => \A n \in DOMAIN snapshot[a] : gor[a][n] = "done"

(* A goroutine adds its entry to the results it found under the mutex.     *)
ResultsInv(a) ==
  /\ DOMAIN results[a] = { n \in Name : gor[a][n] = "done" }
  /\ \A n \in DOMAIN results[a] : results[a][n] = providers[n]
  /\ \A n \in Name : gor[a][n] = "writing" <=> n \in resultsMu[a]
  /\ \A n, o \in resultsMu[a] : n = o
  /\ \A n \in resultsMu[a] : view[a][n] = results[a]

Query(a) == SnapshotInv(a) /\ GoroutineInv(a) /\ ResultsInv(a)

QueryInv == QueryType /\ \A a \in Asker : Query(a)

SameQuery(a) ==
  /\ pc'[a] = pc[a] /\ ask'[a] = ask[a]
  /\ snapshot'[a] = snapshot[a] /\ known'[a] = known[a]
  /\ gor'[a] = gor[a] /\ results'[a] = results[a]
  /\ resultsMu'[a] = resultsMu[a] /\ view'[a] = view[a]

(* Whatever others do, a registration included, leaves a query as it is.   *)
LEMMA OthersQuery ==
  ASSUME NEW a \in Asker, QueryInv, RegistryInv, Grows, SameQuery(a)
  PROVE  Query(a)'
<1>1. SnapshotInv(a)'
  BY DEF QueryInv, Query, SnapshotInv, SameQuery, Grows
<1>2. GoroutineInv(a)'
  BY DEF QueryInv, Query, GoroutineInv, SameQuery
<1>3. DOMAIN results[a] \subseteq DOMAIN providers
  BY DEF QueryInv, QueryType, Query, ResultsInv, GoroutineInv, SnapshotInv
<1>4. ResultsInv(a)'
  BY <1>3 DEF QueryInv, Query, ResultsInv, SameQuery, Grows
<1> QED BY <1>1, <1>2, <1>4 DEF Query

LEMMA QueryInit == Init => QueryInv
<1> SUFFICES ASSUME Init PROVE QueryInv
  OBVIOUS
<1>1. QueryType
  BY GenevieveAssumption DEF Init, QueryType
<1>2. ASSUME NEW a \in Asker PROVE Query(a)
  BY DEF Init, Nobody, Query, SnapshotInv, GoroutineInv, ResultsInv
<1> QED BY <1>1, <1>2 DEF QueryInv

(* The steps of a query itself, while the registry stays as it is.         *)
LEMMA LookStep ==
  ASSUME NEW a \in Asker, QueryInv, RegistryInv,
         CallsAsk(a) \/ Locks(a) \/ Copies(a) \/ Returns(a) \/ Cancel(a)
  PROVE  QueryInv'
<1> USE DEF QueryInv
<1>1. CASE CallsAsk(a) \/ Locks(a) \/ Cancel(a)
  <2>1. QueryType'
    BY <1>1 DEF CallsAsk, Locks, Cancel, QueryType, fixedVars
  <2>2. ASSUME NEW b \in Asker PROVE Query(b)'
    BY <1>1, <2>2 DEF CallsAsk, Locks, Cancel, QueryType, Query, SnapshotInv,
       GoroutineInv, ResultsInv, fixedVars
  <2> QED BY <2>1, <2>2
<1>2. CASE Copies(a)
  <2>1. /\ ask[a] = All => Wanted(a) = providers
        /\ ask[a] # All =>
             /\ DOMAIN Wanted(a) = DOMAIN providers \cap {ask[a]}
             /\ \A n \in DOMAIN Wanted(a) : Wanted(a)[n] = providers[n]
             /\ ask[a] \in Name
             /\ ask[a] \notin DOMAIN providers => Wanted(a) = Nobody
    BY DEF Wanted, Restrict, Nobody, QueryType
  <2>2. /\ DOMAIN Wanted(a) \subseteq DOMAIN providers
        /\ \A n \in DOMAIN Wanted(a) : Wanted(a)[n] = providers[n]
        /\ DOMAIN providers \subseteq Name
    BY <2>1 DEF RegistryInv, RegistryType
  <2>3. /\ snapshot' = [snapshot EXCEPT ![a] = Wanted(a)]
        /\ gor' = [gor EXCEPT ![a] =
             [n \in Name |-> IF n \in DOMAIN Wanted(a) THEN "running"
                             ELSE "idle"]]
        /\ pc[a] = "copy"
        /\ pc' = [pc EXCEPT ![a] = IF ask[a] \in Name /\ Wanted(a) = Nobody
                                  THEN "notfound" ELSE "asking"]
        /\ UNCHANGED <<ask, providers, resultsMu, view, results, known>>
    BY <1>2 DEF Copies, fixedVars
  <2>4. QueryType'
    BY <2>3 DEF QueryType
  <2>5. Query(a)'
    <3>1. SnapshotInv(a)'
      <4>1. All \notin Name
        BY GenevieveAssumption
      <4>2. ask[a] \in Name /\ Wanted(a) = Nobody
              => ask[a] \notin DOMAIN providers
        BY <2>1, <4>1 DEF Nobody
      <4> QED BY <2>1, <2>2, <2>3, <4>1, <4>2
              DEF QueryType, Query, SnapshotInv
    <3>2. GoroutineInv(a)'
      BY <2>2, <2>3 DEF QueryType, GoroutineInv
    <3>3. ResultsInv(a)'
      BY <2>3 DEF QueryType, Query, GoroutineInv, ResultsInv
    <3> QED BY <3>1, <3>2, <3>3 DEF Query
  <2>6. ASSUME NEW b \in Asker, b # a PROVE Query(b)'
    BY <2>3, <2>6 DEF QueryType, Query, SnapshotInv, GoroutineInv, ResultsInv
  <2> QED BY <2>4, <2>5, <2>6
<1>3. CASE Returns(a)
  <2>1. QueryType'
    BY <1>3 DEF Returns, QueryType, fixedVars
  <2>2. ASSUME NEW b \in Asker PROVE Query(b)'
    BY <1>3, <2>2 DEF Returns, AllDone, QueryType, Query, SnapshotInv,
       GoroutineInv, ResultsInv, fixedVars
  <2> QED BY <2>1, <2>2
<1> QED BY <1>1, <1>2, <1>3

LEMMA ResultStep ==
  ASSUME NEW a \in Asker, NEW n \in Name, QueryInv, RegistryInv,
         AnswersAsk(a, n) \/ Generates(a, n) \/ StartsResult(a, n)
           \/ StoresResult(a, n)
  PROVE  QueryInv'
<1> USE DEF QueryInv
<1> All \notin Name
  BY GenevieveAssumption
<1>1. UNCHANGED <<ask, pc, providers, snapshot, known>>
  BY DEF AnswersAsk, Generates, StartsResult, StoresResult, fixedVars
<1>2. ASSUME NEW b \in Asker PROVE SnapshotInv(b)'
  BY <1>1 DEF SnapshotInv, Query
<1>3. pc[a] \notin {"idle", "lock", "copy"} /\ n \in DOMAIN snapshot[a]
  BY DEF AnswersAsk, Generates, StartsResult, StoresResult, Answers, QueryType,
     Query, GoroutineInv
<1>4. QueryType'
  <2>1. CASE AnswersAsk(a, n)
    BY <2>1 DEF AnswersAsk, QueryType, fixedVars
  <2>2. CASE Generates(a, n)
    BY <2>2 DEF Generates, QueryType, fixedVars
  <2>3. CASE StartsResult(a, n)
    BY <2>3 DEF StartsResult, QueryType, fixedVars
  <2>4. CASE StoresResult(a, n)
    BY <2>4 DEF StoresResult, QueryType, fixedVars
  <2> QED BY <2>1, <2>2, <2>3, <2>4
<1>5. ASSUME NEW b \in Asker PROVE GoroutineInv(b)'
  BY <1>1, <1>3, <1>5 DEF AnswersAsk, Generates, StartsResult, StoresResult,
     Answers, QueryType, Query, GoroutineInv
<1>6. ASSUME NEW b \in Asker, b # a PROVE ResultsInv(b)'
  BY <1>1, <1>6 DEF AnswersAsk, Generates, StartsResult, StoresResult,
     QueryType, Query, ResultsInv
<1>7. ResultsInv(a)'
  <2>1. CASE Generates(a, n) \/ StartsResult(a, n)
    BY <2>1, <1>1 DEF Generates, StartsResult, Answers, ResultsFree, QueryType,
       Query, ResultsInv
  <2>2. CASE AnswersAsk(a, n)
    <3>1. /\ results'[a] = Put(results[a], n, snapshot[a][n])
          /\ gor' = [gor EXCEPT ![a][n] = "done"] /\ gor[a][n] = "running"
          /\ UNCHANGED <<resultsMu, view>>
          /\ ask[a] # All
      BY <2>2 DEF AnswersAsk, Answers, QueryType
    <3>2. resultsMu[a] = {}
      BY <3>1 DEF QueryType, Query, ResultsInv, GoroutineInv
    <3> QED BY <1>1, <1>3, <3>1, <3>2
            DEF Put, QueryType, Query, SnapshotInv, ResultsInv
  <2>3. CASE StoresResult(a, n)
    <3>1. gor[a][n] = "writing" /\ resultsMu[a] = {n} /\ view[a][n] = results[a]
      BY <2>3 DEF StoresResult, Query, QueryType, ResultsInv
    <3>2. /\ results'[a] = Put(results[a], n, snapshot[a][n])
          /\ gor' = [gor EXCEPT ![a][n] = "done"]
          /\ resultsMu'[a] = {}
      BY <2>3, <3>1 DEF StoresResult, QueryType
    <3> QED BY <1>1, <1>3, <3>1, <3>2
            DEF Put, QueryType, Query, SnapshotInv, ResultsInv
  <2> QED BY <2>1, <2>2, <2>3
<1> QED BY <1>2, <1>4, <1>5, <1>6, <1>7 DEF Query

LEMMA QueryStep ==
  ASSUME RegistryInv, QueryInv, [Next]_vars
  PROVE  QueryInv'
<1>1. Grows
  BY RegistryStep
<1>2. CASE UNCHANGED <<ask, askVars>>
  <2>1. QueryType'
    BY <1>2 DEF QueryInv, QueryType, askVars
  <2>2. \A a \in Asker : SameQuery(a)
    BY <1>2 DEF SameQuery, askVars
  <2> QED BY <1>1, <2>1, <2>2, OthersQuery DEF QueryInv
<1>3. ASSUME NEW a \in Asker, Looks(a) \/ CallsAsk(a) \/ Cancel(a)
      PROVE  QueryInv'
  BY <1>3, LookStep DEF Looks
<1>4. ASSUME NEW a \in Asker, NEW n \in Name, Queries(a, n) PROVE QueryInv'
  BY <1>4, ResultStep DEF Queries
<1> QED
  BY <1>2, <1>3, <1>4
     DEF Next, Registers, Refuses, Calls, LooksUp, Stores, Panics, Stopped, vars,
         fixedVars

(* AskAll answers with exactly the providers of its copy, which has all    *)
(* that were registered before the call; Ask with the one it was asked     *)
(* for, and it fails to find only what was not there (gen.go:17-50).       *)
THEOREM AllAreAnswered == Spec => []AllAnswered
<1>1. RegistryInv /\ QueryInv /\ [Next]_vars => QueryInv'
  BY QueryStep
<1>2. RegistryInv /\ QueryInv => AllAnswered
  <2> SUFFICES ASSUME RegistryInv, QueryInv, NEW a \in Asker
               PROVE  /\ pc[a] = "returned" =>
                           /\ DOMAIN results[a] = DOMAIN snapshot[a]
                           /\ \A n \in DOMAIN results[a] :
                                results[a][n] = providers[n]
                           /\ ask[a] = All =>
                                DOMAIN known[a] \subseteq DOMAIN results[a]
                           /\ ask[a] # All => DOMAIN results[a] = {ask[a]}
                      /\ pc[a] = "notfound" => ask[a] \notin DOMAIN known[a]
    BY DEF AllAnswered
  <2>1. DOMAIN snapshot[a] \subseteq Name
    BY DEF RegistryInv, RegistryType, QueryInv, Query, SnapshotInv
  <2>2. pc[a] = "returned" => DOMAIN results[a] = DOMAIN snapshot[a]
    BY <2>1 DEF QueryInv, Query, GoroutineInv, ResultsInv
  <2> QED BY <2>2 DEF QueryInv, Query, SnapshotInv, ResultsInv
<1> QED BY QueryInit, RegistryInvariant, <1>1, <1>2, PTL DEF Spec
=============================================================================
