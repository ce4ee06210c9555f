--------------------------- MODULE AgentLoop_proofs ---------------------------
(***************************************************************************)
(* Proofs about AgentLoop: what a run asks and executes, for any tools,    *)
(* requests, usages and answers of the model.                              *)
(***************************************************************************)
EXTENDS AgentLoop, DataLemmas

-----------------------------------------------------------------------------
(* Types.                                                                  *)

LEMMA MessageTypes ==
  /\ UserMessage \in Message
  /\ \A names \in Seq(ToolName) : AssistantMessage(names) \in Message
  /\ \A k \in Nat, ok \in BOOLEAN : ToolMessage(k, ok) \in Message
<1>1. UserMessage \in Message
  <2>1. <<>> \in Seq(ToolName)
    OBVIOUS
  <2> QED BY <2>1 DEF UserMessage, Message
<1>2. ASSUME NEW names \in Seq(ToolName) PROVE AssistantMessage(names) \in Message
  BY <1>1, <1>2 DEF AssistantMessage, Message
<1>3. ASSUME NEW k \in Nat, NEW ok \in BOOLEAN PROVE ToolMessage(k, ok) \in Message
  <2>1. <<>> \in Seq(ToolName)
    OBVIOUS
  <2> QED BY <2>1 DEF ToolMessage, Message
<1> QED BY <1>1, <1>2, <1>3

LEMMA UsageTypes ==
  ASSUME NEW u \in Usage, NEW v \in Usage
  PROVE  Add(u, v) \in Usage
BY DEF Usage, Add

LEMMA ResponseTypes == ASSUME NEW names \in Responses PROVE names \in Seq(ToolName)
BY AgentAssumption DEF Responses

(* A call that is to be run is one of the response's.                      *)
CallInv ==
  /\ pc = "tools" => call \in DOMAIN calls
  /\ turn >= 1 /\ call >= 1

LEMMA TypeInit == Init => TypeOK /\ CallInv
<1> SUFFICES ASSUME Init PROVE TypeOK /\ CallInv
  OBVIOUS
<1>1. messages \in Seq(Message)
  <2>1. messages = <<UserMessage>>
    BY DEF Init
  <2>2. UserMessage \in Message
    BY MessageTypes
  <2> QED BY <2>1, <2>2
<1>2. result \in Result
  <2>1. result = [ messages |-> <<>>, turns |-> 0, stop |-> "",
                   usage |-> [input |-> 0, output |-> 0] ]
    BY DEF Init
  <2>2. <<>> \in Seq(Message)
    OBVIOUS
  <2> QED BY <2>1, <2>2 DEF Result, Usage, StopReason
<1>3. /\ calls \in Seq(ToolName)
      /\ asked \in Seq(Generation) /\ executed \in Seq(Execution)
  <2>1. calls = <<>> /\ asked = <<>> /\ executed = <<>>
    BY DEF Init
  <2> QED BY <2>1
<1>4. /\ request \in Requests /\ registry \in SUBSET ToolName
      /\ installed = [tool |-> 0, events |-> 0] /\ tools = {}
      /\ chain = [tool |-> 0, events |-> 0]
      /\ pc = "idle" /\ turn = 1 /\ call = 1 /\ err = "none"
  BY DEF Init
<1> QED BY <1>1, <1>2, <1>3, <1>4
        DEF TypeOK, CallInv, Middleware, PC, ErrKind

LEMMA AskType ==
  ASSUME TypeOK, NEW w \in BOOLEAN, NEW S \in SUBSET ToolName, Ask(w, S)
  PROVE  asked' \in Seq(Generation)
<1>1. [ wrapUp |-> w, usage |-> result.usage, offered |-> S,
        through |-> chain.events ] \in Generation
  BY DEF TypeOK, Result, Generation, Middleware
<1> QED BY <1>1, AppendTypes DEF Ask, TypeOK

LEMMA ExecuteType ==
  ASSUME TypeOK, CallInv, Execute
  PROVE  /\ Name \in ToolName
         /\ executed' \in Seq(Execution)
<1>1. Name \in ToolName
  BY DEF TypeOK, CallInv, Execute, Name
<1>2. [ turn |-> turn, call |-> call, name |-> Name, through |-> chain.tool ]
        \in Execution
  BY <1>1 DEF TypeOK, Execution, Middleware
<1> QED BY <1>1, <1>2, AppendTypes DEF Execute, TypeOK

LEMMA AnswerType ==
  ASSUME TypeOK, CallInv, pc = "tools", NEW ok \in BOOLEAN, Answer(ok)
  PROVE  /\ messages' \in Seq(Message) /\ result' \in Result
         /\ call' = call + 1
         /\ turn' \in Nat /\ turn' >= 1
         /\ LastCall => pc' = "turn" /\ turn' = turn + 1
         /\ ~LastCall => pc' = "tools" /\ turn' = turn /\ call' \in DOMAIN calls
<1>1. Answering(ok) \in Seq(Message)
  BY MessageTypes, AppendTypes DEF Answering, TypeOK
<1>2. result' \in Result
  BY <1>1 DEF Answer, AnswerWith, TypeOK, Result
<1> QED
  BY <1>1, <1>2 DEF Answer, AnswerWith, LastCall, TypeOK, CallInv

LEMMA TypeStep == TypeOK /\ CallInv /\ [Next]_vars => TypeOK' /\ CallInv'
<1> SUFFICES ASSUME TypeOK, CallInv, [Next]_vars PROVE TypeOK' /\ CallInv'
  OBVIOUS
<1>1. ASSUME NEW name \in ToolName, RegisterTool(name) PROVE TypeOK' /\ CallInv'
  BY <1>1 DEF RegisterTool, TypeOK, CallInv, copies, turnVars
<1>2. ASSUME NEW kind \in {"tool", "events"}, Use(kind) PROVE TypeOK' /\ CallInv'
  BY <1>2 DEF Use, TypeOK, CallInv, copies, turnVars, Middleware
<1>3. CASE ProviderMissing \/ Begin
  BY <1>3 DEF ProviderMissing, Begin, Return, TypeOK, CallInv, copies, turnVars,
     agentVars, Result, PC, ErrKind
<1>4. CASE ReachTurnLimit \/ BudgetSpentBefore \/ GenerateFails \/ UnknownTool
             \/ GiveUp
  BY <1>4 DEF ReachTurnLimit, BudgetSpentBefore, GenerateFails, UnknownTool,
     GiveUp, Return, TypeOK, CallInv, copies, turnVars, agentVars, Result, PC,
     ErrKind, StopReason
<1>5. CASE StartTurn \/ AskForSummary
  <2>1. asked' \in Seq(Generation)
    BY <1>5, AskType DEF StartTurn, AskForSummary, TypeOK
  <2> QED BY <1>5, <2>1 DEF StartTurn, AskForSummary, TypeOK, CallInv, copies,
             turnVars, agentVars, PC
<1>6. ASSUME NEW names \in Responses, NEW used \in Usages, Respond(names, used)
      PROVE  TypeOK' /\ CallInv'
  <2>1. names \in Seq(ToolName) /\ messages' \in Seq(Message)
    BY <1>6, ResponseTypes, MessageTypes, AppendTypes DEF Respond, TypeOK
  <2>2. Add(result.usage, used) \in Usage
    BY UsageTypes, AgentAssumption DEF TypeOK, Result
  <2>3. result' \in Result
    BY <1>6, <2>1, <2>2 DEF Respond, TypeOK, Result, StopReason
  <2>4. pc' = "tools" => 1 \in DOMAIN calls'
    BY <1>6, <2>1 DEF Respond
  <2> QED BY <1>6, <2>1, <2>3, <2>4 DEF Respond, TypeOK, CallInv, copies,
             agentVars, PC
<1>7. ASSUME NEW ok \in BOOLEAN, RunTool(ok) PROVE TypeOK' /\ CallInv'
  <2>1. Execute /\ Answer(ok) /\ pc = "tools"
    BY <1>7 DEF RunTool, Execute
  <2> QED BY <1>7, <2>1, ExecuteType, AnswerType DEF RunTool, TypeOK, CallInv,
             copies, agentVars, PC
<1>8. ASSUME NEW ok \in BOOLEAN, RunTerminalTool(ok) PROVE TypeOK' /\ CallInv'
  <2>1. executed' \in Seq(Execution)
    BY <1>8, ExecuteType DEF RunTerminalTool
  <2> QED BY <1>8, <2>1 DEF RunTerminalTool, Return, TypeOK, CallInv, copies,
             turnVars, agentVars, Result, StopReason, PC, ErrKind
<1>9. ASSUME NEW used \in Usages, Summarize(used) PROVE TypeOK' /\ CallInv'
  <2>1. <<UserMessage, AssistantMessage(<<>>)>> \in Seq(Message)
    <3>1. <<>> \in Seq(ToolName)
      OBVIOUS
    <3>2. AssistantMessage(<<>>) \in Message /\ UserMessage \in Message
      BY <3>1, MessageTypes
    <3> QED BY <3>2
  <2>2. result.messages \o <<UserMessage, AssistantMessage(<<>>)>> \in Seq(Message)
    BY <2>1, ConcatProperties DEF TypeOK, Result
  <2>3. Add(result.usage, used) \in Usage
    BY UsageTypes, AgentAssumption DEF TypeOK, Result
  <2>4. result' \in Result
    BY <1>9, <2>2, <2>3 DEF Summarize, TypeOK, Result, StopReason
  <2> QED BY <1>9, <2>4 DEF Summarize, Return, TypeOK, CallInv, copies, turnVars,
             agentVars, PC, ErrKind
<1>10. CASE UNCHANGED vars
  BY <1>10 DEF vars, TypeOK, CallInv, copies, turnVars, agentVars
<1> QED
  BY <1>1, <1>2, <1>3, <1>4, <1>5, <1>6, <1>7, <1>8, <1>9, <1>10
     DEF Next, Returned

(* Every variable keeps its type, whatever the model answers and whoever   *)
(* registers tools and middleware meanwhile.                               *)
THEOREM TypeCorrect == Spec => []TypeOK
BY TypeInit, TypeStep, PTL DEF Spec

LEMMA TypeInvariant == Spec => [](TypeOK /\ CallInv)
BY TypeInit, TypeStep, PTL DEF Spec

-----------------------------------------------------------------------------
(* What is asked.                                                          *)

(* The k-th generation is the k-th turn's, until a wrap-up ends the run.   *)
AskedInv ==
  /\ pc = "idle" => asked = <<>> /\ executed = <<>> /\ turn = 1
  /\ pc = "turn" => Len(asked) = turn - 1
  /\ pc \in {"generate", "tools"} => Len(asked) = turn /\ turn <= TurnLimit
  /\ pc \notin {"summary", "returned"} =>
       \A i \in DOMAIN asked : ~asked[i].wrapUp
  /\ \A i \in DOMAIN asked :
       IF asked[i].wrapUp THEN i = Len(asked) ELSE i <= TurnLimit

(* Every generation started with something left of each cap.               *)
Affords(u) ==
  /\ request.maxInput > 0 => u.input < request.maxInput
  /\ request.maxOutput > 0 => u.output < request.maxOutput
  /\ request.maxTotal > 0 => Total(u) < request.maxTotal

BudgetInv == request.reserve >= 0 => \A i \in DOMAIN asked : Affords(asked[i].usage)

LEMMA LimitIsNat ==
  ASSUME TypeOK PROVE TurnLimit \in Nat /\ request \in Request
BY AgentAssumption DEF TypeOK, TurnLimit, Request

AskedMore(w, S) ==
  /\ Len(asked) \in Nat /\ DOMAIN asked = 1..Len(asked)
  /\ Len(asked') = Len(asked) + 1 /\ DOMAIN asked' = 1..(Len(asked) + 1)
  /\ \A i \in DOMAIN asked : asked'[i] = asked[i]
  /\ asked'[Len(asked) + 1].wrapUp <=> w
  /\ asked'[Len(asked) + 1].usage = result.usage
  /\ asked'[Len(asked) + 1].offered = S
  /\ asked'[Len(asked) + 1].through = chain.events

LEMMA AskStep ==
  ASSUME TypeOK, NEW w \in BOOLEAN, NEW S, Ask(w, S)
  PROVE  AskedMore(w, S)
BY DEF Ask, TypeOK, AskedMore

(* A turn keeps the reserve back and a wrap-up may spend it: either way    *)
(* the caps themselves are not reached.                                    *)
LEMMA ReserveKept ==
  ASSUME TypeOK, NEW kept \in Int, kept >= 0, ~BudgetReached(result.usage, kept)
  PROVE  Affords(result.usage)
<1>1. /\ request.maxInput \in Int /\ request.maxOutput \in Int
      /\ request.maxTotal \in Int
  BY LimitIsNat DEF Request
<1>2. result.usage.input \in Nat /\ result.usage.output \in Nat
  BY DEF TypeOK, Result, Usage
<1> QED BY <1>1, <1>2 DEF BudgetReached, Affords, Total

LEMMA AskedStep ==
  ASSUME TypeOK, CallInv, AskedInv, BudgetInv, [Next]_vars
  PROVE  AskedInv' /\ BudgetInv'
<1> TurnLimit \in Nat
  BY LimitIsNat
<1>0. UNCHANGED request
        => TurnLimit' = TurnLimit /\ \A u : Affords(u)' <=> Affords(u)
  BY DEF TurnLimit, Affords, Total
<1>1. CASE UNCHANGED <<request, pc, asked, executed, turn>>
  BY <1>0, <1>1 DEF AskedInv, BudgetInv
<1>2. CASE Begin
  BY <1>0, <1>2 DEF Begin, AskedInv, BudgetInv, turnVars, TypeOK
<1>3. CASE UNCHANGED <<request, asked>> /\ pc' = "returned"
  BY <1>0, <1>3 DEF AskedInv, BudgetInv
<1>4. CASE BudgetSpentBefore
  BY <1>0, <1>4 DEF BudgetSpentBefore, AnotherTurn, AskedInv, BudgetInv
<1>5. CASE StartTurn
  <2>1. Ask(FALSE, tools) /\ pc = "turn" /\ turn <= TurnLimit
        /\ ~BudgetReached(result.usage, request.reserve)
        /\ pc' = "generate" /\ UNCHANGED <<request, turn>>
    BY <1>5 DEF StartTurn, AnotherTurn, turnVars
  <2>2. AskedMore(FALSE, tools)
    BY <2>1, AskStep
  <2>3. AskedInv'
    <3>1. Len(asked') = turn /\ turn \in Nat
      BY <2>1, <2>2 DEF AskedInv, AskedMore, TypeOK
    <3>2. \A i \in DOMAIN asked' :
            ~asked'[i].wrapUp /\ i <= TurnLimit
      BY <2>1, <2>2, <3>1 DEF AskedInv, AskedMore
    <3> QED BY <1>0, <2>1, <3>1, <3>2 DEF AskedInv
  <2>4. request.reserve >= 0 => Affords(result.usage)
    BY <2>1, ReserveKept, LimitIsNat DEF Request
  <2>5. BudgetInv'
    BY <1>0, <2>1, <2>2, <2>4 DEF BudgetInv, AskedMore
  <2> QED BY <2>3, <2>5
<1>6. CASE AskForSummary
  <2>1. Ask(TRUE, {}) /\ pc = "wrapup" /\ ~BudgetReached(result.usage, 0)
        /\ pc' = "summary" /\ UNCHANGED request
    BY <1>6 DEF AskForSummary, Exhausted
  <2>2. AskedMore(TRUE, {})
    BY <2>1, AskStep
  <2>3. AskedInv'
    <3>1. \A i \in DOMAIN asked' :
            IF asked'[i].wrapUp THEN i = Len(asked') ELSE i <= TurnLimit
      <4> SUFFICES ASSUME NEW i \in DOMAIN asked'
                   PROVE  IF asked'[i].wrapUp THEN i = Len(asked')
                                              ELSE i <= TurnLimit
        OBVIOUS
      <4>1. i \in DOMAIN asked \/ i = Len(asked')
        BY <2>2 DEF AskedMore
      <4>2. asked'[Len(asked')].wrapUp
        BY <2>2 DEF AskedMore
      <4>3. i \in DOMAIN asked => ~asked'[i].wrapUp /\ i <= TurnLimit
        BY <2>1, <2>2 DEF AskedInv, AskedMore
      <4> QED BY <4>1, <4>2, <4>3
    <3> QED BY <1>0, <2>1, <3>1 DEF AskedInv
  <2>4. Affords(result.usage)
    BY <2>1, ReserveKept
  <2>5. BudgetInv'
    BY <1>0, <2>1, <2>2, <2>4 DEF BudgetInv, AskedMore
  <2> QED BY <2>3, <2>5
<1>7. ASSUME NEW names \in Responses, NEW used \in Usages, Respond(names, used)
      PROVE  AskedInv' /\ BudgetInv'
  BY <1>0, <1>7 DEF Respond, AskedInv, BudgetInv
<1>8. ASSUME NEW ok \in BOOLEAN, RunTool(ok) PROVE AskedInv' /\ BudgetInv'
  <2>1. /\ pc = "tools" /\ UNCHANGED <<request, asked>>
        /\ \/ pc' = "tools" /\ turn' = turn
           \/ pc' = "turn" /\ turn' = turn + 1
    BY <1>8, AnswerType DEF RunTool, Execute
  <2> QED BY <1>0, <2>1 DEF AskedInv, BudgetInv, TypeOK
<1> QED
  BY <1>1, <1>2, <1>3, <1>4, <1>5, <1>6, <1>7, <1>8
     DEF Next, RegisterTool, Use, ProviderMissing, ReachTurnLimit, GenerateFails,
         UnknownTool, RunTerminalTool, GiveUp, Summarize, Returned, Return, vars,
         turnVars

(* No generation, the wrap-up included, starts with a cap used up, and     *)
(* the model is asked once per turn, for at most the turn limit, and once  *)
(* more at the end, for any budget and reserve (agent.go:182-276).         *)
THEOREM StartsHold == Spec => []StartsWithinLimits
<1>1. Init => AskedInv /\ BudgetInv
  <2>1. Init => asked = <<>> /\ executed = <<>> /\ pc = "idle" /\ turn = 1
    BY DEF Init
  <2> QED BY <2>1 DEF AskedInv, BudgetInv
<1>2. TypeOK /\ CallInv /\ AskedInv /\ BudgetInv /\ [Next]_vars
        => AskedInv' /\ BudgetInv'
  BY AskedStep
<1>3. AskedInv /\ BudgetInv => StartsWithinLimits
  BY DEF AskedInv, BudgetInv, Affords, StartsWithinLimits
<1> QED BY TypeInvariant, <1>1, <1>2, <1>3, PTL DEF Spec

-----------------------------------------------------------------------------
(* What is executed.                                                       *)

OffersInv ==
  /\ \A i \in DOMAIN asked :
       /\ asked[i].through = chain.events
       /\ ~asked[i].wrapUp => asked[i].offered = tools
  /\ \A i \in DOMAIN executed :
       /\ executed[i].turn \in DOMAIN asked
       /\ executed[i].name \in asked[executed[i].turn].offered
       /\ executed[i].through = chain.tool

(* An execution precedes the turn, or the call, that is to come.           *)
OrderInv ==
  /\ \A i \in DOMAIN executed :
       /\ pc # "returned" => executed[i].name \notin Terminal
       /\ executed[i].turn \in Nat /\ executed[i].turn <= turn
       /\ pc \in {"turn", "generate"} => executed[i].turn < turn
       /\ pc = "tools" =>
            executed[i].turn < turn
              \/ (executed[i].turn = turn /\ executed[i].call < call)
  /\ ToolsInOrder

LEMMA ExecuteStep ==
  ASSUME TypeOK, Execute
  PROVE  /\ DOMAIN executed' = 1..(Len(executed) + 1)
         /\ DOMAIN executed = 1..Len(executed) /\ Len(executed) \in Nat
         /\ \A i \in DOMAIN executed : executed'[i] = executed[i]
         /\ executed'[Len(executed) + 1] =
              [ turn |-> turn, call |-> call, name |-> Name,
                through |-> chain.tool ]
BY DEF Execute, TypeOK

LEMMA ExecutedStep ==
  ASSUME TypeOK, CallInv, AskedInv, OffersInv, OrderInv, [Next]_vars
  PROVE  OffersInv' /\ OrderInv'
<1>1. CASE UNCHANGED <<asked, executed, chain, tools, turn, call>>
             /\ (pc' \in {pc, "returned"} \/ (pc' = "wrapup" /\ pc # "returned"))
  <2>1. OffersInv'
    BY <1>1 DEF OffersInv
  <2>2. ToolsInOrder'
    BY <1>1 DEF OrderInv, ToolsInOrder
  <2>3. executed' = executed /\ turn' = turn /\ call' = call
    BY <1>1
  <2>4. pc' \in {"turn", "generate", "tools"} => pc' = pc
    BY <1>1
  <2>5. pc' # "returned" => pc # "returned"
    BY <1>1
  <2>6. OrderInv'
    BY <2>2, <2>3, <2>4, <2>5 DEF OrderInv
  <2> QED BY <2>1, <2>6
<1>2. CASE Begin
  BY <1>2 DEF Begin, AskedInv, OffersInv, OrderInv, ToolsInOrder
<1>3. CASE StartTurn \/ AskForSummary
  <2>1. /\ UNCHANGED <<executed, chain, tools, turn, call>>
        /\ \/ Ask(FALSE, tools) /\ pc = "turn" /\ pc' = "generate"
           \/ Ask(TRUE, {}) /\ pc = "wrapup" /\ pc' = "summary"
    BY <1>3 DEF StartTurn, AnotherTurn, AskForSummary, copies, turnVars
  <2>2. OffersInv'
    <3>1. ASSUME NEW w \in BOOLEAN, NEW S, Ask(w, S), ~w => S = tools
          PROVE  OffersInv'
      <4>1. AskedMore(w, S)
        BY <3>1, AskStep
      <4> QED BY <2>1, <3>1, <4>1 DEF OffersInv, AskedMore
    <3> QED BY <2>1, <3>1
  <2>3. OrderInv'
    BY <2>1 DEF OrderInv, ToolsInOrder
  <2> QED BY <2>2, <2>3
<1>4. ASSUME NEW names \in Responses, NEW used \in Usages, Respond(names, used)
      PROVE  OffersInv' /\ OrderInv'
  BY <1>4 DEF Respond, OffersInv, OrderInv, ToolsInOrder, copies
<1>5. ASSUME Execute, UNCHANGED <<asked, chain, tools>>,
             \/ pc' = "tools" /\ turn' = turn /\ call' = call + 1
                  /\ Name \notin Terminal
             \/ pc' = "turn" /\ turn' = turn + 1 /\ Name \notin Terminal
             \/ pc' = "returned" /\ turn' = turn
      PROVE  OffersInv' /\ OrderInv'
  <2>1. pc = "tools" /\ Name \in tools
    BY <1>5 DEF Execute, Known
  <2>2. turn \in DOMAIN asked /\ asked[turn].offered = tools
    BY <2>1 DEF AskedInv, OffersInv, TypeOK, CallInv
  <2>3. OffersInv'
    BY <1>5, <2>1, <2>2, ExecuteStep DEF OffersInv
  <2>4. ToolsInOrder'
    BY <2>1, <1>5, ExecuteStep DEF OrderInv, ToolsInOrder
  <2>5. OrderInv'
    <3>1. turn \in Nat /\ call \in Nat
      BY DEF TypeOK
    <3>2. ASSUME NEW i \in DOMAIN executed
          PROVE  /\ executed'[i] = executed[i] /\ executed[i].name \notin Terminal
                 /\ executed[i].turn \in Nat
                 /\ \/ executed[i].turn < turn
                    \/ executed[i].turn = turn /\ executed[i].call < call
      BY <2>1, <1>5, ExecuteStep DEF OrderInv
    <3>3. ASSUME NEW i \in DOMAIN executed
          PROVE  executed[i].call \in Nat
      <4>1. executed[i] \in Execution
        BY <3>3 DEF TypeOK
      <4> QED BY <4>1 DEF Execution
    <3> DEFINE last == executed'[Len(executed) + 1]
    <3>4. /\ last.turn = turn /\ last.call = call /\ last.name = Name
          /\ \A i \in DOMAIN executed' :
               i \in DOMAIN executed \/ executed'[i] = last
      BY <1>5, ExecuteStep
    <3> HIDE DEF last
    <3> QED BY <1>5, <2>4, <3>1, <3>2, <3>3, <3>4 DEF OrderInv
  <2> QED BY <2>3, <2>5
<1>6. ASSUME NEW ok \in BOOLEAN, RunTool(ok) PROVE OffersInv' /\ OrderInv'
  <2>1. /\ Execute /\ Name \notin Terminal /\ UNCHANGED <<asked, chain, tools>>
        /\ Answer(ok) /\ pc = "tools"
    BY <1>6 DEF RunTool, Execute, copies
  <2>2. \/ pc' = "tools" /\ turn' = turn /\ call' = call + 1
        \/ pc' = "turn" /\ turn' = turn + 1
    BY <2>1, AnswerType
  <2> QED BY <1>5, <2>1, <2>2
<1>7. ASSUME NEW ok \in BOOLEAN, RunTerminalTool(ok)
      PROVE  OffersInv' /\ OrderInv'
  BY <1>5, <1>7 DEF RunTerminalTool, Return, copies, turnVars
<1> QED
  BY <1>1, <1>2, <1>3, <1>4, <1>6, <1>7
     DEF Next, RegisterTool, Use, ProviderMissing, ReachTurnLimit,
         BudgetSpentBefore, AnotherTurn, GenerateFails, UnknownTool, GiveUp,
         Summarize, Returned, Return, vars, turnVars, copies

LEMMA ExecutedInvariant ==
  Spec => [](TypeOK /\ OffersInv /\ OrderInv)
<1>1. Init => AskedInv /\ BudgetInv /\ OffersInv /\ OrderInv
  <2>1. Init => asked = <<>> /\ executed = <<>> /\ pc = "idle" /\ turn = 1
    BY DEF Init
  <2> QED BY <2>1 DEF AskedInv, BudgetInv, OffersInv, OrderInv, ToolsInOrder
<1>2. /\ TypeOK /\ CallInv /\ AskedInv /\ BudgetInv /\ OffersInv /\ OrderInv
      /\ [Next]_vars
      => AskedInv' /\ BudgetInv' /\ OffersInv' /\ OrderInv'
  BY AskedStep, ExecutedStep
<1> QED BY TypeInvariant, <1>1, <1>2, PTL DEF Spec

(* Only tools offered to the model run, all behind the same middleware,    *)
(* though others register more of both meanwhile (agent.go:148-178).       *)
THEOREM OffersAreKept == Spec => []OffersHold
<1>1. OffersInv => OffersHold
  BY DEF OffersInv, OffersHold
<1> QED BY ExecutedInvariant, <1>1, PTL

(* Tool calls run at most once, in the model's order, and a terminal tool  *)
(* is the last thing a run executes (agent.go:229-258).                    *)
THEOREM ToolsRunInOrder == Spec => []ToolsInOrder
<1>1. OrderInv => ToolsInOrder
  BY DEF OrderInv
<1> QED BY ExecutedInvariant, <1>1, PTL

-----------------------------------------------------------------------------
(* The conversation.                                                       *)

Answered(ms) == \A i \in DOMAIN ms : AnsweredAt(ms, i)

AnsweredButLast(ms) == \A i \in DOMAIN ms : AnsweredAt(ms, i) \/ i = Len(ms)

Whole(ms) ==
  \A i, j \in DOMAIN ms : i < j /\ ms[j].role = "tool" => AnsweredAt(ms, i)

(* Where the message of the turn's tool calls is.                          *)
CallsAt == Len(messages) - call + 1

(* During the tools everything before that message is answered, and its    *)
(* own calls are as far as they have been run.                             *)
AnsweringInv ==
  /\ CallsAt \in DOMAIN messages
  /\ messages[CallsAt].calls = calls
  /\ \A i \in DOMAIN messages : i < CallsAt => AnsweredAt(messages, i)
  /\ \A i \in DOMAIN messages : i > CallsAt =>
       messages[i].calls = <<>> /\ messages[i].answers = i - CallsAt

MessagesInv ==
  /\ pc \in {"idle", "turn", "generate"} => Answered(messages)
  /\ pc \in {"turn", "generate"} => result.messages = messages
  /\ pc = "tools" => AnsweringInv
  /\ pc \in {"wrapup", "summary"} => AnsweredButLast(result.messages)
  /\ pc # "returned" => result.stop = ""
  /\ Whole(result.messages)
  /\ result.stop \in {"completed", "turn_limit"} => Answered(result.messages)

LEMMA AnsweredGrows ==
  ASSUME NEW ms \in Seq(Message), NEW m \in Message,
         NEW i \in DOMAIN ms, AnsweredAt(ms, i)
  PROVE  AnsweredAt(Append(ms, m), i)
BY AppendTypes DEF AnsweredAt

LEMMA AnsweredIsWhole ==
  ASSUME NEW ms \in Seq(Message), Answered(ms) PROVE Whole(ms)
BY DEF Answered, Whole

LEMMA RespondStep ==
  ASSUME TypeOK, MessagesInv, NEW names \in Responses, NEW used \in Usages,
         Respond(names, used)
  PROVE  MessagesInv'
<1> DEFINE m == AssistantMessage(names)
           ms == Append(messages, m)
<1>1. names \in Seq(ToolName) /\ messages \in Seq(Message)
  BY ResponseTypes DEF TypeOK
<1>2. m \in Message
  BY <1>1, MessageTypes
<1>3. m.calls = names
  BY DEF AssistantMessage, UserMessage
<1>4. /\ ms \in Seq(Message) /\ Len(ms) = Len(messages) + 1
      /\ DOMAIN ms = 1..(Len(messages) + 1) /\ ms[Len(messages) + 1] = m
      /\ DOMAIN messages = 1..Len(messages) /\ Len(messages) \in Nat
  BY <1>1, <1>2, AppendTypes
<1>5. \A i \in DOMAIN messages : AnsweredAt(ms, i)
  BY <1>1, <1>2, AnsweredGrows DEF MessagesInv, Answered, Respond
<1>0. messages' = ms /\ calls' = names /\ call' = 1
  BY DEF Respond
<1>6. /\ result'.messages = ms
      /\ result'.stop = IF names = <<>> THEN "completed" ELSE ""
      /\ pc' \in {"returned", "wrapup", "tools"}
      /\ names = <<>> => pc' = "returned"
  BY DEF Respond, MessagesInv
<1> HIDE DEF m, ms
<1>7. Whole(ms)
  BY <1>4, <1>5 DEF Whole
<1>8. names = <<>> => Answered(ms)
  BY <1>3, <1>4, <1>5 DEF Answered, AnsweredAt
<1>9. names # <<>> => AnsweringInv'
  <2>1. CallsAt' = Len(messages) + 1
    BY <1>0, <1>4 DEF CallsAt
  <2> QED BY <1>0, <1>3, <1>4, <1>5, <2>1 DEF AnsweringInv
<1>10. AnsweredButLast(ms)
  BY <1>4, <1>5 DEF AnsweredButLast
<1> QED BY <1>0, <1>6, <1>7, <1>8, <1>9, <1>10 DEF MessagesInv

LEMMA AnswerStep ==
  ASSUME TypeOK, CallInv, MessagesInv, NEW ok \in BOOLEAN, RunTool(ok)
  PROVE  MessagesInv'
<1> DEFINE m == ToolMessage(call, ok)
           ms == Append(messages, m)
<1>1. messages \in Seq(Message) /\ calls \in Seq(ToolName) /\ call \in Nat
  BY DEF TypeOK
<1>10. pc = "tools" /\ AnsweringInv /\ call \in DOMAIN calls /\ calls' = calls
  BY DEF RunTool, Execute, MessagesInv, CallInv
<1>11. result.stop = "" /\ Whole(result.messages)
  BY <1>10 DEF MessagesInv
<1>2. m \in Message
  BY <1>1, MessageTypes
<1>3. m.calls = <<>> /\ m.answers = call
  BY DEF ToolMessage
<1> HIDE DEF m
<1>4. /\ ms \in Seq(Message) /\ Len(ms) = Len(messages) + 1
      /\ DOMAIN ms = 1..(Len(messages) + 1) /\ ms[Len(messages) + 1] = m
      /\ DOMAIN messages = 1..Len(messages) /\ Len(messages) \in Nat
      /\ \A i \in DOMAIN messages : ms[i] = messages[i]
  BY <1>1, <1>2
<1>5. \A i \in DOMAIN messages : AnsweredAt(messages, i) => AnsweredAt(ms, i)
  BY <1>1, <1>2, AnsweredGrows
<1>0. messages' = ms /\ call' = call + 1
  BY DEF RunTool, Answer, AnswerWith, Answering, m
<1>6. /\ LastCall => pc' = "turn" /\ result'.messages = ms
      /\ ~LastCall => pc' = "tools" /\ result'.messages = result.messages
      /\ result'.stop = ""
  <2>1. Answering(ok) = ms
    BY DEF Answering, m
  <2> HIDE DEF ms
  <2> QED BY <1>10, <1>11, <2>1 DEF RunTool, Answer, AnswerWith, TypeOK, Result
<1> HIDE DEF m, ms
<1> DEFINE n == Len(messages)
           p == CallsAt
<1>7. /\ n \in Nat /\ p = n - call + 1 /\ p \in 1..n
      /\ messages[p].calls = calls
      /\ \A i \in 1..n : i < p => AnsweredAt(messages, i)
      /\ \A i \in 1..n : i > p =>
           messages[i].calls = <<>> /\ messages[i].answers = i - p
  BY <1>1, <1>4, <1>10 DEF CallsAt, AnsweringInv
<1> HIDE DEF n, p
<1>12. n \in Int /\ p \in Int /\ call \in Int /\ p = n - call + 1
  BY <1>1, <1>7
<1>13. ms[p].calls = calls
  BY <1>4, <1>7 DEF n
<1>14. \A i \in DOMAIN ms : i < p => AnsweredAt(ms, i)
  BY <1>4, <1>5, <1>7 DEF n
<1>15. ASSUME NEW i \in DOMAIN ms, i > p
       PROVE  ms[i].calls = <<>> /\ ms[i].answers = i - p
  <2>1. CASE i = n + 1
    <3>1. ms[i] = m
      BY <2>1, <1>4 DEF n
    <3>2. i - p = call
      BY <2>1, <1>12
    <3>3. ms[i].answers = call /\ ms[i].calls = <<>>
      BY <3>1, <1>3, Zenon
    <3> QED BY <3>2, <3>3
  <2>2. CASE i \in 1..n
    BY <2>2, <1>4, <1>7, <1>15 DEF n
  <2> QED BY <2>1, <2>2, <1>4, <1>7 DEF n
<1>8. CASE ~LastCall
  <2>1. CallsAt' = Len(ms) - (call + 1) + 1
    BY <1>0 DEF CallsAt
  <2>2. CallsAt' = p
    BY <1>1, <1>4, <1>12, <1>7, <2>1 DEF n
  <2>3. calls' = calls /\ p \in DOMAIN ms
    BY <1>4, <1>7, <1>10 DEF n
  <2>4. AnsweringInv'
    BY <1>0, <1>13, <1>14, <1>15, <2>2, <2>3 DEF AnsweringInv
  <2> QED BY <1>6, <1>8, <1>11, <2>4 DEF MessagesInv
<1>9. CASE LastCall
  <2>1. Len(calls) = call /\ DOMAIN calls = 1..call
    BY <1>1, <1>9 DEF LastCall
  <2>2. \A k \in 1..call : p + k \in DOMAIN ms /\ p + k > p
    BY <1>1, <1>4, <1>7, <1>12 DEF n
  <2>3. AnsweredAt(ms, p)
    <3>1. ASSUME NEW k \in 1..call
          PROVE  p + k \in DOMAIN ms /\ ms[p + k].answers = k
      <4>1. p + k \in DOMAIN ms /\ p + k > p
        BY <2>2, <3>1
      <4>2. PICK i : i = p + k
        OBVIOUS
      <4>3. ms[i].answers = i - p
        BY <1>15, <4>1, <4>2
      <4>4. i - p = k
        BY <1>12, <3>1, <4>2
      <4> QED BY <4>1, <4>2, <4>3, <4>4
    <3>2. DOMAIN ms[p].calls = 1..call
      BY <1>13, <2>1
    <3> QED BY <3>1, <3>2 DEF AnsweredAt
  <2>4. ASSUME NEW i \in DOMAIN ms, i > p PROVE AnsweredAt(ms, i)
    <3>1. ms[i].calls = <<>>
      BY <1>15, <2>4
    <3> QED BY <3>1 DEF AnsweredAt
  <2>5. Answered(ms)
    BY <1>4, <1>7, <1>14, <2>3, <2>4 DEF Answered
  <2>6. Whole(ms)
    BY <1>4, <2>5, AnsweredIsWhole
  <2> QED BY <1>0, <1>6, <1>9, <2>5, <2>6 DEF MessagesInv
<1> QED BY <1>8, <1>9

LEMMA SummarizeStep ==
  ASSUME TypeOK, MessagesInv, NEW used \in Usages, Summarize(used)
  PROVE  MessagesInv'
<1> DEFINE old == result.messages
           ms == Append(Append(old, UserMessage), AssistantMessage(<<>>))
<1>1. <<>> \in Seq(ToolName)
  OBVIOUS
<1>2. old \in Seq(Message) /\ UserMessage \in Message
        /\ AssistantMessage(<<>>) \in Message
  BY <1>1, MessageTypes DEF TypeOK, Result
<1>3. UserMessage.role = "user" /\ AssistantMessage(<<>>).role = "assistant"
  BY DEF UserMessage, AssistantMessage
<1>4. /\ result'.messages = ms /\ result'.stop = "token_budget"
      /\ pc' = "returned"
  BY <1>2 DEF Summarize, Return
<1>5. Whole(ms)
  <2>1. /\ DOMAIN ms = 1..(Len(old) + 2) /\ DOMAIN old = 1..Len(old)
        /\ Len(old) \in Nat
        /\ ms[Len(old) + 1].role = "user" /\ ms[Len(old) + 2].role = "assistant"
        /\ \A i \in DOMAIN old : ms[i] = old[i]
    BY <1>2, <1>3
  <2>2. \A i \in DOMAIN old : AnsweredAt(old, i) => AnsweredAt(ms, i)
    BY <2>1 DEF AnsweredAt
  <2>3. Whole(old)
    BY DEF MessagesInv
  <2> HIDE DEF ms, old
  <2> QED BY <2>1, <2>2, <2>3 DEF Whole
<1> HIDE DEF ms, old
<1> QED BY <1>4, <1>5 DEF MessagesInv

LEMMA MessagesStep ==
  ASSUME TypeOK, CallInv, MessagesInv, [Next]_vars
  PROVE  MessagesInv'
<1>1. CASE UNCHANGED <<pc, messages, calls, call, result>>
  BY <1>1 DEF MessagesInv, AnsweringInv, AnsweredButLast, CallsAt
<1>2. CASE Begin
  BY <1>2, AnsweredIsWhole
     DEF Begin, MessagesInv, turnVars, TypeOK, Result
<1>3. CASE StartTurn
  BY <1>3 DEF StartTurn, AnotherTurn, MessagesInv, turnVars
<1>4. CASE BudgetSpentBefore \/ AskForSummary
  BY <1>4 DEF BudgetSpentBefore, AnotherTurn, AskForSummary, MessagesInv,
     Answered, AnsweredButLast
<1>5. CASE ReachTurnLimit
  BY <1>5 DEF ReachTurnLimit, Return, MessagesInv, TypeOK, Result
<1>6. ASSUME pc # "returned", pc' = "returned", result'.messages = result.messages,
             result'.stop \notin {"completed", "turn_limit"}
      PROVE  MessagesInv'
  BY <1>6 DEF MessagesInv
<1>7. CASE ProviderMissing \/ GenerateFails \/ UnknownTool
  BY <1>6, <1>7 DEF ProviderMissing, GenerateFails, UnknownTool, Return,
     MessagesInv
<1>8. CASE GiveUp \/ \E ok \in BOOLEAN : RunTerminalTool(ok)
  BY <1>6, <1>8 DEF GiveUp, RunTerminalTool, Execute, Return, MessagesInv,
     TypeOK, Result
<1> QED
  BY <1>1, <1>2, <1>3, <1>4, <1>5, <1>7, <1>8, RespondStep, AnswerStep,
     SummarizeStep
     DEF Next, RegisterTool, Use, Returned, vars, turnVars

LEMMA MessagesInvariant == Spec => []MessagesInv
<1>1. Init => MessagesInv
  <2> SUFFICES ASSUME Init PROVE MessagesInv
    OBVIOUS
  <2>1. messages = <<UserMessage>> /\ pc = "idle" /\ UserMessage.calls = <<>>
    BY DEF Init, UserMessage
  <2>2. result.messages = <<>> /\ result.stop = ""
    BY DEF Init
  <2>3. Answered(messages)
    <3>1. ASSUME NEW i \in DOMAIN messages PROVE messages[i].calls = <<>>
      BY <2>1
    <3> QED BY <3>1 DEF Answered, AnsweredAt
  <2>4. Whole(result.messages)
    <3>1. result.messages \in Seq(Message) /\ Len(result.messages) = 0
      BY <2>2, TypeInit DEF TypeOK, Result
    <3> QED BY <3>1 DEF Whole
  <2> QED BY <2>1, <2>2, <2>3, <2>4 DEF MessagesInv
<1>2. TypeOK /\ CallInv /\ MessagesInv /\ [Next]_vars => MessagesInv'
  BY MessagesStep
<1> QED BY TypeInvariant, <1>1, <1>2, PTL DEF Spec

(* Each request of a turn, and what a completed or turn-limited run hands  *)
(* back, has every tool call answered (agent.go:244-257).  The wrap-up's   *)
(* request does not: there only the calls of the last response may be      *)
(* open, every earlier one is answered (agent.go:213-214, 311-312).        *)
THEOREM CallsAreAnswered == Spec => []ConversationAnswered
<1>1. MessagesInv => ConversationAnswered
  BY DEF MessagesInv, Answered, AnsweredButLast, ConversationAnswered
<1> QED BY MessagesInvariant, <1>1, PTL

(* However a run ends, no turn is handed back half answered.               *)
THEOREM TurnsAreWhole == Spec => []WholeTurns
<1>1. MessagesInv => WholeTurns
  BY DEF MessagesInv, Whole, WholeTurns
<1> QED BY MessagesInvariant, <1>1, PTL

-----------------------------------------------------------------------------
(* What is reported.                                                       *)

(* How many tool messages ms has.                                          *)
Reports(ms) == Cardinality(ToolMessages(ms))

(* Every execution has its message in the conversation Run keeps; and the  *)
(* result's conversation is that one whenever the turn's tools are done.   *)
ReportInv ==
  /\ pc # "returned" => Reports(messages) = Len(executed)
  /\ pc = "idle" => result.messages = <<>> /\ executed = <<>>
  /\ pc \in {"wrapup", "summary"} => result.messages = messages
  /\ EffectsReported

LEMMA ReportsAppend ==
  ASSUME NEW ms \in Seq(Message), NEW m \in Message
  PROVE  /\ m.role = "tool" => Reports(Append(ms, m)) = Reports(ms) + 1
         /\ m.role # "tool" => Reports(Append(ms, m)) = Reports(ms)
         /\ Reports(ms) \in Nat
<1> DEFINE n == Len(ms)
           t == Append(ms, m)
           T == ToolMessages(ms)
           U == ToolMessages(t)
<1>1. n \in Nat /\ DOMAIN ms = 1..n
  BY LenProperties
<1>2. /\ DOMAIN t = 1..(n + 1) /\ t[n + 1] = m
      /\ \A i \in DOMAIN ms : t[i] = ms[i]
  BY AppendTypes
<1> HIDE DEF n, t
<1>3. IsFiniteSet(T)
  <2>1. IsFiniteSet(DOMAIN ms)
    BY <1>1, FS_Interval
  <2> QED BY <2>1, FS_Subset DEF ToolMessages
<1>4. 1..(n + 1) = (1..n) \cup {n + 1} /\ n + 1 \notin 1..n
  BY <1>1
<1>5. m.role # "tool" => U = T
  BY <1>1, <1>2, <1>4 DEF ToolMessages
<1>6. m.role = "tool" => U = T \cup {n + 1}
  BY <1>1, <1>2, <1>4 DEF ToolMessages
<1>7. n + 1 \notin T
  BY <1>1, <1>4 DEF ToolMessages
<1> HIDE DEF T, U
<1>8. Cardinality(T) \in Nat
  BY <1>3, FS_CardinalityType
<1>9. Cardinality(T \cup {n + 1}) = Cardinality(T) + 1
  BY <1>3, <1>7, FS_AddElement
<1> QED BY <1>5, <1>6, <1>8, <1>9 DEF Reports, T, U, t

LEMMA NoReports ==
  ASSUME NEW ms \in Seq(Message), \A i \in DOMAIN ms : ms[i].role # "tool"
  PROVE  Reports(ms) = 0
<1>1. ToolMessages(ms) = {}
  BY DEF ToolMessages
<1> QED BY <1>1, FS_EmptySet DEF Reports

LEMMA ReportInit == Init => ReportInv
<1> SUFFICES ASSUME Init PROVE ReportInv
  OBVIOUS
<1>1. /\ messages = <<UserMessage>> /\ pc = "idle" /\ executed = <<>>
      /\ result.messages = <<>> /\ UserMessage.role = "user"
  BY DEF Init, UserMessage
<1>2. Reports(messages) = 0
  <2>1. messages \in Seq(Message) /\ \A i \in DOMAIN messages : messages[i].role # "tool"
    BY <1>1, MessageTypes
  <2> QED BY <2>1, NoReports
<1>3. Len(executed) = 0
  BY <1>1
<1> QED BY <1>1, <1>2, <1>3 DEF ReportInv, EffectsReported

(* A run that returns with the conversation it kept reports everything.    *)
LEMMA ReportsReturned ==
  ASSUME ReportInv, pc # "returned", pc' = "returned", executed' = executed,
         result'.messages = messages
  PROVE  ReportInv'
BY DEF ReportInv, EffectsReported, Reports, ToolMessages

LEMMA RespondReports ==
  ASSUME TypeOK, ReportInv, NEW names \in Responses, NEW used \in Usages,
         Respond(names, used)
  PROVE  ReportInv'
<1> DEFINE m == AssistantMessage(names)
           ms == Append(messages, m)
<1>1. messages \in Seq(Message) /\ m \in Message /\ m.role # "tool"
  BY MessageTypes, ResponseTypes DEF TypeOK, AssistantMessage, UserMessage
<1> HIDE DEF m
<1>2. Reports(ms) = Reports(messages)
  BY <1>1, ReportsAppend
<1>3. /\ pc = "generate" /\ pc' \in {"returned", "wrapup", "tools"}
      /\ messages' = ms /\ result'.messages = ms /\ executed' = executed
  BY DEF Respond, m
<1> HIDE DEF ms
<1>4. Reports(ms) = Len(executed')
  BY <1>2, <1>3 DEF ReportInv
<1>5. (pc # "returned" => Reports(messages) = Len(executed))'
  BY <1>3, <1>4 DEF Reports, ToolMessages
<1>6. EffectsReported'
  BY <1>3, <1>4 DEF EffectsReported, Reports, ToolMessages
<1> QED BY <1>3, <1>5, <1>6 DEF ReportInv

LEMMA AnswerReports ==
  ASSUME TypeOK, ReportInv, NEW ok \in BOOLEAN, RunTool(ok)
  PROVE  ReportInv'
<1> DEFINE m == ToolMessage(call, ok)
           ms == Append(messages, m)
<1>1. messages \in Seq(Message) /\ m \in Message /\ m.role = "tool"
  BY MessageTypes DEF TypeOK, ToolMessage
<1> HIDE DEF m
<1>2. Reports(ms) = Reports(messages) + 1
  BY <1>1, ReportsAppend
<1>3. pc = "tools" /\ pc' \in {"turn", "tools"} /\ messages' = ms
  BY DEF RunTool, Execute, Answer, AnswerWith, Answering, m
<1>4. Len(executed') = Len(executed) + 1
  BY ExecuteStep DEF RunTool
<1> HIDE DEF ms
<1>5. Reports(ms) = Len(executed')
  BY <1>2, <1>3, <1>4 DEF ReportInv
<1>6. (pc # "returned" => Reports(messages) = Len(executed))'
  BY <1>3, <1>5 DEF Reports, ToolMessages
<1> QED BY <1>3, <1>6 DEF ReportInv, EffectsReported

LEMMA SummarizeReports ==
  ASSUME TypeOK, ReportInv, NEW used \in Usages, Summarize(used)
  PROVE  ReportInv'
<1> DEFINE m1 == UserMessage
           m2 == AssistantMessage(<<>>)
           old == result.messages
           mid == Append(old, m1)
           ms == Append(mid, m2)
<1>1. <<>> \in Seq(ToolName)
  OBVIOUS
<1>2. /\ old \in Seq(Message) /\ m1 \in Message /\ m2 \in Message
      /\ m1.role # "tool" /\ m2.role # "tool"
  BY <1>1, MessageTypes DEF TypeOK, Result, AssistantMessage, UserMessage
<1>3. result'.messages = ms /\ pc = "summary" /\ pc' = "returned"
      /\ executed' = executed
  BY <1>2 DEF Summarize, Return
<1>4. old = messages /\ Reports(messages) = Len(executed)
  BY <1>3 DEF ReportInv
<1> HIDE DEF m1, m2, old
<1>5. Reports(mid) = Reports(old) /\ mid \in Seq(Message)
  BY <1>2, ReportsAppend
<1> HIDE DEF mid
<1>6. Reports(ms) = Reports(mid)
  BY <1>2, <1>5, ReportsAppend
<1> HIDE DEF ms
<1>7. Reports(ms) = Len(executed')
  BY <1>3, <1>4, <1>5, <1>6
<1> QED BY <1>3, <1>7 DEF ReportInv, EffectsReported, Reports, ToolMessages

LEMMA ReportStep ==
  ASSUME TypeOK, MessagesInv, ReportInv, [Next]_vars
  PROVE  ReportInv'
<1>1. CASE UNCHANGED <<pc, messages, result, err, executed>>
  BY <1>1 DEF ReportInv, EffectsReported, Reports, ToolMessages
<1>2. CASE Begin \/ StartTurn \/ BudgetSpentBefore \/ AskForSummary
  <2>1. /\ UNCHANGED <<messages, executed>>
        /\ pc \notin {"returned"} /\ pc' \notin {"idle", "returned"}
        /\ pc' \in {"wrapup", "summary"} => result' = result
        /\ pc' \in {"wrapup", "summary"} => pc \in {"turn", "wrapup"}
    BY <1>2 DEF Begin, StartTurn, BudgetSpentBefore, AnotherTurn, AskForSummary,
       turnVars
  <2>2. pc' \in {"wrapup", "summary"} => result'.messages = messages'
    BY <2>1 DEF MessagesInv, ReportInv
  <2>3. Reports(messages) = Len(executed)
    BY <2>1 DEF ReportInv
  <2> QED BY <2>1, <2>2, <2>3 DEF ReportInv, EffectsReported, Reports, ToolMessages
<1>3. CASE ProviderMissing
  <2>1. pc' = "returned" /\ result'.messages = <<>> /\ executed' = <<>>
    BY <1>3 DEF ProviderMissing, Return, ReportInv
  <2> DEFINE ms == result'.messages
  <2>2. Reports(ms) = 0
    <3>1. ms \in Seq(Message) /\ \A i \in DOMAIN ms : ms[i].role # "tool"
      BY <2>1
    <3> HIDE DEF ms
    <3> QED BY <3>1, NoReports
  <2>3. Len(executed') = 0
    BY <2>1
  <2> QED BY <2>1, <2>2, <2>3 DEF ReportInv, EffectsReported, Reports, ToolMessages
<1>4. CASE ReachTurnLimit \/ GenerateFails \/ GiveUp
  <2>1. /\ pc # "returned" /\ pc' = "returned" /\ executed' = executed
        /\ pc \in {"turn", "generate", "summary", "wrapup"}
        /\ result'.messages = result.messages
    BY <1>4 DEF ReachTurnLimit, GenerateFails, GiveUp, Return, TypeOK, Result
  <2>2. result.messages = messages
    BY <2>1 DEF MessagesInv, ReportInv
  <2> QED BY <2>1, <2>2, ReportsReturned
<1>5. CASE UnknownTool \/ \E ok \in BOOLEAN : RunTerminalTool(ok)
  <2>1. /\ pc' = "returned"
        /\ result'.stop = "terminal_tool" \/ err' \in {"toolnotfound", "terminal"}
    BY <1>5 DEF UnknownTool, RunTerminalTool, Return, TypeOK, Result
  <2> QED BY <2>1 DEF ReportInv, EffectsReported
<1> QED
  BY <1>1, <1>2, <1>3, <1>4, <1>5, RespondReports, AnswerReports, SummarizeReports
     DEF Next, RegisterTool, Use, Returned, vars, turnVars

(* Unless an unknown or a terminal tool cuts a turn short, the caller gets *)
(* a result of every tool that was run, however the run ends               *)
(* (agent.go:259).                                                         *)
THEOREM EffectsAreReported == Spec => []EffectsReported
<1>1. TypeOK /\ MessagesInv /\ ReportInv /\ [Next]_vars => ReportInv'
  BY ReportStep
<1>2. ReportInv => EffectsReported
  BY DEF ReportInv
<1> QED BY TypeInvariant, MessagesInvariant, ReportInit, <1>1, <1>2, PTL DEF Spec
=============================================================================
