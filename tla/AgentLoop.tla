------------------------------ MODULE AgentLoop ------------------------------
(***************************************************************************)
(* One call of Agent.Run (pkg/agent/agent.go): turns of asking the model   *)
(* and running the tools it calls, under a turn limit and a token budget,  *)
(* while other goroutines register tools and middleware with the agent.    *)
(*                                                                         *)
(* The model answers as it likes: with any calls, of tools that exist or   *)
(* not, and any usage.  A streamed and a plain generation differ only in   *)
(* the ways they can fail, so GenerateFails stands for both.  An execution *)
(* is a call of the tool behind the middleware that wraps it; middleware   *)
(* is only ever appended, so how much of it there is tells which it is.    *)
(***************************************************************************)
EXTENDS Integers, FiniteSets, SequencesExt

CONSTANTS
  ToolName,   \* names a tool may be registered under, or the model may call
  Terminal,   \* the tools that end a run
  Requests,   \* RunRequests
  Usages,     \* what one generation may use
  MaxCalls,   \* bound: tool calls in one response
  MaxMiddleware  \* bound: tool and event middleware, each

Usage == [input : Nat, output : Nat]

Request ==
  [ maxTurns : Int, maxInput : Int, maxOutput : Int, maxTotal : Int,
    reserve : Int ]

ASSUME AgentAssumption ==
  /\ Terminal \subseteq ToolName
  /\ Requests \subseteq Request
  /\ Usages \subseteq Usage
  /\ MaxCalls \in Nat /\ MaxMiddleware \in Nat

(* A conversation: calls is an assistant's tool calls, answers the number  *)
(* of the call a tool message answers.                                     *)
Message ==
  [ role : {"user", "assistant", "tool"}, calls : Seq(ToolName),
    answers : Nat, isError : BOOLEAN ]

UserMessage ==
  [role |-> "user", calls |-> <<>>, answers |-> 0, isError |-> FALSE]

AssistantMessage(names) ==
  [UserMessage EXCEPT !.role = "assistant", !.calls = names]

ToolMessage(k, ok) ==
  [role |-> "tool", calls |-> <<>>, answers |-> k, isError |-> ~ok]

VARIABLES
  request,    \* the RunRequest
  registry,   \* the agent's tools, shared
  installed,  \* the agent's middleware, shared
  pc,         \* where Run is
  tools,      \* Run's copy of the tools
  chain,      \* Run's copy of the middleware
  turn,       \* Run's turn
  messages,   \* Run's messages
  calls,      \* the tool calls of the last response
  call,       \* the tool call of the turn to run next
  result,     \* Run's result
  err,        \* the error returned
  asked,      \* history: what each generation was asked with
  executed    \* history: the tool calls executed

turnVars == <<turn, messages, calls, call>>
agentVars == <<registry, installed>>
copies == <<tools, chain>>
vars == <<request, agentVars, pc, copies, turnVars, result, err, asked,
          executed>>

PC == {"idle", "turn", "generate", "tools", "wrapup", "summary", "returned"}
StopReason == {"", "completed", "terminal_tool", "turn_limit", "token_budget"}
ErrKind == {"none", "provider", "generate", "toolnotfound", "terminal",
            "turnlimit", "budget"}

Result ==
  [messages : Seq(Message), usage : Usage, turns : Nat, stop : StopReason]

Generation ==
  [wrapUp : BOOLEAN, usage : Usage, offered : SUBSET ToolName, through : Nat]

Execution == [turn : Nat, call : Nat, name : ToolName, through : Nat]

Middleware == [tool : Nat, events : Nat]

Total(u) == u.input + u.output
Remaining(u, v) ==
  [input |-> u.input - v.input, output |-> u.output - v.output]
Add(u, v) == [input |-> u.input + v.input, output |-> u.output + v.output]

TurnLimit == IF request.maxTurns < 1 THEN 8 ELSE request.maxTurns

(* The caps of the budget, 0 for none, and whether usage u has reached one *)
(* when a reserve is kept back from the output and the total.              *)
BudgetPassed(u, kept) ==
  \/ request.maxInput > 0 /\ u.input > request.maxInput
  \/ request.maxOutput > 0 /\ u.output > request.maxOutput - kept
  \/ request.maxTotal > 0 /\ Total(u) > request.maxTotal - kept

BudgetReached(u, kept) ==
  \/ request.maxInput > 0 /\ u.input >= request.maxInput
  \/ request.maxOutput > 0 /\ u.output >= request.maxOutput - kept
  \/ request.maxTotal > 0 /\ Total(u) >= request.maxTotal - kept

Return(e) == pc' = "returned" /\ err' = e

-----------------------------------------------------------------------------
Init ==
  /\ request \in Requests
  /\ registry \in SUBSET ToolName
  /\ pc = "idle"
  /\ installed = [tool |-> 0, events |-> 0]
  /\ tools = {}
  /\ chain = [tool |-> 0, events |-> 0]
  /\ turn = 1
  /\ messages = <<UserMessage>>
  /\ calls = <<>>
  /\ call = 1
  /\ result = [ messages |-> <<>>, turns |-> 0, stop |-> "",
                usage |-> [input |-> 0, output |-> 0] ]
  /\ err = "none"
  /\ asked = <<>>
  /\ executed = <<>>

(* RegisterTool by another goroutine while Run runs; it refuses a name     *)
(* that is taken.                                                          *)
RegisterTool(name) ==
  /\ pc # "returned"
  /\ name \notin registry
  /\ registry' = registry \cup {name}
  /\ UNCHANGED <<request, installed, pc, copies, turnVars, result, err, asked,
                 executed>>

(* UseTool and UseEvents, likewise.                                        *)
Use(kind) ==
  /\ pc # "returned"
  /\ installed[kind] < MaxMiddleware
  /\ installed' = [installed EXCEPT ![kind] = @ + 1]
  /\ UNCHANGED <<request, registry, pc, copies, turnVars, result, err, asked,
                 executed>>

ProviderMissing ==
  /\ pc = "idle"
  /\ Return("provider")
  /\ UNCHANGED <<request, agentVars, copies, turnVars, result, asked, executed>>

(* Run copies the tools and the middleware under the read lock.            *)
Begin ==
  /\ pc = "idle"
  /\ pc' = "turn"
  /\ tools' = registry
  /\ chain' = installed
  /\ result' = [result EXCEPT !.messages = messages]
  /\ UNCHANGED <<request, agentVars, turnVars, err, asked, executed>>

-----------------------------------------------------------------------------
(* The head of the loop over turns.                                        *)
ReachTurnLimit ==
  /\ pc = "turn"
  /\ turn > TurnLimit
  /\ Return("turnlimit")
  /\ result' = [result EXCEPT !.stop = "turn_limit"]
  /\ UNCHANGED <<request, agentVars, copies, turnVars, asked, executed>>

AnotherTurn == pc = "turn" /\ turn <= TurnLimit

Ask(isWrapUp, offered) ==
  asked' = Append(asked, [ wrapUp |-> isWrapUp, usage |-> result.usage,
                           offered |-> offered, through |-> chain.events ])

StartTurn ==
  /\ AnotherTurn
  /\ ~BudgetReached(result.usage, request.reserve)
  /\ pc' = "generate"
  /\ Ask(FALSE, tools)
  /\ UNCHANGED <<request, agentVars, copies, turnVars, result, err, executed>>

BudgetSpentBefore ==
  /\ AnotherTurn
  /\ BudgetReached(result.usage, request.reserve)
  /\ pc' = "wrapup"
  /\ UNCHANGED <<request, agentVars, copies, turnVars, result, err, asked,
                 executed>>

(* A generation, of a turn or of the wrap-up, fails.                       *)
GenerateFails ==
  /\ pc \in {"generate", "summary"}
  /\ Return("generate")
  /\ UNCHANGED <<request, agentVars, copies, turnVars, result, asked, executed>>

(* The response: the run completes, or it is out of budget, or it goes on  *)
(* to the first tool call.                                                 *)
Respond(names, used) ==
  LET usage == Add(result.usage, used)
      done == names = <<>>
  IN /\ pc = "generate"
     /\ messages' = Append(messages, AssistantMessage(names))
     /\ result' = [ messages |-> messages', usage |-> usage, turns |-> turn,
                    stop |-> IF done THEN "completed" ELSE result.stop ]
     /\ calls' = names
     /\ call' = 1
     /\ pc' = IF done THEN "returned"
              ELSE IF BudgetReached(usage, request.reserve) THEN "wrapup"
              ELSE "tools"
     /\ UNCHANGED <<request, agentVars, copies, turn, err, asked, executed>>

-----------------------------------------------------------------------------
(* The tool calls of a turn, one after the other.                          *)
Name == calls[call]

KnownNow == registry
Known == tools

UnknownTool ==
  /\ pc = "tools"
  /\ Name \notin Known
  /\ Return("toolnotfound")
  /\ UNCHANGED <<request, agentVars, copies, turnVars, result, asked, executed>>

Execute ==
  /\ pc = "tools"
  /\ Name \in Known
  /\ executed' =
       Append(executed, [ turn |-> turn, call |-> call, name |-> Name,
                          through |-> chain.tool ])

(* The result of a call, an error included, becomes a message; the last    *)
(* one hands the turn's messages over and the next turn begins.            *)
LastCall == call = Len(calls)

AnswerWith(conversation, handedOver) ==
  /\ messages' = conversation
  /\ call' = call + 1
  /\ result' = IF handedOver THEN [result EXCEPT !.messages = conversation]
                             ELSE result
  /\ IF LastCall THEN turn' = turn + 1 /\ pc' = "turn"
                 ELSE UNCHANGED <<turn, pc>>

Answering(ok) == Append(messages, ToolMessage(call, ok))

AnswerUnlessFailed(ok) ==
  AnswerWith(IF ok THEN Answering(ok) ELSE messages, LastCall)
AnswerAtOnce(ok) == AnswerWith(Answering(ok), TRUE)
AnswerLocally(ok) == AnswerWith(Answering(ok), FALSE)
Answer(ok) == AnswerWith(Answering(ok), LastCall)

RunTool(ok) ==
  /\ Execute
  /\ Name \notin Terminal
  /\ Answer(ok)
  /\ UNCHANGED <<request, agentVars, copies, calls, err, asked>>

TerminalToolRetried(ok) ==
  /\ Execute
  /\ Name \in Terminal
  /\ IF ok THEN /\ Return("none")
                /\ result' = [result EXCEPT !.stop = "terminal_tool"]
                /\ UNCHANGED <<messages, call, turn>>
           ELSE Answer(ok) /\ UNCHANGED err
  /\ UNCHANGED <<request, agentVars, copies, calls, asked>>

(* A terminal tool ends the run, well or badly.                            *)
RunTerminalTool(ok) ==
  /\ Execute
  /\ Name \in Terminal
  /\ IF ok THEN /\ Return("none")
                /\ result' = [result EXCEPT !.stop = "terminal_tool"]
           ELSE Return("terminal") /\ UNCHANGED result
  /\ UNCHANGED <<request, agentVars, copies, turnVars, asked>>

-----------------------------------------------------------------------------
(* wrapUp: a last generation without tools, if the reserve can pay for it. *)
Exhausted == request.reserve <= 0 \/ BudgetReached(result.usage, 0)

GiveUp ==
  /\ pc = "wrapup"
  /\ Exhausted
  /\ Return("budget")
  /\ result' = [result EXCEPT !.stop = "token_budget"]
  /\ UNCHANGED <<request, agentVars, copies, turnVars, asked, executed>>

AskForSummary ==
  /\ pc = "wrapup"
  /\ ~Exhausted
  /\ pc' = "summary"
  /\ Ask(TRUE, {})
  /\ UNCHANGED <<request, agentVars, copies, turnVars, result, err, executed>>

Summarize(used) ==
  /\ pc = "summary"
  /\ Return("none")
  /\ result' =
       [ messages |-> result.messages
                        \o <<UserMessage, AssistantMessage(<<>>)>>,
         usage |-> Add(result.usage, used), turns |-> result.turns,
         stop |-> "token_budget" ]
  /\ UNCHANGED <<request, agentVars, copies, turnVars, asked, executed>>

Returned == pc = "returned" /\ UNCHANGED vars

Responses == UNION { [1..n -> ToolName] : n \in 0..MaxCalls }

Next ==
  \/ \E name \in ToolName : RegisterTool(name)
  \/ \E kind \in {"tool", "events"} : Use(kind)
  \/ ProviderMissing \/ Begin
  \/ ReachTurnLimit \/ StartTurn \/ BudgetSpentBefore
  \/ GenerateFails
  \/ \E names \in Responses, used \in Usages : Respond(names, used)
  \/ UnknownTool
  \/ \E ok \in BOOLEAN : RunTool(ok) \/ RunTerminalTool(ok)
  \/ GiveUp \/ AskForSummary
  \/ \E used \in Usages : Summarize(used)
  \/ Returned

Spec == Init /\ [][Next]_vars

-----------------------------------------------------------------------------
(* Properties.                                                             *)

(* Every variable keeps its type.                                          *)
TypeOK ==
  /\ request \in Requests
  /\ registry \in SUBSET ToolName /\ tools \in SUBSET ToolName
  /\ installed \in Middleware /\ chain \in Middleware
  /\ pc \in PC
  /\ turn \in Nat
  /\ messages \in Seq(Message)
  /\ calls \in Seq(ToolName)
  /\ call \in Nat
  /\ result \in Result
  /\ err \in ErrKind
  /\ asked \in Seq(Generation)
  /\ executed \in Seq(Execution)

(* The i-th message's calls are answered by the messages that follow it,   *)
(* in order and one each.                                                  *)
AnsweredAt(ms, i) ==
  \A k \in DOMAIN ms[i].calls :
    i + k \in DOMAIN ms /\ ms[i + k].answers = k

(* Every request of a turn, and every conversation a completed or turn-    *)
(* limited run hands back, answers each tool call before the next message, *)
(* failed tools included, as providers require (agent.go:244-257).  The    *)
(* wrap-up's request, result.messages and a prompt, is the one exception:  *)
(* there the calls of the last response may be unanswered, all of them and *)
(* no earlier one (agent.go:213-214, 311-312).                             *)
ConversationAnswered ==
  /\ pc = "generate" => \A i \in DOMAIN messages : AnsweredAt(messages, i)
  /\ pc = "summary" =>
       \A i \in DOMAIN result.messages :
         AnsweredAt(result.messages, i) \/ i = Len(result.messages)
  /\ result.stop \in {"completed", "turn_limit"} =>
       \A i \in DOMAIN result.messages : AnsweredAt(result.messages, i)

(* The conversation a caller gets back, whatever ended the run, never      *)
(* holds a turn some of whose tool calls are answered and some are not: a  *)
(* run cut short between two tools hands back none of that turn's results. *)
WholeTurns ==
  \A i, j \in DOMAIN result.messages :
    i < j /\ result.messages[j].role = "tool" => AnsweredAt(result.messages, i)

(* The places of the tool messages in a conversation.                      *)
ToolMessages(ms) == { i \in DOMAIN ms : ms[i].role = "tool" }

(* Unless an unknown or a terminal tool cuts a turn short, the caller gets *)
(* a result of every tool that was run (agent.go:259): whether the run     *)
(* completes, reaches a limit or fails, no effect goes unreported.         *)
EffectsReported ==
  /\ pc = "returned"
  /\ result.stop # "terminal_tool"
  /\ err \notin {"toolnotfound", "terminal"}
  => Cardinality(ToolMessages(result.messages)) = Len(executed)

(* Each tool call is executed at most once and in the order the model gave *)
(* them, and nothing is executed after a terminal tool, even a failed one. *)
ToolsInOrder ==
  \A i, j \in DOMAIN executed :
    i < j => /\ executed[i].name \notin Terminal
             /\ \/ executed[i].turn < executed[j].turn
                \/ /\ executed[i].turn = executed[j].turn
                   /\ executed[i].call < executed[j].call

(* A tool is executed only if the generation that called it had been       *)
(* offered it, and all of a run's executions pass the same middleware and  *)
(* all its generations report through the same, whatever is registered     *)
(* meanwhile (agent.go:148-178).                                           *)
OffersHold ==
  /\ \A i \in DOMAIN executed :
       executed[i].name \in asked[executed[i].turn].offered
  /\ \A i, j \in DOMAIN executed : executed[i].through = executed[j].through
  /\ \A i, j \in DOMAIN asked : asked[i].through = asked[j].through

(* No generation, the wrap-up included, starts once a cap of the budget is *)
(* used up, so a run overspends by one generation at most; and the model   *)
(* is asked once per turn, for at most the turn limit, and once more for a *)
(* wrap-up, which is the last thing asked.                                 *)
StartsWithinLimits ==
  /\ request.reserve >= 0 =>
       \A i \in DOMAIN asked :
         LET u == asked[i].usage
         IN /\ request.maxInput > 0 => u.input < request.maxInput
            /\ request.maxOutput > 0 => u.output < request.maxOutput
            /\ request.maxTotal > 0 => Total(u) < request.maxTotal
  /\ \A i \in DOMAIN asked :
       IF asked[i].wrapUp THEN i = Len(asked) ELSE i <= TurnLimit
=============================================================================
