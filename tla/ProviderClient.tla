---------------------------- MODULE ProviderClient ----------------------------
(***************************************************************************)
(* The provider clients (pkg/providers): how a conversation becomes a      *)
(* request, how the chunks of a streamed answer become events and one      *)
(* response, and how the next request carries that response on.            *)
(*                                                                         *)
(* The three clients implement one contract, llm.LLM, differently; each    *)
(* definition says where.  The service and its SDK are external: answers   *)
(* arrive in chunks, plain ones unseen.  A part of an answer is known by   *)
(* its place in it; of a JSON text only whether it parses matters.         *)
(***************************************************************************)
EXTENDS Integers, SequencesExt

CONSTANTS
  Chunks,         \* per client, the chunks its service may send
  Conversations,  \* the caller's messages
  Requests,       \* the rest of its request
  Configured,     \* WithMaxTokens, 0 for none
  MaxInt32,       \* greatest 32-bit integer, scaled down
  MaxChunks       \* bounds: chunks per turn, and with them the turns

Client == {"openai", "anthropic", "gemini"}
JSON == {"object", "null", "array", "broken"}
Role == {"user", "assistant", "system", "tool"}

Request == [stream : BOOLEAN, schema : JSON, limit : Nat]

(* args is a call's input as the service gives it, "none" if it has none.  *)
Part == [kind : {"text", "thought", "call"}, args : JSON \cup {"none"}]
Chunk ==
  [ parts : Seq(Part), finish : {"none", "stop", "calls", "length"},
    usage : BOOLEAN, content : BOOLEAN ]

ID == Seq(Nat)
ToolCall == [id : ID, input : JSON]
Message ==
  [role : Role \cup {"other"}, calls : Seq(ToolCall), answers : ID]

(* Each tool call has its result after it.                                 *)
Answered(ms) ==
  \A i \in DOMAIN ms : \A k \in DOMAIN ms[i].calls :
    /\ i + k <= Len(ms)
    /\ ms[i + k].role = "tool"
    /\ ms[i + k].answers = ms[i].calls[k].id

(* The arguments of gemini's calls are a map, or nil, by their type.       *)
ASSUME ClientAssumption ==
  /\ DOMAIN Chunks \subseteq Client
  /\ \A c \in DOMAIN Chunks : Chunks[c] \subseteq Chunk
  /\ "gemini" \in DOMAIN Chunks =>
       \A k \in Chunks["gemini"] : \A i \in DOMAIN k.parts :
         k.parts[i].args \in {"object", "none"}
  /\ \A ms \in Conversations : ms \in Seq(Message) /\ Answered(ms)
  /\ Requests \subseteq Request
  /\ Configured \in Nat /\ MaxInt32 \in Nat \ {0}
  /\ MaxChunks \in Seq(Nat)

VARIABLES
  client, request,  \* the provider and the caller's request, fixed
  messages,  \* the conversation
  turn,      \* how often the provider has been asked
  pc,        \* where Generate or Stream is
  sent,      \* what params made of the conversation
  received,  \* the answer's chunks so far
  pending,   \* events Stream is about to emit
  events,    \* the events the handler got
  out,       \* the response
  err        \* the error returned

fixedVars == <<client, request>>
answerVars == <<received, pending, events, out>>
vars == <<fixedVars, messages, turn, pc, sent, answerVars, err>>

NoResponse == [text |-> <<>>, calls |-> <<>>, usage |-> 0, stop |-> ""]
NothingSent == [system |-> <<>>, messages |-> <<>>, limit |-> 0]

Init ==
  /\ client \in DOMAIN Chunks
  /\ request \in Requests
  /\ messages \in Conversations
  /\ turn = 0
  /\ pc = "ask"
  /\ sent = NothingSent
  /\ received = <<>> /\ pending = <<>> /\ events = <<>>
  /\ out = NoResponse
  /\ err = "none"

-----------------------------------------------------------------------------
(* params.  encoding/json (external): any value parses into an any, only   *)
(* an object or null into a map or a struct.                               *)
Parses(json, target) ==
  CASE target = "any" -> json # "broken"
    [] target = "map" -> json \in {"object", "null"}

BadRole == \E i \in DOMAIN messages : messages[i].role \notin Role
BadInput(target) ==
  \E i \in DOMAIN messages : \E k \in DOMAIN messages[i].calls :
    ~Parses(messages[i].calls[k].input, target)
BadSchema(target) == ~Parses(request.schema, target)

Errors(role, input, schema) ==
  { e \in {"role", "input", "schema"} :
      \/ e = "role" /\ role
      \/ e = "input" /\ input
      \/ e = "schema" /\ schema }

(* openai passes a call's input on as it is; anthropic and gemini parse it.*)
OpenAIRefusals == Errors(BadRole, FALSE, BadSchema("map"))
AnthropicRefusals == Errors(BadRole, BadInput("any"), BadSchema("map"))
GeminiRefusals == Errors(BadRole, BadInput("map"), BadSchema("any"))

Refusals ==
  CASE client = "openai" -> OpenAIRefusals
    [] client = "anthropic" -> AnthropicRefusals
    [] client = "gemini" -> GeminiRefusals

OfRole(ms, roles) ==
  FlattenSeq([i \in DOMAIN ms |-> IF ms[i].role \in roles THEN <<ms[i]>>
                                                         ELSE <<>>])
Turn == Role \ {"system"}

OrElse(limit, default) == IF limit = 0 THEN default ELSE limit

(* int32(maxTokens).                                                       *)
Wrap(n) ==
  ((n + MaxInt32 + 1) % (2 * (MaxInt32 + 1))) - (MaxInt32 + 1)

(* openai leaves system messages in their place, the others send them      *)
(* apart; a limit of 0 is not sent, except by anthropic, which has its own.*)
OpenAIParams ==
  [ system |-> <<>>, messages |-> messages,
    limit |-> OrElse(request.limit, Configured) ]

AnthropicParams ==
  [ system |-> OfRole(messages, {"system"}),
    messages |-> OfRole(messages, Turn),
    limit |-> OrElse(request.limit, OrElse(Configured, 1024)) ]

GeminiParams ==
  [ system |-> OfRole(messages, {"system"}),
    messages |-> OfRole(messages, Turn),
    limit |-> Wrap(OrElse(request.limit, Configured)) ]

Params ==
  CASE client = "openai" -> OpenAIParams
    [] client = "anthropic" -> AnthropicParams
    [] client = "gemini" -> GeminiParams

Ask ==
  /\ pc = "ask"
  /\ Refusals = {}
  /\ sent' = Params
  /\ received' = <<>> /\ pending' = <<>> /\ events' = <<>>
  /\ out' = NoResponse
  /\ turn' = turn + 1
  /\ pc' = "reading"
  /\ UNCHANGED <<fixedVars, messages, err>>

Refuse ==
  /\ pc = "ask"
  /\ err' \in Refusals
  /\ pc' = "refused"
  /\ UNCHANGED <<fixedVars, messages, turn, sent, answerVars>>

-----------------------------------------------------------------------------
(* From an answer, or a part of it, to a response.                         *)
(* gemini marshals the arguments, nil ones too.                            *)
NilAsNothing(args) == IF args = "none" THEN "broken" ELSE args
Input(args) == IF args = "none" THEN "null" ELSE args

(* The response's stop reason: openai's length wins over calls, anthropic's*)
(* is the service's word, gemini's calls win over a candidate's limit.     *)
OpenAIStop(piece, hasCalls) ==
  CASE piece.finish = "length" -> "max_tokens"
    [] piece.finish # "length" /\ hasCalls -> "tool_use"
    [] OTHER -> "end_turn"

AnthropicStop(piece) ==
  CASE piece.finish = "stop" -> "end_turn"
    [] piece.finish = "calls" -> "tool_use"
    [] piece.finish = "length" -> "max_tokens"
    [] OTHER -> ""

GeminiStop(piece, hasCalls) ==
  CASE hasCalls -> "tool_use"
    [] ~hasCalls /\ piece.content /\ piece.finish = "length" -> "max_tokens"
    [] OTHER -> "end_turn"

(* The text and the calls in parts that begin after the answer's first n.  *)
TextIn(parts, n) ==
  FlattenSeq([i \in DOMAIN parts |->
    IF parts[i].kind = "text" THEN <<n + i>> ELSE <<>>])

CallsIn(parts, n) ==
  FlattenSeq([i \in DOMAIN parts |->
    IF parts[i].kind = "call"
    THEN <<[id |-> <<turn, n + i>>, input |-> Input(parts[i].args)]>>
    ELSE <<>>])

Response(piece, n) ==
  LET calls == CallsIn(piece.parts, n)
  IN [ text |-> TextIn(piece.parts, n),
       calls |-> calls,
       usage |-> piece.usage,
       stop |-> CASE client = "openai" -> OpenAIStop(piece, calls # <<>>)
                  [] client = "anthropic" -> AnthropicStop(piece)
                  [] client = "gemini" -> GeminiStop(piece, calls # <<>>) ]

(* The answer in one piece, as the SDK's accumulators keep it and as       *)
(* Generate gets it: the last usage is the whole answer's.                 *)
Parts(chunks) == FlattenSeq([i \in DOMAIN chunks |-> chunks[i].parts])

Finish(chunks) ==
  LET told == {i \in DOMAIN chunks : chunks[i].finish # "none"}
  IN IF told = {} THEN "none" ELSE chunks[Max(told)].finish

Usage(chunks) ==
  LET told == {i \in DOMAIN chunks : chunks[i].usage > 0}
  IN IF told = {} THEN 0 ELSE chunks[Max(told)].usage

Whole(chunks) ==
  [ parts |-> Parts(chunks),
    finish |-> Finish(chunks),
    usage |-> Usage(chunks),
    content |-> \E i \in DOMAIN chunks : chunks[i].content ]

Generated == Response(Whole(received), 0)

TextEvent(text) == [type |-> "text_delta", text |-> text]
CallEvent(call) == [type |-> "tool_call", call |-> call]
UsageEvent(usage) == [type |-> "usage", usage |-> usage]

TextEvents(text) == IF text = <<>> THEN <<>> ELSE <<TextEvent(text)>>
CallEvents(calls) == [i \in DOMAIN calls |-> CallEvent(calls[i])]

(* gemini emits a chunk's calls with it, the others once the stream ended. *)
Deltas(piece) ==
  TextEvents(piece.text)
    \o (IF client = "gemini" THEN CallEvents(piece.calls) ELSE <<>>)

FinalUsageOnly(response) == <<UsageEvent(response.usage)>>
FinalEvents(response) ==
  CallEvents(response.calls) \o <<UsageEvent(response.usage)>>

-----------------------------------------------------------------------------
(* The service (external).  A call's input may be cut off where openai and *)
(* a streaming anthropic hit the limit; gemini's and plain anthropic's are *)
(* objects.  After the finish openai may still report the usage.           *)
Cut(parts) == \E i \in DOMAIN parts : parts[i].args = "broken"

MaySend(chunk) ==
  LET whole == Whole(received)
  IN /\ Len(received) < MaxChunks[turn]
     /\ whole.finish # "none" =>
          /\ client = "openai"
          /\ chunk = [ parts |-> <<>>, finish |-> "none", usage |-> TRUE,
                       content |-> FALSE ]
     /\ Cut(whole.parts) => chunk.parts = <<>>
     /\ Cut(whole.parts \o chunk.parts) =>
          /\ client = "openai" \/ (client = "anthropic" /\ request.stream)
          /\ chunk.finish \in {"none", "length"}
     /\ chunk.finish \in {"stop", "calls"} /\ client # "gemini" =>
          (chunk.finish = "calls"
             <=> CallsIn(whole.parts \o chunk.parts, 0) # <<>>)

LastPiece(chunks) ==
  Response(Last(chunks), Len(Parts(Front(chunks))))

Arrive ==
  /\ pc = "reading"
  /\ \E chunk \in Chunks[client] :
       /\ MaySend(chunk)
       /\ received' = Append(received,
            [chunk EXCEPT !.usage = IF chunk.usage THEN Len(received) + 1
                                    ELSE 0])
  /\ IF request.stream
     THEN /\ pending' = Deltas(LastPiece(received'))
          /\ pc' = "emitting"
     ELSE UNCHANGED <<pending, pc>>
  /\ UNCHANGED <<fixedVars, messages, turn, sent, events, out, err>>

(* The transport or the accumulator reports an error, the context's too.   *)
ReadFails ==
  /\ pc = "reading"
  /\ pc' = "failed"
  /\ err' = "stream"
  /\ UNCHANGED <<fixedVars, messages, turn, sent, answerVars>>

-----------------------------------------------------------------------------
(* Stream.  gemini folds each chunk into its response as it emits it.      *)
Extended(event) ==
  IF client # "gemini" THEN out
  ELSE CASE event.type = "text_delta" -> [out EXCEPT !.text = @ \o event.text]
         [] event.type = "tool_call" ->
              [out EXCEPT !.calls = Append(@, event.call)]
         [] event.type = "usage" -> out

(* A handler that returns an error stops the consumption: gemini returns   *)
(* what it has of the answer, the others an empty response.                *)
Emit ==
  /\ pc \in {"emitting", "flushing"}
  /\ pending # <<>>
  /\ events' = Append(events, Head(pending))
  /\ \/ /\ pending' = Tail(pending)
        /\ out' = Extended(Head(pending))
        /\ UNCHANGED <<pc, err>>
     \/ /\ pc' = "failed"
        /\ err' = "handler"
        /\ out' = IF client = "gemini" THEN Extended(Head(pending))
                                       ELSE NoResponse
        /\ UNCHANGED pending
  /\ UNCHANGED <<fixedVars, messages, turn, sent, received>>

UsageSummed(old, new) == old + new
UsageKept(old, new) == IF new > 0 THEN new ELSE old

NextChunk ==
  /\ pc = "emitting"
  /\ pending = <<>>
  /\ out' = IF client # "gemini" THEN out
            ELSE [out EXCEPT !.usage = UsageKept(@, LastPiece(received).usage),
                             !.stop = LastPiece(received).stop]
  /\ pc' = "reading"
  /\ UNCHANGED <<fixedVars, messages, turn, sent, received, pending, events,
                 err>>

(* openai's response reads the first choice: Stream does not check, as     *)
(* Generate does, that there is one.                                       *)
NoChoices == client = "openai" /\ ~Whole(received).content

Streamed(response, last) ==
  /\ pc = "reading"
  /\ request.stream
  /\ out' = response
  /\ pending' = last
  /\ pc' = "flushing"
  /\ UNCHANGED <<fixedVars, messages, turn, sent, received, events, err>>

OpenAIStreamed ==
  /\ client = "openai"
  /\ ~NoChoices
  /\ Streamed(Generated, FinalEvents(Generated))

AnthropicStreamed ==
  /\ client = "anthropic"
  /\ Streamed(Generated, FinalEvents(Generated))

GeminiStreamed ==
  /\ client = "gemini"
  /\ Streamed(out, <<UsageEvent(out.usage)>>)

Return ==
  /\ pc = "flushing"
  /\ pending = <<>>
  /\ pc' = "returned"
  /\ UNCHANGED <<fixedVars, messages, turn, sent, answerVars, err>>

EmptyChoices ==
  /\ pc = "reading"
  /\ NoChoices
  /\ pc' = "failed"
  /\ err' = IF request.stream THEN "panic" ELSE "empty choices"
  /\ UNCHANGED <<fixedVars, messages, turn, sent, answerVars>>

GenerateReturns ==
  /\ pc = "reading"
  /\ ~request.stream
  /\ ~NoChoices
  /\ out' = Generated
  /\ pc' = "returned"
  /\ UNCHANGED <<fixedVars, messages, turn, sent, received, pending, events,
                 err>>

(* The agent runs the tools called, whatever the stop reason, and asks     *)
(* again with the answer and the tools' results appended.                  *)
ToolMessage(call) == [role |-> "tool", calls |-> <<>>, answers |-> call.id]

NextTurn ==
  /\ pc = "returned"
  /\ out.calls # <<>>
  /\ turn < Len(MaxChunks)
  /\ messages' = messages
       \o <<[role |-> "assistant", calls |-> out.calls, answers |-> <<>>]>>
       \o [i \in DOMAIN out.calls |-> ToolMessage(out.calls[i])]
  /\ pc' = "ask"
  /\ UNCHANGED <<fixedVars, turn, sent, answerVars, err>>

Stopped ==
  /\ \/ pc \in {"refused", "failed"}
     \/ pc = "returned" /\ (out.calls = <<>> \/ turn = Len(MaxChunks))
  /\ UNCHANGED vars

Next ==
  \/ Ask \/ Refuse
  \/ Arrive \/ ReadFails \/ Emit \/ NextChunk
  \/ OpenAIStreamed \/ AnthropicStreamed \/ GeminiStreamed \/ Return
  \/ EmptyChoices \/ GenerateReturns
  \/ NextTurn
  \/ Stopped

Spec == Init /\ [][Next]_vars

-----------------------------------------------------------------------------
(* Properties.                                                             *)

TextTold(es) ==
  FlattenSeq([i \in DOMAIN es |->
    IF es[i].type = "text_delta" THEN es[i].text ELSE <<>>])

CallsTold(es) ==
  FlattenSeq([i \in DOMAIN es |->
    IF es[i].type = "tool_call" THEN <<es[i].call>> ELSE <<>>])

UsageTold(es) ==
  FlattenSeq([i \in DOMAIN es |->
    IF es[i].type = "usage" THEN <<es[i].usage>> ELSE <<>>])

(* The handler is told all of the answer, once and in order, thoughts      *)
(* excepted: the text's deltas add up to the response's text, each of its  *)
(* calls comes once, and the usage comes last; a stream that breaks off,   *)
(* or that the handler stops, has told a prefix (model.go:8-9, 115-116).   *)
EventsTellAll ==
  /\ IsPrefix(TextTold(events), Generated.text)
  /\ IsPrefix(CallsTold(events), Generated.calls)
  /\ pc = "returned" /\ request.stream =>
       /\ TextTold(events) = out.text
       /\ CallsTold(events) = out.calls
       /\ UsageTold(events) = <<out.usage>>
       /\ Last(events) = UsageEvent(out.usage)

(* What Stream returns is what Generate would have returned for the same   *)
(* answer, however it was cut into chunks, save for gemini's stop reason   *)
(* (model.go:8-9).                                                         *)
AsGenerated ==
  pc = "returned" =>
    /\ out.text = Generated.text
    /\ out.calls = Generated.calls
    /\ out.usage = Generated.usage
    /\ client # "gemini" => out.stop = Generated.stop

(* A conversation that a provider took once can go on with it: its own     *)
(* answer, carried back, is not refused, unless the stop reason of an      *)
(* anthropic answer said that it is incomplete; and every request holds    *)
(* each tool call with its result after it, all the system messages, and   *)
(* the caller's limit where that fits.                                     *)
TurnsCarryOver ==
  /\ pc = "refused" /\ turn > 0 =>
       client = "anthropic" /\ out.stop \notin {"end_turn", "tool_use"}
  /\ sent # NothingSent =>
       /\ Answered(sent.messages)
       /\ OfRole(sent.system \o sent.messages, {"system"})
            = OfRole(messages, {"system"})
       /\ request.limit \in 1..MaxInt32 => sent.limit = request.limit

(* Stream returns the same complete response as Generate (model.go:8-9),   *)
(* once the answer has come to its finish.                                 *)
SameAsGenerate ==
  pc = "returned" /\ Whole(received).finish # "none" => out = Generated
=============================================================================
