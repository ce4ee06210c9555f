--------------------------- MODULE MCProviderClient ---------------------------
(***************************************************************************)
(* Chunks, conversations and requests for TLC.                             *)
(***************************************************************************)
EXTENDS ProviderClient

Text == [kind |-> "text", args |-> "none"]
Thought == [kind |-> "thought", args |-> "none"]
Call(args) == [kind |-> "call", args |-> args]

Sending(parts, finishes) ==
  [parts : parts, finish : finishes, usage : BOOLEAN, content : {TRUE}]
Silent(finishes) ==
  [parts : {<<>>}, finish : finishes, usage : BOOLEAN, content : {FALSE}]

OneByOne ==
  {<<>>, <<Text>>, <<Thought>>, <<Call("object")>>, <<Call("broken")>>}

Several ==
  { <<>>, <<Text>>, <<Call("none")>>, <<Call("object"), Text>>,
    <<Thought, Call("object")>> }

MCChunks ==
  [ openai |-> Sending(OneByOne \ {<<Thought>>},
                       {"none", "stop", "calls", "length"})
                 \cup Silent({"none"}),
    anthropic |-> Sending(OneByOne, {"none", "stop", "calls", "length"}),
    gemini |-> Sending(Several, {"none", "stop", "length"})
                 \cup Silent({"none", "stop", "length"}) ]

(* Every chunk has its content, and the last one alone a finish.           *)
GeminiChunks == [gemini |-> Sending(Several, {"none", "stop", "length"})]

Saying(role) == [role |-> role, calls |-> <<>>, answers |-> <<>>]

MCConversations ==
  { <<Saying("system"), Saying("user"), Saying("system")>>,
    <<Saying("user"), Saying("other")>> }

Asking(stream, schema, limit) ==
  [stream |-> stream, schema |-> schema, limit |-> limit]

MCRequests ==
  { Asking(TRUE, "object", 3), Asking(FALSE, "object", 0),
    Asking(FALSE, "object", 4), Asking(TRUE, "array", 0),
    Asking(FALSE, "broken", 1) }

MCMaxChunks == <<3, 2>>
=============================================================================
