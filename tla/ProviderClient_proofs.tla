------------------------- MODULE ProviderClient_proofs -------------------------
(***************************************************************************)
(* Proofs about ProviderClient: what the handler is told, what a stream    *)
(* returns, and that a conversation can go on with a client's own answers. *)
(***************************************************************************)
EXTENDS ProviderClient, DataLemmas

-----------------------------------------------------------------------------
(* An answer's chunks as they are kept, the usage being a number.          *)

Args == JSON \cup {"none"}
PartsOf(args) == [kind : {"text", "thought", "call"}, args : args]

GeminiArgs == IF client = "gemini" THEN {"object", "none"} ELSE Args

Received ==
  [ parts : Seq(PartsOf(GeminiArgs)),
    finish : {"none", "stop", "calls", "length"}, usage : Nat,
    content : BOOLEAN ]

Event ==
  [type : {"text_delta"}, text : Seq(Nat)]
    \cup [type : {"tool_call"}, call : ToolCall]
    \cup [type : {"usage"}, usage : Nat]

(* Text and calls of parts in a row are those of the one and of the other. *)
LEMMA TextInConcat ==
  ASSUME NEW p \in Seq(Part), NEW q \in Seq(Part), NEW n \in Nat
  PROVE  /\ TextIn(p, n) \in Seq(Nat)
         /\ TextIn(p \o q, n) = TextIn(p, n) \o TextIn(q, n + Len(p))
<1> DEFINE One(x, i) == IF x.kind = "text" THEN <<i>> ELSE <<>>
           lp == Len(p)
           lq == Len(q)
           r == p \o q
           s == [i \in DOMAIN p |-> One(p[i], n + i)]
           t == [i \in DOMAIN q |-> One(q[i], (n + lp) + i)]
           a == [i \in DOMAIN r |-> One(r[i], n + i)]
<1>1. /\ lp \in Nat /\ lq \in Nat /\ DOMAIN p = 1..lp /\ DOMAIN q = 1..lq
      /\ r \in Seq(Part) /\ Len(r) = lp + lq
      /\ \A i \in 1..(lp + lq) : r[i] = IF i <= lp THEN p[i] ELSE q[i - lp]
  BY LenProperties, ConcatProperties
<1>2. DOMAIN r = 1..(lp + lq)
  BY <1>1, LenProperties
<1>3. \A x, i : i \in Nat => One(x, i) \in Seq(Nat)
  OBVIOUS
<1> HIDE DEF One, r, lp, lq
<1>4. /\ \A i \in 1..lp : One(p[i], n + i) \in Seq(Nat)
      /\ \A i \in 1..lq : One(q[i], (n + lp) + i) \in Seq(Nat)
      /\ \A i \in 1..(lp + lq) : One(r[i], n + i) \in Seq(Nat)
  <2>1. /\ \A i \in 1..lp : n + i \in Nat
        /\ \A i \in 1..lq : (n + lp) + i \in Nat
        /\ \A i \in 1..(lp + lq) : n + i \in Nat
    BY <1>1
  <2> QED BY <1>3, <2>1, Zenon
<1>5. /\ s \in [1..lp -> Seq(Nat)] /\ t \in [1..lq -> Seq(Nat)]
      /\ a \in [1..(lp + lq) -> Seq(Nat)]
  BY <1>1, <1>2, <1>4
<1>6. /\ s \in Seq(Seq(Nat)) /\ Len(s) = lp
      /\ t \in Seq(Seq(Nat)) /\ Len(t) = lq
      /\ a \in Seq(Seq(Nat)) /\ Len(a) = lp + lq
  <2> HIDE DEF s, t, a
  <2>1. lp + lq \in Nat
    BY <1>1
  <2>2. s \in Seq(Seq(Nat)) /\ Len(s) = lp
    BY <1>1, <1>5, FunctionIsSeq
  <2>3. t \in Seq(Seq(Nat)) /\ Len(t) = lq
    BY <1>1, <1>5, FunctionIsSeq
  <2>4. a \in Seq(Seq(Nat)) /\ Len(a) = lp + lq
    BY <2>1, <1>5, FunctionIsSeq
  <2> QED BY <2>2, <2>3, <2>4
<1>7. \A i \in 1..lp : a[i] = s[i]
  <2>1. \A i \in 1..lp : i \in 1..(lp + lq) /\ i <= lp
    BY <1>1
  <2> QED BY <1>1, <1>2, <2>1
<1>8. ASSUME NEW i \in 1..lq PROVE a[lp + i] = t[i]
  <2>1. /\ lp + i \in 1..(lp + lq) /\ ~(lp + i <= lp)
        /\ (lp + i) - lp = i
        /\ n + (lp + i) = (n + lp) + i
    BY <1>1
  <2>2. r[lp + i] = q[i]
    BY <1>1, <2>1
  <2>3. a[lp + i] = One(r[lp + i], n + (lp + i))
    BY <1>2, <2>1
  <2>4. t[i] = One(q[i], (n + lp) + i)
    BY <1>1
  <2> QED BY <2>1, <2>2, <2>3, <2>4
<1>9. FlattenSeq(a) = TextIn(r, n)
  BY DEF TextIn, One
<1>10. FlattenSeq(s) = TextIn(p, n) /\ FlattenSeq(t) = TextIn(q, n + lp)
  BY DEF TextIn, One
<1> HIDE DEF a, s, t
<1>11. FlattenSeq(a) = FlattenSeq(s) \o FlattenSeq(t)
  <2>1. /\ \A i \in 1..Len(s) : a[i] = s[i]
        /\ \A i \in 1..Len(t) : a[Len(s) + i] = t[i]
        /\ Len(a) = Len(s) + Len(t)
    BY <1>6, <1>7, <1>8
  <2> QED BY <1>6, <2>1, FlattenSplit
<1>12. FlattenSeq(s) \in Seq(Nat)
  BY <1>6, FlattenType
<1> QED BY <1>9, <1>10, <1>11, <1>12 DEF r, lp

LEMMA CallsInConcat ==
  ASSUME NEW A \in SUBSET Args, NEW p \in Seq(PartsOf(A)),
         NEW q \in Seq(PartsOf(A)), NEW n \in Nat, turn \in Nat
  PROVE  /\ CallsIn(p, n) \in Seq([id : ID, input : {Input(x) : x \in A}])
         /\ CallsIn(p \o q, n) = CallsIn(p, n) \o CallsIn(q, n + Len(p))
<1> DEFINE T == [id : ID, input : {Input(x) : x \in A}]
           One(x, i) == IF x.kind = "call"
                        THEN <<[id |-> <<turn, i>>, input |-> Input(x.args)]>>
                        ELSE <<>>
           lp == Len(p)
           lq == Len(q)
           r == p \o q
           s == [i \in DOMAIN p |-> One(p[i], n + i)]
           t == [i \in DOMAIN q |-> One(q[i], (n + lp) + i)]
           a == [i \in DOMAIN r |-> One(r[i], n + i)]
<1>1. /\ lp \in Nat /\ lq \in Nat /\ DOMAIN p = 1..lp /\ DOMAIN q = 1..lq
      /\ r \in Seq(PartsOf(A)) /\ Len(r) = lp + lq
      /\ \A i \in 1..(lp + lq) : r[i] = IF i <= lp THEN p[i] ELSE q[i - lp]
  BY LenProperties, ConcatProperties
<1>2. DOMAIN r = 1..(lp + lq)
  BY <1>1, LenProperties
<1>3. ASSUME NEW x \in PartsOf(A), NEW i \in Nat PROVE One(x, i) \in Seq(T)
  <2>1. x.args \in A
    BY DEF PartsOf
  <2> DEFINE call == [id |-> <<turn, i>>, input |-> Input(x.args)]
  <2>2. <<turn, i>> \in ID /\ Input(x.args) \in {Input(y) : y \in A}
    BY <2>1 DEF ID
  <2>3. call \in T
    BY <2>2
  <2> HIDE DEF call, T
  <2>4. <<call>> \in Seq(T) /\ <<>> \in Seq(T)
    BY <2>3
  <2> QED BY <2>4 DEF call
<1>4. /\ \A i \in 1..lp : p[i] \in PartsOf(A) /\ n + i \in Nat
      /\ \A i \in 1..lq : q[i] \in PartsOf(A) /\ (n + lp) + i \in Nat
      /\ \A i \in 1..(lp + lq) : r[i] \in PartsOf(A) /\ n + i \in Nat
  <2> HIDE DEF r
  <2> QED BY <1>1, ElementOfSeq
<1> HIDE DEF One, r, lp, lq, T
<1>5. /\ s \in [1..lp -> Seq(T)] /\ t \in [1..lq -> Seq(T)]
      /\ a \in [1..(lp + lq) -> Seq(T)]
  BY <1>1, <1>2, <1>3, <1>4
<1>6. /\ s \in Seq(Seq(T)) /\ Len(s) = lp
      /\ t \in Seq(Seq(T)) /\ Len(t) = lq
      /\ a \in Seq(Seq(T)) /\ Len(a) = lp + lq
  <2> HIDE DEF s, t, a
  <2>1. lp + lq \in Nat
    BY <1>1
  <2>2. s \in Seq(Seq(T)) /\ Len(s) = lp
    BY <1>1, <1>5, FunctionIsSeq
  <2>3. t \in Seq(Seq(T)) /\ Len(t) = lq
    BY <1>1, <1>5, FunctionIsSeq
  <2>4. a \in Seq(Seq(T)) /\ Len(a) = lp + lq
    BY <2>1, <1>5, FunctionIsSeq
  <2> QED BY <2>2, <2>3, <2>4
<1>7. \A i \in 1..lp : a[i] = s[i]
  <2>1. \A i \in 1..lp : i \in 1..(lp + lq) /\ i <= lp
    BY <1>1
  <2> QED BY <1>1, <1>2, <2>1
<1>8. ASSUME NEW i \in 1..lq PROVE a[lp + i] = t[i]
  <2>1. /\ lp + i \in 1..(lp + lq) /\ ~(lp + i <= lp)
        /\ (lp + i) - lp = i
        /\ n + (lp + i) = (n + lp) + i
    BY <1>1
  <2>2. r[lp + i] = q[i]
    BY <1>1, <2>1
  <2>3. a[lp + i] = One(r[lp + i], n + (lp + i))
    BY <1>2, <2>1
  <2>4. t[i] = One(q[i], (n + lp) + i)
    BY <1>1
  <2> QED BY <2>1, <2>2, <2>3, <2>4
<1>9. FlattenSeq(a) = CallsIn(r, n)
  BY DEF CallsIn, One
<1>10. FlattenSeq(s) = CallsIn(p, n) /\ FlattenSeq(t) = CallsIn(q, n + lp)
  BY DEF CallsIn, One
<1> HIDE DEF a, s, t
<1>11. FlattenSeq(a) = FlattenSeq(s) \o FlattenSeq(t)
  <2>1. /\ \A i \in 1..Len(s) : a[i] = s[i]
        /\ \A i \in 1..Len(t) : a[Len(s) + i] = t[i]
        /\ Len(a) = Len(s) + Len(t)
    BY <1>6, <1>7, <1>8
  <2> QED BY <1>6, <2>1, FlattenSplit
<1>12. FlattenSeq(s) \in Seq(T)
  BY <1>6, FlattenType
<1> QED BY <1>9, <1>10, <1>11, <1>12 DEF r, lp, T

(* The same for the parts of chunks, for what is told by events, and for   *)
(* the messages of some roles.                                             *)
LEMMA PartsConcat ==
  ASSUME NEW r \in Seq(Received), NEW k \in Received
  PROVE  /\ Parts(r) \in Seq(PartsOf(GeminiArgs))
         /\ Parts(Append(r, k)) = Parts(r) \o k.parts
         /\ Parts(<<>>) = <<>>
<1> DEFINE F == [x \in Received |-> x.parts]
<1>1. F \in [Received -> Seq(PartsOf(GeminiArgs))]
  BY DEF Received
<1>2. ASSUME NEW s \in Seq(Received) PROVE Parts(s) = Given(F, s)
  <2>1. \A i \in DOMAIN s : F[s[i]] = s[i].parts
    BY LenProperties, ElementOfSeq
  <2> HIDE DEF F
  <2> QED BY <2>1 DEF Parts, Given
<1>3. F[k] = k.parts
  OBVIOUS
<1>4. /\ <<k>> \in Seq(Received) /\ <<>> \in Seq(Received)
      /\ Append(r, k) = r \o <<k>> /\ Append(r, k) \in Seq(Received)
  BY AppendIsConcat, AppendProperties
<1> HIDE DEF F
<1>5. Given(F, r) \in Seq(PartsOf(GeminiArgs))
  BY <1>1, GivenType
<1>6. Given(F, r \o <<k>>) = Given(F, r) \o Given(F, <<k>>)
  <2> DEFINE t == <<k>>
             B == PartsOf(GeminiArgs)
  <2>1. r \in Seq(Received) /\ t \in Seq(Received)
    BY <1>4
  <2>2. F \in [Received -> Seq(B)]
    BY <1>1
  <2> HIDE DEF t, B
  <2>3. Given(F, r \o t) = Given(F, r) \o Given(F, t)
    BY <2>1, <2>2, GivenConcat
  <2> QED BY <2>3 DEF t
<1>7. Given(F, <<k>>) = F[k] /\ Given(F, <<>>) = <<>>
  BY <1>1, GivenFew
<1> QED BY <1>2, <1>3, <1>4, <1>5, <1>6, <1>7

TextOf == [e \in Event |-> IF e.type = "text_delta" THEN e.text ELSE <<>>]
CallOf == [e \in Event |-> IF e.type = "tool_call" THEN <<e.call>> ELSE <<>>]
UsageOf == [e \in Event |-> IF e.type = "usage" THEN <<e.usage>> ELSE <<>>]

LEMMA ToldIsGiven ==
  ASSUME NEW es \in Seq(Event)
  PROVE  /\ TextTold(es) = Given(TextOf, es)
         /\ CallsTold(es) = Given(CallOf, es)
         /\ UsageTold(es) = Given(UsageOf, es)
         /\ TextOf \in [Event -> Seq(Nat)]
         /\ CallOf \in [Event -> Seq(ToolCall)]
         /\ UsageOf \in [Event -> Seq(Nat)]
<1>1. \A i \in DOMAIN es : es[i] \in Event
  BY LenProperties, ElementOfSeq
<1>2. /\ TextOf \in [Event -> Seq(Nat)]
      /\ CallOf \in [Event -> Seq(ToolCall)]
      /\ UsageOf \in [Event -> Seq(Nat)]
  BY DEF TextOf, CallOf, UsageOf, Event
<1>3. \A i \in DOMAIN es :
        TextOf[es[i]] = IF es[i].type = "text_delta" THEN es[i].text ELSE <<>>
  BY <1>1 DEF TextOf
<1>4. \A i \in DOMAIN es :
        CallOf[es[i]] = IF es[i].type = "tool_call" THEN <<es[i].call>>
                                                    ELSE <<>>
  BY <1>1 DEF CallOf
<1>5. \A i \in DOMAIN es :
        UsageOf[es[i]] = IF es[i].type = "usage" THEN <<es[i].usage>> ELSE <<>>
  BY <1>1 DEF UsageOf
<1> QED BY <1>2, <1>3, <1>4, <1>5 DEF TextTold, CallsTold, UsageTold, Given

LEMMA ToldConcat ==
  ASSUME NEW es \in Seq(Event), NEW fs \in Seq(Event)
  PROVE  /\ TextTold(es) \in Seq(Nat)
         /\ CallsTold(es) \in Seq(ToolCall)
         /\ UsageTold(es) \in Seq(Nat)
         /\ TextTold(es \o fs) = TextTold(es) \o TextTold(fs)
         /\ CallsTold(es \o fs) = CallsTold(es) \o CallsTold(fs)
         /\ UsageTold(es \o fs) = UsageTold(es) \o UsageTold(fs)
<1>1. es \in Seq(Event) /\ fs \in Seq(Event) /\ es \o fs \in Seq(Event)
  BY ConcatProperties
<1>2. /\ TextOf \in [Event -> Seq(Nat)]
      /\ CallOf \in [Event -> Seq(ToolCall)]
      /\ UsageOf \in [Event -> Seq(Nat)]
  BY ToldIsGiven
<1>3. /\ Given(TextOf, es) \in Seq(Nat)
      /\ Given(TextOf, es \o fs) = Given(TextOf, es) \o Given(TextOf, fs)
  <2>1. TextOf \in [Event -> Seq(Nat)]
    BY <1>2
  <2>2. Given(TextOf, es) \in Seq(Nat)
    BY <1>1, <2>1, GivenType
  <2>3. Given(TextOf, es \o fs) = Given(TextOf, es) \o Given(TextOf, fs)
    BY <1>1, <2>1, GivenConcat
  <2> QED BY <2>2, <2>3
<1>4. /\ Given(CallOf, es) \in Seq(ToolCall)
      /\ Given(CallOf, es \o fs) = Given(CallOf, es) \o Given(CallOf, fs)
  <2>1. CallOf \in [Event -> Seq(ToolCall)]
    BY <1>2
  <2>2. Given(CallOf, es) \in Seq(ToolCall)
    BY <1>1, <2>1, GivenType
  <2>3. Given(CallOf, es \o fs) = Given(CallOf, es) \o Given(CallOf, fs)
    BY <1>1, <2>1, GivenConcat
  <2> QED BY <2>2, <2>3
<1>5. /\ Given(UsageOf, es) \in Seq(Nat)
      /\ Given(UsageOf, es \o fs) = Given(UsageOf, es) \o Given(UsageOf, fs)
  <2>1. UsageOf \in [Event -> Seq(Nat)]
    BY <1>2
  <2>2. Given(UsageOf, es) \in Seq(Nat)
    BY <1>1, <2>1, GivenType
  <2>3. Given(UsageOf, es \o fs) = Given(UsageOf, es) \o Given(UsageOf, fs)
    BY <1>1, <2>1, GivenConcat
  <2> QED BY <2>2, <2>3
<1> QED BY <1>1, <1>3, <1>4, <1>5, ToldIsGiven

LEMMA ToldFew ==
  /\ TextTold(<<>>) = <<>> /\ CallsTold(<<>>) = <<>> /\ UsageTold(<<>>) = <<>>
  /\ \A e \in Event : /\ TextTold(<<e>>) = TextOf[e]
                      /\ CallsTold(<<e>>) = CallOf[e]
                      /\ UsageTold(<<e>>) = UsageOf[e]
<1>1. <<>> \in Seq(Event) /\ \A e \in Event : <<e>> \in Seq(Event)
  OBVIOUS
<1>2. /\ TextOf \in [Event -> Seq(Nat)]
      /\ CallOf \in [Event -> Seq(ToolCall)]
      /\ UsageOf \in [Event -> Seq(Nat)]
  BY <1>1, ToldIsGiven
<1>3. /\ Given(TextOf, <<>>) = <<>>
      /\ \A e \in Event : Given(TextOf, <<e>>) = TextOf[e]
  BY <1>2, GivenFew
<1>4. /\ Given(CallOf, <<>>) = <<>>
      /\ \A e \in Event : Given(CallOf, <<e>>) = CallOf[e]
  BY <1>2, GivenFew
<1>5. /\ Given(UsageOf, <<>>) = <<>>
      /\ \A e \in Event : Given(UsageOf, <<e>>) = UsageOf[e]
  BY <1>2, GivenFew
<1> QED BY <1>1, <1>3, <1>4, <1>5, ToldIsGiven

(* What the events made of text, calls and usage tell.                     *)
LEMMA TextEventsTell ==
  ASSUME NEW text \in Seq(Nat)
  PROVE  /\ TextEvents(text) \in Seq(Event)
         /\ TextTold(TextEvents(text)) = text
         /\ CallsTold(TextEvents(text)) = <<>>
         /\ UsageTold(TextEvents(text)) = <<>>
<1>1. CASE text = <<>>
  BY <1>1, ToldFew DEF TextEvents
<1>2. CASE text # <<>>
  <2> DEFINE e == TextEvent(text)
  <2>1. e \in Event
    BY DEF TextEvent, Event
  <2>2. TextOf[e] = text /\ CallOf[e] = <<>> /\ UsageOf[e] = <<>>
    BY <2>1 DEF TextEvent, TextOf, CallOf, UsageOf
  <2>3. TextEvents(text) = <<e>>
    BY <1>2 DEF TextEvents
  <2> HIDE DEF e
  <2> QED BY <2>1, <2>2, <2>3, ToldFew
<1> QED BY <1>1, <1>2

LEMMA CallEventsTell ==
  ASSUME NEW calls \in Seq(ToolCall)
  PROVE  /\ CallEvents(calls) \in Seq(Event)
         /\ TextTold(CallEvents(calls)) = <<>>
         /\ CallsTold(CallEvents(calls)) = calls
         /\ UsageTold(CallEvents(calls)) = <<>>
<1> DEFINE es == CallEvents(calls)
           n == Len(calls)
<1>1. n \in Nat /\ DOMAIN calls = 1..n /\ \A i \in 1..n : calls[i] \in ToolCall
  BY LenProperties, ElementOfSeq
<1>2. ASSUME NEW c \in ToolCall
      PROVE  /\ CallEvent(c) \in Event
             /\ TextOf[CallEvent(c)] = <<>> /\ UsageOf[CallEvent(c)] = <<>>
             /\ CallOf[CallEvent(c)] = <<c>>
  <2>1. CallEvent(c) \in Event
    BY DEF CallEvent, Event
  <2> QED BY <2>1 DEF CallEvent, TextOf, CallOf, UsageOf
<1>3. es = [i \in 1..n |-> CallEvent(calls[i])]
  BY <1>1 DEF CallEvents
<1>4. es \in [1..n -> Event]
  BY <1>1, <1>2, <1>3
<1>5. \A i \in 1..n : es[i] = CallEvent(calls[i])
  BY <1>3
<1> HIDE DEF es, n
<1>6. es \in Seq(Event) /\ Len(es) = n
  BY <1>1, <1>4, FunctionIsSeq
<1>7. \A i \in 1..Len(es) : /\ TextOf[es[i]] = <<>> /\ UsageOf[es[i]] = <<>>
                            /\ CallOf[es[i]] = <<calls[i]>>
  BY <1>1, <1>2, <1>5, <1>6
<1>8. /\ TextOf \in [Event -> Seq(Nat)]
      /\ CallOf \in [Event -> Seq(ToolCall)]
      /\ UsageOf \in [Event -> Seq(Nat)]
  BY <1>6, ToldIsGiven
<1>9. Given(TextOf, es) = <<>>
  BY <1>6, <1>7, <1>8, GivenNothing
<1>10. Given(UsageOf, es) = <<>>
  BY <1>6, <1>7, <1>8, GivenNothing
<1>11. Given(CallOf, es) = calls
  <2>1. DOMAIN es = DOMAIN calls /\ DOMAIN es = 1..Len(es)
    BY <1>1, <1>6, LenProperties
  <2>2. \A i \in DOMAIN es : CallOf[es[i]] = <<calls[i]>>
    BY <1>7, <2>1
  <2>3. [i \in DOMAIN es |-> CallOf[es[i]]]
          = [i \in DOMAIN calls |-> <<calls[i]>>]
    BY <2>1, <2>2
  <2> QED BY <2>3, FlattenSingles DEF Given
<1>12. /\ TextTold(es) = <<>> /\ CallsTold(es) = calls /\ UsageTold(es) = <<>>
  BY <1>6, <1>9, <1>10, <1>11, ToldIsGiven
<1> QED BY <1>6, <1>12 DEF es

LEMMA UsageEventTells ==
  ASSUME NEW n \in Nat
  PROVE  /\ UsageEvent(n) \in Event
         /\ TextTold(<<UsageEvent(n)>>) = <<>>
         /\ CallsTold(<<UsageEvent(n)>>) = <<>>
         /\ UsageTold(<<UsageEvent(n)>>) = <<n>>
<1> DEFINE e == UsageEvent(n)
<1>1. e \in Event
  BY DEF UsageEvent, Event
<1>2. TextOf[e] = <<>> /\ CallOf[e] = <<>> /\ UsageOf[e] = <<n>>
  BY <1>1 DEF UsageEvent, TextOf, CallOf, UsageOf
<1> HIDE DEF e
<1>3. /\ TextTold(<<e>>) = <<>> /\ CallsTold(<<e>>) = <<>>
      /\ UsageTold(<<e>>) = <<n>>
  BY <1>1, <1>2, ToldFew
<1> QED BY <1>1, <1>3 DEF e

(* A sequence begins with what it is extended from.                        *)
LEMMA PrefixOfConcat ==
  ASSUME NEW S, NEW s \in Seq(S), NEW t \in Seq(S)
  PROVE  IsPrefix(s, s \o t) /\ IsPrefix(s, s)
<1>1. /\ s \o t \in Seq(S) /\ Len(s) \in Nat /\ Len(t) \in Nat
      /\ Len(s \o t) = Len(s) + Len(t)
      /\ \A i \in 1..(Len(s) + Len(t)) :
           (s \o t)[i] = IF i <= Len(s) THEN s[i] ELSE t[i - Len(s)]
  BY LenProperties, ConcatProperties
<1>2. \A i \in 1..Len(s) : s[i] = (s \o t)[i]
  BY <1>1
<1>3. Len(s) <= Len(s \o t) /\ Len(s) <= Len(s)
  BY <1>1
<1>4. IsPrefix(s, s \o t)
  BY <1>1, <1>2, <1>3, PrefixByElements
<1>5. IsPrefix(s, s)
  BY <1>3, PrefixByElements
<1> QED BY <1>4, <1>5

LEMMA OfRoleConcat ==
  ASSUME NEW roles, NEW ms \in Seq(Message), NEW ns \in Seq(Message)
  PROVE  /\ OfRole(ms, roles) \in Seq({m \in Message : m.role \in roles})
         /\ OfRole(ms \o ns, roles) = OfRole(ms, roles) \o OfRole(ns, roles)
         /\ OfRole(<<>>, roles) = <<>>
         /\ (\A i \in 1..Len(ms) : ms[i].role \notin roles)
              => OfRole(ms, roles) = <<>>
         /\ (\A i \in 1..Len(ms) : ms[i].role \in roles)
              => OfRole(ms, roles) = ms
<1> DEFINE B == {m \in Message : m.role \in roles}
           F == [m \in Message |-> IF m.role \in roles THEN <<m>> ELSE <<>>]
<1>1. F \in [Message -> Seq(B)]
  <2>1. ASSUME NEW m \in Message
        PROVE  (IF m.role \in roles THEN <<m>> ELSE <<>>) \in Seq(B)
    <3>1. m.role \in roles => m \in B
      OBVIOUS
    <3> HIDE DEF B
    <3> QED BY <3>1
  <2> HIDE DEF B
  <2> QED BY <2>1
<1>2. ASSUME NEW s \in Seq(Message) PROVE OfRole(s, roles) = Given(F, s)
  <2>1. \A i \in DOMAIN s : s[i] \in Message
    BY LenProperties, ElementOfSeq
  <2>2. \A i \in DOMAIN s :
          F[s[i]] = IF s[i].role \in roles THEN <<s[i]>> ELSE <<>>
    BY <2>1
  <2> HIDE DEF F
  <2> QED BY <2>2 DEF OfRole, Given
<1>3. /\ ms \in Seq(Message) /\ ns \in Seq(Message)
      /\ ms \o ns \in Seq(Message) /\ <<>> \in Seq(Message)
  BY ConcatProperties
<1>4. \A i \in 1..Len(ms) : ms[i] \in Message
  BY ElementOfSeq
<1>5. /\ \A i \in 1..Len(ms) : ms[i].role \notin roles => F[ms[i]] = <<>>
      /\ \A i \in 1..Len(ms) : ms[i].role \in roles => F[ms[i]] = <<ms[i]>>
  BY <1>4
<1> HIDE DEF F, B
<1>6. Given(F, ms) \in Seq(B)
  BY <1>1, <1>3, GivenType
<1>7. Given(F, ms \o ns) = Given(F, ms) \o Given(F, ns)
  BY <1>1, <1>3, GivenConcat
<1>8. Given(F, <<>>) = <<>>
  BY <1>1, GivenFew
<1>9. ASSUME \A i \in 1..Len(ms) : ms[i].role \notin roles
      PROVE  Given(F, ms) = <<>>
  <2>1. \A i \in 1..Len(ms) : F[ms[i]] = <<>>
    BY <1>5, <1>9
  <2> QED BY <1>1, <1>3, <2>1, GivenNothing
<1>10. ASSUME \A i \in 1..Len(ms) : ms[i].role \in roles
       PROVE  Given(F, ms) = ms
  <2>1. DOMAIN ms = 1..Len(ms)
    BY LenProperties
  <2>2. \A i \in DOMAIN ms : F[ms[i]] = <<ms[i]>>
    BY <1>5, <1>10, <2>1
  <2>3. [i \in DOMAIN ms |-> F[ms[i]]] = [i \in DOMAIN ms |-> <<ms[i]>>]
    BY <2>2
  <2> QED BY <2>3, FlattenSingles DEF Given
<1>11. OfRole(ms, roles) = Given(F, ms) /\ OfRole(ns, roles) = Given(F, ns)
  BY <1>2
<1>12. /\ OfRole(ms \o ns, roles) = Given(F, ms \o ns)
       /\ OfRole(<<>>, roles) = Given(F, <<>>)
  BY <1>2, <1>3
<1> QED BY <1>6, <1>7, <1>8, <1>9, <1>10, <1>11, <1>12 DEF B

(* The last finish and the last usage of one chunk more.                   *)
LEMMA LastToldOfMore ==
  ASSUME NEW r \in Seq(Received), NEW k \in Received
  PROVE  /\ Usage(r) \in Nat
         /\ Usage(<<>>) = 0
         /\ Usage(Append(r, k)) = UsageKept(Usage(r), k.usage)
         /\ Finish(r) \in {"none", "stop", "calls", "length"}
         /\ Finish(<<>>) = "none"
         /\ Finish(Append(r, k)) = IF k.finish # "none" THEN k.finish
                                                        ELSE Finish(r)
<1> DEFINE n == Len(r)
           s == Append(r, k)
           Counts(x) == {i \in DOMAIN x : x[i].usage > 0}
           Ends(x) == {i \in DOMAIN x : x[i].finish # "none"}
<1>1. /\ n \in Nat /\ DOMAIN r = 1..n /\ DOMAIN s = 1..(n + 1)
      /\ \A i \in 1..n : r[i] \in Received /\ s[i] = r[i]
      /\ s[n + 1] = k
  BY LenProperties, ElementOfSeq, AppendTypes
<1>2. k.usage \in Nat /\ k.finish \in {"none", "stop", "calls", "length"}
  BY DEF Received
<1>3. \A i \in 1..n : /\ r[i].usage \in Nat
                      /\ r[i].finish \in {"none", "stop", "calls", "length"}
  BY <1>1 DEF Received
<1> HIDE DEF s, n
<1>4. 1..(n + 1) = (1..n) \cup {n + 1} /\ n + 1 \notin 1..n
  BY <1>1
<1>5. /\ Counts(r) \in SUBSET (1..n) /\ Ends(r) \in SUBSET (1..n)
      /\ Counts(s) = Counts(r) \cup (IF k.usage > 0 THEN {n + 1} ELSE {})
      /\ Ends(s) = Ends(r) \cup (IF k.finish # "none" THEN {n + 1} ELSE {})
  BY <1>1, <1>4
<1>6. /\ Counts(r) # {} => Max(Counts(r)) \in 1..n
      /\ Ends(r) # {} => Max(Ends(r)) \in 1..n
  <2> HIDE DEF Counts, Ends
  <2>1. Counts(r) # {} => Max(Counts(r)) \in Counts(r)
    BY <1>1, <1>5, MaxOfPlaces
  <2>2. Ends(r) # {} => Max(Ends(r)) \in Ends(r)
    BY <1>1, <1>5, MaxOfPlaces
  <2> QED BY <1>5, <2>1, <2>2
<1>7. ASSUME NEW T \in SUBSET (1..n) PROVE Max(T \cup {n + 1}) = n + 1
  <2>1. /\ T \cup {n + 1} \in SUBSET Nat /\ n + 1 \in T \cup {n + 1}
        /\ \A y \in T \cup {n + 1} : n + 1 >= y
    BY <1>1
  <2> QED BY <2>1, MaxIs
<1>8. /\ Usage(r) = IF Counts(r) = {} THEN 0 ELSE r[Max(Counts(r))].usage
      /\ Usage(s) = IF Counts(s) = {} THEN 0 ELSE s[Max(Counts(s))].usage
      /\ Finish(r) = IF Ends(r) = {} THEN "none" ELSE r[Max(Ends(r))].finish
      /\ Finish(s) = IF Ends(s) = {} THEN "none" ELSE s[Max(Ends(s))].finish
  BY DEF Usage, Finish
<1>9. Usage(<<>>) = 0 /\ Finish(<<>>) = "none"
  BY DEF Usage, Finish
<1> HIDE DEF Counts, Ends
<1>10. Usage(r) \in Nat /\ Finish(r) \in {"none", "stop", "calls", "length"}
  BY <1>3, <1>6, <1>8
<1>11. Usage(s) = UsageKept(Usage(r), k.usage)
  <2>1. CASE k.usage > 0
    <3>1. Counts(s) # {} /\ Max(Counts(s)) = n + 1
      BY <1>5, <1>7, <2>1
    <3> QED BY <1>1, <1>8, <2>1, <3>1 DEF UsageKept
  <2>2. CASE ~(k.usage > 0)
    <3>1. Counts(s) = Counts(r)
      BY <1>5, <2>2
    <3>2. Counts(r) # {} => s[Max(Counts(r))] = r[Max(Counts(r))]
      BY <1>1, <1>6
    <3> QED BY <1>8, <2>2, <3>1, <3>2 DEF UsageKept
  <2> QED BY <2>1, <2>2
<1>12. Finish(s) = IF k.finish # "none" THEN k.finish ELSE Finish(r)
  <2>1. CASE k.finish # "none"
    <3>1. Ends(s) # {} /\ Max(Ends(s)) = n + 1
      BY <1>5, <1>7, <2>1
    <3> QED BY <1>1, <1>8, <2>1, <3>1
  <2>2. CASE k.finish = "none"
    <3>1. Ends(s) = Ends(r)
      BY <1>5, <2>2
    <3>2. Ends(r) # {} => s[Max(Ends(r))] = r[Max(Ends(r))]
      BY <1>1, <1>6
    <3> QED BY <1>8, <2>2, <3>1, <3>2
  <2> QED BY <2>1, <2>2
<1> QED BY <1>9, <1>10, <1>11, <1>12 DEF s

(* Messages that stay keep the results after their calls.                  *)
LEMMA AnsweredOfRole ==
  ASSUME NEW roles, "tool" \in roles, NEW ms \in Seq(Message), Answered(ms)
  PROVE  Answered(OfRole(ms, roles))
<1> DEFINE F == [m \in Message |-> IF m.role \in roles THEN <<m>> ELSE <<>>]
           s == [i \in DOMAIN ms |-> F[ms[i]]]
           n == Len(ms)
<1>1. n \in Nat /\ DOMAIN ms = 1..n /\ \A i \in 1..n : ms[i] \in Message
  BY LenProperties, ElementOfSeq
<1>2. F \in [Message -> Seq(Message)]
  OBVIOUS
<1>3. \A i \in 1..n : s[i] = IF ms[i].role \in roles THEN <<ms[i]>> ELSE <<>>
  BY <1>1
<1>4. s \in Seq(Seq(Message)) /\ Len(s) = n
  <2> HIDE DEF F
  <2> QED BY <1>1, <1>2, GivenType
<1>5. OfRole(ms, roles) = FlattenSeq(s)
  <2>1. s = [i \in DOMAIN ms |-> IF ms[i].role \in roles THEN <<ms[i]>>
                                                         ELSE <<>>]
    BY <1>1, <1>3
  <2> HIDE DEF s
  <2> QED BY <2>1 DEF OfRole
<1> HIDE DEF F, s, n
<1>6. PICK K \in [0..n -> Seq(Message)] : Flattens(K, s) /\ FlattenSeq(s) = K[n]
  BY <1>4, FlattenExists
<1>7. \A i \in 0..n : /\ K[i] \in Seq(Message) /\ Len(K[i]) \in Nat
                      /\ DOMAIN K[i] = 1..Len(K[i])
  BY <1>6, LenProperties
<1>8. ASSUME NEW i \in 1..n, ms[i].role \in roles
      PROVE  /\ Len(K[i]) = Len(K[i - 1]) + 1
             /\ K[i][Len(K[i - 1]) + 1] = ms[i]
             /\ \A j \in 1..Len(K[i - 1]) : K[i][j] = K[i - 1][j]
  <2>1. i - 1 \in 0..n /\ K[i - 1] \in Seq(Message) /\ ms[i] \in Message
    BY <1>1, <1>7
  <2>2. K[i] = K[i - 1] \o <<ms[i]>>
    BY <1>3, <1>4, <1>6, <1>8 DEF Flattens
  <2>3. K[i] = Append(K[i - 1], ms[i])
    BY <2>1, <2>2, AppendIsConcat
  <2>4. DOMAIN K[i - 1] = 1..Len(K[i - 1])
    BY <1>7, <2>1
  <2> QED BY <2>1, <2>3, <2>4, AppendTypes
<1>9. ASSUME NEW i \in 1..n, ms[i].role \notin roles PROVE K[i] = K[i - 1]
  <2>1. i - 1 \in 0..n /\ K[i - 1] \in Seq(Message)
    BY <1>1, <1>7
  <2>2. K[i] = K[i - 1] \o <<>>
    BY <1>3, <1>4, <1>6, <1>9 DEF Flattens
  <2> QED BY <2>1, <2>2, ConcatEmptySeq
\* What was kept of the first i messages is where it was in what is kept of more.
<1> DEFINE Keeps(i, m) == /\ Len(K[i]) <= Len(K[m])
                          /\ \A j \in 1..Len(K[i]) : K[m][j] = K[i][j]
           Earlier == {m \in 0..n : \A i \in 0..m : Keeps(i, m)}
<1>10. 0..n \subseteq Earlier
  <2>1. 0 \in Earlier
    BY <1>1, <1>7
  <2>2. ASSUME NEW m \in 1..n, m - 1 \in Earlier PROVE m \in Earlier
    <3>1. ASSUME NEW i \in 0..m PROVE Keeps(i, m)
      <4>1. CASE i = m
        BY <1>1, <1>7, <4>1
      <4>2. CASE i # m
        <5>1. i \in 0..(m - 1) /\ i \in 0..n /\ m - 1 \in 0..n
          BY <1>1, <4>2
        <5>2. Keeps(i, m - 1)
          BY <2>2, <5>1
        <5>3. Len(K[i]) \in Nat /\ Len(K[m - 1]) \in Nat
          BY <1>7, <5>1
        <5>4. CASE ms[m].role \in roles
          <6>1. /\ Len(K[m]) = Len(K[m - 1]) + 1
                /\ \A j \in 1..Len(K[m - 1]) : K[m][j] = K[m - 1][j]
            BY <1>8, <5>4
          <6>2. \A j \in 1..Len(K[i]) : j \in 1..Len(K[m - 1])
            BY <5>2, <5>3
          <6>3. \A j \in 1..Len(K[i]) : K[m][j] = K[i][j]
            BY <5>2, <6>1, <6>2
          <6>4. Len(K[i]) <= Len(K[m])
            BY <5>2, <5>3, <6>1
          <6> QED BY <6>3, <6>4
        <5>5. CASE ms[m].role \notin roles
          BY <1>9, <5>2, <5>5
        <5> QED BY <5>4, <5>5
      <4> QED BY <4>1, <4>2
    <3>2. m \in 0..n
      BY <1>1
    <3> HIDE DEF Keeps
    <3> QED BY <3>1, <3>2
  <2> HIDE DEF Earlier
  <2> QED BY <1>1, <2>1, <2>2, BoundedInduction
\* Each message kept is one of the first m, of a role that is kept.
<1> DEFINE From(j, m) == \E i \in 1..m : /\ ms[i].role \in roles
                                         /\ Len(K[i]) = j /\ K[m][j] = ms[i]
           Found == {m \in 0..n : \A j \in 1..Len(K[m]) : From(j, m)}
<1>11. 0..n \subseteq Found
  <2>1. 0 \in Found
    <3>1. 0 \in 0..n /\ K[0] = <<>>
      BY <1>1, <1>6 DEF Flattens
    <3>2. 1..Len(K[0]) = {}
      BY <3>1
    <3> HIDE DEF From
    <3> QED BY <3>1, <3>2
  <2>2. ASSUME NEW m \in 1..n, m - 1 \in Found PROVE m \in Found
    <3>1. m \in 0..n /\ m - 1 \in 0..n
      BY <1>1
    <3>2. Len(K[m]) \in Nat /\ Len(K[m - 1]) \in Nat
      BY <1>7, <3>1
    <3>3. ASSUME NEW j \in 1..Len(K[m]) PROVE From(j, m)
      <4>1. CASE j <= Len(K[m - 1])
        <5>1. j \in 1..Len(K[m - 1])
          BY <3>2, <4>1
        <5>2. From(j, m - 1)
          <6> HIDE DEF From
          <6> QED BY <2>2, <5>1
        <5>3. PICK i \in 1..(m - 1) : /\ ms[i].role \in roles
                                      /\ Len(K[i]) = j /\ K[m - 1][j] = ms[i]
          BY <5>2
        <5>4. K[m][j] = K[m - 1][j]
          BY <1>8, <1>9, <5>1
        <5>5. i \in 1..m
          BY <1>1
        <5> QED BY <5>3, <5>4, <5>5
      <4>2. CASE ~(j <= Len(K[m - 1]))
        <5>1. ms[m].role \in roles
          BY <1>9, <3>2, <4>2
        <5>2. j = Len(K[m - 1]) + 1 /\ Len(K[m]) = j /\ K[m][j] = ms[m]
          BY <1>8, <3>2, <4>2, <5>1
        <5>3. m \in 1..m
          BY <1>1
        <5> QED BY <5>1, <5>2, <5>3
      <4> QED BY <4>1, <4>2
    <3> HIDE DEF From
    <3> QED BY <3>1, <3>3
  <2> HIDE DEF Found
  <2> QED BY <1>1, <2>1, <2>2, BoundedInduction
<1> DEFINE t == K[n]
<1>12. n \in 0..n /\ DOMAIN t = 1..Len(t) /\ Len(t) \in Nat
  BY <1>1, <1>7
<1>13. ASSUME NEW j \in DOMAIN t, NEW k \in DOMAIN t[j].calls
       PROVE  /\ j + k <= Len(t)
              /\ t[j + k].role = "tool"
              /\ t[j + k].answers = t[j].calls[k].id
  <2>1. PICK i \in 1..n : /\ ms[i].role \in roles
                          /\ Len(K[i]) = j /\ t[j] = ms[i]
    <3>1. From(j, n)
      <4> HIDE DEF From
      <4> QED BY <1>11, <1>12
    <3> QED BY <3>1
  <2>2. /\ ms[i].calls \in Seq(ToolCall)
        /\ k \in 1..Len(ms[i].calls) /\ Len(ms[i].calls) \in Nat
    <3>1. ms[i].calls \in Seq(ToolCall)
      BY <1>1 DEF Message
    <3> QED BY <2>1, <3>1, LenProperties
  <2>3. ASSUME NEW h \in 1..k
        PROVE  /\ i + h \in 1..n /\ ms[i + h].role = "tool"
               /\ ms[i + h].answers = ms[i].calls[h].id
    <3>1. h \in DOMAIN ms[i].calls
      BY <2>2, LenProperties
    <3>2. /\ i + h <= n /\ ms[i + h].role = "tool"
          /\ ms[i + h].answers = ms[i].calls[h].id
      BY <1>1, <3>1 DEF Answered, n
    <3>3. i + h \in 1..n
      BY <1>1, <2>2, <3>2
    <3> QED BY <3>2, <3>3
  <2> DEFINE Next1 == {h \in 0..k : Len(K[i + h]) = j + h}
  <2>4. j \in Nat /\ k \in Nat
    BY <1>12, <2>2
  <2>5. 0 \in Next1
    BY <2>1, <2>4
  <2>6. ASSUME NEW h \in 1..k, h - 1 \in Next1 PROVE h \in Next1
    <3>1. Len(K[(i + h) - 1]) = j + (h - 1)
      <4>1. i + (h - 1) = (i + h) - 1
        BY <1>1, <2>4
      <4> QED BY <2>6, <4>1
    <3>2. Len(K[i + h]) = Len(K[(i + h) - 1]) + 1
      BY <1>8, <2>3
    <3> QED BY <2>4, <3>1, <3>2
  <2>7. 0..k \subseteq Next1
    <3> HIDE DEF Next1
    <3> QED BY <2>4, <2>5, <2>6, BoundedInduction
  <2>8. k \in 0..k /\ k - 1 \in 0..k /\ k \in 1..k
    BY <2>2, <2>4
  <2>9. Len(K[i + k]) = j + k /\ Len(K[i + (k - 1)]) = j + (k - 1)
    BY <2>7, <2>8
  <2>10. i + k \in 1..n /\ ms[i + k].role = "tool"
    BY <2>3, <2>8
  <2>11. K[i + k][j + k] = ms[i + k]
    <3>1. i + (k - 1) = (i + k) - 1 /\ (j + (k - 1)) + 1 = j + k
      BY <1>1, <2>4
    <3>2. K[i + k][Len(K[(i + k) - 1]) + 1] = ms[i + k]
      BY <1>8, <2>10
    <3> QED BY <2>9, <3>1, <3>2
  <2>12. Keeps(i + k, n)
    <3>1. i + k \in 0..n
      BY <1>1, <2>10
    <3> HIDE DEF Keeps
    <3> QED BY <1>10, <1>12, <3>1
  <2>13. j + k <= Len(t) /\ t[j + k] = ms[i + k]
    <3>1. j + k \in 1..(j + k)
      BY <1>12, <2>2, <2>4
    <3> QED BY <2>9, <2>11, <2>12, <3>1
  <2> QED BY <2>1, <2>3, <2>8, <2>10, <2>13
<1>14. Answered(t)
  BY <1>13 DEF Answered
<1> QED BY <1>5, <1>6, <1>14 DEF t

(* What the agent asks with next: its messages, the answer and the tools'  *)
(* results.                                                                *)
Carried(ms, calls) ==
  ms \o <<[role |-> "assistant", calls |-> calls, answers |-> <<>>]>>
     \o [i \in DOMAIN calls |-> ToolMessage(calls[i])]

CarriesOn(ns, ms, calls) ==
  /\ ns \in Seq(Message)
  /\ Len(ns) = Len(ms) + 1 + Len(calls)
  /\ \A i \in 1..Len(ms) : ns[i] = ms[i]
  /\ ns[Len(ms) + 1].role = "assistant"
  /\ ns[Len(ms) + 1].calls = calls
  /\ \A k \in 1..Len(calls) :
       /\ ns[Len(ms) + 1 + k].role = "tool"
       /\ ns[Len(ms) + 1 + k].calls = <<>>
       /\ ns[Len(ms) + 1 + k].answers = calls[k].id
  /\ OfRole(ns, {"system"}) = OfRole(ms, {"system"})

LEMMA CarriedMessages ==
  ASSUME NEW ms \in Seq(Message), NEW calls \in Seq(ToolCall)
  PROVE  CarriesOn(Carried(ms, calls), ms, calls)
<1> DEFINE ns == Carried(ms, calls)
           a == [role |-> "assistant", calls |-> calls, answers |-> <<>>]
           rs == [i \in DOMAIN calls |-> ToolMessage(calls[i])]
           m == Len(ms)
           n == Len(calls)
<1>1. /\ m \in Nat /\ n \in Nat /\ DOMAIN calls = 1..n
      /\ \A i \in 1..n : calls[i] \in ToolCall
  BY LenProperties, ElementOfSeq
<1>2. /\ a \in Message /\ a.role = "assistant" /\ a.calls = calls
  <2>1. <<>> \in ID
    BY DEF ID
  <2>2. a \in Message
    BY <2>1 DEF Message, Role
  <2> QED BY <2>2
<1>3. ASSUME NEW c \in ToolCall
      PROVE  /\ ToolMessage(c) \in Message /\ ToolMessage(c).role = "tool"
             /\ ToolMessage(c).calls = <<>> /\ ToolMessage(c).answers = c.id
  <2>1. c.id \in ID /\ <<>> \in Seq(ToolCall)
    BY DEF ToolCall
  <2>2. ToolMessage(c) \in Message
    BY <2>1 DEF ToolMessage, Message, Role
  <2> QED BY <2>2 DEF ToolMessage
<1>4. rs \in [1..n -> Message] /\ \A i \in 1..n : rs[i] = ToolMessage(calls[i])
  BY <1>1, <1>3
<1> HIDE DEF ns, a, rs, m, n
<1>5. rs \in Seq(Message) /\ Len(rs) = n
  BY <1>1, <1>4, FunctionIsSeq
<1>6. /\ Append(ms, a) \in Seq(Message) /\ Len(Append(ms, a)) = m + 1
      /\ \A i \in 1..m : Append(ms, a)[i] = ms[i]
      /\ Append(ms, a)[m + 1] = a
      /\ ms \o <<a>> = Append(ms, a)
  BY <1>2, AppendProperties, AppendIsConcat DEF m
<1>7. ns = Append(ms, a) \o rs
  <2>1. ns = (ms \o <<a>>) \o rs
    BY DEF Carried, ns, a, rs
  <2> QED BY <1>6, <2>1
<1>8. /\ ns \in Seq(Message) /\ Len(ns) = m + 1 + n
      /\ \A i \in 1..(m + 1 + n) :
           ns[i] = IF i <= m + 1 THEN Append(ms, a)[i] ELSE rs[i - (m + 1)]
  <2> DEFINE b == Append(ms, a)
  <2>1. b \in Seq(Message) /\ Len(b) = m + 1
    BY <1>6
  <2> HIDE DEF b
  <2>2. /\ b \o rs \in Seq(Message) /\ Len(b \o rs) = Len(b) + Len(rs)
        /\ \A i \in 1..(Len(b) + Len(rs)) :
             (b \o rs)[i] = IF i <= Len(b) THEN b[i] ELSE rs[i - Len(b)]
    BY <1>5, <2>1, ConcatProperties
  <2> QED BY <1>5, <1>7, <2>1, <2>2 DEF b
<1>9. \A i \in 1..m : ns[i] = ms[i]
  <2>1. \A i \in 1..m : i \in 1..(m + 1 + n) /\ i <= m + 1
    BY <1>1
  <2> QED BY <1>6, <1>8, <2>1
<1>10. ns[m + 1] = a
  <2>1. m + 1 \in 1..(m + 1 + n)
    BY <1>1
  <2> QED BY <1>1, <1>6, <1>8, <2>1
<1>11. ASSUME NEW k \in 1..n PROVE ns[m + 1 + k] = rs[k]
  <2>1. /\ m + 1 + k \in 1..(m + 1 + n) /\ ~(m + 1 + k <= m + 1)
        /\ (m + 1 + k) - (m + 1) = k
    BY <1>1
  <2> QED BY <1>8, <2>1
<1>12. OfRole(ns, {"system"}) = OfRole(ms, {"system"})
  <2>1. OfRole(ns, {"system"})
          = (OfRole(ms, {"system"}) \o OfRole(<<a>>, {"system"}))
              \o OfRole(rs, {"system"})
    <3> DEFINE o == <<a>>
    <3>1. o \in Seq(Message)
      BY <1>2
    <3>2. Append(ms, a) = ms \o o
      BY <1>6
    <3> HIDE DEF o
    <3>3. OfRole(ms \o o, {"system"})
            = OfRole(ms, {"system"}) \o OfRole(o, {"system"})
      BY <3>1, OfRoleConcat
    <3>4. OfRole(Append(ms, a) \o rs, {"system"})
            = OfRole(Append(ms, a), {"system"}) \o OfRole(rs, {"system"})
      BY <1>5, <1>6, OfRoleConcat
    <3> QED BY <1>7, <3>2, <3>3, <3>4 DEF o
  <2>2. OfRole(<<a>>, {"system"}) = <<>>
    <3>1. /\ <<a>> \in Seq(Message)
          /\ \A i \in 1..Len(<<a>>) : <<a>>[i].role \notin {"system"}
      BY <1>2
    <3> QED BY <3>1, OfRoleConcat
  <2>3. OfRole(rs, {"system"}) = <<>>
    <3>1. \A i \in 1..Len(rs) : rs[i].role \notin {"system"}
      BY <1>1, <1>3, <1>4, <1>5
    <3> QED BY <1>5, <3>1, OfRoleConcat
  <2>4. OfRole(ms, {"system"}) \in Seq(Message)
    <3> DEFINE B == {x \in Message : x.role \in {"system"}}
    <3>1. OfRole(ms, {"system"}) \in Seq(B) /\ B \subseteq Message
      BY OfRoleConcat
    <3> HIDE DEF B
    <3> QED BY <3>1, SeqMonotonic
  <2>5. (OfRole(ms, {"system"}) \o <<>>) \o <<>> = OfRole(ms, {"system"})
    BY <2>4, ConcatEmptySeq
  <2> QED BY <2>1, <2>2, <2>3, <2>5
<1>13. \A k \in 1..n : /\ ns[m + 1 + k].role = "tool"
                       /\ ns[m + 1 + k].calls = <<>>
                       /\ ns[m + 1 + k].answers = calls[k].id
  BY <1>1, <1>3, <1>4, <1>11
<1>14. CarriesOn(ns, ms, calls)
  BY <1>2, <1>8, <1>9, <1>10, <1>12, <1>13 DEF CarriesOn, m, n
<1> QED BY <1>14 DEF ns

LEMMA CarriedAnswered ==
  ASSUME NEW ms \in Seq(Message), NEW calls \in Seq(ToolCall), Answered(ms)
  PROVE  Answered(Carried(ms, calls))
<1> DEFINE ns == Carried(ms, calls)
           m == Len(ms)
           n == Len(calls)
<1>1. /\ m \in Nat /\ n \in Nat
      /\ DOMAIN ms = 1..m /\ DOMAIN calls = 1..n
  BY LenProperties
<1> HIDE DEF ns, m, n
<1>2. /\ ns \in Seq(Message)
      /\ Len(ns) = m + 1 + n
      /\ \A i \in 1..m : ns[i] = ms[i]
      /\ ns[m + 1].calls = calls
      /\ \A k \in 1..n : /\ ns[m + 1 + k].role = "tool"
                         /\ ns[m + 1 + k].calls = <<>>
                         /\ ns[m + 1 + k].answers = calls[k].id
  <2>1. CarriesOn(ns, ms, calls)
    BY CarriedMessages DEF ns
  <2> QED BY <2>1 DEF CarriesOn, m, n
<1>3. DOMAIN ns = 1..(m + 1 + n)
  BY <1>2, LenProperties
<1>4. ASSUME NEW i \in DOMAIN ns, NEW k \in DOMAIN ns[i].calls
      PROVE  /\ i + k <= Len(ns)
             /\ ns[i + k].role = "tool"
             /\ ns[i + k].answers = ns[i].calls[k].id
  <2>1. CASE i \in 1..m
    <3>1. k \in DOMAIN ms[i].calls /\ ns[i].calls = ms[i].calls
      BY <1>2, <2>1
    <3>2. /\ i + k <= m /\ ms[i + k].role = "tool"
          /\ ms[i + k].answers = ms[i].calls[k].id
      BY <1>1, <2>1, <3>1 DEF Answered, m
    <3>3. k \in Nat /\ i + k \in 1..m
      <4>1. ms[i].calls \in Seq(ToolCall)
        <5>1. ms[i] \in Message
          BY <2>1, ElementOfSeq DEF m
        <5> QED BY <5>1 DEF Message
      <4>2. k \in Nat /\ k >= 1
        BY <3>1, <4>1, LenProperties
      <4> QED BY <1>1, <2>1, <3>2, <4>2
    <3> QED BY <1>1, <1>2, <3>1, <3>2, <3>3
  <2>2. CASE i = m + 1
    <3>1. k \in 1..n
      BY <1>1, <1>2, <2>2
    <3> QED BY <1>1, <1>2, <2>2, <3>1
  <2>3. CASE i \notin 1..(m + 1)
    <3>1. i - (m + 1) \in 1..n /\ m + 1 + (i - (m + 1)) = i
      BY <1>1, <1>3, <2>3
    <3>2. ns[i].calls = <<>>
      BY <1>2, <3>1
    <3>3. DOMAIN <<>> = {}
      OBVIOUS
    <3> QED BY <3>2, <3>3
  <2>4. i \in 1..m \/ i = m + 1 \/ i \notin 1..(m + 1)
    BY <1>1
  <2> QED BY <2>1, <2>2, <2>3, <2>4
<1>5. Answered(ns)
  BY <1>4 DEF Answered
<1> QED BY <1>5 DEF ns

(* A limit that fits in 32 bits stays what it is.                          *)
LEMMA WrapFits ==
  ASSUME NEW n \in 0..MaxInt32
  PROVE  Wrap(n) = n
<1> DEFINE M == MaxInt32 + 1
<1>1. M \in Nat /\ M > 0 /\ n \in Nat /\ n < M
  BY ClientAssumption
<1>2. 0 <= n + M /\ n + M < 2 * M
  BY <1>1
<1>3. (n + M) % (2 * M) = n + M
  <2> DEFINE a == n + M
             b == 2 * M
  <2>1. a \in Nat /\ b \in Nat /\ b > 0 /\ a < b
    BY <1>1
  <2> HIDE DEF a, b, M
  <2>2. a % b = a
    BY <2>1
  <2> QED BY <2>2 DEF a, b
<1>4. n + MaxInt32 + 1 = n + M
  BY ClientAssumption
<1>5. (n + M) - M = n
  BY <1>1
<1> QED BY <1>3, <1>4, <1>5 DEF Wrap

-----------------------------------------------------------------------------
(* The inductive invariant.                                                *)

Stops == {"", "end_turn", "max_tokens", "tool_use"}
Answer ==
  [text : Seq(Nat), calls : Seq(ToolCall), usage : Nat, stop : Stops]

TypeInv ==
  /\ client \in DOMAIN Chunks
  /\ request \in Requests
  /\ messages \in Seq(Message)
  /\ turn \in Nat
  /\ pc \in {"ask", "reading", "emitting", "flushing", "returned", "refused",
             "failed"}
  /\ received \in Seq(Received)
  /\ pending \in Seq(Event)
  /\ events \in Seq(Event)
  /\ out \in Answer

(* While chunks arrive, the events emitted and those about to be tell what *)
(* arrived; gemini's answer is what was emitted.                           *)
ReadingInv ==
  pc \in {"reading", "emitting"} =>
    /\ TextTold(events \o pending) = Generated.text
    /\ CallsTold(events \o pending)
         = IF client = "gemini" THEN Generated.calls ELSE <<>>
    /\ UsageTold(events \o pending) = <<>>

(* Then they tell everything, and the usage at the end.                    *)
ToldInv ==
  pc \in {"flushing", "returned"} =>
    /\ TextTold(events \o pending) = Generated.text
    /\ CallsTold(events \o pending) = Generated.calls
    /\ UsageTold(events \o pending) = <<out.usage>>
    /\ Last(events \o pending) = UsageEvent(out.usage)
    /\ out.usage = Generated.usage
    /\ client # "gemini" => out = Generated

GeminiInv ==
  client = "gemini" =>
    /\ pc \in {"reading", "emitting", "flushing", "returned"} =>
         out.text = TextTold(events) /\ out.calls = CallsTold(events)
    /\ pc = "reading" => out.usage = Usage(received)
    /\ pc = "emitting" => out.usage = Usage(Front(received))

StreamInv ==
  request.stream =>
    /\ pc = "emitting" => received # <<>>
    /\ pc \in {"reading", "returned"} => pending = <<>>
    /\ ReadingInv /\ ToldInv /\ GeminiInv

PlainInv ==
  ~request.stream =>
    /\ events = <<>> /\ pending = <<>>
    /\ pc \notin {"emitting", "flushing"}
    /\ pc = "returned" => out = Generated

PrefixInv ==
  /\ IsPrefix(TextTold(events), Generated.text)
  /\ IsPrefix(CallsTold(events), Generated.calls)

(* What is cut off is the answer's end, and not finished otherwise.        *)
CutInv ==
  client = "anthropic" /\ Cut(Parts(received)) =>
    Finish(received) \in {"none", "length"}

CarryInv ==
  /\ Answered(messages)
  /\ pc \notin {"ask", "refused"} => Refusals = {}
  /\ pc = "refused" => Refusals # {}
  /\ pc \in {"ask", "refused"} /\ turn > 0 =>
       \/ Refusals = {}
       \/ client = "anthropic" /\ out.stop \notin {"end_turn", "tool_use"}

SentInv ==
  sent # NothingSent =>
    /\ Answered(sent.messages)
    /\ OfRole(sent.system \o sent.messages, {"system"})
         = OfRole(messages, {"system"})
    /\ request.limit \in 1..MaxInt32 => sent.limit = request.limit

IInv ==
  /\ TypeInv /\ StreamInv /\ PlainInv /\ PrefixInv /\ CutInv
  /\ CarryInv /\ SentInv

-----------------------------------------------------------------------------
(* What the definitions that read the state come to.                       *)

LEMMA ClientIs ==
  ASSUME TypeInv
  PROVE  /\ client \in {"openai", "anthropic", "gemini"}
         /\ request.stream \in BOOLEAN /\ request.limit \in Nat
         /\ Configured \in Nat /\ MaxInt32 \in Nat
         /\ GeminiArgs \subseteq Args
         /\ Seq(PartsOf(GeminiArgs)) \subseteq Seq(Part)
<1>1. client \in Client /\ request \in Request
  BY ClientAssumption DEF TypeInv
<1>2. GeminiArgs \subseteq Args
  BY DEF GeminiArgs, Args, JSON
<1>3. PartsOf(GeminiArgs) \subseteq Part
  BY <1>2 DEF PartsOf, Part, Args
<1>4. Seq(PartsOf(GeminiArgs)) \subseteq Seq(Part)
  BY <1>3, SeqMonotonic
<1> QED BY <1>1, <1>2, <1>4, ClientAssumption DEF Client, Request

LEMMA ResponseIs ==
  ASSUME TypeInv, NEW piece, piece.parts \in Seq(PartsOf(GeminiArgs)),
         piece.finish \in {"none", "stop", "calls", "length"},
         piece.usage \in Nat, NEW n \in Nat
  PROVE  /\ Response(piece, n) \in Answer
         /\ Response(piece, n).text = TextIn(piece.parts, n)
         /\ Response(piece, n).calls = CallsIn(piece.parts, n)
         /\ Response(piece, n).usage = piece.usage
         /\ client = "anthropic" =>
              Response(piece, n).stop = AnthropicStop(piece)
         /\ CallsIn(piece.parts, n)
              \in Seq([id : ID, input : {Input(x) : x \in GeminiArgs}])
<1>1. TextIn(piece.parts, n) \in Seq(Nat)
  BY ClientIs, TextInConcat
<1>2. CallsIn(piece.parts, n)
        \in Seq([id : ID, input : {Input(x) : x \in GeminiArgs}])
  BY ClientIs, CallsInConcat DEF TypeInv
<1>3. [id : ID, input : {Input(x) : x \in GeminiArgs}] \subseteq ToolCall
  <2>1. {Input(x) : x \in GeminiArgs} \subseteq JSON
    BY ClientIs DEF Input, Args, JSON
  <2> QED BY <2>1 DEF ToolCall
<1>4. CallsIn(piece.parts, n) \in Seq(ToolCall)
  BY <1>2, <1>3, SeqMonotonic
<1> DEFINE calls == CallsIn(piece.parts, n)
           stop == CASE client = "openai" -> OpenAIStop(piece, calls # <<>>)
                     [] client = "anthropic" -> AnthropicStop(piece)
                     [] client = "gemini" -> GeminiStop(piece, calls # <<>>)
<1>5. AnthropicStop(piece) \in Stops
  BY DEF AnthropicStop, Stops
<1>6. \A has \in BOOLEAN : /\ OpenAIStop(piece, has) \in Stops
                           /\ GeminiStop(piece, has) \in Stops
  BY DEF OpenAIStop, GeminiStop, Stops
<1>7. stop \in Stops /\ (client = "anthropic" => stop = AnthropicStop(piece))
  <2> DEFINE has == calls # <<>>
  <2>1. has \in BOOLEAN
    OBVIOUS
  <2> HIDE DEF has
  <2> QED BY <1>5, <1>6, <2>1, ClientIs
<1> HIDE DEF stop
<1>8. Response(piece, n) = [text |-> TextIn(piece.parts, n), calls |-> calls,
                            usage |-> piece.usage, stop |-> stop]
  BY DEF Response, stop
<1> QED BY <1>1, <1>2, <1>4, <1>7, <1>8 DEF Answer

LEMMA GeneratedIs ==
  ASSUME TypeInv
  PROVE  /\ Generated \in Answer
         /\ Generated.text = TextIn(Parts(received), 0)
         /\ Generated.calls = CallsIn(Parts(received), 0)
         /\ Generated.usage = Usage(received)
         /\ client = "anthropic" =>
              Generated.stop = AnthropicStop(Whole(received))
         /\ Generated.calls
              \in Seq([id : ID, input : {Input(x) : x \in GeminiArgs}])
         /\ Parts(received) \in Seq(PartsOf(GeminiArgs))
<1> DEFINE w == Whole(received)
<1>1. received \in Seq(Received)
  BY DEF TypeInv
<1>2. Parts(received) \in Seq(PartsOf(GeminiArgs)) /\ Usage(received) \in Nat
      /\ Finish(received) \in {"none", "stop", "calls", "length"}
  <2> DEFINE k == [parts |-> <<>>, finish |-> "none", usage |-> 0,
                   content |-> FALSE]
  <2>1. k \in Received
    BY DEF Received
  <2> HIDE DEF k
  <2> QED BY <1>1, <2>1, PartsConcat, LastToldOfMore
<1>3. /\ w.parts = Parts(received) /\ w.usage = Usage(received)
      /\ w.finish = Finish(received)
  BY DEF Whole
<1>4. Generated = Response(w, 0)
  BY DEF Generated
<1> HIDE DEF w
<1>5. /\ Response(w, 0) \in Answer
      /\ Response(w, 0).text = TextIn(w.parts, 0)
      /\ Response(w, 0).calls = CallsIn(w.parts, 0)
      /\ Response(w, 0).usage = w.usage
      /\ client = "anthropic" => Response(w, 0).stop = AnthropicStop(w)
      /\ CallsIn(w.parts, 0)
           \in Seq([id : ID, input : {Input(x) : x \in GeminiArgs}])
  BY <1>2, <1>3, ResponseIs
<1> QED BY <1>2, <1>3, <1>4, <1>5 DEF w

(* What a step leaves alone, and what an answer one chunk longer is.       *)
LEMMA SameTurn ==
  ASSUME client' = client, turn' = turn
  PROVE  /\ Generated' = Response(Whole(received'), 0)
         /\ Received' = Received
         /\ received' = received => Generated' = Generated
<1>1. Generated' = Response(Whole(received'), 0)
  BY DEF Generated, Response, CallsIn
<1>2. Received' = Received
  BY DEF Received, GeminiArgs
<1> QED BY <1>1, <1>2 DEF Generated

LEMMA SameRefusals ==
  ASSUME client' = client, request' = request, messages' = messages
  PROVE  Refusals' = Refusals
BY DEF Refusals, OpenAIRefusals, AnthropicRefusals, GeminiRefusals, BadRole,
       BadInput, BadSchema

LEMMA SameSent ==
  ASSUME SentInv, request' = request, messages' = messages, sent' = sent
  PROVE  SentInv'
BY DEF SentInv

LEMMA SameAnswer ==
  ASSUME TypeInv, PrefixInv, CutInv,
         client' = client, turn' = turn, received' = received
  PROVE  /\ Generated' = Generated /\ Received' = Received
         /\ events' = events => PrefixInv'
         /\ CutInv'
BY SameTurn DEF PrefixInv, CutInv

(* Where the conversation is the same and the provider has taken it.       *)
LEMMA SameConversation ==
  ASSUME CarryInv, client' = client, request' = request, messages' = messages,
         pc \notin {"ask", "refused"}, pc' \notin {"ask", "refused"}
  PROVE  CarryInv'
<1>1. Refusals' = Refusals
  BY SameRefusals
<1> QED BY <1>1 DEF CarryInv

LEMMA MoreReceived ==
  ASSUME TypeInv, NEW k \in Received
  PROVE  LET more == Append(received, k)
             piece == Response(k, Len(Parts(received)))
         IN /\ Parts(more) = Parts(received) \o k.parts
            /\ Response(Whole(more), 0).text = Generated.text \o piece.text
            /\ Response(Whole(more), 0).calls = Generated.calls \o piece.calls
            /\ Response(Whole(more), 0).usage
                 = UsageKept(Generated.usage, piece.usage)
            /\ piece \in Answer
            /\ Response(Whole(more), 0) \in Answer
            /\ Finish(more) = IF k.finish # "none" THEN k.finish
                                                   ELSE Finish(received)
<1> DEFINE more == Append(received, k)
           w == Whole(more)
           p == Parts(received)
           piece == Response(k, Len(p))
<1>1. /\ Parts(more) = p \o k.parts
      /\ p \in Seq(PartsOf(GeminiArgs))
      /\ Usage(more) = UsageKept(Usage(received), k.usage)
      /\ Finish(more) = IF k.finish # "none" THEN k.finish ELSE Finish(received)
  BY PartsConcat, LastToldOfMore DEF TypeInv
<1>2. /\ k.parts \in Seq(PartsOf(GeminiArgs)) /\ k.usage \in Nat
      /\ k.finish \in {"none", "stop", "calls", "length"}
      /\ Len(p) \in Nat
  <2>1. Len(p) \in Nat
    BY <1>1, LenProperties
  <2> QED BY <2>1 DEF Received
<1>3. /\ p \o k.parts \in Seq(PartsOf(GeminiArgs))
      /\ Usage(more) \in Nat
      /\ Finish(more) \in {"none", "stop", "calls", "length"}
  <2>1. p \o k.parts \in Seq(PartsOf(GeminiArgs))
    BY <1>1, <1>2, ConcatProperties
  <2>2. more \in Seq(Received)
    BY AppendProperties DEF TypeInv
  <2> HIDE DEF more
  <2>3. /\ Usage(more) \in Nat
        /\ Finish(more) \in {"none", "stop", "calls", "length"}
    BY <2>2, LastToldOfMore
  <2> QED BY <2>1, <2>3
<1>4. w.parts = Parts(more) /\ w.usage = Usage(more) /\ w.finish = Finish(more)
  BY DEF Whole
<1> HIDE DEF w, more
<1>5. /\ Response(w, 0) \in Answer
      /\ Response(w, 0).text = TextIn(w.parts, 0)
      /\ Response(w, 0).calls = CallsIn(w.parts, 0)
      /\ Response(w, 0).usage = w.usage
  BY <1>1, <1>3, <1>4, ResponseIs
<1>6. /\ piece \in Answer
      /\ piece.text = TextIn(k.parts, Len(p))
      /\ piece.calls = CallsIn(k.parts, Len(p))
      /\ piece.usage = k.usage
  BY <1>2, ResponseIs
<1>7. /\ Generated.text = TextIn(p, 0) /\ Generated.calls = CallsIn(p, 0)
      /\ Generated.usage = Usage(received)
  BY GeneratedIs
<1>8. TextIn(p \o k.parts, 0) = TextIn(p, 0) \o TextIn(k.parts, Len(p))
  <2>1. p \in Seq(Part) /\ k.parts \in Seq(Part)
    BY <1>1, <1>2, ClientIs
  <2>2. TextIn(p \o k.parts, 0) = TextIn(p, 0) \o TextIn(k.parts, 0 + Len(p))
    BY <2>1, TextInConcat
  <2>3. 0 + Len(p) = Len(p)
    BY <1>2
  <2> QED BY <2>2, <2>3
<1>9. CallsIn(p \o k.parts, 0) = CallsIn(p, 0) \o CallsIn(k.parts, Len(p))
  <2>1. GeminiArgs \in SUBSET Args /\ turn \in Nat
    BY ClientIs DEF TypeInv
  <2>2. CallsIn(p \o k.parts, 0) = CallsIn(p, 0) \o CallsIn(k.parts, 0 + Len(p))
    BY <1>1, <1>2, <2>1, CallsInConcat
  <2>3. 0 + Len(p) = Len(p)
    BY <1>2
  <2> QED BY <2>2, <2>3
<1> HIDE DEF piece, p
<1> QED BY <1>1, <1>4, <1>5, <1>6, <1>7, <1>8, <1>9 DEF w, more, piece, p

-----------------------------------------------------------------------------
(* The steps.                                                              *)

LEMMA NothingTold ==
  /\ <<>> \in Seq(Event) /\ <<>> \o <<>> = <<>>
  /\ TextTold(<<>>) = <<>> /\ CallsTold(<<>>) = <<>> /\ UsageTold(<<>>) = <<>>
  /\ \A S : \A s \in Seq(S) : IsPrefix(<<>>, s)
  /\ Parts(<<>>) = <<>> /\ ~Cut(<<>>) /\ Usage(<<>>) = 0
  /\ <<>> \in Seq(Received)
  /\ NoResponse \in Answer
  /\ NoResponse.text = <<>> /\ NoResponse.calls = <<>> /\ NoResponse.usage = 0
<1>1. ASSUME NEW S, NEW s \in Seq(S) PROVE IsPrefix(<<>>, s)
  <2>1. <<>> \in Seq(S) /\ <<>> \o s = s
    BY ConcatEmptySeq
  <2> QED BY <2>1, PrefixOfConcat
<1>2. Parts(<<>>) = <<>> /\ Usage(<<>>) = 0
  BY FlattenNone DEF Parts, Usage
<1>3. ~Cut(<<>>)
  BY DEF Cut
<1>4. NoResponse \in Answer
  BY DEF NoResponse, Answer, Stops
<1>5. /\ <<>> \in Seq(Event) /\ <<>> \in Seq(Received)
      /\ <<>> \o <<>> = <<>>
  BY ConcatEmptySeq
<1>6. /\ NoResponse.text = <<>> /\ NoResponse.calls = <<>>
      /\ NoResponse.usage = 0
  BY DEF NoResponse
<1>7. \A S : \A s \in Seq(S) : IsPrefix(<<>>, s)
  BY <1>1
<1> QED BY <1>2, <1>3, <1>4, <1>5, <1>6, <1>7, ToldFew

(* Before a chunk arrives nothing is generated.                            *)
LEMMA GeneratedNothing ==
  ASSUME received = <<>>
  PROVE  /\ Generated.text = <<>> /\ Generated.calls = <<>>
         /\ Generated.usage = 0
<1>1. Parts(received) = <<>> /\ Usage(received) = 0
  BY NothingTold
<1>2. TextIn(<<>>, 0) = <<>>
  BY FlattenNone DEF TextIn
<1>3. CallsIn(<<>>, 0) = <<>>
  BY FlattenNone DEF CallsIn
<1>4. /\ Whole(received).parts = <<>> /\ Whole(received).usage = 0
  BY <1>1 DEF Whole
<1> QED BY <1>2, <1>3, <1>4 DEF Generated, Response

LEMMA InitInv == Init => IInv
<1> SUFFICES ASSUME Init PROVE IInv
  OBVIOUS
<1>1. /\ client \in DOMAIN Chunks /\ request \in Requests
      /\ messages \in Conversations /\ turn = 0 /\ pc = "ask"
      /\ sent = NothingSent /\ received = <<>> /\ pending = <<>>
      /\ events = <<>> /\ out = NoResponse
  BY DEF Init
<1>2. messages \in Seq(Message) /\ Answered(messages)
  BY <1>1, ClientAssumption
<1>3. TypeInv
  BY <1>1, <1>2, NothingTold DEF TypeInv
<1>4. StreamInv
  BY <1>1 DEF StreamInv, ReadingInv, ToldInv, GeminiInv
<1>5. PlainInv
  BY <1>1 DEF PlainInv
<1>6. PrefixInv
  <2>1. Generated \in Answer
    BY <1>3, GeneratedIs
  <2>2. Generated.text \in Seq(Nat) /\ Generated.calls \in Seq(ToolCall)
    BY <2>1 DEF Answer
  <2> QED BY <1>1, <2>2, NothingTold DEF PrefixInv
<1>7. CutInv
  BY <1>1, NothingTold DEF CutInv
<1>8. CarryInv
  BY <1>1, <1>2 DEF CarryInv
<1>9. SentInv
  BY <1>1 DEF SentInv
<1> QED BY <1>3, <1>4, <1>5, <1>6, <1>7, <1>8, <1>9 DEF IInv

(* What params makes of an answered conversation.                          *)
LEMMA ParamsKeep ==
  ASSUME TypeInv, Answered(messages)
  PROVE  /\ Answered(Params.messages)
         /\ OfRole(Params.system \o Params.messages, {"system"})
              = OfRole(messages, {"system"})
         /\ request.limit \in 1..MaxInt32 => Params.limit = request.limit
<1>1. messages \in Seq(Message)
  BY DEF TypeInv
<1> DEFINE sys == OfRole(messages, {"system"})
           turns == OfRole(messages, Turn)
<1>2. Answered(turns)
  <2>1. "tool" \in Turn
    BY DEF Turn, Role
  <2> QED BY <1>1, <2>1, AnsweredOfRole
<1>3. OfRole(sys \o turns, {"system"}) = sys
  <2> DEFINE A == {m \in Message : m.role \in {"system"}}
             B == {m \in Message : m.role \in Turn}
  <2>1. sys \in Seq(A) /\ turns \in Seq(B)
    BY <1>1, OfRoleConcat
  <2>2. A \subseteq Message /\ B \subseteq Message
    OBVIOUS
  <2>3. /\ \A m \in A : m.role \in {"system"}
        /\ \A m \in B : m.role \notin {"system"}
    BY DEF Turn
  <2> HIDE DEF sys, turns, A, B
  <2>4. sys \in Seq(Message) /\ turns \in Seq(Message)
    BY <2>1, <2>2, SeqMonotonic
  <2>5. /\ \A i \in 1..Len(sys) : sys[i].role \in {"system"}
        /\ \A i \in 1..Len(turns) : turns[i].role \notin {"system"}
    BY <2>1, <2>3, ElementOfSeq
  <2>6. OfRole(sys, {"system"}) = sys
    BY <2>4, <2>5, OfRoleConcat
  <2>7. OfRole(turns, {"system"}) = <<>>
    BY <2>4, <2>5, OfRoleConcat
  <2>8. OfRole(sys \o turns, {"system"})
          = OfRole(sys, {"system"}) \o OfRole(turns, {"system"})
    BY <2>4, OfRoleConcat
  <2> QED BY <2>4, <2>6, <2>7, <2>8, ConcatEmptySeq
<1>4. <<>> \o messages = messages
  BY <1>1, ConcatEmptySeq
<1>5. ASSUME request.limit \in 1..MaxInt32
      PROVE  \A default \in Nat : OrElse(request.limit, default) = request.limit
  BY <1>5 DEF OrElse
<1>6. ASSUME request.limit \in 1..MaxInt32
      PROVE  Wrap(request.limit) = request.limit
  <2>1. request.limit \in 0..MaxInt32
    BY <1>6
  <2> QED BY <2>1, WrapFits
<1>7. Configured \in Nat /\ OrElse(Configured, 1024) \in Nat
  BY ClientIs DEF OrElse
<1>8. CASE client = "openai"
  <2>1. Params = [system |-> <<>>, messages |-> messages,
                  limit |-> OrElse(request.limit, Configured)]
    BY <1>8 DEF Params, OpenAIParams
  <2> QED BY <1>4, <1>5, <1>7, <2>1
<1>9. CASE client = "anthropic"
  <2>1. Params = [system |-> sys, messages |-> turns,
                  limit |-> OrElse(request.limit, OrElse(Configured, 1024))]
    BY <1>9 DEF Params, AnthropicParams
  <2> HIDE DEF sys, turns
  <2>2. /\ Params.messages = turns /\ Params.system = sys
        /\ Params.limit = OrElse(request.limit, OrElse(Configured, 1024))
    BY <2>1
  <2> QED BY <1>2, <1>3, <1>5, <1>7, <2>2 DEF sys
<1>10. CASE client = "gemini"
  <2>1. Params = [system |-> sys, messages |-> turns,
                  limit |-> Wrap(OrElse(request.limit, Configured))]
    BY <1>10 DEF Params, GeminiParams
  <2> HIDE DEF sys, turns
  <2>2. /\ Params.messages = turns /\ Params.system = sys
        /\ Params.limit = Wrap(OrElse(request.limit, Configured))
    BY <2>1
  <2> QED BY <1>2, <1>3, <1>5, <1>6, <1>7, <2>2 DEF sys
<1> QED BY <1>8, <1>9, <1>10, ClientIs

LEMMA AskKeeps ==
  ASSUME IInv, Ask
  PROVE  IInv'
<1>1. /\ pc = "ask" /\ Refusals = {} /\ sent' = Params
      /\ received' = <<>> /\ pending' = <<>> /\ events' = <<>>
      /\ out' = NoResponse /\ turn' = turn + 1 /\ pc' = "reading"
      /\ client' = client /\ request' = request /\ messages' = messages
  BY DEF Ask, fixedVars
<1>2. TypeInv /\ CarryInv /\ Answered(messages)
  BY DEF IInv, CarryInv
<1>3. Received' = Received
  BY <1>1 DEF Received, GeminiArgs
<1>4. TypeInv'
  BY <1>1, <1>2, <1>3, NothingTold DEF TypeInv
<1>5. /\ Generated'.text = <<>> /\ Generated'.calls = <<>>
      /\ Generated'.usage = 0
  <2>1. /\ TextIn(<<>>, 0) = <<>> /\ CallsIn(<<>>, 0)' = <<>>
    BY FlattenNone DEF TextIn, CallsIn
  <2>2. Whole(received').parts = <<>> /\ Whole(received').usage = 0
    BY <1>1, NothingTold DEF Whole
  <2> QED BY <2>1, <2>2 DEF Generated, Response
<1>6. StreamInv'
  BY <1>1, <1>5, NothingTold DEF StreamInv, ReadingInv, ToldInv, GeminiInv
<1>7. PlainInv'
  BY <1>1 DEF PlainInv
<1>8. PrefixInv'
  <2>1. IsPrefix(<<>>, <<>>)
    BY NothingTold
  <2> QED BY <1>1, <1>5, <2>1, NothingTold DEF PrefixInv
<1>9. CutInv'
  BY <1>1, NothingTold DEF CutInv
<1>10. CarryInv'
  <2>1. Refusals' = {}
    BY <1>1, SameRefusals
  <2> QED BY <1>1, <1>2, <2>1 DEF CarryInv
<1>11. SentInv'
  BY <1>1, <1>2, ParamsKeep DEF SentInv
<1> QED BY <1>4, <1>6, <1>7, <1>8, <1>9, <1>10, <1>11 DEF IInv

LEMMA RefuseKeeps ==
  ASSUME IInv, Refuse
  PROVE  IInv'
<1>1. /\ pc = "ask" /\ Refusals # {} /\ pc' = "refused"
      /\ client' = client /\ request' = request /\ messages' = messages
      /\ turn' = turn /\ sent' = sent /\ received' = received
      /\ pending' = pending /\ events' = events /\ out' = out
  BY DEF Refuse, fixedVars, answerVars
<1>2. /\ Generated' = Generated /\ Received' = Received
      /\ PrefixInv' /\ CutInv'
  BY <1>1, SameAnswer DEF IInv
<1>3. TypeInv'
  BY <1>1, <1>2 DEF IInv, TypeInv
<1>4. StreamInv'
  BY <1>1 DEF StreamInv, ReadingInv, ToldInv, GeminiInv
<1>5. PlainInv'
  BY <1>1 DEF IInv, PlainInv
<1>6. CarryInv'
  <2>1. Refusals' = Refusals
    BY <1>1, SameRefusals
  <2> QED BY <1>1, <2>1 DEF IInv, CarryInv
<1>7. SentInv'
  BY <1>1, SameSent DEF IInv
<1> QED BY <1>2, <1>3, <1>4, <1>5, <1>6, <1>7 DEF IInv

(* What ends a turn without an answer.                                     *)
LEMMA BreakOffKeeps ==
  ASSUME IInv, ReadFails \/ EmptyChoices
  PROVE  IInv'
<1>1. /\ pc = "reading" /\ pc' = "failed"
      /\ client' = client /\ request' = request /\ messages' = messages
      /\ turn' = turn /\ sent' = sent /\ received' = received
      /\ pending' = pending /\ events' = events /\ out' = out
  BY DEF ReadFails, EmptyChoices, fixedVars, answerVars
<1>2. /\ Generated' = Generated /\ Received' = Received
      /\ PrefixInv' /\ CutInv'
  BY <1>1, SameAnswer DEF IInv
<1>3. TypeInv'
  BY <1>1, <1>2 DEF IInv, TypeInv
<1>4. StreamInv'
  BY <1>1 DEF StreamInv, ReadingInv, ToldInv, GeminiInv
<1>5. PlainInv'
  BY <1>1 DEF IInv, PlainInv
<1>6. CarryInv'
  BY <1>1, SameConversation DEF IInv
<1>7. SentInv'
  BY <1>1, SameSent DEF IInv
<1> QED BY <1>2, <1>3, <1>4, <1>5, <1>6, <1>7 DEF IInv

(* A chunk as it is kept.                                                  *)
Kept(chunk, usage) == [chunk EXCEPT !.usage = usage]

LEMMA PartsAreOf ==
  ASSUME NEW p \in Seq(Part), NEW A,
         \A i \in DOMAIN p : p[i].args \in A
  PROVE  p \in Seq(PartsOf(A))
<1> DEFINE n == Len(p)
<1>1. n \in Nat /\ DOMAIN p = 1..n /\ \A i \in 1..n : p[i] \in Part
  BY LenProperties, ElementOfSeq
<1>2. \A i \in 1..n : p[i] \in PartsOf(A)
  BY <1>1 DEF Part, PartsOf
<1>3. p = [i \in 1..n |-> p[i]]
  BY <1>1
<1> HIDE DEF n
<1>4. p \in [1..n -> PartsOf(A)]
  BY <1>2, <1>3
<1> QED BY <1>1, <1>4, FunctionIsSeq

LEMMA ChunkIs ==
  ASSUME TypeInv, NEW chunk \in Chunks[client], NEW usage \in Nat
  PROVE  /\ Kept(chunk, usage) \in Received
         /\ Kept(chunk, usage).parts = chunk.parts
         /\ Kept(chunk, usage).finish = chunk.finish
<1>1. client \in DOMAIN Chunks
  BY DEF TypeInv
<1>2. chunk \in Chunk
  BY <1>1, ClientAssumption
<1>3. chunk.parts \in Seq(PartsOf(GeminiArgs))
  <2>1. chunk.parts \in Seq(Part)
    BY <1>2 DEF Chunk
  <2>2. \A i \in DOMAIN chunk.parts : chunk.parts[i].args \in GeminiArgs
    <3>1. CASE client = "gemini"
      BY <1>1, <3>1, ClientAssumption DEF GeminiArgs
    <3>2. CASE client # "gemini"
      <4>1. \A i \in DOMAIN chunk.parts : chunk.parts[i] \in Part
        BY <2>1, LenProperties, ElementOfSeq
      <4> QED BY <3>2, <4>1 DEF GeminiArgs, Args, Part
    <3> QED BY <3>1, <3>2
  <2> QED BY <2>1, <2>2, PartsAreOf
<1>4. /\ Kept(chunk, usage) = [parts |-> chunk.parts, finish |-> chunk.finish,
                               usage |-> usage, content |-> chunk.content]
      /\ chunk.finish \in {"none", "stop", "calls", "length"}
      /\ chunk.content \in BOOLEAN
  BY <1>2 DEF Chunk, Kept
<1> QED BY <1>3, <1>4 DEF Received

LEMMA DeltasTell ==
  ASSUME NEW piece \in Answer
  PROVE  /\ Deltas(piece) \in Seq(Event)
         /\ TextTold(Deltas(piece)) = piece.text
         /\ CallsTold(Deltas(piece))
              = IF client = "gemini" THEN piece.calls ELSE <<>>
         /\ UsageTold(Deltas(piece)) = <<>>
<1> DEFINE a == TextEvents(piece.text)
           b == IF client = "gemini" THEN CallEvents(piece.calls) ELSE <<>>
<1>1. piece.text \in Seq(Nat) /\ piece.calls \in Seq(ToolCall)
  BY DEF Answer
<1>2. /\ a \in Seq(Event) /\ TextTold(a) = piece.text
      /\ CallsTold(a) = <<>> /\ UsageTold(a) = <<>>
  BY <1>1, TextEventsTell
<1>3. /\ b \in Seq(Event) /\ TextTold(b) = <<>>
      /\ CallsTold(b) = IF client = "gemini" THEN piece.calls ELSE <<>>
      /\ UsageTold(b) = <<>>
  <2>1. CASE client = "gemini"
    BY <1>1, <2>1, CallEventsTell
  <2>2. CASE client # "gemini"
    BY <2>2, NothingTold
  <2> QED BY <2>1, <2>2
<1>4. Deltas(piece) = a \o b
  BY DEF Deltas
<1> HIDE DEF a, b
<1>5. /\ a \o b \in Seq(Event)
      /\ TextTold(a \o b) = TextTold(a) \o TextTold(b)
      /\ CallsTold(a \o b) = CallsTold(a) \o CallsTold(b)
      /\ UsageTold(a \o b) = UsageTold(a) \o UsageTold(b)
      /\ CallsTold(b) \in Seq(ToolCall)
  BY <1>2, <1>3, ToldConcat, ConcatProperties
<1>6. /\ piece.text \o <<>> = piece.text
      /\ <<>> \o CallsTold(b) = CallsTold(b)
      /\ <<>> \o <<>> = <<>>
  BY <1>1, <1>5, ConcatEmptySeq, NothingTold
<1> QED BY <1>2, <1>3, <1>4, <1>5, <1>6

(* The answer so far, when one chunk more has arrived.                     *)
LEMMA ChunkArrives ==
  ASSUME TypeInv, client' = client, turn' = turn, NEW k \in Received,
         received' = Append(received, k)
  PROVE  LET piece == LastPiece(received')
         IN /\ piece \in Answer /\ Generated' \in Answer
            /\ Generated'.text = Generated.text \o piece.text
            /\ Generated'.calls = Generated.calls \o piece.calls
            /\ received' \in Seq(Received) /\ received' # <<>>
            /\ Front(received') = received
            /\ Parts(received') = Parts(received) \o k.parts
            /\ Finish(received') = IF k.finish # "none" THEN k.finish
                                                       ELSE Finish(received)
            /\ Generated.text \in Seq(Nat)
            /\ Generated.calls \in Seq(ToolCall)
            /\ piece.text \in Seq(Nat) /\ piece.calls \in Seq(ToolCall)
            /\ Generated.usage = Usage(received)
<1> DEFINE more == Append(received, k)
           piece == Response(k, Len(Parts(received)))
<1>1. /\ more \in Seq(Received) /\ more # <<>>
      /\ Front(more) = received /\ Last(more) = k
  BY FrontOfAppend DEF TypeInv
<1>2. /\ Parts(more) = Parts(received) \o k.parts
      /\ Response(Whole(more), 0).text = Generated.text \o piece.text
      /\ Response(Whole(more), 0).calls = Generated.calls \o piece.calls
      /\ piece \in Answer
      /\ Response(Whole(more), 0) \in Answer
      /\ Finish(more) = IF k.finish # "none" THEN k.finish ELSE Finish(received)
  BY MoreReceived
<1>3. LastPiece(more) = piece
  BY <1>1 DEF LastPiece
<1>4. Generated' = Response(Whole(received'), 0)
  BY SameTurn
<1>5. /\ Generated.text \in Seq(Nat) /\ Generated.calls \in Seq(ToolCall)
      /\ piece.text \in Seq(Nat) /\ piece.calls \in Seq(ToolCall)
      /\ Generated.usage = Usage(received)
  <2>1. Generated \in Answer /\ Generated.usage = Usage(received)
    BY GeneratedIs
  <2> HIDE DEF piece
  <2> QED BY <1>2, <2>1 DEF Answer
<1> HIDE DEF piece, more
<1> QED BY <1>1, <1>2, <1>3, <1>4, <1>5 DEF more

LEMMA ArriveKeeps ==
  ASSUME IInv, Arrive
  PROVE  IInv'
<1>1. /\ pc = "reading" /\ client' = client /\ request' = request
      /\ messages' = messages /\ turn' = turn /\ sent' = sent
      /\ events' = events /\ out' = out
      /\ IF request.stream THEN pending' = Deltas(LastPiece(received'))
                                /\ pc' = "emitting"
                           ELSE pending' = pending /\ pc' = pc
  BY DEF Arrive, fixedVars
<1>2. TypeInv /\ StreamInv /\ PlainInv /\ PrefixInv /\ CarryInv /\ SentInv
  BY DEF IInv
<1>3. PICK chunk \in Chunks[client] :
        /\ MaySend(chunk)
        /\ received' = Append(received,
             Kept(chunk, IF chunk.usage THEN Len(received) + 1 ELSE 0))
  BY DEF Arrive, Kept
<1> DEFINE u == IF chunk.usage THEN Len(received) + 1 ELSE 0
           k == Kept(chunk, u)
           piece == LastPiece(received')
<1>4. u \in Nat
  <2>1. Len(received) \in Nat
    BY <1>2, LenProperties DEF TypeInv
  <2> QED BY <2>1
<1>5. /\ received' = Append(received, k) /\ k \in Received
      /\ k.parts = chunk.parts /\ k.finish = chunk.finish
  <2>1. received' = Append(received, k)
    BY <1>3
  <2> HIDE DEF u
  <2>2. k \in Received /\ k.parts = chunk.parts /\ k.finish = chunk.finish
    BY <1>2, <1>4, ChunkIs
  <2> QED BY <2>1, <2>2
<1> HIDE DEF u, k
<1>6. /\ piece \in Answer /\ Generated' \in Answer
      /\ Generated'.text = Generated.text \o piece.text
      /\ Generated'.calls = Generated.calls \o piece.calls
      /\ received' \in Seq(Received) /\ received' # <<>>
      /\ Front(received') = received
      /\ Parts(received') = Parts(received) \o k.parts
      /\ Finish(received') = IF k.finish # "none" THEN k.finish
                                                 ELSE Finish(received)
      /\ Generated.text \in Seq(Nat)
      /\ Generated.calls \in Seq(ToolCall)
      /\ piece.text \in Seq(Nat) /\ piece.calls \in Seq(ToolCall)
      /\ Generated.usage = Usage(received)
  BY <1>1, <1>2, <1>5, ChunkArrives
<1> HIDE DEF piece
<1>7. /\ Deltas(piece) \in Seq(Event)
      /\ TextTold(Deltas(piece)) = piece.text
      /\ CallsTold(Deltas(piece))
           = IF client = "gemini" THEN piece.calls ELSE <<>>
      /\ UsageTold(Deltas(piece)) = <<>>
  BY <1>6, DeltasTell
<1>8. events \in Seq(Event) /\ pending' \in Seq(Event)
  BY <1>1, <1>2, <1>7 DEF TypeInv, piece
<1>9. TypeInv'
  <2>1. Received' = Received
    BY <1>1, SameTurn
  <2> QED BY <1>1, <1>2, <1>6, <1>8, <2>1 DEF TypeInv
<1>10. ASSUME request.stream
       PROVE  /\ pending = <<>>
              /\ TextTold(events) = Generated.text
              /\ CallsTold(events)
                   = IF client = "gemini" THEN Generated.calls ELSE <<>>
              /\ UsageTold(events) = <<>>
  <2>1. pending = <<>> /\ ReadingInv
    BY <1>1, <1>2, <1>10 DEF StreamInv
  <2>2. events \o pending = events
    BY <1>8, <2>1, ConcatEmptySeq
  <2> QED BY <1>1, <2>1, <2>2 DEF ReadingInv
<1>11. StreamInv'
  <2> SUFFICES ASSUME request.stream PROVE StreamInv'
    BY <1>1 DEF StreamInv
  <2>1. pc' = "emitting" /\ pending' = Deltas(piece)
    BY <1>1 DEF piece
  <2>2. ReadingInv'
    <3>1. /\ TextTold(events \o pending') = Generated.text \o piece.text
          /\ CallsTold(events \o pending')
               = CallsTold(events) \o CallsTold(pending')
          /\ UsageTold(events \o pending') = <<>> \o <<>>
      <4>1. pending' \in Seq(Event)
        BY <1>8
      <4>2. /\ TextTold(events \o pending')
                 = TextTold(events) \o TextTold(pending')
            /\ CallsTold(events \o pending')
                 = CallsTold(events) \o CallsTold(pending')
            /\ UsageTold(events \o pending')
                 = UsageTold(events) \o UsageTold(pending')
        BY <1>8, <4>1, ToldConcat
      <4> QED BY <1>7, <1>10, <2>1, <4>2
    <3>2. CallsTold(events) \o CallsTold(pending')
            = IF client = "gemini" THEN Generated.calls \o piece.calls ELSE <<>>
      BY <1>7, <1>10, <2>1, NothingTold
    <3> QED BY <1>1, <1>6, <3>1, <3>2, NothingTold DEF ReadingInv
  <2>3. ToldInv'
    BY <2>1 DEF ToldInv
  <2>4. GeminiInv'
    BY <1>1, <1>2, <1>6, <2>1 DEF GeminiInv, StreamInv
  <2> QED BY <1>6, <2>1, <2>2, <2>3, <2>4 DEF StreamInv
<1>12. PlainInv'
  BY <1>1, <1>2 DEF PlainInv
<1>13. PrefixInv'
  <2>1. /\ IsPrefix(Generated.text, Generated'.text)
        /\ IsPrefix(Generated.calls, Generated'.calls)
    BY <1>6, PrefixOfConcat
  <2>2. /\ IsPrefix(<<>>, Generated'.text) /\ IsPrefix(<<>>, Generated'.calls)
    <3>1. Generated'.text \in Seq(Nat) /\ Generated'.calls \in Seq(ToolCall)
      BY <1>6 DEF Answer
    <3> QED BY <3>1, NothingTold
  <2>3. CASE request.stream
    BY <1>1, <1>10, <2>1, <2>2, <2>3 DEF PrefixInv
  <2>4. CASE ~request.stream
    BY <1>1, <1>2, <2>2, <2>4, NothingTold DEF PrefixInv, PlainInv
  <2> QED BY <2>3, <2>4
<1>14. CutInv'
  <2> SUFFICES ASSUME client = "anthropic", Cut(Parts(received'))
               PROVE  Finish(received') \in {"none", "length"}
    BY <1>1 DEF CutInv
  <2>1. /\ Whole(received).finish = Finish(received)
        /\ Whole(received).parts = Parts(received)
    BY DEF Whole
  <2>2. Finish(received) = "none"
    BY <1>3, <2>1 DEF MaySend
  <2>3. chunk.finish \in {"none", "length"}
    BY <1>3, <1>5, <1>6, <2>1 DEF MaySend
  <2> QED BY <1>5, <1>6, <2>2, <2>3
<1>15. CarryInv'
  BY <1>1, <1>2, SameConversation
<1>16. SentInv'
  BY <1>1, <1>2, SameSent
<1> QED BY <1>9, <1>11, <1>12, <1>13, <1>14, <1>15, <1>16 DEF IInv

(* What gemini's response becomes as an event is emitted.                  *)
LEMMA ExtendedTells ==
  ASSUME NEW h \in Event, out \in Answer
  PROVE  /\ Extended(h) \in Answer
         /\ Extended(h).usage = out.usage
         /\ client # "gemini" => Extended(h) = out
         /\ client = "gemini" =>
              /\ Extended(h).text = out.text \o TextOf[h]
              /\ Extended(h).calls = out.calls \o CallOf[h]
<1>1. /\ out.text \in Seq(Nat) /\ out.calls \in Seq(ToolCall)
      /\ out.usage \in Nat /\ out.stop \in Stops
      /\ out = [text |-> out.text, calls |-> out.calls, usage |-> out.usage,
                stop |-> out.stop]
  BY DEF Answer
<1>2. /\ out.text \o <<>> = out.text /\ out.calls \o <<>> = out.calls
  BY <1>1, ConcatEmptySeq
<1>3. CASE client # "gemini"
  <2>1. Extended(h) = out
    BY <1>3 DEF Extended
  <2> QED BY <1>3, <2>1
<1>4. CASE client = "gemini" /\ h.type = "text_delta"
  <2>1. h.text \in Seq(Nat)
    BY <1>4 DEF Event
  <2>2. TextOf[h] = h.text /\ CallOf[h] = <<>>
    BY <1>4 DEF TextOf, CallOf
  <2>3. Extended(h) = [text |-> out.text \o h.text, calls |-> out.calls,
                       usage |-> out.usage, stop |-> out.stop]
    BY <1>1, <1>4 DEF Extended
  <2>4. out.text \o h.text \in Seq(Nat)
    BY <1>1, <2>1, ConcatProperties
  <2> QED BY <1>1, <1>2, <1>4, <2>2, <2>3, <2>4 DEF Answer
<1>5. CASE client = "gemini" /\ h.type = "tool_call"
  <2>1. h.call \in ToolCall
    BY <1>5 DEF Event
  <2>2. TextOf[h] = <<>> /\ CallOf[h] = <<h.call>>
    BY <1>5 DEF TextOf, CallOf
  <2>3. Extended(h) = [text |-> out.text, calls |-> Append(out.calls, h.call),
                       usage |-> out.usage, stop |-> out.stop]
    BY <1>1, <1>5 DEF Extended
  <2>4. /\ Append(out.calls, h.call) = out.calls \o <<h.call>>
        /\ Append(out.calls, h.call) \in Seq(ToolCall)
    BY <1>1, <2>1, AppendIsConcat, AppendProperties
  <2> QED BY <1>1, <1>2, <1>5, <2>2, <2>3, <2>4 DEF Answer
<1>6. CASE client = "gemini" /\ h.type = "usage"
  <2>1. TextOf[h] = <<>> /\ CallOf[h] = <<>>
    BY <1>6 DEF TextOf, CallOf
  <2>2. Extended(h) = out
    BY <1>6 DEF Extended
  <2> QED BY <1>2, <1>6, <2>1, <2>2
<1>7. h.type \in {"text_delta", "tool_call", "usage"}
  BY DEF Event
<1> QED BY <1>3, <1>4, <1>5, <1>6, <1>7

(* What is told up to and with the event emitted, and what is left.        *)
LEMMA EmittedTells ==
  ASSUME TypeInv, pending # <<>>, NEW es, es = Append(events, Head(pending))
  PROVE  /\ Head(pending) \in Event /\ Tail(pending) \in Seq(Event)
         /\ es \in Seq(Event)
         /\ es \o Tail(pending) = events \o pending
         /\ TextTold(es) = TextTold(events) \o TextOf[Head(pending)]
         /\ CallsTold(es) = CallsTold(events) \o CallOf[Head(pending)]
         /\ TextTold(es) \in Seq(Nat) /\ CallsTold(es) \in Seq(ToolCall)
         /\ IsPrefix(TextTold(es), TextTold(events \o pending))
         /\ IsPrefix(CallsTold(es), CallsTold(events \o pending))
<1> DEFINE h == Head(pending)
           r == Tail(pending)
           o == <<h>>
<1>1. events \in Seq(Event) /\ pending \in Seq(Event)
  BY DEF TypeInv
<1>2. /\ h \in Event /\ r \in Seq(Event) /\ es \in Seq(Event)
      /\ es = events \o o /\ es \o r = events \o pending
  BY <1>1, HeadMoves
<1>3. o \in Seq(Event) /\ TextTold(o) = TextOf[h] /\ CallsTold(o) = CallOf[h]
  BY <1>2, ToldFew
<1> HIDE DEF h, r, o
<1>4. /\ TextTold(es) = TextTold(events) \o TextTold(o)
      /\ CallsTold(es) = CallsTold(events) \o CallsTold(o)
  BY <1>1, <1>2, <1>3, ToldConcat
<1>5. /\ TextTold(es) \in Seq(Nat) /\ TextTold(r) \in Seq(Nat)
      /\ CallsTold(es) \in Seq(ToolCall) /\ CallsTold(r) \in Seq(ToolCall)
      /\ TextTold(es \o r) = TextTold(es) \o TextTold(r)
      /\ CallsTold(es \o r) = CallsTold(es) \o CallsTold(r)
  BY <1>2, ToldConcat
<1>6. /\ IsPrefix(TextTold(es), TextTold(es) \o TextTold(r))
      /\ IsPrefix(CallsTold(es), CallsTold(es) \o CallsTold(r))
  BY <1>5, PrefixOfConcat
<1> QED BY <1>2, <1>3, <1>4, <1>5, <1>6 DEF h, r

LEMMA EmitKeeps ==
  ASSUME IInv, Emit
  PROVE  IInv'
<1> DEFINE h == Head(pending)
<1>1. /\ pc \in {"emitting", "flushing"} /\ pending # <<>>
      /\ client' = client /\ request' = request /\ messages' = messages
      /\ turn' = turn /\ sent' = sent /\ received' = received
      /\ events' = Append(events, h)
      /\ \/ pending' = Tail(pending) /\ pc' = pc /\ out' = Extended(h)
         \/ /\ pending' = pending /\ pc' = "failed"
            /\ out' \in {Extended(h), NoResponse}
  BY DEF Emit, fixedVars
<1>2. /\ TypeInv /\ StreamInv /\ PlainInv /\ PrefixInv /\ CutInv /\ CarryInv
      /\ SentInv
  BY DEF IInv
<1>3. request.stream /\ request.stream \in BOOLEAN
  BY <1>1, <1>2, ClientIs DEF PlainInv
<1>4. ReadingInv /\ ToldInv /\ GeminiInv
  BY <1>2, <1>3 DEF StreamInv
<1>5. /\ h \in Event /\ Tail(pending) \in Seq(Event)
      /\ events' \in Seq(Event)
      /\ events' \o Tail(pending) = events \o pending
      /\ TextTold(events') = TextTold(events) \o TextOf[h]
      /\ CallsTold(events') = CallsTold(events) \o CallOf[h]
      /\ TextTold(events') \in Seq(Nat) /\ CallsTold(events') \in Seq(ToolCall)
      /\ IsPrefix(TextTold(events'), TextTold(events \o pending))
      /\ IsPrefix(CallsTold(events'), CallsTold(events \o pending))
  BY <1>1, <1>2, EmittedTells
<1> HIDE DEF h
<1>6. /\ Extended(h) \in Answer /\ Extended(h).usage = out.usage
      /\ client # "gemini" => Extended(h) = out
      /\ client = "gemini" => /\ Extended(h).text = out.text \o TextOf[h]
                              /\ Extended(h).calls = out.calls \o CallOf[h]
  BY <1>2, <1>5, ExtendedTells DEF TypeInv
<1>7. Generated' = Generated /\ Received' = Received /\ CutInv'
  BY <1>1, <1>2, SameAnswer
<1>8. TypeInv'
  <2>1. pending' \in Seq(Event)
    BY <1>1, <1>2, <1>5 DEF TypeInv
  <2>2. out' \in Answer
    BY <1>1, <1>6, NothingTold DEF NoResponse, Answer, Stops
  <2> QED BY <1>1, <1>2, <1>5, <1>7, <2>1, <2>2 DEF TypeInv
<1>9. StreamInv'
  <2>1. CASE pc' = "failed"
    BY <2>1 DEF StreamInv, ReadingInv, ToldInv, GeminiInv
  <2>2. CASE pending' = Tail(pending) /\ pc' = pc /\ out' = Extended(h)
    <3>1. events' \o pending' = events \o pending
      BY <1>5, <2>2
    <3>2. ReadingInv'
      BY <1>1, <1>4, <1>7, <2>2, <3>1 DEF ReadingInv
    <3>3. ToldInv'
      BY <1>1, <1>4, <1>6, <1>7, <2>2, <3>1 DEF ToldInv
    <3>4. GeminiInv'
      BY <1>1, <1>4, <1>5, <1>6, <2>2 DEF GeminiInv
    <3> QED BY <1>1, <1>2, <1>3, <2>2, <3>2, <3>3, <3>4 DEF StreamInv
  <2> QED BY <1>1, <2>1, <2>2
<1>10. PlainInv'
  BY <1>1, <1>3 DEF PlainInv
<1>11. PrefixInv'
  <2>1. TextTold(events \o pending) = Generated.text
    BY <1>1, <1>4 DEF ReadingInv, ToldInv
  <2>2. IsPrefix(CallsTold(events'), Generated.calls)
    <3>1. CASE CallsTold(events \o pending) = Generated.calls
      BY <1>5, <3>1
    <3>2. CASE CallsTold(events \o pending) = <<>>
      <4>1. CallsTold(events') = <<>>
        <5>1. CallsTold(Tail(pending)) \in Seq(ToolCall)
          BY <1>5, ToldConcat
        <5>2. CallsTold(events') \o CallsTold(Tail(pending)) = <<>>
          BY <1>5, <3>2, ToldConcat
        <5> QED BY <1>5, <5>1, <5>2, ConcatEqualIffEmpty
      <4>2. Generated.calls \in Seq(ToolCall)
        BY <1>2, GeneratedIs DEF Answer
      <4> QED BY <4>1, <4>2, NothingTold
    <3> QED BY <1>1, <1>4, <3>1, <3>2 DEF ReadingInv, ToldInv
  <2> QED BY <1>5, <1>7, <2>1, <2>2 DEF PrefixInv
<1>12. CarryInv'
  BY <1>1, <1>2, SameConversation
<1>13. SentInv'
  BY <1>1, <1>2, SameSent
<1> QED BY <1>7, <1>8, <1>9, <1>10, <1>11, <1>12, <1>13 DEF IInv

LEMMA NextChunkKeeps ==
  ASSUME IInv, NextChunk
  PROVE  IInv'
<1> DEFINE piece == LastPiece(received)
<1>1. /\ pc = "emitting" /\ pending = <<>> /\ pc' = "reading"
      /\ client' = client /\ request' = request /\ messages' = messages
      /\ turn' = turn /\ sent' = sent /\ received' = received
      /\ pending' = pending /\ events' = events
      /\ out' = IF client # "gemini" THEN out
                ELSE [out EXCEPT !.usage = UsageKept(@, piece.usage),
                                 !.stop = piece.stop]
  BY DEF NextChunk, fixedVars
<1>2. /\ TypeInv /\ StreamInv /\ PlainInv /\ PrefixInv /\ CutInv /\ CarryInv
      /\ SentInv
  BY DEF IInv
<1>3. request.stream /\ request.stream \in BOOLEAN
  BY <1>1, <1>2, ClientIs DEF PlainInv
<1>4. ReadingInv /\ ToldInv /\ GeminiInv /\ received # <<>>
  BY <1>1, <1>2, <1>3 DEF StreamInv
<1>5. /\ Generated' = Generated /\ Received' = Received /\ PrefixInv' /\ CutInv'
  BY <1>1, <1>2, SameAnswer
<1>6. /\ piece \in Answer /\ piece.usage \in Nat
      /\ Usage(received) = UsageKept(Usage(Front(received)), piece.usage)
  <2> DEFINE f == Front(received)
             k == Last(received)
  <2>1. f \in Seq(Received) /\ k \in Received /\ received = Append(f, k)
    BY <1>2, <1>4, FrontAndLast DEF TypeInv
  <2> HIDE DEF f, k
  <2>2. /\ Usage(Append(f, k)) = UsageKept(Usage(f), k.usage)
        /\ Parts(f) \in Seq(PartsOf(GeminiArgs))
    BY <2>1, LastToldOfMore, PartsConcat
  <2>3. /\ k.parts \in Seq(PartsOf(GeminiArgs)) /\ k.usage \in Nat
        /\ k.finish \in {"none", "stop", "calls", "length"}
        /\ Len(Parts(f)) \in Nat
    <3>1. Len(Parts(f)) \in Nat
      BY <2>2, LenProperties
    <3> QED BY <2>1, <3>1 DEF Received
  <2>4. /\ Response(k, Len(Parts(f))) \in Answer
        /\ Response(k, Len(Parts(f))).usage = k.usage
    BY <1>2, <2>3, ResponseIs
  <2>5. piece = Response(k, Len(Parts(f)))
    BY DEF LastPiece, f, k
  <2> QED BY <2>1, <2>2, <2>3, <2>4, <2>5 DEF f
<1> HIDE DEF piece
<1>7. /\ out' \in Answer /\ out'.text = out.text /\ out'.calls = out.calls
      /\ client = "gemini" => out'.usage = UsageKept(out.usage, piece.usage)
  <2>1. /\ out \in Answer /\ UsageKept(out.usage, piece.usage) \in Nat
        /\ piece.stop \in Stops
    BY <1>2, <1>6 DEF TypeInv, Answer, UsageKept
  <2> HIDE DEF UsageKept
  <2> QED BY <1>1, <2>1 DEF Answer
<1>8. TypeInv'
  BY <1>1, <1>2, <1>5, <1>7 DEF TypeInv
<1>9. StreamInv'
  <2>1. ReadingInv'
    BY <1>1, <1>4, <1>5 DEF ReadingInv
  <2>2. ToldInv'
    BY <1>1 DEF ToldInv
  <2>3. GeminiInv'
    BY <1>1, <1>4, <1>6, <1>7 DEF GeminiInv
  <2> QED BY <1>1, <2>1, <2>2, <2>3 DEF StreamInv
<1>10. PlainInv'
  BY <1>1, <1>3 DEF PlainInv
<1>11. CarryInv'
  BY <1>1, <1>2, SameConversation
<1>12. SentInv'
  BY <1>1, <1>2, SameSent
<1> QED BY <1>5, <1>8, <1>9, <1>10, <1>11, <1>12 DEF IInv

(* The events at the end of openai's and anthropic's streams.              *)
LEMMA FinalEventsTell ==
  ASSUME NEW response \in Answer, NEW es \in Seq(Event)
  PROVE  /\ FinalEvents(response) \in Seq(Event)
         /\ TextTold(es \o FinalEvents(response)) = TextTold(es)
         /\ CallsTold(es \o FinalEvents(response))
              = CallsTold(es) \o response.calls
         /\ UsageTold(es \o FinalEvents(response))
              = UsageTold(es) \o <<response.usage>>
         /\ Last(es \o FinalEvents(response)) = UsageEvent(response.usage)
<1> DEFINE a == CallEvents(response.calls)
           e == UsageEvent(response.usage)
           o == <<e>>
<1>1. response.calls \in Seq(ToolCall) /\ response.usage \in Nat
  BY DEF Answer
<1>2. /\ a \in Seq(Event) /\ TextTold(a) = <<>>
      /\ CallsTold(a) = response.calls /\ UsageTold(a) = <<>>
  BY <1>1, CallEventsTell
<1>3. /\ e \in Event /\ TextTold(o) = <<>> /\ CallsTold(o) = <<>>
      /\ UsageTold(o) = <<response.usage>>
  BY <1>1, UsageEventTells
<1>4. FinalEvents(response) = a \o o
  BY DEF FinalEvents
<1>5. o \in Seq(Event) /\ o = <<e>>
  BY <1>3
<1> HIDE DEF a, e, o
<1>6. a \o o \in Seq(Event)
  BY <1>2, <1>5, ConcatProperties
<1>7. es \o (a \o o) = (es \o a) \o o /\ es \o a \in Seq(Event)
  BY <1>2, <1>5, ConcatAssociative, ConcatProperties
<1>8. /\ TextTold((es \o a) \o o) = (TextTold(es) \o TextTold(a)) \o TextTold(o)
      /\ CallsTold((es \o a) \o o)
           = (CallsTold(es) \o CallsTold(a)) \o CallsTold(o)
      /\ UsageTold((es \o a) \o o)
           = (UsageTold(es) \o UsageTold(a)) \o UsageTold(o)
  <2>1. /\ TextTold(es \o a) = TextTold(es) \o TextTold(a)
        /\ CallsTold(es \o a) = CallsTold(es) \o CallsTold(a)
        /\ UsageTold(es \o a) = UsageTold(es) \o UsageTold(a)
    BY <1>2, ToldConcat
  <2>2. /\ TextTold((es \o a) \o o) = TextTold(es \o a) \o TextTold(o)
        /\ CallsTold((es \o a) \o o) = CallsTold(es \o a) \o CallsTold(o)
        /\ UsageTold((es \o a) \o o) = UsageTold(es \o a) \o UsageTold(o)
    BY <1>5, <1>7, ToldConcat
  <2> QED BY <2>1, <2>2
<1>9. /\ TextTold(es) \in Seq(Nat) /\ UsageTold(es) \in Seq(Nat)
      /\ CallsTold(es) \in Seq(ToolCall)
  BY ToldConcat
<1>10. /\ (TextTold(es) \o <<>>) \o <<>> = TextTold(es)
       /\ UsageTold(es) \o <<>> = UsageTold(es)
       /\ (CallsTold(es) \o response.calls) \o <<>>
            = CallsTold(es) \o response.calls
  <2>1. CallsTold(es) \o response.calls \in Seq(ToolCall)
    BY <1>1, <1>9, ConcatProperties
  <2> QED BY <1>9, <2>1, ConcatEmptySeq
<1>11. Last((es \o a) \o o) = e
  BY <1>3, <1>5, <1>7, LastOfConcat
<1> QED BY <1>2, <1>3, <1>4, <1>6, <1>7, <1>8, <1>10, <1>11 DEF e

(* A stream that has ended: its last events tell the rest.                 *)
LEMMA StreamedKeeps ==
  ASSUME IInv, pc = "reading", request.stream, pc' = "flushing",
         client' = client, request' = request, messages' = messages,
         turn' = turn, sent' = sent, received' = received, events' = events,
         out' \in Answer, pending' \in Seq(Event),
         client = "gemini" => out' = out,
         ToldInv'
  PROVE  IInv'
<1>1. /\ TypeInv /\ StreamInv /\ PlainInv /\ PrefixInv /\ CutInv /\ CarryInv
      /\ SentInv
  BY DEF IInv
<1>2. /\ Generated' = Generated /\ Received' = Received /\ PrefixInv' /\ CutInv'
  BY <1>1, SameAnswer
<1>3. TypeInv'
  BY <1>1, <1>2 DEF TypeInv
<1>4. StreamInv'
  <2>1. ReadingInv'
    BY DEF ReadingInv
  <2>2. GeminiInv'
    BY <1>1 DEF GeminiInv, StreamInv
  <2> QED BY <2>1, <2>2 DEF StreamInv
<1>5. PlainInv'
  BY <1>1, ClientIs DEF PlainInv
<1>6. CarryInv'
  BY <1>1, SameConversation
<1>7. SentInv'
  BY <1>1, SameSent
<1> QED BY <1>2, <1>3, <1>4, <1>5, <1>6, <1>7 DEF IInv

(* Before the end, the events have told what came with the chunks.         *)
LEMMA ReadingTells ==
  ASSUME IInv, pc = "reading", request.stream
  PROVE  /\ events \in Seq(Event)
         /\ TextTold(events) = Generated.text
         /\ CallsTold(events)
              = IF client = "gemini" THEN Generated.calls ELSE <<>>
         /\ UsageTold(events) = <<>>
<1>1. events \in Seq(Event) /\ pending = <<>> /\ ReadingInv
  BY DEF IInv, TypeInv, StreamInv
<1>2. events \o pending = events
  BY <1>1, ConcatEmptySeq
<1> QED BY <1>1, <1>2 DEF ReadingInv

LEMMA WholeStreamedKeeps ==
  ASSUME IInv, OpenAIStreamed \/ AnthropicStreamed
  PROVE  IInv'
<1>1. /\ pc = "reading" /\ request.stream /\ pc' = "flushing"
      /\ client \in {"openai", "anthropic"}
      /\ client' = client /\ request' = request /\ messages' = messages
      /\ turn' = turn /\ sent' = sent /\ received' = received
      /\ events' = events /\ out' = Generated
      /\ pending' = FinalEvents(Generated)
  BY DEF OpenAIStreamed, AnthropicStreamed, Streamed, fixedVars
<1>2. Generated \in Answer /\ Generated' = Generated
  BY <1>1, GeneratedIs, SameTurn DEF IInv
<1>3. /\ events \in Seq(Event) /\ TextTold(events) = Generated.text
      /\ CallsTold(events) = <<>> /\ UsageTold(events) = <<>>
  BY <1>1, ReadingTells
<1>4. /\ pending' \in Seq(Event)
      /\ TextTold(events \o pending') = Generated.text
      /\ CallsTold(events \o pending') = <<>> \o Generated.calls
      /\ UsageTold(events \o pending') = <<>> \o <<Generated.usage>>
      /\ Last(events \o pending') = UsageEvent(Generated.usage)
  BY <1>1, <1>2, <1>3, FinalEventsTell
<1>5. /\ <<>> \o Generated.calls = Generated.calls
      /\ <<>> \o <<Generated.usage>> = <<Generated.usage>>
  <2>1. Generated.calls \in Seq(ToolCall) /\ <<Generated.usage>> \in Seq(Nat)
    BY <1>2 DEF Answer
  <2> QED BY <2>1, ConcatEmptySeq
<1>6. ToldInv'
  BY <1>1, <1>2, <1>4, <1>5 DEF ToldInv
<1> QED BY <1>1, <1>2, <1>4, <1>6, StreamedKeeps

LEMMA GeminiStreamedKeeps ==
  ASSUME IInv, GeminiStreamed
  PROVE  IInv'
<1> DEFINE o == <<UsageEvent(out.usage)>>
<1>1. /\ pc = "reading" /\ request.stream /\ pc' = "flushing"
      /\ client = "gemini"
      /\ client' = client /\ request' = request /\ messages' = messages
      /\ turn' = turn /\ sent' = sent /\ received' = received
      /\ events' = events /\ out' = out
      /\ pending' = o
  BY DEF GeminiStreamed, Streamed, fixedVars
<1>2. /\ Generated' = Generated /\ Generated \in Answer
      /\ out.usage = Generated.usage
  <2>1. Generated' = Generated
    BY <1>1, SameTurn
  <2>2. Generated \in Answer /\ Generated.usage = Usage(received)
    BY GeneratedIs DEF IInv
  <2>3. out.usage = Usage(received)
    BY <1>1 DEF IInv, StreamInv, GeminiInv
  <2> QED BY <2>1, <2>2, <2>3
<1>3. out \in Answer /\ out.usage \in Nat
  BY DEF IInv, TypeInv, Answer
<1>4. /\ events \in Seq(Event) /\ TextTold(events) = Generated.text
      /\ CallsTold(events) = Generated.calls /\ UsageTold(events) = <<>>
  BY <1>1, ReadingTells
<1>5. /\ UsageEvent(out.usage) \in Event /\ o \in Seq(Event)
      /\ TextTold(o) = <<>> /\ CallsTold(o) = <<>>
      /\ UsageTold(o) = <<out.usage>>
  BY <1>3, UsageEventTells
<1>6. Last(events \o o) = UsageEvent(out.usage)
  BY <1>4, <1>5, LastOfConcat
<1> HIDE DEF o
<1>7. /\ TextTold(events \o o) = Generated.text \o <<>>
      /\ CallsTold(events \o o) = Generated.calls \o <<>>
      /\ UsageTold(events \o o) = <<>> \o <<out.usage>>
  BY <1>4, <1>5, ToldConcat
<1>8. /\ Generated.text \o <<>> = Generated.text
      /\ Generated.calls \o <<>> = Generated.calls
      /\ <<>> \o <<out.usage>> = <<out.usage>>
  <2>1. /\ Generated.text \in Seq(Nat) /\ Generated.calls \in Seq(ToolCall)
        /\ <<out.usage>> \in Seq(Nat)
    BY <1>2, <1>3 DEF Answer
  <2> QED BY <2>1, ConcatEmptySeq
<1>9. ToldInv'
  BY <1>1, <1>2, <1>6, <1>7, <1>8 DEF ToldInv
<1> QED BY <1>1, <1>3, <1>5, <1>9, StreamedKeeps

LEMMA ReturnKeeps ==
  ASSUME IInv, Return
  PROVE  IInv'
<1>1. /\ pc = "flushing" /\ pending = <<>> /\ pc' = "returned"
      /\ client' = client /\ request' = request /\ messages' = messages
      /\ turn' = turn /\ sent' = sent /\ received' = received
      /\ pending' = pending /\ events' = events /\ out' = out
  BY DEF Return, fixedVars, answerVars
<1>2. /\ TypeInv /\ StreamInv /\ PlainInv /\ PrefixInv /\ CutInv /\ CarryInv
      /\ SentInv
  BY DEF IInv
<1>3. request.stream /\ request.stream \in BOOLEAN
  BY <1>1, <1>2, ClientIs DEF PlainInv
<1>4. /\ Generated' = Generated /\ Received' = Received /\ PrefixInv' /\ CutInv'
  BY <1>1, <1>2, SameAnswer
<1>5. TypeInv'
  BY <1>1, <1>2, <1>4 DEF TypeInv
<1>6. StreamInv'
  <2>1. ToldInv /\ GeminiInv
    BY <1>2, <1>3 DEF StreamInv
  <2>2. ReadingInv'
    BY <1>1 DEF ReadingInv
  <2>3. ToldInv'
    BY <1>1, <1>4, <2>1 DEF ToldInv
  <2>4. GeminiInv'
    BY <1>1, <2>1 DEF GeminiInv
  <2> QED BY <1>1, <2>2, <2>3, <2>4 DEF StreamInv
<1>7. PlainInv'
  BY <1>1, <1>3 DEF PlainInv
<1>8. CarryInv'
  BY <1>1, <1>2, SameConversation
<1>9. SentInv'
  BY <1>1, <1>2, SameSent
<1> QED BY <1>4, <1>5, <1>6, <1>7, <1>8, <1>9 DEF IInv

LEMMA GenerateReturnsKeeps ==
  ASSUME IInv, GenerateReturns
  PROVE  IInv'
<1>1. /\ pc = "reading" /\ ~request.stream /\ pc' = "returned"
      /\ client' = client /\ request' = request /\ messages' = messages
      /\ turn' = turn /\ sent' = sent /\ received' = received
      /\ pending' = pending /\ events' = events /\ out' = Generated
  BY DEF GenerateReturns, fixedVars
<1>2. /\ TypeInv /\ StreamInv /\ PlainInv /\ PrefixInv /\ CutInv /\ CarryInv
      /\ SentInv
  BY DEF IInv
<1>3. /\ Generated' = Generated /\ Received' = Received /\ PrefixInv' /\ CutInv'
  BY <1>1, <1>2, SameAnswer
<1>4. TypeInv'
  <2>1. Generated \in Answer
    BY <1>2, GeneratedIs
  <2> QED BY <1>1, <1>2, <1>3, <2>1 DEF TypeInv
<1>5. StreamInv'
  BY <1>1 DEF StreamInv
<1>6. PlainInv'
  BY <1>1, <1>2, <1>3 DEF PlainInv
<1>7. CarryInv'
  BY <1>1, <1>2, SameConversation
<1>8. SentInv'
  BY <1>1, <1>2, SameSent
<1> QED BY <1>3, <1>4, <1>5, <1>6, <1>7, <1>8 DEF IInv

(* What is returned is the whole answer, told to a stream's handler, but   *)
(* gemini's stop reason is its own.                                        *)
LEMMA Returned ==
  ASSUME IInv, pc = "returned"
  PROVE  /\ out.text = Generated.text /\ out.calls = Generated.calls
         /\ out.usage = Generated.usage
         /\ client # "gemini" => out = Generated
         /\ request.stream =>
              /\ TextTold(events) = out.text
              /\ CallsTold(events) = out.calls
              /\ UsageTold(events) = <<out.usage>>
              /\ Last(events) = UsageEvent(out.usage)
<1>1. CASE ~request.stream
  BY <1>1 DEF IInv, PlainInv
<1>2. CASE request.stream
  <2>1. pending = <<>> /\ ToldInv /\ GeminiInv /\ events \in Seq(Event)
    BY <1>2 DEF IInv, StreamInv, TypeInv
  <2>2. events \o pending = events
    BY <2>1, ConcatEmptySeq
  <2>3. /\ TextTold(events) = Generated.text
        /\ CallsTold(events) = Generated.calls
        /\ UsageTold(events) = <<out.usage>>
        /\ Last(events) = UsageEvent(out.usage)
        /\ out.usage = Generated.usage
        /\ client # "gemini" => out = Generated
    BY <2>1, <2>2 DEF ToldInv
  <2>4. client = "gemini" =>
          out.text = TextTold(events) /\ out.calls = CallsTold(events)
    BY <2>1 DEF GeminiInv
  <2> QED BY <2>3, <2>4
<1> QED BY <1>1, <1>2

LEMMA ErrorsNone ==
  ASSUME NEW role, NEW input, NEW schema
  PROVE  Errors(role, input, schema) = {} <=> ~role /\ ~input /\ ~schema
<1>1. /\ "role" \in Errors(role, input, schema) <=> role
      /\ "input" \in Errors(role, input, schema) <=> input
      /\ "schema" \in Errors(role, input, schema) <=> schema
  BY DEF Errors
<1>2. Errors(role, input, schema) \subseteq {"role", "input", "schema"}
  BY DEF Errors
<1> QED BY <1>1, <1>2

(* The inputs of the calls that are carried on can be parsed, unless the   *)
(* answer was cut off and says so.                                         *)
LEMMA CarriedInputs ==
  ASSUME IInv, pc = "returned", NEW k \in DOMAIN out.calls
  PROVE  /\ client = "gemini" => Parses(out.calls[k].input, "map")
         /\ client = "anthropic" =>
              \/ Parses(out.calls[k].input, "any")
              \/ out.stop \notin {"end_turn", "tool_use"}
<1>1. TypeInv /\ CutInv /\ out.calls = Generated.calls
  BY Returned DEF IInv
<1>2. /\ Generated.calls = CallsIn(Parts(received), 0)
      /\ Generated.calls
           \in Seq([id : ID, input : {Input(x) : x \in GeminiArgs}])
      /\ Parts(received) \in Seq(PartsOf(GeminiArgs))
  BY <1>1, GeneratedIs
<1>3. ASSUME NEW A,
             Generated.calls \in Seq([id : ID, input : {Input(x) : x \in A}])
      PROVE  \E x \in A : out.calls[k].input = Input(x)
  <2> DEFINE B == {Input(x) : x \in A}
             C == [id : ID, input : B]
  <2>1. out.calls \in Seq(C) /\ k \in 1..Len(out.calls)
    BY <1>1, <1>3, LenProperties
  <2> HIDE DEF C
  <2>2. out.calls[k] \in C
    BY <2>1, ElementOfSeq
  <2>3. out.calls[k].input \in B
    BY <2>2 DEF C
  <2> QED BY <2>3
<1>4. CASE client = "gemini"
  <2>1. GeminiArgs = {"object", "none"}
    BY <1>4 DEF GeminiArgs
  <2>2. PICK x \in GeminiArgs : out.calls[k].input = Input(x)
    BY <1>2, <1>3
  <2> QED BY <1>4, <2>1, <2>2 DEF Input, Parses
<1>5. CASE client = "anthropic" /\ ~Cut(Parts(received))
  <2> DEFINE A == Args \ {"broken"}
             p == Parts(received)
  <2>1. GeminiArgs = Args /\ Seq(PartsOf(GeminiArgs)) \subseteq Seq(Part)
    BY <1>1, <1>5, ClientIs DEF GeminiArgs
  <2>2. p \in Seq(Part)
    BY <1>2, <2>1
  <2>3. \A i \in DOMAIN p : p[i].args \in A
    <3>1. \A i \in DOMAIN p : p[i] \in Part
      BY <2>2, LenProperties, ElementOfSeq
    <3>2. \A i \in DOMAIN p : p[i].args # "broken"
      BY <1>5 DEF Cut
    <3> QED BY <3>1, <3>2 DEF Part, Args
  <2> HIDE DEF A, p
  <2>4. p \in Seq(PartsOf(A))
    BY <2>2, <2>3, PartsAreOf
  <2>5. A \in SUBSET Args /\ turn \in Nat /\ 0 \in Nat
    BY <1>1 DEF A, TypeInv
  <2>6. CallsIn(p, 0) \in Seq([id : ID, input : {Input(x) : x \in A}])
    BY <2>4, <2>5, CallsInConcat
  <2>7. PICK x \in A : out.calls[k].input = Input(x)
    BY <1>2, <1>3, <2>6 DEF p
  <2>8. Input(x) # "broken"
    BY DEF Input, A
  <2> QED BY <1>5, <2>7, <2>8 DEF Parses
<1>6. CASE client = "anthropic" /\ Cut(Parts(received))
  <2>1. Finish(received) \in {"none", "length"}
    BY <1>1, <1>6 DEF CutInv
  <2>2. Whole(received).finish = Finish(received)
    BY DEF Whole
  <2>3. Generated.stop = AnthropicStop(Whole(received))
    BY <1>1, <1>6, GeneratedIs
  <2>4. out.stop = Generated.stop
    BY <1>6, Returned
  <2>5. AnthropicStop(Whole(received)) \in {"", "max_tokens"}
    BY <2>1, <2>2 DEF AnthropicStop
  <2> QED BY <1>6, <2>3, <2>4, <2>5
<1>7. CASE client \notin {"gemini", "anthropic"}
  BY <1>7
<1> QED BY <1>4, <1>5, <1>6, <1>7

(* A message that is carried on is one of the conversation so far, or has  *)
(* a role of its own and the answer's calls or none.                       *)
LEMMA CarriedOn ==
  ASSUME NEW ns, NEW ms \in Seq(Message), NEW calls \in Seq(ToolCall),
         CarriesOn(ns, ms, calls), NEW i \in DOMAIN ns
  PROVE  \/ i \in DOMAIN ms /\ ns[i] = ms[i]
         \/ ns[i].role \in Role /\ (ns[i].calls = calls \/ ns[i].calls = <<>>)
<1> DEFINE m == Len(ms)
           n == Len(calls)
<1>1. /\ ns \in Seq(Message) /\ Len(ns) = m + 1 + n
      /\ \A j \in 1..m : ns[j] = ms[j]
      /\ ns[m + 1].role = "assistant" /\ ns[m + 1].calls = calls
      /\ \A k \in 1..n : /\ ns[m + 1 + k].role = "tool"
                         /\ ns[m + 1 + k].calls = <<>>
  BY DEF CarriesOn
<1>2. m \in Nat /\ n \in Nat /\ DOMAIN ms = 1..m /\ DOMAIN ns = 1..(m + 1 + n)
  BY <1>1, LenProperties
<1> HIDE DEF m, n
<1>3. CASE i \in 1..m
  BY <1>1, <1>2, <1>3
<1>4. CASE i = m + 1
  BY <1>1, <1>4 DEF Role
<1>5. CASE i \notin 1..(m + 1)
  <2>1. i - (m + 1) \in 1..n /\ m + 1 + (i - (m + 1)) = i
    BY <1>2, <1>5
  <2> QED BY <1>1, <2>1 DEF Role
<1>6. i \in 1..m \/ i = m + 1 \/ i \notin 1..(m + 1)
  BY <1>2
<1> QED BY <1>3, <1>4, <1>5, <1>6

LEMMA NextTurnKeeps ==
  ASSUME IInv, NextTurn
  PROVE  IInv'
<1>1. /\ pc = "returned" /\ pc' = "ask"
      /\ messages' = Carried(messages, out.calls)
      /\ client' = client /\ request' = request
      /\ turn' = turn /\ sent' = sent /\ received' = received
      /\ pending' = pending /\ events' = events /\ out' = out
  BY DEF NextTurn, Carried, fixedVars, answerVars
<1>2. /\ TypeInv /\ StreamInv /\ PlainInv /\ PrefixInv /\ CutInv /\ CarryInv
      /\ SentInv
  BY DEF IInv
<1>3. /\ messages \in Seq(Message) /\ out.calls \in Seq(ToolCall)
      /\ Answered(messages) /\ Refusals = {}
  BY <1>1, <1>2 DEF TypeInv, Answer, CarryInv
<1>4. /\ Answered(messages')
      /\ CarriesOn(messages', messages, out.calls)
  BY <1>1, <1>3, CarriedMessages, CarriedAnswered
<1>5. /\ messages' \in Seq(Message)
      /\ OfRole(messages', {"system"}) = OfRole(messages, {"system"})
  BY <1>4 DEF CarriesOn
<1>6. /\ Generated' = Generated /\ Received' = Received /\ PrefixInv' /\ CutInv'
  BY <1>1, <1>2, SameAnswer
<1>7. TypeInv'
  BY <1>1, <1>2, <1>5, <1>6 DEF TypeInv
<1>8. StreamInv'
  BY <1>1 DEF StreamInv, ReadingInv, ToldInv, GeminiInv
<1>9. PlainInv'
  BY <1>1, <1>2 DEF PlainInv
<1>10. CarryInv'
  <2>1. ASSUME NEW i \in DOMAIN messages'
        PROVE  \/ i \in DOMAIN messages /\ messages'[i] = messages[i]
               \/ /\ messages'[i].role \in Role
                  /\ messages'[i].calls \in {out.calls, <<>>}
    BY <1>3, <1>4, CarriedOn
  <2>2. BadRole' => BadRole
    BY <2>1 DEF BadRole
  <2>3. /\ BadSchema("map")' = BadSchema("map")
        /\ BadSchema("any")' = BadSchema("any")
    BY <1>1 DEF BadSchema
  <2>4. ASSUME NEW i \in DOMAIN messages',
               NEW k \in DOMAIN messages'[i].calls
        PROVE  \/ /\ i \in DOMAIN messages /\ k \in DOMAIN messages[i].calls
                  /\ messages'[i].calls[k] = messages[i].calls[k]
               \/ /\ k \in DOMAIN out.calls
                  /\ messages'[i].calls[k] = out.calls[k]
    <3>1. DOMAIN <<>> = {}
      OBVIOUS
    <3> QED BY <2>1, <3>1
  <2>5. CASE client = "openai"
    <3>1. ~BadRole /\ ~BadSchema("map")
      BY <1>3, <2>5, ErrorsNone DEF Refusals, OpenAIRefusals
    <3>2. Refusals' = Errors(BadRole', FALSE, BadSchema("map")')
      BY <1>1, <2>5 DEF Refusals, OpenAIRefusals
    <3>3. Refusals' = {}
      BY <2>2, <2>3, <3>1, <3>2, ErrorsNone
    <3> QED BY <1>1, <1>4, <3>3 DEF CarryInv
  <2>6. CASE client = "anthropic"
    <3>1. ~BadRole /\ ~BadInput("any") /\ ~BadSchema("map")
      BY <1>3, <2>6, ErrorsNone DEF Refusals, AnthropicRefusals
    <3>2. Refusals' = Errors(BadRole', BadInput("any")', BadSchema("map")')
      BY <1>1, <2>6 DEF Refusals, AnthropicRefusals
    <3>3. BadInput("any")' => out.stop \notin {"end_turn", "tool_use"}
      <4> SUFFICES ASSUME BadInput("any")'
                   PROVE  out.stop \notin {"end_turn", "tool_use"}
        OBVIOUS
      <4>0. PICK i \in DOMAIN messages' :
              \E k \in DOMAIN messages'[i].calls :
                ~Parses(messages'[i].calls[k].input, "any")
        BY DEF BadInput
      <4>1. PICK k \in DOMAIN messages'[i].calls :
              ~Parses(messages'[i].calls[k].input, "any")
        BY <4>0
      <4>2. CASE /\ i \in DOMAIN messages /\ k \in DOMAIN messages[i].calls
                 /\ messages'[i].calls[k] = messages[i].calls[k]
        BY <3>1, <4>1, <4>2 DEF BadInput
      <4>3. CASE /\ k \in DOMAIN out.calls
                 /\ messages'[i].calls[k] = out.calls[k]
        BY <1>1, <2>6, <4>1, <4>3, CarriedInputs
      <4> QED BY <2>4, <4>1, <4>2, <4>3
    <3>4. Refusals' = {} \/ out.stop \notin {"end_turn", "tool_use"}
      BY <2>2, <2>3, <3>1, <3>2, <3>3, ErrorsNone
    <3> QED BY <1>1, <1>4, <2>6, <3>4 DEF CarryInv
  <2>7. CASE client = "gemini"
    <3>1. ~BadRole /\ ~BadInput("map") /\ ~BadSchema("any")
      BY <1>3, <2>7, ErrorsNone DEF Refusals, GeminiRefusals
    <3>2. Refusals' = Errors(BadRole', BadInput("map")', BadSchema("any")')
      BY <1>1, <2>7 DEF Refusals, GeminiRefusals
    <3>3. ~BadInput("map")'
      <4> SUFFICES ASSUME BadInput("map")' PROVE FALSE
        OBVIOUS
      <4>0. PICK i \in DOMAIN messages' :
              \E k \in DOMAIN messages'[i].calls :
                ~Parses(messages'[i].calls[k].input, "map")
        BY DEF BadInput
      <4>1. PICK k \in DOMAIN messages'[i].calls :
              ~Parses(messages'[i].calls[k].input, "map")
        BY <4>0
      <4>2. CASE /\ i \in DOMAIN messages /\ k \in DOMAIN messages[i].calls
                 /\ messages'[i].calls[k] = messages[i].calls[k]
        BY <3>1, <4>1, <4>2 DEF BadInput
      <4>3. CASE /\ k \in DOMAIN out.calls
                 /\ messages'[i].calls[k] = out.calls[k]
        BY <1>1, <2>7, <4>1, <4>3, CarriedInputs
      <4> QED BY <2>4, <4>1, <4>2, <4>3
    <3>4. Refusals' = {}
      BY <2>2, <2>3, <3>1, <3>2, <3>3, ErrorsNone
    <3> QED BY <1>1, <1>4, <3>4 DEF CarryInv
  <2> QED BY <1>2, <2>5, <2>6, <2>7, ClientIs
<1>11. SentInv'
  BY <1>1, <1>2, <1>5 DEF SentInv
<1> QED BY <1>6, <1>7, <1>8, <1>9, <1>10, <1>11 DEF IInv

LEMMA StutterKeeps ==
  ASSUME IInv, UNCHANGED vars
  PROVE  IInv'
<1>1. /\ client' = client /\ request' = request /\ messages' = messages
      /\ turn' = turn /\ pc' = pc /\ sent' = sent /\ received' = received
      /\ pending' = pending /\ events' = events /\ out' = out
  BY DEF vars, fixedVars, answerVars
<1>2. /\ Generated' = Generated /\ Received' = Received /\ PrefixInv' /\ CutInv'
  BY <1>1, SameAnswer DEF IInv
<1>3. TypeInv'
  BY <1>1, <1>2 DEF IInv, TypeInv
<1>4. StreamInv'
  BY <1>1, <1>2 DEF IInv, StreamInv, ReadingInv, ToldInv, GeminiInv
<1>5. PlainInv'
  BY <1>1, <1>2 DEF IInv, PlainInv
<1>6. CarryInv'
  BY <1>1, SameRefusals DEF IInv, CarryInv
<1>7. SentInv'
  BY <1>1, SameSent DEF IInv
<1> QED BY <1>2, <1>3, <1>4, <1>5, <1>6, <1>7 DEF IInv

(* The invariant holds of every client, conversation and answer.           *)
LEMMA Invariance == Spec => []IInv
<1>1. ASSUME IInv, Next PROVE IInv'
  BY <1>1, AskKeeps, RefuseKeeps, ArriveKeeps, BreakOffKeeps, EmitKeeps,
     NextChunkKeeps, WholeStreamedKeeps, GeminiStreamedKeeps, ReturnKeeps,
     GenerateReturnsKeeps, NextTurnKeeps, StutterKeeps DEF Next, Stopped
<1>2. IInv /\ [Next]_vars => IInv'
  BY <1>1, StutterKeeps
<1> QED BY InitInv, <1>2, PTL DEF Spec

-----------------------------------------------------------------------------
(* The theorems.                                                           *)

(* Whatever a service sends, in however many chunks, and wherever the      *)
(* handler stops it: the handler is told the answer's text and calls, each *)
(* once and in order, no more than came so far, and when Stream returns    *)
(* all of it, the usage last.                                              *)
THEOREM HandlerIsToldAll == Spec => []EventsTellAll
<1>1. IInv => EventsTellAll
  <2> SUFFICES ASSUME IInv PROVE EventsTellAll
    OBVIOUS
  <2>1. PrefixInv
    BY DEF IInv
  <2> QED BY <2>1, Returned DEF PrefixInv, EventsTellAll
<1> QED BY <1>1, Invariance, PTL

(* Of any answer, cut into chunks in any way, Stream returns the text, the *)
(* calls and the usage that Generate returns, and but for gemini the stop  *)
(* reason too.                                                             *)
THEOREM StreamIsGenerate == Spec => []AsGenerated
<1>1. IInv => AsGenerated
  <2> SUFFICES ASSUME IInv PROVE AsGenerated
    OBVIOUS
  <2> QED BY Returned DEF AsGenerated
<1> QED BY <1>1, Invariance, PTL

(* A conversation that a provider took, of any length and over any number  *)
(* of turns, is not refused for what its own answer added to it, unless an *)
(* anthropic answer said it was cut off; and every request holds each call *)
(* with its result after it, every system message and the caller's limit.  *)
THEOREM ConversationGoesOn == Spec => []TurnsCarryOver
<1>1. IInv => TurnsCarryOver
  <2> SUFFICES ASSUME IInv PROVE TurnsCarryOver
    OBVIOUS
  <2>1. CarryInv /\ SentInv
    BY DEF IInv
  <2>2. pc = "refused" /\ turn > 0 =>
          client = "anthropic" /\ out.stop \notin {"end_turn", "tool_use"}
    BY <2>1 DEF CarryInv
  <2> QED BY <2>1, <2>2 DEF SentInv, TurnsCarryOver
<1> QED BY <1>1, Invariance, PTL
=============================================================================
