---------------------------- MODULE StreamsProofs ----------------------------
(***************************************************************************)
(* Theorems about Streams, for every number of lines, blocks and deltas: a *)
(* reply on every API surface, line after line, from a backend or from a   *)
(* provider whose events are translated first.                             *)
(***************************************************************************)
EXTENDS ConverterProofs, SequenceTheorems

\* The reply carried r, and the converter of the provider is a.
Follows(a, r) ==
  /\ Relayed(Reply', FromBackend) /\ sent' = r /\ conv'.anthropic = Clear(a)
  /\ ~FromBackend => conv'.messages = conv.messages /\ seen'.messages = seen.messages

IsSource == up.source \in {"backend", "provider"}

LEMMA FeedsNothing ==
  ASSUME NEW a, Feed(<<>>, a), IsSource, Relayed(Reply, FromBackend)
  PROVE  /\ Follows(a, sent)
         /\ Ongoing(Reply, FromBackend) => Ongoing(Reply', FromBackend)
<1>1. Relays!Through(Reply, <<>>) = Reply
  BY Relays!ThroughNone, Zenon
<1>2. Reply.sent = sent
  BY DEF Reply
<1> QED
  BY <1>1, <1>2, Fed, Zenon DEF Follows, IsSource

LEMMA FeedsOne ==
  ASSUME NEW a, NEW l, Feed(<<l>>, a), IsSource, Relayed(Reply, FromBackend), IsLine(sent, l),
         l.type \in {"chunk", "error"} => Ongoing(Reply, FromBackend)
  PROVE  /\ Follows(a, Carried(sent, l))
         /\ l.type = "chunk" /\ l.finish = "none" => Ongoing(Reply', FromBackend)
         /\ l.type = "eof" => AtRest(Reply', FromBackend)
<1>1. Relays!Through(Reply, <<l>>) = Relay(Reply, l)
  BY Relays!ThroughOne, Zenon
<1>2. Reply.sent = sent /\ FromBackend \in BOOLEAN
  BY DEF Reply, FromBackend
<1>3. /\ Relayed(Relay(Reply, l), FromBackend)
      /\ Relay(Reply, l).sent = Carried(Reply.sent, l)
      /\ l.type = "chunk" /\ l.finish = "none" => Ongoing(Relay(Reply, l), FromBackend)
      /\ l.type = "eof" => AtRest(Relay(Reply, l), FromBackend)
  <2> DEFINE x == Reply
             b == FromBackend
  <2>1. Relayed(x, b) /\ b \in BOOLEAN /\ IsLine(x.sent, l)
        /\ (l.type \in {"chunk", "error"} => Ongoing(x, b))
    BY <1>2, Zenon
  <2> HIDE DEF x, b
  <2>2. /\ Relayed(Relay(x, l), b)
        /\ Relay(x, l).sent = Carried(x.sent, l)
        /\ l.type = "chunk" /\ l.finish = "none" => Ongoing(Relay(x, l), b)
        /\ l.type = "eof" => AtRest(Relay(x, l), b)
    BY <2>1, RelayKeeps, Zenon
  <2> QED
    BY <2>2, Zenon DEF x, b
<1> QED
  BY <1>1, <1>2, <1>3, Fed, Zenon DEF Follows, IsSource

\* The end of a provider's reply without message_stop.
LEMMA FeedsTwo ==
  ASSUME NEW a, NEW l, NEW m, Feed(<<l, m>>, a), IsSource, Relayed(Reply, FromBackend),
         l.type = "[DONE]", m.type = "eof"
  PROVE  Follows(a, sent) /\ AtRest(Reply', FromBackend)
<1> DEFINE x == Reply
           b == FromBackend
           y == Relay(x, l)
           z == Relay(y, m)
<1>1. Relays!Through(x, <<l, m>>) = z
  <2> HIDE DEF x
  <2> QED
    BY Relays!ThroughTwo
<1>2. x.sent = sent /\ b \in BOOLEAN /\ Relayed(x, b)
  BY DEF Reply, FromBackend
<1>3. (\A r : IsLine(r, l) /\ Carried(r, l) = r) /\ (\A r : IsLine(r, m) /\ Carried(r, m) = r)
  BY DEF IsLine, Carried
<1>4. l.type \notin {"chunk", "error"} /\ m.type \notin {"chunk", "error"}
  OBVIOUS
<1> HIDE DEF x, b
<1>5. Relayed(y, b) /\ y.sent = Carried(x.sent, l)
  BY <1>2, <1>3, <1>4, RelayKeeps, Zenon
<1> HIDE DEF y
<1>6. Relayed(z, b) /\ z.sent = Carried(y.sent, m) /\ AtRest(z, b)
  BY <1>2, <1>3, <1>4, <1>5, RelayKeeps, Zenon
<1>7. z.sent = sent
  BY <1>2, <1>3, <1>5, <1>6, Zenon
<1> HIDE DEF z
<1> QED
  BY <1>1, <1>6, <1>7, Fed, Zenon DEF Follows, IsSource, x, b

(***************************************************************************)
(* The invariant                                                           *)
(***************************************************************************)

UpFields == {"source", "forced", "count", "kind", "deltas", "stage", "args", "called", "cut",
             "calls", "told"}

ToldKinds == {"text", "thinking", "tool", "json"}

UpTyped ==
  /\ DOMAIN up = UpFields
  /\ IsSource
  /\ up.stage \in IF FromBackend THEN {"open", "finished", "done", "ended"}
                  ELSE {"before", "between", "block", "stopped", "done", "ended"}
  /\ up.count \in Nat /\ up.called \in BOOLEAN
  /\ up.kind \in ToldKinds \cup {"none"}
  /\ up.args \in Seq(Pieces) /\ up.calls \in Seq(Seq(Pieces))
  /\ up.told \in [ToldKinds -> Nat]

AnthropicFields == {"indices", "json", "received", "done", "text", "think", "calls", "finish",
                    "error", "out"}

\* The converter of a provider has the calls of the reply, numbered as they
\* came.
Numbered(calls, q) ==
  /\ calls \in Seq(Seq(Pieces)) /\ Size(q) = Len(calls)
  /\ \A i \in 1 .. Len(calls) : calls[i] = q[i - 1].args

\* It knows the block that is open, and of no later one.
Knows(indices, json, received, u) ==
  LET open == u.stage = "block"
  IN /\ json \in SUBSET (0 .. u.count) /\ DOMAIN indices \in SUBSET (0 .. u.count)
     /\ u.count \in json <=> open /\ u.kind = "json"
     /\ u.count \in DOMAIN indices <=> open /\ u.kind = "tool"
     /\ open => u.kind # "none"
     /\ open /\ u.kind = "tool" => indices[u.count] = Len(u.calls)
     /\ open /\ u.kind = "json" => u.called /\ received = (u.args # <<>>)
     /\ ~u.called => received = FALSE

\* Its calls are those that have been told, and the one that is being told.
HasCalls(calls, u) ==
  /\ \A i \in 1 .. Len(u.calls) :
       calls[i] = IF u.calls[i] = <<>> THEN <<"whole">> ELSE u.calls[i]
  /\ Len(calls) >= Len(u.calls)
  /\ u.stage \in {"before", "between"} => Len(calls) = Len(u.calls)
  /\ u.stage = "block" =>
       IF u.kind = "tool" THEN Len(calls) = Len(u.calls) + 1 /\ calls[Len(calls)] = u.args
       ELSE Len(calls) = Len(u.calls)

Translates(a, u, r) ==
  /\ DOMAIN a = AnthropicFields /\ a = Clear(a)
  /\ a.text = r.text /\ a.think = r.think /\ a.finish = r.finish
  /\ a.text = u.told["text"] + u.told["json"] /\ a.think = u.told["thinking"]
  /\ a.done = (u.stage \in {"done", "ended"})
  /\ a.received \in BOOLEAN
  /\ Numbered(a.calls, r.calls)
  /\ HasCalls(a.calls, u)
  /\ u.stage \in {"before", "between", "block"} => Knows(a.indices, a.json, a.received, u)

FitInv ==
  /\ UpTyped
  /\ Relayed(Reply, FromBackend)
  /\ up.stage \in {"open", "before", "between", "block"} => Ongoing(Reply, FromBackend)
  /\ up.stage = "ended" => AtRest(Reply, FromBackend)
  /\ ~FromBackend =>
       /\ conv.messages = Messages!New /\ seen.messages = NewMessage
       /\ Translates(conv.anthropic, up, sent)

(***************************************************************************)
(* At first                                                                *)
(***************************************************************************)

LEMMA NothingHeld ==
  /\ Parts!Through(NoParts, <<>>) = NoParts /\ Items!Through(NoParts, <<>>) = NoParts
  /\ NoParts["text"] = 0 /\ NoParts["thinking"] = 0 /\ NoParts["refusal"] = 0
  /\ NoParts["summary"] = 0
<1>1. Parts!Through(NoParts, <<>>) = PartsFold!Through(NoParts, <<>>)
  BY Zenon DEF Parts!Through, PartsFold!Through
<1>2. Items!Through(NoParts, <<>>) = ItemsFold!Through(NoParts, <<>>)
  BY Zenon DEF Items!Through, ItemsFold!Through
<1>3. Parts!Through(NoParts, <<>>) = NoParts
  BY <1>1, PartsFold!ThroughNone, Zenon
<1>4. Items!Through(NoParts, <<>>) = NoParts
  BY <1>2, ItemsFold!ThroughNone, Zenon
<1> QED
  BY <1>3, <1>4, NoPartsTyped DEF NoParts

LEMMA NewIsReply == IsReply(NewReply)
<1>1. IsCalls(<<>>)
  BY NoCalls
<1>2. DOMAIN NewReply = {"text", "refusal", "think", "late", "calls", "finish", "error"}
  BY DEF NewReply
<1>3. /\ NewReply.text = 0 /\ NewReply.refusal = 0 /\ NewReply.think = 0
      /\ NewReply.late = FALSE /\ NewReply.error = FALSE /\ NewReply.finish = "none"
      /\ NewReply.calls = <<>>
  BY DEF NewReply
<1>4. 0 \in Nat /\ FALSE \in BOOLEAN /\ "none" \in Reasons \cup {"none"}
  OBVIOUS
<1> QED
  BY <1>1, <1>2, <1>3, <1>4, Zenon DEF IsReply

LEMMA NewMessagesFit == MessagesFit(NewReply, Messages!New, NewMessage)
<1> DEFINE s == Messages!New
           v == NewMessage
<1>1. /\ DOMAIN s = MessagesFields /\ s.started = FALSE /\ s.next = 0 /\ s.text = 0
      /\ s.open = [kind |-> "none", index |-> 0] /\ s.blocks = <<>> /\ s.tools = <<>>
      /\ s.finish = "none" /\ s.refused = FALSE /\ s.done = FALSE /\ s.error = FALSE
  BY DEF Messages!New, Messages!Closed, MessagesFields
<1>2. s = Clear(s)
  BY DEF Messages!New, Messages!Closed, Clear
<1>3. /\ DOMAIN v = {"blocks", "started", "end", "ok"} /\ v.blocks = <<>>
      /\ v.started = FALSE /\ v.end = "none" /\ v.ok = TRUE
  BY DEF NewMessage
<1>4. IsCalls(<<>>) /\ DOMAIN <<>> = {} /\ Len(<<>>) = 0 /\ 1 .. 0 = {}
  BY NoCalls
<1>5. NewReply.calls = <<>> /\ NewReply.text = 0 /\ NewReply.refusal = 0 /\ NewReply.think = 0
      /\ NewReply.finish = "none" /\ NewReply.error = FALSE
  BY DEF NewReply
<1> HIDE DEF s, v
<1>6. MessagesState(s)
  <2>1. /\ <<>> \in Seq([kind : {"text", "thinking", "tool"}, n : Nat])
        /\ s.open \in [kind : {"none", "text", "thinking"}, index : Nat]
        /\ s.open.kind = "none" /\ s.open.index = 0
    BY <1>1
  <2>2. 0 \in Nat /\ FALSE \in BOOLEAN /\ "none" \in Reasons \cup {"none"}
    OBVIOUS
  <2> QED
    BY <1>1, <1>4, <2>1, <2>2, Zenon DEF MessagesState
<1>7. IsMessage(v)
  BY <1>3 DEF IsMessage
<1>8. ToolsShown(s)
  BY <1>1, <1>4 DEF ToolsShown
<1>9. Running(s, v)
  <2>1. s.open.kind = "none" /\ Len(v.blocks) = s.next
        /\ Len(s.blocks) = (IF s.open.kind = "none" THEN s.next ELSE s.next - 1)
        /\ 1 .. Len(s.blocks) = {}
    BY <1>1, <1>3, <1>4
  <2>2. \A k \in 1 .. Len(s.blocks) : ShownOpen(s, v.blocks[k], k)
    BY <2>1
  <2>3. ~s.done /\ ~s.error /\ v.ok = TRUE /\ v.end = "none" /\ v.started = s.started
    BY <1>1, <1>3
  <2> QED
    BY <1>6, <1>7, <1>8, <2>1, <2>2, <2>3, Zenon DEF Running
<1>10. Held(s, "text") = 0 /\ Held(s, "thinking") = 0
  BY <1>1, NothingHeld DEF Held
<1>11. Alike(s.tools, NewReply.calls)
  BY <1>1, <1>4, <1>5 DEF Alike
<1>12. Carries(s, NewReply)
  BY <1>5, <1>10, <1>11 DEF Carries
<1> QED
  BY <1>1, <1>2, <1>5, <1>6, <1>9, <1>12 DEF MessagesFit, s, v

LEMMA NewResponsesFit == ResponsesFit(NewReply, Responses!New, NewResponse)
<1> DEFINE s == Responses!New
           v == NewResponse
<1>1. /\ DOMAIN s = ResponsesFields /\ s.index = 0 /\ s.content = FALSE /\ s.parts = <<>>
      /\ s.think = 0 /\ s.reasoning = FALSE /\ s.tools = <<>> /\ s.output = <<>>
      /\ s.finish = FALSE /\ s.done = FALSE
  BY DEF Responses!New, ResponsesFields
<1>2. s = Clear(s)
  BY DEF Responses!New, Clear
<1>3. DOMAIN v = ResponseFields /\ v.items = <<>> /\ v.end = "none" /\ v.ok = TRUE
  BY DEF NewResponse, ResponseFields
<1>4. NewReply.calls = <<>> /\ NewReply.text = 0 /\ NewReply.refusal = 0 /\ NewReply.think = 0
      /\ NewReply.finish = "none" /\ NewReply.error = FALSE /\ NewReply.late = FALSE
  BY DEF NewReply
<1>5. Len(<<>>) = 0 /\ 1 .. 0 = {}
  OBVIOUS
<1> HIDE DEF s, v
<1>6. Streamed(s, v)
  <2>1. /\ <<>> \in Seq(PartSet) /\ <<>> \in Seq(OutputSet) /\ <<>> \in Seq(ItemSet)
        /\ 0 \in Nat
    <3> HIDE DEF PartSet, OutputSet, ItemSet
    <3> QED
      OBVIOUS
  <2>2. 1 .. s.index = {} /\ Len(s.output) = s.index
        /\ Len(v.items) = IF s.reasoning \/ s.content THEN s.index + 1 ELSE s.index
    BY <1>1, <1>3, <1>5
  <2>3. \A k \in 1 .. s.index : v.items[k].open = FALSE /\ SameItem(v.items[k], s.output[k])
    BY <2>2
  <2>4. s.content \in BOOLEAN /\ s.reasoning \in BOOLEAN /\ ~s.content /\ ~s.reasoning
    BY <1>1
  <2> QED
    BY <1>1, <1>3, <2>1, <2>2, <2>3, <2>4, Zenon DEF Streamed, IsResponse
<1>7. Told(s, "text") = 0 /\ Told(s, "refusal") = 0 /\ Told(s, "summary") = 0
  BY <1>1, NothingHeld DEF Told
<1>8. NoCallYet(s)
  BY <1>1, <1>5 DEF NoCallYet
<1>9. Tells(NewReply, s)
  <2>1. s.content = (NewReply.text + NewReply.refusal > 0)
    <3>1. NewReply.text = 0 /\ NewReply.refusal = 0
      BY <1>4, Zenon
    <3>2. (NewReply.text + NewReply.refusal > 0) = FALSE
      BY <3>1
    <3> QED
      BY <1>1, <3>2, Zenon
  <2> QED
    BY <1>4, <1>7, <1>8, <2>1, Zenon DEF Tells
<1>10. ResponsesHold(NewReply, s, v)
  BY <1>1, <1>4, <1>6, <1>9 DEF ResponsesHold
<1> QED
  BY <1>2, <1>10 DEF ResponsesFit, s, v

LEMMA NewTalliesFit ==
  OllamaFit(NewReply, Ollama!New, NewTally) /\ GeminiFit(NewReply, Gemini!New, NewTally)
<1>1. /\ DOMAIN Ollama!New = OllamaFields /\ Ollama!New = Clear(Ollama!New)
      /\ Ollama!New.held = 0 /\ Ollama!New.finish = FALSE /\ Ollama!New.done = FALSE
      /\ Ollama!New.tools = <<>>
  BY DEF Ollama!New, OllamaFields, Clear
<1>2. /\ DOMAIN Gemini!New = GeminiFields /\ Gemini!New = Clear(Gemini!New)
      /\ Gemini!New.finished = FALSE /\ Gemini!New.tools = <<>>
  BY DEF Gemini!New, GeminiFields, Clear
<1>3. /\ IsTally(NewTally) /\ NewTally.text = 0 /\ NewTally.think = 0 /\ NewTally.ends = 0
      /\ NewTally.error = FALSE
  BY DEF NewTally, IsTally
<1>4. NewReply.calls = <<>> /\ NewReply.text = 0 /\ NewReply.think = 0
      /\ NewReply.finish = "none" /\ NewReply.error = FALSE
  BY DEF NewReply
<1>5. Num(FALSE) = 0 /\ 0 + 0 = 0 /\ 0 \in Nat
  BY DEF Num
<1>6. (NewReply.finish # "none") = FALSE
  BY <1>4
<1>7. OllamaFit(NewReply, Ollama!New, NewTally)
  BY <1>1, <1>3, <1>4, <1>5, <1>6, Zenon DEF OllamaFit
<1>8. GeminiFit(NewReply, Gemini!New, NewTally)
  BY <1>2, <1>3, <1>4, <1>5, <1>6, Zenon DEF GeminiFit
<1> QED
  BY <1>7, <1>8

LEMMA FitInit == StreamsInit => FitInv
<1> SUFFICES ASSUME StreamsInit PROVE FitInv
  OBVIOUS
<1> DEFINE a == Anthropic!New
           told == [text |-> 0, thinking |-> 0, tool |-> 0, json |-> 0]
<1>1. PICK s \in {"backend", "provider"}, forced \in BOOLEAN :
        up = [source |-> s, forced |-> forced, count |-> 0, kind |-> "none", deltas |-> 0,
              stage |-> IF s = "backend" THEN "open" ELSE "before",
              args |-> <<>>, called |-> FALSE, cut |-> FALSE, calls |-> <<>>, told |-> told]
  BY DEF StreamsInit
<1>2. told \in [ToldKinds -> Nat] /\ told["text"] = 0 /\ told["json"] = 0 /\ told["thinking"] = 0
  BY DEF ToldKinds
<1> HIDE DEF told
<1>3. /\ DOMAIN up = UpFields /\ up.source = s /\ up.count = 0 /\ up.kind = "none"
      /\ up.stage = (IF s = "backend" THEN "open" ELSE "before") /\ up.args = <<>>
      /\ up.called = FALSE /\ up.calls = <<>> /\ up.told = told
  BY <1>1 DEF UpFields
<1>4. UpTyped
  <2>1. <<>> \in Seq(Pieces) /\ <<>> \in Seq(Seq(Pieces)) /\ 0 \in Nat /\ FALSE \in BOOLEAN
        /\ "none" \in ToldKinds \cup {"none"}
    <3> HIDE DEF Pieces
    <3> QED
      OBVIOUS
  <2>2. IsSource /\ up.stage \in IF FromBackend THEN {"open", "finished", "done", "ended"}
                                ELSE {"before", "between", "block", "stopped", "done", "ended"}
    BY <1>3 DEF IsSource, FromBackend
  <2> QED
    BY <1>2, <1>3, <2>1, <2>2, Zenon DEF UpTyped
<1>5. sent = NewReply
      /\ conv = [messages |-> Messages!New, responses |-> Responses!New, ollama |-> Ollama!New,
                 gemini |-> Gemini!New, anthropic |-> Anthropic!New]
      /\ seen = [messages |-> NewMessage, responses |-> NewResponse, ollama |-> NewTally,
                 gemini |-> NewTally]
  BY Zenon DEF StreamsInit
<1>6. /\ Reply.sent = NewReply /\ DOMAIN Reply.conv = Converters /\ DOMAIN Reply.seen = Readers
      /\ Reply.conv.messages = Messages!New /\ Reply.conv.responses = Responses!New
      /\ Reply.conv.ollama = Ollama!New /\ Reply.conv.gemini = Gemini!New
      /\ Reply.seen.messages = NewMessage /\ Reply.seen.responses = NewResponse
      /\ Reply.seen.ollama = NewTally /\ Reply.seen.gemini = NewTally
  BY <1>5 DEF Reply, Converters, Readers
<1>7. NewReply.finish = "none" /\ NewReply.error = FALSE
  BY DEF NewReply
<1>8. Relayed(Reply, FromBackend)
  BY <1>6, <1>7, NewIsReply, NewMessagesFit, NewResponsesFit, NewTalliesFit, Zenon DEF Relayed
<1>9. Ongoing(Reply, FromBackend)
  <2>1. ~Messages!New.done /\ ~Responses!New.done /\ ~Gemini!New.finished
    BY DEF Messages!New, Responses!New, Gemini!New
  <2> QED
    BY <1>6, <1>7, <2>1, Zenon DEF Ongoing
<1>10. conv.messages = Messages!New /\ seen.messages = NewMessage /\ conv.anthropic = a
  BY <1>5
<1>11. /\ DOMAIN a = AnthropicFields /\ a = Clear(a) /\ a.indices = <<>> /\ a.json = {}
       /\ a.received = FALSE /\ a.done = FALSE /\ a.text = 0 /\ a.think = 0 /\ a.calls = <<>>
       /\ a.finish = "none"
  BY DEF Anthropic!New, AnthropicFields, Clear
<1>12. /\ sent.text = 0 /\ sent.think = 0 /\ sent.finish = "none" /\ sent.calls = <<>>
  BY <1>5 DEF NewReply
<1> HIDE DEF a
<1>13. ASSUME ~FromBackend PROVE Translates(a, up, sent)
  <2>1. up.stage = "before"
    BY <1>3, <1>13 DEF FromBackend
  <2>2. Numbered(a.calls, sent.calls)
    BY <1>11, <1>12, NoCalls DEF Numbered
  <2>3. HasCalls(a.calls, up)
    BY <1>3, <1>11, <2>1 DEF HasCalls
  <2>4. Knows(a.indices, a.json, a.received, up)
    BY <1>3, <1>11, <2>1, NoCalls DEF Knows
  <2> QED
    <3>1. a.done = (up.stage \in {"done", "ended"}) /\ FALSE \in BOOLEAN
      <4>1. (up.stage \in {"done", "ended"}) = FALSE /\ FALSE \in BOOLEAN
        BY <2>1
      <4> QED
        BY <1>11, <4>1, Zenon
    <3>2. up.told["text"] + up.told["json"] = 0 /\ up.told["thinking"] = 0
      BY <1>2, <1>3
    <3> QED
      BY <1>11, <1>12, <2>2, <2>3, <2>4, <3>1, <3>2, Zenon DEF Translates
<1>14. up.stage # "ended"
  BY <1>3
<1> QED
  BY <1>4, <1>8, <1>9, <1>10, <1>13, <1>14, Zenon DEF FitInv

(***************************************************************************)
(* A backend                                                               *)
(***************************************************************************)

LEMMA FragmentsFit ==
  ASSUME NEW i \in Nat, NEW f \in Fragments(i)
  PROVE  IsFragment(f) /\ f.index = i
<1>1. f \in [index : {i}, id : BOOLEAN, name : BOOLEAN, args : Pieces \cup {""}]
  BY DEF Fragments, Pieces
<1> QED
  BY <1>1 DEF IsFragment, Pieces

\* The chunks of a backend, kind by kind.
ChunkCases(l) ==
  \/ l \in {[Chunk EXCEPT !.think = TRUE], [Chunk EXCEPT !.text = "x"],
            [Chunk EXCEPT !.refusal = TRUE], [Chunk EXCEPT !.text = "<"]}
  \/ \E f \in UNION {Fragments(i) : i \in 0..(Cardinality(DOMAIN sent.calls))} :
       l = [Chunk EXCEPT !.tools = <<f>>]
  \/ \E r \in Reasons, t \in {"", "x"} : l = [Chunk EXCEPT !.finish = r, !.text = t]
  \/ sent.calls = <<>> /\ l = [Chunk EXCEPT !.finish = "tool_calls", !.tools = Pair]

ChunksOf(F, D) ==
  {[Chunk EXCEPT !.think = TRUE], [Chunk EXCEPT !.text = "x"], [Chunk EXCEPT !.refusal = TRUE]}
  \cup (IF sent.text = 0 THEN {[Chunk EXCEPT !.text = "<"]} ELSE {})
  \cup {[Chunk EXCEPT !.tools = <<f>>] : f \in F}
  \cup D
  \cup (IF sent.calls = <<>> THEN {[Chunk EXCEPT !.finish = "tool_calls", !.tools = Pair]}
        ELSE {})

FinishChunk(r, t) == [Chunk EXCEPT !.finish = r, !.text = t]

Texts == {"", "x"}

SomeFragments == UNION {Fragments(i) : i \in 0..(Cardinality(DOMAIN sent.calls))}

LEMMA ChunksAre ==
  Chunks = ChunksOf(SomeFragments, {FinishChunk(r, t) : r \in Reasons, t \in Texts})
BY DEF Chunks, ChunksOf, FinishChunk, Texts, SomeFragments

LEMMA ChunksTyped == ASSUME NEW l \in Chunks PROVE ChunkCases(l) /\ l.type = "chunk"
<1> DEFINE F == SomeFragments
           A == {[Chunk EXCEPT !.think = TRUE], [Chunk EXCEPT !.text = "x"],
                 [Chunk EXCEPT !.refusal = TRUE]}
           B == IF sent.text = 0 THEN {[Chunk EXCEPT !.text = "<"]} ELSE {}
           C == {[Chunk EXCEPT !.tools = <<f>>] : f \in F}
           D == {FinishChunk(r, t) : r \in Reasons, t \in Texts}
           E == IF sent.calls = <<>> THEN {[Chunk EXCEPT !.finish = "tool_calls", !.tools = Pair]}
                ELSE {}
<1>0. Chunks = A \cup B \cup C \cup D \cup E
  <2>1. Chunks = ChunksOf(F, D)
    BY ChunksAre
  <2> HIDE DEF D, F
  <2> QED
    BY <2>1, Zenon DEF ChunksOf
<1> HIDE DEF A, B, C, D, E, F
<1>2. l \in A \/ l \in B \/ l \in C \/ l \in D \/ l \in E
  BY <1>0
<1>3. Chunk.type = "chunk" /\ DOMAIN Chunk = {"type", "think", "tools", "text", "refusal", "finish"}
  BY DEF Chunk
<1>4. CASE l \in A \/ l \in B
  <2>1. l \in {[Chunk EXCEPT !.think = TRUE], [Chunk EXCEPT !.text = "x"],
               [Chunk EXCEPT !.refusal = TRUE], [Chunk EXCEPT !.text = "<"]}
    BY <1>4 DEF A, B
  <2>2. l.type = "chunk"
    BY <1>3, <2>1
  <2> QED
    BY <2>1, <2>2, Zenon DEF ChunkCases
<1>5. CASE l \in C
  <2>1. PICK f \in F : l = [Chunk EXCEPT !.tools = <<f>>]
    BY <1>5 DEF C
  <2>2. l.type = "chunk"
    BY <1>3, <2>1
  <2> QED
    BY <2>1, <2>2, Zenon DEF ChunkCases, F, SomeFragments
<1>6. CASE l \in D
  <2>1. PICK r \in Reasons, t \in Texts : l = FinishChunk(r, t)
    BY <1>6 DEF D
  <2>2. l = [Chunk EXCEPT !.finish = r, !.text = t] /\ t \in {"", "x"}
    BY <2>1, Zenon DEF FinishChunk, Texts
  <2>3. l.type = "chunk"
    BY <1>3, <2>2
  <2> QED
    BY <2>2, <2>3, Zenon DEF ChunkCases
<1>7. CASE l \in E
  <2>1. sent.calls = <<>> /\ l = [Chunk EXCEPT !.finish = "tool_calls", !.tools = Pair]
    BY <1>7 DEF E
  <2>2. l.type = "chunk"
    BY <1>3, <2>1
  <2> QED
    BY <2>1, <2>2, Zenon DEF ChunkCases
<1> QED
  BY <1>2, <1>4, <1>5, <1>6, <1>7

LEMMA ChunksFit ==
  ASSUME IsReply(sent), sent.finish = "none", ~sent.error, NEW l \in Chunks
  PROVE  l.type = "chunk" /\ IsLine(sent, l)
<1>1. /\ Chunk.type = "chunk" /\ Chunk.think = FALSE /\ Chunk.refusal = FALSE
      /\ Chunk.text = "" /\ Chunk.finish = "none" /\ Chunk.tools = <<>>
      /\ DOMAIN Chunk = {"type", "think", "tools", "text", "refusal", "finish"}
  BY DEF Chunk
<1> DEFINE Plain(c) == IsChunk(c) /\ FitsCalls(sent.calls, c.tools)
<1>2. Size(sent.calls) \in Nat
  BY DEF IsReply, IsCalls
<1>3. FitsCalls(sent.calls, <<>>)
  BY Zenon DEF FitsCalls
<1>4. Plain(l)
  <2>1. CASE l \in {[Chunk EXCEPT !.think = TRUE], [Chunk EXCEPT !.text = "x"],
                    [Chunk EXCEPT !.refusal = TRUE], [Chunk EXCEPT !.text = "<"]}
    <3>1. IsChunk(l) /\ l.tools = <<>>
      BY <1>1, <2>1 DEF IsChunk
    <3> QED
      BY <1>3, <3>1, Zenon
  <2>2. CASE \E f \in UNION {Fragments(i) : i \in 0..(Cardinality(DOMAIN sent.calls))} :
               l = [Chunk EXCEPT !.tools = <<f>>]
    <3>0. PICK f \in UNION {Fragments(i) : i \in 0..(Cardinality(DOMAIN sent.calls))} :
            l = [Chunk EXCEPT !.tools = <<f>>]
      BY <2>2
    <3>5. PICK i \in 0 .. Cardinality(DOMAIN sent.calls) : f \in Fragments(i)
      BY <3>0
    <3>1. i \in 0 .. Size(sent.calls) /\ f \in Fragments(i) /\ l = [Chunk EXCEPT !.tools = <<f>>]
      BY <3>0, <3>5 DEF Size
    <3>2. IsFragment(f) /\ f.index <= Size(sent.calls)
      <4>1. i \in Nat /\ i <= Size(sent.calls)
        BY <1>2, <3>1
      <4> QED
        BY <3>1, <4>1, FragmentsFit
    <3>3. IsChunk(l) /\ l.tools = <<f>>
      BY <1>1, <3>1 DEF IsChunk
    <3>4. FitsCalls(sent.calls, <<f>>)
      <4>1. Len(<<f>>) = 1 /\ <<f>>[1] = f
        OBVIOUS
      <4> QED
        BY <3>2, <4>1, Zenon DEF FitsCalls
    <3> QED
      BY <3>3, <3>4, Zenon
  <2>3. CASE \E r \in Reasons, t \in {"", "x"} : l = [Chunk EXCEPT !.finish = r, !.text = t]
    <3>1. PICK r \in Reasons, t \in {"", "x"} : l = [Chunk EXCEPT !.finish = r, !.text = t]
      BY <2>3
    <3>2. IsChunk(l) /\ l.tools = <<>>
      BY <1>1, <3>1 DEF IsChunk
    <3> QED
      BY <1>3, <3>2, Zenon
  <2>4. CASE sent.calls = <<>> /\ l = [Chunk EXCEPT !.finish = "tool_calls", !.tools = Pair]
    <3>1. IsChunk(l) /\ l.tools = Pair
      BY <1>1, <2>4 DEF IsChunk, Reasons
    <3>2. Len(Pair) = 2 /\ Pair = <<Pair[1], Pair[2]>>
          /\ IsFragment(Pair[1]) /\ Pair[1].index = 0 /\ IsFragment(Pair[2]) /\ Pair[2].index = 1
      BY DEF Pair, Fragment, IsFragment, Pieces
    <3>3. Size(sent.calls) = 0
      BY <2>4, NoCalls
    <3>4. FitsCalls(sent.calls, Pair)
      BY <3>2, <3>3, Zenon DEF FitsCalls
    <3> QED
      BY <3>1, <3>4, Zenon
  <2>5. \/ l \in {[Chunk EXCEPT !.think = TRUE], [Chunk EXCEPT !.text = "x"],
                  [Chunk EXCEPT !.refusal = TRUE], [Chunk EXCEPT !.text = "<"]}
        \/ \E f \in UNION {Fragments(i) : i \in 0..(Cardinality(DOMAIN sent.calls))} :
             l = [Chunk EXCEPT !.tools = <<f>>]
        \/ \E r \in Reasons, t \in {"", "x"} : l = [Chunk EXCEPT !.finish = r, !.text = t]
        \/ sent.calls = <<>> /\ l = [Chunk EXCEPT !.finish = "tool_calls", !.tools = Pair]
    BY ChunksTyped, Zenon DEF ChunkCases
  <2> QED
    BY <2>1, <2>2, <2>3, <2>4, <2>5, Zenon
<1>5. l.type = "chunk"
  BY <1>4, Zenon DEF IsChunk
<1> QED
  BY <1>4, <1>5, Zenon DEF IsLine

LEMMA SentinelsFit ==
  ASSUME NEW t \in {"usage", "error", "[DONE]", "eof"}, NEW r,
         t = "error" => r.finish = "none" /\ ~r.error
  PROVE  Sentinel(t).type = t /\ IsLine(r, Sentinel(t))
<1>1. Sentinel(t).type = t
  BY DEF Sentinel
<1> QED
  BY <1>1 DEF IsLine

LEMMA FitBackend == FitInv /\ Backend => FitInv'
<1> SUFFICES ASSUME FitInv, Backend PROVE FitInv'
  OBVIOUS
<1>1. /\ UpTyped /\ Relayed(Reply, FromBackend) /\ FromBackend /\ IsSource
      /\ (up.stage = "open" => Ongoing(Reply, FromBackend))
  <2>1. FromBackend
    BY DEF Backend, FromBackend
  <2> QED
    BY <2>1, Zenon DEF FitInv, UpTyped
<1>2. PICK l \in Chunks \cup {Sentinel(t) : t \in {"usage", "error", "[DONE]", "eof"}} :
       /\ l.type = "chunk" =>
            up.stage = "open" /\ (l.finish = "none" => up.count < MaxLines)
       /\ l.type = "error" => up.stage = "open"
       /\ l.type = "usage" => up.stage = "finished"
       /\ l.type = "[DONE]" => up.stage # "done"
       /\ up' = [up EXCEPT !.count = @ + Num(l.type = "chunk"),
                           !.stage = CASE l.type = "eof" -> "ended"
                                       [] l.type = "[DONE]" -> "done"
                                       [] l.type = "error" -> "finished"
                                       [] l.type = "usage" -> @
                                       [] l.type = "chunk" ->
                                            IF l.finish = "none" THEN @ ELSE "finished"]
       /\ Feed(<<l>>, conv.anthropic)
  BY Zenon DEF Backend
<1>3. IsReply(sent) /\ Reply.sent = sent
  BY <1>1 DEF Relayed, Reply
<1>4. up.stage = "open" => sent.finish = "none" /\ sent.error = FALSE
  BY <1>1, <1>3, Zenon DEF Ongoing
<1>6. IsLine(sent, l) /\ l.type \in {"chunk", "usage", "error", "[DONE]", "eof"}
  <2>1. CASE l \in Chunks
    <3>0. l.type = "chunk"
      BY <2>1, ChunksTyped
    <3>1. sent.finish = "none" /\ ~sent.error
      BY <1>2, <1>4, <3>0
    <3> QED
      BY <1>3, <2>1, <3>1, ChunksFit
  <2>2. CASE l \in {Sentinel(t) : t \in {"usage", "error", "[DONE]", "eof"}}
    <3>1. PICK t \in {"usage", "error", "[DONE]", "eof"} : l = Sentinel(t)
      BY <2>2
    <3>2. l.type = t
      BY <3>1 DEF Sentinel
    <3>3. t = "error" => sent.finish = "none" /\ ~sent.error
      BY <1>2, <1>4, <3>2
    <3> QED
      BY <3>1, <3>2, <3>3, SentinelsFit
  <2> QED
    BY <2>1, <2>2
<1>7. l.type \in {"chunk", "error"} => Ongoing(Reply, FromBackend)
  BY <1>1, <1>2
<1>8. /\ Follows(conv.anthropic, Carried(sent, l))
      /\ l.type = "chunk" /\ l.finish = "none" => Ongoing(Reply', FromBackend)
      /\ l.type = "eof" => AtRest(Reply', FromBackend)
  BY <1>1, <1>2, <1>6, <1>7, FeedsOne, Zenon
<1> DEFINE n == up.count + Num(l.type = "chunk")
           stage == CASE l.type = "eof" -> "ended"
                      [] l.type = "[DONE]" -> "done"
                      [] l.type = "error" -> "finished"
                      [] l.type = "usage" -> up.stage
                      [] l.type = "chunk" -> IF l.finish = "none" THEN up.stage ELSE "finished"
<1>9. up' = [up EXCEPT !.count = n, !.stage = stage]
  BY <1>2, Zenon
<1>10. n \in Nat
  BY <1>1, NumIsNat DEF UpTyped
<1>11. stage = (CASE l.type = "eof" -> "ended"
                  [] l.type = "[DONE]" -> "done"
                  [] l.type = "error" -> "finished"
                  [] l.type = "usage" -> up.stage
                  [] l.type = "chunk" -> IF l.finish = "none" THEN up.stage ELSE "finished")
  OBVIOUS
<1> HIDE DEF n, stage
<1>12. up.stage \in {"open", "finished", "done", "ended"}
  BY <1>1 DEF UpTyped
<1>13. stage \in {"open", "finished", "done", "ended"}
  BY <1>6, <1>11, <1>12
<1>14. stage = "open" => l.type = "chunk" /\ l.finish = "none"
  BY <1>2, <1>6, <1>11
<1>15. stage = "ended" => l.type = "eof"
  <2>1. up.stage # "ended"
    BY DEF Backend
  <2> QED
    BY <1>6, <1>11, <2>1
<1>16. /\ DOMAIN up' = UpFields /\ up'.source = up.source /\ up'.count = n
       /\ up'.kind = up.kind /\ up'.stage = stage /\ up'.args = up.args
       /\ up'.called = up.called /\ up'.calls = up.calls /\ up'.told = up.told
  BY <1>1, <1>9 DEF UpTyped, UpFields
<1>17. FromBackend' = FromBackend /\ IsSource'
  BY <1>1, <1>16 DEF FromBackend, IsSource
<1>18. UpTyped'
  <2>1. up'.stage \in IF FromBackend' THEN {"open", "finished", "done", "ended"}
                      ELSE {"before", "between", "block", "stopped", "done", "ended"}
    BY <1>1, <1>13, <1>16, <1>17
  <2> QED
    BY <1>1, <1>10, <1>16, <1>17, <2>1, Zenon DEF UpTyped
<1>19. Relayed(Reply', FromBackend)
  BY <1>8, Zenon DEF Follows
<1>20. Relayed(Reply', FromBackend')
  BY <1>17, <1>19
<1>21. up'.stage \in {"open", "before", "between", "block"} => Ongoing(Reply', FromBackend')
  BY <1>8, <1>13, <1>14, <1>16, <1>17
<1>22. up'.stage = "ended" => AtRest(Reply', FromBackend')
  BY <1>8, <1>15, <1>16, <1>17
<1>23. FromBackend'
  BY <1>1, <1>17
<1> QED
  BY <1>18, <1>20, <1>21, <1>22, <1>23 DEF FitInv

(***************************************************************************)
(* A provider's events, line by line                                       *)
(***************************************************************************)

LEMMA AnthropicOperators ==
  /\ Anthropic!Chunk = Chunk
  /\ \A t : Anthropic!Sentinel(t) = Sentinel(t)
  /\ \A i, id, name, args : Anthropic!Fragment(i, id, name, args) = Fragment(i, id, name, args)
  /\ \A c, i, x : Anthropic!Put(c, i, x) = Put(c, i, x)
  /\ \A x, y : Anthropic!AddArgs(x, y) = AddArgs(x, y)
BY Zenon DEF Anthropic!Chunk, Chunk, Anthropic!Sentinel, Sentinel, Anthropic!Fragment, Fragment,
   Anthropic!Put, Put, Anthropic!AddArgs, AddArgs

TextLine == [Chunk EXCEPT !.text = "x"]
ThinkLine == [Chunk EXCEPT !.think = TRUE]
ToolLine(f) == [Chunk EXCEPT !.tools = <<f>>]
FinishLine(reason) == [Chunk EXCEPT !.finish = reason]

\* The converter after an event, and the lines it makes of it.
Translated(t, indices, json, received, done, text, think, calls, finish, out) ==
  /\ DOMAIN t = AnthropicFields /\ t.indices = indices /\ t.json = json
  /\ t.received = received /\ t.done = done /\ t.text = text /\ t.think = think
  /\ t.calls = calls /\ t.finish = finish /\ t.out = out

LEMMA ClearAnthropic ==
  ASSUME NEW t, DOMAIN t = AnthropicFields
  PROVE  /\ DOMAIN Clear(t) = AnthropicFields /\ Clear(t) = Clear(Clear(t)) /\ Clear(t).out = <<>>
         /\ Clear(t).indices = t.indices /\ Clear(t).json = t.json
         /\ Clear(t).received = t.received /\ Clear(t).done = t.done
         /\ Clear(t).text = t.text /\ Clear(t).think = t.think /\ Clear(t).calls = t.calls
         /\ Clear(t).finish = t.finish
BY DEF Clear, AnthropicFields

\* A converter that has not finished.
Waits(s) == DOMAIN s = AnthropicFields /\ s.out = <<>> /\ s.done = FALSE

\* A converter as it is, and with a line more.
LEMMA TranslatesNothing ==
  ASSUME NEW s, Waits(s)
  PROVE  Translated(s, s.indices, s.json, s.received, FALSE, s.text, s.think, s.calls, s.finish, <<>>)
BY Zenon DEF Waits, Translated

LEMMA TranslatesOne ==
  ASSUME NEW t, NEW indices, NEW json, NEW received, NEW done, NEW text, NEW think, NEW calls,
         NEW finish, NEW l,
         Translated(t, indices, json, received, done, text, think, calls, finish, <<>>)
  PROVE  Translated(Anthropic!Emit(t, l), indices, json, received, done, text, think, calls,
                    finish, <<l>>)
<1> DEFINE w == Anthropic!Emit(t, l)
<1>1. /\ DOMAIN t = AnthropicFields /\ t.indices = indices /\ t.json = json
      /\ t.received = received /\ t.done = done /\ t.text = text /\ t.think = think
      /\ t.calls = calls /\ t.finish = finish /\ t.out = <<>>
  BY Zenon DEF Translated
<1>2. w = [t EXCEPT !.out = <<l>>]
  <2>1. Append(<<>>, l) = <<l>>
    OBVIOUS
  <2> QED
    BY <1>1, <2>1, Zenon DEF Anthropic!Emit
<1> HIDE DEF w
<1>3. /\ DOMAIN w = AnthropicFields /\ w.indices = t.indices /\ w.json = t.json
      /\ w.received = t.received /\ w.done = t.done /\ w.text = t.text /\ w.think = t.think
      /\ w.calls = t.calls /\ w.finish = t.finish /\ w.out = <<l>>
  BY <1>1, <1>2 DEF AnthropicFields
<1>4. Translated(w, indices, json, received, done, text, think, calls, finish, <<l>>)
  BY <1>1, <1>3, Zenon DEF Translated
<1> QED
  BY <1>4, Zenon DEF w

LEMMA TranslatesContent ==
  ASSUME NEW s, Waits(s), NEW received, NEW t, t = [s EXCEPT !.received = received] \/
         (t = s /\ received = s.received)
  PROVE  Translated(Anthropic!Content(t), s.indices, s.json, received, FALSE, s.text + 1, s.think,
                    s.calls, s.finish, <<TextLine>>)
<1> DEFINE c == [t EXCEPT !.text = @ + 1]
           n == s.text + 1
<1>1. DOMAIN s = AnthropicFields /\ s.out = <<>> /\ s.done = FALSE
  BY Zenon DEF Waits
<1>2. /\ DOMAIN t = AnthropicFields /\ t.indices = s.indices /\ t.json = s.json
      /\ t.received = received /\ t.done = FALSE /\ t.text = s.text /\ t.think = s.think
      /\ t.calls = s.calls /\ t.finish = s.finish /\ t.out = <<>>
  BY <1>1 DEF AnthropicFields
<1>3. c = [t EXCEPT !.text = n]
  BY <1>2, Zenon
<1>4. Anthropic!Content(t) = Anthropic!Emit(c, TextLine)
  BY AnthropicOperators, Zenon DEF Anthropic!Content, TextLine
<1> HIDE DEF c, n
<1>5. /\ DOMAIN c = AnthropicFields /\ c.indices = s.indices /\ c.json = s.json
      /\ c.received = received /\ c.done = FALSE /\ c.text = n /\ c.think = s.think
      /\ c.calls = s.calls /\ c.finish = s.finish /\ c.out = <<>>
  BY <1>2, <1>3 DEF AnthropicFields
<1>7. Translated(c, s.indices, s.json, received, FALSE, n, s.think, s.calls, s.finish, <<>>)
  BY <1>5, Zenon DEF Translated
<1>6. Translated(Anthropic!Emit(c, TextLine), s.indices, s.json, received, FALSE, n, s.think,
                 s.calls, s.finish, <<TextLine>>)
  BY <1>7, TranslatesOne, Zenon
<1> QED
  BY <1>4, <1>6, Zenon DEF n

LEMMA CallListTyped ==
  ASSUME NEW q \in Seq(Seq(Pieces))
  PROVE  Len(q) \in Nat /\ DOMAIN q = 1 .. Len(q) /\ \A i \in 1 .. Len(q) : q[i] \in Seq(Pieces)
<1> DEFINE S == Seq(Pieces)
<1>1. q \in Seq(S)
  OBVIOUS
<1> HIDE DEF S
<1>2. Len(q) \in Nat /\ DOMAIN q = 1 .. Len(q) /\ \A i \in 1 .. Len(q) : q[i] \in S
  BY <1>1
<1> QED
  BY <1>2, Zenon DEF S

LEMMA TranslatesArguments ==
  ASSUME NEW s, Waits(s), s.calls \in Seq(Seq(Pieces)), NEW i \in Nat, i + 1 \in 1 .. Len(s.calls),
         NEW x \in Pieces \cup {""}
  PROVE  Translated(Anthropic!Arguments(s, i, x), s.indices, s.json, s.received, FALSE, s.text,
                    s.think, [s.calls EXCEPT ![i + 1] = AddArgs(@, x)], s.finish,
                    IF x = "" THEN <<>> ELSE <<ToolLine(Fragment(i, FALSE, FALSE, x))>>)
<1> DEFINE calls == [s.calls EXCEPT ![i + 1] = AddArgs(@, x)]
           t == [s EXCEPT !.calls[i + 1] = Anthropic!AddArgs(@, x)]
           l == ToolLine(Fragment(i, FALSE, FALSE, x))
<1>1. DOMAIN s = AnthropicFields /\ s.out = <<>> /\ s.done = FALSE
  BY Zenon DEF Waits
<1>2. t = [s EXCEPT !.calls = calls]
  <2> DEFINE y == AddArgs(s.calls[i + 1], x)
             k == i + 1
  <2>1. Anthropic!AddArgs(s.calls[i + 1], x) = y
    BY AnthropicOperators, Zenon
  <2>2. k \in DOMAIN s.calls /\ "calls" \in DOMAIN s
    <3>1. "calls" \in DOMAIN s
      BY <1>1 DEF AnthropicFields
    <3>2. DOMAIN s.calls = 1 .. Len(s.calls)
      BY CallListTyped, Zenon
    <3> QED
      BY <3>1, <3>2
  <2>3. t = [s EXCEPT !.calls[k] = y]
    BY <2>1, <2>2
  <2>4. calls = [s.calls EXCEPT ![k] = y]
    BY <2>2
  <2> HIDE DEF y, k, t, calls
  <2> QED
    BY <2>2, <2>3, <2>4
<1>3. Anthropic!Arguments(s, i, x) = IF x = "" THEN t ELSE Anthropic!Emit(t, l)
  BY AnthropicOperators, Zenon DEF Anthropic!Arguments, ToolLine
<1> HIDE DEF calls, t, l
<1>4. /\ DOMAIN t = AnthropicFields /\ t.indices = s.indices /\ t.json = s.json
      /\ t.received = s.received /\ t.done = FALSE /\ t.text = s.text /\ t.think = s.think
      /\ t.calls = calls /\ t.finish = s.finish /\ t.out = <<>>
  BY <1>1, <1>2 DEF AnthropicFields
<1>5. Translated(t, s.indices, s.json, s.received, FALSE, s.text, s.think, calls, s.finish, <<>>)
  BY <1>4, Zenon DEF Translated
<1>6. Translated(Anthropic!Emit(t, l), s.indices, s.json, s.received, FALSE, s.text, s.think,
                 calls, s.finish, <<l>>)
  BY <1>5, TranslatesOne, Zenon
<1> QED
  BY <1>3, <1>5, <1>6, Zenon DEF calls, l

\* The reply after one of these lines.
Amounts(r, text, think, calls, finish) ==
  r.text = text /\ r.think = think /\ r.calls = calls /\ r.finish = finish

LEMMA LineAdds ==
  ASSUME NEW r, IsReply(r), r.finish = "none", r.error = FALSE, NEW l, IsChunk(l),
         FitsCalls(r.calls, l.tools)
  PROVE  /\ IsLine(r, l)
         /\ Amounts(Carried(r, l), r.text + Num(l.text # ""), r.think + Num(l.think),
                    Accumulate(r.calls, l.tools), l.finish)
<1>1. IsLine(r, l) /\ l.type = "chunk"
  BY DEF IsLine, IsChunk
<1> DEFINE q == Carried(r, l)
<1>2. Adding(r, l, q)
  BY <1>1, CarriedTyped, Zenon
<1> HIDE DEF q
<1>3. /\ q.text = r.text + Num(l.text # "") /\ q.think = r.think + Num(l.think)
      /\ q.calls = Accumulate(r.calls, l.tools)
      /\ q.finish = IF l.finish = "none" THEN r.finish ELSE l.finish
  BY <1>2, Zenon DEF Adding
<1>4. q.finish = l.finish
  BY <1>3
<1> QED
  BY <1>1, <1>3, <1>4, Zenon DEF Amounts, q

LEMMA ChunkLines ==
  /\ \A l \in {Chunk, TextLine, ThinkLine} : l.type = "chunk" /\ IsChunk(l) /\ l.tools = <<>>
                                             /\ l.finish = "none"
  /\ \A reason \in Reasons :
       LET l == FinishLine(reason)
       IN l.type = "chunk" /\ IsChunk(l) /\ l.tools = <<>> /\ l.finish = reason
          /\ l.text = "" /\ l.think = FALSE
  /\ Chunk.text = "" /\ Chunk.think = FALSE
  /\ TextLine.text = "x" /\ TextLine.think = FALSE
  /\ ThinkLine.text = "" /\ ThinkLine.think = TRUE
BY DEF Chunk, TextLine, ThinkLine, FinishLine, IsChunk

LEMMA ToolLines ==
  ASSUME NEW f, NEW l, l = ToolLine(f)
  PROVE  l.type = "chunk" /\ IsChunk(l) /\ l.tools = <<f>> /\ l.finish = "none"
         /\ l.text = "" /\ l.think = FALSE
BY DEF Chunk, ToolLine, IsChunk

\* A line that a provider's reply goes on with.
GoesOn(r, l) == IsLine(r, l) /\ l.type = "chunk" /\ l.finish = "none"

LEMMA AddsLines ==
  ASSUME NEW r, IsReply(r), r.finish = "none", r.error = FALSE
  PROVE  /\ GoesOn(r, Chunk) /\ Amounts(Carried(r, Chunk), r.text, r.think, r.calls, "none")
         /\ GoesOn(r, TextLine)
         /\ Amounts(Carried(r, TextLine), r.text + 1, r.think, r.calls, "none")
         /\ GoesOn(r, ThinkLine)
         /\ Amounts(Carried(r, ThinkLine), r.text, r.think + 1, r.calls, "none")
         /\ \A reason \in Reasons :
              /\ IsLine(r, FinishLine(reason)) /\ FinishLine(reason).type = "chunk"
              /\ Amounts(Carried(r, FinishLine(reason)), r.text, r.think, r.calls, reason)
         /\ \A f : IsFragment(f) /\ f.index <= Size(r.calls) =>
              /\ GoesOn(r, ToolLine(f))
              /\ Amounts(Carried(r, ToolLine(f)), r.text, r.think, GrowCall(r.calls, f), "none")
<1>1. Num(FALSE) = 0 /\ Num(TRUE) = 1 /\ Num("" # "") = 0 /\ Num("x" # "") = 1
  BY DEF Num
<1>2. r.text \in Nat /\ r.think \in Nat
  BY Zenon DEF IsReply
<1>3. r.text + 0 = r.text /\ r.think + 0 = r.think
  BY <1>2
<1>4. FitsCalls(r.calls, <<>>) /\ Accumulate(r.calls, <<>>) = r.calls
  BY AccumulateFew, Zenon DEF FitsCalls
<1>5. \A f : IsFragment(f) /\ f.index <= Size(r.calls) => FitsCalls(r.calls, <<f>>)
  <2> TAKE f
  <2>1. Len(<<f>>) = 1 /\ <<f>>[1] = f
    OBVIOUS
  <2> QED
    BY <2>1, Zenon DEF FitsCalls
<1>6. \A f : Accumulate(r.calls, <<f>>) = GrowCall(r.calls, f)
  BY AccumulateFew, Zenon
<1>7. GoesOn(r, Chunk) /\ Amounts(Carried(r, Chunk), r.text, r.think, r.calls, "none")
  <2> DEFINE l == Chunk
  <2>1. l.type = "chunk" /\ IsChunk(l) /\ l.tools = <<>> /\ l.finish = "none"
        /\ l.text = "" /\ l.think = FALSE
    BY ChunkLines, Zenon
  <2> HIDE DEF l
  <2>2. IsLine(r, l) /\ Amounts(Carried(r, l), r.text, r.think, r.calls, "none")
    BY <1>1, <1>3, <1>4, <2>1, LineAdds, Zenon
  <2> QED
    BY <2>1, <2>2, Zenon DEF l, GoesOn
<1>8. GoesOn(r, TextLine) /\ Amounts(Carried(r, TextLine), r.text + 1, r.think, r.calls, "none")
  <2> DEFINE l == TextLine
  <2>1. l.type = "chunk" /\ IsChunk(l) /\ l.tools = <<>> /\ l.finish = "none"
        /\ l.text = "x" /\ l.think = FALSE
    BY ChunkLines, Zenon
  <2> HIDE DEF l
  <2>2. IsLine(r, l) /\ Amounts(Carried(r, l), r.text + 1, r.think, r.calls, "none")
    BY <1>1, <1>3, <1>4, <2>1, LineAdds, Zenon
  <2> QED
    BY <2>1, <2>2, Zenon DEF l, GoesOn
<1>9. GoesOn(r, ThinkLine) /\ Amounts(Carried(r, ThinkLine), r.text, r.think + 1, r.calls, "none")
  <2> DEFINE l == ThinkLine
  <2>1. l.type = "chunk" /\ IsChunk(l) /\ l.tools = <<>> /\ l.finish = "none"
        /\ l.text = "" /\ l.think = TRUE
    BY ChunkLines, Zenon
  <2> HIDE DEF l
  <2>2. IsLine(r, l) /\ Amounts(Carried(r, l), r.text, r.think + 1, r.calls, "none")
    BY <1>1, <1>3, <1>4, <2>1, LineAdds, Zenon
  <2> QED
    BY <2>1, <2>2, Zenon DEF l, GoesOn
<1>10. ASSUME NEW reason \in Reasons
       PROVE  /\ IsLine(r, FinishLine(reason)) /\ FinishLine(reason).type = "chunk"
              /\ Amounts(Carried(r, FinishLine(reason)), r.text, r.think, r.calls, reason)
  <2> DEFINE l == FinishLine(reason)
  <2>1. l.type = "chunk" /\ IsChunk(l) /\ l.tools = <<>> /\ l.finish = reason
        /\ l.text = "" /\ l.think = FALSE
    BY <1>10, ChunkLines, Zenon
  <2> HIDE DEF l
  <2>2. IsLine(r, l) /\ Amounts(Carried(r, l), r.text, r.think, r.calls, reason)
    BY <1>1, <1>3, <1>4, <2>1, LineAdds, Zenon
  <2> QED
    BY <2>1, <2>2, Zenon DEF l
<1>11. ASSUME NEW f, IsFragment(f), f.index <= Size(r.calls)
       PROVE  /\ GoesOn(r, ToolLine(f))
              /\ Amounts(Carried(r, ToolLine(f)), r.text, r.think, GrowCall(r.calls, f), "none")
  <2>1. FitsCalls(r.calls, <<f>>) /\ Accumulate(r.calls, <<f>>) = GrowCall(r.calls, f)
    BY <1>5, <1>6, <1>11, Zenon
  <2> DEFINE l == ToolLine(f)
  <2>4. l = ToolLine(f)
    OBVIOUS
  <2> HIDE DEF l
  <2>2. l.type = "chunk" /\ IsChunk(l) /\ l.tools = <<f>> /\ l.finish = "none"
        /\ l.text = "" /\ l.think = FALSE
    BY <2>4, ToolLines, Zenon
  <2>3. IsLine(r, l) /\ Amounts(Carried(r, l), r.text, r.think, GrowCall(r.calls, f), "none")
    BY <1>1, <1>3, <2>1, <2>2, LineAdds, Zenon
  <2> QED
    BY <2>2, <2>3, Zenon DEF l, GoesOn
<1> QED
  BY <1>7, <1>8, <1>9, <1>10, <1>11, Zenon

\* A call more.
LEMMA NumberedNew ==
  ASSUME NEW calls, NEW q, IsCalls(q), Numbered(calls, q)
  PROVE  /\ IsFragment(Fragment(Len(calls), TRUE, TRUE, "")) /\ Len(calls) <= Size(q)
         /\ Fragment(Len(calls), TRUE, TRUE, "").index = Len(calls)
         /\ Numbered(Append(calls, <<>>), GrowCall(q, Fragment(Len(calls), TRUE, TRUE, "")))
<1> DEFINE n == Len(calls)
           f == Fragment(n, TRUE, TRUE, "")
           g == GrowCall(q, f)
           d == Append(calls, <<>>)
<1>1. /\ calls \in Seq(Seq(Pieces)) /\ Size(q) = n /\ n \in Nat
      /\ \A i \in 1 .. n : calls[i] = q[i - 1].args
  BY CallListTyped DEF Numbered
<1>2. DOMAIN q = 0 .. n - 1 /\ IsCalls(q)
  BY <1>1, CallsDomain, Zenon
<1>3. IsFragment(f) /\ f.index = n /\ f.args = ""
  BY <1>1 DEF Fragment, IsFragment
<1> HIDE DEF f
<1>4. Size(g) = n + 1
  <2>1. f.index <= Size(q)
    <3>1. f.index = n /\ Size(q) = n /\ n \in Nat
      BY <1>1, <1>3, Zenon
    <3> HIDE DEF n
    <3> QED
      BY <3>1
  <2>2. f.index = Size(q) => Size(g) = Size(q) + 1
    BY <1>3, <2>1, GrowCallTyped, Zenon
  <2> QED
    BY <1>1, <1>3, <2>2
<1>5. g[n].args = <<>> /\ \A j \in DOMAIN q : j # n => g[j] = q[j]
  <2>1. /\ DOMAIN g = DOMAIN q \cup {n} /\ g[n] = Grow(Call(q, n), f)
        /\ \A j \in DOMAIN q : j # n => g[j] = q[j]
    BY <1>3 DEF GrowCall, Put
  <2>2. Grow(Call(q, n), f).args = AddArgs(Call(q, n).args, f.args)
    BY <1>2, <1>3, CallTyped, GrowTyped
  <2>3. Call(q, n) = NoCall
    BY <1>1, <1>2 DEF Call
  <2>4. NoCall.args = <<>> /\ AddArgs(<<>>, "") = <<>>
    BY DEF NoCall, AddArgs
  <2> QED
    BY <1>3, <2>1, <2>2, <2>3, <2>4, Zenon
<1> HIDE DEF g
<1>6. d \in Seq(Seq(Pieces)) /\ Len(d) = n + 1 /\ d[n + 1] = <<>>
      /\ \A i \in 1 .. n : d[i] = calls[i]
  <2> DEFINE S == Seq(Pieces)
  <2>1. calls \in Seq(S) /\ <<>> \in S
    BY <1>1
  <2> HIDE DEF S
  <2>2. d \in Seq(S) /\ Len(d) = n + 1 /\ d[n + 1] = <<>>
        /\ \A i \in 1 .. n : d[i] = calls[i]
    BY <1>1, <2>1
  <2> QED
    BY <2>2, Zenon DEF S
<1> HIDE DEF d, n
<1>7. \A i \in 1 .. n + 1 : d[i] = g[i - 1].args
  <2> TAKE i \in 1 .. n + 1
  <2>1. CASE i = n + 1
    <3>1. i - 1 = n
      BY <1>1, <2>1
    <3> QED
      BY <1>5, <1>6, <2>1, <3>1, Zenon
  <2>2. CASE i \in 1 .. n
    <3>1. i - 1 \in DOMAIN q /\ i - 1 # n
      BY <1>1, <1>2, <2>2
    <3> QED
      BY <1>1, <1>5, <1>6, <2>2, <3>1, Zenon
  <2> QED
    BY <1>1, <2>1, <2>2
<1>8. Numbered(d, g)
  BY <1>4, <1>6, <1>7, Zenon DEF Numbered
<1>9. n <= Size(q)
  BY <1>1
<1> QED
  BY <1>3, <1>8, <1>9, Zenon DEF n, f, g, d

\* Arguments more.
\* The calls in list are numbered when f, which goes on with call i, has come.
GrowsTo(list, q, i, f) ==
  IsFragment(f) /\ i <= Size(q) /\ f.index = i /\ Numbered(list, GrowCall(q, f))

LEMMA NumberedGrows ==
  ASSUME NEW calls, NEW q, IsCalls(q), Numbered(calls, q), NEW i \in Nat, i + 1 \in 1 .. Len(calls),
         NEW x \in Pieces
  PROVE  GrowsTo([calls EXCEPT ![i + 1] = AddArgs(@, x)], q, i, Fragment(i, FALSE, FALSE, x))
<1> DEFINE n == Len(calls)
           f == Fragment(i, FALSE, FALSE, x)
           g == GrowCall(q, f)
           y == AddArgs(calls[i + 1], x)
           d == [calls EXCEPT ![i + 1] = y]
<1>1. /\ calls \in Seq(Seq(Pieces)) /\ Size(q) = n /\ n \in Nat /\ i + 1 \in 1 .. n
      /\ \A j \in 1 .. n : calls[j] = q[j - 1].args
      /\ calls[i + 1] \in Seq(Pieces)
  BY CallListTyped DEF Numbered
<1>2. DOMAIN q = 0 .. n - 1 /\ IsCalls(q)
  BY <1>1, CallsDomain, Zenon
<1>3. IsFragment(f) /\ f.index = i /\ f.args = x
  BY <1>1 DEF Fragment, IsFragment
<1> HIDE DEF f
<1>10. i \in DOMAIN q /\ i <= n /\ i # n
  BY <1>1, <1>2
<1>4. Size(g) = n
  <2>1. f.index <= Size(q) /\ f.index # Size(q)
    BY <1>1, <1>3, <1>10
  <2>2. f.index # Size(q) => Size(g) = Size(q)
    BY <1>3, <2>1, GrowCallTyped, Zenon
  <2> QED
    BY <1>1, <2>1, <2>2, Zenon
<1>5. g[i].args = AddArgs(q[i].args, x) /\ \A j \in DOMAIN q : j # i => g[j] = q[j]
  <2>1. /\ DOMAIN g = DOMAIN q \cup {i} /\ g[i] = Grow(Call(q, i), f)
        /\ \A j \in DOMAIN q : j # i => g[j] = q[j]
    BY <1>3 DEF GrowCall, Put
  <2>2. Grow(Call(q, i), f).args = AddArgs(Call(q, i).args, f.args)
    BY <1>2, <1>3, CallTyped, GrowTyped
  <2>3. Call(q, i) = q[i]
    BY <1>10 DEF Call
  <2> QED
    BY <1>3, <2>1, <2>2, <2>3, Zenon
<1> HIDE DEF g
<1>11. y \in Seq(Pieces)
  <2>1. x # ""
    BY DEF Pieces
  <2>2. y = Append(calls[i + 1], x)
    BY <2>1 DEF AddArgs
  <2> HIDE DEF y
  <2> QED
    BY <1>1, <2>2
<1>6. d \in Seq(Seq(Pieces)) /\ Len(d) = n /\ d[i + 1] = y
      /\ \A j \in 1 .. n : j # i + 1 => d[j] = calls[j]
  <2> DEFINE S == Seq(Pieces)
             k == i + 1
             e == [calls EXCEPT ![k] = y]
  <2>1. calls \in Seq(S) /\ y \in S /\ k \in 1 .. n
    BY <1>1, <1>11
  <2> HIDE DEF S, y, k
  <2>2. e \in Seq(S) /\ Len(e) = n /\ e[k] = y
        /\ \A j \in 1 .. n : j # k => e[j] = calls[j]
    BY <1>1, <2>1
  <2> QED
    BY <2>2, Zenon DEF S, k
<1> HIDE DEF d, n
<1>7. \A j \in 1 .. n : d[j] = g[j - 1].args
  <2> TAKE j \in 1 .. n
  <2>1. CASE j = i + 1
    <3>1. j - 1 = i
      BY <1>1, <2>1
    <3>2. calls[j] = q[i].args
      BY <1>1, <2>1, <3>1
    <3> QED
      BY <1>5, <1>6, <2>1, <3>1, <3>2, Zenon
  <2>2. CASE j # i + 1
    <3>1. j - 1 \in DOMAIN q /\ j - 1 # i
      BY <1>1, <1>2, <2>2
    <3> QED
      BY <1>1, <1>5, <1>6, <2>2, <3>1, Zenon
  <2> QED
    BY <2>1, <2>2
<1>8. Numbered(d, g)
  BY <1>4, <1>6, <1>7, Zenon DEF Numbered
<1>9. i <= Size(q)
  BY <1>1, <1>10
<1>12. GrowsTo(d, q, i, f)
  BY <1>3, <1>8, <1>9, Zenon DEF GrowsTo, g
<1> QED
  BY <1>12, Zenon DEF f, d, y

(***************************************************************************)
(* A provider                                                              *)
(***************************************************************************)

\* The converter after an event is to the provider and the reply what it was
\* before.
LEMMA Translating ==
  ASSUME NEW t, NEW indices, NEW json, NEW received, NEW done, NEW text, NEW think, NEW calls,
         NEW finish, NEW out, NEW u, NEW r,
         Translated(t, indices, json, received, done, text, think, calls, finish, out),
         text = r.text, think = r.think, finish = r.finish,
         text = u.told["text"] + u.told["json"], think = u.told["thinking"],
         done = (u.stage \in {"done", "ended"}), received \in BOOLEAN,
         Numbered(calls, r.calls), HasCalls(calls, u),
         u.stage \in {"before", "between", "block"} => Knows(indices, json, received, u)
  PROVE  Translates(Clear(t), u, r)
<1>1. /\ DOMAIN t = AnthropicFields /\ t.indices = indices /\ t.json = json
      /\ t.received = received /\ t.done = done /\ t.text = text /\ t.think = think
      /\ t.calls = calls /\ t.finish = finish
  BY Zenon DEF Translated
<1>2. /\ DOMAIN Clear(t) = AnthropicFields /\ Clear(t) = Clear(Clear(t))
      /\ Clear(t).indices = indices /\ Clear(t).json = json
      /\ Clear(t).received = received /\ Clear(t).done = done
      /\ Clear(t).text = text /\ Clear(t).think = think /\ Clear(t).calls = calls
      /\ Clear(t).finish = finish
  BY <1>1, ClearAnthropic, Zenon
<1> QED
  BY <1>2, Zenon DEF Translates

\* What the provider is after an event.
Becomes(u, stage, count, kind, args, called, calls, told) ==
  /\ DOMAIN u = UpFields /\ u.source = up.source
  /\ u.stage = stage /\ u.count = count /\ u.kind = kind /\ u.args = args
  /\ u.called = called /\ u.calls = calls /\ u.told = told

IsUp(stage, count, kind, args, called, calls, told) ==
  /\ stage \in {"before", "between", "block", "stopped", "done", "ended"}
  /\ count \in Nat /\ kind \in ToldKinds \cup {"none"}
  /\ args \in Seq(Pieces) /\ called \in BOOLEAN /\ calls \in Seq(Seq(Pieces))
  /\ told \in [ToldKinds -> Nat]

\* A provider in the invariant.
Provides == FitInv /\ ~FromBackend

LEMMA ProviderHolds ==
  ASSUME Provides
  PROVE  /\ IsUp(up.stage, up.count, up.kind, up.args, up.called, up.calls, up.told)
         /\ DOMAIN up = UpFields /\ IsSource /\ up.source = "provider"
         /\ IsReply(sent) /\ Relayed(Reply, FromBackend)
         /\ Translates(conv.anthropic, up, sent)
         /\ conv.anthropic.out = <<>> /\ DOMAIN conv.anthropic = AnthropicFields
         /\ up.stage \notin {"done", "ended"} => Waits(conv.anthropic)
         /\ up.stage \in {"before", "between", "block"} =>
              Ongoing(Reply, FromBackend) /\ sent.finish = "none" /\ sent.error = FALSE
<1> DEFINE a == conv.anthropic
<1>1. UpTyped /\ Relayed(Reply, FromBackend) /\ Translates(a, up, sent) /\ ~FromBackend
      /\ (up.stage \in {"before", "between", "block"} => Ongoing(Reply, FromBackend))
  <2>1. up.stage \in {"before", "between", "block"} =>
          up.stage \in {"open", "before", "between", "block"}
    OBVIOUS
  <2> QED
    BY <2>1, Zenon DEF Provides, FitInv
<1>2. Reply.sent = sent
  BY DEF Reply
<1>3. IsReply(sent) /\ (Ongoing(Reply, FromBackend) => sent.finish = "none" /\ sent.error = FALSE)
  BY <1>1, <1>2, Zenon DEF Relayed, Ongoing
<1>4. up.source = "provider"
  BY <1>1 DEF UpTyped, IsSource, FromBackend
<1>5. IsUp(up.stage, up.count, up.kind, up.args, up.called, up.calls, up.told)
      /\ DOMAIN up = UpFields /\ IsSource
  <2>1. up.stage \in {"before", "between", "block", "stopped", "done", "ended"}
    BY <1>1 DEF UpTyped
  <2> QED
    BY <1>1, <2>1, Zenon DEF UpTyped, IsUp
<1>6. DOMAIN a = AnthropicFields /\ a = Clear(a) /\ a.done = (up.stage \in {"done", "ended"})
  BY <1>1, Zenon DEF Translates
<1>7. Clear(a).out = <<>>
  BY <1>6, ClearAnthropic, Zenon
<1>8. a.out = <<>>
  BY <1>6, <1>7, Zenon
<1>9. up.stage \notin {"done", "ended"} => a.done = FALSE
  <2>1. ASSUME up.stage \notin {"done", "ended"} PROVE a.done = FALSE
    <3>1. (up.stage \in {"done", "ended"}) = FALSE
      BY <2>1
    <3> QED
      BY <1>6, <3>1, Zenon
  <2> QED
    BY <2>1
<1> HIDE DEF a
<1>10. up.stage \notin {"done", "ended"} => Waits(a)
  BY <1>6, <1>8, <1>9, Zenon DEF Waits
<1> QED
  BY <1>1, <1>3, <1>4, <1>5, <1>6, <1>8, <1>10, Zenon DEF a

\* The step holds the invariant when its reply, its provider and its
\* converter fit again.
LEMMA ProviderKeeps ==
  ASSUME Provides, NEW a, NEW r, NEW stage, NEW count, NEW kind, NEW args, NEW called, NEW calls,
         NEW told, Follows(a, r), Becomes(up', stage, count, kind, args, called, calls, told),
         IsUp(stage, count, kind, args, called, calls, told),
         Translates(Clear(a), up', r),
         stage \in {"before", "between", "block"} => Ongoing(Reply', FromBackend),
         stage = "ended" => AtRest(Reply', FromBackend)
  PROVE  FitInv'
<1>1. /\ DOMAIN up' = UpFields /\ up'.source = up.source /\ up'.stage = stage
      /\ up'.count = count /\ up'.kind = kind /\ up'.args = args /\ up'.called = called
      /\ up'.calls = calls /\ up'.told = told
  BY Zenon DEF Becomes
<1>2. FromBackend' = FromBackend /\ (IsSource => IsSource')
  BY <1>1 DEF FromBackend, IsSource
<1>3. /\ stage \in {"before", "between", "block", "stopped", "done", "ended"}
      /\ count \in Nat /\ kind \in ToldKinds \cup {"none"}
      /\ args \in Seq(Pieces) /\ called \in BOOLEAN /\ calls \in Seq(Seq(Pieces))
      /\ told \in [ToldKinds -> Nat]
  BY Zenon DEF IsUp
<1>4. FitInv /\ ~FromBackend /\ ~FromBackend' /\ IsSource'
  BY <1>2, ProviderHolds, Zenon DEF Provides
<1>5. UpTyped'
  <2>1. up'.stage \in IF FromBackend' THEN {"open", "finished", "done", "ended"}
                      ELSE {"before", "between", "block", "stopped", "done", "ended"}
    BY <1>1, <1>3, <1>4, Zenon
  <2> QED
    BY <1>1, <1>3, <1>4, <2>1, Zenon DEF UpTyped
<1>6. /\ Relayed(Reply', FromBackend) /\ sent' = r /\ conv'.anthropic = Clear(a)
      /\ conv'.messages = conv.messages /\ seen'.messages = seen.messages
  BY <1>4, Zenon DEF Follows
<1>7. conv.messages = Messages!New /\ seen.messages = NewMessage
  BY <1>4, Zenon DEF FitInv
<1>8. up'.stage \in {"open", "before", "between", "block"} => Ongoing(Reply', FromBackend)
  BY <1>1, <1>3
<1>9. up'.stage = "ended" => AtRest(Reply', FromBackend)
  BY <1>1
<1>10. Relayed(Reply', FromBackend')
       /\ (up'.stage \in {"open", "before", "between", "block"} => Ongoing(Reply', FromBackend'))
       /\ (up'.stage = "ended" => AtRest(Reply', FromBackend'))
  BY <1>2, <1>6, <1>8, <1>9
<1>11. Translates(conv'.anthropic, up', sent')
  BY <1>6
<1> QED
  BY <1>5, <1>6, <1>7, <1>10, <1>11 DEF FitInv

\* What the converter does with each event.
LEMMA LineOf ==
  ASSUME NEW s, s.done = FALSE, NEW e
  PROVE  /\ e.type = "message_start" => Anthropic!Line(s, e) = Anthropic!Emit(s, Chunk)
         /\ e.type = "block_start" => Anthropic!Line(s, e) = Anthropic!BlockStart(s, e)
         /\ e.type = "delta" => Anthropic!Line(s, e) = Anthropic!BlockDelta(s, e)
         /\ e.type = "block_stop" => Anthropic!Line(s, e) = Anthropic!BlockStop(s, e)
         /\ e.type = "message_delta" => Anthropic!Line(s, e) = Anthropic!MessageDelta(s, e)
         /\ e.type = "message_stop" =>
              Anthropic!Line(s, e) = Anthropic!Ended(s, <<Sentinel("[DONE]")>>)
         /\ e.type = "error" =>
              Anthropic!Line(s, e) = Anthropic!Ended([s EXCEPT !.error = TRUE], <<Sentinel("error")>>)
         /\ e.type = "eof" => Anthropic!Line(s, e) = Anthropic!Finish(s)
<1>1. Anthropic!Chunk = Chunk /\ (\A t : Anthropic!Sentinel(t) = Sentinel(t))
  BY AnthropicOperators, Zenon
<1>2. Anthropic!Line(s, e) =
        CASE e.type = "message_start" -> Anthropic!Emit(s, Chunk)
          [] e.type = "block_start"   -> Anthropic!BlockStart(s, e)
          [] e.type = "delta"         -> Anthropic!BlockDelta(s, e)
          [] e.type = "block_stop"    -> Anthropic!BlockStop(s, e)
          [] e.type = "message_delta" -> Anthropic!MessageDelta(s, e)
          [] e.type = "message_stop"  -> Anthropic!Ended(s, <<Sentinel("[DONE]")>>)
          [] e.type = "error" ->
               Anthropic!Ended([s EXCEPT !.error = TRUE], <<Sentinel("error")>>)
          [] e.type = "eof"           -> Anthropic!Finish(s)
  BY <1>1 DEF Anthropic!Line
<1> QED
  BY <1>2

LEMMA FitMessageStart ==
  ASSUME Provides, MessageStart
  PROVE  FitInv'
<1> DEFINE s == conv.anthropic
           e == Event("message_start")
           a == Anthropic!Line(s, e)
           r == Carried(sent, Chunk)
<1>1. up.stage = "before" /\ up' = [up EXCEPT !.stage = "between"] /\ Feed(a.out, a)
  BY Zenon DEF MessageStart, Translate
<1>2. /\ IsUp(up.stage, up.count, up.kind, up.args, up.called, up.calls, up.told)
      /\ DOMAIN up = UpFields /\ IsSource /\ IsReply(sent) /\ Relayed(Reply, FromBackend)
      /\ Translates(s, up, sent) /\ Waits(s)
      /\ Ongoing(Reply, FromBackend) /\ sent.finish = "none" /\ sent.error = FALSE
  BY <1>1, ProviderHolds
<1>3. a = Anthropic!Emit(s, Chunk)
  <2>1. e.type = "message_start"
    BY DEF Event
  <2> QED
    BY <1>2, <2>1, LineOf, Zenon DEF Waits
<1> HIDE DEF s, a, e
<1>11. Translated(s, s.indices, s.json, s.received, FALSE, s.text, s.think, s.calls, s.finish, <<>>)
  BY <1>2, TranslatesNothing, Zenon
<1>4. Translated(a, s.indices, s.json, s.received, FALSE, s.text, s.think, s.calls, s.finish, <<Chunk>>)
  BY <1>3, <1>11, TranslatesOne, Zenon
<1>5. GoesOn(sent, Chunk) /\ Amounts(r, sent.text, sent.think, sent.calls, "none")
  BY <1>2, AddsLines, Zenon
<1>6. Follows(a, r) /\ Ongoing(Reply', FromBackend)
  <2>1. Feed(<<Chunk>>, a)
    BY <1>1, <1>4, Zenon DEF Translated
  <2>2. IsLine(sent, Chunk) /\ Chunk.type = "chunk" /\ Chunk.finish = "none"
    BY <1>5, Zenon DEF GoesOn
  <2> QED
    BY <1>2, <2>1, <2>2, FeedsOne, Zenon
<1>7. Becomes(up', "between", up.count, up.kind, up.args, up.called, up.calls, up.told)
  BY <1>1, <1>2 DEF Becomes, UpFields
<1>8. IsUp("between", up.count, up.kind, up.args, up.called, up.calls, up.told)
  BY <1>2 DEF IsUp
<1> HIDE DEF r
<1>9. Translates(Clear(a), up', r)
  <2>1. /\ s.text = sent.text /\ s.think = sent.think /\ s.finish = sent.finish
        /\ s.text = up.told["text"] + up.told["json"] /\ s.think = up.told["thinking"]
        /\ s.received \in BOOLEAN
        /\ Numbered(s.calls, sent.calls) /\ HasCalls(s.calls, up)
        /\ (up.stage \in {"before", "between", "block"} => Knows(s.indices, s.json, s.received, up))
    BY <1>2, Zenon DEF Translates
  <2>2. r.text = sent.text /\ r.think = sent.think /\ r.calls = sent.calls /\ r.finish = "none"
    BY <1>5, Zenon DEF Amounts
  <2>3. /\ up'.stage = "between" /\ up'.count = up.count /\ up'.kind = up.kind
        /\ up'.args = up.args /\ up'.called = up.called /\ up'.calls = up.calls
        /\ up'.told = up.told
    BY <1>7, Zenon DEF Becomes
  <2>4. Knows(s.indices, s.json, s.received, up')
    BY <1>1, <2>1, <2>3 DEF Knows
  <2>5. HasCalls(s.calls, up')
    BY <1>1, <2>1, <2>3 DEF HasCalls
  <2>6. FALSE = (up'.stage \in {"done", "ended"})
    BY <2>3
  <2> QED
    BY <1>2, <1>4, <2>1, <2>2, <2>3, <2>4, <2>5, <2>6, Translating, Zenon
<1>10. "between" # "ended"
  OBVIOUS
<1> QED
  BY <1>6, <1>7, <1>8, <1>9, <1>10, ProviderKeeps, Zenon

\* A block begins.
LEMMA BlockStarts ==
  ASSUME NEW s, Waits(s), NEW e, e.kind \in ToldKinds
  PROVE  LET a == Anthropic!BlockStart(s, e)
             f == Fragment(Len(s.calls), TRUE, TRUE, "")
         IN /\ e.kind \in {"text", "thinking"} =>
                 Translated(a, s.indices, s.json, s.received, FALSE, s.text, s.think, s.calls,
                            s.finish, <<>>)
            /\ e.kind = "json" =>
                 Translated(a, s.indices, {e.index}, s.received, FALSE, s.text, s.think, s.calls,
                            s.finish, <<>>)
            /\ e.kind = "tool" =>
                 Translated(a, Put(s.indices, e.index, Len(s.calls)), s.json, s.received, FALSE,
                            s.text, s.think, Append(s.calls, <<>>), s.finish, <<ToolLine(f)>>)
<1> DEFINE a == Anthropic!BlockStart(s, e)
           l == ToolLine(Fragment(Len(s.calls), TRUE, TRUE, ""))
           calls == Append(s.calls, <<>>)
           indices == Put(s.indices, e.index, Len(s.calls))
           t == [s EXCEPT !.calls = calls, !.indices = indices]
           j == [s EXCEPT !.json = {e.index}]
<1>1. a = CASE e.kind = "json" -> j
            [] e.kind = "tool" -> Anthropic!Emit(t, l)
            [] e.kind \in {"text", "thinking"} -> s
  <2>1. /\ t = [s EXCEPT !.calls = Append(@, <<>>),
                         !.indices = Anthropic!Put(@, e.index, Len(s.calls))]
        /\ l = [Anthropic!Chunk EXCEPT
                  !.tools = <<Anthropic!Fragment(Len(s.calls), TRUE, TRUE, "")>>]
    <3>1. /\ Anthropic!Put(s.indices, e.index, Len(s.calls)) = indices
          /\ Anthropic!Fragment(Len(s.calls), TRUE, TRUE, "") = Fragment(Len(s.calls), TRUE, TRUE, "")
          /\ Anthropic!Chunk = Chunk
      BY AnthropicOperators, Zenon
    <3>2. [s EXCEPT !.calls = Append(@, <<>>),
                    !.indices = Anthropic!Put(@, e.index, Len(s.calls))]
          = [s EXCEPT !.calls = calls,
                      !.indices = Anthropic!Put(s.indices, e.index, Len(s.calls))]
      OBVIOUS
    <3>3. l = [Chunk EXCEPT !.tools = <<Fragment(Len(s.calls), TRUE, TRUE, "")>>]
      BY Zenon DEF ToolLine
    <3> HIDE DEF calls, indices, l
    <3> QED
      BY <3>1, <3>2, <3>3, Zenon
  <2> HIDE DEF l, t, j
  <2> QED
    BY <2>1, Zenon DEF Anthropic!BlockStart, j
<1>2. DOMAIN s = AnthropicFields /\ s.out = <<>> /\ s.done = FALSE
  BY Zenon DEF Waits
<1> HIDE DEF l, calls, indices
<1>3. /\ DOMAIN t = AnthropicFields /\ t.indices = indices /\ t.json = s.json
      /\ t.received = s.received /\ t.done = FALSE /\ t.text = s.text /\ t.think = s.think
      /\ t.calls = calls /\ t.finish = s.finish /\ t.out = <<>>
  BY <1>2 DEF AnthropicFields
<1>4. /\ DOMAIN j = AnthropicFields /\ j.indices = s.indices /\ j.json = {e.index}
      /\ j.received = s.received /\ j.done = FALSE /\ j.text = s.text /\ j.think = s.think
      /\ j.calls = s.calls /\ j.finish = s.finish /\ j.out = <<>>
  BY <1>2 DEF AnthropicFields
<1> HIDE DEF a, t, j
<1>5. /\ e.kind \in {"text", "thinking"} => a = s
      /\ e.kind = "json" => a = j
      /\ e.kind = "tool" => a = Anthropic!Emit(t, l)
  BY <1>1
<1>6. Translated(s, s.indices, s.json, s.received, FALSE, s.text, s.think, s.calls, s.finish, <<>>)
  BY TranslatesNothing, Zenon
<1>7. Translated(j, s.indices, {e.index}, s.received, FALSE, s.text, s.think, s.calls, s.finish, <<>>)
  BY <1>4, Zenon DEF Translated
<1>9. Translated(t, indices, s.json, s.received, FALSE, s.text, s.think, calls, s.finish, <<>>)
  BY <1>3, Zenon DEF Translated
<1>8. Translated(Anthropic!Emit(t, l), indices, s.json, s.received, FALSE, s.text, s.think, calls,
                 s.finish, <<l>>)
  BY <1>9, TranslatesOne, Zenon
<1> QED
  BY <1>5, <1>6, <1>7, <1>8, Zenon DEF a, l, calls, indices

LEMMA FitContentBlockStart ==
  ASSUME Provides, ContentBlockStart
  PROVE  FitInv'
<1> DEFINE s == conv.anthropic
<1>1. PICK kind \in Kinds :
        /\ up.stage = "between" /\ up.count < MaxBlocks
        /\ kind = "json" => ~up.called
        /\ Translate([type |-> "block_start", index |-> up.count, kind |-> kind],
                     [up EXCEPT !.stage = "block", !.kind = kind, !.deltas = 0, !.args = <<>>,
                                !.called = @ \/ kind \in {"tool", "json"}])
  BY Zenon DEF ContentBlockStart
<1> DEFINE e == [type |-> "block_start", index |-> up.count, kind |-> kind]
           a == Anthropic!Line(s, e)
           called == up.called \/ kind \in {"tool", "json"}
<1>2. /\ Feed(a.out, a)
      /\ up' = [up EXCEPT !.stage = "block", !.kind = kind, !.deltas = 0, !.args = <<>>,
                          !.called = called]
  BY <1>1, Zenon DEF Translate
<1>3. /\ IsUp(up.stage, up.count, up.kind, up.args, up.called, up.calls, up.told)
      /\ DOMAIN up = UpFields /\ IsSource /\ IsReply(sent) /\ Relayed(Reply, FromBackend)
      /\ Translates(s, up, sent) /\ Waits(s)
      /\ Ongoing(Reply, FromBackend) /\ sent.finish = "none" /\ sent.error = FALSE
  BY <1>1, ProviderHolds
<1>4. kind \in ToldKinds /\ e.kind = kind /\ e.index = up.count /\ e.type = "block_start"
  BY DEF Kinds, ToldKinds
<1>5. a = Anthropic!BlockStart(s, e)
  BY <1>3, <1>4, LineOf, Zenon DEF Waits
<1>6. Becomes(up', "block", up.count, kind, <<>>, called, up.calls, up.told)
  BY <1>2, <1>3 DEF Becomes, UpFields
<1>7. IsUp("block", up.count, kind, <<>>, called, up.calls, up.told)
  <2>1. <<>> \in Seq(Pieces) /\ called \in BOOLEAN /\ kind \in ToldKinds \cup {"none"}
        /\ "block" \in {"before", "between", "block", "stopped", "done", "ended"}
    <3>1. up.called \in BOOLEAN
      BY <1>3, Zenon DEF IsUp
    <3> HIDE DEF Pieces
    <3> QED
      BY <1>4, <3>1
  <2> QED
    BY <1>3, <2>1, Zenon DEF IsUp
<1>8. /\ called = up.called \/ called = TRUE
      /\ ~called => up.called = FALSE
      /\ kind = "json" => called
  BY <1>3 DEF IsUp
<1>9. /\ up'.stage = "block" /\ up'.count = up.count /\ up'.kind = kind
      /\ up'.args = <<>> /\ up'.called = called /\ up'.calls = up.calls /\ up'.told = up.told
  BY <1>6, Zenon DEF Becomes
<1> HIDE DEF s, a, e, called
<1>10. /\ s.text = sent.text /\ s.think = sent.think /\ s.finish = sent.finish
       /\ s.text = up.told["text"] + up.told["json"] /\ s.think = up.told["thinking"]
       /\ s.received \in BOOLEAN
       /\ Numbered(s.calls, sent.calls) /\ HasCalls(s.calls, up)
       /\ Knows(s.indices, s.json, s.received, up)
  <2>1. up.stage \in {"before", "between", "block"}
    BY <1>1
  <2> QED
    BY <1>3, <2>1, Zenon DEF Translates
<1>11. FALSE = (up'.stage \in {"done", "ended"}) /\ "block" # "ended"
  BY <1>9
<1>12. up.count \in Nat /\ s.calls \in Seq(Seq(Pieces)) /\ up.calls \in Seq(Seq(Pieces))
  BY <1>3, <1>10, Zenon DEF IsUp, Numbered
<1>13. /\ s.json \in SUBSET (0 .. up.count) /\ DOMAIN s.indices \in SUBSET (0 .. up.count)
       /\ up.count \notin s.json /\ up.count \notin DOMAIN s.indices
       /\ ~up.called => s.received = FALSE
  BY <1>1, <1>10 DEF Knows
<1>14. /\ Len(s.calls) = Len(up.calls) /\ Len(s.calls) \in Nat
       /\ \A i \in 1 .. Len(up.calls) :
            s.calls[i] = IF up.calls[i] = <<>> THEN <<"whole">> ELSE up.calls[i]
  <2>1. Len(s.calls) \in Nat
    BY <1>12, CallListTyped
  <2> QED
    BY <1>1, <1>10, <2>1 DEF HasCalls
<1>15. ASSUME kind \in {"text", "thinking", "json"} PROVE FitInv'
  <2> DEFINE json == IF kind = "json" THEN {up.count} ELSE s.json
  <2>1. Translated(a, s.indices, json, s.received, FALSE, s.text, s.think, s.calls, s.finish, <<>>)
    BY <1>3, <1>4, <1>5, <1>15, BlockStarts
  <2>2. Feed(<<>>, a)
    BY <1>2, <2>1, Zenon DEF Translated
  <2>3. Follows(a, sent) /\ Ongoing(Reply', FromBackend)
    BY <1>3, <2>2, FeedsNothing, Zenon
  <2>4. HasCalls(s.calls, up')
    BY <1>9, <1>14, <1>15 DEF HasCalls
  <2>5. Knows(s.indices, json, s.received, up')
    <3>1. /\ json \in SUBSET (0 .. up.count)
          /\ up.count \in json <=> kind = "json"
      BY <1>12, <1>13
    <3>2. (kind = "json" => s.received = FALSE) /\ (~called => s.received = FALSE)
      BY <1>1, <1>8, <1>13
    <3>3. s.received = (up'.args # <<>>) \/ kind # "json"
      BY <1>9, <3>2
    <3>4. kind # "none" /\ kind # "tool"
      BY <1>15
    <3> HIDE DEF json
    <3> QED
      BY <1>8, <1>9, <1>13, <3>1, <3>2, <3>3, <3>4 DEF Knows
  <2>6. Translates(Clear(a), up', sent)
    <3> HIDE DEF json
    <3> QED
      BY <1>9, <1>10, <1>11, <2>1, <2>4, <2>5, Translating, Zenon
  <2> QED
    BY <1>6, <1>7, <1>11, <2>3, <2>6, ProviderKeeps, Zenon
<1>16. ASSUME kind = "tool" PROVE FitInv'
  <2> DEFINE n == Len(s.calls)
             f == Fragment(n, TRUE, TRUE, "")
             l == ToolLine(f)
             r == Carried(sent, l)
             calls == Append(s.calls, <<>>)
             indices == Put(s.indices, up.count, n)
  <2>1. Translated(a, indices, s.json, s.received, FALSE, s.text, s.think, calls, s.finish, <<l>>)
    BY <1>3, <1>4, <1>5, <1>16, BlockStarts
  <2>2. Feed(<<l>>, a)
    BY <1>2, <2>1, Zenon DEF Translated
  <2>3. IsFragment(f) /\ n <= Size(sent.calls) /\ f.index = n
        /\ Numbered(calls, GrowCall(sent.calls, f))
    BY <1>3, <1>10, NumberedNew, Zenon DEF IsReply
  <2>4. GoesOn(sent, l) /\ Amounts(r, sent.text, sent.think, GrowCall(sent.calls, f), "none")
    <3>1. f.index <= Size(sent.calls)
      BY <2>3, Zenon
    <3> HIDE DEF f
    <3> QED
      BY <1>3, <2>3, <3>1, AddsLines, Zenon
  <2>5. Follows(a, r) /\ Ongoing(Reply', FromBackend)
    BY <1>3, <2>2, <2>4, FeedsOne, Zenon DEF GoesOn
  <2>6. HasCalls(calls, up')
    <3>1. /\ Len(calls) = n + 1 /\ calls[n + 1] = <<>>
          /\ \A i \in 1 .. n : calls[i] = s.calls[i]
      <4> DEFINE S == Seq(Pieces)
      <4>1. s.calls \in Seq(S)
        BY <1>12
      <4> HIDE DEF S
      <4> QED
        BY <4>1
    <3>2. n = Len(up.calls) /\ n \in Nat
      BY <1>14
    <3> HIDE DEF calls, n
    <3> QED
      BY <1>9, <1>14, <1>16, <3>1, <3>2 DEF HasCalls
  <2>7. Knows(indices, s.json, s.received, up')
    <3>1. DOMAIN indices = DOMAIN s.indices \cup {up.count} /\ indices[up.count] = n
      BY DEF Put
    <3>2. n = Len(up.calls)
      BY <1>14
    <3> HIDE DEF indices, n
    <3>3. DOMAIN indices \in SUBSET (0 .. up.count) /\ up.count \in DOMAIN indices
      BY <1>12, <1>13, <3>1
    <3> QED
      BY <1>8, <1>9, <1>13, <1>16, <3>1, <3>2, <3>3 DEF Knows
  <2>8. r.text = sent.text /\ r.think = sent.think /\ r.finish = "none"
        /\ Numbered(calls, r.calls)
    BY <2>3, <2>4, Zenon DEF Amounts
  <2> HIDE DEF calls, indices, l, r
  <2>9. Translates(Clear(a), up', r)
    BY <1>3, <1>9, <1>10, <1>11, <2>1, <2>6, <2>7, <2>8, Translating, Zenon
  <2> QED
    BY <1>6, <1>7, <1>11, <2>5, <2>9, ProviderKeeps, Zenon
<1> QED
  BY <1>4, <1>15, <1>16 DEF ToldKinds

\* A delta.
LEMMA BlockThinks ==
  ASSUME NEW s, Waits(s)
  PROVE  Translated(Anthropic!Emit([s EXCEPT !.think = @ + 1], ThinkLine), s.indices, s.json,
                    s.received, FALSE, s.text, s.think + 1, s.calls, s.finish, <<ThinkLine>>)
<1> DEFINE n == s.think + 1
           t == [s EXCEPT !.think = n]
<1>1. DOMAIN s = AnthropicFields /\ s.out = <<>> /\ s.done = FALSE
  BY Zenon DEF Waits
<1>2. [s EXCEPT !.think = @ + 1] = t
  OBVIOUS
<1> HIDE DEF n
<1>3. /\ DOMAIN t = AnthropicFields /\ t.indices = s.indices /\ t.json = s.json
      /\ t.received = s.received /\ t.done = FALSE /\ t.text = s.text /\ t.think = n
      /\ t.calls = s.calls /\ t.finish = s.finish /\ t.out = <<>>
  BY <1>1 DEF AnthropicFields
<1> HIDE DEF t
<1>5. Translated(t, s.indices, s.json, s.received, FALSE, s.text, n, s.calls, s.finish, <<>>)
  BY <1>3, Zenon DEF Translated
<1>4. Translated(Anthropic!Emit(t, ThinkLine), s.indices, s.json, s.received, FALSE, s.text, n,
                 s.calls, s.finish, <<ThinkLine>>)
  BY <1>5, TranslatesOne, Zenon
<1> QED
  BY <1>2, <1>4, Zenon DEF n

LEMMA DeltaOf ==
  ASSUME NEW s, NEW e, e.kind \in ToldKinds
  PROVE  /\ e.kind = "text" => Anthropic!BlockDelta(s, e) = Anthropic!Content(s)
         /\ e.kind = "thinking" =>
              Anthropic!BlockDelta(s, e) = Anthropic!Emit([s EXCEPT !.think = @ + 1], ThinkLine)
         /\ e.kind = "json" /\ e.index \in s.json /\ e.index \notin DOMAIN s.indices =>
              Anthropic!BlockDelta(s, e) =
                IF e.args = "" THEN s ELSE Anthropic!Content([s EXCEPT !.received = TRUE])
         /\ e.kind = "tool" /\ e.index \notin s.json /\ e.index \in DOMAIN s.indices =>
              Anthropic!BlockDelta(s, e) = Anthropic!Arguments(s, s.indices[e.index], e.args)
<1> DEFINE c == Anthropic!Content(s)
           t == Anthropic!Emit([s EXCEPT !.think = @ + 1], ThinkLine)
           j == IF e.args = "" THEN s ELSE Anthropic!Content([s EXCEPT !.received = TRUE])
           g == Anthropic!Arguments(s, s.indices[e.index], e.args)
           i == Anthropic!InputDelta(s, e)
<1>1. Anthropic!BlockDelta(s, e) =
        CASE e.kind = "text" -> c
          [] e.kind = "thinking" -> t
          [] e.kind \in {"tool", "json"} -> i
  <2>1. Anthropic!Chunk = Chunk
    BY AnthropicOperators, Zenon
  <2> QED
    BY <2>1, Zenon DEF Anthropic!BlockDelta, ThinkLine
<1>2. i = CASE e.index \in s.json -> j
            [] e.index \in DOMAIN s.indices -> g
  BY Zenon DEF Anthropic!InputDelta
<1> HIDE DEF c, t, j, g, i
<1>3. /\ e.kind = "text" => Anthropic!BlockDelta(s, e) = c
      /\ e.kind = "thinking" => Anthropic!BlockDelta(s, e) = t
      /\ e.kind \in {"tool", "json"} => Anthropic!BlockDelta(s, e) = i
  BY <1>1
<1>4. /\ e.index \in s.json /\ e.index \notin DOMAIN s.indices => i = j
      /\ e.index \notin s.json /\ e.index \in DOMAIN s.indices => i = g
  BY <1>2
<1>5. /\ e.kind = "json" /\ e.index \in s.json /\ e.index \notin DOMAIN s.indices =>
           Anthropic!BlockDelta(s, e) = j
      /\ e.kind = "tool" /\ e.index \notin s.json /\ e.index \in DOMAIN s.indices =>
           Anthropic!BlockDelta(s, e) = g
  BY <1>3, <1>4
<1> QED
  BY <1>3, <1>5, Zenon DEF c, t, j, g

\* Nothing is added to a call's arguments.
LEMMA SameFunction ==
  ASSUME NEW S, NEW c \in Seq(S), NEW i \in 1 .. Len(c), NEW y, y = c[i]
  PROVE  [c EXCEPT ![i] = y] = c
OBVIOUS

LEMMA AddsNoArgs ==
  ASSUME NEW calls \in Seq(Seq(Pieces)), NEW i \in 1 .. Len(calls)
  PROVE  [calls EXCEPT ![i] = AddArgs(@, "")] = calls
<1> DEFINE d == [calls EXCEPT ![i] = AddArgs(@, "")]
<1>1. AddArgs(calls[i], "") = calls[i]
  BY DEF AddArgs
<1>2. d = [calls EXCEPT ![i] = calls[i]]
  BY <1>1, Zenon
<1>3. [calls EXCEPT ![i] = calls[i]] = calls
  BY SameFunction, Zenon
<1>4. d = calls
  BY <1>2, <1>3, Zenon
<1> QED
  BY <1>4, Zenon

LEMMA Appended ==
  ASSUME NEW S, NEW q \in Seq(S), NEW x \in S
  PROVE  Append(q, x) # <<>>
<1>1. Len(Append(q, x)) = Len(q) + 1 /\ Len(q) \in Nat
  OBVIOUS
<1>2. Len(<<>>) = 0
  OBVIOUS
<1>3. Len(Append(q, x)) # Len(<<>>)
  BY <1>1, <1>2
<1> QED
  BY <1>3, Zenon


\* What every delta does.
Delta(x, a, args, told) ==
  /\ up.stage = "block" /\ Feed(a.out, a)
  /\ a = Anthropic!BlockDelta(conv.anthropic, [type |-> "delta", index |-> up.count,
                                              kind |-> up.kind, args |-> x])
  /\ Becomes(up', "block", up.count, up.kind, args, up.called, up.calls, told)
  /\ IsUp("block", up.count, up.kind, args, up.called, up.calls, told)
  /\ up.kind \in ToldKinds
  /\ up.kind \in {"text", "thinking"} => x = "x" /\ args = up.args
  /\ up.kind \in {"tool", "json"} =>
       x \in Pieces \cup {""} /\ x # "x" /\ args = AddArgs(up.args, x)
  /\ told[up.kind] = up.told[up.kind] + Num(x # "")
  /\ \A k \in ToldKinds : k # up.kind => told[k] = up.told[k]

LEMMA DeltaOfText ==
  ASSUME Provides, NEW x, NEW a, NEW args, NEW told, Delta(x, a, args, told), up.kind = "text"
  PROVE  FitInv'
<1>1. /\ up.stage = "block" /\ Feed(a.out, a)
      /\ Becomes(up', "block", up.count, up.kind, args, up.called, up.calls, told)
      /\ IsUp("block", up.count, up.kind, args, up.called, up.calls, told)
      /\ up.kind \in ToldKinds
      /\ told[up.kind] = up.told[up.kind] + Num(x # "")
      /\ \A k \in ToldKinds : k # up.kind => told[k] = up.told[k]
  BY Zenon DEF Delta
<1> DEFINE s == conv.anthropic
           e == [type |-> "delta", index |-> up.count, kind |-> up.kind, args |-> x]
           m == Num(x # "")
<1>3. /\ IsUp(up.stage, up.count, up.kind, up.args, up.called, up.calls, up.told)
      /\ DOMAIN up = UpFields /\ IsSource /\ IsReply(sent) /\ Relayed(Reply, FromBackend)
      /\ Translates(s, up, sent) /\ Waits(s)
      /\ Ongoing(Reply, FromBackend) /\ sent.finish = "none" /\ sent.error = FALSE
  BY <1>1, ProviderHolds
<1>4. e.kind = up.kind /\ e.index = up.count /\ e.type = "delta" /\ e.args = x
  OBVIOUS
<1>5. a = Anthropic!BlockDelta(s, e)
  BY Zenon DEF Delta
<1>10. /\ s.text = sent.text /\ s.think = sent.think /\ s.finish = sent.finish
       /\ s.text = up.told["text"] + up.told["json"] /\ s.think = up.told["thinking"]
       /\ s.received \in BOOLEAN
       /\ Numbered(s.calls, sent.calls) /\ HasCalls(s.calls, up)
       /\ Knows(s.indices, s.json, s.received, up)
  <2>1. up.stage \in {"before", "between", "block"}
    BY <1>1
  <2> QED
    BY <1>3, <2>1, Zenon DEF Translates
<1>6. up.kind \in ToldKinds /\ up.told \in [ToldKinds -> Nat] /\ up.args \in Seq(Pieces)
      /\ up.calls \in Seq(Seq(Pieces)) /\ s.calls \in Seq(Seq(Pieces)) /\ up.count \in Nat
  BY <1>1, <1>3, <1>10, Zenon DEF IsUp, Numbered
<1>8. m \in Nat /\ (x = "" => m = 0) /\ (x # "" => m = 1)
  BY DEF Num
<1>9. /\ told[up.kind] = up.told[up.kind] + m
      /\ \A k \in ToldKinds : k # up.kind => told[k] = up.told[k]
  BY <1>1
<1>14. /\ up'.stage = "block" /\ up'.count = up.count /\ up'.kind = up.kind
       /\ up'.args = args /\ up'.called = up.called /\ up'.calls = up.calls /\ up'.told = told
  BY <1>1, Zenon DEF Becomes
<1>15. FALSE = (up'.stage \in {"done", "ended"}) /\ "block" # "ended"
  <2>1. up'.stage = "block"
    BY <1>14, Zenon
  <2> QED
    BY <2>1
<1>2. up.kind = "text"
  OBVIOUS
<1>7. x = "x" /\ args = up.args
  <2>1. up.kind \in {"text", "thinking"}
    BY <1>2
  <2> QED
    BY <2>1, Zenon DEF Delta
<1> HIDE DEF s, e, m
<1>19. HasCalls(s.calls, up')
  BY <1>1, <1>2, <1>10, <1>14 DEF HasCalls
<1>31. Translated(a, s.indices, s.json, s.received, FALSE, s.text + 1, s.think, s.calls, s.finish,
                 <<TextLine>>)
  <2>1. a = Anthropic!Content(s)
    BY <1>4, <1>5, <1>6, <1>2, DeltaOf, Zenon
  <2> QED
    BY <1>3, <2>1, TranslatesContent, Zenon
<1>32. Feed(<<TextLine>>, a)
  BY <1>1, <1>31, Zenon DEF Translated
<1> DEFINE r == Carried(sent, TextLine)
<1>33. GoesOn(sent, TextLine) /\ Amounts(r, sent.text + 1, sent.think, sent.calls, "none")
  BY <1>3, AddsLines, Zenon
<1>34. Follows(a, r) /\ Ongoing(Reply', FromBackend)
  BY <1>3, <1>32, <1>33, FeedsOne, Zenon DEF GoesOn
<1>35. Knows(s.indices, s.json, s.received, up')
  BY <1>1, <1>10, <1>14, <1>2 DEF Knows
<1>36. /\ s.text + 1 = told["text"] + told["json"] /\ s.think = told["thinking"]
      /\ s.text + 1 = sent.text + 1
  <2>1. m = 1 /\ up.told["text"] \in Nat /\ up.told["json"] \in Nat /\ sent.text \in Nat
    BY <1>3, <1>6, <1>7, <1>8, <1>2 DEF ToldKinds, IsReply
  <2>2. told["text"] = up.told["text"] + 1 /\ told["json"] = up.told["json"]
        /\ told["thinking"] = up.told["thinking"]
    BY <1>9, <1>2, <2>1 DEF ToldKinds
  <2> QED
    BY <1>10, <2>1, <2>2
<1>37. r.text = sent.text + 1 /\ r.think = sent.think /\ r.finish = "none" /\ r.calls = sent.calls
  BY <1>33, Zenon DEF Amounts
<1>38. HasCalls(s.calls, up')
  BY <1>19, <1>2
<1> HIDE DEF r
<1>39. Translates(Clear(a), up', r)
  <2> DEFINE n == s.text + 1
  <2>1. n = r.text /\ n = up'.told["text"] + up'.told["json"] /\ s.think = up'.told["thinking"]
    BY <1>14, <1>36, <1>37
  <2>2. Translated(a, s.indices, s.json, s.received, FALSE, n, s.think, s.calls, s.finish,
                   <<TextLine>>)
    BY <1>31
  <2> HIDE DEF n
  <2> QED
    BY <1>3, <1>10, <1>15, <1>35, <1>37, <1>38, <2>1, <2>2, Translating, Zenon
<1> QED
  BY <1>1, <1>15, <1>34, <1>39, ProviderKeeps, Zenon

LEMMA DeltaOfThinking ==
  ASSUME Provides, NEW x, NEW a, NEW args, NEW told, Delta(x, a, args, told), up.kind = "thinking"
  PROVE  FitInv'
<1>1. /\ up.stage = "block" /\ Feed(a.out, a)
      /\ Becomes(up', "block", up.count, up.kind, args, up.called, up.calls, told)
      /\ IsUp("block", up.count, up.kind, args, up.called, up.calls, told)
      /\ up.kind \in ToldKinds
      /\ told[up.kind] = up.told[up.kind] + Num(x # "")
      /\ \A k \in ToldKinds : k # up.kind => told[k] = up.told[k]
  BY Zenon DEF Delta
<1> DEFINE s == conv.anthropic
           e == [type |-> "delta", index |-> up.count, kind |-> up.kind, args |-> x]
           m == Num(x # "")
<1>3. /\ IsUp(up.stage, up.count, up.kind, up.args, up.called, up.calls, up.told)
      /\ DOMAIN up = UpFields /\ IsSource /\ IsReply(sent) /\ Relayed(Reply, FromBackend)
      /\ Translates(s, up, sent) /\ Waits(s)
      /\ Ongoing(Reply, FromBackend) /\ sent.finish = "none" /\ sent.error = FALSE
  BY <1>1, ProviderHolds
<1>4. e.kind = up.kind /\ e.index = up.count /\ e.type = "delta" /\ e.args = x
  OBVIOUS
<1>5. a = Anthropic!BlockDelta(s, e)
  BY Zenon DEF Delta
<1>10. /\ s.text = sent.text /\ s.think = sent.think /\ s.finish = sent.finish
       /\ s.text = up.told["text"] + up.told["json"] /\ s.think = up.told["thinking"]
       /\ s.received \in BOOLEAN
       /\ Numbered(s.calls, sent.calls) /\ HasCalls(s.calls, up)
       /\ Knows(s.indices, s.json, s.received, up)
  <2>1. up.stage \in {"before", "between", "block"}
    BY <1>1
  <2> QED
    BY <1>3, <2>1, Zenon DEF Translates
<1>6. up.kind \in ToldKinds /\ up.told \in [ToldKinds -> Nat] /\ up.args \in Seq(Pieces)
      /\ up.calls \in Seq(Seq(Pieces)) /\ s.calls \in Seq(Seq(Pieces)) /\ up.count \in Nat
  BY <1>1, <1>3, <1>10, Zenon DEF IsUp, Numbered
<1>8. m \in Nat /\ (x = "" => m = 0) /\ (x # "" => m = 1)
  BY DEF Num
<1>9. /\ told[up.kind] = up.told[up.kind] + m
      /\ \A k \in ToldKinds : k # up.kind => told[k] = up.told[k]
  BY <1>1
<1>14. /\ up'.stage = "block" /\ up'.count = up.count /\ up'.kind = up.kind
       /\ up'.args = args /\ up'.called = up.called /\ up'.calls = up.calls /\ up'.told = told
  BY <1>1, Zenon DEF Becomes
<1>15. FALSE = (up'.stage \in {"done", "ended"}) /\ "block" # "ended"
  <2>1. up'.stage = "block"
    BY <1>14, Zenon
  <2> QED
    BY <2>1
<1>2. up.kind = "thinking"
  OBVIOUS
<1>7. x = "x" /\ args = up.args
  <2>1. up.kind \in {"text", "thinking"}
    BY <1>2
  <2> QED
    BY <2>1, Zenon DEF Delta
<1> HIDE DEF s, e, m
<1>19. HasCalls(s.calls, up')
  BY <1>1, <1>2, <1>10, <1>14 DEF HasCalls
<1>31. Translated(a, s.indices, s.json, s.received, FALSE, s.text, s.think + 1, s.calls, s.finish,
                 <<ThinkLine>>)
  <2>1. a = Anthropic!Emit([s EXCEPT !.think = @ + 1], ThinkLine)
    BY <1>4, <1>5, <1>6, <1>2, DeltaOf, Zenon
  <2> QED
    BY <1>3, <2>1, BlockThinks, Zenon
<1>32. Feed(<<ThinkLine>>, a)
  BY <1>1, <1>31, Zenon DEF Translated
<1> DEFINE r == Carried(sent, ThinkLine)
<1>33. GoesOn(sent, ThinkLine) /\ Amounts(r, sent.text, sent.think + 1, sent.calls, "none")
  BY <1>3, AddsLines, Zenon
<1>34. Follows(a, r) /\ Ongoing(Reply', FromBackend)
  BY <1>3, <1>32, <1>33, FeedsOne, Zenon DEF GoesOn
<1>35. Knows(s.indices, s.json, s.received, up')
  BY <1>1, <1>10, <1>14, <1>2 DEF Knows
<1>36. /\ s.text = told["text"] + told["json"] /\ s.think + 1 = told["thinking"]
      /\ s.think + 1 = sent.think + 1
  <2>1. m = 1 /\ up.told["thinking"] \in Nat /\ sent.think \in Nat
    BY <1>3, <1>6, <1>7, <1>8, <1>2 DEF ToldKinds, IsReply
  <2>2. told["text"] = up.told["text"] /\ told["json"] = up.told["json"]
        /\ told["thinking"] = up.told["thinking"] + 1
    BY <1>9, <1>2, <2>1 DEF ToldKinds
  <2> QED
    BY <1>10, <2>1, <2>2
<1>37. r.text = sent.text /\ r.think = sent.think + 1 /\ r.finish = "none" /\ r.calls = sent.calls
  BY <1>33, Zenon DEF Amounts
<1>38. HasCalls(s.calls, up')
  BY <1>19, <1>2
<1> HIDE DEF r
<1>39. Translates(Clear(a), up', r)
  <2> DEFINE n == s.think + 1
  <2>1. n = r.think /\ s.text = up'.told["text"] + up'.told["json"] /\ n = up'.told["thinking"]
    BY <1>14, <1>36, <1>37
  <2>2. Translated(a, s.indices, s.json, s.received, FALSE, s.text, n, s.calls, s.finish,
                   <<ThinkLine>>)
    BY <1>31
  <2> HIDE DEF n
  <2> QED
    BY <1>3, <1>10, <1>15, <1>35, <1>37, <1>38, <2>1, <2>2, Translating, Zenon
<1> QED
  BY <1>1, <1>15, <1>34, <1>39, ProviderKeeps, Zenon

LEMMA DeltaOfJson ==
  ASSUME Provides, NEW x, NEW a, NEW args, NEW told, Delta(x, a, args, told), up.kind = "json"
  PROVE  FitInv'
<1>1. /\ up.stage = "block" /\ Feed(a.out, a)
      /\ Becomes(up', "block", up.count, up.kind, args, up.called, up.calls, told)
      /\ IsUp("block", up.count, up.kind, args, up.called, up.calls, told)
      /\ up.kind \in ToldKinds
      /\ told[up.kind] = up.told[up.kind] + Num(x # "")
      /\ \A k \in ToldKinds : k # up.kind => told[k] = up.told[k]
  BY Zenon DEF Delta
<1> DEFINE s == conv.anthropic
           e == [type |-> "delta", index |-> up.count, kind |-> up.kind, args |-> x]
           m == Num(x # "")
<1>3. /\ IsUp(up.stage, up.count, up.kind, up.args, up.called, up.calls, up.told)
      /\ DOMAIN up = UpFields /\ IsSource /\ IsReply(sent) /\ Relayed(Reply, FromBackend)
      /\ Translates(s, up, sent) /\ Waits(s)
      /\ Ongoing(Reply, FromBackend) /\ sent.finish = "none" /\ sent.error = FALSE
  BY <1>1, ProviderHolds
<1>4. e.kind = up.kind /\ e.index = up.count /\ e.type = "delta" /\ e.args = x
  OBVIOUS
<1>5. a = Anthropic!BlockDelta(s, e)
  BY Zenon DEF Delta
<1>10. /\ s.text = sent.text /\ s.think = sent.think /\ s.finish = sent.finish
       /\ s.text = up.told["text"] + up.told["json"] /\ s.think = up.told["thinking"]
       /\ s.received \in BOOLEAN
       /\ Numbered(s.calls, sent.calls) /\ HasCalls(s.calls, up)
       /\ Knows(s.indices, s.json, s.received, up)
  <2>1. up.stage \in {"before", "between", "block"}
    BY <1>1
  <2> QED
    BY <1>3, <2>1, Zenon DEF Translates
<1>6. up.kind \in ToldKinds /\ up.told \in [ToldKinds -> Nat] /\ up.args \in Seq(Pieces)
      /\ up.calls \in Seq(Seq(Pieces)) /\ s.calls \in Seq(Seq(Pieces)) /\ up.count \in Nat
  BY <1>1, <1>3, <1>10, Zenon DEF IsUp, Numbered
<1>8. m \in Nat /\ (x = "" => m = 0) /\ (x # "" => m = 1)
  BY DEF Num
<1>9. /\ told[up.kind] = up.told[up.kind] + m
      /\ \A k \in ToldKinds : k # up.kind => told[k] = up.told[k]
  BY <1>1
<1>14. /\ up'.stage = "block" /\ up'.count = up.count /\ up'.kind = up.kind
       /\ up'.args = args /\ up'.called = up.called /\ up'.calls = up.calls /\ up'.told = told
  BY <1>1, Zenon DEF Becomes
<1>15. FALSE = (up'.stage \in {"done", "ended"}) /\ "block" # "ended"
  <2>1. up'.stage = "block"
    BY <1>14, Zenon
  <2> QED
    BY <2>1
<1>2. up.kind = "json"
  OBVIOUS
<1>7. x \in Pieces \cup {""} /\ x # "x" /\ args = AddArgs(up.args, x)
  <2>1. up.kind \in {"tool", "json"}
    BY <1>2
  <2> QED
    BY <2>1, Zenon DEF Delta
<1> HIDE DEF s, e, m
<1>19. HasCalls(s.calls, up')
  BY <1>1, <1>2, <1>10, <1>14 DEF HasCalls
<1>31. up.count \in s.json /\ up.called = TRUE /\ s.received = (up.args # <<>>)
  <2>1. up.called \in BOOLEAN
    BY <1>3, Zenon DEF IsUp
  <2> QED
    BY <1>1, <1>10, <1>2, <2>1 DEF Knows
<1>32. a = IF x = "" THEN s ELSE Anthropic!Content([s EXCEPT !.received = TRUE])
  <2>1. up.count \notin DOMAIN s.indices
    BY <1>10, <1>2 DEF Knows
  <2> QED
    BY <1>4, <1>5, <1>6, <1>2, <1>31, <2>1, DeltaOf, Zenon
<1>38. HasCalls(s.calls, up')
  BY <1>19, <1>2
<1>33. CASE x = ""
  <2>1. Translated(a, s.indices, s.json, s.received, FALSE, s.text, s.think, s.calls, s.finish, <<>>)
    BY <1>3, <1>32, <1>33, TranslatesNothing, Zenon
  <2>2. Feed(<<>>, a)
    BY <1>1, <2>1, Zenon DEF Translated
  <2>3. Follows(a, sent) /\ Ongoing(Reply', FromBackend)
    BY <1>3, <2>2, FeedsNothing, Zenon
  <2>4. Knows(s.indices, s.json, s.received, up')
    <3>1. args = up.args
      BY <1>7, <1>33 DEF AddArgs
    <3> QED
      BY <1>1, <1>10, <1>14, <3>1 DEF Knows
  <2>5. s.text = up'.told["text"] + up'.told["json"] /\ s.think = up'.told["thinking"]
    <3>1. m = 0 /\ up.told["json"] \in Nat
      BY <1>6, <1>8, <1>33 DEF ToldKinds
    <3>2. told["text"] = up.told["text"] /\ told["json"] = up.told["json"] + 0
          /\ told["thinking"] = up.told["thinking"]
      BY <1>9, <1>2, <3>1 DEF ToldKinds
    <3> QED
      BY <1>10, <1>14, <3>1, <3>2
  <2>6. Translates(Clear(a), up', sent)
    BY <1>3, <1>10, <1>15, <1>38, <2>1, <2>4, <2>5, Translating, Zenon
  <2> QED
    BY <1>1, <1>15, <2>3, <2>6, ProviderKeeps, Zenon
<1>34. CASE x # ""
  <2>1. Translated(a, s.indices, s.json, TRUE, FALSE, s.text + 1, s.think, s.calls, s.finish,
                   <<TextLine>>)
    BY <1>3, <1>32, <1>34, TranslatesContent, Zenon
  <2>2. Feed(<<TextLine>>, a)
    BY <1>1, <2>1, Zenon DEF Translated
  <2> DEFINE r == Carried(sent, TextLine)
  <2>3. GoesOn(sent, TextLine) /\ Amounts(r, sent.text + 1, sent.think, sent.calls, "none")
    BY <1>3, AddsLines, Zenon
  <2>4. Follows(a, r) /\ Ongoing(Reply', FromBackend)
    BY <1>3, <2>2, <2>3, FeedsOne, Zenon DEF GoesOn
  <2>5. args # <<>>
    <3>1. x \in Pieces /\ x # "x" /\ x # ""
      BY <1>7, <1>2, <1>34
    <3>2. args = Append(up.args, x)
      BY <1>7, <3>1 DEF AddArgs
    <3>3. up.args \in Seq(Pieces)
      BY <1>6, Zenon
    <3> QED
      BY <3>1, <3>2, <3>3, Appended, Zenon
  <2>6. Knows(s.indices, s.json, TRUE, up')
    <3>1. TRUE = (up'.args # <<>>) /\ up'.called = TRUE
      BY <1>14, <1>31, <2>5
    <3> QED
      BY <1>1, <1>10, <1>14, <3>1 DEF Knows
  <2>7. /\ s.text + 1 = told["text"] + told["json"] /\ s.think = told["thinking"]
        /\ s.text + 1 = sent.text + 1
    <3>1. m = 1 /\ up.told["text"] \in Nat /\ up.told["json"] \in Nat /\ sent.text \in Nat
      BY <1>3, <1>6, <1>8, <1>34 DEF ToldKinds, IsReply
    <3>2. told["text"] = up.told["text"] /\ told["json"] = up.told["json"] + 1
          /\ told["thinking"] = up.told["thinking"]
      BY <1>9, <1>2, <3>1 DEF ToldKinds
    <3> QED
      BY <1>10, <3>1, <3>2
  <2>8. r.text = sent.text + 1 /\ r.think = sent.think /\ r.finish = "none" /\ r.calls = sent.calls
    BY <2>3, Zenon DEF Amounts
  <2> HIDE DEF r
  <2>9. Translates(Clear(a), up', r)
    <3> DEFINE n == s.text + 1
               b == TRUE
    <3>1. n = r.text /\ n = up'.told["text"] + up'.told["json"] /\ s.think = up'.told["thinking"]
      BY <1>14, <2>7, <2>8
    <3>2. Translated(a, s.indices, s.json, b, FALSE, n, s.think, s.calls, s.finish,
                     <<TextLine>>)
          /\ b \in BOOLEAN /\ Knows(s.indices, s.json, b, up')
      BY <2>1, <2>6
    <3> HIDE DEF n, b
    <3> QED
      BY <1>3, <1>10, <1>15, <1>38, <2>8, <3>1, <3>2, Translating, Zenon
  <2> QED
    BY <1>1, <1>15, <2>4, <2>9, ProviderKeeps, Zenon
<1> QED
  BY <1>33, <1>34

LEMMA DeltaOfTool ==
  ASSUME Provides, NEW x, NEW a, NEW args, NEW told, Delta(x, a, args, told), up.kind = "tool"
  PROVE  FitInv'
<1>1. /\ up.stage = "block" /\ Feed(a.out, a)
      /\ Becomes(up', "block", up.count, up.kind, args, up.called, up.calls, told)
      /\ IsUp("block", up.count, up.kind, args, up.called, up.calls, told)
      /\ up.kind \in ToldKinds
      /\ told[up.kind] = up.told[up.kind] + Num(x # "")
      /\ \A k \in ToldKinds : k # up.kind => told[k] = up.told[k]
  BY Zenon DEF Delta
<1> DEFINE s == conv.anthropic
           e == [type |-> "delta", index |-> up.count, kind |-> up.kind, args |-> x]
           m == Num(x # "")
<1>3. /\ IsUp(up.stage, up.count, up.kind, up.args, up.called, up.calls, up.told)
      /\ DOMAIN up = UpFields /\ IsSource /\ IsReply(sent) /\ Relayed(Reply, FromBackend)
      /\ Translates(s, up, sent) /\ Waits(s)
      /\ Ongoing(Reply, FromBackend) /\ sent.finish = "none" /\ sent.error = FALSE
  BY <1>1, ProviderHolds
<1>4. e.kind = up.kind /\ e.index = up.count /\ e.type = "delta" /\ e.args = x
  OBVIOUS
<1>5. a = Anthropic!BlockDelta(s, e)
  BY Zenon DEF Delta
<1>10. /\ s.text = sent.text /\ s.think = sent.think /\ s.finish = sent.finish
       /\ s.text = up.told["text"] + up.told["json"] /\ s.think = up.told["thinking"]
       /\ s.received \in BOOLEAN
       /\ Numbered(s.calls, sent.calls) /\ HasCalls(s.calls, up)
       /\ Knows(s.indices, s.json, s.received, up)
  <2>1. up.stage \in {"before", "between", "block"}
    BY <1>1
  <2> QED
    BY <1>3, <2>1, Zenon DEF Translates
<1>6. up.kind \in ToldKinds /\ up.told \in [ToldKinds -> Nat] /\ up.args \in Seq(Pieces)
      /\ up.calls \in Seq(Seq(Pieces)) /\ s.calls \in Seq(Seq(Pieces)) /\ up.count \in Nat
  BY <1>1, <1>3, <1>10, Zenon DEF IsUp, Numbered
<1>8. m \in Nat /\ (x = "" => m = 0) /\ (x # "" => m = 1)
  BY DEF Num
<1>9. /\ told[up.kind] = up.told[up.kind] + m
      /\ \A k \in ToldKinds : k # up.kind => told[k] = up.told[k]
  BY <1>1
<1>14. /\ up'.stage = "block" /\ up'.count = up.count /\ up'.kind = up.kind
       /\ up'.args = args /\ up'.called = up.called /\ up'.calls = up.calls /\ up'.told = told
  BY <1>1, Zenon DEF Becomes
<1>15. FALSE = (up'.stage \in {"done", "ended"}) /\ "block" # "ended"
  <2>1. up'.stage = "block"
    BY <1>14, Zenon
  <2> QED
    BY <2>1
<1>2. up.kind = "tool"
  OBVIOUS
<1>7. x \in Pieces \cup {""} /\ x # "x" /\ args = AddArgs(up.args, x)
  <2>1. up.kind \in {"tool", "json"}
    BY <1>2
  <2> QED
    BY <2>1, Zenon DEF Delta
<1> HIDE DEF s, e, m
<1> DEFINE i == Len(up.calls)
           f == Fragment(i, FALSE, FALSE, x)
           l == ToolLine(f)
           calls == [s.calls EXCEPT ![i + 1] = AddArgs(@, x)]
<1>31. /\ up.count \in DOMAIN s.indices /\ up.count \notin s.json /\ s.indices[up.count] = i
      /\ i \in Nat /\ Len(s.calls) = i + 1 /\ s.calls[i + 1] = up.args
      /\ \A j \in 1 .. i : s.calls[j] = IF up.calls[j] = <<>> THEN <<"whole">> ELSE up.calls[j]
  <2>1. i \in Nat
    BY <1>6, CallListTyped
  <2>2. up.count \in DOMAIN s.indices /\ up.count \notin s.json /\ s.indices[up.count] = i
    BY <1>1, <1>10, <1>2 DEF Knows
  <2>3. Len(s.calls) = i + 1 /\ s.calls[Len(s.calls)] = up.args
        /\ \A j \in 1 .. i : s.calls[j] = IF up.calls[j] = <<>> THEN <<"whole">> ELSE up.calls[j]
    BY <1>1, <1>10, <1>2 DEF HasCalls
  <2> QED
    BY <2>1, <2>2, <2>3
<1> HIDE DEF i
<1>32. a = Anthropic!Arguments(s, i, x)
  <2>1. e.kind \in ToldKinds /\ e.kind = "tool"
    BY <1>4, <1>6, <1>2, Zenon
  <2>2. e.index \notin s.json /\ e.index \in DOMAIN s.indices /\ s.indices[e.index] = i
    BY <1>4, <1>31, Zenon
  <2>3. Anthropic!BlockDelta(s, e) = Anthropic!Arguments(s, s.indices[e.index], e.args)
    BY <2>1, <2>2, DeltaOf, Zenon
  <2> QED
    BY <1>4, <1>5, <2>2, <2>3, Zenon
<1>33. x \in Pieces \cup {""} /\ x # "x"
  BY <1>7, <1>2
<1>34. i + 1 \in 1 .. Len(s.calls)
  BY <1>31
<1>35. Translated(a, s.indices, s.json, s.received, FALSE, s.text, s.think, calls, s.finish,
                 IF x = "" THEN <<>> ELSE <<l>>)
  BY <1>3, <1>6, <1>31, <1>32, <1>33, <1>34, TranslatesArguments, Zenon
<1>36. args = AddArgs(up.args, x)
  BY <1>7, Zenon
<1>37. calls[i + 1] = args /\ Len(calls) = i + 1 /\ \A j \in 1 .. i : calls[j] = s.calls[j]
  <2> DEFINE S == Seq(Pieces)
             y == AddArgs(s.calls[i + 1], x)
  <2>1. s.calls \in Seq(S)
    BY <1>6
  <2>2. y = args
    BY <1>31, <1>36
  <2>3. calls = [s.calls EXCEPT ![i + 1] = y]
    BY Zenon
  <2> HIDE DEF S, y, calls
  <2> QED
    BY <1>31, <1>34, <2>1, <2>2, <2>3
<1> HIDE DEF calls
<1>38. HasCalls(calls, up')
  <2>1. Len(calls) >= Len(up'.calls) /\ Len(calls) = Len(up'.calls) + 1
        /\ calls[Len(calls)] = up'.args
    BY <1>14, <1>31, <1>37 DEF i
  <2>2. \A j \in 1 .. Len(up'.calls) :
          calls[j] = IF up'.calls[j] = <<>> THEN <<"whole">> ELSE up'.calls[j]
    BY <1>14, <1>31, <1>37 DEF i
  <2> QED
    BY <1>14, <1>2, <2>1, <2>2 DEF HasCalls
<1>39. Knows(s.indices, s.json, s.received, up')
  BY <1>1, <1>10, <1>14, <1>2 DEF Knows
<1>40. s.text = up'.told["text"] + up'.told["json"] /\ s.think = up'.told["thinking"]
  <2>1. told["text"] = up.told["text"] /\ told["json"] = up.told["json"]
        /\ told["thinking"] = up.told["thinking"]
    BY <1>9, <1>2 DEF ToldKinds
  <2> QED
    BY <1>10, <1>14, <2>1
<1>41. CASE x = ""
  <2>1. calls = s.calls
    <3>1. calls = [s.calls EXCEPT ![i + 1] = AddArgs(@, "")]
      BY <1>41, Zenon DEF calls
    <3> QED
      <4> DEFINE k == i + 1
      <4>1. calls = [s.calls EXCEPT ![k] = AddArgs(@, "")] /\ k \in 1 .. Len(s.calls)
            /\ s.calls \in Seq(Seq(Pieces))
        BY <1>6, <1>34, <3>1, Zenon
      <4> HIDE DEF k
      <4>2. [s.calls EXCEPT ![k] = AddArgs(@, "")] = s.calls
        BY <4>1, AddsNoArgs, Zenon
      <4> QED
        BY <4>1, <4>2, Zenon
  <2>2. Translated(a, s.indices, s.json, s.received, FALSE, s.text, s.think, calls, s.finish, <<>>)
    BY <1>35, <1>41
  <2>3. Feed(<<>>, a)
    BY <1>1, <2>2, Zenon DEF Translated
  <2>4. Follows(a, sent) /\ Ongoing(Reply', FromBackend)
    BY <1>3, <2>3, FeedsNothing, Zenon
  <2>5. Translates(Clear(a), up', sent)
    BY <1>3, <1>10, <1>15, <1>38, <1>39, <1>40, <2>1, <2>2, Translating, Zenon
  <2> QED
    BY <1>1, <1>15, <2>4, <2>5, ProviderKeeps, Zenon
<1>42. CASE x # ""
  <2>1. x \in Pieces
    BY <1>33, <1>42
  <2>2. Translated(a, s.indices, s.json, s.received, FALSE, s.text, s.think, calls, s.finish, <<l>>)
    BY <1>35, <1>42
  <2>3. Feed(<<l>>, a)
    BY <1>1, <2>2, Zenon DEF Translated
  <2>4. IsFragment(f) /\ i <= Size(sent.calls) /\ f.index = i
        /\ Numbered(calls, GrowCall(sent.calls, f))
    <3>1. IsCalls(sent.calls) /\ Numbered(s.calls, sent.calls) /\ i \in Nat
      BY <1>3, <1>10, <1>31, Zenon DEF IsReply
    <3>2. calls = [s.calls EXCEPT ![i + 1] = AddArgs(@, x)]
      BY Zenon DEF calls
    <3>3. GrowsTo([s.calls EXCEPT ![i + 1] = AddArgs(@, x)], sent.calls, i,
                  Fragment(i, FALSE, FALSE, x))
      BY <1>34, <2>1, <3>1, NumberedGrows, Zenon
    <3>4. GrowsTo(calls, sent.calls, i, f)
      BY <3>2, <3>3, Zenon
    <3> HIDE DEF f
    <3> QED
      BY <3>4, Zenon DEF GrowsTo
  <2> DEFINE r == Carried(sent, l)
  <2>5. GoesOn(sent, l) /\ Amounts(r, sent.text, sent.think, GrowCall(sent.calls, f), "none")
    <3>1. f.index <= Size(sent.calls)
      BY <2>4, Zenon
    <3> HIDE DEF f
    <3> QED
      BY <1>3, <2>4, <3>1, AddsLines, Zenon
  <2>6. Follows(a, r) /\ Ongoing(Reply', FromBackend)
    BY <1>3, <2>3, <2>5, FeedsOne, Zenon DEF GoesOn
  <2>7. r.text = sent.text /\ r.think = sent.think /\ r.finish = "none"
        /\ Numbered(calls, r.calls)
    BY <2>4, <2>5, Zenon DEF Amounts
  <2> HIDE DEF l, r
  <2>8. Translates(Clear(a), up', r)
    BY <1>3, <1>10, <1>15, <1>38, <1>39, <1>40, <2>2, <2>7, Translating, Zenon
  <2> QED
    BY <1>1, <1>15, <2>6, <2>8, ProviderKeeps, Zenon
<1> QED
  BY <1>41, <1>42

LEMMA FitContentBlockDelta ==
  ASSUME Provides, ContentBlockDelta
  PROVE  FitInv'
<1> DEFINE s == conv.anthropic
<1>1. PICK x \in IF up.kind \in {"tool", "json"} THEN NextArgs ELSE {"x"} :
        /\ up.stage = "block" /\ up.deltas < MaxDeltas
        /\ Translate([type |-> "delta", index |-> up.count, kind |-> up.kind, args |-> x],
                     [up EXCEPT !.deltas = @ + 1, !.args = IF x = "x" THEN @ ELSE AddArgs(@, x),
                                !.told[up.kind] = @ + Num(x # "")])
  BY Zenon DEF ContentBlockDelta
<1> DEFINE e == [type |-> "delta", index |-> up.count, kind |-> up.kind, args |-> x]
           a == Anthropic!Line(s, e)
           args == IF x = "x" THEN up.args ELSE AddArgs(up.args, x)
           m == Num(x # "")
           told == [up.told EXCEPT ![up.kind] = @ + m]
<1>2. /\ Feed(a.out, a)
      /\ up' = [up EXCEPT !.deltas = @ + 1, !.args = IF x = "x" THEN @ ELSE AddArgs(@, x),
                          !.told[up.kind] = @ + Num(x # "")]
  BY <1>1, Zenon DEF Translate
<1>3. /\ IsUp(up.stage, up.count, up.kind, up.args, up.called, up.calls, up.told)
      /\ DOMAIN up = UpFields /\ IsSource /\ IsReply(sent) /\ Relayed(Reply, FromBackend)
      /\ Translates(s, up, sent) /\ Waits(s)
      /\ Ongoing(Reply, FromBackend) /\ sent.finish = "none" /\ sent.error = FALSE
  BY <1>1, ProviderHolds
<1>4. e.kind = up.kind /\ e.index = up.count /\ e.type = "delta" /\ e.args = x
  OBVIOUS
<1>5. a = Anthropic!BlockDelta(s, e)
  BY <1>3, <1>4, LineOf, Zenon DEF Waits
<1>10. /\ s.text = sent.text /\ s.think = sent.think /\ s.finish = sent.finish
       /\ s.text = up.told["text"] + up.told["json"] /\ s.think = up.told["thinking"]
       /\ s.received \in BOOLEAN
       /\ Numbered(s.calls, sent.calls) /\ HasCalls(s.calls, up)
       /\ Knows(s.indices, s.json, s.received, up)
  <2>1. up.stage \in {"before", "between", "block"}
    BY <1>1
  <2> QED
    BY <1>3, <2>1, Zenon DEF Translates
<1>6. up.kind \in ToldKinds /\ up.told \in [ToldKinds -> Nat] /\ up.args \in Seq(Pieces)
      /\ up.calls \in Seq(Seq(Pieces)) /\ s.calls \in Seq(Seq(Pieces)) /\ up.count \in Nat
  <2>1. up.kind # "none"
    BY <1>1, <1>10 DEF Knows
  <2>2. up.kind \in ToldKinds
    BY <1>3, <2>1 DEF IsUp
  <2> QED
    BY <1>3, <1>10, <2>2, Zenon DEF IsUp, Numbered
<1>7. /\ up.kind \in {"text", "thinking"} => x = "x"
      /\ up.kind \in {"tool", "json"} => x \in Pieces \cup {""} /\ x # "x"
  BY <1>1 DEF NextArgs, Pieces
<1>8. m \in Nat /\ (x = "" => m = 0) /\ (x # "" => m = 1)
  BY DEF Num
<1>9. /\ told \in [ToldKinds -> Nat] /\ told[up.kind] = up.told[up.kind] + m
      /\ \A k \in ToldKinds : k # up.kind => told[k] = up.told[k]
  <2>1. up.kind \in ToldKinds /\ up.told \in [ToldKinds -> Nat]
    BY <1>6, Zenon
  <2>2. m \in Nat
    BY <1>8, Zenon
  <2>3. told = [up.told EXCEPT ![up.kind] = @ + m]
    BY Zenon
  <2> HIDE DEF m, told
  <2> QED
    BY <2>1, <2>2, <2>3
<1>11. args \in Seq(Pieces)
  <2>1. x # "x" => x \in Pieces \cup {""}
    BY <1>6, <1>7 DEF ToldKinds
  <2>2. CASE x = "x"
    BY <1>6, <2>2
  <2>3. CASE x = ""
    BY <1>6, <2>3 DEF AddArgs
  <2>4. CASE x \in Pieces /\ x # "x" /\ x # ""
    <3>1. args = Append(up.args, x)
      BY <2>4 DEF AddArgs
    <3>2. up.args \in Seq(Pieces) /\ x \in Pieces
      BY <1>6, <2>4, Zenon
    <3> HIDE DEF args
    <3> QED
      BY <3>1, <3>2
  <2> QED
    BY <2>1, <2>2, <2>3, <2>4
<1>12. Becomes(up', "block", up.count, up.kind, args, up.called, up.calls, told)
  <2>1. up' = [up EXCEPT !.deltas = @ + 1, !.args = args, !.told = told]
    <3>1. up' = [up EXCEPT !.deltas = @ + 1, !.args = args, !.told[up.kind] = @ + m]
      BY <1>2, Zenon
    <3> HIDE DEF args, m
    <3>2. "told" \in DOMAIN up
      BY <1>3 DEF UpFields
    <3> QED
      BY <3>1, <3>2
  <2> HIDE DEF args, told
  <2> QED
    BY <1>1, <1>3, <2>1 DEF Becomes, UpFields
<1>13. IsUp("block", up.count, up.kind, args, up.called, up.calls, told)
  <2>1. "block" \in {"before", "between", "block", "stopped", "done", "ended"}
    OBVIOUS
  <2> QED
    BY <1>3, <1>9, <1>11, <2>1, Zenon DEF IsUp
<1>17. /\ up.kind \in {"text", "thinking"} => args = up.args
       /\ up.kind \in {"tool", "json"} => args = AddArgs(up.args, x)
  BY <1>7
<1> HIDE DEF args, told
<1>18. Delta(x, a, args, told)
  BY <1>1, <1>2, <1>5, <1>6, <1>7, <1>9, <1>12, <1>13, <1>17, Zenon DEF Delta
<1> HIDE DEF a
<1> QED
  BY <1>6, <1>18, DeltaOfText, DeltaOfThinking, DeltaOfJson, DeltaOfTool DEF ToldKinds

\* The end of a block.
LEMMA StopOf ==
  ASSUME NEW s, NEW e
  PROVE  /\ e.index \in s.json /\ e.index \notin DOMAIN s.indices =>
              Anthropic!BlockStop(s, e) =
                IF s.received THEN s ELSE Anthropic!Content([s EXCEPT !.received = TRUE])
         /\ e.index \notin s.json /\ e.index \in DOMAIN s.indices =>
              Anthropic!BlockStop(s, e) =
                IF s.calls[s.indices[e.index] + 1] # <<>> THEN s
                ELSE Anthropic!Arguments(s, s.indices[e.index], "whole")
         /\ e.index \notin s.json /\ e.index \notin DOMAIN s.indices =>
              Anthropic!BlockStop(s, e) = s
<1> DEFINE j == IF s.received THEN s ELSE Anthropic!Content([s EXCEPT !.received = TRUE])
           g == IF s.calls[s.indices[e.index] + 1] # <<>> THEN s
                ELSE Anthropic!Arguments(s, s.indices[e.index], "whole")
<1>1. Anthropic!BlockStop(s, e) =
        CASE e.index \in s.json -> j
          [] e.index \in DOMAIN s.indices -> g
          [] OTHER -> s
  BY Zenon DEF Anthropic!BlockStop
<1> HIDE DEF j, g
<1>2. /\ e.index \in s.json /\ e.index \notin DOMAIN s.indices => Anthropic!BlockStop(s, e) = j
      /\ e.index \notin s.json /\ e.index \in DOMAIN s.indices => Anthropic!BlockStop(s, e) = g
      /\ e.index \notin s.json /\ e.index \notin DOMAIN s.indices => Anthropic!BlockStop(s, e) = s
  BY <1>1
<1> QED
  BY <1>2, Zenon DEF j, g

\* What every end of a block does.
Stop(a, calls, told) ==
  /\ up.stage = "block" /\ Feed(a.out, a)
  /\ a = Anthropic!BlockStop(conv.anthropic, [type |-> "block_stop", index |-> up.count])
  /\ Becomes(up', "between", up.count + 1, "none", up.args, up.called, calls, told)
  /\ IsUp("between", up.count + 1, "none", up.args, up.called, calls, told)
  /\ calls = (IF up.kind = "tool" THEN Append(up.calls, up.args) ELSE up.calls)
  /\ told = IF up.kind = "json" /\ up.args = <<>>
            THEN [up.told EXCEPT !["json"] = @ + 1] ELSE up.told

\* What the proofs of its cases start from.
Halts(s) ==
  /\ s = conv.anthropic
  /\ IsUp(up.stage, up.count, up.kind, up.args, up.called, up.calls, up.told)
  /\ IsSource /\ IsReply(sent) /\ Relayed(Reply, FromBackend) /\ Waits(s)
  /\ Ongoing(Reply, FromBackend) /\ sent.finish = "none" /\ sent.error = FALSE
  /\ s.text = sent.text /\ s.think = sent.think /\ s.finish = sent.finish
  /\ s.text = up.told["text"] + up.told["json"] /\ s.think = up.told["thinking"]
  /\ s.received \in BOOLEAN
  /\ Numbered(s.calls, sent.calls) /\ HasCalls(s.calls, up)
  /\ s.json \in SUBSET (0 .. up.count) /\ DOMAIN s.indices \in SUBSET (0 .. up.count)
  /\ up.count \in s.json <=> up.kind = "json"
  /\ up.count \in DOMAIN s.indices <=> up.kind = "tool"
  /\ up.kind = "tool" => s.indices[up.count] = Len(up.calls)
  /\ up.kind = "json" => up.called /\ s.received = (up.args # <<>>)
  /\ ~up.called => s.received = FALSE

LEMMA HaltsHold ==
  ASSUME Provides, up.stage = "block"
  PROVE  Halts(conv.anthropic)
<1> DEFINE s == conv.anthropic
<1>1. up.stage \in {"before", "between", "block"} /\ up.stage \notin {"done", "ended"}
  OBVIOUS
<1>2. /\ IsUp(up.stage, up.count, up.kind, up.args, up.called, up.calls, up.told)
      /\ IsSource /\ IsReply(sent) /\ Relayed(Reply, FromBackend)
      /\ Translates(s, up, sent) /\ Waits(s)
      /\ Ongoing(Reply, FromBackend) /\ sent.finish = "none" /\ sent.error = FALSE
  BY <1>1, ProviderHolds, Zenon
<1> HIDE DEF s
<1>3. /\ s.text = sent.text /\ s.think = sent.think /\ s.finish = sent.finish
      /\ s.text = up.told["text"] + up.told["json"] /\ s.think = up.told["thinking"]
      /\ s.received \in BOOLEAN
      /\ Numbered(s.calls, sent.calls) /\ HasCalls(s.calls, up)
      /\ Knows(s.indices, s.json, s.received, up)
  BY <1>1, <1>2, Zenon DEF Translates
<1>4. /\ s.json \in SUBSET (0 .. up.count) /\ DOMAIN s.indices \in SUBSET (0 .. up.count)
      /\ up.count \in s.json <=> up.kind = "json"
      /\ up.count \in DOMAIN s.indices <=> up.kind = "tool"
      /\ up.kind = "tool" => s.indices[up.count] = Len(up.calls)
      /\ up.kind = "json" => up.called /\ s.received = (up.args # <<>>)
      /\ ~up.called => s.received = FALSE
  BY <1>3, Zenon DEF Knows
<1> QED
  BY <1>2, <1>3, <1>4, Zenon DEF Halts, s

\* The next block is not known yet.
LEMMA StopKnows ==
  ASSUME NEW s, Halts(s), NEW calls, NEW told, NEW received,
         Becomes(up', "between", up.count + 1, "none", up.args, up.called, calls, told),
         ~up.called => received = FALSE
  PROVE  /\ Knows(s.indices, s.json, received, up')
         /\ up'.stage = "between" /\ up'.calls = calls /\ up'.told = told
         /\ FALSE = (up'.stage \in {"done", "ended"}) /\ "between" # "ended"
<1>1. /\ up'.stage = "between" /\ up'.calls = calls /\ up'.told = told
      /\ up'.count = up.count + 1 /\ up'.called = up.called
  BY Zenon DEF Becomes
<1>2. /\ s.json \in SUBSET (0 .. up.count) /\ DOMAIN s.indices \in SUBSET (0 .. up.count)
      /\ up.count \in Nat
  BY Zenon DEF Halts, IsUp
<1>3. /\ s.json \in SUBSET (0 .. up.count + 1) /\ DOMAIN s.indices \in SUBSET (0 .. up.count + 1)
      /\ up.count + 1 \notin s.json /\ up.count + 1 \notin DOMAIN s.indices
  BY <1>2
<1>4. up'.stage # "block" /\ FALSE = (up'.stage \in {"done", "ended"}) /\ "between" # "ended"
  <2>1. up'.stage = "between"
    BY <1>1, Zenon
  <2> QED
    BY <2>1
<1>5. Knows(s.indices, s.json, received, up')
  BY <1>1, <1>3, <1>4, Zenon DEF Knows
<1> QED
  BY <1>1, <1>4, <1>5, Zenon

LEMMA StopOfText ==
  ASSUME Provides, NEW a, NEW calls, NEW told, Stop(a, calls, told),
         up.kind # "tool", up.kind = "json" => up.args # <<>>
  PROVE  FitInv'
<1> DEFINE s == conv.anthropic
           e == [type |-> "block_stop", index |-> up.count]
<1>1. /\ up.stage = "block" /\ Feed(a.out, a) /\ a = Anthropic!BlockStop(s, e)
      /\ Becomes(up', "between", up.count + 1, "none", up.args, up.called, calls, told)
      /\ IsUp("between", up.count + 1, "none", up.args, up.called, calls, told)
      /\ calls = up.calls /\ told = up.told
  BY Zenon DEF Stop
<1>2. Halts(s)
  BY <1>1, HaltsHold, Zenon
<1>3. e.index = up.count
  OBVIOUS
<1> HIDE DEF s, e
<1>4. /\ Knows(s.indices, s.json, s.received, up')
      /\ up'.stage = "between" /\ up'.calls = calls /\ up'.told = told
      /\ FALSE = (up'.stage \in {"done", "ended"}) /\ "between" # "ended"
  <2>1. ~up.called => s.received = FALSE
    BY <1>2, Zenon DEF Halts
  <2> QED
    BY <1>1, <1>2, <2>1, StopKnows, Zenon
<1>5. a = s
  <2>1. up.count \notin DOMAIN s.indices /\ (up.count \in s.json => s.received = TRUE)
    <3>1. up.kind = "json" => s.received = TRUE
      <4>1. ASSUME up.kind = "json" PROVE s.received = TRUE
        <5>1. (up.args # <<>>) = TRUE
          BY <4>1
        <5> QED
          BY <1>2, <4>1, <5>1, Zenon DEF Halts
      <4> QED
        BY <4>1
    <3> QED
      BY <1>2, <3>1, Zenon DEF Halts
  <2> QED
    BY <1>1, <1>3, <2>1, StopOf, Zenon
<1>6. Translated(a, s.indices, s.json, s.received, FALSE, s.text, s.think, s.calls, s.finish, <<>>)
  BY <1>2, <1>5, TranslatesNothing, Zenon DEF Halts
<1>7. Follows(a, sent) /\ Ongoing(Reply', FromBackend)
  <2>1. Feed(<<>>, a)
    BY <1>1, <1>6, Zenon DEF Translated
  <2> QED
    BY <1>2, <2>1, FeedsNothing, Zenon DEF Halts
<1>8. HasCalls(s.calls, up')
  <2>1. HasCalls(s.calls, up)
    BY <1>2, Zenon DEF Halts
  <2> QED
    BY <1>1, <1>4, <2>1 DEF HasCalls
<1>9. Translates(Clear(a), up', sent)
  BY <1>1, <1>2, <1>4, <1>6, <1>8, Translating, Zenon DEF Halts
<1> QED
  BY <1>1, <1>4, <1>7, <1>9, ProviderKeeps, Zenon

LEMMA StopOfJson ==
  ASSUME Provides, NEW a, NEW calls, NEW told, Stop(a, calls, told),
         up.kind = "json", up.args = <<>>
  PROVE  FitInv'
<1> DEFINE s == conv.anthropic
           e == [type |-> "block_stop", index |-> up.count]
           n == s.text + 1
           b == TRUE
           r == Carried(sent, TextLine)
<1>1. /\ up.stage = "block" /\ Feed(a.out, a) /\ a = Anthropic!BlockStop(s, e)
      /\ Becomes(up', "between", up.count + 1, "none", up.args, up.called, calls, told)
      /\ IsUp("between", up.count + 1, "none", up.args, up.called, calls, told)
      /\ calls = up.calls /\ told = [up.told EXCEPT !["json"] = @ + 1]
  <2>1. "json" # "tool"
    OBVIOUS
  <2> QED
    BY <2>1, Zenon DEF Stop
<1>2. Halts(s)
  BY <1>1, HaltsHold, Zenon
<1>3. e.index = up.count
  OBVIOUS
<1> HIDE DEF s, e, r
<1>4. /\ Knows(s.indices, s.json, b, up')
      /\ up'.stage = "between" /\ up'.calls = calls /\ up'.told = told
      /\ FALSE = (up'.stage \in {"done", "ended"}) /\ "between" # "ended"
  <2>1. ~up.called => b = FALSE
    BY <1>2, Zenon DEF Halts
  <2> HIDE DEF b
  <2> QED
    BY <1>1, <1>2, <2>1, StopKnows, Zenon
<1>5. a = Anthropic!Content([s EXCEPT !.received = TRUE])
  <2>1. s.received = FALSE
    <3>1. (up.args # <<>>) = FALSE
      OBVIOUS
    <3> QED
      BY <1>2, <3>1, Zenon DEF Halts
  <2>2. up.count \in s.json /\ up.count \notin DOMAIN s.indices
    <3>1. "json" # "tool"
      OBVIOUS
    <3> QED
      BY <1>2, <3>1, Zenon DEF Halts
  <2> QED
    BY <1>1, <1>3, <2>1, <2>2, StopOf, Zenon
<1>6. Translated(a, s.indices, s.json, b, FALSE, n, s.think, s.calls, s.finish, <<TextLine>>)
  BY <1>2, <1>5, TranslatesContent, Zenon DEF Halts
<1>7. GoesOn(sent, TextLine) /\ Amounts(r, sent.text + 1, sent.think, sent.calls, "none")
  BY <1>2, AddsLines, Zenon DEF Halts, r
<1>8. Follows(a, r) /\ Ongoing(Reply', FromBackend)
  <2>1. Feed(<<TextLine>>, a)
    BY <1>1, <1>6, Zenon DEF Translated
  <2> QED
    BY <1>2, <1>7, <2>1, FeedsOne, Zenon DEF GoesOn, Halts, r
<1>9. HasCalls(s.calls, up')
  <2>1. HasCalls(s.calls, up)
    BY <1>2, Zenon DEF Halts
  <2> QED
    BY <1>1, <1>4, <2>1 DEF HasCalls
<1>10. n = r.text /\ n = up'.told["text"] + up'.told["json"] /\ s.think = up'.told["thinking"]
  <2>1. /\ up.told \in [ToldKinds -> Nat]
        /\ s.text = up.told["text"] + up.told["json"] /\ s.think = up.told["thinking"]
        /\ s.text = sent.text /\ r.text = sent.text + 1
    BY <1>2, <1>7, Zenon DEF Halts, IsUp, Amounts
  <2>2. /\ up.told["text"] \in Nat /\ up.told["json"] \in Nat
        /\ told["text"] = up.told["text"] /\ told["json"] = up.told["json"] + 1
        /\ told["thinking"] = up.told["thinking"]
    BY <1>1, <2>1 DEF ToldKinds
  <2> QED
    BY <1>4, <2>1, <2>2
<1>11. r.think = sent.think /\ r.finish = "none" /\ r.calls = sent.calls /\ b \in BOOLEAN
  BY <1>7, Zenon DEF Amounts
<1> HIDE DEF n, b
<1>12. Translates(Clear(a), up', r)
  BY <1>1, <1>2, <1>4, <1>6, <1>9, <1>10, <1>11, Translating, Zenon DEF Halts
<1> QED
  BY <1>1, <1>4, <1>8, <1>12, ProviderKeeps, Zenon

\* The arguments of a call are whole when its block ends.
LEMMA StopHasCalls ==
  ASSUME NEW calls, NEW told, NEW list \in Seq(Seq(Pieces)), NEW i \in Nat, up.args \in Seq(Pieces),
         up.calls \in Seq(Seq(Pieces)), i = Len(up.calls), Len(list) = i + 1,
         calls = Append(up.calls, up.args),
         list[i + 1] = (IF up.args = <<>> THEN <<"whole">> ELSE up.args),
         \A j \in 1 .. i : list[j] = IF up.calls[j] = <<>> THEN <<"whole">> ELSE up.calls[j],
         up'.stage = "between", up'.calls = calls
  PROVE  HasCalls(list, up')
<1>1. /\ Len(calls) = i + 1 /\ calls[i + 1] = up.args
      /\ \A j \in 1 .. i : calls[j] = up.calls[j]
  <2> DEFINE S == Seq(Pieces)
  <2>1. up.calls \in Seq(S) /\ up.args \in S
    OBVIOUS
  <2> HIDE DEF S
  <2> QED
    BY <2>1
<1>2. \A j \in 1 .. Len(calls) : list[j] = IF calls[j] = <<>> THEN <<"whole">> ELSE calls[j]
  <2> TAKE j \in 1 .. Len(calls)
  <2>1. j \in 1 .. i \/ j = i + 1
    <3>1. Len(calls) = i + 1 /\ j \in 1 .. Len(calls) /\ i \in Nat
      BY <1>1
    <3> QED
      BY <3>1
  <2> QED
    BY <1>1, <2>1, Zenon
<1>3. Len(list) = Len(calls) /\ Len(calls) >= Len(calls)
  <2>1. Len(list) = i + 1 /\ Len(calls) = i + 1 /\ i \in Nat
    BY <1>1, Zenon
  <2> QED
    BY <2>1
<1>4. Len(list) >= Len(calls)
  BY <1>3, Zenon
<1>5. up'.stage # "block"
  OBVIOUS
<1> QED
  BY <1>2, <1>3, <1>4, <1>5, Zenon DEF HasCalls

LEMMA StopOfTool ==
  ASSUME Provides, NEW a, NEW calls, NEW told, Stop(a, calls, told), up.kind = "tool"
  PROVE  FitInv'
<1> DEFINE s == conv.anthropic
           e == [type |-> "block_stop", index |-> up.count]
           i == Len(up.calls)
<1>1. /\ up.stage = "block" /\ Feed(a.out, a) /\ a = Anthropic!BlockStop(s, e)
      /\ Becomes(up', "between", up.count + 1, "none", up.args, up.called, calls, told)
      /\ IsUp("between", up.count + 1, "none", up.args, up.called, calls, told)
      /\ calls = Append(up.calls, up.args) /\ told = up.told
  <2>1. "json" # "tool"
    OBVIOUS
  <2> QED
    BY <2>1, Zenon DEF Stop
<1>2. Halts(s)
  BY <1>1, HaltsHold, Zenon
<1>3. e.index = up.count
  OBVIOUS
<1> HIDE DEF s, e
<1>4. /\ Knows(s.indices, s.json, s.received, up')
      /\ up'.stage = "between" /\ up'.calls = calls /\ up'.told = told
      /\ FALSE = (up'.stage \in {"done", "ended"}) /\ "between" # "ended"
  <2>1. ~up.called => s.received = FALSE
    BY <1>2, Zenon DEF Halts
  <2> QED
    BY <1>1, <1>2, <2>1, StopKnows, Zenon
<1>5. /\ up.args \in Seq(Pieces) /\ up.calls \in Seq(Seq(Pieces))
      /\ s.calls \in Seq(Seq(Pieces)) /\ HasCalls(s.calls, up) /\ Numbered(s.calls, sent.calls)
  BY <1>2, Zenon DEF Halts, IsUp, Numbered
<1>6. /\ up.count \notin s.json /\ up.count \in DOMAIN s.indices /\ s.indices[up.count] = i
  <2>1. "json" # "tool"
    OBVIOUS
  <2> QED
    BY <1>2, <2>1, Zenon DEF Halts
<1>7. i \in Nat
  BY <1>5, CallListTyped
<1>8. /\ Len(s.calls) = i + 1 /\ s.calls[i + 1] = up.args
      /\ \A j \in 1 .. i : s.calls[j] = IF up.calls[j] = <<>> THEN <<"whole">> ELSE up.calls[j]
  <2>1. Len(s.calls) = i + 1 /\ s.calls[Len(s.calls)] = up.args
        /\ \A j \in 1 .. i : s.calls[j] = IF up.calls[j] = <<>> THEN <<"whole">> ELSE up.calls[j]
    BY <1>1, <1>5, Zenon DEF HasCalls
  <2> QED
    BY <2>1, Zenon
<1> HIDE DEF i
<1>9. a = IF up.args # <<>> THEN s ELSE Anthropic!Arguments(s, i, "whole")
  <2>1. s.indices[e.index] = i /\ s.calls[s.indices[e.index] + 1] = up.args
    BY <1>3, <1>6, <1>8, Zenon
  <2>2. a = IF s.calls[s.indices[e.index] + 1] # <<>> THEN s
            ELSE Anthropic!Arguments(s, s.indices[e.index], "whole")
    BY <1>1, <1>3, <1>6, StopOf, Zenon
  <2> QED
    BY <2>1, <2>2
<1>10. CASE up.args # <<>>
  <2>1. Translated(a, s.indices, s.json, s.received, FALSE, s.text, s.think, s.calls, s.finish, <<>>)
    BY <1>2, <1>9, <1>10, TranslatesNothing, Zenon DEF Halts
  <2>2. Follows(a, sent) /\ Ongoing(Reply', FromBackend)
    <3>1. Feed(<<>>, a)
      BY <1>1, <2>1, Zenon DEF Translated
    <3> QED
      BY <1>2, <3>1, FeedsNothing, Zenon DEF Halts
  <2>3. HasCalls(s.calls, up')
    BY <1>1, <1>4, <1>5, <1>7, <1>8, <1>10, StopHasCalls, Zenon DEF i
  <2>4. Translates(Clear(a), up', sent)
    BY <1>1, <1>2, <1>4, <2>1, <2>3, Translating, Zenon DEF Halts
  <2> QED
    BY <1>1, <1>4, <2>2, <2>4, ProviderKeeps, Zenon
<1>11. CASE up.args = <<>>
  <2> DEFINE x == "whole"
             f == Fragment(i, FALSE, FALSE, x)
             l == ToolLine(f)
             list == [s.calls EXCEPT ![i + 1] = AddArgs(@, x)]
             r == Carried(sent, l)
  <2>1. x \in Pieces /\ x \in Pieces \cup {""} /\ x # ""
    BY DEF Pieces
  <2>2. a = Anthropic!Arguments(s, i, x)
    BY <1>9, <1>11
  <2>3. i + 1 \in 1 .. Len(s.calls)
    BY <1>7, <1>8
  <2>4. AddArgs(s.calls[i + 1], x) = <<"whole">>
    BY <1>8, <1>11 DEF AddArgs
  <2> HIDE DEF x
  <2>5. Translated(a, s.indices, s.json, s.received, FALSE, s.text, s.think, list, s.finish, <<l>>)
    BY <1>2, <1>5, <1>7, <2>1, <2>2, <2>3, TranslatesArguments, Zenon DEF Halts
  <2>6. IsFragment(f) /\ i <= Size(sent.calls) /\ f.index = i
        /\ Numbered(list, GrowCall(sent.calls, f))
    <3>1. IsCalls(sent.calls)
      BY <1>2, Zenon DEF Halts, IsReply
    <3>2. GrowsTo([s.calls EXCEPT ![i + 1] = AddArgs(@, x)], sent.calls, i,
                  Fragment(i, FALSE, FALSE, x))
      <4>1. IsCalls(sent.calls) /\ Numbered(s.calls, sent.calls) /\ i \in Nat /\ x \in Pieces
        BY <1>5, <1>7, <2>1, <3>1, Zenon
      <4> HIDE DEF f, l, list, r
      <4> QED
        BY <2>3, <4>1, NumberedGrows, Zenon
    <3>3. GrowsTo(list, sent.calls, i, f)
      BY <3>2, Zenon
    <3> HIDE DEF f, list
    <3> QED
      BY <3>3, Zenon DEF GrowsTo
  <2>7. f.index <= Size(sent.calls)
    BY <2>6, Zenon
  <2>8. list \in Seq(Seq(Pieces))
    BY <2>6, Zenon DEF Numbered
  <2>9. list[i + 1] = <<"whole">> /\ Len(list) = i + 1 /\ \A j \in 1 .. i : list[j] = s.calls[j]
    <3> DEFINE S == Seq(Pieces)
               y == AddArgs(s.calls[i + 1], x)
    <3>1. s.calls \in Seq(S)
      BY <1>5
    <3>2. list = [s.calls EXCEPT ![i + 1] = y]
      BY Zenon
    <3> HIDE DEF S, y, list
    <3>3. list[i + 1] = y /\ Len(list) = i + 1 /\ \A j \in 1 .. i : list[j] = s.calls[j]
      BY <1>7, <1>8, <2>3, <3>1, <3>2
    <3> QED
      BY <2>4, <3>3, Zenon DEF y
  <2> HIDE DEF f, list
  <2>10. GoesOn(sent, l) /\ Amounts(r, sent.text, sent.think, GrowCall(sent.calls, f), "none")
    BY <1>2, <2>6, <2>7, AddsLines, Zenon DEF Halts
  <2> HIDE DEF l
  <2>11. Follows(a, r) /\ Ongoing(Reply', FromBackend)
    <3>1. Feed(<<l>>, a)
      BY <1>1, <2>5, Zenon DEF Translated
    <3> QED
      BY <1>2, <2>10, <3>1, FeedsOne, Zenon DEF GoesOn, Halts
  <2> HIDE DEF r
  <2>12. HasCalls(list, up')
    <3>1. list[i + 1] = (IF up.args = <<>> THEN <<"whole">> ELSE up.args)
      BY <1>11, <2>9, Zenon
    <3>2. \A j \in 1 .. i : list[j] = IF up.calls[j] = <<>> THEN <<"whole">> ELSE up.calls[j]
      BY <1>8, <2>9, Zenon
    <3> QED
      BY <1>1, <1>4, <1>5, <1>7, <2>8, <2>9, <3>1, <3>2, StopHasCalls, Zenon DEF i
  <2>13. r.text = sent.text /\ r.think = sent.think /\ r.finish = "none" /\ Numbered(list, r.calls)
    BY <2>6, <2>10, Zenon DEF Amounts
  <2>14. Translates(Clear(a), up', r)
    <3>1. /\ s.text = r.text /\ s.think = r.think /\ s.finish = r.finish
          /\ s.received \in BOOLEAN
      BY <1>2, <2>13, Zenon DEF Halts
    <3>2. s.text = up'.told["text"] + up'.told["json"] /\ s.think = up'.told["thinking"]
      BY <1>1, <1>2, <1>4, Zenon DEF Halts
    <3> QED
      BY <1>4, <2>5, <2>12, <2>13, <3>1, <3>2, Translating, Zenon
  <2> QED
    BY <1>1, <1>4, <2>11, <2>14, ProviderKeeps, Zenon
<1> QED
  BY <1>10, <1>11

LEMMA FitContentBlockStop ==
  ASSUME Provides, ContentBlockStop
  PROVE  FitInv'
<1> DEFINE s == conv.anthropic
           e == [type |-> "block_stop", index |-> up.count]
           a == Anthropic!Line(s, e)
           calls == IF up.kind = "tool" THEN Append(up.calls, up.args) ELSE up.calls
           told == IF up.kind = "json" /\ up.args = <<>>
                   THEN [up.told EXCEPT !["json"] = @ + 1] ELSE up.told
<1>1. /\ up.stage = "block" /\ Feed(a.out, a)
      /\ up' = [up EXCEPT !.stage = "between", !.count = @ + 1, !.kind = "none",
                          !.cut = @ \/ ~Parses(up.args),
                          !.calls = IF up.kind = "tool" THEN Append(@, up.args) ELSE @,
                          !.told["json"] = IF up.kind = "json" /\ up.args = <<>>
                                           THEN @ + 1 ELSE @]
  BY Zenon DEF ContentBlockStop, Translate
<1>2. /\ IsUp(up.stage, up.count, up.kind, up.args, up.called, up.calls, up.told)
      /\ DOMAIN up = UpFields /\ Waits(s)
  BY <1>1, ProviderHolds
<1>3. a = Anthropic!BlockStop(s, e)
  <2>1. e.type = "block_stop"
    OBVIOUS
  <2> QED
    BY <1>2, <2>1, LineOf, Zenon DEF Waits
<1>4. /\ up.count \in Nat /\ up.args \in Seq(Pieces) /\ up.called \in BOOLEAN
      /\ up.calls \in Seq(Seq(Pieces)) /\ up.told \in [ToldKinds -> Nat]
  BY <1>2, Zenon DEF IsUp
<1>5. calls \in Seq(Seq(Pieces))
  <2> DEFINE S == Seq(Pieces)
  <2>1. up.calls \in Seq(S) /\ up.args \in S
    BY <1>4
  <2>2. S = Seq(Pieces)
    OBVIOUS
  <2> HIDE DEF S
  <2>3. calls \in Seq(S)
    BY <2>1
  <2> HIDE DEF calls
  <2> QED
    BY <2>2, <2>3, Zenon
<1>6. told \in [ToldKinds -> Nat]
  <2> DEFINE n == up.told["json"] + 1
  <2>1. n \in Nat
    BY <1>4 DEF ToldKinds
  <2>2. told = up.told \/ told = [up.told EXCEPT !["json"] = n]
    BY Zenon
  <2>3. up.told \in [ToldKinds -> Nat]
    BY <1>4, Zenon
  <2> HIDE DEF n, told
  <2> QED
    BY <2>1, <2>2, <2>3
<1>7. up' = [up EXCEPT !.stage = "between", !.count = @ + 1, !.kind = "none",
                       !.cut = @ \/ ~Parses(up.args), !.calls = calls, !.told = told]
  <2> DEFINE j == IF up.kind = "json" /\ up.args = <<>>
                  THEN up.told["json"] + 1 ELSE up.told["json"]
  <2>1. up' = [up EXCEPT !.stage = "between", !.count = @ + 1, !.kind = "none",
                         !.cut = @ \/ ~Parses(up.args), !.calls = calls, !.told["json"] = j]
    BY <1>1, Zenon
  <2>2. told = [up.told EXCEPT !["json"] = j]
    <3>1. up.told = [up.told EXCEPT !["json"] = up.told["json"]]
      BY <1>4 DEF ToldKinds
    <3> QED
      BY <3>1
  <2>3. "told" \in DOMAIN up
    BY <1>2 DEF UpFields
  <2> HIDE DEF j, calls, told
  <2> QED
    BY <2>1, <2>2, <2>3
<1>8. /\ calls = (IF up.kind = "tool" THEN Append(up.calls, up.args) ELSE up.calls)
      /\ told = IF up.kind = "json" /\ up.args = <<>>
                THEN [up.told EXCEPT !["json"] = @ + 1] ELSE up.told
  OBVIOUS
<1> HIDE DEF calls, told
<1>9. Becomes(up', "between", up.count + 1, "none", up.args, up.called, calls, told)
  BY <1>2, <1>7 DEF Becomes, UpFields
<1>10. IsUp("between", up.count + 1, "none", up.args, up.called, calls, told)
  <2>1. up.count + 1 \in Nat /\ "none" \in ToldKinds \cup {"none"}
        /\ "between" \in {"before", "between", "block", "stopped", "done", "ended"}
    BY <1>4
  <2> QED
    BY <1>4, <1>5, <1>6, <2>1, Zenon DEF IsUp
<1>11. Stop(a, calls, told)
  BY <1>1, <1>3, <1>8, <1>9, <1>10, Zenon DEF Stop
<1> HIDE DEF a
<1>12. CASE up.kind = "tool"
  BY <1>11, <1>12, StopOfTool, Zenon
<1>13. CASE up.kind = "json" /\ up.args = <<>>
  BY <1>11, <1>13, StopOfJson, Zenon
<1>14. CASE up.kind # "tool" /\ (up.kind = "json" => up.args # <<>>)
  BY <1>11, <1>14, StopOfText, Zenon
<1> QED
  BY <1>12, <1>13, <1>14

\* Lists of a line or two, joined.
LEMMA LinesJoin ==
  /\ <<>> = <<>> \o <<>>
  /\ \A l : <<l>> = <<>> \o <<l>> /\ <<>> \o <<l>> = <<l>>
  /\ \A l, m : <<l>> \o <<m>> = <<l, m>>
<1>1. <<>> = <<>> \o <<>>
  OBVIOUS
<1>2. ASSUME NEW l PROVE <<l>> = <<>> \o <<l>>
  OBVIOUS
<1>3. ASSUME NEW l PROVE <<>> \o <<l>> = <<l>>
  OBVIOUS
<1>4. ASSUME NEW l, NEW m PROVE <<l>> \o <<m>> = <<l, m>>
  <2> DEFINE S == {l, m}  s == <<l>>  t == <<m>>  u == <<l, m>>  w == s \o t
  <2>1. s \in Seq(S) /\ t \in Seq(S) /\ u \in Seq(S)
    OBVIOUS
  <2>2. /\ Len(s) = 1 /\ Len(t) = 1 /\ Len(u) = 2
        /\ s[1] = l /\ t[1] = m /\ u[1] = l /\ u[2] = m
    OBVIOUS
  <2> HIDE DEF s, t, u, S
  <2>3. w \in Seq(S) /\ Len(w) = 2
    BY <2>1, <2>2, ConcatProperties
  <2>4. \A i \in 1 .. 2 : w[i] = IF i <= Len(s) THEN s[i] ELSE t[i - Len(s)]
    BY <2>1, <2>2, ConcatProperties
  <2>5. w[1] = l /\ w[2] = m
    BY <2>2, <2>4
  <2> HIDE DEF w
  <2>6. Len(w) = Len(u) /\ \A i \in 1 .. Len(w) : w[i] = u[i]
    BY <2>2, <2>3, <2>5
  <2>7. w = u
    BY <2>1, <2>3, <2>6, SeqEqual
  <2> QED
    BY <2>7 DEF w, s, t, u
<1> QED
  BY <1>1, <1>2, <1>3, <1>4, Zenon

\* The end of a reply.
LEMMA TranslatesEnd ==
  ASSUME NEW s, DOMAIN s = AnthropicFields, s.out = <<>>, NEW t,
         t = s \/ t = [s EXCEPT !.error = TRUE], NEW lines, lines = <<>> \o lines
  PROVE  Translated(Anthropic!Ended(t, lines), s.indices, s.json, s.received, TRUE, s.text,
                    s.think, s.calls, s.finish, lines)
<1> DEFINE w == Anthropic!Ended(t, lines)
<1>1. /\ DOMAIN t = AnthropicFields /\ t.indices = s.indices /\ t.json = s.json
      /\ t.received = s.received /\ t.text = s.text /\ t.think = s.think
      /\ t.calls = s.calls /\ t.finish = s.finish /\ t.out = <<>>
  BY DEF AnthropicFields
<1>2. w = [t EXCEPT !.done = TRUE, !.out = lines]
  BY <1>1, Zenon DEF Anthropic!Ended
<1> HIDE DEF w
<1>3. /\ DOMAIN w = AnthropicFields /\ w.indices = s.indices /\ w.json = s.json
      /\ w.received = s.received /\ w.done = TRUE /\ w.text = s.text /\ w.think = s.think
      /\ w.calls = s.calls /\ w.finish = s.finish /\ w.out = lines
  BY <1>1, <1>2 DEF AnthropicFields
<1> QED
  BY <1>3, Zenon DEF Translated, w

LEMMA TranslatesReason ==
  ASSUME NEW s, Waits(s), NEW e, e.reason \in Reasons
  PROVE  \E reason \in Reasons :
           Translated(Anthropic!MessageDelta(s, e), s.indices, s.json, s.received, FALSE, s.text,
                      s.think, s.calls, reason, <<FinishLine(reason)>>)
<1> DEFINE reason == IF e.reason = "tool_calls" /\ s.calls = <<>> THEN "stop" ELSE e.reason
           t == [s EXCEPT !.finish = reason]
           l == FinishLine(reason)
<1>1. reason \in Reasons
  BY DEF Reasons
<1>2. Anthropic!MessageDelta(s, e) = Anthropic!Emit(t, l)
  BY AnthropicOperators, Zenon DEF Anthropic!MessageDelta, FinishLine
<1>3. DOMAIN s = AnthropicFields /\ s.out = <<>> /\ s.done = FALSE
  BY Zenon DEF Waits
<1> HIDE DEF reason, l
<1>4. /\ DOMAIN t = AnthropicFields /\ t.indices = s.indices /\ t.json = s.json
      /\ t.received = s.received /\ t.done = FALSE /\ t.text = s.text /\ t.think = s.think
      /\ t.calls = s.calls /\ t.finish = reason /\ t.out = <<>>
  BY <1>3 DEF AnthropicFields
<1> HIDE DEF t
<1>6. Translated(t, s.indices, s.json, s.received, FALSE, s.text, s.think, s.calls, reason, <<>>)
  BY <1>4, Zenon DEF Translated
<1>5. Translated(Anthropic!Emit(t, l), s.indices, s.json, s.received, FALSE, s.text, s.think,
                 s.calls, reason, <<l>>)
  BY <1>6, TranslatesOne, Zenon
<1> QED
  BY <1>1, <1>2, <1>5, Zenon DEF l

\* A stage more, and nothing else.
LEMMA Advances ==
  ASSUME Provides, NEW stage, up' = [up EXCEPT !.stage = stage],
         stage \in {"stopped", "done", "ended"}
  PROVE  /\ Becomes(up', stage, up.count, up.kind, up.args, up.called, up.calls, up.told)
         /\ IsUp(stage, up.count, up.kind, up.args, up.called, up.calls, up.told)
         /\ up'.stage = stage /\ up'.calls = up.calls /\ up'.told = up.told
         /\ (up'.stage \in {"done", "ended"}) = (stage # "stopped")
         /\ up'.stage \notin {"before", "between", "block"}
<1>1. /\ IsUp(up.stage, up.count, up.kind, up.args, up.called, up.calls, up.told)
      /\ DOMAIN up = UpFields
  BY ProviderHolds, Zenon
<1>2. Becomes(up', stage, up.count, up.kind, up.args, up.called, up.calls, up.told)
  BY <1>1 DEF Becomes, UpFields
<1>3. up'.stage = stage /\ up'.calls = up.calls /\ up'.told = up.told
  BY <1>2, Zenon DEF Becomes
<1>4. stage \in {"before", "between", "block", "stopped", "done", "ended"}
      /\ (stage \in {"done", "ended"}) = (stage # "stopped")
      /\ stage \notin {"before", "between", "block"}
  OBVIOUS
<1>5. IsUp(stage, up.count, up.kind, up.args, up.called, up.calls, up.told)
  BY <1>1, <1>4, Zenon DEF IsUp
<1> QED
  BY <1>2, <1>3, <1>4, <1>5, Zenon

\* The calls of a reply that has stopped are those told.
LEMMA StopsTelling ==
  ASSUME NEW calls, HasCalls(calls, up), up'.calls = up.calls,
         up'.stage \notin {"before", "between", "block"}
  PROVE  HasCalls(calls, up')
<1>1. up'.stage \notin {"before", "between"} /\ up'.stage # "block"
  OBVIOUS
<1> QED
  BY <1>1, Zenon DEF HasCalls

\* What a converter that has nothing more to tell of is to a reply.
LEMMA Tells1 ==
  ASSUME Provides
  PROVE  LET s == conv.anthropic
         IN /\ s.text = sent.text /\ s.think = sent.think /\ s.finish = sent.finish
            /\ s.text = up.told["text"] + up.told["json"] /\ s.think = up.told["thinking"]
            /\ s.received \in BOOLEAN /\ Numbered(s.calls, sent.calls) /\ HasCalls(s.calls, up)
BY ProviderHolds, Zenon DEF Translates

LEMMA FitMessageDelta ==
  ASSUME Provides, MessageDelta
  PROVE  FitInv'
<1> DEFINE s == conv.anthropic
<1>1. PICK x \in Reasons :
        /\ up.stage = "between"
        /\ Translate([type |-> "message_delta", reason |-> x], [up EXCEPT !.stage = "stopped"])
  BY Zenon DEF MessageDelta
<1> DEFINE e == [type |-> "message_delta", reason |-> x]
           a == Anthropic!Line(s, e)
<1>2. Feed(a.out, a) /\ up' = [up EXCEPT !.stage = "stopped"]
  BY <1>1, Zenon DEF Translate
<1>3. /\ IsSource /\ IsReply(sent) /\ Relayed(Reply, FromBackend) /\ Waits(s)
      /\ Ongoing(Reply, FromBackend) /\ sent.finish = "none" /\ sent.error = FALSE
  BY <1>1, ProviderHolds
<1>4. a = Anthropic!MessageDelta(s, e) /\ e.reason \in Reasons
  <2>1. e.type = "message_delta" /\ e.reason = x
    OBVIOUS
  <2> QED
    BY <1>3, <2>1, LineOf, Zenon DEF Waits
<1>5. PICK reason \in Reasons :
        Translated(a, s.indices, s.json, s.received, FALSE, s.text, s.think, s.calls, reason,
                   <<FinishLine(reason)>>)
  <2> HIDE DEF s, e, a
  <2> QED
    BY <1>3, <1>4, TranslatesReason, Zenon
<1> DEFINE l == FinishLine(reason)
           r == Carried(sent, l)
<1>6. /\ IsLine(sent, l) /\ l.type = "chunk"
      /\ Amounts(r, sent.text, sent.think, sent.calls, reason)
  BY <1>3, AddsLines, Zenon
<1>7. /\ Becomes(up', "stopped", up.count, up.kind, up.args, up.called, up.calls, up.told)
      /\ IsUp("stopped", up.count, up.kind, up.args, up.called, up.calls, up.told)
      /\ up'.stage = "stopped" /\ up'.calls = up.calls /\ up'.told = up.told
      /\ up'.stage \notin {"before", "between", "block"}
      /\ FALSE = (up'.stage \in {"done", "ended"}) /\ "stopped" # "ended"
      /\ "stopped" \notin {"before", "between", "block"}
  <2>1. "stopped" \in {"stopped", "done", "ended"}
    OBVIOUS
  <2>2. /\ Becomes(up', "stopped", up.count, up.kind, up.args, up.called, up.calls, up.told)
        /\ IsUp("stopped", up.count, up.kind, up.args, up.called, up.calls, up.told)
        /\ up'.stage = "stopped" /\ up'.calls = up.calls /\ up'.told = up.told
        /\ up'.stage \notin {"before", "between", "block"}
    BY <1>2, <2>1, Advances, Zenon
  <2>3. FALSE = (up'.stage \in {"done", "ended"}) /\ "stopped" # "ended"
        /\ "stopped" \notin {"before", "between", "block"}
    BY <2>2
  <2> QED
    BY <2>2, <2>3, Zenon
<1>8. Follows(a, r)
  <2>1. Feed(<<l>>, a)
    BY <1>2, <1>5, Zenon DEF Translated
  <2> QED
    BY <1>3, <1>6, <2>1, FeedsOne, Zenon
<1>9. /\ s.text = sent.text /\ s.think = sent.think
      /\ s.text = up.told["text"] + up.told["json"] /\ s.think = up.told["thinking"]
      /\ s.received \in BOOLEAN /\ Numbered(s.calls, sent.calls) /\ HasCalls(s.calls, up)
  BY Tells1, Zenon
<1>10. HasCalls(s.calls, up')
  BY <1>7, <1>9, StopsTelling, Zenon
<1>11. r.text = sent.text /\ r.think = sent.think /\ r.finish = reason /\ r.calls = sent.calls
  BY <1>6, Zenon DEF Amounts
<1> HIDE DEF s, e, a, l, r
<1>12. Translates(Clear(a), up', r)
  BY <1>5, <1>7, <1>9, <1>10, <1>11, Translating, Zenon
<1> QED
  BY <1>7, <1>8, <1>12, ProviderKeeps, Zenon

\* The reply is over: nothing more is told.
LEMMA Concludes ==
  ASSUME Provides, NEW stage, up' = [up EXCEPT !.stage = stage], stage \in {"done", "ended"},
         NEW a, NEW out, NEW r, r.text = sent.text, r.think = sent.think, r.calls = sent.calls,
         r.finish = sent.finish, Follows(a, r), stage = "ended" => AtRest(Reply', FromBackend),
         LET s == conv.anthropic
         IN Translated(a, s.indices, s.json, s.received, TRUE, s.text, s.think, s.calls, s.finish, out)
  PROVE  FitInv'
<1> DEFINE s == conv.anthropic
<1>1. /\ Becomes(up', stage, up.count, up.kind, up.args, up.called, up.calls, up.told)
      /\ IsUp(stage, up.count, up.kind, up.args, up.called, up.calls, up.told)
      /\ up'.stage = stage /\ up'.calls = up.calls /\ up'.told = up.told
      /\ up'.stage \notin {"before", "between", "block"}
  <2>1. stage \in {"stopped", "done", "ended"}
    OBVIOUS
  <2> QED
    BY <2>1, Advances, Zenon
<1>2. TRUE = (up'.stage \in {"done", "ended"}) /\ stage \notin {"before", "between", "block"}
  <2>1. up'.stage = stage
    BY <1>1, Zenon
  <2> QED
    BY <2>1
<1>3. /\ s.text = sent.text /\ s.think = sent.think /\ s.finish = sent.finish
      /\ s.text = up.told["text"] + up.told["json"] /\ s.think = up.told["thinking"]
      /\ s.received \in BOOLEAN /\ Numbered(s.calls, sent.calls) /\ HasCalls(s.calls, up)
  BY Tells1, Zenon
<1>4. HasCalls(s.calls, up')
  BY <1>1, <1>3, StopsTelling, Zenon
<1>5. Translated(a, s.indices, s.json, s.received, TRUE, s.text, s.think, s.calls, s.finish, out)
  OBVIOUS
<1> DEFINE b == TRUE
<1>6. b = (up'.stage \in {"done", "ended"})
      /\ Translated(a, s.indices, s.json, s.received, b, s.text, s.think, s.calls, s.finish, out)
  BY <1>2, <1>5
<1> HIDE DEF s, b
<1>7. Translates(Clear(a), up', r)
  BY <1>1, <1>3, <1>4, <1>6, Translating, Zenon
<1> QED
  BY <1>1, <1>2, <1>7, ProviderKeeps, Zenon

LEMMA FitMessageStop ==
  ASSUME Provides, MessageStop
  PROVE  FitInv'
<1> DEFINE s == conv.anthropic
           e == Event("message_stop")
           a == Anthropic!Line(s, e)
           l == Sentinel("[DONE]")
<1>1. up.stage = "stopped" /\ up' = [up EXCEPT !.stage = "done"] /\ Feed(a.out, a)
  BY Zenon DEF MessageStop, Translate
<1>2. IsSource /\ Relayed(Reply, FromBackend) /\ Waits(s)
  BY <1>1, ProviderHolds
<1>3. a = Anthropic!Ended(s, <<l>>)
  <2>1. e.type = "message_stop"
    BY DEF Event
  <2> QED
    BY <1>2, <2>1, LineOf, Zenon DEF Waits
<1>4. Translated(a, s.indices, s.json, s.received, TRUE, s.text, s.think, s.calls, s.finish, <<l>>)
  <2>1. <<l>> = <<>> \o <<l>>
    <3> HIDE DEF l
    <3> QED
      OBVIOUS
  <2> QED
    BY <1>2, <1>3, <2>1, TranslatesEnd, Zenon DEF Waits
<1>5. l.type = "[DONE]" /\ IsLine(sent, l) /\ Carried(sent, l) = sent
  BY DEF Sentinel, IsLine, Carried
<1>6. Follows(a, sent)
  <2>1. Feed(<<l>>, a)
    BY <1>1, <1>4, Zenon DEF Translated
  <2>2. l.type \notin {"chunk", "error"}
    BY <1>5
  <2> HIDE DEF a, l
  <2> QED
    BY <1>2, <1>5, <2>1, <2>2, FeedsOne, Zenon
<1>7. "done" \in {"done", "ended"} /\ "done" # "ended"
  OBVIOUS
<1> HIDE DEF a, l
<1> QED
  BY <1>1, <1>4, <1>6, <1>7, Concludes, Zenon

LEMMA FitProviderError ==
  ASSUME Provides, ProviderError
  PROVE  FitInv'
<1> DEFINE s == conv.anthropic
           e == Event("error")
           a == Anthropic!Line(s, e)
           l == Sentinel("error")
           r == Carried(sent, l)
<1>1. /\ up.stage \in {"before", "between", "block"} /\ up' = [up EXCEPT !.stage = "done"]
      /\ Feed(a.out, a)
  BY Zenon DEF ProviderError, Translate
<1>2. /\ IsSource /\ Relayed(Reply, FromBackend) /\ Waits(s) /\ IsReply(sent)
      /\ Ongoing(Reply, FromBackend) /\ sent.finish = "none" /\ sent.error = FALSE
  BY <1>1, ProviderHolds
<1>3. a = Anthropic!Ended([s EXCEPT !.error = TRUE], <<l>>)
  <2>1. e.type = "error"
    BY DEF Event
  <2> QED
    BY <1>2, <2>1, LineOf, Zenon DEF Waits
<1>4. Translated(a, s.indices, s.json, s.received, TRUE, s.text, s.think, s.calls, s.finish, <<l>>)
  <2>1. <<l>> = <<>> \o <<l>>
    <3> HIDE DEF l
    <3> QED
      OBVIOUS
  <2> QED
    BY <1>2, <1>3, <2>1, TranslatesEnd, Zenon DEF Waits
<1>5. l.type = "error" /\ IsLine(sent, l)
  BY <1>2 DEF Sentinel, IsLine
<1>6. r.text = sent.text /\ r.think = sent.think /\ r.calls = sent.calls /\ r.finish = sent.finish
  <2>1. Erring(sent, r)
    BY <1>2, <1>5, CarriedTyped, Zenon
  <2> QED
    BY <2>1, Zenon DEF Erring
<1>7. Follows(a, r)
  <2>1. Feed(<<l>>, a)
    BY <1>1, <1>4, Zenon DEF Translated
  <2> HIDE DEF a, l
  <2> QED
    BY <1>2, <1>5, <2>1, FeedsOne, Zenon
<1>8. "done" \in {"done", "ended"} /\ "done" # "ended"
  OBVIOUS
<1> HIDE DEF a, l, r
<1> QED
  BY <1>1, <1>4, <1>6, <1>7, <1>8, Concludes, Zenon

LEMMA FitProviderEof ==
  ASSUME Provides, ProviderEof
  PROVE  FitInv'
<1> DEFINE s == conv.anthropic
           e == Event("eof")
           a == Anthropic!Line(s, e)
           l == Sentinel("[DONE]")
           m == Sentinel("eof")
<1>1. /\ up.stage # "ended" /\ up' = [up EXCEPT !.stage = "ended"]
      /\ Feed(a.out \o <<m>>, a)
  BY Zenon DEF ProviderEof
<1>2. /\ IsSource /\ Relayed(Reply, FromBackend) /\ s.out = <<>> /\ DOMAIN s = AnthropicFields
      /\ Translates(s, up, sent)
  BY ProviderHolds, Zenon
<1>3. e.type = "eof" /\ l.type = "[DONE]" /\ m.type = "eof"
  BY DEF Event, Sentinel
<1>4. IsLine(sent, m) /\ Carried(sent, m) = sent /\ m.type \notin {"chunk", "error"}
  BY <1>3 DEF IsLine, Carried
<1>5. /\ a = s /\ s.done = TRUE
      \/ a = Anthropic!Ended(s, <<l>>)
      \/ a = Anthropic!Ended(s, <<>>)
  <2>1. CASE s.done
    <3>1. a = s
      BY <2>1, Zenon DEF Anthropic!Line
    <3>2. s.done = TRUE
      <4>1. s.done = (up.stage \in {"done", "ended"})
        BY <1>2, Zenon DEF Translates
      <4> QED
        BY <2>1, <4>1
    <3> QED
      BY <3>1, <3>2
  <2>2. CASE ~s.done
    <3>1. s.done = FALSE
      <4>1. s.done = (up.stage \in {"done", "ended"})
        BY <1>2, Zenon DEF Translates
      <4> QED
        BY <2>2, <4>1
    <3>2. a = Anthropic!Finish(s)
      BY <1>3, <3>1, LineOf, Zenon
    <3>3. Anthropic!Sentinel("[DONE]") = l
      BY AnthropicOperators, Zenon
    <3> HIDE DEF s, a, l
    <3> QED
      BY <2>2, <3>2, <3>3, Zenon DEF Anthropic!Finish
  <2> QED
    BY <2>1, <2>2
<1> HIDE DEF l, m
<1>6. <<l>> = <<>> \o <<l>> /\ <<>> = <<>> \o <<>> /\ <<>> \o <<m>> = <<m>>
      /\ <<l>> \o <<m>> = <<l, m>>
  BY LinesJoin, Zenon
<1> HIDE DEF s, a, e
<1>7. \E out \in {<<>>, <<l>>} :
        Translated(a, s.indices, s.json, s.received, TRUE, s.text, s.think, s.calls, s.finish, out)
  <2>1. a = s /\ s.done = TRUE =>
          Translated(a, s.indices, s.json, s.received, TRUE, s.text, s.think, s.calls, s.finish, <<>>)
    BY <1>2, Zenon DEF Translated
  <2>2. a = Anthropic!Ended(s, <<l>>) =>
          Translated(a, s.indices, s.json, s.received, TRUE, s.text, s.think, s.calls, s.finish, <<l>>)
    BY <1>2, <1>6, TranslatesEnd, Zenon
  <2>3. a = Anthropic!Ended(s, <<>>) =>
          Translated(a, s.indices, s.json, s.received, TRUE, s.text, s.think, s.calls, s.finish, <<>>)
    BY <1>2, <1>6, TranslatesEnd, Zenon
  <2> QED
    BY <1>5, <2>1, <2>2, <2>3
<1>8. PICK out \in {<<>>, <<l>>} :
        Translated(a, s.indices, s.json, s.received, TRUE, s.text, s.think, s.calls, s.finish, out)
  BY <1>7
<1>9. Follows(a, sent) /\ AtRest(Reply', FromBackend)
  <2>1. a.out = out
    BY <1>8, Zenon DEF Translated
  <2>2. CASE out = <<>>
    <3>1. Feed(<<m>>, a)
      BY <1>1, <1>6, <2>1, <2>2, Zenon
    <3> QED
      BY <1>2, <1>3, <1>4, <3>1, FeedsOne, Zenon
  <2>3. CASE out = <<l>>
    <3>1. Feed(<<l, m>>, a)
      BY <1>1, <1>6, <2>1, <2>3, Zenon
    <3> QED
      BY <1>2, <1>3, <3>1, FeedsTwo, Zenon
  <2> QED
    BY <2>2, <2>3
<1>10. "ended" \in {"done", "ended"}
  OBVIOUS
<1> QED
  BY <1>1, <1>8, <1>9, <1>10, Concludes, Zenon DEF s

\* A step of the provider keeps the invariant.
LEMMA FitProvider ==
  ASSUME FitInv, Provider
  PROVE  FitInv'
<1>1. Provides
  <2>1. up.source = "provider"
    BY Zenon DEF Provider
  <2> QED
    BY <2>1 DEF Provides, FromBackend
<1>2. \/ MessageStart \/ ContentBlockStart \/ ContentBlockDelta \/ ContentBlockStop
      \/ MessageDelta \/ MessageStop \/ ProviderError \/ ProviderEof
  BY Zenon DEF Provider
<1>3. CASE MessageStart
  BY <1>1, <1>3, FitMessageStart, Zenon
<1>4. CASE ContentBlockStart
  BY <1>1, <1>4, FitContentBlockStart, Zenon
<1>5. CASE ContentBlockDelta
  BY <1>1, <1>5, FitContentBlockDelta, Zenon
<1>6. CASE ContentBlockStop
  BY <1>1, <1>6, FitContentBlockStop, Zenon
<1>7. CASE MessageDelta
  BY <1>1, <1>7, FitMessageDelta, Zenon
<1>8. CASE MessageStop
  BY <1>1, <1>8, FitMessageStop, Zenon
<1>9. CASE ProviderError
  BY <1>1, <1>9, FitProviderError, Zenon
<1>10. CASE ProviderEof
  BY <1>1, <1>10, FitProviderEof, Zenon
<1> QED
  BY <1>2, <1>3, <1>4, <1>5, <1>6, <1>7, <1>8, <1>9, <1>10, Zenon

\* What the converters know and their clients have read is always what the
\* lines carried: the inductive invariant of a streamed reply.
THEOREM StreamsFit == StreamsSpec => []FitInv
<1>1. StreamsInit => FitInv
  BY FitInit
<1>2. FitInv /\ [StreamsNext]_streamsVars => FitInv'
  <2>1. ASSUME FitInv, StreamsNext PROVE FitInv'
    BY <2>1, FitBackend, FitProvider, Zenon DEF StreamsNext
  <2>2. ASSUME FitInv, UNCHANGED streamsVars PROVE FitInv'
    <3>1. up' = up /\ sent' = sent /\ conv' = conv /\ seen' = seen
      BY <2>2 DEF streamsVars
    <3>2. /\ Reply' = Reply /\ FromBackend' = FromBackend /\ (UpTyped => UpTyped')
          /\ (Translates(conv.anthropic, up, sent) => Translates(conv'.anthropic, up', sent'))
      BY <3>1 DEF Reply, FromBackend, UpTyped, IsSource
    <3>3. /\ Relayed(Reply, FromBackend) => Relayed(Reply', FromBackend')
          /\ Ongoing(Reply, FromBackend) => Ongoing(Reply', FromBackend')
          /\ AtRest(Reply, FromBackend) => AtRest(Reply', FromBackend')
      BY <3>2
    <3> QED
      BY <2>2, <3>1, <3>2, <3>3, Zenon DEF FitInv
  <2> QED
    BY <2>1, <2>2
<1> QED
  BY <1>1, <1>2, PTL DEF StreamsSpec

(***************************************************************************)
(* What the invariant says of the clients                                  *)
(***************************************************************************)

\* A client of Messages: of a backend it has read what the converter wrote,
\* of a provider nothing.
LEMMA MessagesClientHolds ==
  ASSUME FitInv
  PROVE  LET s == conv.messages
             v == seen.messages
         IN /\ v.ok = TRUE
            /\ v.end = "complete" =>
                 /\ Messages!Content(s) =
                      [k \in DOMAIN v.blocks |->
                         [f \in {"kind", "id", "n", "args"} |-> v.blocks[k][f]]]
                 /\ Got(sent, s, v)
            /\ FromBackend /\ up.stage = "ended" =>
                 v.end = IF sent.finish # "none" /\ ~sent.error /\ ~Messages!Broken(s)
                         THEN "complete" ELSE "failed"
<1> DEFINE s == conv.messages
           v == seen.messages
<1>1. CASE FromBackend
  <2>1. Relayed(Reply, FromBackend) /\ (up.stage = "ended" => AtRest(Reply, FromBackend))
    BY Zenon DEF FitInv
  <2>2. Reply.sent = sent /\ Reply.conv = conv /\ Reply.seen = seen
    BY DEF Reply
  <2>3. MessagesFit(sent, s, v) /\ (up.stage = "ended" => s.done)
    BY <1>1, <2>1, <2>2, Zenon DEF Relayed, AtRest
  <2> DEFINE broken == Messages!Broken(s)
             same == Messages!Content(s) =
                       [k \in DOMAIN v.blocks |->
                          [f \in {"kind", "id", "n", "args"} |-> v.blocks[k][f]]]
             r == sent
  <2>4. /\ v.ok = TRUE
        /\ v.end = IF ~s.done THEN "none" ELSE IF s.error THEN "failed" ELSE "complete"
        /\ v.end = "complete" => same /\ Got(r, s, v) /\ r.finish # "none" /\ ~r.error /\ ~broken
        /\ v.end = "failed" => r.finish = "none" \/ r.error \/ broken
    <3>1. MessageTells(r, s, v)
      BY <2>3, MessagesMeans, Zenon
    <3> QED
      BY <3>1, Zenon DEF MessageTells
  <2> HIDE DEF s, v, broken, same, r
  <2>5. up.stage = "ended" =>
          v.end = IF r.finish # "none" /\ ~r.error /\ ~broken THEN "complete" ELSE "failed"
    BY <2>3, <2>4
  <2> QED
    BY <2>4, <2>5, Zenon DEF s, v, broken, same, r
<1>2. CASE ~FromBackend
  <2>1. v = NewMessage
    BY <1>2, Zenon DEF FitInv
  <2>2. v.ok = TRUE /\ v.end = "none"
    BY <2>1 DEF NewMessage
  <2>3. v.end # "complete"
    BY <2>2
  <2> QED
    BY <1>2, <2>2, <2>3, Zenon
<1> QED
  BY <1>1, <1>2, Zenon

\* The others.
LEMMA ClientsHold ==
  ASSUME FitInv
  PROVE  /\ IsReply(sent) /\ (sent.finish # "none" => ~sent.error)
         /\ ResponsesHold(sent, conv.responses, seen.responses)
         /\ OllamaFit(sent, conv.ollama, seen.ollama)
         /\ GeminiFit(sent, conv.gemini, seen.gemini)
         /\ up.stage = "ended" =>
              conv.responses.done /\ conv.ollama.done = conv.ollama.finish
<1>1. Relayed(Reply, FromBackend) /\ (up.stage = "ended" => AtRest(Reply, FromBackend))
  BY Zenon DEF FitInv
<1>2. Reply.sent = sent /\ Reply.conv = conv /\ Reply.seen = seen
  BY DEF Reply
<1> QED
  BY <1>1, <1>2, Zenon DEF Relayed, AtRest, ResponsesFit

(***************************************************************************)
(* The invariants                                                          *)
(***************************************************************************)

\* Every Messages stream is well formed: its blocks are numbered in order,
\* each delta is for an open block of its kind, all are closed at the end.
THEOREM MessagesStreamsWell == StreamsSpec => []MessagesWellFormed
<1>1. FitInv => MessagesWellFormed
  BY MessagesClientHolds, Zenon DEF MessagesWellFormed
<1> QED
  BY <1>1, StreamsFit, PTL

\* Every Responses stream of a reply that does not reason again after its
\* answer began is.
THEOREM ResponsesStreamsWell == StreamsSpec => []ResponsesWellFormed
<1>1. FitInv => ResponsesWellFormed
  <2> SUFFICES ASSUME FitInv, ~sent.late PROVE seen.responses.ok = TRUE
    BY Zenon DEF ResponsesWellFormed, ItemsOwnTheirIndex
  <2>1. ResponsesHold(sent, conv.responses, seen.responses)
    BY ClientsHold, Zenon
  <2> QED
    BY <2>1, Zenon DEF ResponsesHold, Streamed
<1> QED
  BY <1>1, StreamsFit, PTL

\* What a streaming client puts together is what one that does not stream
\* is given.
THEOREM StreamsFold == StreamsSpec => []StreamIsTheFold
<1>1. FitInv => StreamIsTheFold
  <2> SUFFICES ASSUME FitInv PROVE StreamIsTheFold
    OBVIOUS
  <2>1. seen.messages.end = "complete" =>
          Messages!Content(conv.messages) =
            [k \in DOMAIN seen.messages.blocks |->
               [f \in {"kind", "id", "n", "args"} |-> seen.messages.blocks[k][f]]]
    BY MessagesClientHolds, Zenon
  <2> DEFINE a == conv.anthropic
  <2>2. ASSUME up.source = "provider"
        PROVE  /\ a.text = sent.text /\ a.think = sent.think
               /\ \A i \in DOMAIN a.calls : a.calls[i] = Call(sent.calls, i - 1).args
    <3>1. Translates(a, up, sent) /\ IsCalls(sent.calls)
      <4>1. ~FromBackend
        BY <2>2 DEF FromBackend
      <4> QED
        BY <4>1, ClientsHold, Zenon DEF FitInv, IsReply
    <3>2. a.text = sent.text /\ a.think = sent.think /\ Numbered(a.calls, sent.calls)
      BY <3>1, Zenon DEF Translates
    <3> DEFINE calls == a.calls
               q == sent.calls
    <3>3. \A i \in DOMAIN calls : calls[i] = Call(q, i - 1).args
      <4>1. calls \in Seq(Seq(Pieces)) /\ Size(q) = Len(calls)
            /\ (\A i \in 1 .. Len(calls) : calls[i] = q[i - 1].args)
        BY <3>2, Zenon DEF Numbered
      <4>2. DOMAIN q = 0 .. Size(q) - 1
        BY <3>1, CallsDomain, Zenon
      <4> HIDE DEF calls, q
      <4>3. DOMAIN calls = 1 .. Len(calls) /\ Len(calls) \in Nat
        BY <4>1
      <4> TAKE i \in DOMAIN calls
      <4>4. i \in 1 .. Len(calls) /\ i - 1 \in 0 .. Len(calls) - 1
        BY <4>3
      <4>5. Call(q, i - 1) = q[i - 1]
        BY <4>1, <4>2, <4>4, Zenon DEF Call
      <4> QED
        BY <4>1, <4>4, <4>5, Zenon
    <3> QED
      BY <3>2, <3>3, Zenon
  <2> QED
    BY <2>1, <2>2, Zenon DEF StreamIsTheFold
<1> QED
  BY <1>1, StreamsFit, PTL

\* The arguments of alike calls.
LEMMA ArgsAlike ==
  ASSUME NEW tools, NEW calls, tools = calls
  PROVE  Args(tools) = Args(calls)
OBVIOUS

\* A surface that reports a complete reply has passed on all of it: text,
\* reasoning and the arguments of every call.
THEOREM StreamsLoseNothing == StreamsSpec => []NothingLost
<1>1. FitInv => NothingLost
  <2> SUFFICES ASSUME FitInv PROVE NothingLost
    OBVIOUS
  <2>1. /\ IsReply(sent)
        /\ ResponsesHold(sent, conv.responses, seen.responses)
        /\ OllamaFit(sent, conv.ollama, seen.ollama)
        /\ GeminiFit(sent, conv.gemini, seen.gemini)
    BY ClientsHold, Zenon
  <2>2. ASSUME seen.messages.end = "complete"
        PROVE  /\ LET total == Parts!Through(NoParts, seen.messages.blocks)
                  IN total["text"] = sent.text + sent.refusal /\ total["thinking"] = sent.think
               /\ \A i \in DOMAIN sent.calls :
                    seen.messages.blocks[conv.messages.tools[i].index + 1].args = sent.calls[i].args
    BY <2>2, MessagesClientHolds, Zenon DEF Got
  <2>3. ASSUME seen.responses.ok, seen.responses.end = "complete"
        PROVE  ListsAll(sent, seen.responses.items)
    <3> DEFINE v == seen.responses
               s == conv.responses
    <3>1. sent.late => v.ok = FALSE
      BY <2>1, Zenon DEF ResponsesHold, IsDead
    <3>2. ~sent.late
      BY <2>3, <3>1
    <3>3. ~s.done => v.end = "none"
      BY <2>1, <3>2, Zenon DEF ResponsesHold, Streamed
    <3>4. s.done
      BY <2>3, <3>3
    <3> QED
      BY <2>1, <2>3, <3>2, <3>4, Zenon DEF ResponsesHold
  <2>4. ASSUME seen.ollama.ends > 0
        PROVE  /\ seen.ollama.text = sent.text /\ seen.ollama.think = sent.think
               /\ Args(seen.ollama.tools) = Args(sent.calls)
    <3> DEFINE v == seen.ollama
               s == conv.ollama
    <3>1. s.done \in BOOLEAN /\ v.ends = Num(s.done) /\ (s.done => s.held = 0 /\ v.tools = sent.calls)
          /\ v.text + s.held = sent.text /\ v.think = sent.think /\ v.text \in Nat
      BY <2>1, Zenon DEF OllamaFit, IsTally
    <3>2. s.done
      <4>1. ~s.done => v.ends = 0
        BY <3>1 DEF Num
      <4> QED
        BY <2>4, <4>1
    <3>3. v.text = sent.text
      <4> DEFINE n == v.text
                 m == sent.text
      <4>1. n + 0 = m /\ n \in Nat
        BY <3>1, <3>2, Zenon
      <4> HIDE DEF n, m
      <4>2. n = m
        BY <4>1
      <4> QED
        BY <4>2, Zenon DEF n, m
    <3> QED
      BY <3>1, <3>2, <3>3, ArgsAlike, Zenon
  <2>5. ASSUME seen.gemini.ends > 0
        PROVE  /\ seen.gemini.text = sent.text /\ seen.gemini.think = sent.think
               /\ Args(seen.gemini.tools) = Args(sent.calls)
    <3> DEFINE v == seen.gemini
               s == conv.gemini
    <3>1. /\ s.finished \in BOOLEAN /\ v.ends = Num(s.finished)
          /\ s.finished => v.tools = sent.calls
          /\ v.text = sent.text /\ v.think = sent.think
      BY <2>1, Zenon DEF GeminiFit
    <3>2. s.finished
      <4>1. ~s.finished => v.ends = 0
        BY <3>1 DEF Num
      <4> QED
        BY <2>5, <4>1
    <3> QED
      BY <3>1, <3>2, ArgsAlike, Zenon
  <2>6. ASSUME up.source = "provider"
        PROVE  /\ sent.text = up.told["text"] + up.told["json"] /\ sent.think = up.told["thinking"]
               /\ \A i \in DOMAIN up.calls :
                    sent.calls[i - 1].args = IF up.calls[i] = <<>> THEN <<"whole">> ELSE up.calls[i]
    <3> DEFINE calls == conv.anthropic.calls
               q == sent.calls
               told == up.calls
               Meant(i) == IF told[i] = <<>> THEN <<"whole">> ELSE told[i]
    <3>1. Translates(conv.anthropic, up, sent) /\ UpTyped
      <4>1. ~FromBackend
        BY <2>6 DEF FromBackend
      <4> QED
        BY <4>1, Zenon DEF FitInv
    <3>2. /\ sent.text = up.told["text"] + up.told["json"] /\ sent.think = up.told["thinking"]
          /\ Numbered(calls, q) /\ HasCalls(calls, up)
      BY <3>1, Zenon DEF Translates
    <3>3. \A i \in DOMAIN told : q[i - 1].args = Meant(i)
      <4>1. calls \in Seq(Seq(Pieces)) /\ \A i \in 1 .. Len(calls) : calls[i] = q[i - 1].args
        BY <3>2, Zenon DEF Numbered
      <4>2. (\A i \in 1 .. Len(told) : calls[i] = Meant(i)) /\ Len(calls) >= Len(told)
        BY <3>2, Zenon DEF HasCalls
      <4>3. told \in Seq(Seq(Pieces))
        BY <3>1, Zenon DEF UpTyped
      <4> HIDE DEF calls, q, told, Meant
      <4>4. DOMAIN told = 1 .. Len(told) /\ Len(told) \in Nat
        BY <4>3
      <4>5. Len(calls) \in Nat
        BY <4>1
      <4> TAKE i \in DOMAIN told
      <4>6. i \in 1 .. Len(told) /\ i \in 1 .. Len(calls)
        BY <4>2, <4>4, <4>5
      <4> QED
        BY <4>1, <4>2, <4>6, Zenon
    <3> QED
      BY <3>2, <3>3, Zenon DEF Meant
  <2>7. ASSUME seen.responses.ok, seen.responses.end = "complete"
        PROVE  LET items == seen.responses.items
                   total == Items!Through(NoParts, items)
                   order == Indices(sent.calls)
                   first == Len(items) - Len(order)
               IN /\ total["text"] = sent.text /\ total["refusal"] = sent.refusal
                  /\ total["summary"] = sent.think
                  /\ \A k \in DOMAIN items : items[k].kind = "call" <=> k > first
                  /\ \A k \in DOMAIN order : items[first + k].args = sent.calls[order[k]].args
    BY <2>3, <2>7, Zenon DEF ListsAll, Listed
  <2> QED
    BY <2>2, <2>4, <2>5, <2>6, <2>7, Zenon DEF NothingLost
<1> QED
  BY <1>1, StreamsFit, PTL

\* The surfaces agree on whether the reply came to its end.
THEOREM StreamsAgree == StreamsSpec => []EndsAgree
<1>1. FitInv => EndsAgree
  <2> SUFFICES ASSUME FitInv, up.stage = "ended" PROVE EndsAgree
    BY Zenon DEF EndsAgree
  <2> DEFINE complete == sent.finish # "none" /\ ~sent.error
             v == seen.responses
             o == seen.ollama
             g == seen.gemini
  <2>1. /\ IsReply(sent) /\ (sent.finish # "none" => ~sent.error)
        /\ ResponsesHold(sent, conv.responses, v)
        /\ OllamaFit(sent, conv.ollama, o)
        /\ GeminiFit(sent, conv.gemini, g)
        /\ conv.responses.done /\ conv.ollama.done = conv.ollama.finish
    BY ClientsHold, Zenon
  <2>2. (v.end = "complete") = complete \/ ~v.ok
    <3>1. CASE sent.late
      <4>1. v.ok = FALSE
        BY <2>1, <3>1, Zenon DEF ResponsesHold, IsDead
      <4> QED
        BY <4>1
    <3>2. CASE ~sent.late
      <4>1. v.end = IF complete THEN "complete" ELSE "failed"
        BY <2>1, <3>2, Zenon DEF ResponsesHold
      <4> HIDE DEF complete, v
      <4>2. complete \in BOOLEAN
        BY DEF complete
      <4> QED
        BY <4>1, <4>2
    <3> QED
      BY <3>1, <3>2
  <2>3. up.source = "backend" =>
          seen.messages.end = IF complete /\ ~Messages!Broken(conv.messages)
                              THEN "complete" ELSE "failed"
    BY MessagesClientHolds, Zenon DEF FromBackend
  <2>4. o.ends = Num(complete)
    <3>1. o.ends = Num(conv.ollama.done) /\ conv.ollama.finish = (sent.finish # "none")
      BY <2>1, Zenon DEF OllamaFit
    <3>2. (sent.finish # "none") = complete
      <4>1. sent.error \in BOOLEAN
        BY <2>1, Zenon DEF IsReply
      <4> QED
        BY <2>1, <4>1
    <3> HIDE DEF complete
    <3> QED
      BY <2>1, <3>1, <3>2, Zenon
  <2>5. complete => g.ends = 1 /\ ~g.error
    <3> SUFFICES ASSUME complete PROVE g.ends = 1 /\ ~g.error
      OBVIOUS
    <3>1. conv.gemini.finished \in BOOLEAN /\ conv.gemini.finished
          /\ g.ends = Num(conv.gemini.finished) /\ ~g.error
      BY <2>1, Zenon DEF GeminiFit
    <3>2. Num(conv.gemini.finished) = 1
      BY <3>1 DEF Num
    <3> QED
      BY <3>1, <3>2
  <2> QED
    BY <2>2, <2>3, <2>4, <2>5, Zenon DEF EndsAgree
<1> QED
  BY <1>1, StreamsFit, PTL
=============================================================================
