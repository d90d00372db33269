------------------------------- MODULE Streams -------------------------------
(***************************************************************************)
(* One streamed reply on every API surface at once: a backend that speaks  *)
(* chat completions, or an Anthropic provider whose reply is translated    *)
(* first (send_chat_completion), and the converters to Messages,           *)
(* Responses, Ollama and Gemini fed with the same lines.  The converters   *)
(* are pure, so one reply through all of them shows where they disagree.   *)
(***************************************************************************)
EXTENDS ChatStream

CONSTANTS
  MaxLines,    \* bound: the chunks of a backend's reply, but for the last
  MaxBlocks,   \* bound: the content blocks of a provider's reply
  MaxDeltas    \* bound: the deltas of one of them

ASSUME StreamsAssumption == MaxLines \in Nat /\ MaxBlocks \in Nat /\ MaxDeltas \in Nat

VARIABLES
  up,     \* the backend or provider, and how far its reply is
  sent,   \* history: what the chat completion carried
  conv,   \* the converters
  seen    \* what each client has made of its stream

streamsVars == <<up, sent, conv, seen>>

Messages  == INSTANCE MessagesStream
Responses == INSTANCE ResponsesStream
Ollama    == INSTANCE OllamaStream
Gemini    == INSTANCE GeminiStream
Anthropic == INSTANCE AnthropicStream

(***************************************************************************)
(* The clients, who hold the API to its word.                              *)
(***************************************************************************)

NewMessage == [blocks |-> <<>>, started |-> FALSE, end |-> "none", ok |-> TRUE]

OpenBlock(kind, id) == [kind |-> kind, id |-> id, n |-> 0, args |-> <<>>, open |-> TRUE]

\* Blocks are numbered from 0; each is open from its start to its stop.
ReadMessages(v, e) ==
  LET k == IF e.type \in {"delta", "block_stop"} THEN e.index + 1 ELSE 0
      fits == CASE e.type = "message_start" -> ~v.started
                [] e.type = "block_start" -> v.started /\ e.index = Len(v.blocks)
                [] e.type = "delta" -> /\ k \in DOMAIN v.blocks
                                       /\ v.blocks[k].open /\ v.blocks[k].kind = e.kind
                [] e.type = "block_stop" -> k \in DOMAIN v.blocks /\ v.blocks[k].open
                [] e.type = "message_stop" -> \A b \in DOMAIN v.blocks : ~v.blocks[b].open
                [] e.type = "error" -> TRUE
  IN IF ~v.ok \/ v.end # "none" \/ ~fits THEN [v EXCEPT !.ok = FALSE]
     ELSE CASE e.type = "message_start" -> [v EXCEPT !.started = TRUE]
            [] e.type = "block_start" ->
                 [v EXCEPT !.blocks = Append(@, OpenBlock(e.kind, e.id))]
            [] e.type = "delta" ->
                 IF e.kind = "tool" THEN [v EXCEPT !.blocks[k].args = @ \o e.args]
                 ELSE [v EXCEPT !.blocks[k].n = @ + 1]
            [] e.type = "block_stop" -> [v EXCEPT !.blocks[k].open = FALSE]
            [] e.type = "message_stop" -> [v EXCEPT !.end = "complete"]
            [] e.type = "error" -> [v EXCEPT !.end = "failed"]

NewResponse == [items |-> <<>>, end |-> "none", ok |-> TRUE]

\* Every item has an output index of its own, and the parts it says it has.
ReadResponses(v, e) ==
  LET k == IF e.type \in {"delta", "part_added", "item_done"} THEN e.index + 1 ELSE 0
      open == k \in DOMAIN v.items /\ v.items[k].open
      fits == CASE e.type \in {"created", "failed"} -> TRUE
                [] e.type = "item_added" -> e.index = Len(v.items)
                [] e.type = "part_added" ->
                     open /\ v.items[k].kind = "message" /\ e.part = Len(v.items[k].parts) + 1
                [] e.type = "delta" ->
                     open /\ IF e.kind = "reasoning" THEN v.items[k].kind = "reasoning"
                             ELSE /\ v.items[k].kind = "message"
                                  /\ e.part \in DOMAIN v.items[k].parts
                                  /\ v.items[k].parts[e.part].kind = e.kind
                [] e.type = "item_done" ->
                     /\ open
                     /\ e.item.kind = v.items[k].kind
                     /\ e.item.kind # "call" => e.item.parts = v.items[k].parts
                [] e.type = "completed" ->
                     /\ \A i \in DOMAIN v.items : ~v.items[i].open
                     /\ e.output = [i \in DOMAIN v.items |->
                                      [f \in {"kind", "parts", "args"} |-> v.items[i][f]]]
  IN IF ~v.ok \/ v.end # "none" \/ ~fits THEN [v EXCEPT !.ok = FALSE]
     ELSE CASE e.type = "created" -> v
            [] e.type = "item_added" ->
                 [v EXCEPT !.items = Append(@,
                    [kind |-> e.kind, open |-> TRUE, args |-> <<>>,
                     parts |-> IF e.kind = "reasoning" THEN <<[kind |-> "summary", n |-> 0]>>
                               ELSE <<>>])]
            [] e.type = "part_added" ->
                 [v EXCEPT !.items[k].parts = Append(@, [kind |-> e.kind, n |-> 0])]
            [] e.type = "delta" -> [v EXCEPT !.items[k].parts[e.part].n = @ + 1]
            [] e.type = "item_done" ->
                 [v EXCEPT !.items[k].open = FALSE, !.items[k].args = e.item.args]
            [] e.type = "completed" -> [v EXCEPT !.end = "complete"]
            [] e.type = "failed" -> [v EXCEPT !.end = "failed"]

NewTally == [text |-> 0, think |-> 0, tools |-> <<>>, ends |-> 0, error |-> FALSE]

ReadOllama(v, p) ==
  [v EXCEPT !.text = @ + p.content, !.think = @ + Num(p.think), !.ends = @ + Num(p.done),
            !.tools = IF p.done THEN p.tools ELSE @]

ReadGemini(v, e) ==
  [v EXCEPT !.text = @ + e.content, !.think = @ + Num(e.think),
            !.ends = @ + Num(e.type = "finish"), !.error = @ \/ e.type = "error",
            !.tools = IF e.type = "finish" THEN e.tools ELSE @]

MessagesClient  == INSTANCE Fold WITH Op <- ReadMessages
ResponsesClient == INSTANCE Fold WITH Op <- ReadResponses
OllamaClient    == INSTANCE Fold WITH Op <- ReadOllama
GeminiClient    == INSTANCE Fold WITH Op <- ReadGemini

(***************************************************************************)
(* A line of the chat completion reaches every converter, and what comes   *)
(* out of it every client.                                                 *)
(***************************************************************************)

NewReply == [text |-> 0, refusal |-> 0, think |-> 0, late |-> FALSE, calls |-> <<>>,
             finish |-> "none", error |-> FALSE]

\* late: it reasons again after the answer has begun.
Carried(r, l) ==
  IF l.type = "error" THEN [r EXCEPT !.error = TRUE]
  ELSE IF l.type # "chunk" THEN r
  ELSE [r EXCEPT !.late = @ \/ (l.think /\ r.text + r.refusal > 0),
                 !.text = @ + Num(l.text # ""), !.refusal = @ + Num(l.refusal),
                 !.think = @ + Num(l.think), !.calls = Accumulate(@, l.tools),
                 !.finish = IF l.finish = "none" THEN @ ELSE l.finish]

Clear(s) == [s EXCEPT !.out = <<>>]

\* convert_upstream and its siblings: relayed as they are converted.
Relay(x, l) ==
  LET m == Messages!Line(x.conv.messages, l)
      r == Responses!Line(x.conv.responses, l)
      o == Ollama!Line(x.conv.ollama, l)
      g == Gemini!Line(x.conv.gemini, l)
  IN [sent |-> Carried(x.sent, l),
      conv |-> [x.conv EXCEPT !.messages = Clear(m), !.responses = Clear(r),
                              !.ollama = Clear(o), !.gemini = Clear(g)],
      seen |-> [messages |-> MessagesClient!Through(x.seen.messages, m.out),
                responses |-> ResponsesClient!Through(x.seen.responses, r.out),
                ollama |-> OllamaClient!Through(x.seen.ollama, o.out),
                gemini |-> GeminiClient!Through(x.seen.gemini, g.out)]]

Relaying == INSTANCE Fold WITH Op <- Relay

\* A Messages client of an Anthropic provider needs no converter.
Feed(lines, anthropic) ==
  \E x \in {Relaying!Through([sent |-> sent, conv |-> conv, seen |-> seen], lines)} :
    /\ sent' = x.sent
    /\ conv' = [x.conv EXCEPT !.anthropic = Clear(anthropic),
                              !.messages = IF up.source = "provider" THEN conv.messages ELSE @]
    /\ seen' = [x.seen EXCEPT !.messages = IF up.source = "provider" THEN seen.messages ELSE @]

(***************************************************************************)
(* A backend that speaks chat completions                                  *)
(***************************************************************************)

\* What may come next of the call with this index.
Fragments(i) ==
  LET call == Call(sent.calls, i)
      next == CASE call.args = <<>> -> {"", "head", "whole"}
                [] call.args = <<"head">> -> {"", "tail"}
                [] OTHER -> {""}
  IN {f \in [index : {i}, id : BOOLEAN, name : BOOLEAN, args : next] :
        /\ f.id => i \notin DOMAIN sent.calls
        /\ f.name => call.name = 0
        /\ f.id \/ f.name \/ f.args # ""}

\* Whole calls without an index, as some providers send them.
Pair == <<Fragment(0, TRUE, TRUE, "whole"), Fragment(1, FALSE, TRUE, "whole")>>

Chunks ==
  {[Chunk EXCEPT !.think = TRUE], [Chunk EXCEPT !.text = "x"], [Chunk EXCEPT !.refusal = TRUE]}
  \cup (IF sent.text = 0 THEN {[Chunk EXCEPT !.text = "<"]} ELSE {})
  \cup {[Chunk EXCEPT !.tools = <<f>>] :
          f \in UNION {Fragments(i) : i \in 0..(Cardinality(DOMAIN sent.calls))}}
  \cup {[Chunk EXCEPT !.finish = r, !.text = t] : r \in Reasons, t \in {"", "x"}}
  \cup (IF sent.calls = <<>> THEN {[Chunk EXCEPT !.finish = "tool_calls", !.tools = Pair]}
        ELSE {})

\* Errors come before the finish; [DONE] may come without one.
Backend ==
  /\ up.source = "backend" /\ up.stage # "ended"
  /\ \E l \in Chunks \cup {Sentinel(t) : t \in {"usage", "error", "[DONE]", "eof"}} :
       /\ l.type = "chunk" =>
            up.stage = "open" /\ (l.finish = "none" => up.count < MaxLines)
       /\ l.type = "error" => up.stage = "open"
       /\ l.type = "usage" => up.stage = "finished"
       /\ l.type = "[DONE]" => up.stage # "done"
       /\ up' = [up EXCEPT !.count = @ + Num(l.type = "chunk"),
                           !.stage = CASE l.type = "eof" -> "ended"
                                       [] l.type = "[DONE]" -> "done"
                                       [] l.type = "error" -> "finished"
                                       [] l.type = "usage" -> @
                                       [] l.type = "chunk" ->
                                            IF l.finish = "none" THEN @ ELSE "finished"]
       /\ Feed(<<l>>, conv.anthropic)

(***************************************************************************)
(* An Anthropic provider                                                   *)
(***************************************************************************)

\* forced: the request makes the model call the JSON tool.
Kinds == IF up.forced THEN {"thinking", "json"} ELSE {"text", "thinking", "tool"}

NextArgs == CASE up.args = <<>> -> {"", "head", "whole"}
              [] up.args = <<"head">> -> {"tail"}
              [] OTHER -> {}

Event(type) == [type |-> type]

Translate(e, next) ==
  LET a == Anthropic!Line(conv.anthropic, e)
  IN up' = next /\ Feed(a.out, a)

MessageStart ==
  /\ up.stage = "before"
  /\ Translate(Event("message_start"), [up EXCEPT !.stage = "between"])

ContentBlockStart == \E kind \in Kinds :
  /\ up.stage = "between" /\ up.count < MaxBlocks
  /\ kind = "json" => ~up.called
  /\ Translate([type |-> "block_start", index |-> up.count, kind |-> kind],
               [up EXCEPT !.stage = "block", !.kind = kind, !.deltas = 0, !.args = <<>>,
                          !.called = @ \/ kind \in {"tool", "json"}])

ContentBlockDelta == \E a \in IF up.kind \in {"tool", "json"} THEN NextArgs ELSE {"x"} :
  /\ up.stage = "block" /\ up.deltas < MaxDeltas
  /\ Translate([type |-> "delta", index |-> up.count, kind |-> up.kind, args |-> a],
               [up EXCEPT !.deltas = @ + 1, !.args = IF a = "x" THEN @ ELSE AddArgs(@, a),
                          !.told[up.kind] = @ + Num(a # "")])

\* Only max_tokens ends a call in the middle.
ContentBlockStop ==
  /\ up.stage = "block"
  /\ Translate([type |-> "block_stop", index |-> up.count],
               [up EXCEPT !.stage = "between", !.count = @ + 1, !.kind = "none",
                          !.cut = @ \/ ~Parses(up.args),
                          !.calls = IF up.kind = "tool" THEN Append(@, up.args) ELSE @,
                          !.told["json"] = IF up.kind = "json" /\ up.args = <<>>
                                           THEN @ + 1 ELSE @])

MessageDelta == \E r \in Reasons :
  /\ up.stage = "between"
  /\ r = "tool_calls" => up.called
  /\ up.cut => r = "length"
  /\ Translate([type |-> "message_delta", reason |-> r], [up EXCEPT !.stage = "stopped"])

MessageStop ==
  /\ up.stage = "stopped"
  /\ Translate(Event("message_stop"), [up EXCEPT !.stage = "done"])

ProviderError ==
  /\ up.stage \in {"before", "between", "block"}
  /\ Translate(Event("error"), [up EXCEPT !.stage = "done"])

\* The connection ends: with the reply, or in the middle of it.
ProviderEof ==
  /\ up.stage # "ended"
  /\ LET a == Anthropic!Line(conv.anthropic, Event("eof"))
     IN /\ up' = [up EXCEPT !.stage = "ended"]
        /\ Feed(a.out \o <<Sentinel("eof")>>, a)

Provider ==
  /\ up.source = "provider"
  /\ \/ MessageStart \/ ContentBlockStart \/ ContentBlockDelta \/ ContentBlockStop
     \/ MessageDelta \/ MessageStop \/ ProviderError \/ ProviderEof

StreamsInit ==
  /\ \E s \in {"backend", "provider"}, forced \in BOOLEAN :
       /\ s = "backend" => ~forced
       /\ up = [source |-> s, forced |-> forced, count |-> 0, kind |-> "none", deltas |-> 0,
                stage |-> IF s = "backend" THEN "open" ELSE "before",
                args |-> <<>>, called |-> FALSE, cut |-> FALSE, calls |-> <<>>,
                told |-> [text |-> 0, thinking |-> 0, tool |-> 0, json |-> 0]]
  /\ sent = NewReply
  /\ conv = [messages |-> Messages!New, responses |-> Responses!New, ollama |-> Ollama!New,
             gemini |-> Gemini!New, anthropic |-> Anthropic!New]
  /\ seen = [messages |-> NewMessage, responses |-> NewResponse, ollama |-> NewTally,
             gemini |-> NewTally]

StreamsNext == Backend \/ Provider

StreamsSpec == StreamsInit /\ [][StreamsNext]_streamsVars

(***************************************************************************)
(* Properties                                                              *)
(***************************************************************************)

\* The Messages events make a message: blocks are numbered in order, every
\* delta is for an open block of its kind, all are closed at the end, and
\* nothing follows the end (messages.rs, StreamConverter).
MessagesWellFormed == seen.messages.ok

\* Two items never share an output index, every delta is for an open item,
\* and the final response lists the items as they were streamed
\* (responses.rs, StreamConverter).
ItemsOwnTheirIndex == seen.responses.ok

\* So it is of a reply that does not reason again after its answer began.
ResponsesWellFormed == sent.late \/ ItemsOwnTheirIndex

\* How much of each kind some blocks or parts of a client hold.
AddPart(t, p) == IF p.kind \in DOMAIN t THEN [t EXCEPT ![p.kind] = @ + p.n] ELSE t
Parts == INSTANCE Fold WITH Op <- AddPart

AddItem(t, item) == Parts!Through(t, item.parts)
Items == INSTANCE Fold WITH Op <- AddItem

NoParts == [kind \in {"text", "refusal", "thinking", "summary"} |-> 0]

Args(calls) == {<<i, calls[i].args>> : i \in DOMAIN calls}

\* What a streaming client puts together is what the fold gives one that
\* does not stream: a Messages reply, and a translated provider's
\* (messages.rs, fold; anthropic.rs, completion).
StreamIsTheFold ==
  /\ seen.messages.end = "complete" =>
       Messages!Content(conv.messages) =
         [k \in DOMAIN seen.messages.blocks |->
            [f \in {"kind", "id", "n", "args"} |-> seen.messages.blocks[k][f]]]
  /\ up.source = "provider" =>
       /\ conv.anthropic.text = sent.text /\ conv.anthropic.think = sent.think
       /\ \A i \in DOMAIN conv.anthropic.calls :
            conv.anthropic.calls[i] = Call(sent.calls, i - 1).args

\* A surface that reports a complete reply has passed on all of it: text,
\* reasoning and the arguments of every call (a refusal is only known to
\* Messages and Responses).
NothingLost ==
  /\ seen.messages.end = "complete" =>
       /\ LET total == Parts!Through(NoParts, seen.messages.blocks)
          IN total["text"] = sent.text + sent.refusal /\ total["thinking"] = sent.think
       /\ \A i \in DOMAIN sent.calls :
            seen.messages.blocks[conv.messages.tools[i].index + 1].args = sent.calls[i].args
  /\ seen.responses.ok /\ seen.responses.end = "complete" =>
       LET items == seen.responses.items
           total == Items!Through(NoParts, items)
           order == Indices(sent.calls)
           first == Len(items) - Len(order)
       IN /\ total["text"] = sent.text /\ total["refusal"] = sent.refusal
          /\ total["summary"] = sent.think
          /\ \A k \in DOMAIN items : items[k].kind = "call" <=> k > first
          /\ \A k \in DOMAIN order : items[first + k].args = sent.calls[order[k]].args
  /\ seen.ollama.ends > 0 =>
       /\ seen.ollama.text = sent.text /\ seen.ollama.think = sent.think
       /\ Args(seen.ollama.tools) = Args(sent.calls)
  /\ seen.gemini.ends > 0 =>
       /\ seen.gemini.text = sent.text /\ seen.gemini.think = sent.think
       /\ Args(seen.gemini.tools) = Args(sent.calls)
  /\ up.source = "provider" /\ up.stage \in {"stopped", "done", "ended"} /\ sent.finish # "none" =>
       /\ sent.text = up.told["text"] + up.told["json"] /\ sent.think = up.told["thinking"]
       /\ \A i \in DOMAIN up.calls :
            sent.calls[i - 1].args = IF up.calls[i] = <<>> THEN <<"whole">> ELSE up.calls[i]

\* The surfaces agree on whether the reply came to its end, once it has
\* ended: a truncated or failed one is passed off as complete by none, a
\* complete one is refused only for a call nobody can make.  ([DONE] alone
\* is an end to Gemini's.)
EndsAgree ==
  up.stage = "ended" =>
    LET complete == sent.finish # "none" /\ ~sent.error
    IN /\ (seen.responses.end = "complete") = complete \/ ~seen.responses.ok
       /\ up.source = "backend" =>
            seen.messages.end = IF complete /\ ~Messages!Broken(conv.messages)
                                THEN "complete" ELSE "failed"
       /\ seen.ollama.ends = Num(complete)
       /\ complete => seen.gemini.ends = 1 /\ ~seen.gemini.error
=============================================================================
