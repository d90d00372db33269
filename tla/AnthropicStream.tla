--------------------------- MODULE AnthropicStream ---------------------------
(***************************************************************************)
(* anthropic::StreamConverter: the events of an Anthropic provider's reply *)
(* become the lines of a chat completion.  A forced JSON tool's arguments  *)
(* are the reply's content.                                                *)
(***************************************************************************)
EXTENDS ChatStream

\* indices: Messages block to position in calls.  json: the JSON tool's
\* block and whether arguments arrived.
New == [indices |-> <<>>, json |-> {}, received |-> FALSE, done |-> FALSE,
        text |-> 0, think |-> 0, calls |-> <<>>, finish |-> "none", error |-> FALSE,
        out |-> <<>>]

Emit(s, line) == [s EXCEPT !.out = Append(@, line)]

\* The role announcement carries nothing.
Content(s) == Emit([s EXCEPT !.text = @ + 1], [Chunk EXCEPT !.text = "x"])

Arguments(s, i, a) ==
  LET t == [s EXCEPT !.calls[i + 1] = AddArgs(@, a)]
  IN IF a = "" THEN t
     ELSE Emit(t, [Chunk EXCEPT !.tools = <<Fragment(i, FALSE, FALSE, a)>>])

BlockStart(s, e) ==
  CASE e.kind = "json" -> [s EXCEPT !.json = {e.index}]
    [] e.kind = "tool" ->
         LET i == Len(s.calls)
         IN Emit([s EXCEPT !.calls = Append(@, <<>>), !.indices = Put(@, e.index, i)],
                 [Chunk EXCEPT !.tools = <<Fragment(i, TRUE, TRUE, "")>>])
    [] e.kind \in {"text", "thinking"} -> s

InputDelta(s, e) ==
  CASE e.index \in s.json -> IF e.args = "" THEN s ELSE Content([s EXCEPT !.received = TRUE])
    [] e.index \in DOMAIN s.indices -> Arguments(s, s.indices[e.index], e.args)

BlockDelta(s, e) ==
  CASE e.kind = "text" -> Content(s)
    [] e.kind = "thinking" -> Emit([s EXCEPT !.think = @ + 1], [Chunk EXCEPT !.think = TRUE])
    [] e.kind \in {"tool", "json"} -> InputDelta(s, e)

\* A call without arguments ends as {}.
BlockStop(s, e) ==
  CASE e.index \in s.json -> IF s.received THEN s ELSE Content([s EXCEPT !.received = TRUE])
    [] e.index \in DOMAIN s.indices ->
         LET i == s.indices[e.index]
         IN IF s.calls[i + 1] # <<>> THEN s ELSE Arguments(s, i, "whole")
    [] OTHER -> s

\* A forced JSON tool is the reply itself, not a tool call.
MessageDelta(s, e) ==
  LET reason == IF e.reason = "tool_calls" /\ s.calls = <<>> THEN "stop" ELSE e.reason
  IN Emit([s EXCEPT !.finish = reason], [Chunk EXCEPT !.finish = reason])

Ended(s, lines) == [s EXCEPT !.done = TRUE, !.out = @ \o lines]

\* The end of the provider's stream without message_stop.
Finish(s) ==
  IF s.done THEN s
  ELSE Ended(s, IF s.finish # "none" THEN <<Sentinel("[DONE]")>> ELSE <<>>)

Line(s, e) ==
  IF s.done THEN s
  ELSE CASE e.type = "message_start" -> Emit(s, Chunk)
         [] e.type = "block_start"   -> BlockStart(s, e)
         [] e.type = "delta"         -> BlockDelta(s, e)
         [] e.type = "block_stop"    -> BlockStop(s, e)
         [] e.type = "message_delta" -> MessageDelta(s, e)
         [] e.type = "message_stop"  -> Ended(s, <<Sentinel("[DONE]")>>)
         [] e.type = "error"         -> Ended([s EXCEPT !.error = TRUE], <<Sentinel("error")>>)
         [] e.type = "eof"           -> Finish(s)
=============================================================================
