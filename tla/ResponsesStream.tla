-------------------------- MODULE ResponsesStream --------------------------
(***************************************************************************)
(* responses::StreamConverter: a chat completion's lines become the events *)
(* of the Responses API, or are folded into one response.                  *)
(***************************************************************************)
EXTENDS ChatStream

\* output: completed_items.
New == [started |-> FALSE, index |-> 0, content |-> FALSE, parts |-> <<>>, think |-> 0,
        reasoning |-> FALSE, tools |-> <<>>, output |-> <<>>, finish |-> FALSE,
        done |-> FALSE, error |-> FALSE, out |-> <<>>]

Emit(s, event) == [s EXCEPT !.out = Append(@, event)]

FirstWrite(s) == IF s.started THEN s
                 ELSE Emit([s EXCEPT !.started = TRUE], [type |-> "created"])

Added(index, kind) == [type |-> "item_added", index |-> index, kind |-> kind]
Done(index, item) == [type |-> "item_done", index |-> index, item |-> item]
PartDelta(index, kind, part) == [type |-> "delta", index |-> index, kind |-> kind, part |-> part]

Item(kind, parts, args) == [kind |-> kind, parts |-> parts, args |-> args]

ProcessThinking(s) ==
  LET t == IF s.reasoning THEN s
           ELSE Emit([s EXCEPT !.reasoning = TRUE], Added(s.index, "reasoning"))
  IN Emit([t EXCEPT !.think = @ + 1], PartDelta(s.index, "reasoning", 1))

FinishReasoning(s) ==
  IF ~s.reasoning THEN s
  ELSE LET item == Item("reasoning", <<[kind |-> "summary", n |-> s.think]>>, <<>>)
       IN Emit([s EXCEPT !.reasoning = FALSE, !.think = 0, !.index = @ + 1,
                         !.output = Append(@, item)],
               Done(s.index, item))

OpenMessage(s) ==
  IF s.content THEN s
  ELSE Emit([s EXCEPT !.content = TRUE], Added(s.index, "message"))

\* The last part, if it is of the kind, or a new one.
OpenPart(s, kind) ==
  IF s.parts # <<>> /\ s.parts[Len(s.parts)].kind = kind THEN s
  ELSE Emit([s EXCEPT !.parts = Append(@, [kind |-> kind, n |-> 0])],
            [type |-> "part_added", index |-> s.index, part |-> Len(s.parts) + 1,
             kind |-> kind])

GrowPart(s, kind) ==
  LET k == Len(s.parts)
  IN Emit([s EXCEPT !.parts[k].n = @ + 1], PartDelta(s.index, kind, k))

ProcessPart(s, kind) ==
  GrowPart(OpenPart(OpenMessage(FinishReasoning(s)), kind), kind)

MutantFinishMessageItem(s) ==
  IF ~s.content THEN s
  ELSE LET item == Item("message", s.parts, <<>>)
       IN Emit([s EXCEPT !.content = FALSE, !.parts = <<>>, !.output = Append(@, item)],
               Done(s.index, item))

FinishMessageItem(s) ==
  IF ~s.content THEN s
  ELSE LET item == Item("message", s.parts, <<>>)
       IN Emit([s EXCEPT !.content = FALSE, !.parts = <<>>, !.index = @ + 1,
                         !.output = Append(@, item)],
               Done(s.index, item))

EmitCall(s, call) ==
  LET item == Item("call", <<>>, call.args)
  IN Emit(Emit([s EXCEPT !.index = @ + 1, !.output = Append(@, item)],
               Added(s.index, "call")),
          Done(s.index, item))

Calling == INSTANCE Fold WITH Op <- EmitCall

EmitFunctionCallEvents(s) ==
  Calling!Through([s EXCEPT !.tools = <<>>],
                  [k \in DOMAIN Indices(s.tools) |-> s.tools[Indices(s.tools)[k]]])

ProcessCompletion(s) ==
  LET t == EmitFunctionCallEvents(FinishMessageItem(FinishReasoning([s EXCEPT !.done = TRUE])))
  IN Emit(t, [type |-> "completed", output |-> t.output])

ResponseFailed(s) ==
  Emit([s EXCEPT !.done = TRUE, !.error = TRUE], [type |-> "failed", output |-> s.output])

\* Neither [DONE] nor the end of the stream is proof of completion.
MutantFinish(s) == IF s.done THEN s ELSE ProcessCompletion(FirstWrite(s))

Finish(s) ==
  IF s.done THEN s
  ELSE IF s.finish THEN ProcessCompletion(FirstWrite(s)) ELSE ResponseFailed(FirstWrite(s))

Delivered(s, l) ==
  LET a == IF l.think THEN ProcessThinking(s) ELSE s
      b == [a EXCEPT !.tools = Accumulate(@, l.tools)]
      c == IF l.text = "" THEN b ELSE ProcessPart(b, "text")
      d == IF l.refusal THEN ProcessPart(c, "refusal") ELSE c
  IN [d EXCEPT !.finish = @ \/ l.finish # "none"]

Line(s, l) ==
  IF s.done THEN s
  ELSE CASE l.type = "chunk"  -> Delivered(FirstWrite(s), l)
         [] l.type = "usage"  -> FirstWrite(s)
         [] l.type = "error"  -> ResponseFailed(FirstWrite(s))
         [] l.type \in {"[DONE]", "eof"} -> Finish(s)
=============================================================================
