---------------------------- MODULE GeminiStream ----------------------------
(***************************************************************************)
(* gemini_sse_event: a chat completion's lines become Gemini events; the   *)
(* first that finishes carries the calls.                                  *)
(***************************************************************************)
EXTENDS ChatStream

New == [tools |-> <<>>, finished |-> FALSE, out |-> <<>>]

Event(type, content, think, tools) ==
  [type |-> type, content |-> content, think |-> think, tools |-> tools]

Emit(s, event) == [s EXCEPT !.out = Append(@, event)]

\* A payload that ends the reply: a finish chunk, or [DONE].
Ends(s, l) == ~s.finished /\ (l.type = "[DONE]" \/ (l.type = "chunk" /\ l.finish # "none"))

Answer(s, l) ==
  LET t == IF l.type = "chunk" THEN [s EXCEPT !.tools = Accumulate(@, l.tools)] ELSE s
      n == IF l.type = "chunk" THEN Num(l.text # "") ELSE 0
      k == l.type = "chunk" /\ l.think
  IN IF Ends(t, l) THEN Emit([t EXCEPT !.finished = TRUE], Event("finish", n, k, t.tools))
     ELSE IF n = 0 /\ ~k THEN t ELSE Emit(t, Event("parts", n, k, <<>>))

\* The end of the stream is no event.
Line(s, l) ==
  CASE l.type = "error" -> Emit(s, Event("error", 0, FALSE, <<>>))
    [] l.type \in {"chunk", "[DONE]"} -> Answer(s, l)
    [] l.type \in {"usage", "eof"} -> s
=============================================================================
