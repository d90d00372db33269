--------------------------- MODULE MessagesStream ---------------------------
(***************************************************************************)
(* messages::StreamConverter: a chat completion's lines become the events  *)
(* of the Messages API, or are folded into one message.                    *)
(***************************************************************************)
EXTENDS ChatStream

Closed == [kind |-> "none", index |-> 0]

New == [started |-> FALSE, next |-> 0, open |-> Closed, text |-> 0, blocks |-> <<>>,
        tools |-> <<>>, finish |-> "none", refused |-> FALSE, done |-> FALSE,
        error |-> FALSE, out |-> <<>>]

Emit(s, event) == [s EXCEPT !.out = Append(@, event)]

Start(s) == IF s.started THEN s
            ELSE Emit([s EXCEPT !.started = TRUE], [type |-> "message_start"])

BlockStart(s, kind, id) ==
  Emit([s EXCEPT !.next = @ + 1],
       [type |-> "block_start", index |-> s.next, kind |-> kind, id |-> id])

Delta(index, kind, args) ==
  [type |-> "delta", index |-> index, kind |-> kind, args |-> args]

BlockStop(index) == [type |-> "block_stop", index |-> index]

\* Text and thinking are recorded when they close, a call when it opens.
CloseOpen(s) ==
  IF s.open = Closed THEN s
  ELSE Emit([s EXCEPT !.open = Closed, !.text = 0,
                      !.blocks = Append(@, [kind |-> s.open.kind, n |-> s.text])],
            BlockStop(s.open.index))

MutantTextFragment(s, kind) ==
  LET t == IF s.open.kind = kind THEN s
           ELSE [BlockStart(s, kind, "none") EXCEPT !.open = [kind |-> kind, index |-> s.next]]
  IN Emit([t EXCEPT !.text = @ + 1], Delta(t.open.index, kind, <<>>))

TextFragment(s, kind) ==
  LET c == CloseOpen(s)
      t == IF s.open.kind = kind THEN s
           ELSE [BlockStart(c, kind, "none") EXCEPT !.open = [kind |-> kind, index |-> c.next]]
  IN Emit([t EXCEPT !.text = @ + 1], Delta(t.open.index, kind, <<>>))

MutantOpenTool(s, i) ==
  LET c == CloseOpen(s)
      id == IF s.tools[i].id = "none" THEN "made" ELSE s.tools[i].id
      b == BlockStart(c, "tool", id)
      a == s.tools[i].args
      d == IF a = <<>> THEN b ELSE Emit(b, Delta(c.next, "tool", a))
  IN [d EXCEPT !.tools[i].open = TRUE,
               !.tools[i].index = c.next,
               !.blocks = Append(@, [kind |-> "tool", n |-> i])]

OpenTool(s, i) ==
  LET c == CloseOpen(s)
      id == IF s.tools[i].id = "none" THEN "made" ELSE s.tools[i].id
      b == BlockStart(c, "tool", id)
      a == s.tools[i].args
      d == IF a = <<>> THEN b ELSE Emit(b, Delta(c.next, "tool", a))
  IN [d EXCEPT !.tools[i].id = id, !.tools[i].open = TRUE,
               !.tools[i].index = c.next,
               !.blocks = Append(@, [kind |-> "tool", n |-> i])]

\* An open call's name is final; its arguments stream on.
ToolFragment(s, f) ==
  LET call  == Call(s.tools, f.index)
      grown == Grow(call, IF call.open THEN [f EXCEPT !.name = FALSE] ELSE f)
      t     == [s EXCEPT !.tools = Put(@, f.index, grown)]
  IN CASE call.open /\ f.args # "" -> Emit(t, Delta(call.index, "tool", <<f.args>>))
       [] ~call.open /\ grown.name > 0 /\ grown.args # <<>> -> OpenTool(t, f.index)
       [] OTHER -> t

Growth == INSTANCE Fold WITH Op <- ToolFragment

Fail(s) == Emit([s EXCEPT !.error = TRUE, !.done = TRUE], [type |-> "error"])

\* A call nobody can make; cut off by max_tokens, arguments are partial.
Broken(s) == \E i \in DOMAIN s.tools :
  \/ s.tools[i].name = 0
  \/ s.finish # "length" /\ ~Parses(s.tools[i].args)

StopReason(s) ==
  IF s.finish = "length" THEN "max_tokens"
  ELSE IF s.tools # <<>> \/ s.finish = "tool_calls" THEN "tool_use"
  ELSE IF s.refused \/ s.finish = "content_filter" THEN "refusal" ELSE "end_turn"

OpenUnopened(s, i) == IF s.tools[i].open THEN s ELSE OpenTool(s, i)
Opening == INSTANCE Fold WITH Op <- OpenUnopened

StopTool(s, i) == Emit(s, BlockStop(s.tools[i].index))
Stopping == INSTANCE Fold WITH Op <- StopTool

Complete(s) ==
  IF Broken(s) THEN Fail(s)
  ELSE LET opened  == Opening!Through(CloseOpen(s), Indices(s.tools))
           stopped == Stopping!Through(opened, Indices(s.tools))
       IN Emit([stopped EXCEPT !.done = TRUE], [type |-> "message_stop", reason |-> StopReason(s)])

\* The end of the stream, by [DONE] or not.
Finish(s) ==
  IF s.done THEN s
  ELSE LET t == Start(s) IN IF t.finish = "none" THEN Fail(t) ELSE Complete(t)

Delivered(s, l) ==
  LET a == IF l.think THEN TextFragment(s, "thinking") ELSE s
      b == Growth!Through(a, l.tools)
      c == IF l.text = "" THEN b ELSE TextFragment(b, "text")
      d == IF l.refusal THEN TextFragment([c EXCEPT !.refused = TRUE], "text") ELSE c
  IN IF l.finish = "none" THEN d ELSE [d EXCEPT !.finish = l.finish]

Line(s, l) ==
  IF s.done THEN s
  ELSE LET t == Start(s)
       IN CASE l.type = "chunk"  -> Delivered(t, l)
            [] l.type = "usage"  -> t
            [] l.type = "error"  -> Fail(t)
            [] l.type = "[DONE]" -> Finish(t)
            [] l.type = "eof"    -> Finish(s)

\* fold: what the one message of a caller that does not stream holds.
Content(s) ==
  [k \in DOMAIN s.blocks |->
     LET b == s.blocks[k]
     IN IF b.kind = "tool"
        THEN LET call == s.tools[b.n]
             IN [kind |-> "tool", id |-> call.id, n |-> 0, args |-> call.args]
        ELSE [kind |-> b.kind, id |-> "none", n |-> b.n, args |-> <<>>]]
=============================================================================
