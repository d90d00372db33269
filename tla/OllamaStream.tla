---------------------------- MODULE OllamaStream ----------------------------
(***************************************************************************)
(* OllamaLineDecoder: a chat completion's lines become the chunks of       *)
(* /api/chat and /api/generate, the last of which is "done".  Of           *)
(* RawContentExtractor, what it holds back and when it lets go; the tags   *)
(* themselves, a backend's raw reasoning, are left out.                    *)
(***************************************************************************)
EXTENDS ChatStream

\* mode: Undetermined, holding back held fragments, or decided.
New == [tools |-> <<>>, mode |-> "undetermined", held |-> 0, finish |-> FALSE,
        done |-> FALSE, out |-> <<>>]

Part(content, think, tools, done) ==
  [content |-> content, think |-> think, tools |-> tools, done |-> done]

Emit(s, part) == [s EXCEPT !.out = Append(@, part)]

\* Only the beginning of a reply may be the beginning of a tag.
Ambiguous(s, l) == l.text = "" \/ (s.held = 0 /\ l.text = "<")

Decided(s, mode) == [s EXCEPT !.mode = mode, !.held = 0]

MutantProcess(s, l) ==
  LET n == Num(l.text # "")
  IN CASE l.think -> [s |-> Decided(s, "passthrough"), content |-> n]
       [] ~l.think /\ s.mode = "undetermined" /\ Ambiguous(s, l) ->
            [s |-> [s EXCEPT !.held = @ + n], content |-> 0]
       [] OTHER -> [s |-> Decided(s, IF s.mode = "undetermined" THEN "plain" ELSE s.mode),
                    content |-> s.held + n]

\* The extractor after a chunk, and the content to emit for it.
Process(s, l) ==
  LET n == Num(l.text # "")
  IN CASE l.think -> [s |-> Decided(s, "passthrough"), content |-> s.held + n]
       [] ~l.think /\ s.mode = "undetermined" /\ Ambiguous(s, l) ->
            [s |-> [s EXCEPT !.held = @ + n], content |-> 0]
       [] OTHER -> [s |-> Decided(s, IF s.mode = "undetermined" THEN "plain" ELSE s.mode),
                    content |-> s.held + n]

\* The one chunk that says "done", with the calls.
DoneDelta(s) ==
  IF s.done THEN Emit(s, Part(0, FALSE, <<>>, FALSE))
  ELSE Emit([s EXCEPT !.done = TRUE, !.held = 0, !.tools = <<>>],
            Part(s.held, FALSE, s.tools, TRUE))

Delivered(s, l) ==
  LET p == Process([s EXCEPT !.tools = Accumulate(@, l.tools),
                             !.finish = @ \/ l.finish # "none"], l)
  IN Emit(p.s, Part(p.content, l.think, <<>>, FALSE))

\* A finish is held until [DONE] or the end; without one, neither counts.
Line(s, l) ==
  CASE l.type = "chunk"  -> Delivered(s, l)
    [] l.type \in {"usage", "error"} -> s
    [] l.type = "[DONE]" -> IF s.finish THEN DoneDelta(s) ELSE Emit(s, Part(0, FALSE, <<>>, FALSE))
    [] l.type = "eof"    -> IF s.finish /\ ~s.done THEN DoneDelta(s) ELSE s
=============================================================================
