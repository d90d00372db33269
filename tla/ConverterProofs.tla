--------------------------- MODULE ConverterProofs ---------------------------
(***************************************************************************)
(* What one line of a reply does on every API surface: the converters'     *)
(* states determine what their clients have read, and hold what the lines  *)
(* carried, before the line and after it.                                  *)
(***************************************************************************)
EXTENDS Streams, FiniteSetTheorems, TLAPS

(***************************************************************************)
(* The lines                                                               *)
(***************************************************************************)

Pieces == {"head", "tail", "whole"}

IsFragment(f) ==
  /\ DOMAIN f = {"index", "id", "name", "args"}
  /\ f.index \in Nat /\ f.id \in BOOLEAN /\ f.name \in BOOLEAN
  /\ f.args \in Pieces \cup {""}

CallSet == [id : {"none", "given", "made"}, name : Nat, args : Seq(Pieces),
            open : BOOLEAN, index : Nat]

Size(calls) == Cardinality(DOMAIN calls)

\* What a line does to a converter that is done or not.
Ends(s, l, t) ==
  /\ l.type \in {"chunk", "usage"} => t.done = s.done
  /\ l.type \in {"error", "[DONE]", "eof"} => t.done = TRUE

\* Calls are numbered from 0, none is missing.
IsCalls(calls) == Size(calls) \in Nat /\ calls \in [0 .. Size(calls) - 1 -> CallSet]

\* A line has no fragment, one of a call that is there or the next, or the
\* whole of the first two calls.
FitsCalls(calls, fragments) ==
  \/ fragments = <<>>
  \/ /\ Len(fragments) = 1 /\ fragments = <<fragments[1]>>
     /\ IsFragment(fragments[1]) /\ fragments[1].index <= Size(calls)
  \/ /\ Len(fragments) = 2 /\ fragments = <<fragments[1], fragments[2]>>
     /\ IsFragment(fragments[1]) /\ fragments[1].index = 0
     /\ IsFragment(fragments[2]) /\ fragments[2].index = 1
     /\ Size(calls) = 0

IsChunk(l) ==
  /\ l.type = "chunk" /\ l.think \in BOOLEAN /\ l.refusal \in BOOLEAN
  /\ l.text \in {"", "x", "<"} /\ l.finish \in Reasons \cup {"none"}

\* Chunks and errors come before the finish.
IsLine(r, l) ==
  \/ IsChunk(l) /\ FitsCalls(r.calls, l.tools) /\ r.finish = "none" /\ ~r.error
  \/ l.type = "error" /\ r.finish = "none" /\ ~r.error
  \/ l.type \in {"usage", "[DONE]", "eof"}

IsReply(r) ==
  /\ DOMAIN r = {"text", "refusal", "think", "late", "calls", "finish", "error"}
  /\ r.text \in Nat /\ r.refusal \in Nat /\ r.think \in Nat
  /\ r.late \in BOOLEAN /\ r.error \in BOOLEAN
  /\ r.finish \in Reasons \cup {"none"} /\ IsCalls(r.calls)

\* The same arguments, whatever else a converter keeps of a call.
Alike(tools, calls) ==
  /\ DOMAIN tools = DOMAIN calls
  /\ \A i \in DOMAIN tools : tools[i].args = calls[i].args

(***************************************************************************)
(* Messages                                                                *)
(***************************************************************************)

MessagesFields == {"started", "next", "open", "text", "blocks", "tools", "finish",
                   "refused", "done", "error", "out"}

MessagesState(s) ==
  /\ DOMAIN s = MessagesFields
  /\ s.started \in BOOLEAN /\ s.next \in Nat /\ s.text \in Nat
  /\ s.open \in [kind : {"none", "text", "thinking"}, index : Nat]
  /\ s.open.kind = "none" => s.open.index = 0 /\ s.text = 0
  /\ s.blocks \in Seq([kind : {"text", "thinking", "tool"}, n : Nat])
  /\ IsCalls(s.tools)
  /\ s.finish \in Reasons \cup {"none"}
  /\ s.refused \in BOOLEAN /\ s.done \in BOOLEAN /\ s.error \in BOOLEAN

BlockSet == [kind : {"text", "thinking", "tool"}, id : {"none", "given", "made"},
             n : Nat, args : Seq(Pieces), open : BOOLEAN]

IsMessage(v) ==
  /\ DOMAIN v = {"blocks", "started", "end", "ok"}
  /\ v.blocks \in Seq(BlockSet)

\* The block of a call that is open.
ShowsCall(s, b, k, i) ==
  /\ i \in DOMAIN s.tools /\ s.tools[i].open /\ s.tools[i].index = k - 1
  /\ b.id = s.tools[i].id /\ b.args = s.tools[i].args /\ b.n = 0

\* The k-th block, as the client has it, is the k-th that was recorded.
Shown(s, b, k) ==
  /\ b.kind = s.blocks[k].kind
  /\ IF b.kind = "tool" THEN ShowsCall(s, b, k, s.blocks[k].n)
     ELSE b.id = "none" /\ b.args = <<>> /\ b.n = s.blocks[k].n

\* While the stream runs, the blocks of calls are open, the others closed.
ShownOpen(s, b, k) == Shown(s, b, k) /\ b.open = (b.kind = "tool")

\* An open call has a block of its own.
ToolsShown(s) ==
  \A i \in DOMAIN s.tools :
    s.tools[i].open =>
      /\ s.tools[i].id # "none" /\ s.tools[i].index + 1 \in 1 .. Len(s.blocks)
      /\ s.blocks[s.tools[i].index + 1] = [kind |-> "tool", n |-> i]

\* The client of a stream that runs: what is recorded, and the block that
\* grows.
Running(s, v) ==
  /\ MessagesState(s) /\ IsMessage(v) /\ ~s.done /\ ~s.error
  /\ v.ok = TRUE /\ v.end = "none" /\ v.started = s.started
  /\ Len(v.blocks) = s.next
  /\ Len(s.blocks) = IF s.open.kind = "none" THEN s.next ELSE s.next - 1
  /\ \A k \in 1 .. Len(s.blocks) :
       ShownOpen(s, v.blocks[k], k)
  /\ s.open.kind # "none" =>
       /\ s.next > 0 /\ s.open.index = s.next - 1
       /\ v.blocks[s.next] = [kind |-> s.open.kind, id |-> "none", n |-> s.text,
                              args |-> <<>>, open |-> TRUE]
  /\ ToolsShown(s)

\* At its end, all of them are shown and closed.
Completed(s, v) ==
  /\ v.end = "complete" /\ v.blocks \in Seq(BlockSet)
  /\ s.open.kind = "none" /\ Len(v.blocks) = Len(s.blocks)
  /\ \A k \in 1 .. Len(s.blocks) : Shown(s, v.blocks[k], k)
  /\ ToolsShown(s) /\ \A i \in DOMAIN s.tools : s.tools[i].open

\* Text or thinking in the blocks.
Held(s, kind) ==
  Parts!Through(NoParts, s.blocks)[kind] + IF s.open.kind = kind THEN s.text ELSE 0

Carries(s, r) ==
  /\ Held(s, "text") = r.text + r.refusal /\ Held(s, "thinking") = r.think
  /\ Alike(s.tools, r.calls)

MessagesFit(r, s, v) ==
  /\ MessagesState(s) /\ s = Clear(s)
  /\ ~s.done => Running(s, v) /\ Carries(s, r) /\ s.finish = r.finish /\ ~r.error
  /\ s.done /\ ~s.error =>
       /\ v.ok = TRUE /\ Completed(s, v) /\ Carries(s, r) /\ ~Messages!Broken(s)
       /\ r.finish # "none" /\ ~r.error
  /\ s.done /\ s.error =>
       /\ v.ok = TRUE /\ v.end = "failed"
       /\ r.finish = "none" \/ r.error \/ Messages!Broken(s)

(***************************************************************************)
(* Responses                                                               *)
(***************************************************************************)

PartSet == [kind : {"text", "refusal", "summary"}, n : Nat]

OutputSet == [kind : {"message", "reasoning", "call"}, parts : Seq(PartSet), args : Seq(Pieces)]

ItemSet == [kind : {"message", "reasoning", "call"}, open : BOOLEAN, args : Seq(Pieces),
            parts : Seq(PartSet)]

ResponsesFields == {"started", "index", "content", "parts", "think", "reasoning", "tools",
                    "output", "finish", "done", "error", "out"}

ResponseFields == {"items", "end", "ok"}

IsResponse(v) == DOMAIN v = ResponseFields /\ v.items \in Seq(ItemSet)

SameItem(item, o) == item.kind = o.kind /\ item.parts = o.parts /\ item.args = o.args

OpenItem(kind, parts) == [kind |-> kind, open |-> TRUE, args |-> <<>>, parts |-> parts]

Summary(n) == <<[kind |-> "summary", n |-> n]>>

\* The items that are over are the output, and the one that grows is next.
Streamed(s, v) ==
  /\ DOMAIN s = ResponsesFields
  /\ s.index \in Nat /\ s.content \in BOOLEAN /\ s.reasoning \in BOOLEAN
  /\ s.think \in Nat /\ s.parts \in Seq(PartSet) /\ s.output \in Seq(OutputSet)
  /\ ~(s.reasoning /\ s.content)
  /\ ~s.content => s.parts = <<>>
  /\ ~s.reasoning => s.think = 0
  /\ Len(s.output) = s.index
  /\ IsResponse(v) /\ v.ok = TRUE /\ v.end = "none"
  /\ Len(v.items) = IF s.reasoning \/ s.content THEN s.index + 1 ELSE s.index
  /\ \A k \in 1 .. s.index : v.items[k].open = FALSE /\ SameItem(v.items[k], s.output[k])
  /\ s.content => v.items[s.index + 1] = OpenItem("message", s.parts)
  /\ s.reasoning => v.items[s.index + 1] = OpenItem("reasoning", Summary(s.think))

\* Text, refusal and reasoning in the items.
Told(s, kind) ==
  Parts!Through(Items!Through(NoParts, s.output), s.parts)[kind]
    + IF kind = "summary" THEN s.think ELSE 0

NoCallYet(s) == \A k \in 1 .. s.index : s.output[k].kind # "call"

\* The calls come last, in their order.
Listed(items, calls) ==
  LET order == Indices(calls)
      first == Len(items) - Len(order)
  IN /\ \A k \in DOMAIN items : items[k].kind = "call" <=> k > first
     /\ \A k \in DOMAIN order : items[first + k].args = calls[order[k]].args

ListsAll(r, items) ==
  LET total == Items!Through(NoParts, items)
  IN /\ total["text"] = r.text /\ total["refusal"] = r.refusal /\ total["summary"] = r.think
     /\ Listed(items, r.calls)

\* What is told so far is what the reply carried.
Tells(r, s) ==
  /\ NoCallYet(s) /\ s.content = (r.text + r.refusal > 0)
  /\ Told(s, "text") = r.text /\ Told(s, "refusal") = r.refusal /\ Told(s, "summary") = r.think

\* A client that has caught a mistake stops there.
IsDead(v) == DOMAIN v = ResponseFields /\ v.ok = FALSE

ResponsesHold(r, s, v) ==
  /\ DOMAIN s = ResponsesFields /\ s.done \in BOOLEAN
  /\ ~s.done => s.finish = (r.finish # "none") /\ ~r.error /\ s.tools = r.calls
  /\ r.late => IsDead(v)
  /\ ~r.late /\ ~s.done => Streamed(s, v) /\ Tells(r, s)
  /\ ~r.late /\ s.done =>
       /\ v.ok = TRUE
       /\ v.end = IF r.finish # "none" /\ ~r.error THEN "complete" ELSE "failed"
       /\ v.end = "complete" => ListsAll(r, v.items)

ResponsesFit(r, s, v) == s = Clear(s) /\ ResponsesHold(r, s, v)

(***************************************************************************)
(* Ollama and Gemini                                                       *)
(***************************************************************************)

IsTally(v) ==
  /\ DOMAIN v = {"text", "think", "tools", "ends", "error"}
  /\ v.text \in Nat /\ v.think \in Nat /\ v.ends \in Nat /\ v.error \in BOOLEAN

OllamaFields == {"tools", "mode", "held", "finish", "done", "out"}

OllamaFit(r, s, v) ==
  /\ DOMAIN s = OllamaFields /\ s = Clear(s)
  /\ s.held \in Nat /\ s.finish \in BOOLEAN /\ s.done \in BOOLEAN
  /\ IsTally(v)
  /\ v.text + s.held = r.text /\ v.think = r.think
  /\ s.finish = (r.finish # "none")
  /\ v.ends = Num(s.done)
  /\ ~s.done => s.tools = r.calls
  /\ s.done => s.held = 0 /\ v.tools = r.calls /\ s.finish = TRUE

GeminiFields == {"tools", "finished", "out"}

GeminiFit(r, s, v) ==
  /\ DOMAIN s = GeminiFields /\ s = Clear(s)
  /\ s.finished \in BOOLEAN
  /\ IsTally(v)
  /\ v.text = r.text /\ v.think = r.think
  /\ v.error = r.error
  /\ v.ends = Num(s.finished)
  /\ r.finish # "none" => s.finished
  /\ ~s.finished => s.tools = r.calls
  /\ s.finished => v.tools = r.calls
(***************************************************************************)
(* A client of the Messages API, event by event                            *)
(***************************************************************************)

Client == INSTANCE FoldProofs WITH Op <- ReadMessages

Live(v) == IsMessage(v) /\ v.ok = TRUE /\ v.end = "none"

\* What becomes of the blocks, and nothing else.
Reads(v, w, blocks) == Live(w) /\ w.started = v.started /\ w.blocks = blocks

LEMMA BlockGrows ==
  ASSUME NEW b \in BlockSet
  PROVE  [b EXCEPT !.n = @ + 1] \in BlockSet
BY DEF BlockSet

LEMMA BlockTakesArgs ==
  ASSUME NEW b \in BlockSet, NEW a \in Seq(Pieces)
  PROVE  [b EXCEPT !.args = @ \o a] \in BlockSet
<1>1. b.args \o a \in Seq(Pieces)
  BY DEF BlockSet
<1> QED
  BY <1>1 DEF BlockSet

LEMMA BlockCloses ==
  ASSUME NEW b \in BlockSet
  PROVE  [b EXCEPT !.open = FALSE] \in BlockSet
BY DEF BlockSet

LEMMA ReadsStart ==
  ASSUME NEW v, Live(v), v.started = FALSE
  PROVE  /\ Live(ReadMessages(v, [type |-> "message_start"]))
         /\ ReadMessages(v, [type |-> "message_start"]).started = TRUE
         /\ ReadMessages(v, [type |-> "message_start"]).blocks = v.blocks
BY DEF ReadMessages, Live, IsMessage

BlockStartEvent(index, kind, id) ==
  [type |-> "block_start", index |-> index, kind |-> kind, id |-> id]

LEMMA ReadsBlockStart ==
  ASSUME NEW v, Live(v), v.started = TRUE, NEW kind \in {"text", "thinking", "tool"},
         NEW id \in {"none", "given", "made"}, NEW i, i = Len(v.blocks)
  PROVE  Reads(v, ReadMessages(v, BlockStartEvent(i, kind, id)),
               Append(v.blocks, OpenBlock(kind, id)))
<1> DEFINE e == BlockStartEvent(i, kind, id)
<1>1. e.type = "block_start" /\ e.index = Len(v.blocks) /\ e.kind = kind /\ e.id = id
  BY DEF BlockStartEvent
<1>2. /\ v.blocks \in Seq(BlockSet) /\ DOMAIN v = {"blocks", "started", "end", "ok"}
      /\ v.ok = TRUE /\ v.end = "none"
  BY DEF Live, IsMessage
<1> HIDE DEF e
<1>3. ReadMessages(v, e) = [v EXCEPT !.blocks = Append(@, OpenBlock(kind, id))]
  BY <1>1, <1>2 DEF ReadMessages
<1>4. OpenBlock(kind, id) \in BlockSet
  BY DEF OpenBlock, BlockSet
<1>5. Append(v.blocks, OpenBlock(kind, id)) \in Seq(BlockSet)
  BY <1>2, <1>4
<1> QED
  BY <1>2, <1>3, <1>5 DEF Reads, Live, IsMessage, e

LEMMA ReadsText ==
  ASSUME NEW v, Live(v), NEW i \in Nat, i + 1 \in 1 .. Len(v.blocks),
         v.blocks[i + 1].open = TRUE,
         NEW kind \in {"text", "thinking"}, v.blocks[i + 1].kind = kind
  PROVE  Reads(v, ReadMessages(v, Messages!Delta(i, kind, <<>>)),
               [v.blocks EXCEPT ![i + 1].n = @ + 1])
<1> DEFINE e == Messages!Delta(i, kind, <<>>)
           k == i + 1
<1>1. e.type = "delta" /\ e.index + 1 = k /\ e.kind = kind
  BY DEF Messages!Delta, Messages!BlockStop
<1>2. /\ v.blocks \in Seq(BlockSet) /\ v.blocks[k] \in BlockSet /\ k \in DOMAIN v.blocks
      /\ DOMAIN v = {"blocks", "started", "end", "ok"}
      /\ v.ok = TRUE /\ v.end = "none"
  BY DEF Live, IsMessage
<1> HIDE DEF e
<1>3. ReadMessages(v, e) = [v EXCEPT !.blocks[k].n = @ + 1]
  <2>1. ReadMessages(v, e) = [v EXCEPT !.blocks[e.index + 1].n = @ + 1]
    BY <1>1, <1>2 DEF ReadMessages
  <2> QED
    BY <1>1, <2>1
<1> DEFINE b == [v.blocks[k] EXCEPT !.n = @ + 1]
           blocks == [v.blocks EXCEPT ![k] = b]
<1>4. b \in BlockSet
  BY <1>2, BlockGrows
<1>5. blocks \in Seq(BlockSet)
  <2> HIDE DEF b
  <2> QED
    BY <1>2, <1>4
<1>6. [v EXCEPT !.blocks[k].n = @ + 1] = [v EXCEPT !.blocks = blocks]
  OBVIOUS
<1>7. blocks = [v.blocks EXCEPT ![k].n = @ + 1]
  OBVIOUS
<1> DEFINE w == [v EXCEPT !.blocks = blocks]
<1>8. w.blocks = blocks /\ Live(w) /\ w.started = v.started
  <2> HIDE DEF blocks
  <2> QED
    BY <1>2, <1>5 DEF Live, IsMessage
<1>9. ReadMessages(v, e) = w
  BY <1>3, <1>6, Zenon
<1>10. blocks = [v.blocks EXCEPT ![i + 1].n = @ + 1]
  BY <1>7
<1> HIDE DEF w, blocks
<1> QED
  BY <1>8, <1>9, <1>10, Zenon DEF Reads, e

LEMMA ReadsArgs ==
  ASSUME NEW v, Live(v), NEW i \in Nat, i + 1 \in 1 .. Len(v.blocks),
         v.blocks[i + 1].open = TRUE,
         v.blocks[i + 1].kind = "tool", NEW a \in Seq(Pieces)
  PROVE  Reads(v, ReadMessages(v, Messages!Delta(i, "tool", a)),
               [v.blocks EXCEPT ![i + 1].args = @ \o a])
<1> DEFINE e == Messages!Delta(i, "tool", a)
           k == i + 1
<1>1. e.type = "delta" /\ e.index + 1 = k /\ e.kind = "tool" /\ e.args = a
  BY DEF Messages!Delta, Messages!BlockStop
<1>2. /\ v.blocks \in Seq(BlockSet) /\ v.blocks[k] \in BlockSet /\ k \in DOMAIN v.blocks
      /\ DOMAIN v = {"blocks", "started", "end", "ok"}
      /\ v.ok = TRUE /\ v.end = "none"
  BY DEF Live, IsMessage
<1> HIDE DEF e
<1>3. ReadMessages(v, e) = [v EXCEPT !.blocks[k].args = @ \o a]
  <2>1. ReadMessages(v, e) = [v EXCEPT !.blocks[e.index + 1].args = @ \o a]
    BY <1>1, <1>2 DEF ReadMessages
  <2> QED
    BY <1>1, <2>1
<1> DEFINE b == [v.blocks[k] EXCEPT !.args = @ \o a]
           blocks == [v.blocks EXCEPT ![k] = b]
<1>4. b \in BlockSet
  BY <1>2, BlockTakesArgs
<1>5. blocks \in Seq(BlockSet)
  <2> HIDE DEF b
  <2> QED
    BY <1>2, <1>4
<1>6. [v EXCEPT !.blocks[k].args = @ \o a] = [v EXCEPT !.blocks = blocks]
  OBVIOUS
<1>7. blocks = [v.blocks EXCEPT ![k].args = @ \o a]
  OBVIOUS
<1> DEFINE w == [v EXCEPT !.blocks = blocks]
<1>8. w.blocks = blocks /\ Live(w) /\ w.started = v.started
  <2> HIDE DEF blocks
  <2> QED
    BY <1>2, <1>5 DEF Live, IsMessage
<1>9. ReadMessages(v, e) = w
  BY <1>3, <1>6, Zenon
<1>10. blocks = [v.blocks EXCEPT ![i + 1].args = @ \o a]
  BY <1>7
<1> HIDE DEF w, blocks
<1> QED
  BY <1>8, <1>9, <1>10, Zenon DEF Reads, e

LEMMA ReadsStop ==
  ASSUME NEW v, Live(v), NEW i \in Nat, i + 1 \in 1 .. Len(v.blocks),
         v.blocks[i + 1].open = TRUE
  PROVE  Reads(v, ReadMessages(v, Messages!BlockStop(i)),
               [v.blocks EXCEPT ![i + 1].open = FALSE])
<1> DEFINE e == Messages!BlockStop(i)
           k == i + 1
<1>1. e.type = "block_stop" /\ e.index + 1 = k
  BY DEF Messages!Delta, Messages!BlockStop
<1>2. /\ v.blocks \in Seq(BlockSet) /\ v.blocks[k] \in BlockSet /\ k \in DOMAIN v.blocks
      /\ DOMAIN v = {"blocks", "started", "end", "ok"}
      /\ v.ok = TRUE /\ v.end = "none"
  BY DEF Live, IsMessage
<1> HIDE DEF e
<1>3. ReadMessages(v, e) = [v EXCEPT !.blocks[k].open = FALSE]
  <2>1. ReadMessages(v, e) = [v EXCEPT !.blocks[e.index + 1].open = FALSE]
    BY <1>1, <1>2 DEF ReadMessages
  <2> QED
    BY <1>1, <2>1
<1> DEFINE b == [v.blocks[k] EXCEPT !.open = FALSE]
           blocks == [v.blocks EXCEPT ![k] = b]
<1>4. b \in BlockSet
  BY <1>2, BlockCloses
<1>5. blocks \in Seq(BlockSet)
  <2> HIDE DEF b
  <2> QED
    BY <1>2, <1>4
<1>6. [v EXCEPT !.blocks[k].open = FALSE] = [v EXCEPT !.blocks = blocks]
  OBVIOUS
<1>7. blocks = [v.blocks EXCEPT ![k].open = FALSE]
  OBVIOUS
<1> DEFINE w == [v EXCEPT !.blocks = blocks]
<1>8. w.blocks = blocks /\ Live(w) /\ w.started = v.started
  <2> HIDE DEF blocks
  <2> QED
    BY <1>2, <1>5 DEF Live, IsMessage
<1>9. ReadMessages(v, e) = w
  BY <1>3, <1>6, Zenon
<1>10. blocks = [v.blocks EXCEPT ![i + 1].open = FALSE]
  BY <1>7
<1> HIDE DEF w, blocks
<1> QED
  BY <1>8, <1>9, <1>10, Zenon DEF Reads, e

LEMMA ReadsEnd ==
  ASSUME NEW v, Live(v), \A k \in 1 .. Len(v.blocks) : v.blocks[k].open = FALSE, NEW r
  PROVE  LET w == ReadMessages(v, [type |-> "message_stop", reason |-> r])
         IN IsMessage(w) /\ w.ok = TRUE /\ w.end = "complete" /\ w.blocks = v.blocks
BY DEF ReadMessages, Live, IsMessage

LEMMA ReadsError ==
  ASSUME NEW v, Live(v)
  PROVE  LET w == ReadMessages(v, [type |-> "error"])
         IN IsMessage(w) /\ w.ok = TRUE /\ w.end = "failed"
BY DEF ReadMessages, Live, IsMessage

(***************************************************************************)
(* The Messages converter: what its client has read follows from its state *)
(***************************************************************************)

IsList(seq) == \E S : seq \in Seq(S)

\* A client that had read up to v, and now the events of this line so far.
Heard(v, s) == MessagesClient!Through(v, s.out)

LEMMA ClientReads ==
  ASSUME NEW v, NEW q, IsList(q), NEW e
  PROVE  MessagesClient!Through(v, Append(q, e)) = ReadMessages(MessagesClient!Through(v, q), e)
<1>1. \A w, p : MessagesClient!Through(w, p) = Client!Through(w, p)
  BY Zenon DEF MessagesClient!Through, Client!Through
<1>2. Client!IsList(q)
  BY Zenon DEF IsList, Client!IsList
<1>3. Client!Through(v, Append(q, e)) = ReadMessages(Client!Through(v, q), e)
  BY <1>2, Client!ThroughAppend, Zenon
<1> QED
  BY <1>1, <1>3, Zenon

LEMMA ListGrows ==
  ASSUME NEW q, IsList(q), NEW e
  PROVE  IsList(Append(q, e))
<1>1. PICK S : q \in Seq(S)
  BY Zenon DEF IsList
<1>2. Append(q, e) \in Seq(S \cup {e})
  BY <1>1
<1> QED
  BY <1>2, Zenon DEF IsList

LEMMA Emits ==
  ASSUME NEW s, DOMAIN s = MessagesFields, NEW e
  PROVE  LET t == Messages!Emit(s, e)
         IN /\ DOMAIN t = MessagesFields /\ t.out = Append(s.out, e)
            /\ t.started = s.started /\ t.next = s.next /\ t.open = s.open /\ t.text = s.text
            /\ t.blocks = s.blocks /\ t.tools = s.tools /\ t.finish = s.finish
            /\ t.refused = s.refused /\ t.done = s.done /\ t.error = s.error
BY DEF Messages!Emit, MessagesFields

LEMMA EmitsHeard ==
  ASSUME NEW s, DOMAIN s = MessagesFields, IsList(s.out), NEW e, NEW v
  PROVE  /\ Heard(v, Messages!Emit(s, e)) = ReadMessages(Heard(v, s), e)
         /\ IsList(Messages!Emit(s, e).out)
<1>1. Messages!Emit(s, e).out = Append(s.out, e)
  BY Emits
<1>2. MessagesClient!Through(v, Append(s.out, e)) = ReadMessages(MessagesClient!Through(v, s.out), e)
  BY ClientReads
<1>3. IsList(Append(s.out, e))
  BY ListGrows
<1> QED
  BY <1>1, <1>2, <1>3, Zenon DEF Heard

LEMMA ClosedOrNot ==
  ASSUME NEW s, MessagesState(s)
  PROVE  s.open = Messages!Closed <=> s.open.kind = "none"
BY DEF MessagesState, Messages!Closed

\* The block that grows, if any, is recorded and closed.
LEMMA CloseOpenRuns ==
  ASSUME NEW v, NEW s, IsList(s.out), Running(s, Heard(v, s)),
         NEW t, t = Messages!CloseOpen(s)
  PROVE  /\ IsList(t.out) /\ Running(t, Heard(v, t)) /\ t.open.kind = "none"
         /\ t.started = s.started /\ t.tools = s.tools /\ t.finish = s.finish
         /\ t.refused = s.refused
<1> DEFINE w == Heard(v, s)
<1>1. CASE s.open.kind = "none"
  BY <1>1, ClosedOrNot, Zenon DEF Running, Messages!CloseOpen
<1>2. CASE s.open.kind # "none"
  <2> DEFINE b == [kind |-> s.open.kind, n |-> s.text]
             c == [s EXCEPT !.open = Messages!Closed, !.text = 0, !.blocks = Append(@, b)]
             e == Messages!BlockStop(s.open.index)
  <2>1. t = Messages!Emit(c, e)
    BY <1>2, ClosedOrNot DEF Running, Messages!CloseOpen
  <2>2. MessagesState(s) /\ Running(s, w)
    BY DEF Running
  <2>3. /\ DOMAIN c = MessagesFields /\ c.out = s.out /\ c.started = s.started
        /\ c.next = s.next /\ c.open = Messages!Closed /\ c.text = 0
        /\ c.blocks = Append(s.blocks, b) /\ c.tools = s.tools /\ c.finish = s.finish
        /\ c.refused = s.refused /\ c.done = s.done /\ c.error = s.error
    BY <2>2 DEF MessagesState, MessagesFields
  <2> HIDE DEF c
  <2>4. /\ DOMAIN t = MessagesFields /\ t.started = s.started
        /\ t.next = s.next /\ t.open = Messages!Closed /\ t.text = 0
        /\ t.blocks = Append(s.blocks, b) /\ t.tools = s.tools /\ t.finish = s.finish
        /\ t.refused = s.refused /\ t.done = s.done /\ t.error = s.error
    BY <2>1, <2>3, Emits
  <2>5. Heard(v, t) = ReadMessages(w, e) /\ IsList(t.out)
    <3>1. Heard(v, c) = w
      BY <2>3, Zenon DEF Heard
    <3> QED
      BY <2>1, <2>3, <3>1, EmitsHeard
  <2> DEFINE x == Heard(v, t)
  <2>6. /\ Live(w) /\ s.next \in 1 .. Len(w.blocks) /\ w.blocks[s.next].open = TRUE
        /\ s.open.index \in Nat /\ s.open.index + 1 = s.next
    BY <1>2, <2>2 DEF Running, Live, MessagesState
  <2> HIDE DEF w
  <2>7. /\ Live(x) /\ x.started = w.started
        /\ x.blocks = [w.blocks EXCEPT ![s.next].open = FALSE]
    <3>1. s.open.index + 1 \in 1 .. Len(w.blocks) /\ w.blocks[s.open.index + 1].open = TRUE
      BY <2>6
    <3>2. Reads(w, ReadMessages(w, e), [w.blocks EXCEPT ![s.open.index + 1].open = FALSE])
      BY <2>6, <3>1, ReadsStop, Zenon
    <3> HIDE DEF e
    <3> QED
      BY <2>5, <2>6, <3>2 DEF Reads
  <2> HIDE DEF x
  <2>8. b \in [kind : {"text", "thinking", "tool"}, n : Nat] /\ b.kind = s.open.kind
        /\ b.n = s.text
    BY <1>2, <2>2 DEF MessagesState
  <2> HIDE DEF b
  <2>9. MessagesState(t) /\ t.open.kind = "none"
    BY <2>2, <2>4, <2>8 DEF MessagesState, Messages!Closed
  <2>10. /\ Len(s.blocks) = s.next - 1 /\ Len(t.blocks) = s.next /\ t.blocks[s.next] = b
         /\ \A k \in 1 .. Len(s.blocks) : t.blocks[k] = s.blocks[k]
    BY <1>2, <2>2, <2>4, <2>8 DEF Running, MessagesState
  <2>11. /\ Len(x.blocks) = s.next
         /\ \A k \in 1 .. Len(s.blocks) : x.blocks[k] = w.blocks[k]
         /\ x.blocks[s.next].kind = b.kind /\ x.blocks[s.next].id = "none"
         /\ x.blocks[s.next].n = b.n /\ x.blocks[s.next].args = <<>>
         /\ x.blocks[s.next].open = FALSE
    <3>1. /\ w.blocks \in Seq(BlockSet) /\ Len(w.blocks) = s.next
          /\ w.blocks[s.next] = [kind |-> s.open.kind, id |-> "none", n |-> s.text,
                                 args |-> <<>>, open |-> TRUE]
      BY <1>2, <2>2 DEF Running, IsMessage
    <3> QED
      BY <2>6, <2>7, <2>8, <2>10, <3>1
  <2>12. \A k \in 1 .. Len(t.blocks) : ShownOpen(t, x.blocks[k], k)
    <3> SUFFICES ASSUME NEW k \in 1 .. Len(t.blocks)
                 PROVE  ShownOpen(t, x.blocks[k], k)
      OBVIOUS
    <3>1. CASE k \in 1 .. Len(s.blocks)
      <4>1. ShownOpen(s, w.blocks[k], k)
        BY <2>2, <3>1 DEF Running
      <4> QED
        BY <3>1, <4>1, <2>4, <2>10, <2>11 DEF ShownOpen, Shown, ShowsCall
    <3>2. CASE k = s.next
      BY <3>2, <2>8, <2>10, <2>11, <1>2, <2>2 DEF ShownOpen, Shown, ShowsCall, MessagesState
    <3> QED
      BY <3>1, <3>2, <2>10
  <2>13. ToolsShown(t)
    <3>1. s.blocks \in Seq([kind : {"text", "thinking", "tool"}, n : Nat]) /\ ToolsShown(s)
      BY <2>2 DEF Running, MessagesState
    <3> QED
      BY <2>4, <2>10, <3>1 DEF ToolsShown
  <2> QED
    BY <2>2, <2>4, <2>5, <2>7, <2>9, <2>10, <2>11, <2>12, <2>13 DEF Running, Live, x
<1> QED
  BY <1>1, <1>2


(***************************************************************************)
(* The calls of a reply                                                    *)
(***************************************************************************)

LEMMA CallsDomain ==
  ASSUME NEW calls, IsCalls(calls)
  PROVE  /\ Size(calls) \in Nat /\ DOMAIN calls = 0 .. Size(calls) - 1
         /\ \A i \in DOMAIN calls : calls[i] \in CallSet
BY DEF IsCalls

LEMMA NumberedDomain ==
  ASSUME NEW calls, NEW n \in Nat, DOMAIN calls = 0 .. n - 1
  PROVE  Size(calls) = n
BY FS_Interval DEF Size

LEMMA NoCalls ==
  /\ IsCalls(<<>>) /\ Size(<<>>) = 0 /\ DOMAIN <<>> = {}
<1>1. DOMAIN <<>> = 0 .. 0 - 1 /\ DOMAIN <<>> = {}
  OBVIOUS
<1>2. Size(<<>>) = 0
  BY <1>1, NumberedDomain
<1>3. <<>> \in [0 .. 0 - 1 -> CallSet]
  OBVIOUS
<1> QED
  BY <1>1, <1>2, <1>3 DEF IsCalls

LEMMA PutCalls ==
  ASSUME NEW calls, IsCalls(calls), NEW i \in 0 .. Size(calls), NEW call \in CallSet
  PROVE  /\ IsCalls(Put(calls, i, call))
         /\ i = Size(calls) => Size(Put(calls, i, call)) = Size(calls) + 1
         /\ i # Size(calls) => Size(Put(calls, i, call)) = Size(calls)
<1> DEFINE p == Put(calls, i, call)
           n == IF i = Size(calls) THEN Size(calls) + 1 ELSE Size(calls)
<1>1. /\ Size(calls) \in Nat /\ DOMAIN calls = 0 .. Size(calls) - 1
      /\ \A j \in DOMAIN calls : calls[j] \in CallSet
  BY CallsDomain
<1>2. /\ DOMAIN p = DOMAIN calls \cup {i} /\ p[i] = call
      /\ \A j \in DOMAIN calls : j # i => p[j] = calls[j]
      /\ p = [j \in DOMAIN p |-> p[j]]
  BY DEF Put
<1> HIDE DEF p
<1>3. n \in Nat /\ DOMAIN p = 0 .. n - 1
  BY <1>1, <1>2
<1> HIDE DEF n
<1>4. Size(p) = n
  BY <1>3, NumberedDomain
<1>5. \A j \in DOMAIN p : p[j] \in CallSet
  BY <1>1, <1>2
<1>6. IsCalls(p)
  BY <1>2, <1>3, <1>4, <1>5 DEF IsCalls
<1> QED
  BY <1>4, <1>6 DEF p, n

LEMMA CallTyped ==
  ASSUME NEW calls, IsCalls(calls), NEW i
  PROVE  Call(calls, i) \in CallSet
<1>1. NoCall \in CallSet
  BY DEF NoCall, CallSet
<1> QED
  BY <1>1, CallsDomain DEF Call

LEMMA ListTyped ==
  ASSUME NEW S, NEW q \in Seq(S), NEW e \in S
  PROVE  Append(q, e) \in Seq(S)
OBVIOUS

LEMMA ArgsGrow ==
  ASSUME NEW args \in Seq(Pieces), NEW a \in Pieces \cup {""}
  PROVE  AddArgs(args, a) \in Seq(Pieces)
<1>1. a \in Pieces => Append(args, a) \in Seq(Pieces)
  BY ListTyped
<1> QED
  BY <1>1, Zenon DEF AddArgs

LEMMA NumIsNat ==
  ASSUME NEW b
  PROVE  Num(b) \in {0, 1} /\ Num(b) \in Nat
<1>1. Num(b) \in {0, 1}
  BY Zenon DEF Num
<1> QED
  BY <1>1

LEMMA GrowTyped ==
  ASSUME NEW call \in CallSet, NEW f, IsFragment(f)
  PROVE  /\ Grow(call, f) \in CallSet
         /\ Grow(call, f).args = AddArgs(call.args, f.args)
         /\ Grow(call, f).open = call.open /\ Grow(call, f).index = call.index
         /\ Grow(call, f).name = call.name + Num(f.name)
         /\ Grow(call, f).id = IF call.id = "none" /\ f.id THEN "given" ELSE call.id
<1> DEFINE a == AddArgs(call.args, f.args)
           n == call.name + Num(f.name)
           id == IF call.id = "none" /\ f.id THEN "given" ELSE call.id
<1>1. a \in Seq(Pieces)
  BY ArgsGrow DEF CallSet, IsFragment
<1>2. n \in Nat
  <2>1. call.name \in Nat /\ Num(f.name) \in Nat
    BY NumIsNat DEF CallSet
  <2> QED
    BY <2>1
<1>3. id \in {"none", "given", "made"}
  BY DEF CallSet
<1>4. Grow(call, f) = [call EXCEPT !.id = id, !.name = n, !.args = a]
  BY Zenon DEF Grow
<1> HIDE DEF a, n, id
<1>5. /\ Grow(call, f) \in CallSet /\ Grow(call, f).args = a
      /\ Grow(call, f).open = call.open /\ Grow(call, f).index = call.index
      /\ Grow(call, f).name = n /\ Grow(call, f).id = id
  BY <1>1, <1>2, <1>3, <1>4 DEF CallSet
<1> QED
  BY <1>5 DEF a, n, id

LEMMA GrowCallTyped ==
  ASSUME NEW calls, IsCalls(calls), NEW f, IsFragment(f), f.index <= Size(calls)
  PROVE  /\ IsCalls(GrowCall(calls, f))
         /\ f.index = Size(calls) => Size(GrowCall(calls, f)) = Size(calls) + 1
         /\ f.index # Size(calls) => Size(GrowCall(calls, f)) = Size(calls)
<1> DEFINE g == Grow(Call(calls, f.index), f)
<1>1. g \in CallSet
  BY CallTyped, GrowTyped
<1>2. f.index \in 0 .. Size(calls)
  <2>1. Size(calls) \in Nat /\ f.index \in Nat
    BY CallsDomain, Zenon DEF IsFragment
  <2> QED
    BY <2>1
<1>3. GrowCall(calls, f) = Put(calls, f.index, g)
  BY DEF GrowCall
<1> HIDE DEF g
<1>4. IsCalls(Put(calls, f.index, g))
  BY <1>1, <1>2, PutCalls, Zenon
<1>5. /\ f.index = Size(calls) => Size(Put(calls, f.index, g)) = Size(calls) + 1
      /\ f.index # Size(calls) => Size(Put(calls, f.index, g)) = Size(calls)
  BY <1>1, <1>2, PutCalls, Zenon
<1> QED
  BY <1>3, <1>4, <1>5, Zenon

Accumulating == INSTANCE FoldProofs WITH Op <- GrowCall

LEMMA AccumulateFew ==
  ASSUME NEW calls, NEW f
  PROVE  /\ Accumulate(calls, <<>>) = calls
         /\ Accumulate(calls, <<f>>) = GrowCall(calls, f)
<1>1. \A s : Accumulate(calls, s) = Accumulating!Through(calls, s)
  BY Zenon DEF Accumulate, Growing!Through, Accumulating!Through
<1>2. /\ Accumulating!Through(calls, <<>>) = calls
      /\ Accumulating!Through(calls, <<f>>) = GrowCall(calls, f)
  BY Accumulating!ThroughNone, Accumulating!ThroughOne, Zenon
<1> QED
  BY <1>1, <1>2, Zenon

LEMMA AccumulateTwo ==
  ASSUME NEW calls, NEW fs, NEW f, NEW g, fs = <<f, g>>
  PROVE  Accumulate(calls, fs) = GrowCall(GrowCall(calls, f), g)
<1>1. Accumulate(calls, fs) = Accumulating!Through(calls, fs)
  BY Zenon DEF Accumulate, Growing!Through, Accumulating!Through
<1>2. Accumulating!Through(calls, <<f, g>>) = GrowCall(GrowCall(calls, f), g)
  BY Accumulating!ThroughTwo
<1> QED
  BY <1>1, <1>2

LEMMA AccumulateTyped ==
  ASSUME NEW calls, IsCalls(calls), NEW fs, FitsCalls(calls, fs)
  PROVE  IsCalls(Accumulate(calls, fs))
<1>1. CASE fs = <<>>
  BY <1>1, AccumulateFew
<1>2. CASE fs = <<fs[1]>> /\ IsFragment(fs[1]) /\ fs[1].index <= Size(calls)
  <2>1. Accumulate(calls, fs) = GrowCall(calls, fs[1])
    BY <1>2, AccumulateFew, Zenon
  <2>2. IsCalls(GrowCall(calls, fs[1]))
    BY <1>2, GrowCallTyped, Zenon
  <2> QED
    BY <2>1, <2>2, Zenon
<1>3. CASE /\ fs = <<fs[1], fs[2]>> /\ Size(calls) = 0
           /\ IsFragment(fs[1]) /\ fs[1].index = 0 /\ IsFragment(fs[2]) /\ fs[2].index = 1
  <2> DEFINE c == GrowCall(calls, fs[1])
  <2>1. Accumulate(calls, fs) = GrowCall(c, fs[2])
    BY <1>3, AccumulateTwo
  <2>2. IsCalls(c) /\ Size(c) = 1
    <3>1. fs[1].index <= Size(calls)
      BY <1>3
    <3>2. IsCalls(c) /\ (fs[1].index = Size(calls) => Size(c) = Size(calls) + 1)
      BY <1>3, <3>1, GrowCallTyped, Zenon
    <3> QED
      BY <1>3, <3>2
  <2> HIDE DEF c
  <2>3. fs[2].index <= Size(c)
    BY <1>3, <2>2
  <2>4. IsCalls(GrowCall(c, fs[2]))
    BY <1>3, <2>2, <2>3, GrowCallTyped, Zenon
  <2> QED
    BY <2>1, <2>4, Zenon
<1> QED
  BY <1>1, <1>2, <1>3 DEF FitsCalls

\* Calls have no order but that of their numbers.
LEMMA IndicesNumbered ==
  ASSUME NEW calls, IsCalls(calls)
  PROVE  /\ Indices(calls) = [k \in 1 .. Size(calls) |-> k - 1]
         /\ Len(Indices(calls)) = Size(calls)
         /\ DOMAIN Indices(calls) = 1 .. Size(calls)
         /\ \A k \in 1 .. Size(calls) : Indices(calls)[k] = k - 1
<1> DEFINE n == Size(calls)
           D == DOMAIN calls
           B(i) == {j \in D : j < i}
<1>1. n \in Nat /\ D = 0 .. n - 1
  BY CallsDomain
<1> HIDE DEF n, D
<1>2. \A i \in D : Cardinality(B(i)) = i
  <2> TAKE i \in D
  <2>1. B(i) = 0 .. i - 1 /\ i \in Nat
    BY <1>1
  <2> HIDE DEF B
  <2>2. Cardinality(0 .. i - 1) = i
    BY <2>1, FS_Interval
  <2> QED
    BY <2>1, <2>2
<1> HIDE DEF B
<1>3. \A k \in 1 .. n : (CHOOSE i \in D : Cardinality(B(i)) = k - 1) = k - 1
  <2> TAKE k \in 1 .. n
  <2>1. k - 1 \in D /\ Cardinality(B(k - 1)) = k - 1
    BY <1>1, <1>2
  <2> DEFINE c == CHOOSE i \in D : Cardinality(B(i)) = k - 1
  <2>2. c \in D /\ Cardinality(B(c)) = k - 1
    BY <2>1
  <2> HIDE DEF c
  <2>3. c = k - 1
    BY <1>2, <2>2
  <2> QED
    BY <2>3 DEF c
<1>4. Indices(calls) = [k \in 1 .. n |-> CHOOSE i \in D : Cardinality(B(i)) = k - 1]
  BY Zenon DEF Indices, n, D, B, Size
<1>5. Indices(calls) = [k \in 1 .. n |-> k - 1]
  BY <1>3, <1>4
<1>6. Len(Indices(calls)) = n
  BY <1>1, <1>5
<1> QED
  BY <1>5, <1>6 DEF n

LEMMA AlikeGrows ==
  ASSUME NEW tools, IsCalls(tools), NEW calls, IsCalls(calls), Alike(tools, calls),
         NEW f, IsFragment(f), f.index <= Size(calls), NEW call \in CallSet,
         call.args = AddArgs(Call(tools, f.index).args, f.args),
         NEW p, p = Put(tools, f.index, call), NEW g, g = GrowCall(calls, f)
  PROVE  Alike(p, g) /\ Size(tools) = Size(calls)
<1>1. DOMAIN tools = DOMAIN calls /\ Size(tools) = Size(calls)
  BY Zenon DEF Alike, Size
<1>2. f.index \in 0 .. Size(tools)
  <2>1. Size(calls) \in Nat /\ f.index \in Nat
    BY CallsDomain, Zenon DEF IsFragment
  <2> QED
    BY <1>1, <2>1
<1>3. Call(tools, f.index).args = Call(calls, f.index).args
  BY DEF Call, Alike
<1>4. /\ DOMAIN p = DOMAIN tools \cup {f.index} /\ p[f.index] = call
      /\ \A j \in DOMAIN tools : j # f.index => p[j] = tools[j]
  BY DEF Put
<1>5. /\ DOMAIN g = DOMAIN calls \cup {f.index}
      /\ g[f.index].args = AddArgs(Call(calls, f.index).args, f.args)
      /\ \A j \in DOMAIN calls : j # f.index => g[j] = calls[j]
  <2>1. /\ DOMAIN g = DOMAIN calls \cup {f.index}
        /\ g[f.index] = Grow(Call(calls, f.index), f)
        /\ \A j \in DOMAIN calls : j # f.index => g[j] = calls[j]
    BY DEF GrowCall, Put
  <2>2. Grow(Call(calls, f.index), f).args = AddArgs(Call(calls, f.index).args, f.args)
    BY CallTyped, GrowTyped
  <2> QED
    BY <2>1, <2>2, Zenon
<1>6. \A j \in DOMAIN p : p[j].args = g[j].args
  <2> TAKE j \in DOMAIN p
  <2>1. CASE j = f.index
    BY <2>1, <1>3, <1>4, <1>5, Zenon
  <2>2. CASE j # f.index
    BY <2>2, <1>1, <1>4, <1>5, Zenon DEF Alike
  <2> QED
    BY <2>1, <2>2
<1> QED
  BY <1>1, <1>4, <1>5, <1>6, Zenon DEF Alike

(***************************************************************************)
(* What blocks and parts hold                                              *)
(***************************************************************************)

Tally == [{"text", "refusal", "thinking", "summary"} -> Nat]

PartsFold == INSTANCE FoldProofs WITH Op <- AddPart

LEMMA NoPartsTyped == NoParts \in Tally /\ \A kind \in DOMAIN NoParts : NoParts[kind] = 0
BY DEF NoParts, Tally

LEMMA AddPartTyped ==
  ASSUME NEW t \in Tally, NEW p, p.n \in Nat
  PROVE  /\ AddPart(t, p) \in Tally
         /\ \A kind \in {"text", "refusal", "thinking", "summary"} :
              AddPart(t, p)[kind] = t[kind] + IF p.kind = kind THEN p.n ELSE 0
<1>1. CASE p.kind \in DOMAIN t
  <2>1. AddPart(t, p) = [t EXCEPT ![p.kind] = @ + p.n]
    BY <1>1 DEF AddPart
  <2>2. t[p.kind] + p.n \in Nat
    BY <1>1 DEF Tally
  <2> QED
    BY <1>1, <2>1, <2>2 DEF Tally
<1>2. CASE p.kind \notin DOMAIN t
  BY <1>2 DEF AddPart, Tally
<1> QED
  BY <1>1, <1>2

LEMMA PartsTyped ==
  ASSUME NEW t \in Tally, NEW K, NEW q \in Seq([kind : K, n : Nat])
  PROVE  Parts!Through(t, q) \in Tally
<1> DEFINE good == [n \in Nat |-> Tally]
<1>1. Parts!Through(t, q) = PartsFold!Through(t, q)
  BY Zenon DEF Parts!Through, PartsFold!Through
<1>2. Len(q) \in Nat /\ t \in good[0]
  OBVIOUS
<1>3. \A n \in 1 .. Len(q) : \A u \in good[n - 1] : AddPart(u, q[n]) \in good[n]
  <2> TAKE n \in 1 .. Len(q)
  <2>1. n \in Nat /\ n - 1 \in Nat /\ q[n].n \in Nat
    <3> DEFINE S == [kind : K, n : Nat]
    <3>1. q \in Seq(S)
      OBVIOUS
    <3> HIDE DEF S, good
    <3>2. q[n] \in S /\ n \in Nat /\ n - 1 \in Nat
      BY <3>1
    <3> QED
      BY <3>2 DEF S
  <2>2. \A u \in Tally : AddPart(u, q[n]) \in Tally
    BY <2>1, AddPartTyped
  <2> QED
    BY <2>1, <2>2
<1>4. Len(q) \in Nat => good[Len(q)] = Tally
  OBVIOUS
<1> HIDE DEF good
<1>5. PartsFold!Through(t, q) \in good[Len(q)]
  BY <1>2, <1>3, PartsFold!ThroughKeeps
<1> QED
  BY <1>1, <1>2, <1>4, <1>5, Zenon

LEMMA PartsAppend ==
  ASSUME NEW t \in Tally, NEW K, NEW q \in Seq([kind : K, n : Nat]), NEW p, p.n \in Nat
  PROVE  Parts!Through(t, Append(q, p)) = AddPart(Parts!Through(t, q), p)
<1>1. \A u, s : Parts!Through(u, s) = PartsFold!Through(u, s)
  BY Zenon DEF Parts!Through, PartsFold!Through
<1>2. PartsFold!IsList(q)
  BY Zenon DEF PartsFold!IsList
<1>3. PartsFold!Through(t, Append(q, p)) = AddPart(PartsFold!Through(t, q), p)
  BY <1>2, PartsFold!ThroughAppend, Zenon
<1> QED
  BY <1>1, <1>3, Zenon

LEMMA PartsGrow ==
  ASSUME NEW t \in Tally, NEW K, NEW q \in Seq([kind : K, n : Nat]), NEW p, p.n \in Nat,
         NEW kind \in {"text", "refusal", "thinking", "summary"}
  PROVE  /\ Parts!Through(t, q)[kind] \in Nat
         /\ Parts!Through(t, Append(q, p))[kind] =
              Parts!Through(t, q)[kind] + IF p.kind = kind THEN p.n ELSE 0
<1> DEFINE u == Parts!Through(t, q)
<1>1. u \in Tally
  BY PartsTyped
<1>2. Parts!Through(t, Append(q, p)) = AddPart(u, p)
  BY PartsAppend
<1> HIDE DEF u
<1>3. u[kind] \in Nat
  BY <1>1 DEF Tally
<1>4. AddPart(u, p)[kind] = u[kind] + IF p.kind = kind THEN p.n ELSE 0
  BY <1>1, AddPartTyped
<1> QED
  BY <1>2, <1>3, <1>4 DEF u

Recorded == [kind : {"text", "thinking", "tool"}, n : Nat]

LEMMA HeldTyped ==
  ASSUME NEW s, MessagesState(s), NEW kind \in {"text", "thinking"}
  PROVE  Held(s, kind) \in Nat /\ Parts!Through(NoParts, s.blocks)[kind] \in Nat
<1>1. s.blocks \in Seq(Recorded) /\ s.text \in Nat
  BY DEF MessagesState, Recorded
<1>2. Parts!Through(NoParts, s.blocks) \in Tally
  <2>1. s.blocks \in Seq([kind : {"text", "thinking", "tool"}, n : Nat])
    BY <1>1 DEF Recorded
  <2> QED
    BY <2>1, NoPartsTyped, PartsTyped
<1>3. Parts!Through(NoParts, s.blocks)[kind] \in Nat
  BY <1>2 DEF Tally
<1> QED
  BY <1>1, <1>3 DEF Held

\* A call's block holds no text; the one that grows is added when it closes.
LEMMA HeldAppend ==
  ASSUME NEW s, MessagesState(s), NEW b, b.n \in Nat, NEW kind \in {"text", "thinking"}
  PROVE  Parts!Through(NoParts, Append(s.blocks, b))[kind] =
           Parts!Through(NoParts, s.blocks)[kind] + IF b.kind = kind THEN b.n ELSE 0
<1>1. s.blocks \in Seq([kind : {"text", "thinking", "tool"}, n : Nat])
  BY DEF MessagesState
<1>2. Parts!Through(NoParts, Append(s.blocks, b))[kind] =
           Parts!Through(NoParts, s.blocks)[kind] + IF b.kind = kind THEN b.n ELSE 0
  <2> DEFINE K == {"text", "thinking", "tool"}
  <2>1. s.blocks \in Seq([kind : K, n : Nat]) /\ NoParts \in Tally
    BY <1>1, NoPartsTyped
  <2>2. kind \in {"text", "refusal", "thinking", "summary"}
    OBVIOUS
  <2> HIDE DEF K
  <2> DEFINE q == s.blocks
  <2>3. q \in Seq([kind : K, n : Nat])
    BY <2>1
  <2> HIDE DEF q
  <2>4. Parts!Through(NoParts, Append(q, b))[kind] =
          Parts!Through(NoParts, q)[kind] + IF b.kind = kind THEN b.n ELSE 0
    BY <2>1, <2>2, <2>3, PartsGrow, Zenon
  <2> QED
    BY <2>4, Zenon DEF q
<1> QED
  BY <1>2

LEMMA CloseOpenHolds ==
  ASSUME NEW s, MessagesState(s), NEW t, t = Messages!CloseOpen(s),
         NEW kind \in {"text", "thinking"}
  PROVE  Held(t, kind) = Held(s, kind)
<1>1. CASE s.open.kind = "none"
  BY <1>1, ClosedOrNot, Zenon DEF Messages!CloseOpen
<1>2. CASE s.open.kind # "none"
  <2> DEFINE b == [kind |-> s.open.kind, n |-> s.text]
             c == [s EXCEPT !.open = Messages!Closed, !.text = 0, !.blocks = Append(@, b)]
             e == Messages!BlockStop(s.open.index)
  <2>1. t = Messages!Emit(c, e)
    BY <1>2, ClosedOrNot DEF Messages!CloseOpen
  <2>2. /\ DOMAIN c = MessagesFields /\ c.open = Messages!Closed /\ c.text = 0
        /\ c.blocks = Append(s.blocks, b)
    BY DEF MessagesState, MessagesFields
  <2> HIDE DEF c
  <2>3. t.open = Messages!Closed /\ t.blocks = Append(s.blocks, b)
    BY <2>1, <2>2, Emits
  <2>4. b.n \in Nat /\ b.n = s.text /\ b.kind = s.open.kind
    BY DEF MessagesState
  <2> HIDE DEF b
  <2>5. Parts!Through(NoParts, t.blocks)[kind] =
           Parts!Through(NoParts, s.blocks)[kind] + IF b.kind = kind THEN b.n ELSE 0
    <3>1. Parts!Through(NoParts, Append(s.blocks, b))[kind] =
           Parts!Through(NoParts, s.blocks)[kind] + IF b.kind = kind THEN b.n ELSE 0
      BY <2>4, HeldAppend
    <3> QED
      BY <2>3, <3>1
  <2>6. Parts!Through(NoParts, s.blocks)[kind] \in Nat
    BY HeldTyped
  <2>7. t.open.kind = "none"
    BY <2>3 DEF Messages!Closed
  <2> QED
    BY <2>4, <2>5, <2>6, <2>7 DEF Held
<1> QED
  BY <1>1, <1>2

(***************************************************************************)
(* Messages: text and thinking                                             *)
(***************************************************************************)

\* The stream runs, and the client has made of it so far what it should.
Goes(v, s) == IsList(s.out) /\ Running(s, Heard(v, s))

\* What text does not change.
Aside(s, t) ==
  t.tools = s.tools /\ t.finish = s.finish /\ t.refused = s.refused

LEMMA GoesTyped ==
  ASSUME NEW v, NEW s, Goes(v, s)
  PROVE  MessagesState(s) /\ DOMAIN s = MessagesFields /\ Live(Heard(v, s))
BY DEF Goes, Running, MessagesState, Live

LEMMA StartRuns ==
  ASSUME NEW v, NEW s, Goes(v, s), NEW t, t = Messages!Start(s)
  PROVE  /\ Goes(v, t) /\ t.started = TRUE /\ Aside(s, t)
         /\ t.open = s.open /\ t.text = s.text /\ t.blocks = s.blocks
<1>1. CASE s.started = TRUE
  BY <1>1, Zenon DEF Messages!Start, Aside
<1>2. CASE s.started = FALSE
  <2> DEFINE c == [s EXCEPT !.started = TRUE]
             e == [type |-> "message_start"]
             w == Heard(v, s)
  <2>1. t = Messages!Emit(c, e)
    BY <1>2 DEF Messages!Start
  <2>2. MessagesState(s) /\ Running(s, w) /\ IsList(s.out) /\ Live(w)
    BY GoesTyped DEF Goes
  <2>3. /\ DOMAIN c = MessagesFields /\ c.out = s.out /\ c.started = TRUE
        /\ c.next = s.next /\ c.open = s.open /\ c.text = s.text
        /\ c.blocks = s.blocks /\ c.tools = s.tools /\ c.finish = s.finish
        /\ c.refused = s.refused /\ c.done = s.done /\ c.error = s.error
    BY <2>2 DEF MessagesState, MessagesFields
  <2> HIDE DEF c
  <2>4. /\ DOMAIN t = MessagesFields /\ t.started = TRUE
        /\ t.next = s.next /\ t.open = s.open /\ t.text = s.text
        /\ t.blocks = s.blocks /\ t.tools = s.tools /\ t.finish = s.finish
        /\ t.refused = s.refused /\ t.done = s.done /\ t.error = s.error
    BY <2>1, <2>3, Emits
  <2>5. Heard(v, c) = w
    BY <2>3, Zenon DEF Heard
  <2> HIDE DEF w
  <2>6. Heard(v, t) = ReadMessages(w, e) /\ IsList(t.out)
    BY <2>1, <2>2, <2>3, <2>5, EmitsHeard
  <2> DEFINE x == Heard(v, t)
  <2>7. w.started = FALSE
    BY <1>2, <2>2 DEF Running
  <2>8. Live(x) /\ x.started = TRUE /\ x.blocks = w.blocks
    BY <2>2, <2>6, <2>7, ReadsStart, Zenon
  <2> HIDE DEF x
  <2>9. MessagesState(t)
    BY <2>2, <2>4 DEF MessagesState
  <2>10. ToolsShown(t)
    BY <2>2, <2>4 DEF ToolsShown, Running
  <2>11. \A b, k : ShownOpen(s, b, k) => ShownOpen(t, b, k)
    BY <2>4 DEF ShownOpen, Shown, ShowsCall
  <2>12. \A k \in 1 .. Len(t.blocks) :
           ShownOpen(t, x.blocks[k], k)
    <3>1. \A k \in 1 .. Len(s.blocks) : ShownOpen(s, w.blocks[k], k)
      BY <2>2, Zenon DEF Running
    <3> QED
      BY <2>4, <2>8, <2>11, <3>1, Zenon
  <2>13. Running(t, x)
    BY <2>2, <2>4, <2>8, <2>9, <2>10, <2>12 DEF Running, Live
  <2> QED
    BY <2>4, <2>6, <2>13 DEF Goes, Aside, x
<1> QED
  BY <1>1, <1>2 DEF Goes, Running, MessagesState

\* It goes on from s to t.
Onward(v, s, t) == Goes(v, t) /\ t.started = TRUE /\ Aside(s, t)

Opened(v, s, kind, t) ==
  Onward(v, s, t) /\ t.open.kind = kind /\ t.text = 0 /\ t.blocks = s.blocks

Grown(v, s, t) ==
  Onward(v, s, t) /\ t.open = s.open /\ t.text = s.text + 1 /\ t.blocks = s.blocks

\* A block of text or thinking opens.
LEMMA OpensBlock ==
  ASSUME NEW v, NEW s, Goes(v, s), s.open.kind = "none", s.started = TRUE,
         NEW kind \in {"text", "thinking"}, NEW t,
         t = [Messages!BlockStart(s, kind, "none") EXCEPT !.open = [kind |-> kind, index |-> s.next]]
  PROVE  Opened(v, s, kind, t)
<1> DEFINE c == [s EXCEPT !.next = @ + 1]
           e == BlockStartEvent(s.next, kind, "none")
           u == Messages!Emit(c, e)
           o == [kind |-> kind, index |-> s.next]
           w == Heard(v, s)
<1>1. t = [u EXCEPT !.open = o]
  BY DEF Messages!BlockStart, BlockStartEvent
<1>2. MessagesState(s) /\ Running(s, w) /\ IsList(s.out) /\ Live(w)
  BY GoesTyped DEF Goes
<1>3. /\ DOMAIN c = MessagesFields /\ c.out = s.out /\ c.started = s.started
      /\ c.next = s.next + 1 /\ c.open = s.open /\ c.text = s.text
      /\ c.blocks = s.blocks /\ c.tools = s.tools /\ c.finish = s.finish
      /\ c.refused = s.refused /\ c.done = s.done /\ c.error = s.error
  BY <1>2 DEF MessagesState, MessagesFields
<1> HIDE DEF c
<1>4. /\ DOMAIN u = MessagesFields /\ u.started = s.started
      /\ u.next = s.next + 1 /\ u.text = s.text
      /\ u.blocks = s.blocks /\ u.tools = s.tools /\ u.finish = s.finish
      /\ u.refused = s.refused /\ u.done = s.done /\ u.error = s.error
  BY <1>3, Emits
<1>5. Heard(v, c) = w
  BY <1>3, Zenon DEF Heard
<1> HIDE DEF w
<1>6. Heard(v, u) = ReadMessages(w, e) /\ IsList(u.out)
  BY <1>2, <1>3, <1>5, EmitsHeard
<1> HIDE DEF u, o
<1>7. /\ DOMAIN t = MessagesFields /\ t.started = s.started /\ t.out = u.out
      /\ t.next = s.next + 1 /\ t.open = o /\ t.text = s.text
      /\ t.blocks = s.blocks /\ t.tools = s.tools /\ t.finish = s.finish
      /\ t.refused = s.refused /\ t.done = s.done /\ t.error = s.error
  BY <1>1, <1>4 DEF MessagesFields
<1> DEFINE x == Heard(v, t)
<1>8. x = ReadMessages(w, e) /\ IsList(t.out)
  BY <1>6, <1>7, Zenon DEF Heard
<1>9. w.started = TRUE /\ Len(w.blocks) = s.next /\ Len(s.blocks) = s.next
  BY <1>2 DEF Running
<1>10. /\ Live(x) /\ x.started = TRUE
       /\ x.blocks = Append(w.blocks, OpenBlock(kind, "none"))
  <2>1. kind \in {"text", "thinking", "tool"} /\ "none" \in {"none", "given", "made"}
    OBVIOUS
  <2>2. Reads(w, ReadMessages(w, BlockStartEvent(s.next, kind, "none")),
              Append(w.blocks, OpenBlock(kind, "none")))
    BY <1>2, <1>9, <2>1, ReadsBlockStart, Zenon
  <2> HIDE DEF x
  <2> QED
    BY <1>8, <1>9, <2>2, Zenon DEF Reads
<1> HIDE DEF x, e
<1>11. /\ Len(x.blocks) = s.next + 1 /\ x.blocks[s.next + 1] = OpenBlock(kind, "none")
       /\ \A k \in 1 .. s.next : x.blocks[k] = w.blocks[k]
  <2>1. w.blocks \in Seq(BlockSet) /\ OpenBlock(kind, "none") \in BlockSet
    BY <1>2 DEF Live, IsMessage, OpenBlock, BlockSet
  <2> HIDE DEF BlockSet
  <2> QED
    BY <1>9, <1>10, <2>1
<1>12. o \in [kind : {"none", "text", "thinking"}, index : Nat] /\ o.kind = kind
       /\ o.index = s.next /\ kind # "none" /\ s.next \in Nat /\ s.text = 0
  BY <1>2 DEF o, MessagesState
<1>13. MessagesState(t)
  BY <1>2, <1>7, <1>12 DEF MessagesState
<1>14. ToolsShown(t)
  BY <1>2, <1>7 DEF ToolsShown, Running
<1>15. \A bl, k : ShownOpen(s, bl, k) => ShownOpen(t, bl, k)
  BY <1>7 DEF ShownOpen, Shown, ShowsCall
<1>16. \A k \in 1 .. Len(t.blocks) :
         ShownOpen(t, x.blocks[k], k)
  <2> TAKE k \in 1 .. Len(t.blocks)
  <2>1. k \in 1 .. s.next /\ k \in 1 .. Len(s.blocks)
    BY <1>7, <1>9
  <2>2. ShownOpen(s, w.blocks[k], k)
    BY <1>2, <2>1, Zenon DEF Running
  <2> QED
    BY <1>11, <1>15, <2>1, <2>2, Zenon
<1>18. x.blocks[t.next] = [kind |-> t.open.kind, id |-> "none", n |-> t.text, args |-> <<>>,
                           open |-> TRUE]
  BY <1>7, <1>11, <1>12 DEF OpenBlock
<1>19. /\ t.open.kind # "none" /\ t.next > 0 /\ t.open.index = t.next - 1
       /\ Len(x.blocks) = t.next /\ Len(t.blocks) = t.next - 1
  BY <1>7, <1>9, <1>11, <1>12
<1>20. /\ IsMessage(x) /\ ~t.done /\ ~t.error /\ x.ok = TRUE /\ x.end = "none" /\ x.started = t.started
  BY <1>2, <1>7, <1>10 DEF Running, Live
<1>17. Running(t, x)
  BY <1>13, <1>14, <1>16, <1>18, <1>19, <1>20 DEF Running
<1> QED
  BY <1>7, <1>8, <1>12, <1>17 DEF Opened, Grown, Onward, Goes, Aside, x

\* The open block grows by a fragment.
LEMMA GrowsText ==
  ASSUME NEW v, NEW s, Goes(v, s), s.started = TRUE,
         NEW kind \in {"text", "thinking"}, s.open.kind = kind, NEW t,
         t = Messages!Emit([s EXCEPT !.text = @ + 1], Messages!Delta(s.open.index, kind, <<>>))
  PROVE  Grown(v, s, t)
<1> DEFINE c == [s EXCEPT !.text = @ + 1]
           e == Messages!Delta(s.open.index, kind, <<>>)
           w == Heard(v, s)
<1>2. MessagesState(s) /\ Running(s, w) /\ IsList(s.out) /\ Live(w)
  BY GoesTyped DEF Goes
<1>3. /\ DOMAIN c = MessagesFields /\ c.out = s.out /\ c.started = s.started
      /\ c.next = s.next /\ c.open = s.open /\ c.text = s.text + 1
      /\ c.blocks = s.blocks /\ c.tools = s.tools /\ c.finish = s.finish
      /\ c.refused = s.refused /\ c.done = s.done /\ c.error = s.error
  BY <1>2 DEF MessagesState, MessagesFields
<1> HIDE DEF c
<1>4. /\ DOMAIN t = MessagesFields /\ t.started = s.started
      /\ t.next = s.next /\ t.text = s.text + 1 /\ t.open = s.open
      /\ t.blocks = s.blocks /\ t.tools = s.tools /\ t.finish = s.finish
      /\ t.refused = s.refused /\ t.done = s.done /\ t.error = s.error
  <2>1. t = Messages!Emit(c, e)
    BY DEF c
  <2> QED
    BY <1>3, <2>1, Emits
<1>5. Heard(v, c) = w
  BY <1>3, Zenon DEF Heard
<1> HIDE DEF w
<1>6. Heard(v, t) = ReadMessages(w, e) /\ IsList(t.out)
  <2>1. t = Messages!Emit(c, e)
    BY DEF c
  <2> QED
    BY <1>2, <1>3, <1>5, <2>1, EmitsHeard
<1> DEFINE x == Heard(v, t)
           i == s.open.index
           b == [kind |-> kind, id |-> "none", n |-> s.text, args |-> <<>>, open |-> TRUE]
<1>7. /\ s.next > 0 /\ i = s.next - 1 /\ w.blocks[s.next] = b /\ i \in Nat
      /\ Len(w.blocks) = s.next /\ Len(s.blocks) = s.next - 1 /\ s.text \in Nat
      /\ s.next \in Nat /\ kind # "none"
  BY <1>2 DEF Running, MessagesState
<1>8. i + 1 \in 1 .. Len(w.blocks) /\ w.blocks[i + 1].open = TRUE /\ w.blocks[i + 1].kind = kind
  BY <1>7
<1>9. /\ Live(x) /\ x.started = w.started
      /\ x.blocks = [w.blocks EXCEPT ![i + 1].n = @ + 1]
  <2> HIDE DEF i, b, x
  <2>1. Reads(w, ReadMessages(w, Messages!Delta(i, kind, <<>>)),
              [w.blocks EXCEPT ![i + 1].n = @ + 1])
    BY <1>2, <1>7, <1>8, ReadsText, Zenon
  <2>2. x = ReadMessages(w, Messages!Delta(i, kind, <<>>))
    BY <1>6, Zenon DEF x, i
  <2> QED
    BY <2>1, <2>2, Zenon DEF Reads
<1> HIDE DEF x, e, i
<1>10. /\ Len(x.blocks) = s.next /\ x.blocks[s.next] = [b EXCEPT !.n = @ + 1]
       /\ \A k \in 1 .. Len(s.blocks) : x.blocks[k] = w.blocks[k]
  <2>1. w.blocks \in Seq(BlockSet) /\ i + 1 = s.next /\ s.next \in DOMAIN w.blocks
    BY <1>2, <1>7 DEF Live, IsMessage, i
  <2>2. x.blocks = [w.blocks EXCEPT ![s.next].n = @ + 1]
    BY <1>9, <2>1, Zenon
  <2> HIDE DEF b
  <2> QED
    BY <1>7, <2>1, <2>2
<1>11. x.blocks[s.next] = [kind |-> kind, id |-> "none", n |-> s.text + 1, args |-> <<>>,
                           open |-> TRUE]
  BY <1>10
<1> HIDE DEF b
<1>13. MessagesState(t)
  BY <1>2, <1>4, <1>7 DEF MessagesState
<1>14. ToolsShown(t)
  BY <1>2, <1>4 DEF ToolsShown, Running
<1>15. \A bl, k : ShownOpen(s, bl, k) => ShownOpen(t, bl, k)
  <2>1. t.tools = s.tools /\ t.blocks = s.blocks
    BY <1>4
  <2>2. \A bl, k, m : ShowsCall(s, bl, k, m) => ShowsCall(t, bl, k, m)
    BY <2>1, Zenon DEF ShowsCall
  <2>3. \A bl, k : Shown(s, bl, k) => Shown(t, bl, k)
    BY <2>1, <2>2 DEF Shown
  <2> QED
    BY <2>3, Zenon DEF ShownOpen
<1>16. \A k \in 1 .. Len(t.blocks) :
         ShownOpen(t, x.blocks[k], k)
  <2> TAKE k \in 1 .. Len(t.blocks)
  <2>1. k \in 1 .. Len(s.blocks)
    BY <1>4
  <2>2. ShownOpen(s, w.blocks[k], k)
    BY <1>2, <2>1, Zenon DEF Running
  <2> QED
    BY <1>10, <1>15, <2>1, <2>2, Zenon
<1>17. Running(t, x)
  <2>1. /\ MessagesState(t) /\ IsMessage(x) /\ ~t.done /\ ~t.error
        /\ x.ok = TRUE /\ x.end = "none" /\ x.started = t.started
    BY <1>2, <1>4, <1>9, <1>13 DEF Running, Live
  <2>2. Len(x.blocks) = t.next /\ Len(t.blocks) = IF t.open.kind = "none" THEN t.next ELSE t.next - 1
    BY <1>2, <1>4, <1>7, <1>10
  <2>3. t.open.kind # "none" =>
          /\ t.next > 0 /\ t.open.index = t.next - 1
          /\ x.blocks[t.next] = [kind |-> t.open.kind, id |-> "none", n |-> t.text,
                                 args |-> <<>>, open |-> TRUE]
    BY <1>2, <1>4, <1>7, <1>11 DEF i
  <2> QED
    BY <1>14, <1>16, <2>1, <2>2, <2>3, Zenon DEF Running
<1> QED
  BY <1>4, <1>6, <1>17 DEF Opened, Grown, Onward, Goes, Aside, x

\* One fragment more of a kind, none of the other.
TextAdded(v, s, kind, t) ==
  /\ Onward(v, s, t)
  /\ \A k \in {"text", "thinking"} : Held(s, k) \in Nat /\ Held(t, k) \in Nat
  /\ Held(t, "text") = Held(s, "text") + IF kind = "text" THEN 1 ELSE 0
  /\ Held(t, "thinking") = Held(s, "thinking") + IF kind = "thinking" THEN 1 ELSE 0

LEMMA TextFragmentRuns ==
  ASSUME NEW v, NEW s, Goes(v, s), s.started = TRUE,
         NEW kind \in {"text", "thinking"}, NEW t, t = Messages!TextFragment(s, kind)
  PROVE  TextAdded(v, s, kind, t)
<1> DEFINE c == Messages!CloseOpen(s)
           o == [Messages!BlockStart(c, kind, "none") EXCEPT !.open = [kind |-> kind, index |-> c.next]]
           u == IF s.open.kind = kind THEN s ELSE o
<1>1. t = Messages!Emit([u EXCEPT !.text = @ + 1], Messages!Delta(u.open.index, kind, <<>>))
  BY DEF Messages!TextFragment
<1>2. /\ Goes(v, c) /\ c.open.kind = "none" /\ c.started = TRUE /\ Aside(s, c)
  BY CloseOpenRuns, Zenon DEF Goes, Aside
<1>3. \A k \in {"text", "thinking"} : Held(c, k) = Held(s, k)
  BY CloseOpenHolds, GoesTyped, Zenon
<1> HIDE DEF c
<1>4. Opened(v, c, kind, o)
  BY <1>2, OpensBlock, Zenon
<1> HIDE DEF o
<1>5. \A k \in {"text", "thinking"} : Held(o, k) = Held(s, k)
  <2> TAKE k \in {"text", "thinking"}
  <2>1. c.text = 0 /\ Parts!Through(NoParts, c.blocks)[k] \in Nat
    BY <1>2, GoesTyped, HeldTyped DEF MessagesState
  <2>2. Held(c, k) = Parts!Through(NoParts, c.blocks)[k]
    BY <1>2, <2>1 DEF Held
  <2>3. Held(o, k) = Parts!Through(NoParts, c.blocks)[k]
    BY <1>4, <2>1 DEF Held, Opened
  <2> QED
    BY <1>3, <2>2, <2>3
<1>6. /\ Goes(v, u) /\ u.started = TRUE /\ Aside(s, u) /\ u.open.kind = kind
      /\ \A k \in {"text", "thinking"} : Held(u, k) = Held(s, k)
  BY <1>2, <1>4, <1>5, Zenon DEF Aside, Opened, Onward
<1> HIDE DEF u
<1>7. Grown(v, u, t)
  BY <1>1, <1>6, GrowsText, Zenon
<1>8. \A k \in {"text", "thinking"} : Held(t, k) = Held(u, k) + IF k = kind THEN 1 ELSE 0
  <2> TAKE k \in {"text", "thinking"}
  <2>1. u.text \in Nat /\ Parts!Through(NoParts, u.blocks)[k] \in Nat
    BY <1>6, GoesTyped, HeldTyped DEF MessagesState
  <2> QED
    BY <1>6, <1>7, <2>1 DEF Held, Grown
<1>9. \A k \in {"text", "thinking"} : Held(s, k) \in Nat /\ Held(t, k) \in Nat
  BY <1>7, GoesTyped, HeldTyped, Zenon DEF Grown, Onward
<1> QED
  BY <1>6, <1>7, <1>8, <1>9 DEF TextAdded, Onward, Aside, Grown

(***************************************************************************)
(* Messages: calls                                                         *)
(***************************************************************************)

\* What the fragment of a call does not change.
SameText(s, t) ==
  /\ t.started = s.started /\ t.open = s.open /\ t.text = s.text /\ t.blocks = s.blocks
  /\ t.finish = s.finish /\ t.refused = s.refused

ToolPut(v, s, i, call, t) ==
  Goes(v, t) /\ SameText(s, t) /\ t.tools = Put(s.tools, i, call)

LEMMA SameTextHolds ==
  ASSUME NEW s, NEW t, SameText(s, t), NEW kind
  PROVE  Held(t, kind) = Held(s, kind)
BY Zenon DEF SameText, Held

LEMMA ToolBlockShows ==
  ASSUME NEW s, NEW b, NEW k, ShownOpen(s, b, k), NEW i,
         s.blocks[k] = [kind |-> "tool", n |-> i]
  PROVE  b.kind = "tool" /\ b.open = TRUE /\ ShowsCall(s, b, k, i)
<1>1. s.blocks[k].kind = "tool" /\ s.blocks[k].n = i
  OBVIOUS
<1>2. b.kind = "tool"
  BY <1>1 DEF ShownOpen, Shown
<1>3. b.open = TRUE /\ ShowsCall(s, b, k, s.blocks[k].n)
  BY <1>2 DEF ShownOpen, Shown
<1> QED
  BY <1>1, <1>2, <1>3, Zenon

LEMMA ShowsToolBlock ==
  ASSUME NEW s, NEW b, NEW k, NEW i, s.blocks[k] = [kind |-> "tool", n |-> i],
         b.kind = "tool", b.open = TRUE, ShowsCall(s, b, k, i)
  PROVE  ShownOpen(s, b, k)
<1>1. s.blocks[k].kind = "tool" /\ s.blocks[k].n = i
  OBVIOUS
<1>2. ShowsCall(s, b, k, s.blocks[k].n)
  BY <1>1, Zenon
<1> QED
  BY <1>1, <1>2, Zenon DEF ShownOpen, Shown

\* A block goes on to show what it showed.
LEMMA ShownKept ==
  ASSUME NEW s, NEW b, NEW k, ShownOpen(s, b, k), NEW t, t.blocks[k] = s.blocks[k],
         s.blocks[k].kind = "tool" =>
           /\ s.blocks[k].n \in DOMAIN t.tools
           /\ t.tools[s.blocks[k].n] = s.tools[s.blocks[k].n]
  PROVE  ShownOpen(t, b, k)
BY DEF ShownOpen, Shown, ShowsCall

\* A call that is not open, or no other than it was.
LEMMA PutsTool ==
  ASSUME NEW v, NEW s, Goes(v, s), NEW i \in 0 .. Size(s.tools), NEW call \in CallSet,
         call.open = Call(s.tools, i).open,
         call.open => /\ call.id = s.tools[i].id /\ call.args = s.tools[i].args
                      /\ call.index = s.tools[i].index,
         NEW t, t = [s EXCEPT !.tools = Put(@, i, call)]
  PROVE  ToolPut(v, s, i, call, t)
<1> DEFINE p == Put(s.tools, i, call)
           w == Heard(v, s)
<1>1. MessagesState(s) /\ Running(s, w) /\ IsList(s.out) /\ IsCalls(s.tools)
  BY GoesTyped DEF Goes, MessagesState
<1>2. IsCalls(p)
  BY <1>1, PutCalls, Zenon
<1>3. /\ DOMAIN p = DOMAIN s.tools \cup {i} /\ p[i] = call
      /\ \A j \in DOMAIN s.tools : j # i => p[j] = s.tools[j]
  BY DEF Put
<1> HIDE DEF p
<1>4. /\ DOMAIN t = MessagesFields /\ t.started = s.started /\ t.out = s.out
      /\ t.next = s.next /\ t.text = s.text /\ t.open = s.open
      /\ t.blocks = s.blocks /\ t.tools = p /\ t.finish = s.finish
      /\ t.refused = s.refused /\ t.done = s.done /\ t.error = s.error
  BY <1>1 DEF MessagesState, MessagesFields, p
<1>5. Heard(v, t) = w
  BY <1>4, Zenon DEF Heard
<1> HIDE DEF w
<1>6. i \in DOMAIN s.tools => Call(s.tools, i) = s.tools[i]
  BY DEF Call
<1>7. call.open => i \in DOMAIN s.tools
  BY DEF Call, NoCall
<1>8. MessagesState(t)
  BY <1>1, <1>2, <1>4 DEF MessagesState
<1>9. ToolsShown(t)
  <2> SUFFICES ASSUME NEW j \in DOMAIN t.tools, t.tools[j].open
               PROVE  /\ t.tools[j].id # "none" /\ t.tools[j].index + 1 \in 1 .. Len(t.blocks)
                      /\ t.blocks[t.tools[j].index + 1] = [kind |-> "tool", n |-> j]
    BY DEF ToolsShown
  <2>1. /\ j \in DOMAIN s.tools /\ s.tools[j].open /\ t.tools[j].id = s.tools[j].id
        /\ t.tools[j].index = s.tools[j].index
    BY <1>3, <1>4, <1>6, <1>7
  <2>2. /\ s.tools[j].id # "none" /\ s.tools[j].index + 1 \in 1 .. Len(s.blocks)
        /\ s.blocks[s.tools[j].index + 1] = [kind |-> "tool", n |-> j]
    BY <1>1, <2>1 DEF Running, ToolsShown
  <2> QED
    BY <1>4, <2>1, <2>2
<1>10. \A b, k : ShownOpen(s, b, k) => ShownOpen(t, b, k)
  <2> TAKE b, k
  <2> HAVE ShownOpen(s, b, k)
  <2>1. CASE b.kind = "tool"
    <3> DEFINE j == s.blocks[k].n
    <3>1. /\ b.kind = s.blocks[k].kind /\ j \in DOMAIN s.tools /\ s.tools[j].open
          /\ s.tools[j].index = k - 1
          /\ b.id = s.tools[j].id /\ b.args = s.tools[j].args /\ b.n = 0
      BY <2>1 DEF ShownOpen, Shown, ShowsCall
    <3>2. /\ j \in DOMAIN t.tools /\ t.tools[j].open /\ t.tools[j].index = s.tools[j].index
          /\ t.tools[j].id = s.tools[j].id /\ t.tools[j].args = s.tools[j].args
      <4> HIDE DEF j
      <4> QED
        BY <3>1, <1>3, <1>4, <1>6
    <3> QED
      BY <2>1, <3>1, <3>2, <1>4 DEF ShownOpen, Shown, ShowsCall
  <2>2. CASE b.kind # "tool"
    BY <2>2, <1>4 DEF ShownOpen, Shown, ShowsCall
  <2> QED
    BY <2>1, <2>2
<1>11. \A k \in 1 .. Len(t.blocks) : ShownOpen(t, w.blocks[k], k)
  <2>1. \A k \in 1 .. Len(s.blocks) : ShownOpen(s, w.blocks[k], k)
    BY <1>1, Zenon DEF Running
  <2> QED
    BY <1>4, <1>10, <2>1, Zenon
<1>12. Running(t, w)
  BY <1>1, <1>4, <1>8, <1>9, <1>11 DEF Running
<1> QED
  BY <1>1, <1>4, <1>5, <1>12, Zenon DEF ToolPut, Goes, SameText, p

\* The arguments of an open call go on.
LEMMA GrowsTool ==
  ASSUME NEW v, NEW s, Goes(v, s), NEW i \in DOMAIN s.tools, s.tools[i].open,
         NEW call \in CallSet, call.open, call.id = s.tools[i].id,
         call.index = s.tools[i].index, NEW a \in Pieces,
         call.args = Append(s.tools[i].args, a), NEW t,
         t = Messages!Emit([s EXCEPT !.tools = Put(@, i, call)],
                           Messages!Delta(call.index, "tool", <<a>>))
  PROVE  ToolPut(v, s, i, call, t)
<1> DEFINE p == Put(s.tools, i, call)
           c == [s EXCEPT !.tools = p]
           m == call.index
           e == Messages!Delta(m, "tool", <<a>>)
           w == Heard(v, s)
<1>1. MessagesState(s) /\ Running(s, w) /\ IsList(s.out) /\ IsCalls(s.tools) /\ Live(w)
  BY GoesTyped DEF Goes, MessagesState
<1>2. IsCalls(p)
  <2>1. i \in 0 .. Size(s.tools)
    BY <1>1, CallsDomain
  <2> QED
    BY <1>1, <2>1, PutCalls, Zenon
<1>3. /\ DOMAIN p = DOMAIN s.tools /\ p[i] = call
      /\ \A j \in DOMAIN s.tools : j # i => p[j] = s.tools[j]
  BY DEF Put
<1> HIDE DEF p
<1>4. /\ DOMAIN c = MessagesFields /\ c.started = s.started /\ c.out = s.out
      /\ c.next = s.next /\ c.text = s.text /\ c.open = s.open
      /\ c.blocks = s.blocks /\ c.tools = p /\ c.finish = s.finish
      /\ c.refused = s.refused /\ c.done = s.done /\ c.error = s.error
  BY <1>1 DEF MessagesState, MessagesFields
<1>5. t = Messages!Emit(c, e)
  BY DEF p
<1> HIDE DEF c
<1>6. /\ DOMAIN t = MessagesFields /\ t.started = s.started
      /\ t.next = s.next /\ t.text = s.text /\ t.open = s.open
      /\ t.blocks = s.blocks /\ t.tools = p /\ t.finish = s.finish
      /\ t.refused = s.refused /\ t.done = s.done /\ t.error = s.error
  BY <1>4, <1>5, Emits
<1>7. Heard(v, c) = w
  BY <1>4, Zenon DEF Heard
<1> HIDE DEF w
<1>8. Heard(v, t) = ReadMessages(w, e) /\ IsList(t.out)
  BY <1>1, <1>4, <1>5, <1>7, EmitsHeard
<1> DEFINE x == Heard(v, t)
<1>9. /\ m \in Nat /\ m + 1 \in 1 .. Len(s.blocks) /\ s.blocks[m + 1] = [kind |-> "tool", n |-> i]
  <2>1. s.tools[i].index + 1 \in 1 .. Len(s.blocks)
        /\ s.blocks[s.tools[i].index + 1] = [kind |-> "tool", n |-> i]
    BY <1>1 DEF Running, ToolsShown
  <2>2. m \in Nat
    BY DEF CallSet
  <2> QED
    BY <2>1, <2>2
<1> HIDE DEF m
<1>10. \A k \in 1 .. Len(s.blocks) : ShownOpen(s, w.blocks[k], k)
  BY <1>1, Zenon DEF Running
<1>11. /\ w.blocks[m + 1].kind = "tool" /\ w.blocks[m + 1].open = TRUE
       /\ w.blocks[m + 1].id = s.tools[i].id /\ w.blocks[m + 1].args = s.tools[i].args
       /\ w.blocks[m + 1].n = 0
  <2>1. ShownOpen(s, w.blocks[m + 1], m + 1)
    BY <1>9, <1>10, Zenon
  <2> QED
    <3>1. w.blocks[m + 1].kind = "tool" /\ w.blocks[m + 1].open = TRUE
          /\ ShowsCall(s, w.blocks[m + 1], m + 1, i)
      BY <1>9, <2>1, ToolBlockShows, Zenon
    <3> QED
      BY <3>1 DEF ShowsCall
<1>12. m + 1 \in 1 .. Len(w.blocks) /\ Len(s.blocks) <= Len(w.blocks) /\ w.blocks \in Seq(BlockSet)
  BY <1>1, <1>9 DEF Running, MessagesState, Live, IsMessage
<1>13. Reads(w, x, [w.blocks EXCEPT ![m + 1].args = @ \o <<a>>])
  <2>1. <<a>> \in Seq(Pieces)
    OBVIOUS
  <2>2. Reads(w, ReadMessages(w, Messages!Delta(m, "tool", <<a>>)),
              [w.blocks EXCEPT ![m + 1].args = @ \o <<a>>])
    BY <1>1, <1>9, <1>11, <1>12, <2>1, ReadsArgs, Zenon
  <2> HIDE DEF x
  <2> QED
    BY <1>8, <2>2, Zenon DEF e, x
<1> HIDE DEF x, e
<1>14. /\ Len(x.blocks) = Len(w.blocks)
       /\ \A k \in 1 .. Len(w.blocks) : k # m + 1 => x.blocks[k] = w.blocks[k]
       /\ x.blocks[m + 1] = [w.blocks[m + 1] EXCEPT !.args = @ \o <<a>>]
  BY <1>12, <1>13 DEF Reads
<1>15. /\ x.blocks[m + 1].kind = "tool" /\ x.blocks[m + 1].open = TRUE
       /\ x.blocks[m + 1].id = call.id /\ x.blocks[m + 1].args = call.args
       /\ x.blocks[m + 1].n = 0
  <2>1. w.blocks[m + 1] \in BlockSet /\ s.tools[i].args \in Seq(Pieces)
    BY <1>1, <1>12, CallsDomain DEF CallSet
  <2>2. s.tools[i].args \o <<a>> = Append(s.tools[i].args, a)
    BY <2>1
  <2> QED
    BY <1>11, <1>14, <2>1, <2>2 DEF BlockSet
<1>16. \A k \in 1 .. Len(t.blocks) : ShownOpen(t, x.blocks[k], k)
  <2> TAKE k \in 1 .. Len(t.blocks)
  <2>1. k \in 1 .. Len(s.blocks) /\ k \in 1 .. Len(w.blocks) /\ ShownOpen(s, w.blocks[k], k)
    BY <1>6, <1>10, <1>12
  <2>2. CASE k = m + 1
    <3>1. (m + 1) - 1 = m
      BY <1>9
    <3> QED
      <4>1. /\ t.blocks[k] = [kind |-> "tool", n |-> i] /\ i \in DOMAIN t.tools
            /\ t.tools[i] = call /\ call.index = k - 1
        BY <2>2, <3>1, <1>3, <1>6, <1>9 DEF m
      <4> QED
        <5>1. ShowsCall(t, x.blocks[k], k, i)
          BY <2>2, <4>1, <1>15 DEF ShowsCall
        <5> QED
          BY <2>2, <4>1, <5>1, <1>15, ShowsToolBlock, Zenon
  <2>3. CASE k # m + 1
    <3>1. x.blocks[k] = w.blocks[k]
      BY <2>1, <2>3, <1>14
    <3>2. w.blocks[k].kind = "tool" => s.blocks[k].n \in DOMAIN s.tools /\ s.blocks[k].n # i
      BY <2>1, <2>3, <1>9 DEF ShownOpen, Shown, ShowsCall, m
    <3> QED
      <4>1. s.blocks[k].kind = "tool" =>
               /\ s.blocks[k].n \in DOMAIN t.tools
               /\ t.tools[s.blocks[k].n] = s.tools[s.blocks[k].n]
        BY <2>1, <3>2, <1>3, <1>6 DEF ShownOpen, Shown, ShowsCall
      <4>2. t.blocks[k] = s.blocks[k]
        BY <1>6
      <4>3. ShownOpen(t, w.blocks[k], k)
        BY <2>1, <4>1, <4>2, ShownKept, Zenon
      <4> QED
        BY <3>1, <4>3, Zenon
  <2> QED
    BY <2>2, <2>3
<1>17. MessagesState(t)
  BY <1>1, <1>2, <1>6 DEF MessagesState
<1>18. ToolsShown(t)
  <2>1. ToolsShown(s)
    BY <1>1 DEF Running
  <2> SUFFICES ASSUME NEW j \in DOMAIN t.tools, t.tools[j].open
               PROVE  /\ t.tools[j].id # "none" /\ t.tools[j].index + 1 \in 1 .. Len(t.blocks)
                      /\ t.blocks[t.tools[j].index + 1] = [kind |-> "tool", n |-> j]
    BY Zenon DEF ToolsShown
  <2>2. /\ j \in DOMAIN s.tools /\ s.tools[j].open /\ t.blocks = s.blocks
        /\ t.tools[j].id = s.tools[j].id /\ t.tools[j].index = s.tools[j].index
    BY <1>3, <1>6
  <2> QED
    BY <2>1, <2>2, Zenon DEF ToolsShown
<1>19. t.open.kind # "none" => x.blocks[t.next] = w.blocks[t.next] /\ t.next \in 1 .. Len(w.blocks)
  <2> SUFFICES ASSUME t.open.kind # "none"
               PROVE  x.blocks[t.next] = w.blocks[t.next] /\ t.next \in 1 .. Len(w.blocks)
    OBVIOUS
  <2>1. /\ s.open.kind # "none" /\ s.next > 0 /\ Len(w.blocks) = s.next /\ s.next \in Nat
        /\ Len(s.blocks) = s.next - 1
    BY <1>1, <1>6 DEF Running, MessagesState
  <2>2. s.next \in 1 .. Len(w.blocks) /\ s.next # m + 1
    BY <2>1, <1>9
  <2> QED
    BY <2>2, <1>6, <1>14
<1>20. Running(t, x)
  <2>1. /\ IsMessage(x) /\ x.ok = TRUE /\ x.end = "none" /\ x.started = t.started /\ ~t.done /\ ~t.error
    BY <1>1, <1>6, <1>13 DEF Reads, Live, Running
  <2>2. /\ Len(x.blocks) = t.next
        /\ Len(t.blocks) = IF t.open.kind = "none" THEN t.next ELSE t.next - 1
    BY <1>1, <1>6, <1>14 DEF Running
  <2>3. t.open.kind # "none" =>
          /\ t.next > 0 /\ t.open.index = t.next - 1
          /\ x.blocks[t.next] = [kind |-> t.open.kind, id |-> "none", n |-> t.text,
                                 args |-> <<>>, open |-> TRUE]
    <3>1. s.open.kind # "none" =>
            /\ s.next > 0 /\ s.open.index = s.next - 1
            /\ w.blocks[s.next] = [kind |-> s.open.kind, id |-> "none", n |-> s.text,
                                   args |-> <<>>, open |-> TRUE]
      BY <1>1, Zenon DEF Running
    <3>2. t.open = s.open /\ t.next = s.next /\ t.text = s.text
      BY <1>6
    <3> QED
      BY <1>19, <3>1, <3>2
  <2> QED
    BY <1>16, <1>17, <1>18, <2>1, <2>2, <2>3 DEF Running
<1> QED
  BY <1>6, <1>8, <1>20, Zenon DEF ToolPut, Goes, SameText, x, p

\* The block of a call, as its client has it.
CallBlock(b, id, a) == b.kind = "tool" /\ b.id = id /\ b.n = 0 /\ b.args = a /\ b.open = TRUE

\* The client's block of a call that opens with the arguments a.
ToolRead(v, c, id, a, d) ==
  /\ DOMAIN d = MessagesFields /\ d.started = TRUE /\ d.next = c.next + 1
  /\ d.open = c.open /\ d.text = c.text /\ d.blocks = c.blocks /\ d.tools = c.tools
  /\ d.finish = c.finish /\ d.refused = c.refused /\ d.done = c.done /\ d.error = c.error
  /\ IsList(d.out) /\ Live(Heard(v, d)) /\ Heard(v, d).started = TRUE
  /\ Len(Heard(v, d).blocks) = c.next + 1
  /\ \A k \in 1 .. c.next : Heard(v, d).blocks[k] = Heard(v, c).blocks[k]
  /\ CallBlock(Heard(v, d).blocks[c.next + 1], id, a)

LEMMA ToolBlockRead ==
  ASSUME NEW v, NEW c, Goes(v, c), c.open.kind = "none", c.started = TRUE,
         NEW id \in {"none", "given", "made"}, NEW a \in Seq(Pieces), NEW b, NEW d,
         b = Messages!BlockStart(c, "tool", id),
         d = IF a = <<>> THEN b ELSE Messages!Emit(b, Messages!Delta(c.next, "tool", a))
  PROVE  ToolRead(v, c, id, a, d)
<1> DEFINE n == c.next
           u == [c EXCEPT !.next = @ + 1]
           w == Heard(v, c)
           y == Heard(v, b)
<1>1. MessagesState(c) /\ Running(c, w) /\ IsList(c.out) /\ Live(w)
  BY GoesTyped DEF Goes
<1>2. /\ DOMAIN u = MessagesFields /\ u.out = c.out /\ u.started = TRUE
      /\ u.next = n + 1 /\ u.open = c.open /\ u.text = c.text
      /\ u.blocks = c.blocks /\ u.tools = c.tools /\ u.finish = c.finish
      /\ u.refused = c.refused /\ u.done = c.done /\ u.error = c.error
  BY <1>1 DEF MessagesState, MessagesFields
<1>3. b = Messages!Emit(u, BlockStartEvent(n, "tool", id))
  BY DEF Messages!BlockStart, BlockStartEvent
<1> HIDE DEF u
<1>4. /\ DOMAIN b = MessagesFields /\ b.started = TRUE
      /\ b.next = n + 1 /\ b.open = c.open /\ b.text = c.text
      /\ b.blocks = c.blocks /\ b.tools = c.tools /\ b.finish = c.finish
      /\ b.refused = c.refused /\ b.done = c.done /\ b.error = c.error
  BY <1>2, <1>3, Emits
<1>5. Heard(v, u) = w
  BY <1>2, Zenon DEF Heard
<1> HIDE DEF w
<1>6. y = ReadMessages(w, BlockStartEvent(n, "tool", id)) /\ IsList(b.out)
  BY <1>1, <1>2, <1>3, <1>5, EmitsHeard
<1>7. w.started = TRUE /\ n = Len(w.blocks) /\ n \in Nat /\ w.blocks \in Seq(BlockSet)
  BY <1>1 DEF Running, MessagesState, IsMessage
<1>8. Reads(w, y, Append(w.blocks, OpenBlock("tool", id)))
  <2>1. "tool" \in {"text", "thinking", "tool"}
    OBVIOUS
  <2>2. Reads(w, ReadMessages(w, BlockStartEvent(n, "tool", id)),
              Append(w.blocks, OpenBlock("tool", id)))
    BY <1>1, <1>7, <2>1, ReadsBlockStart, Zenon
  <2> HIDE DEF y
  <2> QED
    BY <1>6, <2>2, Zenon
<1> HIDE DEF y, n
<1>9. OpenBlock("tool", id) \in BlockSet /\ OpenBlock("tool", id).args = <<>>
  BY DEF OpenBlock, BlockSet
<1>10. /\ Len(y.blocks) = n + 1 /\ y.blocks[n + 1] = OpenBlock("tool", id)
       /\ \A k \in 1 .. n : y.blocks[k] = w.blocks[k]
       /\ y.blocks \in Seq(BlockSet) /\ Live(y) /\ y.started = TRUE
  <2> HIDE DEF BlockSet
  <2> QED
    BY <1>7, <1>8, <1>9 DEF Reads
<1>11. CallBlock(OpenBlock("tool", id), id, <<>>)
  BY DEF OpenBlock, CallBlock
<1>12. CASE a = <<>>
  <2>1. d = b
    BY <1>12
  <2>2. Heard(v, d) = y /\ Heard(v, c) = w /\ n = c.next
    BY <2>1 DEF y, w, n
  <2> QED
    BY <1>4, <1>6, <1>10, <1>11, <1>12, <2>1, <2>2 DEF ToolRead
<1>13. CASE a # <<>>
  <2> DEFINE x == Heard(v, d)
             e == Messages!Delta(n, "tool", a)
  <2>1. d = Messages!Emit(b, e)
    BY <1>13 DEF n
  <2>2. /\ DOMAIN d = MessagesFields /\ d.started = TRUE
        /\ d.next = n + 1 /\ d.open = c.open /\ d.text = c.text
        /\ d.blocks = c.blocks /\ d.tools = c.tools /\ d.finish = c.finish
        /\ d.refused = c.refused /\ d.done = c.done /\ d.error = c.error
    BY <1>4, <2>1, Emits
  <2>3. x = ReadMessages(y, e) /\ IsList(d.out)
    BY <1>4, <1>6, <2>1, EmitsHeard DEF y
  <2>4. /\ n + 1 \in 1 .. Len(y.blocks) /\ y.blocks[n + 1].open = TRUE
        /\ y.blocks[n + 1].kind = "tool"
    BY <1>7, <1>10, <1>11 DEF CallBlock
  <2>5. Reads(y, ReadMessages(y, Messages!Delta(n, "tool", a)),
              [y.blocks EXCEPT ![n + 1].args = @ \o a])
    BY <1>7, <1>10, <2>4, ReadsArgs, Zenon
  <2>6. Reads(y, x, [y.blocks EXCEPT ![n + 1].args = @ \o a])
    <3> HIDE DEF x
    <3> QED
      BY <2>3, <2>5, Zenon
  <2> HIDE DEF x, e
  <2>7. /\ Len(x.blocks) = n + 1
        /\ \A k \in 1 .. n : x.blocks[k] = w.blocks[k]
        /\ x.blocks[n + 1] = [OpenBlock("tool", id) EXCEPT !.args = @ \o a]
        /\ Live(x) /\ x.started = TRUE
    <3>1. Live(x) /\ x.started = TRUE
      BY <1>10, <2>6 DEF Reads
    <3>2. x.blocks = [y.blocks EXCEPT ![n + 1].args = @ \o a]
      BY <2>6 DEF Reads
    <3> QED
      BY <1>7, <1>10, <3>1, <3>2
  <2>8. CallBlock(x.blocks[n + 1], id, a)
    <3>1. <<>> \o a = a
      OBVIOUS
    <3> DEFINE o == OpenBlock("tool", id)
    <3>2. o \in BlockSet
      BY <1>9
    <3> HIDE DEF o
    <3>3. CallBlock(o, id, <<>>) /\ x.blocks[n + 1] = [o EXCEPT !.args = @ \o a]
      BY <2>7, <1>11 DEF o
    <3> QED
      BY <3>1, <3>2, <3>3 DEF CallBlock, BlockSet
  <2>9. Heard(v, d) = x /\ Heard(v, c) = w /\ n = c.next
    BY DEF x, w, n
  <2> QED
    BY <2>2, <2>3, <2>7, <2>8, <2>9 DEF ToolRead
<1> QED
  BY <1>12, <1>13

\* A call's block opens, with its id, its name and the arguments so far.
ToolOpened(v, s, i, t) ==
  /\ Goes(v, t) /\ t.started = TRUE /\ t.finish = s.finish /\ t.refused = s.refused
  /\ DOMAIN t.tools = DOMAIN s.tools /\ IsCalls(t.tools)
  /\ t.tools[i].open /\ t.tools[i].args = s.tools[i].args /\ t.tools[i].name = s.tools[i].name
  /\ \A j \in DOMAIN s.tools : j # i => t.tools[j] = s.tools[j]
  /\ t.open.kind = "none"
  /\ \A kind \in {"text", "thinking"} : Held(t, kind) = Held(s, kind)

\* The fields of a call, set one after the other.
LEMMA ToolNoted ==
  ASSUME NEW d, "tools" \in DOMAIN d, "blocks" \in DOMAIN d, NEW i \in DOMAIN d.tools,
         NEW id, NEW n, NEW r,
         NEW t, t = [d EXCEPT !.tools[i].id = id, !.tools[i].open = TRUE, !.tools[i].index = n,
                              !.blocks = Append(@, r)],
         NEW tools, tools = [d.tools EXCEPT ![i].id = id, ![i].open = TRUE, ![i].index = n]
  PROVE  t = [d EXCEPT !.tools = tools, !.blocks = Append(@, r)]
OBVIOUS

LEMMA OpensTool ==
  ASSUME NEW v, NEW s, Goes(v, s), s.started = TRUE, NEW i \in DOMAIN s.tools,
         ~s.tools[i].open, NEW t, t = Messages!OpenTool(s, i)
  PROVE  ToolOpened(v, s, i, t)
<1> DEFINE c == Messages!CloseOpen(s)
           id == IF s.tools[i].id = "none" THEN "made" ELSE s.tools[i].id
           b == Messages!BlockStart(c, "tool", id)
           a == s.tools[i].args
           d == IF a = <<>> THEN b ELSE Messages!Emit(b, Messages!Delta(c.next, "tool", a))
           r == [kind |-> "tool", n |-> i]
<1>1. t = [d EXCEPT !.tools[i].id = id, !.tools[i].open = TRUE,
                    !.tools[i].index = c.next, !.blocks = Append(@, r)]
  BY DEF Messages!OpenTool
<1>2. /\ Goes(v, c) /\ c.open.kind = "none" /\ c.started = TRUE /\ Aside(s, c)
  BY CloseOpenRuns, Zenon DEF Goes, Aside
<1>3. \A k \in {"text", "thinking"} : Held(c, k) = Held(s, k)
  BY CloseOpenHolds, GoesTyped, Zenon
<1> HIDE DEF c
<1>4. c.tools = s.tools /\ IsCalls(c.tools) /\ c.tools[i] \in CallSet /\ i \in DOMAIN c.tools
      /\ DOMAIN c.tools \subseteq Nat
  BY <1>2, GoesTyped, CallsDomain DEF MessagesState, Aside
<1>5. a \in Seq(Pieces) /\ id \in {"none", "given", "made"} /\ id # "none"
      /\ s.tools[i].name \in Nat
  BY <1>4 DEF CallSet
<1> HIDE DEF id, a
<1>6. ToolRead(v, c, id, a, d)
  BY <1>2, <1>5, ToolBlockRead, Zenon
<1> DEFINE x == Heard(v, d)
           w == Heard(v, c)
           n == c.next
<1>7. /\ DOMAIN d = MessagesFields /\ d.started = TRUE /\ d.next = n + 1
      /\ d.open = c.open /\ d.text = c.text /\ d.blocks = c.blocks /\ d.tools = c.tools
      /\ d.finish = c.finish /\ d.refused = c.refused /\ d.done = c.done /\ d.error = c.error
      /\ IsList(d.out) /\ Live(x) /\ x.started = TRUE
      /\ Len(x.blocks) = n + 1
      /\ \A k \in 1 .. n : x.blocks[k] = w.blocks[k]
      /\ CallBlock(x.blocks[n + 1], id, a)
  BY <1>6 DEF ToolRead
<1> HIDE DEF d
<1> DEFINE call == [c.tools[i] EXCEPT !.id = id, !.open = TRUE, !.index = n]
           tools == [c.tools EXCEPT ![i] = call]
<1>8. MessagesState(c) /\ Running(c, w) /\ n \in Nat /\ Len(c.blocks) = n
  BY <1>2, GoesTyped DEF Goes, Running, MessagesState
<1> HIDE DEF n
<1>9. /\ call \in CallSet /\ call.id = id /\ call.open /\ call.index = n
      /\ call.args = a /\ call.name = s.tools[i].name
  <2>1. c.tools[i].args = a /\ c.tools[i].name = s.tools[i].name
    BY <1>4 DEF a
  <2> QED
    BY <1>4, <1>5, <1>8, <2>1 DEF CallSet
<1>10. [d.tools EXCEPT ![i].id = id, ![i].open = TRUE, ![i].index = n] = tools
  BY <1>4, <1>7
<1> HIDE DEF call
<1>11. /\ DOMAIN tools = DOMAIN s.tools /\ IsCalls(tools) /\ tools[i] = call
       /\ \A j \in DOMAIN s.tools : j # i => tools[j] = s.tools[j]
  <2>1. /\ DOMAIN tools = DOMAIN s.tools /\ tools[i] = call
        /\ \A j \in DOMAIN s.tools : j # i => tools[j] = s.tools[j]
    BY <1>4
  <2>2. Size(tools) = Size(c.tools)
    BY <1>4, <2>1 DEF Size
  <2>3. Size(c.tools) \in Nat /\ c.tools \in [0 .. Size(c.tools) - 1 -> CallSet]
    BY <1>4 DEF IsCalls
  <2>4. tools \in [0 .. Size(c.tools) - 1 -> CallSet]
    BY <1>9, <2>3
  <2> HIDE DEF tools
  <2> QED
    BY <2>1, <2>2, <2>3, <2>4 DEF IsCalls
<1>12. t = [d EXCEPT !.tools = tools, !.blocks = Append(@, r)]
  <2>1. "tools" \in DOMAIN d /\ "blocks" \in DOMAIN d /\ i \in DOMAIN d.tools
    BY <1>4, <1>7 DEF MessagesFields
  <2>2. t = [d EXCEPT !.tools[i].id = id, !.tools[i].open = TRUE, !.tools[i].index = n,
                      !.blocks = Append(@, r)]
    BY <1>1, Zenon DEF n
  <2> HIDE DEF tools, r
  <2> QED
    BY <1>10, <2>1, <2>2, ToolNoted, Zenon
<1> HIDE DEF tools
<1>13. /\ DOMAIN t = MessagesFields /\ t.started = TRUE /\ t.next = n + 1
       /\ t.open = c.open /\ t.text = c.text /\ t.blocks = Append(c.blocks, r)
       /\ t.tools = tools /\ t.out = d.out
       /\ t.finish = c.finish /\ t.refused = c.refused /\ t.done = c.done /\ t.error = c.error
  BY <1>7, <1>12 DEF MessagesFields
<1>14. Heard(v, t) = x
  BY <1>13, Zenon DEF Heard
<1> HIDE DEF x, w
<1>15. r \in [kind : {"text", "thinking", "tool"}, n : Nat] /\ i \in Nat
  BY <1>4
<1>16. /\ Len(t.blocks) = n + 1 /\ t.blocks[n + 1] = r
       /\ \A k \in 1 .. n : t.blocks[k] = c.blocks[k]
       /\ t.blocks \in Seq([kind : {"text", "thinking", "tool"}, n : Nat])
  <2> DEFINE S == [kind : {"text", "thinking", "tool"}, n : Nat]
  <2>1. c.blocks \in Seq(S) /\ r \in S
    BY <1>8, <1>15 DEF MessagesState
  <2> HIDE DEF S, r
  <2>2. /\ Len(t.blocks) = n + 1 /\ t.blocks[n + 1] = r
        /\ \A k \in 1 .. n : t.blocks[k] = c.blocks[k]
        /\ t.blocks \in Seq(S)
    BY <1>8, <1>13, <2>1
  <2> QED
    BY <2>2 DEF S
<1>17. MessagesState(t)
  <2>1. IsCalls(t.tools)
    BY <1>11, <1>13, Zenon
  <2>2. t.blocks \in Seq([kind : {"text", "thinking", "tool"}, n : Nat]) /\ t.next \in Nat
    BY <1>8, <1>13, <1>16
  <2>3. MessagesState(c)
    BY <1>8
  <2> QED
    BY <2>1, <2>2, <2>3, <1>13 DEF MessagesState
<1>18. \A j \in DOMAIN c.tools : c.tools[j].open => j # i
  BY <1>4
<1>19. ToolsShown(t)
  <2> SUFFICES ASSUME NEW j \in DOMAIN t.tools, t.tools[j].open
               PROVE  /\ t.tools[j].id # "none" /\ t.tools[j].index + 1 \in 1 .. Len(t.blocks)
                      /\ t.blocks[t.tools[j].index + 1] = [kind |-> "tool", n |-> j]
    BY DEF ToolsShown
  <2>1. CASE j = i
    BY <2>1, <1>5, <1>8, <1>9, <1>11, <1>13, <1>16
  <2>2. CASE j # i
    <3>1. t.tools[j] = c.tools[j] /\ j \in DOMAIN c.tools
      BY <2>2, <1>4, <1>11, <1>13
    <3>2. /\ c.tools[j].id # "none" /\ c.tools[j].index + 1 \in 1 .. Len(c.blocks)
          /\ c.blocks[c.tools[j].index + 1] = [kind |-> "tool", n |-> j]
      BY <1>8, <3>1 DEF Running, ToolsShown
    <3> QED
      BY <3>1, <3>2, <1>8, <1>16
  <2> QED
    BY <2>1, <2>2
<1>20. \A k \in 1 .. Len(t.blocks) : ShownOpen(t, x.blocks[k], k)
  <2> TAKE k \in 1 .. Len(t.blocks)
  <2>1. CASE k = n + 1
    <3>1. /\ t.blocks[k] = [kind |-> "tool", n |-> i] /\ x.blocks[k].kind = "tool"
          /\ x.blocks[k].open = TRUE
      BY <2>1, <1>7, <1>16 DEF CallBlock
    <3>2. (n + 1) - 1 = n
      BY <1>8
    <3>3. ShowsCall(t, x.blocks[k], k, i)
      BY <2>1, <3>2, <1>4, <1>7, <1>9, <1>11, <1>13 DEF ShowsCall, CallBlock
    <3> QED
      BY <3>1, <3>3, ShowsToolBlock, Zenon
  <2>2. CASE k \in 1 .. n
    <3>1. ShownOpen(c, w.blocks[k], k) /\ t.blocks[k] = c.blocks[k] /\ x.blocks[k] = w.blocks[k]
      BY <2>2, <1>7, <1>8, <1>16 DEF Running
    <3>2. c.blocks[k].kind = "tool" => c.blocks[k].n \in DOMAIN c.tools /\ c.blocks[k].n # i
      <4>1. c.blocks[k].kind = "tool" => ShowsCall(c, w.blocks[k], k, c.blocks[k].n)
        BY <3>1 DEF ShownOpen, Shown
      <4> QED
        BY <4>1, <1>18 DEF ShowsCall
    <3>3. c.blocks[k].kind = "tool" =>
            /\ c.blocks[k].n \in DOMAIN t.tools
            /\ t.tools[c.blocks[k].n] = c.tools[c.blocks[k].n]
      BY <3>2, <1>4, <1>11, <1>13
    <3>4. ShownOpen(t, w.blocks[k], k)
      BY <3>1, <3>3, ShownKept, Zenon
    <3> QED
      BY <3>1, <3>4, Zenon
  <2> QED
    BY <2>1, <2>2, <1>8, <1>16
<1>21. Running(t, x)
  <2>1. /\ IsMessage(x) /\ x.ok = TRUE /\ x.end = "none" /\ x.started = t.started /\ ~t.done /\ ~t.error
    BY <1>7, <1>8, <1>13 DEF Live, Running
  <2>2. t.open.kind = "none" /\ Len(x.blocks) = t.next /\ Len(t.blocks) = t.next
    BY <1>2, <1>7, <1>13, <1>16
  <2> QED
    BY <1>17, <1>19, <1>20, <2>1, <2>2 DEF Running
<1>22. \A kind \in {"text", "thinking"} : Held(t, kind) = Held(s, kind)
  <2> TAKE kind \in {"text", "thinking"}
  <2>1. r.n \in Nat /\ r.kind # kind
    BY <1>15
  <2> HIDE DEF r
  <2>2. /\ Parts!Through(NoParts, Append(c.blocks, r))[kind] =
             Parts!Through(NoParts, c.blocks)[kind] + IF r.kind = kind THEN r.n ELSE 0
        /\ Parts!Through(NoParts, c.blocks)[kind] \in Nat
    BY <1>8, <2>1, HeldAppend, HeldTyped
  <2>3. Parts!Through(NoParts, t.blocks)[kind] = Parts!Through(NoParts, c.blocks)[kind]
    BY <2>1, <2>2, <1>13
  <2>4. Held(t, kind) = Held(c, kind)
    BY <2>3, <1>13 DEF Held
  <2> QED
    BY <2>4, <1>3
<1>23. Goes(v, t)
  BY <1>7, <1>13, <1>14, <1>21, Zenon DEF Goes
<1> QED
  BY <1>2, <1>9, <1>11, <1>13, <1>22, <1>23 DEF ToolOpened, Aside, a

LEMMA MessagesOperators ==
  /\ \A calls, i : Messages!Call(calls, i) = Call(calls, i)
  /\ \A calls, i, call : Messages!Put(calls, i, call) = Put(calls, i, call)
  /\ \A call, f : Messages!Grow(call, f) = Grow(call, f)
  /\ \A calls : Messages!Indices(calls) = Indices(calls)
<1>1. \A calls, i : Messages!Call(calls, i) = Call(calls, i)
  BY Zenon DEF Messages!Call, Messages!NoCall, Call, NoCall
<1>2. \A calls, i, call : Messages!Put(calls, i, call) = Put(calls, i, call)
  BY Zenon DEF Messages!Put, Put
<1>3. \A call, f : Messages!Grow(call, f) = Grow(call, f)
  BY Zenon DEF Messages!Grow, Grow, Messages!AddArgs, AddArgs, Messages!Num, Num
<1>4. \A calls : Messages!Indices(calls) = Indices(calls)
  BY Zenon DEF Messages!Indices, Indices, Messages!Cardinality, Cardinality, Messages!IsFiniteSet, IsFiniteSet
<1> QED
  BY <1>1, <1>2, <1>3, <1>4

\* A fragment reaches its call, and its block if that is open.
Fragmented(v, s, f, t) ==
  /\ Goes(v, t) /\ t.started = TRUE /\ t.finish = s.finish /\ t.refused = s.refused
  /\ DOMAIN t.tools = DOMAIN s.tools \cup {f.index}
  /\ t.tools[f.index].args = AddArgs(Call(s.tools, f.index).args, f.args)
  /\ \A j \in DOMAIN s.tools : j # f.index => t.tools[j].args = s.tools[j].args
  /\ \A kind \in {"text", "thinking"} : Held(t, kind) = Held(s, kind)

LEMMA ToolFragmentRuns ==
  ASSUME NEW v, NEW s, Goes(v, s), s.started = TRUE, NEW f, IsFragment(f),
         f.index <= Size(s.tools), NEW t, t = Messages!ToolFragment(s, f)
  PROVE  Fragmented(v, s, f, t)
<1> DEFINE i == f.index
           call == Call(s.tools, i)
           g == IF call.open THEN [f EXCEPT !.name = FALSE] ELSE f
           grown == Grow(call, g)
           u == [s EXCEPT !.tools = Put(@, i, grown)]
<1>1. t = CASE call.open /\ f.args # "" ->
                 Messages!Emit(u, Messages!Delta(call.index, "tool", <<f.args>>))
            [] ~call.open /\ grown.name > 0 /\ grown.args # <<>> -> Messages!OpenTool(u, i)
            [] OTHER -> u
  BY MessagesOperators, Zenon DEF Messages!ToolFragment
<1>2. MessagesState(s) /\ Running(s, Heard(v, s)) /\ IsCalls(s.tools) /\ call \in CallSet
  BY GoesTyped, CallTyped DEF Goes, MessagesState
<1>3. i \in 0 .. Size(s.tools)
  <2>1. Size(s.tools) \in Nat /\ i \in Nat
    BY <1>2, CallsDomain, Zenon DEF IsFragment
  <2> QED
    BY <2>1
<1>4. i \in DOMAIN s.tools => call = s.tools[i]
  BY DEF Call
<1>5. call.open => i \in DOMAIN s.tools /\ call.id # "none" /\ call.open = s.tools[i].open
  <2>1. call.open => i \in DOMAIN s.tools
    BY DEF Call, NoCall
  <2> HIDE DEF call, i
  <2> QED
    BY <2>1, <1>2, <1>4 DEF Running, ToolsShown
<1> HIDE DEF call
<1>6. IsFragment(g) /\ g.args = f.args
  BY DEF IsFragment
<1> HIDE DEF g
<1>7. /\ grown \in CallSet /\ grown.args = AddArgs(call.args, f.args)
      /\ grown.open = call.open /\ grown.index = call.index
      /\ grown.id = IF call.id = "none" /\ g.id THEN "given" ELSE call.id
  BY <1>2, <1>6, GrowTyped
<1> HIDE DEF grown
<1>8. DOMAIN s = MessagesFields
  BY GoesTyped
<1>9. /\ DOMAIN Put(s.tools, i, grown) = DOMAIN s.tools \cup {i}
      /\ Put(s.tools, i, grown)[i] = grown
      /\ \A j \in DOMAIN s.tools : j # i => Put(s.tools, i, grown)[j] = s.tools[j]
  BY DEF Put
<1> HIDE DEF i
<1> DEFINE Done(x) == ToolPut(v, s, i, grown, x)
<1>10. ASSUME NEW x, Done(x) PROVE Fragmented(v, s, f, x)
  <2>1. \A kind \in {"text", "thinking"} : Held(x, kind) = Held(s, kind)
    BY <1>10, SameTextHolds, Zenon DEF ToolPut
  <2>2. call = Call(s.tools, f.index) /\ f.index = i
    BY DEF call, i
  <2> QED
    BY <1>7, <1>9, <1>10, <2>1, <2>2 DEF Fragmented, ToolPut, SameText
<1>11. CASE call.open /\ f.args # ""
  <2>1. t = Messages!Emit(u, Messages!Delta(grown.index, "tool", <<f.args>>))
    BY <1>1, <1>7, <1>11
  <2>2. f.args \in Pieces /\ grown.args = Append(s.tools[i].args, f.args)
        /\ grown.id = s.tools[i].id /\ grown.index = s.tools[i].index /\ grown.open
        /\ i \in DOMAIN s.tools /\ s.tools[i].open
    BY <1>4, <1>5, <1>7, <1>11 DEF AddArgs, IsFragment
  <2>3. Done(t)
    BY <1>7, <2>1, <2>2, GrowsTool, Zenon
  <2> QED
    BY <1>10, <2>3, Zenon
<1>12. CASE ~(call.open /\ f.args # "")
  <2>1. grown.open => /\ grown.id = s.tools[i].id /\ grown.args = s.tools[i].args
                      /\ grown.index = s.tools[i].index
    BY <1>4, <1>5, <1>7, <1>12 DEF AddArgs
  <2>2. grown.open = Call(s.tools, i).open
    BY <1>7 DEF call
  <2>3. Done(u)
    BY <1>3, <1>7, <2>1, <2>2, PutsTool, Zenon
  <2> HIDE DEF u
  <2>4. CASE ~call.open /\ grown.name > 0 /\ grown.args # <<>>
    <3>1. t = Messages!OpenTool(u, i)
      BY <1>1, <2>4
    <3>2. u.started = TRUE /\ i \in DOMAIN u.tools /\ u.tools[i] = grown /\ ~u.tools[i].open
      BY <1>7, <1>9, <2>3, <2>4 DEF ToolPut, SameText
    <3>3. ToolOpened(v, u, i, t)
      BY <2>3, <3>1, <3>2, OpensTool, Zenon DEF ToolPut
    <3>4. Fragmented(v, s, f, u)
      BY <1>10, <2>3, Zenon
    <3> QED
      BY <3>2, <3>3, <3>4, <1>9, <2>3 DEF Fragmented, ToolOpened, ToolPut, i
  <2>5. CASE ~(~call.open /\ grown.name > 0 /\ grown.args # <<>>)
    <3>1. t = u
      BY <1>1, <1>12, <2>5
    <3> QED
      BY <1>10, <2>3, <3>1, Zenon
  <2> QED
    BY <2>4, <2>5
<1> QED
  BY <1>11, <1>12

(***************************************************************************)
(* Messages: a line                                                        *)
(***************************************************************************)

Gathering == INSTANCE FoldProofs WITH Op <- Messages!ToolFragment

\* The stream goes on with these calls, and nothing else has changed.
Gathered(v, s, t, calls) ==
  /\ Goes(v, t) /\ t.started = TRUE /\ t.finish = s.finish /\ t.refused = s.refused
  /\ Alike(t.tools, calls)
  /\ \A kind \in {"text", "thinking"} : Held(t, kind) = Held(s, kind)

LEMMA FragmentGathers ==
  ASSUME NEW v, NEW s, Goes(v, s), s.started = TRUE, NEW f, IsFragment(f),
         NEW calls, IsCalls(calls), Alike(s.tools, calls), f.index <= Size(calls)
  PROVE  Gathered(v, s, Messages!ToolFragment(s, f), GrowCall(calls, f))
<1> DEFINE t == Messages!ToolFragment(s, f)
           d == GrowCall(calls, f)
<1>1. IsCalls(s.tools) /\ DOMAIN s.tools = DOMAIN calls /\ Size(s.tools) = Size(calls)
  BY GoesTyped, Zenon DEF MessagesState, Alike, Size
<1>2. Fragmented(v, s, f, t)
  <2>1. f.index <= Size(s.tools)
    BY <1>1
  <2> QED
    BY <2>1, ToolFragmentRuns, Zenon
<1>3. /\ DOMAIN d = DOMAIN calls \cup {f.index}
      /\ d[f.index].args = AddArgs(Call(calls, f.index).args, f.args)
      /\ \A j \in DOMAIN calls : j # f.index => d[j] = calls[j]
  <2>1. /\ DOMAIN d = DOMAIN calls \cup {f.index}
        /\ d[f.index] = Grow(Call(calls, f.index), f)
        /\ \A j \in DOMAIN calls : j # f.index => d[j] = calls[j]
    BY DEF GrowCall, Put
  <2>2. Grow(Call(calls, f.index), f).args = AddArgs(Call(calls, f.index).args, f.args)
    BY CallTyped, GrowTyped
  <2> QED
    BY <2>1, <2>2, Zenon
<1>4. Call(s.tools, f.index).args = Call(calls, f.index).args
  BY DEF Call, Alike
<1> HIDE DEF t, d
<1>5. Alike(t.tools, d)
  <2>1. DOMAIN t.tools = DOMAIN d
    BY <1>1, <1>2, <1>3 DEF Fragmented
  <2>2. ASSUME NEW j \in DOMAIN t.tools PROVE t.tools[j].args = d[j].args
    <3>1. CASE j = f.index
      BY <3>1, <1>2, <1>3, <1>4 DEF Fragmented
    <3>2. CASE j # f.index
      <4>1. j \in DOMAIN calls /\ t.tools[j].args = s.tools[j].args /\ d[j] = calls[j]
        BY <3>2, <1>1, <1>2, <1>3, <2>1 DEF Fragmented
      <4> QED
        BY <4>1, <1>1 DEF Alike
    <3> QED
      BY <3>1, <3>2
  <2> QED
    BY <2>1, <2>2 DEF Alike
<1> QED
  BY <1>2, <1>5, Zenon DEF Gathered, Fragmented, t, d

LEMMA FragmentsGather ==
  ASSUME NEW v, NEW s, Goes(v, s), s.started = TRUE, NEW calls, IsCalls(calls),
         Alike(s.tools, calls), NEW fs, FitsCalls(calls, fs)
  PROVE  Gathered(v, s, Messages!Growth!Through(s, fs), Accumulate(calls, fs))
<1>1. \A q : Messages!Growth!Through(s, q) = Gathering!Through(s, q)
  BY Zenon DEF Messages!Growth!Through, Gathering!Through
<1>2. CASE fs = <<>>
  <2>1. Messages!Growth!Through(s, fs) = s
    BY <1>1, <1>2, Gathering!ThroughNone, Zenon
  <2>2. Accumulate(calls, fs) = calls
    BY <1>2, AccumulateFew, Zenon
  <2> QED
    BY <2>1, <2>2, Zenon DEF Gathered
<1>3. CASE /\ fs = <<fs[1]>> /\ IsFragment(fs[1]) /\ fs[1].index <= Size(calls)
  <2>1. Messages!Growth!Through(s, fs) = Messages!ToolFragment(s, fs[1])
    BY <1>1, <1>3, Gathering!ThroughOne, Zenon
  <2>2. Accumulate(calls, fs) = GrowCall(calls, fs[1])
    BY <1>3, AccumulateFew, Zenon
  <2>3. Gathered(v, s, Messages!ToolFragment(s, fs[1]), GrowCall(calls, fs[1]))
    BY <1>3, FragmentGathers, Zenon
  <2> QED
    BY <2>1, <2>2, <2>3, Zenon
<1>4. CASE /\ fs = <<fs[1], fs[2]>> /\ Size(calls) = 0
           /\ IsFragment(fs[1]) /\ fs[1].index = 0 /\ IsFragment(fs[2]) /\ fs[2].index = 1
  <2> DEFINE t == Messages!ToolFragment(s, fs[1])
             c == GrowCall(calls, fs[1])
  <2>1. Messages!Growth!Through(s, fs) = Messages!ToolFragment(t, fs[2])
    <3>1. Gathering!Through(s, <<fs[1], fs[2]>>) =
            Messages!ToolFragment(Messages!ToolFragment(s, fs[1]), fs[2])
      BY Gathering!ThroughTwo
    <3>2. Messages!Growth!Through(s, fs) = Gathering!Through(s, fs)
      BY <1>1, Zenon
    <3> QED
      BY <1>4, <3>1, <3>2
  <2>2. Accumulate(calls, fs) = GrowCall(c, fs[2])
    BY <1>4, AccumulateTwo
  <2>3. fs[1].index <= Size(calls)
    BY <1>4
  <2>4. Gathered(v, s, t, c)
    BY <1>4, <2>3, FragmentGathers, Zenon
  <2>5. IsCalls(c) /\ (fs[1].index = Size(calls) => Size(c) = Size(calls) + 1)
    BY <1>4, <2>3, GrowCallTyped, Zenon
  <2> HIDE DEF t, c
  <2>6. fs[2].index <= Size(c)
    BY <1>4, <2>5
  <2>7. Gathered(v, t, Messages!ToolFragment(t, fs[2]), GrowCall(c, fs[2]))
    <3>1. Goes(v, t) /\ t.started = TRUE /\ Alike(t.tools, c)
      BY <2>4, Zenon DEF Gathered
    <3> QED
      BY <1>4, <2>5, <2>6, <3>1, FragmentGathers, Zenon
  <2>8. Gathered(v, s, Messages!ToolFragment(t, fs[2]), GrowCall(c, fs[2]))
    BY <2>4, <2>7, Zenon DEF Gathered
  <2> QED
    BY <2>1, <2>2, <2>8, Zenon
<1> QED
  BY <1>2, <1>3, <1>4 DEF FitsCalls

\* A note about the reply: how it finishes, or that it refuses.
LEMMA NotedRuns ==
  ASSUME NEW v, NEW s, Goes(v, s), NEW t, DOMAIN t = MessagesFields,
         t.started = s.started, t.next = s.next, t.open = s.open, t.text = s.text,
         t.blocks = s.blocks, t.tools = s.tools, t.done = s.done, t.error = s.error,
         t.out = s.out, t.finish \in Reasons \cup {"none"}, t.refused \in BOOLEAN
  PROVE  Goes(v, t) /\ \A kind : Held(t, kind) = Held(s, kind)
<1>1. MessagesState(t)
  BY GoesTyped DEF MessagesState
<1>2. Heard(v, t) = Heard(v, s)
  BY Zenon DEF Heard
<1> DEFINE w == Heard(v, s)
<1>3. Running(s, w) /\ IsList(s.out)
  BY DEF Goes
<1> HIDE DEF w
<1>4. \A b, k : ShownOpen(s, b, k) => ShownOpen(t, b, k)
  BY DEF ShownOpen, Shown, ShowsCall
<1>5. \A k \in 1 .. Len(t.blocks) : ShownOpen(t, w.blocks[k], k)
  <2>1. \A k \in 1 .. Len(s.blocks) : ShownOpen(s, w.blocks[k], k)
    BY <1>3, Zenon DEF Running
  <2> QED
    BY <1>4, <2>1
<1>6. ToolsShown(t)
  BY <1>3 DEF Running, ToolsShown
<1>7. Running(t, w)
  BY <1>1, <1>3, <1>5, <1>6 DEF Running
<1> QED
  BY <1>2, <1>3, <1>7, Zenon DEF Goes, Held, w

\* A chunk adds what it carries.
Added(v, s, l, t, calls) ==
  /\ Goes(v, t) /\ Alike(t.tools, calls)
  /\ t.finish = IF l.finish = "none" THEN s.finish ELSE l.finish
  /\ Held(t, "text") = Held(s, "text") + Num(l.text # "") + Num(l.refusal)
  /\ Held(t, "thinking") = Held(s, "thinking") + Num(l.think)

LEMMA DeliveredRuns ==
  ASSUME NEW v, NEW s, Goes(v, s), s.started = TRUE, NEW calls, IsCalls(calls),
         Alike(s.tools, calls), NEW l, IsChunk(l), FitsCalls(calls, l.tools)
  PROVE  Added(v, s, l, Messages!Delivered(s, l), Accumulate(calls, l.tools))
<1> DEFINE a == IF l.think THEN Messages!TextFragment(s, "thinking") ELSE s
           b == Messages!Growth!Through(a, l.tools)
           c == IF l.text = "" THEN b ELSE Messages!TextFragment(b, "text")
           n == [c EXCEPT !.refused = TRUE]
           d == IF l.refusal THEN Messages!TextFragment(n, "text") ELSE c
           t == IF l.finish = "none" THEN d ELSE [d EXCEPT !.finish = l.finish]
           k == Accumulate(calls, l.tools)
<1> DEFINE m == Num(l.text # "")
<1>0. (l.text = "" => m = 0) /\ (l.text # "" => m = 1) /\ m \in Nat
  BY Zenon, NumIsNat DEF Num
<1> HIDE DEF m
<1>1. Messages!Delivered(s, l) = t
  BY Zenon DEF Messages!Delivered
<1> DEFINE On(x, y) == Goes(v, y) /\ y.started = TRUE /\ y.tools = x.tools /\ y.finish = x.finish
<1>2. ASSUME NEW x, NEW kind \in {"text", "thinking"}, Goes(v, x), x.started = TRUE
      PROVE  TextAdded(v, x, kind, Messages!TextFragment(x, kind))
  BY <1>2, TextFragmentRuns, Zenon
<1>3. Num(TRUE) = 1 /\ Num(FALSE) = 0
  BY DEF Num
<1>4. \A x, j : Goes(v, x) /\ j \in {"text", "thinking"} => Held(x, j) \in Nat
  BY GoesTyped, HeldTyped, Zenon
<1>5. /\ On(s, a) /\ Held(a, "text") = Held(s, "text")
      /\ Held(a, "thinking") = Held(s, "thinking") + Num(l.think)
  <2>1. CASE l.think = TRUE
    <3>1. TextAdded(v, s, "thinking", a)
      BY <2>1, <1>2, Zenon
    <3> HIDE DEF a
    <3>2. Num(l.think) = 1
      BY <2>1, <1>3
    <3> QED
      BY <3>1, <3>2 DEF TextAdded, Onward, Aside
  <2>2. CASE l.think = FALSE
    <3>1. a = s
      BY <2>2
    <3> HIDE DEF a
    <3>2. Num(l.think) = 0 /\ Held(s, "thinking") \in Nat
      BY <2>2, <1>3, <1>4
    <3> QED
      BY <3>1, <3>2
  <2> QED
    BY <2>1, <2>2 DEF IsChunk
<1> HIDE DEF a
<1>6. Gathered(v, a, b, k)
  BY <1>5, FragmentsGather, Zenon
<1> HIDE DEF b, k
<1>7. /\ On(b, c) /\ Held(c, "thinking") = Held(b, "thinking")
      /\ Held(c, "text") = Held(b, "text") + m
  <2>0. Goes(v, b) /\ b.started = TRUE
    BY <1>6 DEF Gathered
  <2>1. CASE l.text # ""
    <3>1. TextAdded(v, b, "text", c)
      BY <2>0, <2>1, <1>2, Zenon
    <3> HIDE DEF c
    <3>2. m = 1
      BY <1>0, <2>1
    <3> QED
      BY <3>1, <3>2 DEF TextAdded, Onward, Aside
  <2>2. CASE l.text = ""
    <3>1. c = b
      BY <2>2
    <3> HIDE DEF c
    <3>2. m = 0 /\ Held(b, "text") \in Nat
      BY <1>0, <2>0, <2>2, <1>4
    <3> QED
      BY <2>0, <3>1, <3>2
  <2> QED
    BY <2>1, <2>2
<1> HIDE DEF c
<1>8. Goes(v, n) /\ n.started = TRUE /\ n.tools = c.tools /\ n.finish = c.finish
      /\ \A j : Held(n, j) = Held(c, j)
  <2>1. MessagesState(c) /\ DOMAIN c = MessagesFields /\ Goes(v, c) /\ c.started = TRUE
    BY <1>7, GoesTyped
  <2>2. /\ DOMAIN n = MessagesFields
        /\ n.started = c.started /\ n.next = c.next /\ n.open = c.open /\ n.text = c.text
        /\ n.blocks = c.blocks /\ n.tools = c.tools /\ n.done = c.done /\ n.error = c.error
        /\ n.out = c.out /\ n.finish = c.finish /\ n.refused = TRUE
    BY <2>1 DEF MessagesFields
  <2> HIDE DEF n
  <2>3. n.finish \in Reasons \cup {"none"} /\ n.refused \in BOOLEAN
    BY <2>1, <2>2 DEF MessagesState
  <2> QED
    BY <2>1, <2>2, <2>3, NotedRuns
<1> HIDE DEF n
<1>9. /\ On(c, d) /\ Held(d, "thinking") = Held(c, "thinking")
      /\ Held(d, "text") = Held(c, "text") + Num(l.refusal)
  <2>1. CASE l.refusal = TRUE
    <3>1. TextAdded(v, n, "text", d)
      BY <2>1, <1>2, <1>8, Zenon
    <3> HIDE DEF d
    <3>2. Num(l.refusal) = 1
      BY <2>1, <1>3
    <3>3. Held(n, "text") = Held(c, "text") /\ Held(n, "thinking") = Held(c, "thinking")
      BY <1>8
    <3> QED
      BY <3>1, <3>2, <3>3, <1>8 DEF TextAdded, Onward, Aside
  <2>2. CASE l.refusal = FALSE
    <3>1. d = c
      BY <2>2
    <3> HIDE DEF d
    <3>2. Num(l.refusal) = 0 /\ Held(c, "text") \in Nat
      BY <2>2, <1>3, <1>4, <1>7
    <3> QED
      BY <3>1, <3>2, <1>7
  <2> QED
    BY <2>1, <2>2 DEF IsChunk
<1> HIDE DEF d
<1>10. /\ Goes(v, t) /\ t.tools = d.tools /\ \A j : Held(t, j) = Held(d, j)
       /\ t.finish = IF l.finish = "none" THEN d.finish ELSE l.finish
  <2>1. CASE l.finish = "none"
    BY <2>1, <1>9
  <2>2. CASE l.finish # "none"
    <3>1. MessagesState(d) /\ DOMAIN d = MessagesFields /\ Goes(v, d)
      BY <1>9, GoesTyped
    <3>2. /\ DOMAIN t = MessagesFields
          /\ t.started = d.started /\ t.next = d.next /\ t.open = d.open /\ t.text = d.text
          /\ t.blocks = d.blocks /\ t.tools = d.tools /\ t.done = d.done /\ t.error = d.error
          /\ t.out = d.out /\ t.finish = l.finish /\ t.refused = d.refused
      BY <2>2, <3>1 DEF MessagesFields
    <3> HIDE DEF t
    <3>3. t.finish \in Reasons \cup {"none"} /\ t.refused \in BOOLEAN
      BY <3>1, <3>2 DEF MessagesState, IsChunk
    <3> QED
      BY <2>2, <3>1, <3>2, <3>3, NotedRuns
  <2> QED
    BY <2>1, <2>2
<1> HIDE DEF t
<1>11. Held(b, "text") = Held(a, "text") /\ Held(b, "thinking") = Held(a, "thinking")
       /\ Alike(b.tools, k) /\ b.finish = a.finish
  BY <1>6 DEF Gathered
<1>12. Added(v, s, l, t, k)
  <2>1. t.tools = b.tools
    BY <1>7, <1>9, <1>10
  <2>2. Alike(t.tools, k)
    BY <1>11, <2>1, Zenon
  <2>3. Num(l.refusal) \in Nat /\ Held(s, "text") \in Nat
    BY <1>4, NumIsNat
  <2>4. Held(t, "text") = Held(s, "text") + m + Num(l.refusal)
    BY <1>0, <1>5, <1>7, <1>9, <1>10, <1>11, <2>3
  <2>5. t.finish = IF l.finish = "none" THEN s.finish ELSE l.finish
    BY <1>5, <1>7, <1>9, <1>10, <1>11
  <2>6. Held(t, "thinking") = Held(s, "thinking") + Num(l.think)
    BY <1>5, <1>7, <1>9, <1>10, <1>11
  <2> QED
    BY <1>10, <2>2, <2>4, <2>5, <2>6, Zenon DEF Added, m
<1> QED
  BY <1>1, <1>12, Zenon DEF k

(***************************************************************************)
(* Messages: the end                                                       *)
(***************************************************************************)

Opens == INSTANCE FoldProofs WITH Op <- Messages!OpenUnopened
Stops == INSTANCE FoldProofs WITH Op <- Messages!StopTool

SameCalls(tools, calls) ==
  /\ DOMAIN tools = DOMAIN calls
  /\ \A j \in DOMAIN calls : tools[j].args = calls[j].args /\ tools[j].name = calls[j].name

\* The first m calls have their blocks.
OpenedUpTo(v, s, m, u) ==
  /\ Goes(v, u) /\ u.started = TRUE /\ u.finish = s.finish /\ u.refused = s.refused
  /\ u.open.kind = "none" /\ SameCalls(u.tools, s.tools)
  /\ \A j \in DOMAIN s.tools : j < m => u.tools[j].open
  /\ \A kind \in {"text", "thinking"} : Held(u, kind) = Held(s, kind)

LEMMA OpensOneMore ==
  ASSUME NEW v, NEW s, MessagesState(s), NEW m \in DOMAIN s.tools, NEW u, OpenedUpTo(v, s, m, u)
  PROVE  OpenedUpTo(v, s, m + 1, Messages!OpenUnopened(u, m))
<1> DEFINE t == Messages!OpenUnopened(u, m)
<1>1. DOMAIN s.tools \subseteq Nat
  BY CallsDomain DEF MessagesState
<1>2. \A j \in DOMAIN s.tools : j < m + 1 => j < m \/ j = m
  BY <1>1
<1>3. CASE u.tools[m].open
  <2>1. t = u
    BY <1>3 DEF Messages!OpenUnopened
  <2> HIDE DEF t
  <2> QED
    BY <1>2, <1>3, <2>1, Zenon DEF OpenedUpTo, t
<1>4. CASE ~u.tools[m].open
  <2>1. t = Messages!OpenTool(u, m)
    BY <1>4 DEF Messages!OpenUnopened
  <2>2. ToolOpened(v, u, m, t)
    BY <1>4, <2>1, OpensTool, Zenon DEF OpenedUpTo, SameCalls
  <2> HIDE DEF t
  <2>3. SameCalls(t.tools, s.tools)
    BY <2>2 DEF ToolOpened, OpenedUpTo, SameCalls
  <2>4. \A j \in DOMAIN s.tools : j < m + 1 => t.tools[j].open
    BY <1>2, <2>2 DEF ToolOpened, OpenedUpTo, SameCalls
  <2>5. \A kind \in {"text", "thinking"} : Held(t, kind) = Held(s, kind)
    BY <2>2, Zenon DEF ToolOpened, OpenedUpTo
  <2>6. Goes(v, t) /\ t.started = TRUE /\ t.finish = s.finish /\ t.refused = s.refused
        /\ t.open.kind = "none"
    BY <2>2, Zenon DEF ToolOpened, OpenedUpTo
  <2> QED
    BY <2>3, <2>4, <2>5, <2>6, Zenon DEF OpenedUpTo, t
<1> QED
  BY <1>3, <1>4

LEMMA OpensAll ==
  ASSUME NEW v, NEW s, MessagesState(s), NEW c, OpenedUpTo(v, s, 0, c)
  PROVE  OpenedUpTo(v, s, Size(s.tools), Messages!Opening!Through(c, Indices(s.tools)))
<1> DEFINE n == Size(s.tools)
           q == Indices(s.tools)
<1>1. n \in Nat /\ DOMAIN s.tools = 0 .. n - 1 /\ Len(q) = n /\ \A k \in 1 .. n : q[k] = k - 1
  BY CallsDomain, IndicesNumbered DEF MessagesState
<1>2. Messages!Opening!Through(c, q) = Opens!Through(c, q)
  BY Zenon DEF Messages!Opening!Through, Opens!Through
<1> HIDE DEF n, q
<1>3. PICK f : Opens!Goes(f, c, q)
  BY <1>1, Opens!ThroughSteps, Zenon
<1>8. /\ f[0] = c /\ Opens!Through(c, q) = f[n]
      /\ \A k \in 1 .. n : f[k] = Messages!OpenUnopened(f[k - 1], q[k])
  BY <1>1, <1>3 DEF Opens!Goes
<1> DEFINE S == {m \in Nat : m <= n => OpenedUpTo(v, s, m, f[m])}
<1>4. 0 \in S
  BY <1>8
<1>5. ASSUME NEW m \in Nat, m \in S PROVE m + 1 \in S
  <2> SUFFICES ASSUME m + 1 <= n PROVE OpenedUpTo(v, s, m + 1, f[m + 1])
    OBVIOUS
  <2>1. m <= n /\ m \in DOMAIN s.tools /\ m + 1 \in 1 .. n /\ (m + 1) - 1 = m
    BY <1>1
  <2>2. OpenedUpTo(v, s, m, f[m])
    BY <1>5, <2>1
  <2>3. f[m + 1] = Messages!OpenUnopened(f[m], m)
    BY <1>1, <1>8, <2>1
  <2> QED
    BY <2>1, <2>2, <2>3, OpensOneMore, Zenon
<1>6. n \in S
  <2> HIDE DEF S
  <2> QED
    BY <1>1, <1>4, <1>5, Opens!AllNumbers
<1>7. OpenedUpTo(v, s, n, f[n])
  BY <1>1, <1>6
<1> QED
  BY <1>2, <1>7, <1>8, Zenon DEF n, q

\* All blocks are closed but those of the calls from m on.
StoppedUpTo(v, s, m, u) ==
  /\ DOMAIN u = MessagesFields /\ u.started = s.started /\ u.next = s.next
  /\ u.open = s.open /\ u.text = s.text /\ u.blocks = s.blocks /\ u.tools = s.tools
  /\ u.finish = s.finish /\ u.refused = s.refused /\ u.done = s.done /\ u.error = s.error
  /\ IsList(u.out) /\ Live(Heard(v, u))
  /\ Len(Heard(v, u).blocks) = Len(s.blocks)
  /\ \A k \in 1 .. Len(s.blocks) :
       /\ Shown(s, Heard(v, u).blocks[k], k)
       /\ Heard(v, u).blocks[k].open = (s.blocks[k].kind = "tool" /\ s.blocks[k].n >= m)

LEMMA ClosedShows ==
  ASSUME NEW s, NEW b \in BlockSet, NEW k, Shown(s, b, k)
  PROVE  Shown(s, [b EXCEPT !.open = FALSE], k)
<1> DEFINE c == [b EXCEPT !.open = FALSE]
<1>1. c.kind = b.kind /\ c.id = b.id /\ c.n = b.n /\ c.args = b.args
  BY DEF BlockSet
<1> HIDE DEF c
<1>2. Shown(s, c, k)
  BY <1>1 DEF Shown, ShowsCall
<1> QED
  BY <1>2 DEF c

LEMMA StopsOneMore ==
  ASSUME NEW v, NEW s, MessagesState(s), ToolsShown(s), NEW m \in DOMAIN s.tools,
         s.tools[m].open, NEW u, StoppedUpTo(v, s, m, u)
  PROVE  StoppedUpTo(v, s, m + 1, Messages!StopTool(u, m))
<1> DEFINE i == s.tools[m].index
           t == Messages!StopTool(u, m)
           w == Heard(v, u)
           e == Messages!BlockStop(i)
<1>1. /\ i + 1 \in 1 .. Len(s.blocks) /\ s.blocks[i + 1] = [kind |-> "tool", n |-> m]
      /\ i \in Nat /\ m \in Nat
  <2>1. i + 1 \in 1 .. Len(s.blocks) /\ s.blocks[i + 1] = [kind |-> "tool", n |-> m]
    BY DEF ToolsShown
  <2>2. s.tools[m] \in CallSet /\ m \in Nat
    BY CallsDomain DEF MessagesState
  <2> QED
    BY <2>1, <2>2 DEF CallSet
<1>2. t = Messages!Emit(u, e)
  BY DEF Messages!StopTool, StoppedUpTo
<1> HIDE DEF i
<1>3. DOMAIN u = MessagesFields /\ IsList(u.out)
  BY DEF StoppedUpTo
<1>4. /\ DOMAIN t = MessagesFields /\ t.started = u.started /\ t.next = u.next
      /\ t.open = u.open /\ t.text = u.text /\ t.blocks = u.blocks /\ t.tools = u.tools
      /\ t.finish = u.finish /\ t.refused = u.refused /\ t.done = u.done /\ t.error = u.error
  BY <1>2, <1>3, Emits
<1>5. Heard(v, t) = ReadMessages(w, e) /\ IsList(t.out)
  BY <1>2, <1>3, EmitsHeard
<1>6. /\ Live(w) /\ w.blocks \in Seq(BlockSet) /\ Len(w.blocks) = Len(s.blocks)
      /\ \A k \in 1 .. Len(s.blocks) :
           /\ Shown(s, w.blocks[k], k)
           /\ w.blocks[k].open = (s.blocks[k].kind = "tool" /\ s.blocks[k].n >= m)
  BY DEF StoppedUpTo, Live, IsMessage
<1> DEFINE x == Heard(v, t)
<1> HIDE DEF w, t
<1>7. i + 1 \in 1 .. Len(w.blocks) /\ w.blocks[i + 1].open = TRUE
  <2>1. s.blocks[i + 1].kind = "tool" /\ s.blocks[i + 1].n = m /\ m >= m
    BY <1>1
  <2> QED
    BY <1>1, <1>6, <2>1
<1>8. Reads(w, x, [w.blocks EXCEPT ![i + 1].open = FALSE])
  <2>1. Reads(w, ReadMessages(w, Messages!BlockStop(i)), [w.blocks EXCEPT ![i + 1].open = FALSE])
    BY <1>1, <1>6, <1>7, ReadsStop, Zenon
  <2> HIDE DEF x
  <2> QED
    BY <1>5, <2>1, Zenon DEF e, x
<1> HIDE DEF x, e
<1>9. /\ Live(x) /\ Len(x.blocks) = Len(s.blocks)
      /\ x.blocks[i + 1] = [w.blocks[i + 1] EXCEPT !.open = FALSE]
      /\ \A k \in 1 .. Len(s.blocks) : k # i + 1 => x.blocks[k] = w.blocks[k]
  <2>1. x.blocks = [w.blocks EXCEPT ![i + 1].open = FALSE] /\ Live(x)
    BY <1>8 DEF Reads
  <2> HIDE DEF BlockSet
  <2> QED
    BY <1>1, <1>6, <2>1
<1>10. \A k \in 1 .. Len(s.blocks) :
         /\ Shown(s, x.blocks[k], k)
         /\ x.blocks[k].open = (s.blocks[k].kind = "tool" /\ s.blocks[k].n >= m + 1)
  <2> TAKE k \in 1 .. Len(s.blocks)
  <2>1. Shown(s, w.blocks[k], k) /\ w.blocks[k] \in BlockSet
    BY <1>6
  <2>2. CASE k = i + 1
    <3>1. x.blocks[k] = [w.blocks[k] EXCEPT !.open = FALSE]
      BY <1>9, <2>2
    <3>5. Shown(s, [w.blocks[k] EXCEPT !.open = FALSE], k)
      BY <2>1, ClosedShows, Zenon
    <3>2. Shown(s, x.blocks[k], k)
      BY <3>1, <3>5, Zenon
    <3>3. x.blocks[k].open = FALSE
      BY <2>1, <3>1 DEF BlockSet
    <3>4. s.blocks[k].n = m /\ ~(m >= m + 1)
      BY <1>1, <2>2
    <3> QED
      BY <3>2, <3>3, <3>4
  <2>3. CASE k # i + 1
    <3>1. x.blocks[k] = w.blocks[k]
      BY <1>9, <2>3
    <3>2. s.blocks[k].kind = "tool" => s.blocks[k].n # m /\ s.blocks[k].n \in Nat
      <4>1. s.blocks[k].kind = "tool" => ShowsCall(s, w.blocks[k], k, s.blocks[k].n)
        BY <2>1 DEF Shown
      <4> DEFINE R == [kind : {"text", "thinking", "tool"}, n : Nat]
      <4>3. s.blocks \in Seq(R)
        BY DEF MessagesState
      <4>4. \A r \in R : r.n \in Nat
        OBVIOUS
      <4> HIDE DEF R
      <4>2. s.blocks[k].n \in Nat
        BY <4>3, <4>4
      <4> QED
        BY <4>1, <4>2, <2>3, <1>1 DEF ShowsCall, i
    <3>3. s.blocks[k].kind = "tool" => ((s.blocks[k].n >= m) <=> (s.blocks[k].n >= m + 1))
      BY <1>1, <3>2
    <3> QED
      BY <1>6, <2>1, <3>1, <3>3
  <2> QED
    BY <2>2, <2>3
<1> QED
  BY <1>4, <1>5, <1>9, <1>10 DEF StoppedUpTo, x, t

LEMMA StopsAll ==
  ASSUME NEW v, NEW s, MessagesState(s), ToolsShown(s),
         \A j \in DOMAIN s.tools : s.tools[j].open, StoppedUpTo(v, s, 0, s)
  PROVE  StoppedUpTo(v, s, Size(s.tools), Messages!Stopping!Through(s, Indices(s.tools)))
<1> DEFINE n == Size(s.tools)
           q == Indices(s.tools)
<1>1. n \in Nat /\ DOMAIN s.tools = 0 .. n - 1 /\ Len(q) = n /\ \A k \in 1 .. n : q[k] = k - 1
  BY CallsDomain, IndicesNumbered DEF MessagesState
<1>2. Messages!Stopping!Through(s, q) = Stops!Through(s, q)
  BY Zenon DEF Messages!Stopping!Through, Stops!Through
<1> HIDE DEF n, q
<1>3. PICK f : Stops!Goes(f, s, q)
  BY <1>1, Stops!ThroughSteps, Zenon
<1>8. /\ f[0] = s /\ Stops!Through(s, q) = f[n]
      /\ \A k \in 1 .. n : f[k] = Messages!StopTool(f[k - 1], q[k])
  BY <1>1, <1>3 DEF Stops!Goes
<1> DEFINE S == {m \in Nat : m <= n => StoppedUpTo(v, s, m, f[m])}
<1>4. 0 \in S
  BY <1>8
<1>5. ASSUME NEW m \in Nat, m \in S PROVE m + 1 \in S
  <2> SUFFICES ASSUME m + 1 <= n PROVE StoppedUpTo(v, s, m + 1, f[m + 1])
    OBVIOUS
  <2>1. m <= n /\ m \in DOMAIN s.tools /\ m + 1 \in 1 .. n /\ (m + 1) - 1 = m
    BY <1>1
  <2>2. StoppedUpTo(v, s, m, f[m])
    BY <1>5, <2>1
  <2>3. f[m + 1] = Messages!StopTool(f[m], m)
    BY <1>1, <1>8, <2>1
  <2> QED
    BY <2>1, <2>2, <2>3, StopsOneMore, Zenon
<1>6. n \in S
  <2> HIDE DEF S
  <2> QED
    BY <1>1, <1>4, <1>5, Stops!AllNumbers
<1>7. StoppedUpTo(v, s, n, f[n])
  BY <1>1, <1>6
<1> QED
  BY <1>2, <1>7, <1>8, Zenon DEF n, q

\* The message is complete, with all it held.
CompletedAs(v, s, t) ==
  /\ MessagesState(t) /\ t.done = TRUE /\ t.error = FALSE
  /\ Heard(v, t).ok = TRUE /\ Completed(t, Heard(v, t))
  /\ t.finish = s.finish /\ SameCalls(t.tools, s.tools)
  /\ \A kind \in {"text", "thinking"} : Held(t, kind) = Held(s, kind)

\* It is given up.
FailedAs(v, s, t) ==
  /\ MessagesState(t) /\ t.done = TRUE /\ t.error = TRUE
  /\ Heard(v, t).ok = TRUE /\ Heard(v, t).end = "failed"
  /\ t.finish = s.finish /\ t.tools = s.tools

LEMMA FailRuns ==
  ASSUME NEW v, NEW s, Goes(v, s), NEW t, t = Messages!Fail(s)
  PROVE  FailedAs(v, s, t)
<1> DEFINE c == [s EXCEPT !.error = TRUE, !.done = TRUE]
           e == [type |-> "error"]
           w == Heard(v, s)
<1>1. t = Messages!Emit(c, e)
  BY DEF Messages!Fail
<1>2. MessagesState(s) /\ DOMAIN s = MessagesFields /\ IsList(s.out) /\ Live(w)
  BY GoesTyped DEF Goes
<1>3. /\ DOMAIN c = MessagesFields /\ c.out = s.out /\ c.started = s.started
      /\ c.next = s.next /\ c.open = s.open /\ c.text = s.text
      /\ c.blocks = s.blocks /\ c.tools = s.tools /\ c.finish = s.finish
      /\ c.refused = s.refused /\ c.done = TRUE /\ c.error = TRUE
  BY <1>2 DEF MessagesFields
<1> HIDE DEF c
<1>4. /\ DOMAIN t = MessagesFields /\ t.started = s.started
      /\ t.next = s.next /\ t.open = s.open /\ t.text = s.text
      /\ t.blocks = s.blocks /\ t.tools = s.tools /\ t.finish = s.finish
      /\ t.refused = s.refused /\ t.done = TRUE /\ t.error = TRUE
  BY <1>1, <1>3, Emits
<1>5. Heard(v, c) = w
  BY <1>3, Zenon DEF Heard
<1> HIDE DEF w
<1>6. Heard(v, t) = ReadMessages(w, e)
  BY <1>1, <1>2, <1>3, <1>5, EmitsHeard
<1>7. Heard(v, t).ok = TRUE /\ Heard(v, t).end = "failed"
  BY <1>2, <1>6, ReadsError, Zenon
<1>8. MessagesState(t)
  BY <1>2, <1>4 DEF MessagesState
<1> QED
  BY <1>4, <1>7, <1>8 DEF FailedAs

LEMMA BrokenSame ==
  ASSUME NEW s, NEW t, SameCalls(t.tools, s.tools), t.finish = s.finish
  PROVE  Messages!Broken(t) <=> Messages!Broken(s)
BY DEF Messages!Broken, SameCalls

\* After the last block is closed, every call is open.
LEMMA StopsNone ==
  ASSUME NEW v, NEW s, Goes(v, s), s.open.kind = "none"
  PROVE  StoppedUpTo(v, s, 0, s)
<1> DEFINE w == Heard(v, s)
           R == [kind : {"text", "thinking", "tool"}, n : Nat]
<1>1. MessagesState(s) /\ DOMAIN s = MessagesFields /\ Live(w) /\ IsList(s.out) /\ Running(s, w)
  BY GoesTyped DEF Goes
<1> HIDE DEF w
<1>2. /\ Len(w.blocks) = Len(s.blocks)
      /\ \A k \in 1 .. Len(s.blocks) : ShownOpen(s, w.blocks[k], k)
  BY <1>1 DEF Running
<1>3. s.blocks \in Seq(R) /\ \A r \in R : r.n \in Nat
  BY <1>1 DEF MessagesState
<1> HIDE DEF R
<1>4. ASSUME NEW k \in 1 .. Len(s.blocks)
      PROVE  /\ Shown(s, w.blocks[k], k)
             /\ w.blocks[k].open = (s.blocks[k].kind = "tool" /\ s.blocks[k].n >= 0)
  <2>1. s.blocks[k].n >= 0
    BY <1>3
  <2> QED
    BY <1>2, <2>1 DEF ShownOpen, Shown
<1> QED
  BY <1>1, <1>2, <1>4, Zenon DEF StoppedUpTo, w

LEMMA CompleteRuns ==
  ASSUME NEW v, NEW s, Goes(v, s), s.started = TRUE, NEW t, t = Messages!Complete(s)
  PROVE  /\ Messages!Broken(s) => FailedAs(v, s, t)
         /\ ~Messages!Broken(s) => CompletedAs(v, s, t)
<1>1. CASE Messages!Broken(s)
  BY <1>1, FailRuns DEF Messages!Complete
<1>2. CASE ~Messages!Broken(s)
  <2> DEFINE c == Messages!CloseOpen(s)
             o == Messages!Opening!Through(c, Indices(s.tools))
             u == Messages!Stopping!Through(o, Indices(o.tools))
             d == [u EXCEPT !.done = TRUE]
             e == [type |-> "message_stop", reason |-> Messages!StopReason(s)]
             n == Size(o.tools)
  <2>1. MessagesState(s) /\ IsList(s.out) /\ Running(s, Heard(v, s))
    BY GoesTyped DEF Goes
  <2>2. /\ IsList(c.out) /\ Running(c, Heard(v, c)) /\ c.open.kind = "none"
        /\ c.started = s.started /\ c.tools = s.tools /\ c.finish = s.finish
        /\ c.refused = s.refused
    BY <2>1, CloseOpenRuns, Zenon
  <2>3. \A kind \in {"text", "thinking"} : Held(c, kind) = Held(s, kind)
    BY <2>1, CloseOpenHolds, Zenon
  <2> HIDE DEF c
  <2>4. OpenedUpTo(v, s, 0, c)
    <3>1. DOMAIN s.tools \subseteq Nat
      BY <2>1, CallsDomain DEF MessagesState
    <3>2. \A j \in DOMAIN s.tools : ~(j < 0)
      BY <3>1
    <3> QED
      BY <2>2, <2>3, <3>2 DEF OpenedUpTo, Goes, SameCalls
  <2>5. OpenedUpTo(v, s, Size(s.tools), o)
    BY <2>1, <2>4, OpensAll, Zenon
  <2> HIDE DEF o
  <2>6. /\ Goes(v, o) /\ o.open.kind = "none" /\ o.finish = s.finish /\ SameCalls(o.tools, s.tools)
        /\ MessagesState(o) /\ ToolsShown(o) /\ ~o.error
        /\ \A kind \in {"text", "thinking"} : Held(o, kind) = Held(s, kind)
    <3>1. Goes(v, o)
      BY <2>5 DEF OpenedUpTo
    <3>2. MessagesState(o) /\ ToolsShown(o) /\ ~o.error
      BY <3>1 DEF Goes, Running
    <3> QED
      BY <2>5, <3>1, <3>2, Zenon DEF OpenedUpTo
  <2>7. \A j \in DOMAIN o.tools : o.tools[j].open
    <3>1. Size(s.tools) \in Nat /\ DOMAIN s.tools = 0 .. Size(s.tools) - 1
      BY <2>1, CallsDomain DEF MessagesState
    <3>2. \A j \in DOMAIN s.tools : j < Size(s.tools)
      BY <3>1
    <3> QED
      BY <2>5, <3>2, Zenon DEF OpenedUpTo, SameCalls
  <2>8. StoppedUpTo(v, o, 0, o)
    BY <2>6, StopsNone, Zenon
  <2>9. StoppedUpTo(v, o, n, u)
    BY <2>6, <2>7, <2>8, StopsAll, Zenon
  <2>10. Indices(o.tools) = Indices(s.tools)
    <3>1. Size(o.tools) = Size(s.tools) /\ IsCalls(o.tools) /\ IsCalls(s.tools)
      BY <2>1, <2>6, Zenon DEF SameCalls, Size, MessagesState
    <3> QED
      BY <3>1, IndicesNumbered, Zenon
  <2>11. t = Messages!Emit(d, e)
    <3>1. t = Messages!Emit([Messages!Stopping!Through(o, Indices(s.tools)) EXCEPT !.done = TRUE], e)
      BY <1>2, MessagesOperators, Zenon DEF Messages!Complete, o, c
    <3> QED
      BY <3>1, <2>10, Zenon
  <2> HIDE DEF u
  <2> DEFINE w == Heard(v, u)
  <2>12. /\ DOMAIN u = MessagesFields /\ u.started = o.started /\ u.next = o.next
         /\ u.open = o.open /\ u.text = o.text /\ u.blocks = o.blocks /\ u.tools = o.tools
         /\ u.finish = o.finish /\ u.refused = o.refused /\ u.done = o.done /\ u.error = o.error
         /\ IsList(u.out) /\ Live(w) /\ Len(w.blocks) = Len(o.blocks)
    BY <2>9, Zenon DEF StoppedUpTo
  <2>13. \A k \in 1 .. Len(o.blocks) :
           /\ Shown(o, w.blocks[k], k)
           /\ w.blocks[k].open = (o.blocks[k].kind = "tool" /\ o.blocks[k].n >= n)
    BY <2>9, Zenon DEF StoppedUpTo
  <2>14. \A k \in 1 .. Len(w.blocks) : w.blocks[k].open = FALSE
    <3> SUFFICES ASSUME NEW k \in 1 .. Len(w.blocks) PROVE w.blocks[k].open = FALSE
      OBVIOUS
    <3>1. Size(o.tools) \in Nat /\ DOMAIN o.tools = 0 .. Size(o.tools) - 1
      BY <2>6, CallsDomain DEF MessagesState
    <3>2. Shown(o, w.blocks[k], k)
          /\ w.blocks[k].open = (o.blocks[k].kind = "tool" /\ o.blocks[k].n >= n)
      BY <2>12, <2>13, Zenon
    <3>3. o.blocks[k].kind = "tool" => o.blocks[k].n \in DOMAIN o.tools
      BY <3>2 DEF Shown, ShowsCall
    <3>4. o.blocks[k].kind = "tool" => ~(o.blocks[k].n >= n)
      BY <3>1, <3>3
    <3> QED
      BY <3>2, <3>4
  <2> HIDE DEF n
  <2>15. /\ DOMAIN d = MessagesFields /\ d.out = u.out /\ d.started = o.started
         /\ d.next = o.next /\ d.open = o.open /\ d.text = o.text
         /\ d.blocks = o.blocks /\ d.tools = o.tools /\ d.finish = o.finish
         /\ d.refused = o.refused /\ d.done = TRUE /\ d.error = o.error
    BY <2>12 DEF MessagesFields
  <2> HIDE DEF d, e
  <2>16. /\ DOMAIN t = MessagesFields /\ t.started = o.started
         /\ t.next = o.next /\ t.open = o.open /\ t.text = o.text
         /\ t.blocks = o.blocks /\ t.tools = o.tools /\ t.finish = o.finish
         /\ t.refused = o.refused /\ t.done = TRUE /\ t.error = o.error
    BY <2>11, <2>15, Emits
  <2> DEFINE x == Heard(v, t)
  <2>17. x = ReadMessages(w, e)
    <3>1. Heard(v, d) = w
      BY <2>15, Zenon DEF Heard
    <3> HIDE DEF w
    <3>2. Heard(v, Messages!Emit(d, e)) = ReadMessages(Heard(v, d), e)
      BY <2>12, <2>15, EmitsHeard
    <3> QED
      BY <2>11, <3>1, <3>2
  <2> HIDE DEF w
  <2>18. IsMessage(x) /\ x.ok = TRUE /\ x.end = "complete" /\ x.blocks = w.blocks
    <3> HIDE DEF x
    <3> QED
      BY <2>12, <2>14, <2>17, ReadsEnd DEF e
  <2> HIDE DEF x
  <2>19. MessagesState(t)
    BY <2>6, <2>16 DEF MessagesState
  <2>20. ToolsShown(t) /\ \A j \in DOMAIN t.tools : t.tools[j].open
    BY <2>6, <2>7, <2>16 DEF ToolsShown
  <2>21. \A k \in 1 .. Len(t.blocks) : Shown(t, x.blocks[k], k)
    <3>1. \A b, k : Shown(o, b, k) => Shown(t, b, k)
      BY <2>16 DEF Shown, ShowsCall
    <3> QED
      BY <3>1, <2>13, <2>16, <2>18, Zenon
  <2>22. Completed(t, x)
    BY <2>6, <2>12, <2>16, <2>18, <2>20, <2>21 DEF Completed, IsMessage
  <2>23. \A kind \in {"text", "thinking"} : Held(t, kind) = Held(s, kind)
    BY <2>6, <2>16, Zenon DEF Held
  <2> QED
    BY <1>2, <2>6, <2>16, <2>18, <2>19, <2>22, <2>23 DEF CompletedAs, x
<1> QED
  BY <1>1, <1>2

LEMMA FinishRuns ==
  ASSUME NEW v, NEW s, Goes(v, s), NEW t, t = Messages!Finish(s)
  PROVE  /\ s.finish = "none" \/ Messages!Broken(s) => FailedAs(v, s, t)
         /\ s.finish # "none" /\ ~Messages!Broken(s) => CompletedAs(v, s, t)
<1> DEFINE a == Messages!Start(s)
<1>1. /\ Goes(v, a) /\ a.started = TRUE /\ Aside(s, a)
      /\ a.open = s.open /\ a.text = s.text /\ a.blocks = s.blocks
  BY StartRuns, Zenon
<1>2. ~s.done
  BY DEF Goes, Running
<1>3. t = IF a.finish = "none" THEN Messages!Fail(a) ELSE Messages!Complete(a)
  BY <1>2, Zenon DEF Messages!Finish
<1> HIDE DEF a
<1>4. a.finish = s.finish /\ a.tools = s.tools /\ \A kind : Held(a, kind) = Held(s, kind)
  BY <1>1, Zenon DEF Aside, Held
<1>5. Messages!Broken(a) <=> Messages!Broken(s)
  BY <1>4 DEF Messages!Broken
<1>6. FailedAs(v, a, t) => FailedAs(v, s, t)
  BY <1>4, Zenon DEF FailedAs
<1>7. CompletedAs(v, a, t) => CompletedAs(v, s, t)
  BY <1>4, Zenon DEF CompletedAs
<1>8. CASE s.finish = "none"
  <2>1. FailedAs(v, a, t)
    BY <1>1, <1>3, <1>4, <1>8, FailRuns, Zenon
  <2> QED
    BY <1>6, <1>8, <2>1
<1>9. CASE s.finish # "none"
  <2>1. /\ Messages!Broken(a) => FailedAs(v, a, t)
        /\ ~Messages!Broken(a) => CompletedAs(v, a, t)
    <3>1. t = Messages!Complete(a)
      BY <1>3, <1>4, <1>9
    <3> QED
      BY <1>1, <3>1, CompleteRuns
  <2> QED
    BY <1>5, <1>6, <1>7, <1>9, <2>1
<1> QED
  BY <1>8, <1>9

(***************************************************************************)
(* What a line carries                                                     *)
(***************************************************************************)

\* A chunk adds to the reply.
Adding(r, l, q) ==
  /\ IsReply(q) /\ q.error = r.error
  /\ q.late = (r.late \/ (l.think /\ r.text + r.refusal > 0))
  /\ q.text = r.text + Num(l.text # "") /\ q.refusal = r.refusal + Num(l.refusal)
  /\ q.think = r.think + Num(l.think) /\ q.calls = Accumulate(r.calls, l.tools)
  /\ q.finish = IF l.finish = "none" THEN r.finish ELSE l.finish

\* An error does nothing else.
Erring(r, q) ==
  /\ IsReply(q) /\ q.error = TRUE /\ q.late = r.late /\ q.text = r.text
  /\ q.refusal = r.refusal /\ q.think = r.think /\ q.calls = r.calls /\ q.finish = r.finish

LEMMA CarriedTyped ==
  ASSUME NEW r, IsReply(r), NEW l, IsLine(r, l)
  PROVE  /\ l.type = "chunk" => Adding(r, l, Carried(r, l))
         /\ l.type = "error" => Erring(r, Carried(r, l))
         /\ l.type \in {"usage", "[DONE]", "eof"} => Carried(r, l) = r
         /\ IsReply(Carried(r, l))
<1> DEFINE q == Carried(r, l)
<1>1. CASE l.type = "chunk"
  <2> DEFINE m == Num(l.text # "")
             n == Num(l.refusal)
             h == Num(l.think)
             c == Accumulate(r.calls, l.tools)
             late == r.late \/ (l.think /\ r.text + r.refusal > 0)
             fin == IF l.finish = "none" THEN r.finish ELSE l.finish
  <2>1. m \in Nat /\ n \in Nat /\ h \in Nat
    BY NumIsNat
  <2>2. IsChunk(l) /\ FitsCalls(r.calls, l.tools)
    BY <1>1 DEF IsLine
  <2>3. IsCalls(c)
    BY <2>2, AccumulateTyped, Zenon DEF IsReply
  <2>4. q = [r EXCEPT !.late = late, !.text = @ + m, !.refusal = @ + n, !.think = @ + h,
                      !.calls = c, !.finish = fin]
    BY <1>1 DEF Carried
  <2>5. late \in BOOLEAN /\ fin \in Reasons \cup {"none"}
    BY <2>2 DEF IsReply, IsChunk
  <2> HIDE DEF m, n, h, c, late, fin, q
  <2>6. /\ DOMAIN q = DOMAIN r /\ q.late = late /\ q.text = r.text + m
        /\ q.refusal = r.refusal + n /\ q.think = r.think + h /\ q.calls = c
        /\ q.finish = fin /\ q.error = r.error
    BY <2>4 DEF IsReply
  <2>7. IsReply(q)
    BY <2>1, <2>3, <2>5, <2>6 DEF IsReply
  <2> QED
    BY <1>1, <2>6, <2>7 DEF Adding, m, n, h, c, late, fin, q
<1>2. CASE l.type = "error"
  <2>1. q = [r EXCEPT !.error = TRUE]
    BY <1>2 DEF Carried
  <2>2. /\ DOMAIN q = DOMAIN r /\ q.error = TRUE /\ q.late = r.late /\ q.text = r.text
        /\ q.refusal = r.refusal /\ q.think = r.think /\ q.calls = r.calls /\ q.finish = r.finish
    BY <2>1 DEF IsReply
  <2> HIDE DEF q
  <2>3. IsReply(q)
    BY <2>2 DEF IsReply
  <2> QED
    BY <1>2, <2>2, <2>3 DEF Erring, q
<1>3. CASE l.type \in {"usage", "[DONE]", "eof"}
  BY <1>3 DEF Carried
<1> QED
  BY <1>1, <1>2, <1>3 DEF IsLine, IsChunk, Adding, Erring

(***************************************************************************)
(* Messages: what follows from a line                                      *)
(***************************************************************************)

\* The events of a line are those of the line alone.
LEMMA ClearKeeps ==
  ASSUME NEW s, DOMAIN s = MessagesFields, NEW t, t = Clear(s)
  PROVE  /\ DOMAIN t = MessagesFields /\ t = Clear(t) /\ t.out = <<>> /\ t.started = s.started
         /\ t.next = s.next /\ t.open = s.open /\ t.text = s.text
         /\ t.blocks = s.blocks /\ t.tools = s.tools /\ t.finish = s.finish
         /\ t.refused = s.refused /\ t.done = s.done /\ t.error = s.error
BY DEF Clear, MessagesFields

LEMMA ClearRuns ==
  ASSUME NEW v, NEW s, Goes(v, s), NEW r, Carries(s, r), s.finish = r.finish, ~r.error
  PROVE  MessagesFit(r, Clear(s), Heard(v, s))
<1> DEFINE t == Clear(s)
           w == Heard(v, s)
<1>1. /\ MessagesState(s) /\ DOMAIN s = MessagesFields /\ Running(s, w)
  BY GoesTyped DEF Goes
<1> HIDE DEF w
<1>2. /\ DOMAIN t = MessagesFields /\ t = Clear(t) /\ t.started = s.started
      /\ t.next = s.next /\ t.open = s.open /\ t.text = s.text
      /\ t.blocks = s.blocks /\ t.tools = s.tools /\ t.finish = s.finish
      /\ t.refused = s.refused /\ t.done = s.done /\ t.error = s.error
  BY <1>1, ClearKeeps
<1> HIDE DEF t
<1>3. MessagesState(t)
  BY <1>1, <1>2 DEF MessagesState
<1>4. \A b, k : ShownOpen(s, b, k) => ShownOpen(t, b, k)
  BY <1>2 DEF ShownOpen, Shown, ShowsCall
<1>5. \A k \in 1 .. Len(t.blocks) : ShownOpen(t, w.blocks[k], k)
  <2>1. \A k \in 1 .. Len(s.blocks) : ShownOpen(s, w.blocks[k], k)
    BY <1>1, Zenon DEF Running
  <2> QED
    BY <1>2, <1>4, <2>1
<1>6. ToolsShown(t)
  BY <1>1, <1>2 DEF Running, ToolsShown
<1>7. Running(t, w)
  BY <1>1, <1>2, <1>3, <1>5, <1>6 DEF Running
<1>8. Carries(t, r)
  <2>1. \A kind : Held(t, kind) = Held(s, kind)
    BY <1>2, Zenon DEF Held
  <2> QED
    BY <1>2, <2>1, Zenon DEF Carries
<1>9. ~t.done
  BY <1>7 DEF Running
<1> QED
  BY <1>2, <1>3, <1>7, <1>8, <1>9 DEF MessagesFit, w, t

\* What is complete carries the reply.
LEMMA ClearCompletes ==
  ASSUME NEW v, NEW s, NEW u, CompletedAs(v, s, u), NEW r, Carries(s, r),
         s.finish = r.finish, r.finish # "none", ~r.error, ~Messages!Broken(s)
  PROVE  MessagesFit(r, Clear(u), Heard(v, u))
<1> DEFINE t == Clear(u)
           w == Heard(v, u)
<1>1. /\ MessagesState(u) /\ DOMAIN u = MessagesFields /\ Completed(u, w)
      /\ u.done = TRUE /\ u.error = FALSE /\ w.ok = TRUE
      /\ u.finish = s.finish /\ SameCalls(u.tools, s.tools)
      /\ \A kind \in {"text", "thinking"} : Held(u, kind) = Held(s, kind)
  BY DEF CompletedAs, MessagesState
<1> HIDE DEF w
<1>2. /\ DOMAIN t = MessagesFields /\ t = Clear(t) /\ t.started = u.started
      /\ t.next = u.next /\ t.open = u.open /\ t.text = u.text
      /\ t.blocks = u.blocks /\ t.tools = u.tools /\ t.finish = u.finish
      /\ t.refused = u.refused /\ t.done = u.done /\ t.error = u.error
  BY <1>1, ClearKeeps
<1> HIDE DEF t
<1>3. MessagesState(t)
  BY <1>1, <1>2 DEF MessagesState
<1>4. \A b, k : Shown(u, b, k) => Shown(t, b, k)
  BY <1>2 DEF Shown, ShowsCall
<1>5. \A k \in 1 .. Len(t.blocks) : Shown(t, w.blocks[k], k)
  <2>1. \A k \in 1 .. Len(u.blocks) : Shown(u, w.blocks[k], k)
    BY <1>1, Zenon DEF Completed
  <2> QED
    BY <1>2, <1>4, <2>1
<1>6. ToolsShown(t)
  BY <1>1, <1>2 DEF Completed, ToolsShown
<1>7. Completed(t, w)
  BY <1>1, <1>2, <1>5, <1>6 DEF Completed
<1>8. \A kind \in {"text", "thinking"} : Held(t, kind) = Held(s, kind)
  BY <1>1, <1>2, Zenon DEF Held
<1>9. Alike(t.tools, r.calls)
  BY <1>1, <1>2 DEF Carries, SameCalls, Alike
<1>10. Carries(t, r)
  BY <1>8, <1>9 DEF Carries
<1>11. ~Messages!Broken(t)
  <2>1. SameCalls(t.tools, s.tools) /\ t.finish = s.finish
    BY <1>1, <1>2
  <2> QED
    BY <2>1, BrokenSame, Zenon
<1> QED
  BY <1>1, <1>2, <1>3, <1>7, <1>10, <1>11 DEF MessagesFit, w, t

LEMMA ClearFails ==
  ASSUME NEW v, NEW s, NEW u, FailedAs(v, s, u), NEW r,
         r.finish = "none" \/ r.error \/ Messages!Broken(s)
  PROVE  MessagesFit(r, Clear(u), Heard(v, u))
<1> DEFINE t == Clear(u)
           w == Heard(v, u)
<1>1. /\ MessagesState(u) /\ DOMAIN u = MessagesFields
      /\ u.done = TRUE /\ u.error = TRUE /\ w.ok = TRUE /\ w.end = "failed"
      /\ u.finish = s.finish /\ u.tools = s.tools
  BY DEF FailedAs, MessagesState
<1> HIDE DEF w
<1>2. /\ DOMAIN t = MessagesFields /\ t = Clear(t) /\ t.started = u.started
      /\ t.next = u.next /\ t.open = u.open /\ t.text = u.text
      /\ t.blocks = u.blocks /\ t.tools = u.tools /\ t.finish = u.finish
      /\ t.refused = u.refused /\ t.done = u.done /\ t.error = u.error
  BY <1>1, ClearKeeps
<1> HIDE DEF t
<1>3. MessagesState(t)
  BY <1>1, <1>2 DEF MessagesState
<1>4. Messages!Broken(s) => Messages!Broken(t)
  BY <1>1, <1>2 DEF Messages!Broken
<1> QED
  BY <1>1, <1>2, <1>3, <1>4 DEF MessagesFit, w, t

LEMMA MessagesLine ==
  ASSUME NEW r, IsReply(r), NEW l, IsLine(r, l), NEW s, NEW v, MessagesFit(r, s, v),
         l.type \in {"chunk", "error"} => ~s.done
  PROVE  /\ MessagesFit(Carried(r, l), Clear(Messages!Line(s, l)),
                        MessagesClient!Through(v, Messages!Line(s, l).out))
         /\ Ends(s, l, Clear(Messages!Line(s, l)))
<1> DEFINE t == Messages!Line(s, l)
           q == Carried(r, l)
<1>1. MessagesClient!Through(v, t.out) = Heard(v, t)
  BY Zenon DEF Heard
<1>2. /\ MessagesState(s) /\ DOMAIN s = MessagesFields /\ s = Clear(s) /\ s.out = <<>>
  <2>1. MessagesState(s) /\ DOMAIN s = MessagesFields /\ s = Clear(s)
    BY DEF MessagesFit, MessagesState
  <2>2. Clear(s).out = <<>>
    BY <2>1, ClearKeeps
  <2> QED
    BY <2>1, <2>2
<1>3. Heard(v, s) = v /\ IsList(s.out)
  <2>1. Client!Through(v, <<>>) = v
    BY Client!ThroughNone, Zenon
  <2>2. MessagesClient!Through(v, s.out) = Client!Through(v, s.out)
    BY Zenon DEF MessagesClient!Through, Client!Through
  <2>3. <<>> \in Seq({})
    OBVIOUS
  <2> QED
    BY <1>2, <2>1, <2>2, <2>3 DEF Heard, IsList
<1>4. CASE s.done
  <2>1. t = s /\ l.type \notin {"chunk", "error"}
    BY <1>4, Zenon DEF Messages!Line
  <2>2. q = r
    BY <2>1, CarriedTyped DEF IsLine, IsChunk
  <2>3. Ends(s, l, s)
    BY <1>4, <1>2, <2>1 DEF Ends, MessagesState
  <2> QED
    BY <1>1, <1>2, <1>3, <2>1, <2>2, <2>3, Zenon
<1>5. CASE ~s.done
  <2> DEFINE a == Messages!Start(s)
  <2>1. Goes(v, s) /\ Carries(s, r) /\ s.finish = r.finish /\ ~r.error
    BY <1>3, <1>5 DEF MessagesFit, Goes
  <2>2. /\ Goes(v, a) /\ a.started = TRUE /\ Aside(s, a)
        /\ a.open = s.open /\ a.text = s.text /\ a.blocks = s.blocks
    BY <2>1, StartRuns, Zenon
  <2>0. s.done = FALSE /\ a.done = FALSE
    BY <1>2, <1>5, <2>2 DEF MessagesState, Goes, Running
  <2> HIDE DEF a
  <2>3. Carries(a, r) /\ a.finish = r.finish /\ (Messages!Broken(a) <=> Messages!Broken(s))
    <3>1. a.tools = s.tools /\ a.finish = s.finish
      BY <2>2 DEF Aside
    <3>2. Messages!Broken(a) <=> Messages!Broken(s)
      BY <3>1 DEF Messages!Broken
    <3>3. \A kind : Held(a, kind) = Held(s, kind)
      BY <2>2, Zenon DEF Held
    <3> QED
      BY <2>1, <3>1, <3>2, <3>3, Zenon DEF Carries
  <2>4. CASE l.type = "chunk"
    <3>1. IsChunk(l) /\ FitsCalls(r.calls, l.tools) /\ r.finish = "none"
      BY <2>4 DEF IsLine
    <3>2. t = Messages!Delivered(a, l)
      BY <1>5, <2>4 DEF Messages!Line, a
    <3>3. Adding(r, l, q)
      BY <2>4, CarriedTyped, Zenon
    <3>4. Added(v, a, l, Messages!Delivered(a, l), Accumulate(r.calls, l.tools))
      BY <2>2, <2>3, <3>1, DeliveredRuns, Zenon DEF Carries, IsReply
    <3> HIDE DEF t, q
    <3>5. Added(v, a, l, t, q.calls)
      BY <3>2, <3>3, <3>4, Zenon DEF Adding
    <3>6. Carries(t, q)
      <4>1. Held(a, "text") = r.text + r.refusal /\ Held(a, "thinking") = r.think
        BY <2>3 DEF Carries
      <4> DEFINE m == Num(l.text # "")
                 n == Num(l.refusal)
                 h == Num(l.think)
      <4>2. m \in Nat /\ n \in Nat /\ h \in Nat
        BY NumIsNat
      <4>3. /\ q.text = r.text + m /\ q.refusal = r.refusal + n /\ q.think = r.think + h
        BY <3>3 DEF Adding
      <4>4. /\ Held(t, "text") = Held(a, "text") + m + n
            /\ Held(t, "thinking") = Held(a, "thinking") + h /\ Alike(t.tools, q.calls)
        BY <3>5 DEF Added
      <4> HIDE DEF m, n, h
      <4> QED
        BY <4>1, <4>2, <4>3, <4>4 DEF Carries, IsReply
    <3>7. Goes(v, t) /\ t.finish = q.finish /\ ~q.error
      BY <2>1, <2>3, <3>3, <3>5, Zenon DEF Adding, Added
    <3>8. MessagesFit(q, Clear(t), Heard(v, t))
      BY <3>6, <3>7, ClearRuns, Zenon
    <3>9. Ends(s, l, Clear(t))
      <4>1. DOMAIN t = MessagesFields /\ t.done = FALSE
        BY <3>7 DEF Goes, Running, MessagesState
      <4>2. Clear(t).done = FALSE
        BY <4>1, ClearKeeps, Zenon
      <4> QED
        BY <2>0, <2>4, <4>2 DEF Ends
    <3> QED
      BY <1>1, <3>8, <3>9, Zenon DEF t, q
  <2>5. CASE l.type = "usage"
    <3>1. t = a
      BY <1>5, <2>5 DEF Messages!Line, a
    <3>2. q = r
      BY <2>5, CarriedTyped
    <3>3. MessagesFit(r, Clear(a), Heard(v, a))
      BY <2>1, <2>2, <2>3, ClearRuns, Zenon
    <3>4. Ends(s, l, Clear(a))
      <4>1. DOMAIN a = MessagesFields
        BY <2>2 DEF Goes, Running, MessagesState
      <4>2. Clear(a).done = FALSE
        BY <2>0, <4>1, ClearKeeps, Zenon
      <4> QED
        BY <2>0, <2>5, <4>2 DEF Ends
    <3> QED
      BY <1>1, <3>1, <3>2, <3>3, <3>4, Zenon
  <2>6. CASE l.type = "error"
    <3>1. t = Messages!Fail(a)
      BY <1>5, <2>6 DEF Messages!Line, a
    <3>2. q.error = TRUE
      BY <2>6, CarriedTyped, Zenon DEF Erring
    <3>3. FailedAs(v, a, t)
      BY <2>2, <3>1, FailRuns, Zenon
    <3> HIDE DEF t, q
    <3>4. MessagesFit(q, Clear(t), Heard(v, t))
      BY <3>2, <3>3, ClearFails
    <3>5. Ends(s, l, Clear(t))
      <4>1. DOMAIN t = MessagesFields /\ t.done = TRUE
        BY <3>3 DEF FailedAs, MessagesState
      <4>2. Clear(t).done = TRUE
        BY <4>1, ClearKeeps, Zenon
      <4> QED
        BY <2>6, <4>2 DEF Ends
    <3> QED
      BY <1>1, <3>4, <3>5, Zenon DEF t, q
  <2>7. ASSUME NEW b, Goes(v, b), Carries(b, r), b.finish = r.finish, t = Messages!Finish(b)
        PROVE  MessagesFit(r, Clear(t), Heard(v, t)) /\ Clear(t).done = TRUE
    <3> HIDE DEF t
    <3>0. DOMAIN t = MessagesFields /\ t.done = TRUE => Clear(t).done = TRUE
      BY ClearKeeps, Zenon
    <3>1. CASE b.finish = "none" \/ Messages!Broken(b)
      <4>1. FailedAs(v, b, t)
        BY <2>7, <3>1, FinishRuns, Zenon
      <4>2. r.finish = "none" \/ r.error \/ Messages!Broken(b)
        BY <2>7, <3>1, Zenon
      <4> QED
        BY <3>0, <4>1, <4>2, ClearFails, Zenon DEF FailedAs, MessagesState
    <3>2. CASE b.finish # "none" /\ ~Messages!Broken(b)
      <4>1. CompletedAs(v, b, t)
        BY <2>7, <3>2, FinishRuns, Zenon
      <4>2. r.finish # "none"
        BY <2>7, <3>2, Zenon
      <4> QED
        BY <2>1, <2>7, <3>0, <3>2, <4>1, <4>2, ClearCompletes, Zenon DEF CompletedAs, MessagesState
    <3> QED
      BY <3>1, <3>2
  <2>8. CASE l.type \in {"[DONE]", "eof"}
    <3>1. q = r
      BY <2>8, CarriedTyped
    <3>2. t = Messages!Finish(a) \/ t = Messages!Finish(s)
      BY <1>5, <2>8 DEF Messages!Line, a
    <3>3. MessagesFit(r, Clear(t), Heard(v, t)) /\ Clear(t).done = TRUE
      BY <2>1, <2>2, <2>3, <2>7, <3>2, Zenon
    <3> HIDE DEF q, t
    <3>4. Ends(s, l, Clear(t))
      BY <2>8, <3>3 DEF Ends
    <3> QED
      BY <1>1, <3>1, <3>3, <3>4, Zenon DEF q, t
  <2> QED
    BY <2>4, <2>5, <2>6, <2>8 DEF IsLine, IsChunk
<1> QED
  BY <1>4, <1>5

(***************************************************************************)
(* Messages: what the client has at the end                                *)
(***************************************************************************)

LEMMA CompletedBlocks ==
  ASSUME NEW s, MessagesState(s), NEW v, Completed(s, v), NEW k \in 1 .. Len(s.blocks)
  PROVE  /\ s.blocks[k].kind \in {"text", "thinking", "tool"} /\ s.blocks[k].n \in Nat
         /\ v.blocks[k].kind = s.blocks[k].kind
         /\ s.blocks[k].kind = "tool" =>
              /\ v.blocks[k].id = s.tools[s.blocks[k].n].id /\ v.blocks[k].n = 0
              /\ v.blocks[k].args = s.tools[s.blocks[k].n].args
         /\ s.blocks[k].kind # "tool" =>
              v.blocks[k].id = "none" /\ v.blocks[k].n = s.blocks[k].n /\ v.blocks[k].args = <<>>
<1> DEFINE R == [kind : {"text", "thinking", "tool"}, n : Nat]
<1>1. s.blocks \in Seq(R) /\ \A b \in R : b.kind \in {"text", "thinking", "tool"} /\ b.n \in Nat
  BY DEF MessagesState
<1> HIDE DEF R
<1>2. Shown(s, v.blocks[k], k)
  BY DEF Completed
<1> QED
  BY <1>1, <1>2 DEF Shown, ShowsCall

LEMMA CompletedFold ==
  ASSUME NEW s, MessagesState(s), NEW v, Completed(s, v)
  PROVE  Messages!Content(s) =
           [k \in DOMAIN v.blocks |-> [f \in {"kind", "id", "n", "args"} |-> v.blocks[k][f]]]
<1> DEFINE C(k) ==
             LET b == s.blocks[k]
             IN IF b.kind = "tool"
                THEN LET call == s.tools[b.n]
                     IN [kind |-> "tool", id |-> call.id, n |-> 0, args |-> call.args]
                ELSE [kind |-> b.kind, id |-> "none", n |-> b.n, args |-> <<>>]
           F(k) == [f \in {"kind", "id", "n", "args"} |-> v.blocks[k][f]]
<1>1. DOMAIN s.blocks = 1 .. Len(s.blocks) /\ DOMAIN v.blocks = 1 .. Len(s.blocks)
  BY DEF MessagesState, Completed
<1>2. ASSUME NEW k \in 1 .. Len(s.blocks) PROVE C(k) = F(k)
  <2> DEFINE b == s.blocks[k]
             w == v.blocks[k]
             call == s.tools[s.blocks[k].n]
  <2>1. /\ w.kind = b.kind
        /\ b.kind = "tool" => w.id = call.id /\ w.n = 0 /\ w.args = call.args
        /\ b.kind # "tool" => w.id = "none" /\ w.n = b.n /\ w.args = <<>>
    BY CompletedBlocks
  <2> HIDE DEF b, w, call
  <2>2. [f \in {"kind", "id", "n", "args"} |-> w[f]] =
          [kind |-> w.kind, id |-> w.id, n |-> w.n, args |-> w.args]
    OBVIOUS
  <2>3. [f \in {"kind", "id", "n", "args"} |-> w[f]] =
          IF b.kind = "tool" THEN [kind |-> "tool", id |-> call.id, n |-> 0, args |-> call.args]
          ELSE [kind |-> b.kind, id |-> "none", n |-> b.n, args |-> <<>>]
    BY <2>1, <2>2
  <2> QED
    BY <2>3, Zenon DEF b, w, call
<1>3. Messages!Content(s) = [k \in DOMAIN s.blocks |-> C(k)]
  BY Zenon DEF Messages!Content
<1> HIDE DEF C, F
<1>4. [k \in DOMAIN s.blocks |-> C(k)] = [k \in DOMAIN v.blocks |-> F(k)]
  BY <1>1, <1>2
<1> QED
  BY <1>3, <1>4, Zenon DEF F

\* The client's blocks hold what was recorded.
LEMMA CompletedParts ==
  ASSUME NEW s, MessagesState(s), NEW v, Completed(s, v)
  PROVE  Parts!Through(NoParts, v.blocks) = Parts!Through(NoParts, s.blocks)
<1>1. \A q : Parts!Through(NoParts, q) = PartsFold!Through(NoParts, q)
  BY Zenon DEF Parts!Through, PartsFold!Through
<1>2. Len(s.blocks) \in Nat /\ Len(v.blocks) = Len(s.blocks)
  BY DEF MessagesState, Completed
<1>3. ASSUME NEW k \in 1 .. Len(s.blocks), NEW t \in Tally
      PROVE  /\ AddPart(t, s.blocks[k]) = AddPart(t, v.blocks[k])
             /\ AddPart(t, s.blocks[k]) \in Tally
  <2> DEFINE b == s.blocks[k]
             w == v.blocks[k]
  <2>1. /\ b.kind \in {"text", "thinking", "tool"} /\ b.n \in Nat /\ w.kind = b.kind
        /\ b.kind # "tool" => w.n = b.n
    BY CompletedBlocks
  <2> HIDE DEF b, w
  <2>2. AddPart(t, b) \in Tally
    BY <2>1, AddPartTyped
  <2>3. CASE b.kind = "tool"
    <3>1. ~(b.kind \in DOMAIN t) /\ ~(w.kind \in DOMAIN t)
      BY <2>1, <2>3 DEF Tally
    <3> QED
      BY <2>2, <3>1 DEF AddPart, b, w
  <2>4. CASE b.kind # "tool"
    BY <2>1, <2>2, <2>4 DEF AddPart, b, w
  <2> QED
    BY <2>3, <2>4
<1>4. PartsFold!Through(NoParts, s.blocks) = PartsFold!Through(NoParts, v.blocks)
  <2> HIDE DEF Tally
  <2> QED
    BY <1>2, <1>3, NoPartsTyped, PartsFold!ThroughAlike
<1> QED
  BY <1>1, <1>4, Zenon

\* What is complete carries the reply.
Got(r, s, v) ==
  /\ Parts!Through(NoParts, v.blocks)["text"] = r.text + r.refusal
  /\ Parts!Through(NoParts, v.blocks)["thinking"] = r.think
  /\ \A i \in DOMAIN r.calls : v.blocks[s.tools[i].index + 1].args = r.calls[i].args

LEMMA CompletedGot ==
  ASSUME NEW s, MessagesState(s), NEW v, Completed(s, v), NEW r, Carries(s, r)
  PROVE  Got(r, s, v)
<1> DEFINE T == Parts!Through(NoParts, s.blocks)
<1>1. Parts!Through(NoParts, v.blocks) = T
  BY CompletedParts
<1>2. s.open.kind = "none"
  BY DEF Completed
<1>3. T["text"] \in Nat /\ T["thinking"] \in Nat
  BY HeldTyped
<1>4. Held(s, "text") = T["text"] + 0 /\ Held(s, "thinking") = T["thinking"] + 0
  BY <1>2 DEF Held
<1> HIDE DEF T
<1>5. T["text"] = r.text + r.refusal /\ T["thinking"] = r.think
  BY <1>3, <1>4 DEF Carries
<1>6. ASSUME NEW i \in DOMAIN r.calls
      PROVE  v.blocks[s.tools[i].index + 1].args = r.calls[i].args
  <2>1. i \in DOMAIN s.tools /\ s.tools[i].args = r.calls[i].args
    BY DEF Carries, Alike
  <2>2. /\ s.tools[i].index + 1 \in 1 .. Len(s.blocks)
        /\ s.blocks[s.tools[i].index + 1] = [kind |-> "tool", n |-> i]
    BY <2>1 DEF Completed, ToolsShown
  <2>3. v.blocks[s.tools[i].index + 1].args = s.tools[i].args
    BY <2>2, CompletedBlocks
  <2> QED
    BY <2>1, <2>3
<1> QED
  BY <1>1, <1>5, <1>6 DEF Got

\* What a client of Messages knows of the reply.
MessageTells(r, s, v) ==
  /\ v.ok = TRUE
  /\ v.end = IF ~s.done THEN "none" ELSE IF s.error THEN "failed" ELSE "complete"
  /\ v.end = "complete" =>
       /\ Messages!Content(s) =
            [k \in DOMAIN v.blocks |-> [f \in {"kind", "id", "n", "args"} |-> v.blocks[k][f]]]
       /\ Got(r, s, v)
       /\ r.finish # "none" /\ ~r.error /\ ~Messages!Broken(s)
  /\ v.end = "failed" => r.finish = "none" \/ r.error \/ Messages!Broken(s)

LEMMA MessagesMeans ==
  ASSUME NEW r, NEW s, NEW v, MessagesFit(r, s, v)
  PROVE  MessageTells(r, s, v)
<1> USE DEF MessageTells
<1>1. MessagesState(s)
  BY DEF MessagesFit
<1>2. CASE ~s.done
  BY <1>2 DEF MessagesFit, Running
<1>3. CASE s.done /\ ~s.error
  <2>1. v.ok = TRUE /\ Completed(s, v) /\ Carries(s, r) /\ ~Messages!Broken(s)
        /\ r.finish # "none" /\ ~r.error
    BY <1>3 DEF MessagesFit
  <2>2. Got(r, s, v)
    BY <1>1, <2>1, CompletedGot, Zenon
  <2>3. v.end = "complete"
    BY <2>1 DEF Completed
  <2> QED
    BY <1>1, <1>3, <2>1, <2>2, <2>3, CompletedFold
<1>4. CASE s.done /\ s.error
  BY <1>4 DEF MessagesFit
<1> QED
  BY <1>2, <1>3, <1>4

(***************************************************************************)
(* A client of the Responses API, event by event                           *)
(***************************************************************************)

Respondent == INSTANCE FoldProofs WITH Op <- ReadResponses

Flowing(v) == IsResponse(v) /\ v.ok = TRUE /\ v.end = "none"

\* What becomes of the items, and nothing else.
ReadsItems(w, items) == Flowing(w) /\ w.items = items

LEMMA DeadStays ==
  ASSUME NEW v, IsDead(v), NEW e
  PROVE  IsDead(ReadResponses(v, e))
<1>1. ReadResponses(v, e) = [v EXCEPT !.ok = FALSE]
  BY DEF ReadResponses, IsDead
<1> HIDE DEF ReadResponses
<1> QED
  BY <1>1 DEF IsDead, ResponseFields

LEMMA ReadsCreated ==
  ASSUME NEW v, Flowing(v)
  PROVE  ReadResponses(v, [type |-> "created"]) = v
BY DEF ReadResponses, Flowing

LEMMA ReadsFailed ==
  ASSUME NEW v, Flowing(v), NEW e, e.type = "failed"
  PROVE  ReadResponses(v, e).ok = TRUE /\ ReadResponses(v, e).end = "failed"
BY DEF ReadResponses, Flowing, IsResponse, ResponseFields

FirstParts(kind) == IF kind = "reasoning" THEN Summary(0) ELSE <<>>

IsOpenItem(x, own, parts) ==
  x \in ItemSet /\ x.kind = own /\ x.open = TRUE /\ x.args = <<>> /\ x.parts = parts

LEMMA OpenItemTyped ==
  ASSUME NEW own \in {"message", "reasoning", "call"}, NEW parts \in Seq(PartSet)
  PROVE  IsOpenItem(OpenItem(own, parts), own, parts)
<1>1. <<>> \in Seq(Pieces)
  OBVIOUS
<1> QED
  BY <1>1 DEF OpenItem, ItemSet, IsOpenItem

\* An open item whose parts change.
LEMMA OpenItemGrows ==
  ASSUME NEW own \in {"message", "reasoning", "call"}, NEW parts \in Seq(PartSet), NEW more
  PROVE  [OpenItem(own, parts) EXCEPT !.parts = more] = OpenItem(own, more)
<1> DEFINE x == OpenItem(own, parts)
           y == [x EXCEPT !.parts = more]
<1>1. IsOpenItem(x, own, parts)
  BY OpenItemTyped, Zenon
<1> HIDE DEF x
<1>2. /\ y = [kind |-> y.kind, open |-> y.open, args |-> y.args, parts |-> y.parts]
      /\ y.kind = own /\ y.open = TRUE /\ y.args = <<>> /\ y.parts = more
  BY <1>1 DEF ItemSet, IsOpenItem
<1> HIDE DEF y
<1>3. y = OpenItem(own, more)
  BY <1>2, Zenon DEF OpenItem
<1> QED
  BY <1>3, Zenon DEF x, y

LEMMA ReadsAdded ==
  ASSUME NEW v, Flowing(v), NEW kind \in {"message", "reasoning", "call"},
         NEW i, i = Len(v.items)
  PROVE  ReadsItems(ReadResponses(v, Responses!Added(i, kind)),
                    Append(v.items, OpenItem(kind, FirstParts(kind))))
<1> DEFINE e == Responses!Added(i, kind)
           items == Append(v.items, OpenItem(kind, FirstParts(kind)))
<1>1. e.type = "item_added" /\ e.index = i /\ e.kind = kind
  BY DEF Responses!Added
<1> HIDE DEF e
<1>2. v.items \in Seq(ItemSet) /\ DOMAIN v = ResponseFields /\ v.ok = TRUE /\ v.end = "none"
  BY DEF Flowing, IsResponse
<1>3. OpenItem(kind, FirstParts(kind)) =
        [kind |-> e.kind, open |-> TRUE, args |-> <<>>,
         parts |-> IF e.kind = "reasoning" THEN <<[kind |-> "summary", n |-> 0]>> ELSE <<>>]
  BY <1>1 DEF OpenItem, FirstParts, Summary
<1>4. OpenItem(kind, FirstParts(kind)) \in ItemSet
  <2>1. [kind |-> "summary", n |-> 0] \in PartSet
    BY DEF PartSet
  <2>2. FirstParts(kind) \in Seq(PartSet)
    <3> HIDE DEF PartSet
    <3> QED
      BY <2>1 DEF FirstParts, Summary
  <2> QED
    BY <2>2, OpenItemTyped, Zenon DEF IsOpenItem
<1>5. items \in Seq(ItemSet)
  <2> HIDE DEF ItemSet
  <2> QED
    BY <1>2, <1>4, ListTyped
<1>6. ReadResponses(v, e) = [v EXCEPT !.items = items]
  BY <1>1, <1>2, <1>3 DEF ReadResponses
<1> HIDE DEF items
<1>7. ReadsItems(ReadResponses(v, e), items)
  BY <1>2, <1>5, <1>6 DEF ReadsItems, Flowing, IsResponse, ResponseFields
<1> QED
  BY <1>7 DEF e, items

LEMMA ReadsMisplaced ==
  ASSUME NEW v, Flowing(v), NEW kind, NEW i, i # Len(v.items)
  PROVE  IsDead(ReadResponses(v, Responses!Added(i, kind)))
<1> DEFINE e == Responses!Added(i, kind)
<1>1. e.type = "item_added" /\ e.index = i
  BY DEF Responses!Added
<1> HIDE DEF e
<1>2. ReadResponses(v, e) = [v EXCEPT !.ok = FALSE]
  BY <1>1 DEF ReadResponses
<1>3. IsDead(ReadResponses(v, e))
  BY <1>2 DEF IsDead, Flowing, IsResponse, ResponseFields
<1> QED
  BY <1>3 DEF e

\* An item of the list grows.
LEMMA ItemChanges ==
  ASSUME NEW v, Flowing(v), NEW k \in 1 .. Len(v.items), NEW item \in ItemSet,
         NEW w, w = [v EXCEPT !.items[k] = item]
  PROVE  ReadsItems(w, [v.items EXCEPT ![k] = item])
<1>1. v.items \in Seq(ItemSet) /\ DOMAIN v = ResponseFields /\ v.ok = TRUE /\ v.end = "none"
  BY DEF Flowing, IsResponse
<1>2. [v.items EXCEPT ![k] = item] \in Seq(ItemSet)
  <2> HIDE DEF ItemSet
  <2> QED
    BY <1>1
<1>3. /\ DOMAIN w = ResponseFields /\ w.ok = TRUE /\ w.end = "none"
      /\ w.items = [v.items EXCEPT ![k] = item]
  BY <1>1 DEF ResponseFields
<1> QED
  BY <1>2, <1>3 DEF ReadsItems, Flowing, IsResponse

LEMMA ReadsPart ==
  ASSUME NEW v, Flowing(v), NEW i \in Nat, i + 1 \in 1 .. Len(v.items),
         NEW parts \in Seq(PartSet), v.items[i + 1] = OpenItem("message", parts),
         NEW kind \in {"text", "refusal"}, NEW n, n = Len(parts) + 1
  PROVE  ReadsItems(ReadResponses(v, [type |-> "part_added", index |-> i, part |-> n, kind |-> kind]),
                    [v.items EXCEPT ![i + 1] =
                       OpenItem("message", Append(parts, [kind |-> kind, n |-> 0]))])
<1> DEFINE e == [type |-> "part_added", index |-> i, part |-> n, kind |-> kind]
           k == i + 1
           p == [kind |-> kind, n |-> 0]
           item == OpenItem("message", Append(parts, p))
<1>1. e.type = "part_added" /\ e.index = i /\ e.part = n /\ e.kind = kind
  OBVIOUS
<1> HIDE DEF e
<1>2. /\ v.items \in Seq(ItemSet) /\ DOMAIN v = ResponseFields /\ v.ok = TRUE /\ v.end = "none"
      /\ k \in DOMAIN v.items /\ k \in 1 .. Len(v.items)
  BY DEF Flowing, IsResponse
<1>3. /\ v.items[k].open = TRUE /\ v.items[k].kind = "message" /\ v.items[k].parts = parts
  BY DEF OpenItem
<1>4. ReadResponses(v, e) = [v EXCEPT !.items[k].parts = Append(@, p)]
  BY <1>1, <1>2, <1>3 DEF ReadResponses
<1>5. [OpenItem("message", parts) EXCEPT !.parts = Append(@, p)] = item
  <2>1. OpenItem("message", parts).parts = parts
    BY DEF OpenItem
  <2>2. [OpenItem("message", parts) EXCEPT !.parts = Append(parts, p)] = item
    BY OpenItemGrows, Zenon
  <2> QED
    BY <2>1, <2>2
<1>6. p \in PartSet /\ Append(parts, p) \in Seq(PartSet)
  <2>1. p \in PartSet
    BY DEF PartSet
  <2> HIDE DEF p
  <2> QED
    BY <2>1, ListTyped, Zenon
<1>7. item \in ItemSet
  <2> HIDE DEF p
  <2> QED
    BY <1>6 DEF OpenItem, ItemSet
<1> HIDE DEF p, item
<1>8. ReadResponses(v, e) = [v EXCEPT !.items[k] = item]
  <2>1. [v EXCEPT !.items[k].parts = Append(@, p)] =
          [v EXCEPT !.items[k] = [v.items[k] EXCEPT !.parts = Append(@, p)]]
    OBVIOUS
  <2>2. [v.items[k] EXCEPT !.parts = Append(@, p)] = item
    BY <1>5
  <2> QED
    BY <1>4, <2>1, <2>2, Zenon
<1>9. ReadsItems(ReadResponses(v, e), [v.items EXCEPT ![k] = item])
  BY <1>2, <1>7, <1>8, ItemChanges, Zenon
<1> QED
  BY <1>9, Zenon DEF e, item, p

\* The last part of a message, or the summary of the reasoning.
LEMMA ReadsDelta ==
  ASSUME NEW v, Flowing(v), NEW i \in Nat, i + 1 \in 1 .. Len(v.items),
         NEW own \in {"message", "reasoning"}, NEW parts \in Seq(PartSet),
         v.items[i + 1] = OpenItem(own, parts), NEW n \in 1 .. Len(parts), NEW kind,
         \/ own = "reasoning" /\ kind = "reasoning"
         \/ own = "message" /\ kind \in {"text", "refusal"} /\ parts[n].kind = kind
  PROVE  ReadsItems(ReadResponses(v, Responses!PartDelta(i, kind, n)),
                    [v.items EXCEPT ![i + 1] = OpenItem(own, [parts EXCEPT ![n].n = @ + 1])])
<1> DEFINE e == Responses!PartDelta(i, kind, n)
           k == i + 1
           grown == [parts EXCEPT ![n].n = @ + 1]
           item == OpenItem(own, grown)
<1>1. e.type = "delta" /\ e.index = i /\ e.part = n /\ e.kind = kind
  BY DEF Responses!PartDelta
<1> HIDE DEF e
<1>2. /\ v.items \in Seq(ItemSet) /\ DOMAIN v = ResponseFields /\ v.ok = TRUE /\ v.end = "none"
      /\ k \in DOMAIN v.items /\ k \in 1 .. Len(v.items)
  BY DEF Flowing, IsResponse
<1>3. /\ v.items[k].open = TRUE /\ v.items[k].kind = own /\ v.items[k].parts = parts
      /\ n \in DOMAIN parts
  BY DEF OpenItem
<1>4. ReadResponses(v, e) = [v EXCEPT !.items[k].parts[n].n = @ + 1]
  BY <1>1, <1>2, <1>3 DEF ReadResponses
<1>5. grown \in Seq(PartSet)
  <2>1. parts[n] \in PartSet
    <3> HIDE DEF PartSet
    <3> QED
      OBVIOUS
  <2>2. [parts[n] EXCEPT !.n = @ + 1] \in PartSet
    BY <2>1 DEF PartSet
  <2> DEFINE p == [parts[n] EXCEPT !.n = @ + 1]
  <2>3. grown = [parts EXCEPT ![n] = p]
    OBVIOUS
  <2> HIDE DEF p, PartSet, grown
  <2> QED
    BY <2>2, <2>3 DEF p
<1>6. [OpenItem(own, parts) EXCEPT !.parts[n].n = @ + 1] = item
  <2> DEFINE x == OpenItem(own, parts)
  <2>1. x.parts = parts
    BY DEF OpenItem
  <2>2. own \in {"message", "reasoning", "call"}
    OBVIOUS
  <2>3. [x EXCEPT !.parts = grown] = item
    BY <2>2, OpenItemGrows, Zenon
  <2> HIDE DEF x, item
  <2>4. [x EXCEPT !.parts[n].n = @ + 1] = [x EXCEPT !.parts = [x.parts EXCEPT ![n].n = @ + 1]]
    OBVIOUS
  <2> QED
    BY <2>1, <2>3, <2>4, Zenon DEF x
<1> HIDE DEF grown
<1>7. item \in ItemSet
  BY <1>5 DEF OpenItem, ItemSet
<1> HIDE DEF item
<1>8. ReadResponses(v, e) = [v EXCEPT !.items[k] = item]
  <2>1. [v EXCEPT !.items[k].parts[n].n = @ + 1] =
          [v EXCEPT !.items[k] = [v.items[k] EXCEPT !.parts[n].n = @ + 1]]
    OBVIOUS
  <2>2. [v.items[k] EXCEPT !.parts[n].n = @ + 1] = item
    BY <1>6
  <2> QED
    BY <1>4, <2>1, <2>2, Zenon
<1>9. ReadsItems(ReadResponses(v, e), [v.items EXCEPT ![k] = item])
  BY <1>2, <1>7, <1>8, ItemChanges, Zenon
<1> QED
  BY <1>9, Zenon DEF e, item, grown

LEMMA ReadsDone ==
  ASSUME NEW v, Flowing(v), NEW i \in Nat, i + 1 \in 1 .. Len(v.items),
         NEW own \in {"message", "reasoning", "call"}, NEW parts \in Seq(PartSet),
         v.items[i + 1] = OpenItem(own, parts), NEW args \in Seq(Pieces)
  PROVE  ReadsItems(ReadResponses(v, Responses!Done(i, Responses!Item(own, parts, args))),
                    [v.items EXCEPT ![i + 1] =
                       [kind |-> own, open |-> FALSE, args |-> args, parts |-> parts]])
<1> DEFINE o == Responses!Item(own, parts, args)
           e == Responses!Done(i, o)
           k == i + 1
           item == [kind |-> own, open |-> FALSE, args |-> args, parts |-> parts]
<1>1. /\ e.type = "item_done" /\ e.index = i /\ e.item.kind = own /\ e.item.parts = parts
      /\ e.item.args = args
  BY DEF Responses!Done, Responses!Item
<1> HIDE DEF e
<1>2. /\ v.items \in Seq(ItemSet) /\ DOMAIN v = ResponseFields /\ v.ok = TRUE /\ v.end = "none"
      /\ k \in DOMAIN v.items /\ k \in 1 .. Len(v.items)
  BY DEF Flowing, IsResponse
<1>3. v.items[k].open = TRUE /\ v.items[k].kind = own /\ v.items[k].parts = parts
  BY DEF OpenItem
<1>4. ReadResponses(v, e) = [v EXCEPT !.items[k].open = FALSE, !.items[k].args = args]
  BY <1>1, <1>2, <1>3 DEF ReadResponses
<1>5. [OpenItem(own, parts) EXCEPT !.open = FALSE, !.args = args] = item
  <2> DEFINE x == OpenItem(own, parts)
             no == FALSE
             z == [x EXCEPT !.open = no]
             y == [z EXCEPT !.args = args]
  <2>1. IsOpenItem(x, own, parts)
    BY OpenItemTyped, Zenon
  <2> HIDE DEF x
  <2>2. [x EXCEPT !.open = FALSE, !.args = args] = y
    OBVIOUS
  <2> HIDE DEF no
  <2>3. /\ z = [kind |-> z.kind, open |-> z.open, args |-> z.args, parts |-> z.parts]
        /\ z.kind = own /\ z.open = no /\ z.parts = parts
    BY <2>1 DEF ItemSet, IsOpenItem
  <2> HIDE DEF z
  <2>4. /\ y = [kind |-> y.kind, open |-> y.open, args |-> y.args, parts |-> y.parts]
        /\ y.kind = own /\ y.open = no /\ y.args = args /\ y.parts = parts
    BY <2>3
  <2> HIDE DEF y
  <2>5. y = item
    BY <2>4, Zenon DEF no
  <2> QED
    BY <2>2, <2>5, Zenon DEF x, y
<1>6. item \in ItemSet
  BY DEF ItemSet
<1> HIDE DEF item
<1>7. ReadResponses(v, e) = [v EXCEPT !.items[k] = item]
  <2>1. [v EXCEPT !.items[k].open = FALSE, !.items[k].args = args] =
          [v EXCEPT !.items[k] = [v.items[k] EXCEPT !.open = FALSE, !.args = args]]
    BY <1>2
  <2>2. [v.items[k] EXCEPT !.open = FALSE, !.args = args] = item
    BY <1>5
  <2> QED
    BY <1>4, <2>1, <2>2, Zenon
<1>8. ReadsItems(ReadResponses(v, e), [v.items EXCEPT ![k] = item])
  BY <1>2, <1>6, <1>7, ItemChanges, Zenon
<1> QED
  BY <1>8, Zenon DEF e, o, item

LEMMA ReadsCompleted ==
  ASSUME NEW v, Flowing(v), \A i \in 1 .. Len(v.items) : v.items[i].open = FALSE,
         NEW output \in Seq(OutputSet), Len(output) = Len(v.items),
         \A i \in 1 .. Len(v.items) : SameItem(v.items[i], output[i])
  PROVE  LET w == ReadResponses(v, [type |-> "completed", output |-> output])
         IN w.ok = TRUE /\ w.end = "complete" /\ w.items = v.items
<1> DEFINE e == [type |-> "completed", output |-> output]
           F(i) == [f \in {"kind", "parts", "args"} |-> v.items[i][f]]
<1>1. e.type = "completed" /\ e.output = output
  OBVIOUS
<1> HIDE DEF e
<1>2. /\ v.items \in Seq(ItemSet) /\ DOMAIN v = ResponseFields /\ v.ok = TRUE /\ v.end = "none"
      /\ DOMAIN v.items = 1 .. Len(v.items)
  BY DEF Flowing, IsResponse
<1>3. ASSUME NEW i \in 1 .. Len(v.items) PROVE output[i] = F(i)
  <2>1. output[i] \in OutputSet
    <3> HIDE DEF OutputSet
    <3> QED
      OBVIOUS
  <2>2. output[i].kind = v.items[i].kind /\ output[i].parts = v.items[i].parts
        /\ output[i].args = v.items[i].args
    BY DEF SameItem
  <2> QED
    BY <2>1, <2>2 DEF OutputSet
<1> HIDE DEF F
<1>4. output = [i \in DOMAIN v.items |-> F(i)]
  <2>1. output = [i \in 1 .. Len(output) |-> output[i]]
    <3> HIDE DEF OutputSet
    <3> QED
      OBVIOUS
  <2> QED
    BY <1>2, <1>3, <2>1
<1>5. \A i \in DOMAIN v.items : ~v.items[i].open
  BY <1>2
<1>6. e.output = [i \in DOMAIN v.items |-> [f \in {"kind", "parts", "args"} |-> v.items[i][f]]]
  BY <1>1, <1>4, Zenon DEF F
<1>7. ReadResponses(v, e) = [v EXCEPT !.end = "complete"]
  BY <1>1, <1>2, <1>5, <1>6 DEF ReadResponses
<1>8. /\ ReadResponses(v, e).ok = TRUE /\ ReadResponses(v, e).end = "complete"
      /\ ReadResponses(v, e).items = v.items
  BY <1>2, <1>7 DEF ResponseFields
<1> QED
  BY <1>8 DEF e

(***************************************************************************)
(* What items hold                                                         *)
(***************************************************************************)

ItemsFold == INSTANCE FoldProofs WITH Op <- AddItem

LEMMA PartsKept ==
  ASSUME NEW t \in Tally, NEW q \in Seq(PartSet)
  PROVE  Parts!Through(t, q) \in Tally
<1> DEFINE K == {"text", "refusal", "summary"}
<1>1. q \in Seq([kind : K, n : Nat])
  BY DEF PartSet
<1> HIDE DEF K
<1> QED
  BY <1>1, PartsTyped, Zenon

LEMMA PartsFew ==
  ASSUME NEW t, NEW p
  PROVE  Parts!Through(t, <<>>) = t /\ Parts!Through(t, <<p>>) = AddPart(t, p)
<1>1. \A q : Parts!Through(t, q) = PartsFold!Through(t, q)
  BY Zenon DEF Parts!Through, PartsFold!Through
<1>2. PartsFold!Through(t, <<>>) = t /\ PartsFold!Through(t, <<p>>) = AddPart(t, p)
  BY PartsFold!ThroughNone, PartsFold!ThroughOne, Zenon
<1> QED
  BY <1>1, <1>2, Zenon

\* The last part grows.
LEMMA LastPartGrows ==
  ASSUME NEW t \in Tally, NEW p \in Seq(PartSet), p # <<>>, NEW q,
         q = [p EXCEPT ![Len(p)].n = @ + 1], NEW kind \in {"text", "refusal", "summary"}
  PROVE  /\ q \in Seq(PartSet) /\ Parts!Through(t, p)[kind] \in Nat
         /\ Parts!Through(t, q)[kind] =
              Parts!Through(t, p)[kind] + IF p[Len(p)].kind = kind THEN 1 ELSE 0
<1> DEFINE n == Len(p)
           last == p[Len(p)]
           more == [p[Len(p)] EXCEPT !.n = @ + 1]
           first == PartsFold!First(p, Len(p) - 1)
           u == PartsFold!Through(t, first)
<1>1. n \in Nat /\ n > 0 /\ n \in 1 .. Len(p) /\ last \in PartSet
  <2> HIDE DEF PartSet
  <2> QED
    OBVIOUS
<1>0. \A x \in PartSet : /\ [x EXCEPT !.n = @ + 1] \in PartSet
                         /\ [x EXCEPT !.n = @ + 1].kind = x.kind
                         /\ [x EXCEPT !.n = @ + 1].n = x.n + 1 /\ x.n \in Nat
  BY DEF PartSet
<1>2. more \in PartSet /\ more.kind = last.kind /\ more.n = last.n + 1 /\ last.n \in Nat
  <2> HIDE DEF PartSet
  <2> QED
    BY <1>0, <1>1
<1> HIDE DEF last, more
<1>3. q = [p EXCEPT ![n] = more]
  BY DEF more
<1>4. q \in Seq(PartSet) /\ Len(q) = n /\ q[n] = more
  <2> HIDE DEF PartSet
  <2> QED
    BY <1>1, <1>2, <1>3
<1>5. first \in Seq(PartSet)
  <2> HIDE DEF PartSet
  <2> QED
    BY <1>1 DEF PartsFold!First
<1>6. PartsFold!First(q, n - 1) = first
  <2> HIDE DEF PartSet
  <2> QED
    BY <1>1, <1>3 DEF PartsFold!First
<1> HIDE DEF first
<1>7. \A x : Parts!Through(t, x) = PartsFold!Through(t, x)
  BY Zenon DEF Parts!Through, PartsFold!Through
<1>8. u \in Tally
  BY <1>5, <1>7, PartsKept
<1>9. Parts!Through(t, p) = AddPart(u, last)
  <2>1. PartsFold!Through(t, p) = AddPart(u, last)
    BY <1>1, PartsFold!ThroughLast DEF first, last
  <2> QED
    BY <1>7, <2>1, Zenon
<1>10. Parts!Through(t, q) = AddPart(u, more)
  <2>1. PartsFold!Through(t, q) = AddPart(PartsFold!Through(t, PartsFold!First(q, Len(q) - 1)), q[Len(q)])
    BY <1>1, <1>4, PartsFold!ThroughLast
  <2> QED
    BY <1>4, <1>6, <1>7, <2>1, Zenon
<1> HIDE DEF u
<1>11. u[kind] \in Nat
  BY <1>8 DEF Tally
<1>12. AddPart(u, last)[kind] = u[kind] + IF last.kind = kind THEN last.n ELSE 0
  BY <1>2, <1>8, AddPartTyped
<1>13. AddPart(u, more)[kind] = u[kind] + IF last.kind = kind THEN last.n + 1 ELSE 0
  BY <1>2, <1>8, AddPartTyped
<1> QED
  BY <1>2, <1>4, <1>9, <1>10, <1>11, <1>12, <1>13 DEF last

LEMMA ItemsTyped ==
  ASSUME NEW t \in Tally, NEW q \in Seq(OutputSet)
  PROVE  Items!Through(t, q) \in Tally
<1> DEFINE good == [n \in Nat |-> Tally]
<1>1. Items!Through(t, q) = ItemsFold!Through(t, q)
  BY Zenon DEF Items!Through, ItemsFold!Through
<1>2. Len(q) \in Nat /\ t \in good[0]
  OBVIOUS
<1>3. \A n \in 1 .. Len(q) : \A u \in good[n - 1] : AddItem(u, q[n]) \in good[n]
  <2> TAKE n \in 1 .. Len(q)
  <2>1. q[n] \in OutputSet /\ n \in Nat /\ n - 1 \in Nat
    <3> HIDE DEF OutputSet, good
    <3> QED
      OBVIOUS
  <2>2. q[n].parts \in Seq(PartSet)
    <3> HIDE DEF PartSet
    <3> QED
      BY <2>1 DEF OutputSet
  <2>3. \A u \in Tally : AddItem(u, q[n]) \in Tally
    BY <2>2, PartsKept, Zenon DEF AddItem
  <2> QED
    BY <2>1, <2>3
<1>4. Len(q) \in Nat => good[Len(q)] = Tally
  OBVIOUS
<1> HIDE DEF good
<1>5. ItemsFold!Through(t, q) \in good[Len(q)]
  BY <1>2, <1>3, ItemsFold!ThroughKeeps
<1> QED
  BY <1>1, <1>2, <1>4, <1>5, Zenon

LEMMA ItemsAppend ==
  ASSUME NEW t, NEW q \in Seq(OutputSet), NEW item
  PROVE  Items!Through(t, Append(q, item)) = Parts!Through(Items!Through(t, q), item.parts)
<1>1. \A x : Items!Through(t, x) = ItemsFold!Through(t, x)
  BY Zenon DEF Items!Through, ItemsFold!Through
<1>2. ItemsFold!IsList(q)
  BY Zenon DEF ItemsFold!IsList
<1>3. ItemsFold!Through(t, Append(q, item)) = AddItem(ItemsFold!Through(t, q), item)
  BY <1>2, ItemsFold!ThroughAppend, Zenon
<1> QED
  BY <1>1, <1>3, Zenon DEF AddItem

\* What is told is a number.
LEMMA ToldTyped ==
  ASSUME NEW s, s.output \in Seq(OutputSet), s.parts \in Seq(PartSet), s.think \in Nat,
         NEW kind \in {"text", "refusal", "summary"}
  PROVE  /\ Items!Through(NoParts, s.output) \in Tally
         /\ Parts!Through(Items!Through(NoParts, s.output), s.parts)[kind] \in Nat
         /\ Told(s, kind) \in Nat
<1> DEFINE I == Items!Through(NoParts, s.output)
           P == Parts!Through(I, s.parts)
<1>1. I \in Tally
  BY NoPartsTyped, ItemsTyped
<1> HIDE DEF I
<1>2. P \in Tally
  BY <1>1, PartsKept
<1> HIDE DEF P
<1>3. P[kind] \in Nat
  BY <1>2 DEF Tally
<1>4. Told(s, kind) = P[kind] + IF kind = "summary" THEN s.think ELSE 0
  BY Zenon DEF Told, P, I
<1> QED
  BY <1>1, <1>3, <1>4 DEF P, I

(***************************************************************************)
(* The Responses converter                                                 *)
(***************************************************************************)

\* A client that had read up to v, and now the events of this line so far.
Spoken(v, s) == ResponsesClient!Through(v, s.out)

LEMMA RespondentReads ==
  ASSUME NEW v, NEW q, IsList(q), NEW e
  PROVE  ResponsesClient!Through(v, Append(q, e)) =
           ReadResponses(ResponsesClient!Through(v, q), e)
<1>1. \A x : ResponsesClient!Through(v, x) = Respondent!Through(v, x)
  BY Zenon DEF ResponsesClient!Through, Respondent!Through
<1>2. Respondent!IsList(q)
  BY Zenon DEF IsList, Respondent!IsList
<1>3. Respondent!Through(v, Append(q, e)) = ReadResponses(Respondent!Through(v, q), e)
  BY <1>2, Respondent!ThroughAppend, Zenon
<1> QED
  BY <1>1, <1>3, Zenon

Written(s) == DOMAIN s = ResponsesFields /\ IsList(s.out)

\* t is c after one more event.
Sends(v, s, c, e, t) ==
  /\ DOMAIN t = ResponsesFields /\ IsList(t.out)
  /\ t.started = c.started /\ t.index = c.index /\ t.content = c.content /\ t.parts = c.parts
  /\ t.think = c.think /\ t.reasoning = c.reasoning /\ t.tools = c.tools
  /\ t.output = c.output /\ t.finish = c.finish /\ t.done = c.done /\ t.error = c.error
  /\ Spoken(v, t) = ReadResponses(Spoken(v, s), e)

LEMMA Sending ==
  ASSUME NEW v, NEW s, IsList(s.out), NEW c, DOMAIN c = ResponsesFields, c.out = s.out, NEW e
  PROVE  Sends(v, s, c, e, Responses!Emit(c, e))
<1> DEFINE t == Responses!Emit(c, e)
<1>1. /\ DOMAIN t = ResponsesFields /\ t.out = Append(s.out, e)
      /\ t.started = c.started /\ t.index = c.index /\ t.content = c.content /\ t.parts = c.parts
      /\ t.think = c.think /\ t.reasoning = c.reasoning /\ t.tools = c.tools
      /\ t.output = c.output /\ t.finish = c.finish /\ t.done = c.done /\ t.error = c.error
  BY DEF Responses!Emit, ResponsesFields
<1> HIDE DEF t
<1>2. IsList(t.out)
  BY <1>1, ListGrows
<1>3. Spoken(v, t) = ReadResponses(Spoken(v, s), e)
  <2>1. ResponsesClient!Through(v, Append(s.out, e)) =
          ReadResponses(ResponsesClient!Through(v, s.out), e)
    BY RespondentReads
  <2> QED
    BY <1>1, <2>1, Zenon DEF Spoken
<1> QED
  BY <1>1, <1>2, <1>3, Zenon DEF Sends, t

\* What the items do not change.
Aloof(s, t) ==
  t.tools = s.tools /\ t.finish = s.finish /\ t.done = s.done /\ t.error = s.error

\* The converter goes on, and a mistake stays one.
Kept(v, s, t) ==
  /\ Written(t) /\ Aloof(s, t)
  /\ IsDead(Spoken(v, s)) => IsDead(Spoken(v, t))

LEMMA SendsKept ==
  ASSUME NEW v, NEW s, NEW c, NEW e, NEW t, Sends(v, s, c, e, t), Aloof(s, c)
  PROVE  Kept(v, s, t)
<1>1. IsDead(Spoken(v, s)) => IsDead(ReadResponses(Spoken(v, s), e))
  BY DeadStays, Zenon
<1> QED
  BY <1>1, Zenon DEF Kept, Sends, Aloof, Written

LEMMA KeptOn ==
  ASSUME NEW v, NEW s, NEW t, NEW u, Kept(v, s, t), Kept(v, t, u)
  PROVE  Kept(v, s, u)
BY Zenon DEF Kept, Aloof

LEMMA KeptStill ==
  ASSUME NEW v, NEW s, Written(s)
  PROVE  Kept(v, s, s)
BY Zenon DEF Kept, Aloof

\* The fields of c are those of s but for some.
LEMMA FirstWriteKept ==
  ASSUME NEW v, NEW s, Written(s)
  PROVE  Kept(v, s, Responses!FirstWrite(s))
<1> DEFINE c == [s EXCEPT !.started = TRUE]
           e == [type |-> "created"]
<1>1. CASE s.started
  BY <1>1, KeptStill, Zenon DEF Responses!FirstWrite
<1>2. CASE ~s.started
  <2>1. DOMAIN c = ResponsesFields /\ c.out = s.out /\ Aloof(s, c)
    BY DEF Written, ResponsesFields, Aloof
  <2>2. Responses!FirstWrite(s) = Responses!Emit(c, e)
    BY <1>2, Zenon DEF Responses!FirstWrite
  <2> HIDE DEF c, e
  <2>3. Sends(v, s, c, e, Responses!Emit(c, e))
    BY <2>1, Sending, Zenon DEF Written
  <2> QED
    BY <2>1, <2>2, <2>3, SendsKept, Zenon
<1> QED
  BY <1>1, <1>2

LEMMA ThinkingKept ==
  ASSUME NEW v, NEW s, Written(s)
  PROVE  Kept(v, s, Responses!ProcessThinking(s))
<1> DEFINE a == [s EXCEPT !.reasoning = TRUE]
           d == Responses!Added(s.index, "reasoning")
           t == IF s.reasoning THEN s ELSE Responses!Emit(a, d)
           c == [t EXCEPT !.think = @ + 1]
           e == Responses!PartDelta(s.index, "reasoning", 1)
<1>1. Responses!ProcessThinking(s) = Responses!Emit(c, e)
  BY Zenon DEF Responses!ProcessThinking
<1>2. Kept(v, s, t)
  <2>1. DOMAIN a = ResponsesFields /\ a.out = s.out /\ Aloof(s, a)
    BY DEF Written, ResponsesFields, Aloof
  <2> HIDE DEF a, d
  <2>2. Sends(v, s, a, d, Responses!Emit(a, d))
    BY <2>1, Sending, Zenon DEF Written
  <2>3. Kept(v, s, Responses!Emit(a, d))
    BY <2>1, <2>2, SendsKept, Zenon
  <2> QED
    BY <2>3, KeptStill, Zenon
<1> HIDE DEF t
<1>3. DOMAIN c = ResponsesFields /\ c.out = t.out /\ Aloof(t, c) /\ IsList(t.out)
  BY <1>2 DEF Kept, Written, ResponsesFields, Aloof
<1> HIDE DEF c, e
<1>4. Sends(v, t, c, e, Responses!Emit(c, e))
  BY <1>3, Sending, Zenon
<1>5. Kept(v, t, Responses!Emit(c, e))
  BY <1>3, <1>4, SendsKept, Zenon
<1> QED
  BY <1>1, <1>2, <1>5, KeptOn, Zenon

LEMMA ReasoningKept ==
  ASSUME NEW v, NEW s, Written(s)
  PROVE  Kept(v, s, Responses!FinishReasoning(s))
<1> DEFINE item == Responses!Item("reasoning", <<[kind |-> "summary", n |-> s.think]>>, <<>>)
           c == [s EXCEPT !.reasoning = FALSE, !.think = 0, !.index = @ + 1,
                          !.output = Append(@, item)]
           e == Responses!Done(s.index, item)
<1>1. CASE ~s.reasoning
  BY <1>1, KeptStill, Zenon DEF Responses!FinishReasoning
<1>2. CASE s.reasoning
  <2> HIDE DEF item
  <2>1. DOMAIN c = ResponsesFields /\ c.out = s.out /\ Aloof(s, c)
    BY DEF Written, ResponsesFields, Aloof
  <2>2. Responses!FinishReasoning(s) = Responses!Emit(c, e)
    BY <1>2, Zenon DEF Responses!FinishReasoning, item
  <2> HIDE DEF c, e
  <2>3. Sends(v, s, c, e, Responses!Emit(c, e))
    BY <2>1, Sending, Zenon DEF Written
  <2> QED
    BY <2>1, <2>2, <2>3, SendsKept, Zenon
<1> QED
  BY <1>1, <1>2

LEMMA OpenMessageKept ==
  ASSUME NEW v, NEW s, Written(s)
  PROVE  Kept(v, s, Responses!OpenMessage(s))
<1> DEFINE c == [s EXCEPT !.content = TRUE]
           e == Responses!Added(s.index, "message")
<1>1. CASE s.content
  BY <1>1, KeptStill, Zenon DEF Responses!OpenMessage
<1>2. CASE ~s.content
  <2>1. DOMAIN c = ResponsesFields /\ c.out = s.out /\ Aloof(s, c)
    BY DEF Written, ResponsesFields, Aloof
  <2>2. Responses!OpenMessage(s) = Responses!Emit(c, e)
    BY <1>2, Zenon DEF Responses!OpenMessage
  <2> HIDE DEF c, e
  <2>3. Sends(v, s, c, e, Responses!Emit(c, e))
    BY <2>1, Sending, Zenon DEF Written
  <2> QED
    BY <2>1, <2>2, <2>3, SendsKept, Zenon
<1> QED
  BY <1>1, <1>2

LEMMA OpenPartKept ==
  ASSUME NEW v, NEW s, Written(s), NEW kind
  PROVE  Kept(v, s, Responses!OpenPart(s, kind))
<1> DEFINE c == [s EXCEPT !.parts = Append(@, [kind |-> kind, n |-> 0])]
           e == [type |-> "part_added", index |-> s.index, part |-> Len(s.parts) + 1,
                 kind |-> kind]
           has == s.parts # <<>> /\ s.parts[Len(s.parts)].kind = kind
<1>1. CASE has
  BY <1>1, KeptStill, Zenon DEF Responses!OpenPart
<1>2. CASE ~has
  <2>1. DOMAIN c = ResponsesFields /\ c.out = s.out /\ Aloof(s, c)
    BY DEF Written, ResponsesFields, Aloof
  <2>2. Responses!OpenPart(s, kind) = Responses!Emit(c, e)
    BY <1>2, Zenon DEF Responses!OpenPart
  <2> HIDE DEF c, e
  <2>3. Sends(v, s, c, e, Responses!Emit(c, e))
    BY <2>1, Sending, Zenon DEF Written
  <2> QED
    BY <2>1, <2>2, <2>3, SendsKept, Zenon
<1> QED
  BY <1>1, <1>2

LEMMA GrowPartKept ==
  ASSUME NEW v, NEW s, Written(s), NEW kind
  PROVE  Kept(v, s, Responses!GrowPart(s, kind))
<1> DEFINE k == Len(s.parts)
           c == [s EXCEPT !.parts[k].n = @ + 1]
           e == Responses!PartDelta(s.index, kind, k)
<1>1. DOMAIN c = ResponsesFields /\ c.out = s.out /\ Aloof(s, c)
  BY DEF Written, ResponsesFields, Aloof
<1>2. Responses!GrowPart(s, kind) = Responses!Emit(c, e)
  BY Zenon DEF Responses!GrowPart
<1> HIDE DEF c, e
<1>3. Sends(v, s, c, e, Responses!Emit(c, e))
  BY <1>1, Sending, Zenon DEF Written
<1> QED
  BY <1>1, <1>2, <1>3, SendsKept, Zenon

LEMMA PartKept ==
  ASSUME NEW v, NEW s, Written(s), NEW kind
  PROVE  Kept(v, s, Responses!ProcessPart(s, kind))
<1> DEFINE a == Responses!FinishReasoning(s)
           b == Responses!OpenMessage(a)
           c == Responses!OpenPart(b, kind)
           d == Responses!GrowPart(c, kind)
<1>1. Kept(v, s, a)
  BY ReasoningKept, Zenon
<1>2. Kept(v, a, b)
  BY <1>1, OpenMessageKept, Zenon DEF Kept
<1>3. Kept(v, b, c)
  BY <1>2, OpenPartKept, Zenon DEF Kept
<1>4. Kept(v, c, d)
  BY <1>3, GrowPartKept, Zenon DEF Kept
<1>5. Kept(v, s, d)
  <2> HIDE DEF a, b, c, d
  <2> QED
    BY <1>1, <1>2, <1>3, <1>4, KeptOn, Zenon
<1> QED
  BY <1>5, Zenon DEF Responses!ProcessPart

LEMMA MessageKept ==
  ASSUME NEW v, NEW s, Written(s)
  PROVE  Kept(v, s, Responses!FinishMessageItem(s))
<1> DEFINE item == Responses!Item("message", s.parts, <<>>)
           c == [s EXCEPT !.content = FALSE, !.parts = <<>>, !.index = @ + 1,
                          !.output = Append(@, item)]
           e == Responses!Done(s.index, item)
<1>1. CASE ~s.content
  BY <1>1, KeptStill, Zenon DEF Responses!FinishMessageItem
<1>2. CASE s.content
  <2> HIDE DEF item
  <2>1. DOMAIN c = ResponsesFields /\ c.out = s.out /\ Aloof(s, c)
    BY DEF Written, ResponsesFields, Aloof
  <2>2. Responses!FinishMessageItem(s) = Responses!Emit(c, e)
    BY <1>2, Zenon DEF Responses!FinishMessageItem, item
  <2> HIDE DEF c, e
  <2>3. Sends(v, s, c, e, Responses!Emit(c, e))
    BY <2>1, Sending, Zenon DEF Written
  <2> QED
    BY <2>1, <2>2, <2>3, SendsKept, Zenon
<1> QED
  BY <1>1, <1>2

LEMMA CallKept ==
  ASSUME NEW v, NEW s, Written(s), NEW call
  PROVE  Kept(v, s, Responses!EmitCall(s, call))
<1> DEFINE item == Responses!Item("call", <<>>, call.args)
           c == [s EXCEPT !.index = @ + 1, !.output = Append(@, item)]
           d == Responses!Added(s.index, "call")
           t == Responses!Emit(c, d)
           e == Responses!Done(s.index, item)
<1>1. Responses!EmitCall(s, call) = Responses!Emit(t, e)
  BY Zenon DEF Responses!EmitCall
<1> HIDE DEF item
<1>2. DOMAIN c = ResponsesFields /\ c.out = s.out /\ Aloof(s, c)
  BY DEF Written, ResponsesFields, Aloof
<1> HIDE DEF c, d, e
<1>3. Kept(v, s, t)
  <2>1. Sends(v, s, c, d, Responses!Emit(c, d))
    BY <1>2, Sending, Zenon DEF Written
  <2> QED
    BY <1>2, <2>1, SendsKept, Zenon
<1> HIDE DEF t
<1>4. Sends(v, t, t, e, Responses!Emit(t, e))
  BY <1>3, Sending, Zenon DEF Kept, Written
<1>5. Kept(v, t, Responses!Emit(t, e))
  BY <1>4, SendsKept, Zenon DEF Aloof
<1> QED
  BY <1>1, <1>3, <1>5, KeptOn, Zenon

\* The client of a response that streams has all of it so far.
Flows(v, s) == IsList(s.out) /\ Streamed(s, Spoken(v, s))

LEMMA FlowsWritten ==
  ASSUME NEW v, NEW s, Flows(v, s)
  PROVE  Written(s) /\ Flowing(Spoken(v, s))
BY DEF Flows, Streamed, Written, Flowing

SameItems(s, t) ==
  /\ t.index = s.index /\ t.content = s.content /\ t.parts = s.parts /\ t.think = s.think
  /\ t.reasoning = s.reasoning /\ t.output = s.output

LEMMA SameFlows ==
  ASSUME NEW s, NEW w, Streamed(s, w), NEW t, DOMAIN t = ResponsesFields, SameItems(s, t)
  PROVE  Streamed(t, w)
BY DEF Streamed, SameItems

LEMMA FirstWriteFlows ==
  ASSUME NEW v, NEW s, Flows(v, s)
  PROVE  Flows(v, Responses!FirstWrite(s)) /\ SameItems(s, Responses!FirstWrite(s))
<1> DEFINE c == [s EXCEPT !.started = TRUE]
           e == [type |-> "created"]
           t == Responses!FirstWrite(s)
<1>1. CASE s.started
  BY <1>1, Zenon DEF Responses!FirstWrite, SameItems
<1>2. CASE ~s.started
  <2>1. Written(s) /\ Flowing(Spoken(v, s)) /\ Streamed(s, Spoken(v, s))
    BY FlowsWritten DEF Flows
  <2>2. DOMAIN c = ResponsesFields /\ c.out = s.out /\ SameItems(s, c)
    BY <2>1 DEF Written, ResponsesFields, SameItems
  <2>3. t = Responses!Emit(c, e)
    BY <1>2, Zenon DEF Responses!FirstWrite
  <2>4. ReadResponses(Spoken(v, s), e) = Spoken(v, s)
    BY <2>1, ReadsCreated, Zenon
  <2> HIDE DEF c, e, t
  <2>5. Sends(v, s, c, e, t)
    BY <2>1, <2>2, <2>3, Sending, Zenon DEF Written
  <2>6. /\ DOMAIN t = ResponsesFields /\ IsList(t.out) /\ Spoken(v, t) = Spoken(v, s)
        /\ SameItems(s, t)
    BY <2>2, <2>4, <2>5 DEF Sends, SameItems
  <2>7. Streamed(t, Spoken(v, t))
    BY <2>1, <2>6, SameFlows, Zenon
  <2> QED
    BY <2>6, <2>7, Zenon DEF Flows, t
<1> QED
  BY <1>1, <1>2

(***************************************************************************)
(* An item opens, grows and is over                                        *)
(***************************************************************************)

LEMMA ItemOpens ==
  ASSUME NEW s, NEW w, Streamed(s, w), ~s.content, ~s.reasoning,
         NEW own \in {"message", "reasoning"},
         NEW t, DOMAIN t = ResponsesFields, t.index = s.index, t.output = s.output,
         t.parts = s.parts, t.think = s.think, t.content = (own = "message"),
         t.reasoning = (own = "reasoning"),
         NEW x, ReadsItems(x, Append(w.items, OpenItem(own, FirstParts(own))))
  PROVE  Streamed(t, x)
<1>1. /\ w.items \in Seq(ItemSet) /\ Len(w.items) = s.index /\ s.index \in Nat
      /\ s.think = 0 /\ s.parts = <<>>
      /\ \A k \in 1 .. s.index : w.items[k].open = FALSE /\ SameItem(w.items[k], s.output[k])
  BY DEF Streamed, IsResponse
<1>2. IsResponse(x) /\ x.ok = TRUE /\ x.end = "none"
      /\ x.items = Append(w.items, OpenItem(own, FirstParts(own)))
  BY DEF ReadsItems, Flowing
<1> DEFINE item == OpenItem(own, FirstParts(own))
<1> HIDE DEF item
<1>3. /\ Len(x.items) = s.index + 1 /\ x.items[s.index + 1] = item
      /\ \A k \in 1 .. s.index : x.items[k] = w.items[k]
  <2>1. x.items = Append(w.items, item)
    BY <1>2 DEF item
  <2> HIDE DEF ItemSet
  <2> QED
    BY <1>1, <2>1
<1>4. \A k \in 1 .. t.index : x.items[k].open = FALSE /\ SameItem(x.items[k], t.output[k])
  BY <1>1, <1>3
<1>5. own = "message" => item = OpenItem("message", t.parts)
  BY <1>1 DEF item, FirstParts
<1>6. own = "reasoning" => item = OpenItem("reasoning", Summary(t.think))
  BY <1>1 DEF item, FirstParts
<1> QED
  BY <1>1, <1>2, <1>3, <1>4, <1>5, <1>6 DEF Streamed

\* The item that grows is the last.
LEMMA ItemGrows ==
  ASSUME NEW s, NEW w, Streamed(s, w), s.content \/ s.reasoning,
         NEW t, DOMAIN t = ResponsesFields, t.index = s.index, t.output = s.output,
         t.content = s.content, t.reasoning = s.reasoning,
         t.parts \in Seq(PartSet), t.think \in Nat,
         s.content => t.think = s.think, s.reasoning => t.parts = s.parts,
         NEW x, ReadsItems(x, [w.items EXCEPT ![s.index + 1] =
                                 IF s.content THEN OpenItem("message", t.parts)
                                 ELSE OpenItem("reasoning", Summary(t.think))])
  PROVE  Streamed(t, x)
<1>1. /\ w.items \in Seq(ItemSet) /\ Len(w.items) = s.index + 1 /\ s.index \in Nat
      /\ \A k \in 1 .. s.index : w.items[k].open = FALSE /\ SameItem(w.items[k], s.output[k])
  BY DEF Streamed, IsResponse
<1> DEFINE item == IF s.content THEN OpenItem("message", t.parts)
                   ELSE OpenItem("reasoning", Summary(t.think))
<1>2. IsResponse(x) /\ x.ok = TRUE /\ x.end = "none"
      /\ x.items = [w.items EXCEPT ![s.index + 1] = item]
  BY DEF ReadsItems, Flowing
<1> HIDE DEF item
<1>3. /\ Len(x.items) = s.index + 1 /\ x.items[s.index + 1] = item
      /\ \A k \in 1 .. s.index : x.items[k] = w.items[k]
  <2> HIDE DEF ItemSet
  <2> QED
    BY <1>1, <1>2
<1>4. \A k \in 1 .. t.index : x.items[k].open = FALSE /\ SameItem(x.items[k], t.output[k])
  BY <1>1, <1>3
<1>5. s.content => item = OpenItem("message", t.parts)
  BY DEF item
<1>6. s.reasoning => item = OpenItem("reasoning", Summary(t.think))
  BY DEF item, Streamed
<1> QED
  BY <1>1, <1>2, <1>3, <1>4, <1>5, <1>6 DEF Streamed

\* One that is over joins the output.
LEMMA ItemOver ==
  ASSUME NEW s, s.index \in Nat, s.output \in Seq(OutputSet), Len(s.output) = s.index,
         NEW w, Len(w.items) = s.index + 1, w.items \in Seq(ItemSet),
         \A k \in 1 .. s.index : w.items[k].open = FALSE /\ SameItem(w.items[k], s.output[k]),
         NEW own \in {"message", "reasoning", "call"}, NEW parts \in Seq(PartSet),
         NEW args \in Seq(Pieces),
         NEW t, DOMAIN t = ResponsesFields, t.index = s.index + 1,
         t.output = Append(s.output, Responses!Item(own, parts, args)),
         t.parts = <<>>, t.think = 0, t.content = FALSE, t.reasoning = FALSE,
         NEW x, ReadsItems(x, [w.items EXCEPT ![s.index + 1] =
                                 [kind |-> own, open |-> FALSE, args |-> args, parts |-> parts]])
  PROVE  Streamed(t, x)
<1> DEFINE item == [kind |-> own, open |-> FALSE, args |-> args, parts |-> parts]
           o == Responses!Item(own, parts, args)
<1>1. o \in OutputSet /\ SameItem(item, o)
  BY DEF Responses!Item, OutputSet, SameItem
<1>2. item.open = FALSE
  OBVIOUS
<1>3. IsResponse(x) /\ x.ok = TRUE /\ x.end = "none"
      /\ x.items = [w.items EXCEPT ![s.index + 1] = item]
  BY DEF ReadsItems, Flowing
<1> HIDE DEF item, o
<1>4. /\ Len(x.items) = s.index + 1 /\ x.items[s.index + 1] = item
      /\ \A k \in 1 .. s.index : x.items[k] = w.items[k]
  <2> HIDE DEF ItemSet
  <2> QED
    BY <1>3
<1>5. /\ t.output \in Seq(OutputSet) /\ Len(t.output) = s.index + 1
      /\ t.output[s.index + 1] = o
      /\ \A k \in 1 .. s.index : t.output[k] = s.output[k]
  <2>1. t.output = Append(s.output, o)
    BY DEF o
  <2> HIDE DEF OutputSet
  <2> QED
    BY <1>1, <2>1
<1>6. ASSUME NEW k \in 1 .. t.index
      PROVE  x.items[k].open = FALSE /\ SameItem(x.items[k], t.output[k])
  <2>1. CASE k = s.index + 1
    BY <2>1, <1>1, <1>2, <1>4, <1>5
  <2>2. CASE k \in 1 .. s.index
    BY <2>2, <1>4, <1>5
  <2>3. k = s.index + 1 \/ k \in 1 .. s.index
    OBVIOUS
  <2> QED
    BY <2>1, <2>2, <2>3, Zenon
<1>7. /\ t.index \in Nat /\ t.content \in BOOLEAN /\ t.reasoning \in BOOLEAN /\ t.think \in Nat
      /\ t.parts \in Seq(PartSet) /\ ~(t.reasoning /\ t.content)
      /\ (~t.content => t.parts = <<>>) /\ (~t.reasoning => t.think = 0)
      /\ ~t.content /\ ~t.reasoning
  <2>1. t.index \in Nat /\ t.think \in Nat /\ t.parts \in Seq(PartSet)
    OBVIOUS
  <2>2. ~t.content /\ ~t.reasoning /\ t.content \in BOOLEAN /\ t.reasoning \in BOOLEAN
    OBVIOUS
  <2> QED
    BY <2>1, <2>2, Zenon
<1>8. /\ Len(t.output) = t.index
      /\ Len(x.items) = IF t.reasoning \/ t.content THEN t.index + 1 ELSE t.index
  BY <1>4, <1>5
<1>9. /\ t.content => x.items[t.index + 1] = OpenItem("message", t.parts)
      /\ t.reasoning => x.items[t.index + 1] = OpenItem("reasoning", Summary(t.think))
  OBVIOUS
<1> QED
  BY <1>3, <1>5, <1>6, <1>7, <1>8, <1>9, Zenon DEF Streamed

\* What it holds is told.
IsOver(s, item, t) ==
  /\ s.output \in Seq(OutputSet) /\ t.output = Append(s.output, item)
  /\ t.parts = <<>> /\ t.think = 0

LEMMA OverTells ==
  ASSUME NEW s, NEW item, NEW t, IsOver(s, item, t), NEW kind
  PROVE  Told(t, kind) =
           Parts!Through(Items!Through(NoParts, s.output), item.parts)[kind] + 0
<1> DEFINE I == Items!Through(NoParts, s.output)
           P == Parts!Through(I, item.parts)
<1>0. /\ s.output \in Seq(OutputSet) /\ t.output = Append(s.output, item)
      /\ t.parts = <<>> /\ t.think = 0
  BY DEF IsOver
<1>1. Items!Through(NoParts, t.output) = P
  <2>1. Items!Through(NoParts, Append(s.output, item)) = P
    BY <1>0, ItemsAppend, Zenon
  <2> QED
    BY <1>0, <2>1, Zenon
<1> HIDE DEF P
<1>2. Parts!Through(P, <<>>) = P
  BY PartsFew, Zenon
<1>3. Parts!Through(Items!Through(NoParts, t.output), t.parts) = P
  BY <1>0, <1>1, <1>2, Zenon
<1>4. Told(t, kind) = P[kind] + IF kind = "summary" THEN t.think ELSE 0
  BY <1>3, Zenon DEF Told
<1>5. Told(t, kind) = P[kind] + 0
  BY <1>0, <1>4
<1> QED
  BY <1>5, Zenon DEF P, I

(***************************************************************************)
(* What each step of the converter tells                                   *)
(***************************************************************************)

\* t tells so much more than s, and there is no call yet.
Tolds(s, t, text, refusal, summary) ==
  /\ Told(t, "text") = Told(s, "text") + text
  /\ Told(t, "refusal") = Told(s, "refusal") + refusal
  /\ Told(t, "summary") = Told(s, "summary") + summary
  /\ NoCallYet(s) => NoCallYet(t)

LEMMA FlowsTyped ==
  ASSUME NEW v, NEW s, Flows(v, s)
  PROVE  /\ s.output \in Seq(OutputSet) /\ s.parts \in Seq(PartSet) /\ s.think \in Nat
         /\ s.index \in Nat /\ s.content \in BOOLEAN /\ s.reasoning \in BOOLEAN
         /\ Len(s.output) = s.index
         /\ Told(s, "text") \in Nat /\ Told(s, "refusal") \in Nat /\ Told(s, "summary") \in Nat
<1>1. /\ s.output \in Seq(OutputSet) /\ s.parts \in Seq(PartSet) /\ s.think \in Nat
      /\ s.index \in Nat /\ s.content \in BOOLEAN /\ s.reasoning \in BOOLEAN
      /\ Len(s.output) = s.index
  BY DEF Flows, Streamed
<1> QED
  BY <1>1, ToldTyped

LEMMA TellsNothing ==
  ASSUME NEW v, NEW s, Flows(v, s), NEW t, t.output = s.output, t.index = s.index,
         t.parts = s.parts, t.think = s.think
  PROVE  Tolds(s, t, 0, 0, 0)
<1>1. \A kind : Told(t, kind) = Told(s, kind)
  BY Zenon DEF Told
<1>2. NoCallYet(s) => NoCallYet(t)
  BY Zenon DEF NoCallYet
<1> QED
  BY <1>1, <1>2, FlowsTyped DEF Tolds

LEMMA ToldsOn ==
  ASSUME NEW s, NEW t, NEW u, Told(s, "text") \in Nat, Told(s, "refusal") \in Nat,
         Told(s, "summary") \in Nat, NEW a \in Nat, NEW b \in Nat, NEW c \in Nat,
         NEW d \in Nat, NEW e \in Nat, NEW f \in Nat, Tolds(s, t, a, b, c), Tolds(t, u, d, e, f)
  PROVE  Tolds(s, u, a + d, b + e, c + f)
BY DEF Tolds

Thought(v, s, t) ==
  /\ Flows(v, t) /\ t.reasoning = TRUE /\ t.content = s.content /\ Tolds(s, t, 0, 0, 1)

LEMMA ReasoningOpens ==
  ASSUME NEW v, NEW s, Flows(v, s), ~s.content, ~s.reasoning,
         NEW t, t = Responses!Emit([s EXCEPT !.reasoning = TRUE],
                                   Responses!Added(s.index, "reasoning"))
  PROVE  /\ Flows(v, t) /\ t.index = s.index /\ t.output = s.output /\ t.parts = s.parts
         /\ t.think = s.think /\ t.content = s.content /\ t.reasoning = TRUE
<1> DEFINE c == [s EXCEPT !.reasoning = TRUE]
           e == Responses!Added(s.index, "reasoning")
           w == Spoken(v, s)
<1>1. Written(s) /\ Flowing(w) /\ Streamed(s, w)
  BY FlowsWritten DEF Flows
<1>2. /\ DOMAIN c = ResponsesFields /\ c.out = s.out /\ c.index = s.index
      /\ c.output = s.output /\ c.parts = s.parts /\ c.think = s.think
      /\ c.content = s.content /\ c.reasoning = TRUE
  BY <1>1 DEF Written, ResponsesFields
<1> HIDE DEF c
<1>3. Sends(v, s, c, e, t)
  BY <1>1, <1>2, Sending, Zenon DEF Written, c
<1>4. /\ DOMAIN t = ResponsesFields /\ IsList(t.out) /\ t.index = s.index
      /\ t.output = s.output /\ t.parts = s.parts /\ t.think = s.think
      /\ t.content = s.content /\ t.reasoning = TRUE
      /\ Spoken(v, t) = ReadResponses(w, e)
  BY <1>2, <1>3 DEF Sends
<1> DEFINE x == Spoken(v, t)
<1>5. ReadsItems(x, Append(w.items, OpenItem("reasoning", FirstParts("reasoning"))))
  <2>1. s.index = Len(w.items)
    BY <1>1 DEF Streamed
  <2>2. ReadsItems(ReadResponses(w, e),
                   Append(w.items, OpenItem("reasoning", FirstParts("reasoning"))))
    BY <1>1, <2>1, ReadsAdded, Zenon
  <2> QED
    BY <1>4, <2>2, Zenon
<1> HIDE DEF w, x
<1>6. t.content = ("reasoning" = "message") /\ t.reasoning = ("reasoning" = "reasoning")
  BY <1>1, <1>4 DEF Streamed
<1>7. Streamed(t, x)
  BY <1>1, <1>4, <1>5, <1>6, ItemOpens
<1> QED
  BY <1>4, <1>7 DEF Flows, x

LEMMA SummaryGrows ==
  ASSUME NEW v, NEW s, Flows(v, s), s.reasoning,
         NEW t, t = Responses!Emit([s EXCEPT !.think = @ + 1],
                                   Responses!PartDelta(s.index, "reasoning", 1))
  PROVE  Thought(v, s, t)
<1> DEFINE c == [s EXCEPT !.think = @ + 1]
           e == Responses!PartDelta(s.index, "reasoning", 1)
           w == Spoken(v, s)
<1>1. Written(s) /\ Flowing(w) /\ Streamed(s, w)
  BY FlowsWritten DEF Flows
<1>2. /\ DOMAIN c = ResponsesFields /\ c.out = s.out /\ c.index = s.index
      /\ c.output = s.output /\ c.parts = s.parts /\ c.think = s.think + 1
      /\ c.content = s.content /\ c.reasoning = s.reasoning
  BY <1>1 DEF Written, ResponsesFields
<1> HIDE DEF c
<1>3. Sends(v, s, c, e, t)
  BY <1>1, <1>2, Sending, Zenon DEF Written, c
<1>4. /\ DOMAIN t = ResponsesFields /\ IsList(t.out) /\ t.index = s.index
      /\ t.output = s.output /\ t.parts = s.parts /\ t.think = s.think + 1
      /\ t.content = s.content /\ t.reasoning = s.reasoning
      /\ Spoken(v, t) = ReadResponses(w, e)
  BY <1>2, <1>3 DEF Sends
<1> DEFINE x == Spoken(v, t)
<1>5. /\ s.index \in Nat /\ s.think \in Nat /\ s.index + 1 \in 1 .. Len(w.items)
      /\ w.items[s.index + 1] = OpenItem("reasoning", Summary(s.think))
      /\ ~s.content
  BY <1>1 DEF Streamed
<1>6. /\ Summary(s.think) \in Seq(PartSet) /\ 1 \in 1 .. Len(Summary(s.think))
      /\ [Summary(s.think) EXCEPT ![1].n = @ + 1] = Summary(t.think)
  <2>1. [kind |-> "summary", n |-> s.think] \in PartSet
    BY <1>5 DEF PartSet
  <2>2. Summary(s.think) \in Seq(PartSet) /\ Len(Summary(s.think)) = 1
    <3> HIDE DEF PartSet
    <3> QED
      BY <2>1 DEF Summary
  <2>3. [Summary(s.think) EXCEPT ![1].n = @ + 1] = Summary(t.think)
    BY <1>4 DEF Summary
  <2> QED
    BY <2>2, <2>3
<1>7. ReadsItems(x, [w.items EXCEPT ![s.index + 1] =
                       OpenItem("reasoning", [Summary(s.think) EXCEPT ![1].n = @ + 1])])
  <2> DEFINE parts == Summary(s.think)
             items == [w.items EXCEPT ![s.index + 1] =
                         OpenItem("reasoning", [parts EXCEPT ![1].n = @ + 1])]
  <2>1. Flowing(w) /\ s.index \in Nat /\ s.index + 1 \in 1 .. Len(w.items)
        /\ w.items[s.index + 1] = OpenItem("reasoning", parts)
        /\ parts \in Seq(PartSet) /\ 1 \in 1 .. Len(parts)
    BY <1>1, <1>5, <1>6
  <2> HIDE DEF w, parts
  <2>2. ReadsItems(ReadResponses(w, Responses!PartDelta(s.index, "reasoning", 1)), items)
    BY <2>1, ReadsDelta
  <2> HIDE DEF items
  <2> QED
    BY <1>4, <2>2, Zenon DEF parts, items
<1> HIDE DEF w, x
<1>8. ReadsItems(x, [w.items EXCEPT ![s.index + 1] =
                       IF s.content THEN OpenItem("message", t.parts)
                       ELSE OpenItem("reasoning", Summary(t.think))])
  BY <1>5, <1>6, <1>7
<1>9. t.parts \in Seq(PartSet) /\ t.think \in Nat /\ (s.content => t.think = s.think)
  BY <1>1, <1>4, <1>5 DEF Streamed
<1>10. Streamed(t, x)
  BY <1>1, <1>4, <1>8, <1>9, ItemGrows
<1>11. Tolds(s, t, 0, 0, 1)
  <2>1. NoCallYet(s) => NoCallYet(t)
    BY <1>4, Zenon DEF NoCallYet
  <2> DEFINE P(kind) == Parts!Through(Items!Through(NoParts, s.output), s.parts)[kind]
  <2>2. P("text") \in Nat /\ P("refusal") \in Nat /\ P("summary") \in Nat
    BY FlowsTyped, ToldTyped
  <2>3. /\ \A kind : Told(s, kind) = P(kind) + IF kind = "summary" THEN s.think ELSE 0
        /\ \A kind : Told(t, kind) = P(kind) + IF kind = "summary" THEN t.think ELSE 0
    BY <1>4, Zenon DEF Told
  <2> HIDE DEF P
  <2>4. /\ Told(s, "text") = P("text") + 0 /\ Told(t, "text") = P("text") + 0
        /\ Told(s, "refusal") = P("refusal") + 0 /\ Told(t, "refusal") = P("refusal") + 0
        /\ Told(s, "summary") = P("summary") + s.think
        /\ Told(t, "summary") = P("summary") + t.think
    BY <2>3
  <2>5. /\ Told(t, "text") = Told(s, "text") + 0 /\ Told(t, "refusal") = Told(s, "refusal") + 0
        /\ Told(t, "summary") = Told(s, "summary") + 1
    BY <1>4, <1>5, <2>2, <2>4
  <2> QED
    BY <2>1, <2>5, Zenon DEF Tolds
<1> QED
  BY <1>4, <1>10, <1>11 DEF Thought, Flows, x

LEMMA ThinkingFlows ==
  ASSUME NEW v, NEW s, Flows(v, s), ~s.content
  PROVE  Thought(v, s, Responses!ProcessThinking(s))
<1> DEFINE a == Responses!Emit([s EXCEPT !.reasoning = TRUE],
                               Responses!Added(s.index, "reasoning"))
           t == IF s.reasoning THEN s ELSE a
           u == Responses!Emit([t EXCEPT !.think = @ + 1],
                               Responses!PartDelta(s.index, "reasoning", 1))
<1>1. Responses!ProcessThinking(s) = u
  BY Zenon DEF Responses!ProcessThinking
<1>2. /\ Flows(v, t) /\ t.index = s.index /\ t.output = s.output /\ t.parts = s.parts
      /\ t.think = s.think /\ t.content = s.content /\ t.reasoning
  <2>1. CASE s.reasoning
    BY <2>1
  <2>2. CASE ~s.reasoning
    <3>1. t = a
      BY <2>2
    <3> HIDE DEF t
    <3> QED
      BY <2>2, <3>1, ReasoningOpens
  <2> QED
    BY <2>1, <2>2
<1> HIDE DEF t
<1>3. Tolds(s, t, 0, 0, 0)
  BY <1>2, TellsNothing, Zenon
<1>4. Thought(v, t, u)
  BY <1>2, SummaryGrows
<1> HIDE DEF u
<1>5. Tolds(s, u, 0, 0, 1)
  <2>1. Tolds(s, u, 0 + 0, 0 + 0, 0 + 1)
    BY <1>3, <1>4, FlowsTyped, ToldsOn DEF Thought
  <2> QED
    BY <2>1
<1> QED
  BY <1>1, <1>2, <1>4, <1>5 DEF Thought

\* Reasoning that comes after the answer makes the client give up.
LEMMA ThinkingLate ==
  ASSUME NEW v, NEW s, Flows(v, s), s.content
  PROVE  IsDead(Spoken(v, Responses!ProcessThinking(s)))
<1> DEFINE c == [s EXCEPT !.reasoning = TRUE]
           d == Responses!Added(s.index, "reasoning")
           t == Responses!Emit(c, d)
           b == [t EXCEPT !.think = @ + 1]
           e == Responses!PartDelta(s.index, "reasoning", 1)
           w == Spoken(v, s)
<1>1. Written(s) /\ Flowing(w) /\ Streamed(s, w)
  BY FlowsWritten DEF Flows
<1>2. ~s.reasoning /\ s.index # Len(w.items)
  BY <1>1 DEF Streamed
<1>3. Responses!ProcessThinking(s) = Responses!Emit(b, e)
  BY <1>2, Zenon DEF Responses!ProcessThinking
<1>4. DOMAIN c = ResponsesFields /\ c.out = s.out
  BY <1>1 DEF Written, ResponsesFields
<1> HIDE DEF c, d
<1>5. Sends(v, s, c, d, t)
  BY <1>1, <1>4, Sending, Zenon DEF Written
<1>6. IsDead(Spoken(v, t))
  <2>1. IsDead(ReadResponses(w, d))
    BY <1>1, <1>2, ReadsMisplaced, Zenon DEF d
  <2> QED
    BY <1>5, <2>1, Zenon DEF Sends
<1> HIDE DEF t
<1>7. DOMAIN b = ResponsesFields /\ b.out = t.out /\ IsList(t.out)
  BY <1>5 DEF Sends, ResponsesFields
<1> HIDE DEF b, e
<1>8. Sends(v, t, b, e, Responses!Emit(b, e))
  BY <1>7, Sending, Zenon
<1>9. IsDead(ReadResponses(Spoken(v, t), e))
  BY <1>6, DeadStays, Zenon
<1> QED
  BY <1>3, <1>8, <1>9, Zenon DEF Sends

Settled(v, s, t) ==
  /\ Flows(v, t) /\ t.reasoning = FALSE /\ t.content = s.content /\ Tolds(s, t, 0, 0, 0)

LEMMA ReasoningFlows ==
  ASSUME NEW v, NEW s, Flows(v, s), NEW t, t = Responses!FinishReasoning(s)
  PROVE  Settled(v, s, t)
<1> DEFINE parts == Summary(s.think)
           item == Responses!Item("reasoning", parts, <<>>)
           c == [s EXCEPT !.reasoning = FALSE, !.think = 0, !.index = @ + 1,
                          !.output = Append(@, item)]
           e == Responses!Done(s.index, item)
           w == Spoken(v, s)
<1>1. CASE ~s.reasoning
  <2>1. t = s
    BY <1>1 DEF Responses!FinishReasoning
  <2>2. s.reasoning = FALSE
    BY <1>1, FlowsTyped
  <2> QED
    BY <2>1, <2>2, TellsNothing, Zenon DEF Settled
<1>2. CASE s.reasoning
  <2>1. Written(s) /\ Flowing(w) /\ Streamed(s, w)
    BY FlowsWritten DEF Flows
  <2>2. t = Responses!Emit(c, e)
    BY <1>2, Zenon DEF Responses!FinishReasoning, Summary
  <2> HIDE DEF item, parts
  <2>3. /\ DOMAIN c = ResponsesFields /\ c.out = s.out /\ c.index = s.index + 1
        /\ c.output = Append(s.output, item) /\ c.parts = s.parts /\ c.think = 0
        /\ c.content = s.content /\ c.reasoning = FALSE
    BY <2>1 DEF Written, ResponsesFields
  <2> HIDE DEF c
  <2>4. Sends(v, s, c, e, t)
    BY <2>1, <2>2, <2>3, Sending, Zenon DEF Written
  <2> DEFINE x == Spoken(v, t)
  <2>5. /\ DOMAIN t = ResponsesFields /\ IsList(t.out) /\ t.index = s.index + 1
        /\ t.output = Append(s.output, item) /\ t.parts = s.parts /\ t.think = 0
        /\ t.content = s.content /\ t.reasoning = FALSE /\ x = ReadResponses(w, e)
    BY <2>3, <2>4 DEF Sends
  <2>6. /\ s.index \in Nat /\ s.think \in Nat /\ s.index + 1 \in 1 .. Len(w.items)
        /\ w.items[s.index + 1] = OpenItem("reasoning", parts)
        /\ s.content = FALSE /\ s.parts = <<>> /\ Len(w.items) = s.index + 1
        /\ s.output \in Seq(OutputSet) /\ Len(s.output) = s.index /\ w.items \in Seq(ItemSet)
        /\ \A k \in 1 .. s.index : w.items[k].open = FALSE /\ SameItem(w.items[k], s.output[k])
    BY <1>2, <2>1 DEF Streamed, IsResponse, parts
  <2>7. parts \in Seq(PartSet) /\ <<>> \in Seq(Pieces)
    <3>1. [kind |-> "summary", n |-> s.think] \in PartSet
      BY <2>6 DEF PartSet
    <3> HIDE DEF PartSet
    <3> QED
      BY <3>1 DEF Summary, parts
  <2>8. ReadsItems(x, [w.items EXCEPT ![s.index + 1] =
                         [kind |-> "reasoning", open |-> FALSE, args |-> <<>>, parts |-> parts]])
    <3> HIDE DEF w, x
    <3> DEFINE items == [w.items EXCEPT ![s.index + 1] =
                           [kind |-> "reasoning", open |-> FALSE, args |-> <<>>, parts |-> parts]]
    <3>1. ReadsItems(ReadResponses(w, Responses!Done(s.index,
                                                     Responses!Item("reasoning", parts, <<>>))),
                     items)
      BY <2>1, <2>6, <2>7, ReadsDone
    <3> HIDE DEF items
    <3>2. ReadsItems(x, items)
      BY <2>5, <3>1, Zenon DEF item
    <3> QED
      BY <3>2, Zenon DEF items
  <2> HIDE DEF w, x
  <2>9. Streamed(t, x)
    BY <2>5, <2>6, <2>7, <2>8, ItemOver DEF item
  <2>10. Tolds(s, t, 0, 0, 0)
    <3> DEFINE I == Items!Through(NoParts, s.output)
    <3>1. I \in Tally
      BY <2>6, NoPartsTyped, ItemsTyped
    <3> HIDE DEF I
    <3>2. \A kind : Told(t, kind) = Parts!Through(I, parts)[kind] + 0
      <4>1. item.parts = parts
        BY DEF item, Responses!Item
      <4>2. IsOver(s, item, t)
        BY <2>5, <2>6 DEF IsOver
      <4>3. \A kind : Told(t, kind) = Parts!Through(Items!Through(NoParts, s.output), item.parts)[kind] + 0
        BY <4>2, OverTells, Zenon
      <4> QED
        BY <4>1, <4>3, Zenon DEF I
    <3>3. \A kind : Told(s, kind) = I[kind] + IF kind = "summary" THEN s.think ELSE 0
      <4>1. Parts!Through(I, s.parts) = I
        BY <2>6, PartsFew, Zenon
      <4> QED
        BY <4>1, Zenon DEF Told, I
    <3> DEFINE p == [kind |-> "summary", n |-> s.think]
    <3>4. Parts!Through(I, parts) = AddPart(I, p)
      BY PartsFew, Zenon DEF parts, Summary
    <3>5. p.n = s.think /\ p.kind = "summary"
      OBVIOUS
    <3> HIDE DEF p
    <3>6. \A kind \in {"text", "refusal", "summary"} :
            AddPart(I, p)[kind] = I[kind] + IF p.kind = kind THEN p.n ELSE 0
      BY <2>6, <3>1, <3>5, AddPartTyped
    <3>7. /\ AddPart(I, p)["text"] = I["text"] + 0 /\ AddPart(I, p)["refusal"] = I["refusal"] + 0
          /\ AddPart(I, p)["summary"] = I["summary"] + s.think
          /\ I["text"] \in Nat /\ I["refusal"] \in Nat /\ I["summary"] \in Nat
      BY <3>1, <3>5, <3>6 DEF Tally
    <3>8. /\ Told(s, "text") = I["text"] + 0 /\ Told(s, "refusal") = I["refusal"] + 0
          /\ Told(s, "summary") = I["summary"] + s.think
      BY <3>3
    <3>9. /\ Told(t, "text") = Told(s, "text") + 0
          /\ Told(t, "refusal") = Told(s, "refusal") + 0
          /\ Told(t, "summary") = Told(s, "summary") + 0
      BY <2>6, <3>2, <3>4, <3>7, <3>8
    <3>10. NoCallYet(s) => NoCallYet(t)
      <4>1. item.kind = "reasoning"
        BY DEF item, Responses!Item
      <4> HIDE DEF OutputSet
      <4> QED
        BY <2>5, <2>6, <4>1 DEF NoCallYet
    <3> QED
      BY <3>9, <3>10, Zenon DEF Tolds
  <2> QED
    BY <2>5, <2>9, <2>10, Zenon DEF Settled, Flows, x
<1> QED
  BY <1>1, <1>2

\* The message is open, or opens.
LEMMA OpenMessageFlows ==
  ASSUME NEW v, NEW s, Flows(v, s), ~s.reasoning, NEW t, t = Responses!OpenMessage(s)
  PROVE  Flows(v, t) /\ t.content = TRUE /\ Tolds(s, t, 0, 0, 0)
<1> DEFINE c == [s EXCEPT !.content = TRUE]
           e == Responses!Added(s.index, "message")
           w == Spoken(v, s)
<1>1. CASE s.content
  <2>1. t = s /\ s.content = TRUE
    BY <1>1 DEF Responses!OpenMessage
  <2> QED
    BY <2>1, TellsNothing, Zenon
<1>2. CASE ~s.content
  <2>1. Written(s) /\ Flowing(w) /\ Streamed(s, w)
    BY FlowsWritten DEF Flows
  <2>2. t = Responses!Emit(c, e)
    BY <1>2, Zenon DEF Responses!OpenMessage
  <2>3. /\ DOMAIN c = ResponsesFields /\ c.out = s.out /\ c.index = s.index
        /\ c.output = s.output /\ c.parts = s.parts /\ c.think = s.think
        /\ c.content = TRUE /\ c.reasoning = s.reasoning
    BY <2>1 DEF Written, ResponsesFields
  <2> HIDE DEF c
  <2>4. Sends(v, s, c, e, t)
    BY <2>1, <2>2, <2>3, Sending, Zenon DEF Written
  <2> DEFINE x == Spoken(v, t)
  <2>5. /\ DOMAIN t = ResponsesFields /\ IsList(t.out) /\ t.index = s.index
        /\ t.output = s.output /\ t.parts = s.parts /\ t.think = s.think
        /\ t.content = TRUE /\ t.reasoning = s.reasoning /\ x = ReadResponses(w, e)
    BY <2>3, <2>4 DEF Sends
  <2>6. s.index = Len(w.items) /\ s.reasoning = FALSE
    BY <1>2, <2>1 DEF Streamed
  <2>7. ReadsItems(x, Append(w.items, OpenItem("message", FirstParts("message"))))
    <3>1. ReadsItems(ReadResponses(w, Responses!Added(s.index, "message")),
                     Append(w.items, OpenItem("message", FirstParts("message"))))
      BY <2>1, <2>6, ReadsAdded, Zenon
    <3> QED
      BY <2>5, <3>1, Zenon
  <2> HIDE DEF w, x
  <2>8. t.content = ("message" = "message") /\ t.reasoning = ("message" = "reasoning")
    BY <2>5, <2>6
  <2>9. Streamed(t, x)
    BY <1>2, <2>1, <2>5, <2>7, <2>8, ItemOpens
  <2>10. Tolds(s, t, 0, 0, 0)
    BY <2>5, TellsNothing, Zenon
  <2> QED
    BY <2>5, <2>9, <2>10, Zenon DEF Flows, x
<1> QED
  BY <1>1, <1>2

\* What the steps of a message have in common: its parts grow.
MessageStep(v, s, parts, c, e, t) ==
  /\ parts \in Seq(PartSet) /\ t = Responses!Emit(c, e)
  /\ DOMAIN c = ResponsesFields /\ c.out = s.out /\ c.index = s.index /\ c.output = s.output
  /\ c.parts = parts /\ c.think = s.think /\ c.content = s.content /\ c.reasoning = s.reasoning
  /\ ReadsItems(ReadResponses(Spoken(v, s), e),
                [Spoken(v, s).items EXCEPT ![s.index + 1] = OpenItem("message", parts)])

MessageGrown(v, s, parts, t) ==
  /\ Flows(v, t) /\ t.content = TRUE /\ t.index = s.index /\ t.output = s.output
  /\ t.parts = parts /\ t.think = s.think

LEMMA MessageGrows ==
  ASSUME NEW v, NEW s, Flows(v, s), s.content, NEW parts, NEW c, NEW e, NEW t,
         MessageStep(v, s, parts, c, e, t)
  PROVE  MessageGrown(v, s, parts, t)
<1> DEFINE w == Spoken(v, s)
           x == Spoken(v, t)
<1>1. Written(s) /\ Streamed(s, w)
  BY FlowsWritten DEF Flows
<1>0. /\ parts \in Seq(PartSet) /\ t = Responses!Emit(c, e)
      /\ DOMAIN c = ResponsesFields /\ c.out = s.out /\ c.index = s.index /\ c.output = s.output
      /\ c.parts = parts /\ c.think = s.think /\ c.content = s.content
      /\ c.reasoning = s.reasoning
      /\ ReadsItems(ReadResponses(w, e),
                    [w.items EXCEPT ![s.index + 1] = OpenItem("message", parts)])
  BY Zenon DEF MessageStep
<1>2. Sends(v, s, c, e, t)
  BY <1>0, <1>1, Sending, Zenon DEF Written
<1>3. /\ DOMAIN t = ResponsesFields /\ IsList(t.out) /\ t.index = s.index
      /\ t.output = s.output /\ t.parts = parts /\ t.think = s.think
      /\ t.content = s.content /\ t.reasoning = s.reasoning /\ x = ReadResponses(w, e)
  BY <1>0, <1>2 DEF Sends
<1>4. ReadsItems(x, [w.items EXCEPT ![s.index + 1] = OpenItem("message", parts)])
  BY <1>0, <1>3, Zenon
<1> HIDE DEF w, x
<1>5. s.content = TRUE /\ s.reasoning = FALSE /\ s.think \in Nat
  BY <1>1 DEF Streamed
<1>6. ReadsItems(x, [w.items EXCEPT ![s.index + 1] =
                       IF s.content THEN OpenItem("message", t.parts)
                       ELSE OpenItem("reasoning", Summary(t.think))])
  BY <1>3, <1>4, Zenon
<1>7. Streamed(t, x)
  BY <1>0, <1>1, <1>3, <1>5, <1>6, ItemGrows
<1> QED
  BY <1>3, <1>5, <1>7, Zenon DEF MessageGrown, Flows, x

LEMMA OpenPartFlows ==
  ASSUME NEW v, NEW s, Flows(v, s), s.content, NEW kind \in {"text", "refusal"},
         NEW t, t = Responses!OpenPart(s, kind)
  PROVE  /\ Flows(v, t) /\ t.content = TRUE /\ Tolds(s, t, 0, 0, 0)
         /\ t.parts # <<>> /\ t.parts[Len(t.parts)].kind = kind
<1> DEFINE p == [kind |-> kind, n |-> 0]
           parts == Append(s.parts, p)
           c == [s EXCEPT !.parts = parts]
           e == [type |-> "part_added", index |-> s.index, part |-> Len(s.parts) + 1,
                 kind |-> kind]
           w == Spoken(v, s)
           has == s.parts # <<>> /\ s.parts[Len(s.parts)].kind = kind
<1>1. CASE has
  <2>1. t = s
    BY <1>1 DEF Responses!OpenPart
  <2>2. s.content = TRUE
    BY FlowsTyped
  <2> QED
    BY <1>1, <2>1, <2>2, TellsNothing, Zenon
<1>2. CASE ~has
  <2>1. Written(s) /\ Flowing(w) /\ Streamed(s, w)
    BY FlowsWritten DEF Flows
  <2>2. t = Responses!Emit(c, e)
    BY <1>2, Zenon DEF Responses!OpenPart
  <2>3. /\ s.index \in Nat /\ s.parts \in Seq(PartSet) /\ s.index + 1 \in 1 .. Len(w.items)
        /\ w.items[s.index + 1] = OpenItem("message", s.parts) /\ s.content = TRUE
        /\ s.output \in Seq(OutputSet)
    BY <2>1 DEF Streamed
  <2>4. p \in PartSet /\ p.kind = kind /\ p.n = 0 /\ p.n \in Nat
    BY DEF PartSet
  <2>5. ReadsItems(ReadResponses(w, e), [w.items EXCEPT ![s.index + 1] = OpenItem("message", parts)])
    <3> HIDE DEF w
    <3> QED
      BY <2>1, <2>3, ReadsPart
  <2> HIDE DEF p
  <2>6. parts \in Seq(PartSet) /\ parts # <<>> /\ parts[Len(parts)] = p
    <3> HIDE DEF PartSet
    <3> QED
      BY <2>3, <2>4
  <2> HIDE DEF parts
  <2>7. /\ DOMAIN c = ResponsesFields /\ c.out = s.out /\ c.index = s.index
        /\ c.output = s.output /\ c.parts = parts /\ c.think = s.think
        /\ c.content = s.content /\ c.reasoning = s.reasoning
    BY <2>1 DEF Written, ResponsesFields
  <2> HIDE DEF c, e, w
  <2>8. /\ Flows(v, t) /\ t.content = TRUE /\ t.index = s.index /\ t.output = s.output
        /\ t.parts = parts /\ t.think = s.think
    <3>1. MessageStep(v, s, parts, c, e, t)
      BY <2>2, <2>5, <2>6, <2>7, Zenon DEF MessageStep, w
    <3>2. MessageGrown(v, s, parts, t)
      BY <3>1, MessageGrows, Zenon
    <3> QED
      BY <3>2, Zenon DEF MessageGrown
  <2>9. Tolds(s, t, 0, 0, 0)
    <3> DEFINE I == Items!Through(NoParts, s.output)
    <3>1. I \in Tally
      BY <2>3, NoPartsTyped, ItemsTyped
    <3> HIDE DEF I
    <3>2. Parts!Through(I, parts) = AddPart(Parts!Through(I, s.parts), p)
      <4> DEFINE K == {"text", "refusal", "summary"}
      <4>1. s.parts \in Seq([kind : K, n : Nat])
        BY <2>3 DEF PartSet
      <4> HIDE DEF K
      <4> QED
        BY <2>4, <3>1, <4>1, PartsAppend, Zenon DEF parts
    <3> DEFINE P == Parts!Through(I, s.parts)
    <3>3. P \in Tally
      BY <2>3, <3>1, PartsKept
    <3> HIDE DEF P
    <3>4. \A k \in {"text", "refusal", "summary"} : AddPart(P, p)[k] = P[k] + 0 /\ P[k] \in Nat
      BY <2>4, <3>3, AddPartTyped DEF Tally
    <3>5. /\ \A k : Told(s, k) = P[k] + IF k = "summary" THEN s.think ELSE 0
          /\ \A k : Told(t, k) = AddPart(P, p)[k] + IF k = "summary" THEN s.think ELSE 0
      BY <2>8, <3>2, Zenon DEF Told, P, I
    <3>6. /\ Told(t, "text") = Told(s, "text") + 0
          /\ Told(t, "refusal") = Told(s, "refusal") + 0
          /\ Told(t, "summary") = Told(s, "summary") + 0
      <4>1. s.think \in Nat
        BY FlowsTyped
      <4> HIDE DEF AddPart
      <4> QED
        BY <3>4, <3>5, <4>1
    <3>7. NoCallYet(s) => NoCallYet(t)
      BY <2>8, Zenon DEF NoCallYet
    <3> QED
      BY <3>6, <3>7, Zenon DEF Tolds
  <2> QED
    BY <2>4, <2>6, <2>8, <2>9
<1> QED
  BY <1>1, <1>2

\* The last part counts one more.
OneMore(t, p, q, own) ==
  /\ q \in Seq(PartSet)
  /\ \A j \in {"text", "refusal", "summary"} :
       /\ Parts!Through(t, p)[j] \in Nat
       /\ Parts!Through(t, q)[j] = Parts!Through(t, p)[j] + IF own = j THEN 1 ELSE 0

LEMMA LastPartCounts ==
  ASSUME NEW t \in Tally, NEW p \in Seq(PartSet), p # <<>>, NEW own, p[Len(p)].kind = own
  PROVE  OneMore(t, p, [p EXCEPT ![Len(p)].n = @ + 1], own)
<1> DEFINE q == [p EXCEPT ![Len(p)].n = @ + 1]
<1>1. \A j \in {"text", "refusal", "summary"} :
        /\ q \in Seq(PartSet) /\ Parts!Through(t, p)[j] \in Nat
        /\ Parts!Through(t, q)[j] =
             Parts!Through(t, p)[j] + IF p[Len(p)].kind = j THEN 1 ELSE 0
  BY LastPartGrows, Zenon
<1> HIDE DEF q
<1>2. OneMore(t, p, q, own)
  BY <1>1 DEF OneMore
<1> QED
  BY <1>2 DEF q

LEMMA GrowPartFlows ==
  ASSUME NEW v, NEW s, Flows(v, s), s.content, NEW kind \in {"text", "refusal"},
         s.parts # <<>>, s.parts[Len(s.parts)].kind = kind,
         NEW t, t = Responses!GrowPart(s, kind)
  PROVE  /\ Flows(v, t) /\ t.content = TRUE
         /\ kind = "text" => Tolds(s, t, 1, 0, 0)
         /\ kind = "refusal" => Tolds(s, t, 0, 1, 0)
<1> DEFINE k == Len(s.parts)
           parts == [s.parts EXCEPT ![k].n = @ + 1]
           c == [s EXCEPT !.parts = parts]
           e == Responses!PartDelta(s.index, kind, k)
           w == Spoken(v, s)
           I == Items!Through(NoParts, s.output)
<1>1. Written(s) /\ Flowing(w) /\ Streamed(s, w)
  BY FlowsWritten DEF Flows
<1>2. t = Responses!Emit(c, e)
  <2>1. [s EXCEPT !.parts[k].n = @ + 1] = c
    OBVIOUS
  <2> QED
    BY <2>1 DEF Responses!GrowPart
<1>3. /\ s.index \in Nat /\ s.parts \in Seq(PartSet) /\ s.index + 1 \in 1 .. Len(w.items)
      /\ w.items[s.index + 1] = OpenItem("message", s.parts) /\ s.content = TRUE
      /\ s.output \in Seq(OutputSet)
  BY <1>1 DEF Streamed
<1>4. k \in 1 .. Len(s.parts)
  BY <1>3
<1>5. ReadsItems(ReadResponses(w, e), [w.items EXCEPT ![s.index + 1] = OpenItem("message", parts)])
  <2> HIDE DEF w, k
  <2>1. s.parts[k].kind = kind
    BY DEF k
  <2> QED
    BY <1>1, <1>3, <1>4, <2>1, ReadsDelta
<1>6. I \in Tally
  BY <1>3, NoPartsTyped, ItemsTyped
<1> HIDE DEF I
<1> DEFINE P == Parts!Through(I, s.parts)
           Q == Parts!Through(I, parts)
<1>7. /\ parts \in Seq(PartSet)
      /\ \A j \in {"text", "refusal", "summary"} :
           P[j] \in Nat /\ Q[j] = P[j] + IF kind = j THEN 1 ELSE 0
  <2>1. OneMore(I, s.parts, parts, kind)
    BY <1>3, <1>6, LastPartCounts, Zenon
  <2> HIDE DEF parts
  <2> QED
    BY <2>1, Zenon DEF OneMore
<1> HIDE DEF parts, P, Q
<1>8. /\ DOMAIN c = ResponsesFields /\ c.out = s.out /\ c.index = s.index
      /\ c.output = s.output /\ c.parts = parts /\ c.think = s.think
      /\ c.content = s.content /\ c.reasoning = s.reasoning
  BY <1>1 DEF Written, ResponsesFields
<1> HIDE DEF c, e, w
<1>9. /\ Flows(v, t) /\ t.content = TRUE /\ t.index = s.index /\ t.output = s.output
      /\ t.parts = parts /\ t.think = s.think
  <2>1. MessageStep(v, s, parts, c, e, t)
    BY <1>2, <1>5, <1>7, <1>8, Zenon DEF MessageStep, w
  <2>2. MessageGrown(v, s, parts, t)
    BY <2>1, MessageGrows, Zenon
  <2> QED
    BY <2>2, Zenon DEF MessageGrown
<1>10. /\ \A j : Told(s, j) = P[j] + IF j = "summary" THEN s.think ELSE 0
       /\ \A j : Told(t, j) = Q[j] + IF j = "summary" THEN s.think ELSE 0
  BY <1>9, Zenon DEF Told, P, Q, I
<1>11. /\ Told(t, "text") = Told(s, "text") + IF kind = "text" THEN 1 ELSE 0
       /\ Told(t, "refusal") = Told(s, "refusal") + IF kind = "refusal" THEN 1 ELSE 0
       /\ Told(t, "summary") = Told(s, "summary") + 0
  <2>1. s.think \in Nat
    BY FlowsTyped
  <2> QED
    BY <1>7, <1>10, <2>1
<1>12. NoCallYet(s) => NoCallYet(t)
  BY <1>9, Zenon DEF NoCallYet
<1> QED
  BY <1>9, <1>11, <1>12 DEF Tolds

\* A piece of text or of a refusal is told.
PartTold(v, s, t, kind) ==
  /\ Flows(v, t) /\ t.content = TRUE
  /\ kind = "text" => Tolds(s, t, 1, 0, 0)
  /\ kind = "refusal" => Tolds(s, t, 0, 1, 0)

LEMMA PartFlows ==
  ASSUME NEW v, NEW s, Flows(v, s), NEW kind \in {"text", "refusal"}
  PROVE  PartTold(v, s, Responses!ProcessPart(s, kind), kind)
<1> DEFINE a == Responses!FinishReasoning(s)
           b == Responses!OpenMessage(a)
           c == Responses!OpenPart(b, kind)
           d == Responses!GrowPart(c, kind)
<1>1. Settled(v, s, a)
  BY ReasoningFlows, Zenon
<1>2. Flows(v, a) /\ ~a.reasoning /\ Tolds(s, a, 0, 0, 0)
  BY <1>1 DEF Settled
<1> HIDE DEF a
<1>3. Flows(v, b) /\ b.content = TRUE /\ Tolds(a, b, 0, 0, 0)
  BY <1>2, OpenMessageFlows, Zenon
<1> HIDE DEF b
<1>4. /\ Flows(v, c) /\ c.content = TRUE /\ Tolds(b, c, 0, 0, 0)
      /\ c.parts # <<>> /\ c.parts[Len(c.parts)].kind = kind
  BY <1>3, OpenPartFlows
<1> HIDE DEF c
<1>5. /\ Flows(v, d) /\ d.content = TRUE
      /\ kind = "text" => Tolds(c, d, 1, 0, 0)
      /\ kind = "refusal" => Tolds(c, d, 0, 1, 0)
  BY <1>4, GrowPartFlows
<1> HIDE DEF d
<1>6. /\ Told(s, "text") \in Nat /\ Told(s, "refusal") \in Nat /\ Told(s, "summary") \in Nat
  BY FlowsTyped
<1>7. /\ kind = "text" => Tolds(s, d, 1, 0, 0)
      /\ kind = "refusal" => Tolds(s, d, 0, 1, 0)
  BY <1>2, <1>3, <1>4, <1>5, <1>6 DEF Tolds
<1>8. Responses!ProcessPart(s, kind) = d
  BY Zenon DEF Responses!ProcessPart, a, b, c, d
<1> QED
  BY <1>5, <1>7, <1>8, Zenon DEF PartTold

\* The message is over.
LEMMA MessageFlows ==
  ASSUME NEW v, NEW s, Flows(v, s), ~s.reasoning, NEW t, t = Responses!FinishMessageItem(s)
  PROVE  Flows(v, t) /\ t.reasoning = FALSE /\ t.content = FALSE /\ Tolds(s, t, 0, 0, 0)
<1> DEFINE parts == s.parts
           item == Responses!Item("message", parts, <<>>)
           c == [s EXCEPT !.content = FALSE, !.parts = <<>>, !.index = @ + 1,
                          !.output = Append(@, item)]
           e == Responses!Done(s.index, item)
           w == Spoken(v, s)
<1>0. s.reasoning = FALSE /\ s.content \in BOOLEAN
  BY FlowsTyped
<1>1. CASE ~s.content
  <2>1. t = s
    BY <1>1 DEF Responses!FinishMessageItem
  <2>2. s.content = FALSE
    BY <1>0, <1>1
  <2> QED
    BY <1>0, <2>1, <2>2, TellsNothing, Zenon
<1>2. CASE s.content
  <2>1. Written(s) /\ Flowing(w) /\ Streamed(s, w)
    BY FlowsWritten DEF Flows
  <2>2. t = Responses!Emit(c, e)
    BY <1>2, Zenon DEF Responses!FinishMessageItem
  <2> HIDE DEF item, parts
  <2>3. /\ DOMAIN c = ResponsesFields /\ c.out = s.out /\ c.index = s.index + 1
        /\ c.output = Append(s.output, item) /\ c.parts = <<>> /\ c.think = s.think
        /\ c.content = FALSE /\ c.reasoning = s.reasoning
    BY <2>1 DEF Written, ResponsesFields
  <2> HIDE DEF c
  <2>4. Sends(v, s, c, e, t)
    BY <2>1, <2>2, <2>3, Sending, Zenon DEF Written
  <2> DEFINE x == Spoken(v, t)
  <2>5. /\ DOMAIN t = ResponsesFields /\ IsList(t.out) /\ t.index = s.index + 1
        /\ t.output = Append(s.output, item) /\ t.parts = <<>> /\ t.think = s.think
        /\ t.content = FALSE /\ t.reasoning = s.reasoning /\ x = ReadResponses(w, e)
    BY <2>3, <2>4 DEF Sends
  <2>6. /\ s.index \in Nat /\ s.think = 0 /\ s.index + 1 \in 1 .. Len(w.items)
        /\ w.items[s.index + 1] = OpenItem("message", parts)
        /\ parts \in Seq(PartSet) /\ Len(w.items) = s.index + 1
        /\ s.output \in Seq(OutputSet) /\ Len(s.output) = s.index /\ w.items \in Seq(ItemSet)
        /\ \A k \in 1 .. s.index : w.items[k].open = FALSE /\ SameItem(w.items[k], s.output[k])
    BY <1>0, <1>2, <2>1 DEF Streamed, IsResponse, parts
  <2>7. <<>> \in Seq(Pieces)
    OBVIOUS
  <2>8. ReadsItems(x, [w.items EXCEPT ![s.index + 1] =
                         [kind |-> "message", open |-> FALSE, args |-> <<>>, parts |-> parts]])
    <3> HIDE DEF w, x
    <3> DEFINE items == [w.items EXCEPT ![s.index + 1] =
                           [kind |-> "message", open |-> FALSE, args |-> <<>>, parts |-> parts]]
    <3>1. ReadsItems(ReadResponses(w, Responses!Done(s.index,
                                                     Responses!Item("message", parts, <<>>))),
                     items)
      BY <2>1, <2>6, <2>7, ReadsDone
    <3> HIDE DEF items
    <3>2. ReadsItems(x, items)
      BY <2>5, <3>1, Zenon DEF item
    <3> QED
      BY <3>2, Zenon DEF items
  <2> HIDE DEF w, x
  <2>9. Streamed(t, x)
    BY <1>0, <2>5, <2>6, <2>7, <2>8, ItemOver DEF item
  <2>10. Tolds(s, t, 0, 0, 0)
    <3> DEFINE I == Items!Through(NoParts, s.output)
               P == Parts!Through(I, s.parts)
    <3>1. \A kind : Told(t, kind) = P[kind] + 0
      <4>1. item.parts = parts
        BY DEF item, Responses!Item
      <4>2. IsOver(s, item, t)
        BY <2>5, <2>6 DEF IsOver
      <4>3. \A kind : Told(t, kind) = Parts!Through(Items!Through(NoParts, s.output), item.parts)[kind] + 0
        BY <4>2, OverTells, Zenon
      <4> QED
        BY <4>1, <4>3, Zenon DEF parts
    <3>2. \A kind : Told(s, kind) = P[kind] + IF kind = "summary" THEN s.think ELSE 0
      BY Zenon DEF Told
    <3>3. P["text"] \in Nat /\ P["refusal"] \in Nat /\ P["summary"] \in Nat
      <4>1. s.parts \in Seq(PartSet) /\ s.think \in Nat
        BY FlowsTyped
      <4> QED
        BY <2>6, <4>1, ToldTyped
    <3> HIDE DEF P
    <3>4. /\ Told(t, "text") = Told(s, "text") + 0
          /\ Told(t, "refusal") = Told(s, "refusal") + 0
          /\ Told(t, "summary") = Told(s, "summary") + 0
      BY <2>6, <3>1, <3>2, <3>3
    <3>5. NoCallYet(s) => NoCallYet(t)
      <4>1. item.kind = "message"
        BY DEF item, Responses!Item
      <4> HIDE DEF OutputSet
      <4> QED
        BY <2>5, <2>6, <4>1 DEF NoCallYet
    <3> QED
      BY <3>4, <3>5, Zenon DEF Tolds
  <2> QED
    BY <1>0, <2>5, <2>9, <2>10, Zenon DEF Flows, x
<1> QED
  BY <1>1, <1>2

\* A call is told at once: its item opens and is over.
Called(v, s, t, args) ==
  /\ Flows(v, t) /\ t.reasoning = FALSE /\ t.content = FALSE /\ t.index = s.index + 1
  /\ t.output = Append(s.output, Responses!Item("call", <<>>, args))
  /\ \A kind : Told(t, kind) = Told(s, kind)

LEMMA CallFlows ==
  ASSUME NEW v, NEW s, Flows(v, s), ~s.reasoning, ~s.content, NEW call,
         call.args \in Seq(Pieces)
  PROVE  Called(v, s, Responses!EmitCall(s, call), call.args)
<1> DEFINE args == call.args
           item == Responses!Item("call", <<>>, args)
           c == [s EXCEPT !.index = @ + 1, !.output = Append(@, item)]
           d == Responses!Added(s.index, "call")
           b == Responses!Emit(c, d)
           e == Responses!Done(s.index, item)
           t == Responses!Emit(b, e)
           w == Spoken(v, s)
           y == Spoken(v, b)
           x == Spoken(v, t)
<1>0. Responses!EmitCall(s, call) = t
  BY Zenon DEF Responses!EmitCall
<1> HIDE DEF item, args
<1>1. Written(s) /\ Flowing(w) /\ Streamed(s, w)
  BY FlowsWritten DEF Flows
<1>2. /\ DOMAIN c = ResponsesFields /\ c.out = s.out /\ c.index = s.index + 1
      /\ c.output = Append(s.output, item) /\ c.parts = s.parts /\ c.think = s.think
      /\ c.content = s.content /\ c.reasoning = s.reasoning
  BY <1>1 DEF Written, ResponsesFields
<1> HIDE DEF c
<1>3. Sends(v, s, c, d, b)
  BY <1>1, <1>2, Sending, Zenon DEF Written
<1>4. /\ DOMAIN b = ResponsesFields /\ IsList(b.out) /\ b.index = s.index + 1
      /\ b.output = Append(s.output, item) /\ b.parts = s.parts /\ b.think = s.think
      /\ b.content = s.content /\ b.reasoning = s.reasoning /\ y = ReadResponses(w, d)
  BY <1>2, <1>3 DEF Sends
<1> HIDE DEF b
<1>5. Sends(v, b, b, e, t)
  BY <1>4, Sending, Zenon
<1>6. /\ DOMAIN t = ResponsesFields /\ IsList(t.out) /\ t.index = s.index + 1
      /\ t.output = Append(s.output, item) /\ t.parts = s.parts /\ t.think = s.think
      /\ t.content = s.content /\ t.reasoning = s.reasoning /\ x = ReadResponses(y, e)
  BY <1>4, <1>5 DEF Sends
<1>7. /\ s.index \in Nat /\ s.think = 0 /\ s.parts = <<>> /\ Len(w.items) = s.index
      /\ s.content = FALSE /\ s.reasoning = FALSE
      /\ s.output \in Seq(OutputSet) /\ Len(s.output) = s.index /\ w.items \in Seq(ItemSet)
      /\ \A k \in 1 .. s.index : w.items[k].open = FALSE /\ SameItem(w.items[k], s.output[k])
  BY <1>1 DEF Streamed, IsResponse
<1>8. <<>> \in Seq(PartSet) /\ args \in Seq(Pieces)
  BY DEF args
<1> DEFINE o == OpenItem("call", <<>>)
<1>9. o \in ItemSet
  <2>1. IsOpenItem(o, "call", <<>>)
    BY <1>8, OpenItemTyped, Zenon
  <2> QED
    BY <2>1 DEF IsOpenItem
<1>10. ReadsItems(y, Append(w.items, o))
  <2>1. ReadsItems(ReadResponses(w, Responses!Added(s.index, "call")),
                   Append(w.items, OpenItem("call", FirstParts("call"))))
    BY <1>1, <1>7, ReadsAdded, Zenon
  <2>2. FirstParts("call") = <<>>
    BY DEF FirstParts
  <2> QED
    BY <1>4, <2>1, <2>2, Zenon
<1> HIDE DEF o, w, y
<1>11. /\ Flowing(y) /\ y.items \in Seq(ItemSet) /\ Len(y.items) = s.index + 1
       /\ y.items[s.index + 1] = o /\ \A k \in 1 .. s.index : y.items[k] = w.items[k]
  <2>1. Flowing(y) /\ y.items = Append(w.items, o)
    BY <1>10 DEF ReadsItems
  <2> HIDE DEF ItemSet
  <2> QED
    BY <1>7, <1>9, <2>1
<1>12. \A k \in 1 .. s.index : y.items[k].open = FALSE /\ SameItem(y.items[k], s.output[k])
  BY <1>7, <1>11
<1>13. ReadsItems(x, [y.items EXCEPT ![s.index + 1] =
                        [kind |-> "call", open |-> FALSE, args |-> args, parts |-> <<>>]])
  <2> DEFINE items == [y.items EXCEPT ![s.index + 1] =
                         [kind |-> "call", open |-> FALSE, args |-> args, parts |-> <<>>]]
  <2> HIDE DEF x
  <2>0. y.items[s.index + 1] = OpenItem("call", <<>>) /\ s.index + 1 \in 1 .. Len(y.items)
    BY <1>7, <1>11 DEF o
  <2>1. ReadsItems(ReadResponses(y, Responses!Done(s.index, Responses!Item("call", <<>>, args))),
                   items)
    <3>1. Flowing(y) /\ s.index \in Nat /\ "call" \in {"message", "reasoning", "call"}
      BY <1>7, <1>11
    <3> HIDE DEF items
    <3>2. ReadsItems(ReadResponses(y, Responses!Done(s.index, Responses!Item("call", <<>>, args))),
                     [y.items EXCEPT ![s.index + 1] =
                        [kind |-> "call", open |-> FALSE, args |-> args, parts |-> <<>>]])
      BY <1>8, <2>0, <3>1, ReadsDone, Zenon
    <3> QED
      BY <3>2, Zenon DEF items
  <2> HIDE DEF items
  <2>2. ReadsItems(x, items)
    BY <1>6, <2>1, Zenon DEF item
  <2> QED
    BY <2>2, Zenon DEF items
<1> HIDE DEF x, t
<1>14. Streamed(t, x)
  BY <1>6, <1>7, <1>8, <1>11, <1>12, <1>13, ItemOver DEF item
<1>15. \A kind : Told(t, kind) = Told(s, kind)
  <2> DEFINE I == Items!Through(NoParts, s.output)
  <2>1. item.parts = <<>>
    BY DEF item, Responses!Item
  <2>2. Items!Through(NoParts, t.output) = Parts!Through(I, item.parts)
    BY <1>6, <1>7, ItemsAppend, Zenon
  <2> HIDE DEF I
  <2>3. Parts!Through(I, <<>>) = I
    BY PartsFew, Zenon
  <2>4. Items!Through(NoParts, t.output) = I
    BY <2>1, <2>2, <2>3, Zenon
  <2>5. Items!Through(NoParts, t.output) = Items!Through(NoParts, s.output)
    BY <2>4, Zenon DEF I
  <2> QED
    BY <1>6, <2>5, Zenon DEF Told
<1>16. Flows(v, t)
  BY <1>6, <1>14, Zenon DEF Flows, x
<1>17. Called(v, s, t, args)
  BY <1>6, <1>7, <1>15, <1>16, Zenon DEF Called, item
<1> QED
  BY <1>0, <1>17, Zenon DEF args

(***************************************************************************)
(* The calls of a response                                                 *)
(***************************************************************************)

Telling == INSTANCE FoldProofs WITH Op <- Responses!EmitCall

\* The instances share the operators of ChatStream.
LEMMA ResponsesOperators ==
  /\ \A calls, fs : Responses!Accumulate(calls, fs) = Accumulate(calls, fs)
  /\ \A calls : Responses!Indices(calls) = Indices(calls)
<1>1. \A calls, fs : Responses!Accumulate(calls, fs) = Accumulate(calls, fs)
  BY Zenon DEF Responses!Accumulate, Accumulate, Responses!Growing!Through, Growing!Through,
     Responses!GrowCall, GrowCall, Responses!Put, Put, Responses!Grow, Grow, Responses!Call, Call,
     Responses!NoCall, NoCall, Responses!AddArgs, AddArgs, Responses!Num, Num
<1>2. \A calls : Responses!Indices(calls) = Indices(calls)
  BY Zenon DEF Responses!Indices, Indices, Responses!Cardinality, Cardinality,
     Responses!IsFiniteSet, IsFiniteSet
<1> QED
  BY <1>1, <1>2, Zenon

\* What there is to tell: the calls one by one.
InOrder(calls, q) ==
  /\ Size(calls) \in Nat /\ DOMAIN calls = 0 .. Size(calls) - 1 /\ Len(q) = Size(calls)
  /\ \A k \in 1 .. Size(calls) : q[k] = calls[k - 1]
  /\ \A i \in DOMAIN calls : calls[i].args \in Seq(Pieces)

\* Goes through all of them.
TellsCalls(s, q, t) ==
  /\ InOrder(s.tools, q)
  /\ t = Telling!Through([s EXCEPT !.tools = <<>>], q)

LEMMA CallsInOrder ==
  ASSUME NEW s, IsCalls(s.tools)
  PROVE  \E q : TellsCalls(s, q, Responses!EmitFunctionCallEvents(s))
<1> DEFINE calls == s.tools
           n == Size(calls)
           q == [k \in DOMAIN Indices(calls) |-> calls[Indices(calls)[k]]]
           t == Responses!EmitFunctionCallEvents(s)
           c == [s EXCEPT !.tools = <<>>]
<1>1. n \in Nat /\ DOMAIN calls = 0 .. n - 1
      /\ \A i \in DOMAIN calls : calls[i] \in CallSet
  BY CallsDomain
<1>2. DOMAIN Indices(calls) = 1 .. n /\ \A k \in 1 .. n : Indices(calls)[k] = k - 1
  BY IndicesNumbered
<1>3. t = Telling!Through(c, q)
  <2>1. t = Responses!Calling!Through(c, q)
    BY ResponsesOperators, Zenon DEF Responses!EmitFunctionCallEvents
  <2>2. \A x : Responses!Calling!Through(c, x) = Telling!Through(c, x)
    BY Zenon DEF Responses!Calling!Through, Telling!Through
  <2> QED
    BY <2>1, <2>2, Zenon
<1>4. \A i \in DOMAIN calls : calls[i].args \in Seq(Pieces)
  BY <1>1 DEF CallSet
<1> HIDE DEF n, t
<1>5. Len(q) = n /\ \A k \in 1 .. n : q[k] = calls[k - 1]
  BY <1>1, <1>2
<1> HIDE DEF q, c
<1>6. InOrder(calls, q)
  BY <1>1, <1>4, <1>5, Zenon DEF InOrder, n
<1>7. TellsCalls(s, q, t)
  BY <1>3, <1>6, Zenon DEF TellsCalls, c
<1> QED
  BY <1>7, Zenon DEF t

\* The first m calls are told.
CallsUpTo(v, s, m, u) ==
  /\ Flows(v, u) /\ u.reasoning = FALSE /\ u.content = FALSE /\ u.index = s.index + m
  /\ \A kind : Told(u, kind) = Told(s, kind)
  /\ \A j \in 1 .. s.index : u.output[j].kind # "call"
  /\ \A j \in 1 .. m : /\ u.output[s.index + j].kind = "call"
                       /\ u.output[s.index + j].args = s.tools[j - 1].args

LEMMA CallsOneMore ==
  ASSUME NEW v, NEW s, s.index \in Nat, NEW m \in Nat, NEW u, CallsUpTo(v, s, m, u),
         NEW call, call.args \in Seq(Pieces), call = s.tools[m]
  PROVE  CallsUpTo(v, s, m + 1, Responses!EmitCall(u, call))
<1> DEFINE t == Responses!EmitCall(u, call)
           item == Responses!Item("call", <<>>, call.args)
<1>1. Flows(v, u) /\ ~u.reasoning /\ ~u.content
  BY DEF CallsUpTo
<1>2. Called(v, u, t, call.args)
  BY <1>1, CallFlows, Zenon
<1> HIDE DEF t
<1>3. u.output \in Seq(OutputSet) /\ Len(u.output) = u.index
  BY <1>1, FlowsTyped
<1>4. item.kind = "call" /\ item.args = call.args /\ item \in OutputSet
  <2>1. <<>> \in Seq(PartSet)
    OBVIOUS
  <2> QED
    BY <2>1 DEF Responses!Item, OutputSet
<1>5. t.output = Append(u.output, item) /\ t.index = u.index + 1
  BY <1>2 DEF Called
<1> HIDE DEF item
<1>6. u.index = s.index + m
  BY DEF CallsUpTo
<1> DEFINE n == s.index + m
<1>0. n \in Nat /\ n + 1 = s.index + (m + 1)
  OBVIOUS
<1> HIDE DEF n
<1>7. /\ t.output[n + 1] = item
      /\ \A j \in 1 .. n : t.output[j] = u.output[j]
  <2> HIDE DEF OutputSet
  <2> QED
    BY <1>0, <1>3, <1>4, <1>5, <1>6 DEF n
<1>8. /\ \A j \in 1 .. s.index : u.output[j].kind # "call"
      /\ \A j \in 1 .. m : /\ u.output[s.index + j].kind = "call"
                           /\ u.output[s.index + j].args = s.tools[j - 1].args
  BY Zenon DEF CallsUpTo
<1>9. \A j \in 1 .. s.index : t.output[j].kind # "call"
  <2>1. \A j \in 1 .. s.index : j \in 1 .. n
    BY DEF n
  <2> QED
    BY <1>7, <1>8, <2>1, Zenon
<1>10. ASSUME NEW j \in 1 .. m + 1
       PROVE  /\ t.output[s.index + j].kind = "call"
              /\ t.output[s.index + j].args = s.tools[j - 1].args
  <2>1. CASE j = m + 1
    <3>1. j - 1 = m
      BY <2>1
    <3> QED
      BY <1>0, <1>4, <1>7, <2>1, <3>1, Zenon
  <2>2. CASE j \in 1 .. m
    <3>1. s.index + j \in 1 .. n
      BY <2>2 DEF n
    <3> QED
      BY <1>7, <1>8, <2>2, <3>1, Zenon
  <2>3. j = m + 1 \/ j \in 1 .. m
    OBVIOUS
  <2> QED
    BY <2>1, <2>2, <2>3, Zenon
<1>11. \A kind : Told(t, kind) = Told(s, kind)
  BY <1>2, Zenon DEF Called, CallsUpTo
<1>12. t.index = s.index + (m + 1)
  <2>1. t.index = n + 1
    BY <1>5, <1>6, Zenon DEF n
  <2> QED
    BY <1>0, <2>1, Zenon
<1>13. Flows(v, t) /\ t.reasoning = FALSE /\ t.content = FALSE
  BY <1>2 DEF Called
<1>14. CallsUpTo(v, s, m + 1, t)
  BY <1>9, <1>10, <1>11, <1>12, <1>13, Zenon DEF CallsUpTo
<1> QED
  BY <1>14 DEF t

LEMMA CallsAll ==
  ASSUME NEW v, NEW s, s.index \in Nat, IsCalls(s.tools),
         CallsUpTo(v, s, 0, [s EXCEPT !.tools = <<>>])
  PROVE  CallsUpTo(v, s, Size(s.tools), Responses!EmitFunctionCallEvents(s))
<1> DEFINE n == Size(s.tools)
           c == [s EXCEPT !.tools = <<>>]
           t == Responses!EmitFunctionCallEvents(s)
<1> HIDE DEF c, n, t
<1>1. PICK q : TellsCalls(s, q, t)
  BY CallsInOrder, Zenon DEF t
<1>2. /\ n \in Nat /\ DOMAIN s.tools = 0 .. n - 1 /\ Len(q) = n
      /\ \A k \in 1 .. n : q[k] = s.tools[k - 1]
      /\ \A i \in DOMAIN s.tools : s.tools[i].args \in Seq(Pieces)
      /\ t = Telling!Through(c, q)
  BY <1>1, Zenon DEF TellsCalls, InOrder, n, c
<1>3. PICK f : Telling!Goes(f, c, q)
  BY <1>2, Telling!ThroughSteps, Zenon
<1>4. /\ f[0] = c /\ Telling!Through(c, q) = f[n]
      /\ \A k \in 1 .. n : f[k] = Responses!EmitCall(f[k - 1], q[k])
  BY <1>2, <1>3 DEF Telling!Goes
<1> DEFINE S == {m \in Nat : m <= n => CallsUpTo(v, s, m, f[m])}
<1>5. 0 \in S
  BY <1>4 DEF c
<1>6. ASSUME NEW m \in Nat, m \in S PROVE m + 1 \in S
  <2> SUFFICES ASSUME m + 1 <= n PROVE CallsUpTo(v, s, m + 1, f[m + 1])
    OBVIOUS
  <2>1. m <= n /\ m \in DOMAIN s.tools /\ m + 1 \in 1 .. n /\ (m + 1) - 1 = m
    BY <1>2
  <2>2. CallsUpTo(v, s, m, f[m])
    BY <1>6, <2>1
  <2>3. f[m + 1] = Responses!EmitCall(f[m], s.tools[m]) /\ s.tools[m].args \in Seq(Pieces)
    BY <1>2, <1>4, <2>1
  <2> QED
    BY <2>2, <2>3, CallsOneMore, Zenon
<1>7. n \in S
  <2> HIDE DEF S
  <2> QED
    BY <1>2, <1>5, <1>6, Telling!AllNumbers
<1>8. CallsUpTo(v, s, n, f[n])
  BY <1>2, <1>7
<1> QED
  BY <1>2, <1>4, <1>8, Zenon DEF n, t

\* A client that has caught a mistake stays there.
LEMMA CallsKept ==
  ASSUME NEW v, NEW s, Written(s), IsCalls(s.tools)
  PROVE  Kept(v, [s EXCEPT !.tools = <<>>], Responses!EmitFunctionCallEvents(s))
<1> DEFINE n == Size(s.tools)
           c == [s EXCEPT !.tools = <<>>]
           t == Responses!EmitFunctionCallEvents(s)
<1>0. Written(c)
  BY DEF Written, ResponsesFields
<1> HIDE DEF c, n, t
<1>1. PICK q : TellsCalls(s, q, t)
  BY CallsInOrder, Zenon DEF t
<1>2. n \in Nat /\ Len(q) = n /\ t = Telling!Through(c, q)
  BY <1>1, Zenon DEF TellsCalls, InOrder, n, c
<1>3. PICK f : Telling!Goes(f, c, q)
  BY <1>2, Telling!ThroughSteps, Zenon
<1>4. /\ f[0] = c /\ Telling!Through(c, q) = f[n]
      /\ \A k \in 1 .. n : f[k] = Responses!EmitCall(f[k - 1], q[k])
  BY <1>2, <1>3 DEF Telling!Goes
<1> DEFINE S == {m \in Nat : m <= n => Kept(v, c, f[m])}
<1>5. 0 \in S
  BY <1>0, <1>4, KeptStill
<1>6. ASSUME NEW m \in Nat, m \in S PROVE m + 1 \in S
  <2> SUFFICES ASSUME m + 1 <= n PROVE Kept(v, c, f[m + 1])
    OBVIOUS
  <2>1. m <= n /\ m + 1 \in 1 .. n /\ (m + 1) - 1 = m
    BY <1>2
  <2>2. Kept(v, c, f[m])
    BY <1>6, <2>1
  <2>3. f[m + 1] = Responses!EmitCall(f[m], q[m + 1])
    BY <1>4, <2>1
  <2>4. Kept(v, f[m], f[m + 1])
    BY <2>2, <2>3, CallKept, Zenon DEF Kept
  <2> QED
    BY <2>2, <2>4, KeptOn, Zenon
<1>7. n \in S
  <2> HIDE DEF S
  <2> QED
    BY <1>2, <1>5, <1>6, Telling!AllNumbers
<1>8. Kept(v, c, f[n])
  BY <1>2, <1>7
<1> QED
  BY <1>2, <1>4, <1>8, Zenon DEF c, t

(***************************************************************************)
(* A response that is complete                                             *)
(***************************************************************************)

\* The items of a client that has all of them.
Mirrors(items, output) ==
  /\ items \in Seq(ItemSet) /\ output \in Seq(OutputSet) /\ Len(items) = Len(output)
  /\ \A k \in 1 .. Len(output) : SameItem(items[k], output[k])

LEMMA ItemsAlike ==
  ASSUME NEW items, NEW output, Mirrors(items, output)
  PROVE  Items!Through(NoParts, items) = Items!Through(NoParts, output)
<1>1. /\ items \in Seq(ItemSet) /\ output \in Seq(OutputSet) /\ Len(items) = Len(output)
      /\ \A k \in 1 .. Len(output) : SameItem(items[k], output[k])
  BY DEF Mirrors
<1>2. Len(output) \in Nat /\ NoParts \in Tally
  BY <1>1, NoPartsTyped
<1>3. \A n \in 1 .. Len(output) : \A t \in Tally :
        AddItem(t, output[n]) = AddItem(t, items[n]) /\ AddItem(t, output[n]) \in Tally
  <2> TAKE n \in 1 .. Len(output)
  <2>1. output[n] \in OutputSet /\ items[n].parts = output[n].parts
    <3> HIDE DEF OutputSet
    <3> QED
      BY <1>1 DEF SameItem
  <2>2. output[n].parts \in Seq(PartSet)
    <3> HIDE DEF PartSet
    <3> QED
      BY <2>1 DEF OutputSet
  <2> QED
    BY <2>1, <2>2, PartsKept, Zenon DEF AddItem
<1>4. \A x : Items!Through(NoParts, x) = ItemsFold!Through(NoParts, x)
  BY Zenon DEF Items!Through, ItemsFold!Through
<1>5. ItemsFold!Through(NoParts, output) = ItemsFold!Through(NoParts, items)
  BY <1>1, <1>2, <1>3, ItemsFold!ThroughAlike
<1> QED
  BY <1>4, <1>5, Zenon

LEMMA CallsListed ==
  ASSUME NEW v, NEW c, c.index \in Nat, IsCalls(c.tools), NEW d,
         CallsUpTo(v, c, Size(c.tools), d), NEW items, Mirrors(items, d.output)
  PROVE  Listed(items, c.tools)
<1> DEFINE calls == c.tools
           n == Size(calls)
           m == c.index
           order == Indices(calls)
<1>1. n \in Nat
  BY CallsDomain
<1>2. Len(order) = n /\ DOMAIN order = 1 .. n /\ \A k \in 1 .. n : order[k] = k - 1
  BY IndicesNumbered
<1> HIDE DEF n, order
<1>3. /\ d.index = m + n
      /\ \A j \in 1 .. m : d.output[j].kind # "call"
      /\ \A j \in 1 .. n : d.output[m + j].kind = "call" /\ d.output[m + j].args = calls[j - 1].args
  BY Zenon DEF CallsUpTo, n
<1>4. Len(d.output) = d.index
  <2>1. Flows(v, d)
    BY Zenon DEF CallsUpTo
  <2> QED
    BY <2>1, FlowsTyped
<1>5. /\ Len(items) = m + n /\ DOMAIN items = 1 .. m + n
      /\ \A k \in 1 .. m + n : /\ items[k].kind = d.output[k].kind
                               /\ items[k].args = d.output[k].args
  <2>1. /\ items \in Seq(ItemSet) /\ Len(items) = Len(d.output)
        /\ \A k \in 1 .. Len(d.output) : SameItem(items[k], d.output[k])
    BY DEF Mirrors
  <2>2. Len(d.output) = m + n
    BY <1>3, <1>4, Zenon
  <2> HIDE DEF ItemSet
  <2> QED
    BY <2>1, <2>2 DEF SameItem
<1>6. m \in Nat
  OBVIOUS
<1> HIDE DEF m
<1>7. Len(items) - Len(order) = m
  BY <1>1, <1>2, <1>5, <1>6
<1>8. ASSUME NEW k \in DOMAIN items PROVE items[k].kind = "call" <=> k > m
  <2>0. k \in 1 .. m + n
    BY <1>5, Zenon
  <2>1. CASE k > m
    <3>1. k - m \in 1 .. n /\ m + (k - m) = k
      BY <1>1, <1>6, <2>0, <2>1
    <3>2. d.output[m + (k - m)].kind = "call"
      BY <1>3, <3>1, Zenon
    <3>3. d.output[k].kind = "call"
      BY <3>1, <3>2, Zenon
    <3> QED
      BY <1>5, <2>0, <2>1, <3>3, Zenon
  <2>2. CASE ~(k > m)
    <3>1. k \in 1 .. m
      BY <1>1, <1>6, <2>0, <2>2
    <3> QED
      BY <1>3, <1>5, <2>0, <2>2, <3>1, Zenon
  <2> QED
    BY <2>1, <2>2, Zenon
<1>9. ASSUME NEW k \in DOMAIN order PROVE items[m + k].args = calls[order[k]].args
  <2>1. k \in 1 .. n /\ order[k] = k - 1
    BY <1>2, Zenon
  <2>2. m + k \in 1 .. m + n
    BY <1>1, <1>6, <2>1
  <2>3. d.output[m + k].args = calls[k - 1].args
    BY <1>3, <2>1, Zenon
  <2>4. items[m + k].args = d.output[m + k].args
    BY <1>5, <2>2, Zenon
  <2> QED
    BY <2>1, <2>3, <2>4, Zenon
<1>10. Listed(items, calls)
  BY <1>7, <1>8, <1>9, Zenon DEF Listed, order
<1> QED
  BY <1>10, Zenon

\* The client has a complete response, with all of the reply.
IsWhole(v, r) == v.ok = TRUE /\ v.end = "complete" /\ ListsAll(r, v.items)

LEMMA CompletionTells ==
  ASSUME NEW v, NEW s, Flows(v, s), NEW r, Tells(r, s), s.tools = r.calls, IsCalls(r.calls)
  PROVE  IsWhole(Spoken(v, Responses!ProcessCompletion(s)), r)
<1> DEFINE a == [s EXCEPT !.done = TRUE]
           b == Responses!FinishReasoning(a)
           c == Responses!FinishMessageItem(b)
           d == Responses!EmitFunctionCallEvents(c)
           e == [type |-> "completed", output |-> d.output]
           t == Responses!Emit(d, e)
<1>1. Responses!ProcessCompletion(s) = t
  BY Zenon DEF Responses!ProcessCompletion
<1>2. Flows(v, a) /\ a.tools = r.calls /\ SameItems(s, a)
  <2>1. Streamed(s, Spoken(v, s)) /\ IsList(s.out)
    BY DEF Flows
  <2>2. DOMAIN a = ResponsesFields /\ SameItems(s, a) /\ a.out = s.out /\ a.tools = r.calls
    BY <2>1 DEF Streamed, ResponsesFields, SameItems
  <2> HIDE DEF a
  <2>3. Streamed(a, Spoken(v, s))
    BY <2>1, <2>2, SameFlows, Zenon
  <2> QED
    BY <2>1, <2>2, <2>3, Zenon DEF Flows, Spoken
<1>3. Told(a, "text") = r.text /\ Told(a, "refusal") = r.refusal /\ Told(a, "summary") = r.think
      /\ NoCallYet(a)
  <2>1. \A kind : Told(a, kind) = Told(s, kind)
    BY <1>2, Zenon DEF Told, SameItems
  <2>2. NoCallYet(a)
    BY <1>2, Zenon DEF NoCallYet, SameItems, Tells
  <2> QED
    BY <2>1, <2>2, Zenon DEF Tells
<1> HIDE DEF a
<1>4. Flows(v, b) /\ ~b.reasoning /\ Tolds(a, b, 0, 0, 0)
  <2>1. Settled(v, a, b)
    BY <1>2, ReasoningFlows, Zenon
  <2> QED
    BY <2>1 DEF Settled
<1>5. b.tools = a.tools /\ Written(b)
  BY <1>2, FlowsWritten, ReasoningKept, Zenon DEF Kept, Aloof
<1> HIDE DEF b
<1>6. Flows(v, c) /\ c.reasoning = FALSE /\ c.content = FALSE /\ Tolds(b, c, 0, 0, 0)
  BY <1>4, MessageFlows, Zenon
<1>7. c.tools = b.tools
  BY <1>5, MessageKept, Zenon DEF Kept, Aloof
<1> HIDE DEF c
<1>8. Told(c, "text") = r.text /\ Told(c, "refusal") = r.refusal /\ Told(c, "summary") = r.think
      /\ NoCallYet(c)
  <2>1. /\ Told(a, "text") \in Nat /\ Told(a, "refusal") \in Nat /\ Told(a, "summary") \in Nat
    BY <1>2, FlowsTyped
  <2>2. Tolds(a, c, 0 + 0, 0 + 0, 0 + 0)
    BY <1>4, <1>6, <2>1, ToldsOn
  <2> QED
    BY <1>3, <2>1, <2>2 DEF Tolds
<1>9. c.index \in Nat /\ IsCalls(c.tools) /\ c.tools = r.calls
  BY <1>2, <1>5, <1>6, <1>7, FlowsTyped
<1> DEFINE u == [c EXCEPT !.tools = <<>>]
<1>10. CallsUpTo(v, c, 0, u)
  <2>1. Streamed(c, Spoken(v, c)) /\ IsList(c.out)
    BY <1>6 DEF Flows
  <2>2. DOMAIN u = ResponsesFields /\ SameItems(c, u) /\ u.out = c.out
    BY <2>1 DEF Streamed, ResponsesFields, SameItems
  <2> HIDE DEF u
  <2>3. Streamed(u, Spoken(v, c))
    BY <2>1, <2>2, SameFlows, Zenon
  <2>4. Flows(v, u)
    BY <2>1, <2>2, <2>3, Zenon DEF Flows, Spoken
  <2>5. \A kind : Told(u, kind) = Told(c, kind)
    BY <2>2, Zenon DEF Told, SameItems
  <2>6. u.reasoning = FALSE /\ u.content = FALSE /\ u.index = c.index + 0
    BY <1>6, <1>9, <2>2 DEF SameItems
  <2>7. \A j \in 1 .. c.index : u.output[j].kind # "call"
    BY <1>8, <2>2, Zenon DEF NoCallYet, SameItems
  <2>8. \A j : j \notin 1 .. 0
    OBVIOUS
  <2> QED
    BY <2>4, <2>5, <2>6, <2>7, <2>8, Zenon DEF CallsUpTo
<1>11. CallsUpTo(v, c, Size(c.tools), d)
  BY <1>9, <1>10, CallsAll
<1> HIDE DEF u, d
<1> DEFINE w == Spoken(v, d)
           x == Spoken(v, t)
<1>12. Flows(v, d) /\ d.reasoning = FALSE /\ d.content = FALSE
       /\ \A kind : Told(d, kind) = Told(c, kind)
  BY <1>11, Zenon DEF CallsUpTo
<1>13. Streamed(d, w) /\ Flowing(w) /\ Written(d)
  BY <1>12, FlowsWritten DEF Flows
<1>14. /\ Len(w.items) = d.index /\ Len(d.output) = d.index /\ d.index \in Nat
       /\ w.items \in Seq(ItemSet) /\ d.output \in Seq(OutputSet)
       /\ \A k \in 1 .. d.index : w.items[k].open = FALSE /\ SameItem(w.items[k], d.output[k])
       /\ d.parts = <<>> /\ d.think = 0
  BY <1>12, <1>13 DEF Streamed, IsResponse
<1>15. Mirrors(w.items, d.output)
  BY <1>14, Zenon DEF Mirrors
<1>16. x = ReadResponses(w, e)
  <2>1. DOMAIN d = ResponsesFields /\ d.out = d.out
    BY <1>13, Zenon DEF Written
  <2> HIDE DEF e, t
  <2>2. Sends(v, d, d, e, t)
    BY <1>13, <2>1, Sending, Zenon DEF Written, t
  <2> QED
    BY <2>2, Zenon DEF Sends
<1>17. x.ok = TRUE /\ x.end = "complete" /\ x.items = w.items
  <2> HIDE DEF w, x
  <2>1. ReadResponses(w, e).ok = TRUE /\ ReadResponses(w, e).end = "complete"
        /\ ReadResponses(w, e).items = w.items
    BY <1>13, <1>14, ReadsCompleted
  <2> QED
    BY <1>16, <2>1, Zenon
<1> HIDE DEF w, x, t
<1>18. Listed(x.items, r.calls)
  <2>1. Listed(w.items, c.tools)
    BY <1>9, <1>11, <1>15, CallsListed
  <2> QED
    BY <1>9, <1>17, <2>1, Zenon
<1> DEFINE I == Items!Through(NoParts, d.output)
<1>19. Items!Through(NoParts, x.items) = I
  BY <1>15, <1>17, ItemsAlike, Zenon
<1>20. I["text"] = r.text /\ I["refusal"] = r.refusal /\ I["summary"] = r.think
  <2>1. I \in Tally
    BY <1>14, NoPartsTyped, ItemsTyped
  <2>2. \A kind : Told(d, kind) = I[kind] + IF kind = "summary" THEN d.think ELSE 0
    <3>1. Parts!Through(I, d.parts) = I
      BY <1>14, PartsFew, Zenon
    <3> QED
      BY <3>1, Zenon DEF Told
  <2> HIDE DEF I
  <2>3. I["text"] \in Nat /\ I["refusal"] \in Nat /\ I["summary"] \in Nat
    BY <2>1 DEF Tally
  <2>4. Told(d, "text") = I["text"] /\ Told(d, "refusal") = I["refusal"]
        /\ Told(d, "summary") = I["summary"]
    BY <1>14, <2>2, <2>3
  <2> QED
    BY <1>8, <1>12, <2>4, Zenon
<1> HIDE DEF I
<1>21. ListsAll(r, x.items)
  BY <1>18, <1>19, <1>20, Zenon DEF ListsAll
<1> QED
  BY <1>1, <1>17, <1>21, Zenon DEF IsWhole, x

\* The converter is done, and a mistake stays one.
Over(v, s, t) ==
  /\ Written(t) /\ t.done = TRUE
  /\ IsDead(Spoken(v, s)) => IsDead(Spoken(v, t))

LEMMA CompletionKept ==
  ASSUME NEW v, NEW s, Written(s), IsCalls(s.tools)
  PROVE  Over(v, s, Responses!ProcessCompletion(s))
<1> DEFINE a == [s EXCEPT !.done = TRUE]
           b == Responses!FinishReasoning(a)
           c == Responses!FinishMessageItem(b)
           u == [c EXCEPT !.tools = <<>>]
           d == Responses!EmitFunctionCallEvents(c)
           e == [type |-> "completed", output |-> d.output]
           t == Responses!Emit(d, e)
<1>1. Responses!ProcessCompletion(s) = t
  BY Zenon DEF Responses!ProcessCompletion
<1>2. Written(a) /\ a.done = TRUE /\ a.tools = s.tools /\ a.out = s.out
  BY DEF Written, ResponsesFields
<1> HIDE DEF a
<1>3. Kept(v, a, b)
  BY <1>2, ReasoningKept, Zenon
<1> HIDE DEF b
<1>4. Kept(v, b, c)
  BY <1>3, MessageKept, Zenon DEF Kept
<1> HIDE DEF c
<1>5. Written(c) /\ IsCalls(c.tools) /\ c.done = TRUE
  BY <1>2, <1>3, <1>4, Zenon DEF Kept, Aloof
<1>6. u.done = TRUE /\ Written(u) /\ u.out = c.out
  BY <1>5 DEF Written, ResponsesFields
<1>7. Kept(v, u, d)
  BY <1>5, CallsKept, Zenon
<1> HIDE DEF d, u, e
<1>8. Kept(v, d, t)
  <2>1. Written(d)
    BY <1>7, Zenon DEF Kept
  <2>2. Sends(v, d, d, e, t)
    BY <2>1, Sending, Zenon DEF Written
  <2> QED
    BY <2>2, SendsKept, Zenon DEF Aloof
<1> HIDE DEF t
<1>9. Written(t) /\ t.done = TRUE
  BY <1>6, <1>7, <1>8, Zenon DEF Kept, Aloof
<1>10. IsDead(Spoken(v, s)) => IsDead(Spoken(v, t))
  <2>1. Spoken(v, a) = Spoken(v, s) /\ Spoken(v, u) = Spoken(v, c)
    BY <1>2, <1>6, Zenon DEF Spoken
  <2> QED
    BY <1>3, <1>4, <1>7, <1>8, <2>1, Zenon DEF Kept
<1> QED
  BY <1>1, <1>9, <1>10, Zenon DEF Over

(***************************************************************************)
(* A line through the Responses converter                                  *)
(***************************************************************************)

LEMMA FailureKept ==
  ASSUME NEW v, NEW s, Written(s)
  PROVE  Over(v, s, Responses!ResponseFailed(s))
<1> DEFINE c == [s EXCEPT !.done = TRUE, !.error = TRUE]
           e == [type |-> "failed", output |-> s.output]
           t == Responses!Emit(c, e)
<1>1. Responses!ResponseFailed(s) = t
  BY Zenon DEF Responses!ResponseFailed
<1>2. DOMAIN c = ResponsesFields /\ c.out = s.out /\ c.done = TRUE
  BY DEF Written, ResponsesFields
<1> HIDE DEF c, e
<1>3. Sends(v, s, c, e, t)
  BY <1>2, Sending, Zenon DEF Written
<1> HIDE DEF t
<1>4. IsDead(Spoken(v, s)) => IsDead(ReadResponses(Spoken(v, s), e))
  BY DeadStays, Zenon
<1> QED
  BY <1>1, <1>2, <1>3, <1>4, Zenon DEF Sends, Over, Written

LEMMA FailureTells ==
  ASSUME NEW v, NEW s, Flows(v, s), NEW t, t = Responses!ResponseFailed(s)
  PROVE  Spoken(v, t).ok = TRUE /\ Spoken(v, t).end = "failed"
<1> DEFINE c == [s EXCEPT !.done = TRUE, !.error = TRUE]
           e == [type |-> "failed", output |-> s.output]
<1>0. Written(s) /\ Flowing(Spoken(v, s))
  BY FlowsWritten
<1>1. t = Responses!Emit(c, e)
  BY Zenon DEF Responses!ResponseFailed
<1>2. DOMAIN c = ResponsesFields /\ c.out = s.out
  BY <1>0 DEF Written, ResponsesFields
<1>3. e.type = "failed"
  OBVIOUS
<1> HIDE DEF c, e
<1>4. Sends(v, s, c, e, t)
  BY <1>0, <1>1, <1>2, Sending, Zenon DEF Written
<1>5. ReadResponses(Spoken(v, s), e).ok = TRUE /\ ReadResponses(Spoken(v, s), e).end = "failed"
  BY <1>0, <1>3, ReadsFailed, Zenon
<1> QED
  BY <1>4, <1>5, Zenon DEF Sends

LEMMA ClearHolds ==
  ASSUME NEW r, NEW t, NEW v, ResponsesHold(r, t, v)
  PROVE  ResponsesFit(r, Clear(t), v) /\ Clear(t).done = t.done
<1> DEFINE u == Clear(t)
<1>1. DOMAIN t = ResponsesFields
  BY DEF ResponsesHold
<1>2. /\ DOMAIN u = ResponsesFields /\ u = Clear(u) /\ u.done = t.done /\ u.finish = t.finish
      /\ u.tools = t.tools /\ SameItems(t, u)
  BY <1>1 DEF Clear, ResponsesFields, SameItems
<1> HIDE DEF u
<1>3. Streamed(t, v) => Streamed(u, v)
  BY <1>2, SameFlows, Zenon
<1>4. Tells(r, t) => Tells(r, u)
  BY <1>2, Zenon DEF Tells, Told, NoCallYet, SameItems
<1>5. ResponsesHold(r, u, v)
  BY <1>2, <1>3, <1>4, Zenon DEF ResponsesHold
<1> QED
  BY <1>2, <1>5, Zenon DEF ResponsesFit, u

\* A converter that has a line to come.
Ready(r, v, s) ==
  /\ Written(s) /\ s.done = FALSE /\ s.finish = (r.finish # "none") /\ ~r.error
  /\ s.tools = r.calls
  /\ r.late => IsDead(Spoken(v, s))
  /\ ~r.late => Flows(v, s) /\ Tells(r, s)

LEMMA ReadyHolds ==
  ASSUME NEW r, NEW v, NEW s, Ready(r, v, s)
  PROVE  ResponsesHold(r, s, Spoken(v, s))
BY Zenon DEF Ready, ResponsesHold, Written, Flows

LEMMA ReadyAgain ==
  ASSUME NEW r, NEW v, NEW s, Ready(r, v, s)
  PROVE  Ready(r, v, Responses!FirstWrite(s))
<1> DEFINE t == Responses!FirstWrite(s)
<1>1. Kept(v, s, t)
  BY FirstWriteKept, Zenon DEF Ready
<1>2. Flows(v, s) => Flows(v, t) /\ SameItems(s, t)
  BY FirstWriteFlows, Zenon
<1> HIDE DEF t
<1>3. Tells(r, s) /\ SameItems(s, t) => Tells(r, t)
  BY Zenon DEF Tells, Told, NoCallYet, SameItems
<1>4. Ready(r, v, t)
  BY <1>1, <1>2, <1>3, Zenon DEF Ready, Kept, Aloof
<1> QED
  BY <1>4 DEF t

\* The end of the stream, or its [DONE].
LEMMA ResponsesOver ==
  ASSUME NEW r, IsReply(r), NEW v, NEW s, Ready(r, v, s), NEW t, t = Responses!Finish(s)
  PROVE  ResponsesHold(r, t, Spoken(v, t)) /\ t.done = TRUE
<1> DEFINE a == Responses!FirstWrite(s)
<1>0. ~s.done /\ (s.finish <=> r.finish # "none") /\ a = Responses!FirstWrite(s)
  BY DEF Ready
<1>1. Ready(r, v, a)
  BY ReadyAgain, Zenon
<1> HIDE DEF a
<1>2. Written(a) /\ IsCalls(r.calls) /\ a.tools = r.calls /\ ~r.error
      /\ (r.late => IsDead(Spoken(v, a))) /\ (~r.late => Flows(v, a) /\ Tells(r, a))
  BY <1>1, Zenon DEF Ready, IsReply
<1>3. CASE s.finish
  <2>1. t = Responses!ProcessCompletion(a)
    BY <1>0, <1>3, Zenon DEF Responses!Finish
  <2>2. Over(v, a, t)
    BY <1>2, <2>1, CompletionKept, Zenon
  <2>3. ~r.late => IsWhole(Spoken(v, t), r)
    BY <1>2, <2>1, CompletionTells, Zenon
  <2>4. r.finish # "none"
    BY <1>0, <1>3
  <2> DEFINE w == Spoken(v, t)
  <2>5. ~r.late => w.ok = TRUE /\ w.end = "complete" /\ ListsAll(r, w.items)
    BY <2>3, Zenon DEF IsWhole
  <2>6. DOMAIN t = ResponsesFields /\ t.done = TRUE /\ (r.late => IsDead(w))
    BY <1>2, <2>2, Zenon DEF Over, Written
  <2> HIDE DEF w
  <2>7. ResponsesHold(r, t, w)
    BY <1>2, <2>4, <2>5, <2>6 DEF ResponsesHold
  <2> QED
    BY <2>6, <2>7 DEF w
<1>4. CASE ~s.finish
  <2>1. t = Responses!ResponseFailed(a)
    BY <1>0, <1>4, Zenon DEF Responses!Finish
  <2>2. Over(v, a, t)
    BY <1>2, <2>1, FailureKept, Zenon
  <2> DEFINE w == Spoken(v, t)
  <2>3. ~r.late => w.ok = TRUE /\ w.end = "failed"
    BY <1>2, <2>1, FailureTells, Zenon
  <2>4. r.finish = "none"
    BY <1>0, <1>4
  <2>6. DOMAIN t = ResponsesFields /\ t.done = TRUE /\ (r.late => IsDead(w))
    BY <1>2, <2>2, Zenon DEF Over, Written
  <2> HIDE DEF w
  <2>7. ResponsesHold(r, t, w)
    BY <1>2, <2>3, <2>4, <2>6 DEF ResponsesHold
  <2> QED
    BY <2>6, <2>7 DEF w
<1> QED
  BY <1>3, <1>4

\* An error in the middle of it.
LEMMA ResponsesErr ==
  ASSUME NEW r, NEW v, NEW s, Ready(r, v, s), NEW q, Erring(r, q),
         NEW t, t = Responses!ResponseFailed(s)
  PROVE  ResponsesHold(q, t, Spoken(v, t)) /\ t.done = TRUE
<1> DEFINE w == Spoken(v, t)
<1>1. Over(v, s, t)
  BY FailureKept, Zenon DEF Ready
<1>2. ~r.late => w.ok = TRUE /\ w.end = "failed"
  BY FailureTells, Zenon DEF Ready
<1>3. DOMAIN t = ResponsesFields /\ t.done = TRUE /\ (r.late => IsDead(w))
  BY <1>1, Zenon DEF Over, Written, Ready
<1>4. q.late = r.late /\ q.error = TRUE
  BY DEF Erring
<1> HIDE DEF w
<1>5. ResponsesHold(q, t, w)
  BY <1>2, <1>3, <1>4 DEF ResponsesHold
<1> QED
  BY <1>3, <1>5 DEF w

\* What becomes of the converter but for what it tells.
Passes(v, s, a, b, c, d, t, l) ==
  /\ Kept(v, s, a) /\ Kept(v, b, c) /\ Kept(v, c, d)
  /\ Written(b) /\ SameItems(a, b) /\ b.out = a.out
  /\ b.done = a.done /\ b.finish = a.finish /\ b.tools = Accumulate(a.tools, l.tools)
  /\ Written(t) /\ SameItems(d, t) /\ t.out = d.out
  /\ t.done = d.done /\ t.finish = (d.finish \/ l.finish # "none") /\ t.tools = d.tools

\* The steps of a chunk.
Steps(s, a, b, c, d, t, l) ==
  /\ a = IF l.think THEN Responses!ProcessThinking(s) ELSE s
  /\ b = [a EXCEPT !.tools = Accumulate(@, l.tools)]
  /\ c = IF l.text = "" THEN b ELSE Responses!ProcessPart(b, "text")
  /\ d = IF l.refusal THEN Responses!ProcessPart(c, "refusal") ELSE c
  /\ t = [d EXCEPT !.finish = @ \/ l.finish # "none"]

LEMMA DeliveredSteps ==
  ASSUME NEW s, NEW l
  PROVE  \E a, b, c, d : Steps(s, a, b, c, d, Responses!Delivered(s, l), l)
<1> DEFINE a == IF l.think THEN Responses!ProcessThinking(s) ELSE s
           b == [a EXCEPT !.tools = Accumulate(@, l.tools)]
           c == IF l.text = "" THEN b ELSE Responses!ProcessPart(b, "text")
           d == IF l.refusal THEN Responses!ProcessPart(c, "refusal") ELSE c
           t == [d EXCEPT !.finish = @ \/ l.finish # "none"]
<1>1. [a EXCEPT !.tools = Responses!Accumulate(@, l.tools)] = b
  BY ResponsesOperators, Zenon
<1>2. Responses!Delivered(s, l) = t
  BY <1>1, Zenon DEF Responses!Delivered
<1>3. Steps(s, a, b, c, d, t, l)
  BY Zenon DEF Steps
<1> HIDE DEF a, b, c, d, t
<1> QED
  BY <1>2, <1>3, Zenon

LEMMA DeliveredPasses ==
  ASSUME NEW v, NEW s, Written(s), NEW a, NEW b, NEW c, NEW d, NEW t, NEW l,
         Steps(s, a, b, c, d, t, l)
  PROVE  Passes(v, s, a, b, c, d, t, l)
<1>1. Kept(v, s, a)
  <2>1. a = Responses!ProcessThinking(s) \/ a = s
    BY Zenon DEF Steps
  <2> QED
    BY <2>1, ThinkingKept, KeptStill, Zenon
<1>2. /\ Written(b) /\ SameItems(a, b) /\ b.out = a.out
      /\ b.done = a.done /\ b.finish = a.finish /\ b.tools = Accumulate(a.tools, l.tools)
  <2> DEFINE calls == Accumulate(a.tools, l.tools)
  <2>1. DOMAIN a = ResponsesFields /\ IsList(a.out)
    BY <1>1, Zenon DEF Kept, Written
  <2>2. b = [a EXCEPT !.tools = calls]
    BY DEF Steps
  <2> HIDE DEF calls
  <2>3. /\ DOMAIN b = ResponsesFields /\ SameItems(a, b) /\ b.out = a.out
        /\ b.done = a.done /\ b.finish = a.finish /\ b.tools = calls
    BY <2>1, <2>2 DEF ResponsesFields, SameItems
  <2> QED
    BY <2>1, <2>3, Zenon DEF calls, Written
<1>3. Kept(v, b, c)
  <2>1. c = Responses!ProcessPart(b, "text") \/ c = b
    BY Zenon DEF Steps
  <2> QED
    BY <1>2, <2>1, PartKept, KeptStill, Zenon
<1>4. Kept(v, c, d)
  <2>1. d = Responses!ProcessPart(c, "refusal") \/ d = c
    BY Zenon DEF Steps
  <2>2. Written(c)
    BY <1>3, Zenon DEF Kept
  <2> QED
    BY <2>1, <2>2, PartKept, KeptStill, Zenon
<1>5. /\ Written(t) /\ SameItems(d, t) /\ t.out = d.out
      /\ t.done = d.done /\ t.finish = (d.finish \/ l.finish # "none") /\ t.tools = d.tools
  <2> DEFINE f == d.finish \/ l.finish # "none"
  <2>1. DOMAIN d = ResponsesFields /\ IsList(d.out)
    BY <1>4, Zenon DEF Kept, Written
  <2>2. t = [d EXCEPT !.finish = f]
    BY DEF Steps
  <2> HIDE DEF f
  <2>3. /\ DOMAIN t = ResponsesFields /\ SameItems(d, t) /\ t.out = d.out
        /\ t.done = d.done /\ t.tools = d.tools /\ t.finish = f
    BY <2>1, <2>2 DEF ResponsesFields, SameItems
  <2> QED
    BY <2>1, <2>3, Zenon DEF f, Written
<1> QED
  BY <1>1, <1>2, <1>3, <1>4, <1>5, Zenon DEF Passes

LEMMA SameToldFlows ==
  ASSUME NEW v, NEW s, Flows(v, s), NEW t, Written(t), SameItems(s, t), t.out = s.out
  PROVE  Flows(v, t) /\ Tolds(s, t, 0, 0, 0)
<1>1. Streamed(s, Spoken(v, s)) /\ IsList(s.out)
  BY DEF Flows
<1>2. Streamed(t, Spoken(v, s))
  BY <1>1, SameFlows, Zenon DEF Written
<1>3. Flows(v, t)
  BY <1>1, <1>2, Zenon DEF Flows, Spoken
<1>4. Tolds(s, t, 0, 0, 0)
  BY TellsNothing, Zenon DEF SameItems
<1> QED
  BY <1>3, <1>4

\* What the chunk tells.
LEMMA DeliveredTells ==
  ASSUME NEW v, NEW s, NEW a, NEW b, NEW c, NEW d, NEW t, NEW l, IsChunk(l),
         Steps(s, a, b, c, d, t, l), Passes(v, s, a, b, c, d, t, l), Flows(v, s),
         l.think => ~s.content
  PROVE  /\ Flows(v, t) /\ Tolds(s, t, Num(l.text # ""), Num(l.refusal), Num(l.think))
         /\ t.content = (s.content \/ l.text # "" \/ l.refusal)
<1> DEFINE m == Num(l.text # "")
           n == Num(l.refusal)
           h == Num(l.think)
<1>0. m \in Nat /\ n \in Nat /\ h \in Nat /\ l.think \in BOOLEAN /\ l.refusal \in BOOLEAN
  BY NumIsNat DEF IsChunk
<1>1. Flows(v, a) /\ a.content = s.content /\ Tolds(s, a, 0, 0, h)
  <2>1. CASE l.think
    <3>1. a = Responses!ProcessThinking(s)
      BY <2>1, Zenon DEF Steps
    <3>2. Thought(v, s, a)
      BY <2>1, <3>1, ThinkingFlows, Zenon
    <3>3. h = 1
      BY <2>1 DEF Num
    <3> QED
      BY <3>2, <3>3, Zenon DEF Thought
  <2>2. CASE ~l.think
    <3>1. a = s
      BY <2>2, Zenon DEF Steps
    <3>2. h = 0
      BY <2>2 DEF Num
    <3> QED
      BY <3>1, <3>2, TellsNothing, Zenon
  <2> QED
    BY <2>1, <2>2
<1>2. Flows(v, b) /\ b.content = s.content /\ Tolds(a, b, 0, 0, 0)
  BY <1>1, SameToldFlows, Zenon DEF Passes, SameItems
<1>3. Flows(v, c) /\ c.content = (s.content \/ l.text # "") /\ Tolds(b, c, m, 0, 0)
  <2>0. s.content \in BOOLEAN
    BY FlowsTyped
  <2>1. CASE l.text = ""
    <3>1. c = b
      BY <2>1, Zenon DEF Steps
    <3>2. m = 0
      BY <2>1 DEF Num
    <3> QED
      BY <1>2, <2>0, <2>1, <3>1, <3>2, TellsNothing, Zenon
  <2>2. CASE l.text # ""
    <3>1. c = Responses!ProcessPart(b, "text")
      BY <2>2, Zenon DEF Steps
    <3>2. PartTold(v, b, c, "text")
      BY <1>2, <3>1, PartFlows
    <3>3. m = 1
      BY <2>2 DEF Num
    <3> QED
      BY <2>0, <2>2, <3>2, <3>3, Zenon DEF PartTold
  <2> QED
    BY <2>1, <2>2
<1>4. Flows(v, d) /\ d.content = (s.content \/ l.text # "" \/ l.refusal) /\ Tolds(c, d, 0, n, 0)
  <2>0. c.content \in BOOLEAN
    BY <1>3, FlowsTyped
  <2>1. CASE ~l.refusal
    <3>1. d = c
      BY <2>1, Zenon DEF Steps
    <3>2. n = 0
      BY <2>1 DEF Num
    <3> QED
      BY <1>3, <2>0, <2>1, <3>1, <3>2, TellsNothing, Zenon
  <2>2. CASE l.refusal
    <3>1. d = Responses!ProcessPart(c, "refusal")
      BY <2>2, Zenon DEF Steps
    <3>2. PartTold(v, c, d, "refusal")
      BY <1>3, <3>1, PartFlows
    <3>3. n = 1
      BY <2>2 DEF Num
    <3> QED
      BY <2>0, <2>2, <3>2, <3>3, Zenon DEF PartTold
  <2> QED
    BY <2>1, <2>2
<1>5. Flows(v, t) /\ t.content = d.content /\ Tolds(d, t, 0, 0, 0)
  BY <1>4, SameToldFlows, Zenon DEF Passes, SameItems
<1>6. Told(s, "text") \in Nat /\ Told(s, "refusal") \in Nat /\ Told(s, "summary") \in Nat
  BY FlowsTyped
<1> HIDE DEF m, n, h
<1>7. Tolds(s, b, 0, 0, h)
  BY <1>0, <1>1, <1>2, <1>6 DEF Tolds
<1>8. Tolds(s, c, m, 0, h)
  <2>1. 0 + m = m /\ 0 + 0 = 0 /\ h + 0 = h /\ 0 \in Nat
    BY <1>0
  <2>2. Tolds(s, c, 0 + m, 0 + 0, h + 0)
    BY <1>0, <1>3, <1>6, <1>7, <2>1, ToldsOn, Zenon
  <2> QED
    BY <2>1, <2>2, Zenon
<1>9. Tolds(s, t, m, n, h)
  <2>1. m + 0 = m /\ n + 0 = n /\ 0 + n = n /\ h + 0 = h /\ 0 \in Nat
    BY <1>0
  <2>2. Tolds(s, d, m + 0, 0 + n, h + 0)
    BY <1>0, <1>4, <1>6, <1>8, <2>1, ToldsOn, Zenon
  <2>3. Tolds(s, d, m, n, h)
    BY <2>1, <2>2, Zenon
  <2>4. Tolds(s, t, m + 0, n + 0, h + 0)
    BY <1>0, <1>5, <1>6, <2>1, <2>3, ToldsOn, Zenon
  <2> QED
    BY <2>1, <2>4, Zenon
<1> QED
  BY <1>4, <1>5, <1>9, Zenon DEF m, n, h

LEMMA DeliveredReady ==
  ASSUME NEW r, IsReply(r), r.finish = "none", NEW v, NEW s, Ready(r, v, s),
         NEW l, IsChunk(l), NEW q, Adding(r, l, q)
  PROVE  Ready(q, v, Responses!Delivered(s, l))
<1> DEFINE t == Responses!Delivered(s, l)
<1> HIDE DEF t
<1>1. PICK a, b, c, d : Steps(s, a, b, c, d, t, l)
  BY DeliveredSteps, Zenon DEF t
<1>2. Passes(v, s, a, b, c, d, t, l)
  BY <1>1, DeliveredPasses, Zenon DEF Ready
<1>3. /\ Written(s) /\ s.done = FALSE /\ s.finish = (r.finish # "none") /\ ~r.error
      /\ s.tools = r.calls /\ (r.late => IsDead(Spoken(v, s)))
      /\ (~r.late => Flows(v, s) /\ Tells(r, s))
  BY Zenon DEF Ready
<1>4. /\ Kept(v, s, a) /\ Kept(v, b, c) /\ Kept(v, c, d) /\ b.out = a.out /\ t.out = d.out
      /\ b.done = a.done /\ b.finish = a.finish /\ b.tools = Accumulate(a.tools, l.tools)
      /\ Written(t) /\ t.done = d.done /\ t.finish = (d.finish \/ l.finish # "none")
      /\ t.tools = d.tools
  BY <1>2, Zenon DEF Passes
<1>5. /\ IsReply(q) /\ q.error = r.error
      /\ q.late = (r.late \/ (l.think /\ r.text + r.refusal > 0))
      /\ q.text = r.text + Num(l.text # "") /\ q.refusal = r.refusal + Num(l.refusal)
      /\ q.think = r.think + Num(l.think) /\ q.calls = Accumulate(r.calls, l.tools)
      /\ q.finish = IF l.finish = "none" THEN r.finish ELSE l.finish
  BY DEF Adding
<1>6. t.done = FALSE /\ t.tools = q.calls
  BY <1>3, <1>4, <1>5, Zenon DEF Kept, Aloof
<1>7. t.finish = (q.finish # "none")
  <2>1. d.finish = s.finish
    BY <1>4, Zenon DEF Kept, Aloof
  <2> QED
    BY <1>3, <1>4, <1>5, <2>1
<1>8. ASSUME q.late PROVE IsDead(Spoken(v, t))
  <2>1. IsDead(Spoken(v, a))
    <3>1. CASE r.late
      BY <1>3, <1>4, <3>1, Zenon DEF Kept
    <3>2. CASE ~r.late /\ l.think /\ r.text + r.refusal > 0
      <4>1. s.content
        BY <1>3, <3>2 DEF Tells
      <4>2. a = Responses!ProcessThinking(s)
        BY <1>1, <3>2, Zenon DEF Steps
      <4> QED
        BY <1>3, <3>2, <4>1, <4>2, ThinkingLate, Zenon
    <3> QED
      BY <1>5, <1>8, <3>1, <3>2, Zenon
  <2>2. Spoken(v, b) = Spoken(v, a) /\ Spoken(v, t) = Spoken(v, d)
    BY <1>4, Zenon DEF Spoken
  <2> QED
    BY <1>4, <2>1, <2>2, Zenon DEF Kept
<1>9. ASSUME ~q.late PROVE Flows(v, t) /\ Tells(q, t)
  <2>1. ~r.late /\ (l.think => ~(r.text + r.refusal > 0))
    BY <1>5, <1>9, Zenon
  <2>2. Flows(v, s) /\ NoCallYet(s) /\ s.content = (r.text + r.refusal > 0)
        /\ Told(s, "text") = r.text /\ Told(s, "refusal") = r.refusal /\ Told(s, "summary") = r.think
    BY <1>3, <2>1 DEF Tells
  <2> DEFINE m == Num(l.text # "")
             n == Num(l.refusal)
             h == Num(l.think)
  <2>3. /\ Flows(v, t) /\ Tolds(s, t, m, n, h)
        /\ t.content = (s.content \/ l.text # "" \/ l.refusal)
    <3>1. l.think => ~s.content
      BY <2>1, <2>2
    <3> QED
      BY <1>1, <1>2, <2>2, <3>1, DeliveredTells, Zenon
  <2>4. /\ Told(t, "text") = r.text + m /\ Told(t, "refusal") = r.refusal + n
        /\ Told(t, "summary") = r.think + h /\ NoCallYet(t)
    BY <2>2, <2>3, Zenon DEF Tolds
  <2>5. t.content = (q.text + q.refusal > 0)
    <3>1. r.text \in Nat /\ r.refusal \in Nat /\ m \in {0, 1} /\ n \in {0, 1}
      BY NumIsNat DEF IsReply
    <3>2. l.refusal \in BOOLEAN /\ s.content \in BOOLEAN
      BY <2>2, FlowsTyped DEF IsChunk
    <3>3. q.text = r.text + m /\ q.refusal = r.refusal + n
      BY <1>5, Zenon
    <3>4. (l.text # "" => m = 1) /\ (l.text = "" => m = 0)
          /\ (l.refusal => n = 1) /\ (~l.refusal => n = 0)
      BY Zenon DEF Num
    <3> HIDE DEF m, n
    <3>5. CASE l.text # "" \/ l.refusal
      <4>1. t.content = TRUE
        BY <2>3, <3>2, <3>5, Zenon
      <4>2. m = 1 \/ n = 1
        BY <3>4, <3>5, Zenon
      <4>3. q.text + q.refusal > 0
        BY <3>1, <3>3, <4>2
      <4> QED
        BY <4>1, <4>3
    <3>6. CASE l.text = "" /\ ~l.refusal
      <4>1. t.content = s.content
        BY <2>3, <3>2, <3>6, Zenon
      <4>2. m = 0 /\ n = 0
        BY <3>4, <3>6, Zenon
      <4>3. q.text = r.text /\ q.refusal = r.refusal
        BY <3>1, <3>3, <4>2
      <4> QED
        BY <2>2, <4>1, <4>3, Zenon
    <3> QED
      BY <3>5, <3>6
  <2> QED
    BY <1>5, <2>3, <2>4, <2>5, Zenon DEF Tells
<1>10. ~q.error
  BY <1>3, <1>5
<1>11. Ready(q, v, t)
  BY <1>4, <1>6, <1>7, <1>8, <1>9, <1>10, Zenon DEF Ready
<1> QED
  BY <1>11 DEF t

\* A line keeps the Responses client in step with the reply.
LEMMA ResponsesLine ==
  ASSUME NEW r, IsReply(r), NEW l, IsLine(r, l), NEW s, NEW v, ResponsesFit(r, s, v),
         l.type \in {"chunk", "error"} => ~s.done
  PROVE  /\ ResponsesFit(Carried(r, l), Clear(Responses!Line(s, l)),
                         ResponsesClient!Through(v, Responses!Line(s, l).out))
         /\ Ends(s, l, Clear(Responses!Line(s, l)))
<1> DEFINE t == Responses!Line(s, l)
           q == Carried(r, l)
           a == Responses!FirstWrite(s)
<1>1. ResponsesClient!Through(v, t.out) = Spoken(v, t)
  BY Zenon DEF Spoken
<1>2. ResponsesHold(r, s, v) /\ DOMAIN s = ResponsesFields /\ s = Clear(s) /\ s.out = <<>>
  <2>1. ResponsesHold(r, s, v) /\ DOMAIN s = ResponsesFields /\ s = Clear(s)
    BY Zenon DEF ResponsesFit, ResponsesHold
  <2>2. Clear(s).out = <<>>
    BY <2>1 DEF Clear, ResponsesFields
  <2> QED
    BY <2>1, <2>2
<1>3. Spoken(v, s) = v /\ IsList(s.out)
  <2>1. Respondent!Through(v, <<>>) = v
    BY Respondent!ThroughNone, Zenon
  <2>2. ResponsesClient!Through(v, s.out) = Respondent!Through(v, s.out)
    BY Zenon DEF ResponsesClient!Through, Respondent!Through
  <2>3. <<>> \in Seq({})
    OBVIOUS
  <2> QED
    BY <1>2, <2>1, <2>2, <2>3 DEF Spoken, IsList
<1>4. s.done \in BOOLEAN
  BY <1>2, Zenon DEF ResponsesHold
<1>5. SUFFICES ResponsesHold(q, t, Spoken(v, t)) /\ Ends(s, l, t)
  <2> HIDE DEF t, q
  <2> SUFFICES ASSUME ResponsesHold(q, t, Spoken(v, t)), Ends(s, l, t)
               PROVE  ResponsesFit(q, Clear(t), Spoken(v, t)) /\ Ends(s, l, Clear(t))
    BY <1>1, Zenon DEF t, q
  <2> QED
    BY ClearHolds, Zenon DEF Ends
<1>6. CASE s.done
  <2>1. t = s /\ l.type \notin {"chunk", "error"}
    BY <1>6, Zenon DEF Responses!Line
  <2>2. q = r
    BY <2>1, CarriedTyped DEF IsLine, IsChunk
  <2>3. Ends(s, l, t)
    BY <1>4, <1>6, <2>1, Zenon DEF Ends
  <2> QED
    BY <1>2, <1>3, <2>1, <2>2, <2>3, Zenon
<1>7. CASE ~s.done
  <2>1. Ready(r, v, s)
    <3>1. s.done = FALSE
      BY <1>4, <1>7
    <3> QED
      BY <1>2, <1>3, <3>1, Zenon DEF ResponsesHold, Ready, Written, Flows
  <2>2. Ready(r, v, a)
    BY <2>1, ReadyAgain, Zenon
  <2>3. s.done = FALSE /\ a.done = FALSE
    BY <2>1, <2>2, Zenon DEF Ready
  <2> HIDE DEF a
  <2>4. CASE l.type = "chunk"
    <3>1. IsChunk(l) /\ r.finish = "none"
      BY <2>4 DEF IsLine
    <3>2. t = Responses!Delivered(a, l)
      BY <1>7, <2>4 DEF Responses!Line, a
    <3>3. Adding(r, l, q)
      BY <2>4, CarriedTyped, Zenon
    <3> HIDE DEF t, q
    <3>4. Ready(q, v, t)
      BY <2>2, <3>1, <3>2, <3>3, DeliveredReady, Zenon
    <3>5. t.done = FALSE
      BY <3>4, Zenon DEF Ready
    <3> QED
      BY <2>3, <2>4, <3>4, <3>5, ReadyHolds DEF Ends
  <2>5. CASE l.type = "usage"
    <3>1. t = a
      BY <1>7, <2>5 DEF Responses!Line, a
    <3>2. q = r
      BY <2>5, CarriedTyped
    <3> HIDE DEF t, q
    <3> QED
      BY <2>2, <2>3, <2>5, <3>1, <3>2, ReadyHolds DEF Ends
  <2>6. CASE l.type = "error"
    <3>1. t = Responses!ResponseFailed(a)
      BY <1>7, <2>6 DEF Responses!Line, a
    <3>2. Erring(r, q)
      BY <2>6, CarriedTyped, Zenon
    <3> HIDE DEF t, q
    <3>3. ResponsesHold(q, t, Spoken(v, t)) /\ t.done = TRUE
      BY <2>2, <3>1, <3>2, ResponsesErr, Zenon
    <3> QED
      BY <2>6, <3>3 DEF Ends
  <2>7. CASE l.type \in {"[DONE]", "eof"}
    <3>1. t = Responses!Finish(s)
      BY <1>7, <2>7 DEF Responses!Line
    <3>2. q = r
      BY <2>7, CarriedTyped
    <3> HIDE DEF t, q
    <3>3. ResponsesHold(r, t, Spoken(v, t)) /\ t.done = TRUE
      BY <2>1, <3>1, ResponsesOver, Zenon
    <3> QED
      BY <2>7, <3>2, <3>3 DEF Ends
  <2> QED
    BY <2>4, <2>5, <2>6, <2>7 DEF IsLine, IsChunk
<1> QED
  BY <1>6, <1>7

(***************************************************************************)
(* Ollama                                                                  *)
(***************************************************************************)

OllamaFold == INSTANCE FoldProofs WITH Op <- ReadOllama

LEMMA OllamaOperators == \A calls, fs : Ollama!Accumulate(calls, fs) = Accumulate(calls, fs)
BY Zenon DEF Ollama!Accumulate, Accumulate, Ollama!Growing!Through, Growing!Through,
   Ollama!GrowCall, GrowCall, Ollama!Put, Put, Ollama!Grow, Grow, Ollama!Call, Call,
   Ollama!NoCall, NoCall, Ollama!AddArgs, AddArgs, Ollama!Num, Num

LEMMA OllamaFew ==
  ASSUME NEW v, NEW p
  PROVE  OllamaClient!Through(v, <<>>) = v /\ OllamaClient!Through(v, <<p>>) = ReadOllama(v, p)
<1>1. \A q : OllamaClient!Through(v, q) = OllamaFold!Through(v, q)
  BY Zenon DEF OllamaClient!Through, OllamaFold!Through
<1>2. OllamaFold!Through(v, <<>>) = v /\ OllamaFold!Through(v, <<p>>) = ReadOllama(v, p)
  BY OllamaFold!ThroughNone, OllamaFold!ThroughOne, Zenon
<1> QED
  BY <1>1, <1>2, Zenon

\* The client of a part.
TalliesPart(v, w, content, think, tools, done) ==
  /\ IsTally(w) /\ w.text = v.text + content /\ w.think = v.think + Num(think)
  /\ w.ends = v.ends + Num(done) /\ w.tools = IF done THEN tools ELSE v.tools

LEMMA ReadsOllama ==
  ASSUME NEW v, IsTally(v), NEW content \in Nat, NEW think, NEW tools, NEW done
  PROVE  TalliesPart(v, ReadOllama(v, Ollama!Part(content, think, tools, done)),
                     content, think, tools, done)
<1> DEFINE p == Ollama!Part(content, think, tools, done)
           h == Num(think)
           m == Num(done)
           u == IF done THEN tools ELSE v.tools
           w == ReadOllama(v, p)
<1>1. p.content = content /\ p.think = think /\ p.tools = tools /\ p.done = done
  BY DEF Ollama!Part
<1>2. w = [v EXCEPT !.text = @ + content, !.think = @ + h, !.ends = @ + m, !.tools = u]
  BY <1>1, Zenon DEF ReadOllama
<1>3. h \in Nat /\ m \in Nat
  BY NumIsNat
<1> HIDE DEF p, h, m, u, w
<1>4. /\ IsTally(w) /\ w.text = v.text + content /\ w.think = v.think + h
      /\ w.ends = v.ends + m /\ w.tools = u
  BY <1>2, <1>3 DEF IsTally
<1> QED
  BY <1>4, Zenon DEF TalliesPart, p, h, m, u, w

\* The decoder after a line, and what it sends.
Sent(s, t, tools, held, finish, done, out) ==
  /\ DOMAIN t = OllamaFields /\ t.tools = tools /\ t.held = held /\ t.finish = finish
  /\ t.done = done /\ t.out = out

LEMMA OllamaChunk ==
  ASSUME NEW s, DOMAIN s = OllamaFields, s.out = <<>>, s.held \in Nat, NEW l
  PROVE  \E held \in Nat, content \in Nat :
           /\ content + held = s.held + Num(l.text # "")
           /\ Sent(s, Ollama!Delivered(s, l), Accumulate(s.tools, l.tools), held,
                   s.finish \/ l.finish # "none", s.done,
                   <<Ollama!Part(content, l.think, <<>>, FALSE)>>)
<1> DEFINE calls == Accumulate(s.tools, l.tools)
           fin == s.finish \/ l.finish # "none"
           a == [s EXCEPT !.tools = calls, !.finish = fin]
           n == Num(l.text # "")
           p == Ollama!Process(a, l)
           e == Ollama!Part(p.content, l.think, <<>>, FALSE)
           t == Ollama!Delivered(s, l)
<1>1. t = Ollama!Emit(p.s, e)
  <2>1. [s EXCEPT !.tools = Ollama!Accumulate(@, l.tools), !.finish = @ \/ l.finish # "none"] = a
    BY OllamaOperators, Zenon
  <2> QED
    BY <2>1, Zenon DEF Ollama!Delivered
<1>0. n \in Nat
  BY NumIsNat
<1>2. Ollama!Num(l.text # "") = n
  BY Zenon DEF Ollama!Num, Num
<1> HIDE DEF calls, fin, n, t, e
<1>3. /\ DOMAIN a = OllamaFields /\ a.tools = calls /\ a.finish = fin /\ a.held = s.held
      /\ a.done = s.done /\ a.out = <<>>
  BY DEF OllamaFields
<1> HIDE DEF a
<1>4. PICK held, mode : /\ held \in Nat /\ p.content \in Nat /\ p.content + held = s.held + n
                        /\ p.s = [a EXCEPT !.mode = mode, !.held = held]
  <2>1. CASE l.think
    <3>1. p = [s |-> Ollama!Decided(a, "passthrough"), content |-> a.held + n]
      BY <1>2, <2>1 DEF Ollama!Process
    <3>2. p.content = s.held + n /\ p.s = [a EXCEPT !.mode = "passthrough", !.held = 0]
      BY <1>3, <3>1 DEF Ollama!Decided
    <3>3. s.held + n \in Nat /\ (s.held + n) + 0 = s.held + n /\ 0 \in Nat
      BY <1>0
    <3> HIDE DEF p
    <3> QED
      BY <3>2, <3>3, Zenon
  <2>2. CASE ~l.think /\ a.mode = "undetermined" /\ Ollama!Ambiguous(a, l)
    <3>1. p = [s |-> [a EXCEPT !.held = @ + n], content |-> 0]
      BY <1>2, <2>2 DEF Ollama!Process
    <3>2. p.content = 0 /\ p.s = [a EXCEPT !.held = s.held + n]
      BY <1>3, <3>1
    <3>3. [a EXCEPT !.held = s.held + n] = [a EXCEPT !.mode = a.mode, !.held = s.held + n]
      BY <1>3 DEF OllamaFields
    <3> HIDE DEF p
    <3>4. s.held + n \in Nat /\ 0 + (s.held + n) = s.held + n /\ 0 \in Nat
      BY <1>0
    <3> QED
      BY <3>2, <3>3, <3>4, Zenon
  <2>3. CASE ~l.think /\ ~(a.mode = "undetermined" /\ Ollama!Ambiguous(a, l))
    <3> DEFINE mode == IF a.mode = "undetermined" THEN "plain" ELSE a.mode
    <3>1. p = [s |-> Ollama!Decided(a, mode), content |-> a.held + n]
      BY <1>2, <2>3 DEF Ollama!Process
    <3> HIDE DEF mode
    <3>2. p.content = s.held + n /\ p.s = [a EXCEPT !.mode = mode, !.held = 0]
      BY <1>3, <3>1 DEF Ollama!Decided
    <3>3. s.held + n \in Nat /\ (s.held + n) + 0 = s.held + n /\ 0 \in Nat
      BY <1>0
    <3> HIDE DEF p
    <3> QED
      BY <3>2, <3>3, Zenon
  <2> QED
    BY <2>1, <2>2, <2>3
<1> DEFINE b == p.s
           content == p.content
<1> HIDE DEF p
<1>5. /\ DOMAIN b = OllamaFields /\ b.tools = calls /\ b.finish = fin /\ b.held = held
      /\ b.done = s.done /\ b.out = <<>>
  BY <1>3, <1>4 DEF OllamaFields
<1>6. t = [b EXCEPT !.out = Append(@, e)]
  BY <1>1, Zenon DEF Ollama!Emit
<1> HIDE DEF b
<1>7. /\ DOMAIN t = OllamaFields /\ t.tools = calls /\ t.finish = fin /\ t.held = held
      /\ t.done = s.done /\ t.out = <<e>>
  BY <1>5, <1>6 DEF OllamaFields
<1>8. Sent(s, t, calls, held, fin, s.done, <<e>>)
  BY <1>7, Zenon DEF Sent
<1>9. e = Ollama!Part(content, l.think, <<>>, FALSE)
  BY Zenon DEF e
<1>10. held \in Nat /\ content \in Nat /\ content + held = s.held + n
  BY <1>4
<1> HIDE DEF content
<1> QED
  BY <1>8, <1>9, <1>10, Zenon DEF t, calls, fin, n

\* What a decoder sends that does not read more.
LEMMA OllamaEnd ==
  ASSUME NEW s, DOMAIN s = OllamaFields, s.out = <<>>
  PROVE  /\ Sent(s, Ollama!Emit(s, Ollama!Part(0, FALSE, <<>>, FALSE)), s.tools, s.held, s.finish,
                 s.done, <<Ollama!Part(0, FALSE, <<>>, FALSE)>>)
         /\ s.done => Sent(s, Ollama!DoneDelta(s), s.tools, s.held, s.finish,
                           s.done, <<Ollama!Part(0, FALSE, <<>>, FALSE)>>)
         /\ ~s.done => Sent(s, Ollama!DoneDelta(s), <<>>, 0, s.finish,
                            TRUE, <<Ollama!Part(s.held, FALSE, s.tools, TRUE)>>)
<1> DEFINE e == Ollama!Part(0, FALSE, <<>>, FALSE)
           d == Ollama!Part(s.held, FALSE, s.tools, TRUE)
           t == Ollama!Emit(s, e)
           c == [s EXCEPT !.done = TRUE, !.held = 0, !.tools = <<>>]
           u == Ollama!Emit(c, d)
<1>1. /\ s.done => Ollama!DoneDelta(s) = t
      /\ ~s.done => Ollama!DoneDelta(s) = u
  BY Zenon DEF Ollama!DoneDelta
<1> HIDE DEF e, d
<1>2. Sent(s, t, s.tools, s.held, s.finish, s.done, <<e>>)
  BY DEF Sent, Ollama!Emit, OllamaFields
<1>3. Sent(s, u, <<>>, 0, s.finish, TRUE, <<d>>)
  <2>1. DOMAIN c = OllamaFields /\ c.tools = <<>> /\ c.held = 0 /\ c.finish = s.finish
        /\ c.done = TRUE /\ c.out = <<>>
    BY DEF OllamaFields
  <2> HIDE DEF c
  <2> QED
    BY <2>1 DEF Sent, Ollama!Emit, OllamaFields
<1> HIDE DEF t, u
<1> QED
  BY <1>1, <1>2, <1>3, Zenon DEF e, d, t

LEMMA ClearOllama ==
  ASSUME NEW t, DOMAIN t = OllamaFields
  PROVE  /\ DOMAIN Clear(t) = OllamaFields /\ Clear(t) = Clear(Clear(t)) /\ Clear(t).out = <<>>
         /\ Clear(t).tools = t.tools /\ Clear(t).held = t.held /\ Clear(t).finish = t.finish
         /\ Clear(t).done = t.done
BY DEF Clear, OllamaFields

\* What is sent leaves the client of v where the reply q is.
OllamaSends(q, v, tools, held, finish, done, content, think, calls, last) ==
  /\ held \in Nat /\ finish \in BOOLEAN /\ done \in BOOLEAN /\ content \in Nat
  /\ IsTally(v) /\ v.text + content + held = q.text /\ v.think + Num(think) = q.think
  /\ finish = (q.finish # "none") /\ v.ends + Num(last) = Num(done)
  /\ ~done => tools = q.calls
  /\ done => /\ held = 0 /\ finish = TRUE
              /\ q.calls = IF last THEN calls ELSE v.tools

LEMMA OllamaFits ==
  ASSUME NEW v, NEW s, NEW t, NEW tools, NEW held, NEW finish, NEW done, NEW content,
         NEW think, NEW calls, NEW last, NEW q,
         Sent(s, t, tools, held, finish, done, <<Ollama!Part(content, think, calls, last)>>),
         OllamaSends(q, v, tools, held, finish, done, content, think, calls, last)
  PROVE  OllamaFit(q, Clear(t), OllamaClient!Through(v, t.out))
<1> DEFINE p == Ollama!Part(content, think, calls, last)
           w == ReadOllama(v, p)
           u == Clear(t)
<1>0. /\ held \in Nat /\ finish \in BOOLEAN /\ done \in BOOLEAN /\ content \in Nat
      /\ IsTally(v) /\ v.text + content + held = q.text /\ v.think + Num(think) = q.think
      /\ finish = (q.finish # "none") /\ v.ends + Num(last) = Num(done)
      /\ ~done => tools = q.calls
      /\ done => /\ held = 0 /\ finish = TRUE
                  /\ q.calls = IF last THEN calls ELSE v.tools
  BY Zenon DEF OllamaSends
<1>1. DOMAIN t = OllamaFields /\ t.tools = tools /\ t.held = held /\ t.finish = finish
      /\ t.done = done /\ t.out = <<p>>
  BY Zenon DEF Sent
<1>2. TalliesPart(v, w, content, think, calls, last)
  BY <1>0, ReadsOllama, Zenon
<1> HIDE DEF p, w
<1>3. OllamaClient!Through(v, t.out) = w
  BY <1>1, OllamaFew, Zenon DEF w
<1>4. /\ DOMAIN u = OllamaFields /\ u = Clear(u) /\ u.tools = tools /\ u.held = held
      /\ u.finish = finish /\ u.done = done
  BY <1>1, ClearOllama, Zenon
<1> HIDE DEF u
<1>5. /\ IsTally(w) /\ w.text = v.text + content /\ w.think = v.think + Num(think)
      /\ w.ends = v.ends + Num(last) /\ w.tools = IF last THEN calls ELSE v.tools
  BY <1>2, Zenon DEF TalliesPart
<1>7. u.held \in Nat /\ u.finish \in BOOLEAN /\ u.done \in BOOLEAN
      /\ u.finish = (q.finish # "none")
  BY <1>0, <1>4, Zenon
<1>8. w.text + u.held = q.text /\ w.think = q.think /\ w.ends = Num(u.done)
  BY <1>0, <1>4, <1>5, Zenon
<1>9. ~u.done => u.tools = q.calls
  BY <1>0, <1>4, Zenon
<1>10. u.done => u.held = 0 /\ w.tools = q.calls /\ u.finish = TRUE
  BY <1>0, <1>4, <1>5, Zenon
<1>6. OllamaFit(q, u, w)
  BY <1>4, <1>5, <1>7, <1>8, <1>9, <1>10, Zenon DEF OllamaFit
<1> QED
  BY <1>3, <1>6, Zenon DEF u

\* A line keeps the Ollama client in step with the reply.
LEMMA OllamaLine ==
  ASSUME NEW r, IsReply(r), NEW l, IsLine(r, l), NEW s, NEW v, OllamaFit(r, s, v)
  PROVE  /\ OllamaFit(Carried(r, l), Clear(Ollama!Line(s, l)),
                      OllamaClient!Through(v, Ollama!Line(s, l).out))
         /\ l.type = "eof" => Clear(Ollama!Line(s, l)).done = Clear(Ollama!Line(s, l)).finish
<1> DEFINE t == Ollama!Line(s, l)
           q == Carried(r, l)
           e == <<Ollama!Part(0, FALSE, <<>>, FALSE)>>
           d == <<Ollama!Part(s.held, FALSE, s.tools, TRUE)>>
           Goal == /\ OllamaFit(q, Clear(t), OllamaClient!Through(v, t.out))
                   /\ l.type = "eof" => Clear(t).done = Clear(t).finish
<1>1. /\ DOMAIN s = OllamaFields /\ s = Clear(s)
      /\ s.held \in Nat /\ s.finish \in BOOLEAN /\ s.done \in BOOLEAN
      /\ IsTally(v) /\ v.text + s.held = r.text /\ v.think = r.think
      /\ s.finish = (r.finish # "none") /\ v.ends = Num(s.done)
      /\ (~s.done => s.tools = r.calls)
      /\ (s.done => s.held = 0 /\ v.tools = r.calls /\ s.finish = TRUE)
  BY Zenon DEF OllamaFit
<1>2. s.out = <<>>
  BY <1>1, ClearOllama, Zenon
<1>3. v.text \in Nat /\ v.think \in Nat /\ v.ends \in Nat
  BY <1>1, Zenon DEF IsTally
<1>4. Num(FALSE) = 0 /\ Num(TRUE) = 1
  BY DEF Num
<1> DEFINE Stay == Sent(s, t, s.tools, s.held, s.finish, s.done, e)
           Finish == ~s.done /\ s.finish /\ Sent(s, t, <<>>, 0, s.finish, TRUE, d)
\* Nothing is sent.
<1>5. ASSUME t = s, l.type # "chunk", l.type = "eof" => s.done = s.finish PROVE Goal
  <2>1. OllamaClient!Through(v, t.out) = v /\ Clear(t) = s
    BY <1>1, <1>2, <1>5, OllamaFew, Zenon
  <2>2. OllamaFit(q, s, v)
    <3>1. CASE l.type = "error"
      <4>1. Erring(r, q) /\ r.finish = "none"
        BY <3>1, CarriedTyped DEF IsLine, IsChunk
      <4>2. /\ q.text = r.text /\ q.think = r.think /\ q.calls = r.calls /\ q.finish = r.finish
        BY <4>1, Zenon DEF Erring
      <4> HIDE DEF q
      <4> QED
        BY <1>1, <4>2, Zenon DEF OllamaFit
    <3>2. CASE l.type # "error"
      <4>1. q = r
        BY <1>5, <3>2 DEF Carried
      <4> QED
        BY <4>1, Zenon
    <3> QED
      BY <3>1, <3>2
  <2> QED
    BY <1>5, <2>1, <2>2, Zenon
\* Something is, that ends nothing.
<1>6. ASSUME Stay, l.type # "chunk", l.type # "error", l.type # "eof" PROVE Goal
  <2>1. q = r
    BY <1>6 DEF Carried
  <2>2. v.text + 0 + s.held = r.text /\ v.think + 0 = r.think
    BY <1>1, <1>3
  <2>3. v.ends + 0 = Num(s.done)
    BY <1>1, <1>3
  <2>4. s.done => r.calls = IF FALSE THEN <<>> ELSE v.tools
    BY <1>1, Zenon
  <2>5. 0 \in Nat
    OBVIOUS
  <2>6. OllamaSends(r, v, s.tools, s.held, s.finish, s.done, 0, FALSE, <<>>, FALSE)
    BY <1>1, <1>4, <2>2, <2>3, <2>4, <2>5, Zenon DEF OllamaSends
  <2>7. OllamaFit(r, Clear(t), OllamaClient!Through(v, t.out))
    BY <1>6, <2>6, OllamaFits, Zenon
  <2> QED
    BY <1>6, <2>1, <2>7, Zenon
\* The last part is.
<1>7. ASSUME Finish, l.type # "chunk", l.type # "error" PROVE Goal
  <2>1. q = r
    BY <1>7 DEF Carried
  <2>2. v.text + s.held + 0 = r.text /\ v.think + 0 = r.think
    <3>1. r.text = v.text + s.held /\ s.held \in Nat
      BY <1>1, Zenon
    <3>2. v.text + s.held + 0 = r.text
      BY <1>3, <3>1
    <3>3. v.think + 0 = v.think
      BY <1>3
    <3> QED
      BY <1>1, <3>2, <3>3, Zenon
  <2>3. v.ends + 1 = 1
    <3>1. v.ends = 0
      <4>1. s.done = FALSE
        BY <1>1, <1>7, Zenon
      <4> QED
        BY <1>1, <1>4, <4>1, Zenon
    <3> QED
      BY <3>1
  <2>4. s.finish = TRUE /\ 0 \in Nat
    BY <1>1, <1>7
  <2>5. r.calls = IF TRUE THEN s.tools ELSE v.tools
    BY <1>1, <1>7, Zenon
  <2>6. OllamaSends(r, v, <<>>, 0, s.finish, TRUE, s.held, FALSE, s.tools, TRUE)
    BY <1>1, <1>4, <2>2, <2>3, <2>4, <2>5, Zenon DEF OllamaSends
  <2>7. OllamaFit(r, Clear(t), OllamaClient!Through(v, t.out))
    BY <1>7, <2>6, OllamaFits, Zenon
  <2>8. Clear(t).done = TRUE /\ Clear(t).finish = s.finish
    BY <1>7, ClearOllama, Zenon DEF Sent
  <2> QED
    BY <2>1, <2>4, <2>7, <2>8, Zenon
<1>8. CASE l.type = "chunk"
  <2>1. IsChunk(l) /\ r.finish = "none" /\ Adding(r, l, q)
    BY <1>8, CarriedTyped DEF IsLine
  <2>2. t = Ollama!Delivered(s, l)
    BY <1>8 DEF Ollama!Line
  <2> DEFINE n == Num(l.text # "")
             fin == s.finish \/ l.finish # "none"
  <2>3. PICK held \in Nat, content \in Nat :
          /\ content + held = s.held + n
          /\ Sent(s, Ollama!Delivered(s, l), Accumulate(s.tools, l.tools), held,
                  fin, s.done, <<Ollama!Part(content, l.think, <<>>, FALSE)>>)
    BY <1>1, <1>2, OllamaChunk, Zenon
  <2>4. s.finish = FALSE /\ s.done = FALSE
    BY <1>1, <2>1
  <2>5. /\ q.text = r.text + n /\ q.think = r.think + Num(l.think)
        /\ q.calls = Accumulate(r.calls, l.tools)
        /\ q.finish = IF l.finish = "none" THEN r.finish ELSE l.finish
    BY <2>1, Zenon DEF Adding
  <2>6. n \in Nat
    BY NumIsNat
  <2>7. fin \in BOOLEAN /\ fin = (q.finish # "none")
    <3>1. fin = (l.finish # "none")
      BY <2>4
    <3>2. (q.finish # "none") = (l.finish # "none")
      BY <2>1, <2>5
    <3> HIDE DEF fin
    <3> QED
      BY <3>1, <3>2
  <2> HIDE DEF n, fin, t, q
  <2>8. v.text + content + held = q.text
    <3> DEFINE qt == q.text
               vt == v.text
               sh == s.held
    <3>1. vt + sh = r.text /\ qt = r.text + n
      BY <1>1, <2>5, Zenon
    <3>2. vt \in Nat /\ sh \in Nat
      BY <1>1, <1>3, Zenon
    <3>3. content + held = sh + n
      BY <2>3, Zenon
    <3> HIDE DEF qt, vt, sh
    <3>4. vt + content + held = qt
      BY <3>1, <3>2, <3>3, <2>6
    <3> QED
      BY <3>4, Zenon DEF qt, vt
  <2>9. v.think + Num(l.think) = q.think
    BY <1>1, <2>5, Zenon
  <2>10. v.ends + Num(FALSE) = Num(s.done)
    <3>1. v.ends + 0 = Num(s.done)
      BY <1>1, <1>3
    <3> QED
      BY <1>4, <3>1, Zenon
  <2>11. ~s.done => Accumulate(s.tools, l.tools) = q.calls
    BY <1>1, <2>5, Zenon
  <2>12. Sent(s, t, Accumulate(s.tools, l.tools), held, fin, s.done,
              <<Ollama!Part(content, l.think, <<>>, FALSE)>>)
    BY <2>2, <2>3, Zenon
  <2>13. OllamaSends(q, v, Accumulate(s.tools, l.tools), held, fin, s.done, content, l.think, <<>>, FALSE)
    BY <1>1, <2>4, <2>7, <2>8, <2>9, <2>10, <2>11, Zenon DEF OllamaSends
  <2>14. OllamaFit(q, Clear(t), OllamaClient!Through(v, t.out))
    BY <2>12, <2>13, OllamaFits, Zenon
  <2>15. l.type # "eof"
    BY <1>8
  <2> QED
    BY <2>14, <2>15, Zenon DEF t, q
<1>9. CASE l.type \in {"usage", "error"}
  <2>1. t = s
    BY <1>9 DEF Ollama!Line
  <2> QED
    BY <1>5, <1>9, <2>1
<1>10. CASE l.type = "[DONE]"
  <2>1. t = IF s.finish THEN Ollama!DoneDelta(s)
            ELSE Ollama!Emit(s, Ollama!Part(0, FALSE, <<>>, FALSE))
    BY <1>10 DEF Ollama!Line
  <2>2. Stay \/ Finish
    <3>1. CASE ~s.finish
      BY <1>1, <1>2, <2>1, <3>1, OllamaEnd, Zenon
    <3>2. CASE s.finish
      <4>1. t = Ollama!DoneDelta(s)
        BY <2>1, <3>2, Zenon
      <4>2. /\ s.done => Sent(s, Ollama!DoneDelta(s), s.tools, s.held, s.finish, s.done, e)
            /\ ~s.done => Sent(s, Ollama!DoneDelta(s), <<>>, 0, s.finish, TRUE, d)
        BY <1>1, <1>2, OllamaEnd, Zenon
      <4> HIDE DEF t, e, d
      <4> QED
        BY <3>2, <4>1, <4>2, Zenon
    <3> QED
      BY <3>1, <3>2, Zenon
  <2> QED
    BY <1>6, <1>7, <1>10, <2>2
<1>11. CASE l.type = "eof"
  <2>1. t = IF s.finish /\ ~s.done THEN Ollama!DoneDelta(s) ELSE s
    BY <1>11 DEF Ollama!Line
  <2>2. Finish \/ (t = s /\ ~(s.finish /\ ~s.done))
    <3>1. CASE ~(s.finish /\ ~s.done)
      BY <2>1, <3>1, Zenon
    <3>2. CASE s.finish /\ ~s.done
      <4>1. t = Ollama!DoneDelta(s)
        BY <2>1, <3>2, Zenon
      <4>2. Sent(s, Ollama!DoneDelta(s), <<>>, 0, s.finish, TRUE, d)
        BY <1>1, <1>2, <3>2, OllamaEnd, Zenon
      <4> HIDE DEF t, d
      <4> QED
        BY <3>2, <4>1, <4>2, Zenon
    <3> QED
      BY <3>1, <3>2, Zenon
  <2>3. ~(s.finish /\ ~s.done) => s.done = s.finish
    BY <1>1
  <2> QED
    BY <1>5, <1>7, <1>11, <2>2, <2>3
<1>12. l.type \in {"chunk", "usage", "error", "[DONE]", "eof"}
  BY DEF IsLine, IsChunk
<1> HIDE DEF t, q
<1> QED
  BY <1>8, <1>9, <1>10, <1>11, <1>12 DEF t, q

(***************************************************************************)
(* Gemini                                                                  *)
(***************************************************************************)

GeminiFold == INSTANCE FoldProofs WITH Op <- ReadGemini

LEMMA GeminiOperators == \A calls, fs : Gemini!Accumulate(calls, fs) = Accumulate(calls, fs)
BY Zenon DEF Gemini!Accumulate, Accumulate, Gemini!Growing!Through, Growing!Through,
   Gemini!GrowCall, GrowCall, Gemini!Put, Put, Gemini!Grow, Grow, Gemini!Call, Call,
   Gemini!NoCall, NoCall, Gemini!AddArgs, AddArgs, Gemini!Num, Num

LEMMA GeminiFew ==
  ASSUME NEW v, NEW p
  PROVE  GeminiClient!Through(v, <<>>) = v /\ GeminiClient!Through(v, <<p>>) = ReadGemini(v, p)
<1>1. \A q : GeminiClient!Through(v, q) = GeminiFold!Through(v, q)
  BY Zenon DEF GeminiClient!Through, GeminiFold!Through
<1>2. GeminiFold!Through(v, <<>>) = v /\ GeminiFold!Through(v, <<p>>) = ReadGemini(v, p)
  BY GeminiFold!ThroughNone, GeminiFold!ThroughOne, Zenon
<1> QED
  BY <1>1, <1>2, Zenon

\* The client of an event.
TalliesEvent(v, w, type, content, think, tools) ==
  /\ IsTally(w) /\ w.text = v.text + content /\ w.think = v.think + Num(think)
  /\ w.ends = v.ends + Num(type = "finish")
  /\ w.error = (v.error \/ type = "error")
  /\ w.tools = IF type = "finish" THEN tools ELSE v.tools

LEMMA ReadsGemini ==
  ASSUME NEW v, IsTally(v), NEW type, NEW content \in Nat, NEW think, NEW tools
  PROVE  TalliesEvent(v, ReadGemini(v, Gemini!Event(type, content, think, tools)),
                      type, content, think, tools)
<1> DEFINE p == Gemini!Event(type, content, think, tools)
           h == Num(think)
           m == Num(type = "finish")
           u == IF type = "finish" THEN tools ELSE v.tools
           b == v.error \/ type = "error"
           w == ReadGemini(v, p)
<1>1. p.content = content /\ p.think = think /\ p.tools = tools /\ p.type = type
  BY DEF Gemini!Event
<1>2. w = [v EXCEPT !.text = @ + content, !.think = @ + h, !.ends = @ + m, !.error = b,
                    !.tools = u]
  BY <1>1, Zenon DEF ReadGemini
<1>3. h \in Nat /\ m \in Nat
  BY NumIsNat
<1>0. b \in BOOLEAN
  OBVIOUS
<1> HIDE DEF p, h, m, u, b, w
<1>4. /\ IsTally(w) /\ w.text = v.text + content /\ w.think = v.think + h
      /\ w.ends = v.ends + m /\ w.tools = u /\ w.error = b
  BY <1>0, <1>2, <1>3 DEF IsTally
<1> QED
  BY <1>4, Zenon DEF TalliesEvent, p, h, m, u, b, w

LEMMA ClearGemini ==
  ASSUME NEW t, DOMAIN t = GeminiFields
  PROVE  /\ DOMAIN Clear(t) = GeminiFields /\ Clear(t) = Clear(Clear(t)) /\ Clear(t).out = <<>>
         /\ Clear(t).tools = t.tools /\ Clear(t).finished = t.finished
BY DEF Clear, GeminiFields

\* The converter after a line, and what it sends.
Answered(t, tools, finished, out) ==
  DOMAIN t = GeminiFields /\ t.tools = tools /\ t.finished = finished /\ t.out = out

\* An event leaves the client of v where the reply q is.
AnswersTo(q, v, tools, finished, type, content, think, calls) ==
  /\ finished \in BOOLEAN /\ content \in Nat
  /\ IsTally(v) /\ v.text + content = q.text /\ v.think + Num(think) = q.think
  /\ (v.error \/ type = "error") = q.error
  /\ v.ends + Num(type = "finish") = Num(finished)
  /\ q.finish # "none" => finished
  /\ ~finished => tools = q.calls
  /\ finished => q.calls = IF type = "finish" THEN calls ELSE v.tools

LEMMA GeminiFits ==
  ASSUME NEW v, NEW t, NEW tools, NEW finished, NEW type, NEW content, NEW think, NEW calls, NEW q,
         Answered(t, tools, finished, <<Gemini!Event(type, content, think, calls)>>),
         AnswersTo(q, v, tools, finished, type, content, think, calls)
  PROVE  GeminiFit(q, Clear(t), GeminiClient!Through(v, t.out))
<1> DEFINE p == Gemini!Event(type, content, think, calls)
           w == ReadGemini(v, p)
           u == Clear(t)
<1>0. /\ finished \in BOOLEAN /\ content \in Nat
      /\ IsTally(v) /\ v.text + content = q.text /\ v.think + Num(think) = q.think
      /\ (v.error \/ type = "error") = q.error
      /\ v.ends + Num(type = "finish") = Num(finished)
      /\ q.finish # "none" => finished
      /\ ~finished => tools = q.calls
      /\ finished => q.calls = IF type = "finish" THEN calls ELSE v.tools
  BY Zenon DEF AnswersTo
<1>1. DOMAIN t = GeminiFields /\ t.tools = tools /\ t.finished = finished /\ t.out = <<p>>
  BY Zenon DEF Answered
<1>2. TalliesEvent(v, w, type, content, think, calls)
  BY <1>0, ReadsGemini, Zenon
<1> HIDE DEF p, w
<1>3. GeminiClient!Through(v, t.out) = w
  BY <1>1, GeminiFew, Zenon DEF w
<1>4. DOMAIN u = GeminiFields /\ u = Clear(u) /\ u.tools = tools /\ u.finished = finished
  BY <1>1, ClearGemini, Zenon
<1> HIDE DEF u
<1>5. /\ IsTally(w) /\ w.text = v.text + content /\ w.think = v.think + Num(think)
      /\ w.ends = v.ends + Num(type = "finish") /\ w.error = (v.error \/ type = "error")
      /\ w.tools = IF type = "finish" THEN calls ELSE v.tools
  BY <1>2, Zenon DEF TalliesEvent
<1>6. u.finished \in BOOLEAN /\ w.text = q.text /\ w.think = q.think
      /\ w.ends = Num(u.finished) /\ w.error = q.error
  BY <1>0, <1>4, <1>5, Zenon
<1>7. q.finish # "none" => u.finished
  BY <1>0, <1>4, Zenon
<1>8. ~u.finished => u.tools = q.calls
  BY <1>0, <1>4, Zenon
<1>9. u.finished => w.tools = q.calls
  BY <1>0, <1>4, <1>5, Zenon
<1>10. GeminiFit(q, u, w)
  BY <1>4, <1>5, <1>6, <1>7, <1>8, <1>9, Zenon DEF GeminiFit
<1> QED
  BY <1>3, <1>10, Zenon DEF u

LEMMA GeminiEmits ==
  ASSUME NEW u, DOMAIN u = GeminiFields, u.out = <<>>, NEW p
  PROVE  /\ Answered(Gemini!Emit(u, p), u.tools, u.finished, <<p>>)
         /\ Answered(Gemini!Emit([u EXCEPT !.finished = TRUE], p), u.tools, TRUE, <<p>>)
<1>1. \A c : DOMAIN c = GeminiFields /\ c.out = <<>> =>
              Answered(Gemini!Emit(c, p), c.tools, c.finished, <<p>>)
  <2> TAKE c
  <2> HAVE DOMAIN c = GeminiFields /\ c.out = <<>>
  <2>1. Append(c.out, p) = <<p>>
    OBVIOUS
  <2> DEFINE w == Gemini!Emit(c, p)
  <2>2. w = [c EXCEPT !.out = <<p>>]
    BY <2>1, Zenon DEF Gemini!Emit
  <2> HIDE DEF w
  <2>3. DOMAIN w = GeminiFields /\ w.tools = c.tools /\ w.finished = c.finished /\ w.out = <<p>>
    BY <2>2 DEF GeminiFields
  <2> QED
    BY <2>3, Zenon DEF Answered, w
<1> DEFINE c == [u EXCEPT !.finished = TRUE]
<1>2. DOMAIN c = GeminiFields /\ c.out = <<>> /\ c.tools = u.tools /\ c.finished = TRUE
  BY DEF GeminiFields
<1> HIDE DEF c
<1>3. Answered(Gemini!Emit(c, p), u.tools, TRUE, <<p>>)
  BY <1>1, <1>2, Zenon
<1> QED
  BY <1>1, <1>3, Zenon DEF c

\* What a converter of Gemini may send on a line.
LEMMA GeminiAnswers ==
  ASSUME NEW s, DOMAIN s = GeminiFields, s.out = <<>>, s.finished \in BOOLEAN, NEW l,
         l.type = "chunk" => ~s.finished /\ l.think \in BOOLEAN
  PROVE  /\ l.type = "error" =>
              Answered(Gemini!Line(s, l), s.tools, s.finished,
                       <<Gemini!Event("error", 0, FALSE, <<>>)>>)
         /\ l.type = "chunk" /\ l.finish # "none" =>
              Answered(Gemini!Line(s, l), Accumulate(s.tools, l.tools), TRUE,
                       <<Gemini!Event("finish", Num(l.text # ""), l.think,
                                      Accumulate(s.tools, l.tools))>>)
         /\ l.type = "chunk" /\ l.finish = "none" =>
              Answered(Gemini!Line(s, l), Accumulate(s.tools, l.tools), FALSE,
                       IF Num(l.text # "") = 0 /\ ~l.think THEN <<>>
                       ELSE <<Gemini!Event("parts", Num(l.text # ""), l.think, <<>>)>>)
         /\ l.type = "[DONE]" =>
              Answered(Gemini!Line(s, l), s.tools, TRUE,
                       IF s.finished THEN <<>>
                       ELSE <<Gemini!Event("finish", 0, FALSE, s.tools)>>)
<1> DEFINE g == Gemini!Line(s, l)
           calls == Accumulate(s.tools, l.tools)
           n == Num(l.text # "")
           t == [s EXCEPT !.tools = calls]
<1> DEFINE tt == IF l.type = "chunk" THEN [s EXCEPT !.tools = Gemini!Accumulate(@, l.tools)] ELSE s
           nn == IF l.type = "chunk" THEN Gemini!Num(l.text # "") ELSE 0
           kk == l.type = "chunk" /\ l.think
<1>11. Gemini!Answer(s, l) =
         IF Gemini!Ends(tt, l)
         THEN Gemini!Emit([tt EXCEPT !.finished = TRUE], Gemini!Event("finish", nn, kk, tt.tools))
         ELSE IF nn = 0 /\ ~kk THEN tt ELSE Gemini!Emit(tt, Gemini!Event("parts", nn, kk, <<>>))
  BY Zenon DEF Gemini!Answer
<1>1. l.type = "error" => g = Gemini!Emit(s, Gemini!Event("error", 0, FALSE, <<>>))
  BY DEF Gemini!Line
<1>2. l.type \in {"chunk", "[DONE]"} => g = Gemini!Answer(s, l)
  BY DEF Gemini!Line
<1>3. Gemini!Num(l.text # "") = n
  BY Zenon DEF Gemini!Num, Num
<1>4. [s EXCEPT !.tools = Gemini!Accumulate(@, l.tools)] = t
  BY GeminiOperators, Zenon
<1>5. /\ DOMAIN t = GeminiFields /\ t.tools = calls /\ t.finished = s.finished /\ t.out = <<>>
  BY DEF GeminiFields
<1> HIDE DEF g, calls, n, t
<1>6. l.type = "error" => Answered(g, s.tools, s.finished, <<Gemini!Event("error", 0, FALSE, <<>>)>>)
  BY <1>1, GeminiEmits, Zenon
<1>8. l.type = "chunk" /\ l.finish # "none" =>
        Answered(g, calls, TRUE, <<Gemini!Event("finish", n, l.think, calls)>>)
  <2>1. ASSUME l.type = "chunk", l.finish # "none"
        PROVE  g = Gemini!Emit([t EXCEPT !.finished = TRUE],
                               Gemini!Event("finish", n, l.think, t.tools))
    <3>1. Gemini!Ends(t, l)
      BY <1>5, <2>1 DEF Gemini!Ends
    <3>2. g = Gemini!Answer(s, l)
      BY <1>2, <2>1
    <3>3. (l.type = "chunk" /\ l.think) = l.think
      BY <2>1
    <3>4. tt = t /\ nn = n
      BY <1>3, <1>4, <2>1, Zenon
    <3> QED
      BY <1>11, <3>1, <3>2, <3>3, <3>4, Zenon
  <2> QED
    BY <1>5, <2>1, GeminiEmits, Zenon
<1>9. l.type = "chunk" /\ l.finish = "none" =>
        Answered(g, calls, FALSE,
                 IF n = 0 /\ ~l.think THEN <<>> ELSE <<Gemini!Event("parts", n, l.think, <<>>)>>)
  <2>1. ASSUME l.type = "chunk", l.finish = "none"
        PROVE  g = IF n = 0 /\ ~l.think THEN t
                   ELSE Gemini!Emit(t, Gemini!Event("parts", n, l.think, <<>>))
    <3>1. ~Gemini!Ends(t, l)
      BY <1>5, <2>1 DEF Gemini!Ends
    <3>2. g = Gemini!Answer(s, l)
      BY <1>2, <2>1
    <3>3. (l.type = "chunk" /\ l.think) = l.think
      BY <2>1
    <3>4. tt = t /\ nn = n
      BY <1>3, <1>4, <2>1, Zenon
    <3> QED
      BY <1>11, <3>1, <3>2, <3>3, <3>4, Zenon
  <2>2. ASSUME l.type = "chunk" PROVE t.finished = FALSE
    BY <1>5, <2>2
  <2>3. ASSUME t.finished = FALSE PROVE Answered(t, calls, FALSE, <<>>)
    BY <1>5, <2>3, Zenon DEF Answered
  <2>4. ASSUME t.finished = FALSE
        PROVE  Answered(Gemini!Emit(t, Gemini!Event("parts", n, l.think, <<>>)), calls, FALSE,
                        <<Gemini!Event("parts", n, l.think, <<>>)>>)
    BY <1>5, <2>4, GeminiEmits, Zenon
  <2> QED
    <3>1. CASE n = 0 /\ ~l.think
      BY <2>1, <2>2, <2>3, <3>1, Zenon
    <3>2. CASE ~(n = 0 /\ ~l.think)
      BY <2>1, <2>2, <2>4, <3>2, Zenon
    <3> QED
      BY <3>1, <3>2, Zenon
<1>10. l.type = "[DONE]" =>
         Answered(g, s.tools, TRUE,
                  IF s.finished THEN <<>> ELSE <<Gemini!Event("finish", 0, FALSE, s.tools)>>)
  <2>1. CASE l.type = "[DONE]" /\ s.finished
    <3>1. ~Gemini!Ends(s, l)
      BY <2>1 DEF Gemini!Ends
    <3>2. g = s
      BY <1>2, <2>1, <3>1 DEF Gemini!Answer
    <3>3. s.finished = TRUE
      BY <2>1
    <3>4. Answered(s, s.tools, TRUE, <<>>)
      BY <3>3, Zenon DEF Answered
    <3> QED
      BY <2>1, <3>2, <3>4, Zenon
  <2>2. CASE l.type = "[DONE]" /\ ~s.finished
    <3>1. Gemini!Ends(s, l)
      BY <2>2 DEF Gemini!Ends
    <3>2. g = Gemini!Emit([s EXCEPT !.finished = TRUE], Gemini!Event("finish", 0, FALSE, s.tools))
      BY <1>2, <2>2, <3>1 DEF Gemini!Answer
    <3> QED
      BY <2>2, <3>2, GeminiEmits, Zenon
  <2> QED
    BY <2>1, <2>2, Zenon
<1> QED
  BY <1>6, <1>8, <1>9, <1>10, Zenon DEF g, calls, n

\* Only a finish and [DONE] end the stream.
GeminiEnds(s, l, t) ==
  /\ l.type \in {"usage", "error", "eof"} => t.finished = s.finished
  /\ l.type = "chunk" /\ l.finish = "none" => t.finished = FALSE

\* A line keeps the Gemini client in step with the reply.
LEMMA GeminiLine ==
  ASSUME NEW r, IsReply(r), NEW l, IsLine(r, l), NEW s, NEW v, GeminiFit(r, s, v),
         l.type = "chunk" => ~s.finished
  PROVE  /\ GeminiFit(Carried(r, l), Clear(Gemini!Line(s, l)),
                      GeminiClient!Through(v, Gemini!Line(s, l).out))
         /\ GeminiEnds(s, l, Clear(Gemini!Line(s, l)))
<1> DEFINE t == Gemini!Line(s, l)
           q == Carried(r, l)
           Goal == /\ GeminiFit(q, Clear(t), GeminiClient!Through(v, t.out))
                   /\ GeminiEnds(s, l, Clear(t))
<1>1. /\ DOMAIN s = GeminiFields /\ s = Clear(s) /\ s.finished \in BOOLEAN
      /\ IsTally(v) /\ v.text = r.text /\ v.think = r.think /\ v.error = r.error
      /\ v.ends = Num(s.finished)
      /\ (r.finish # "none" => s.finished)
      /\ (~s.finished => s.tools = r.calls)
      /\ (s.finished => v.tools = r.calls)
  BY Zenon DEF GeminiFit
<1>2. s.out = <<>>
  BY <1>1, ClearGemini, Zenon
<1>3. v.text \in Nat /\ v.think \in Nat /\ v.ends \in Nat /\ v.error \in BOOLEAN
  BY <1>1, Zenon DEF IsTally
<1>4. Num(FALSE) = 0 /\ Num(TRUE) = 1 /\ Num("error" = "finish") = 0 /\ Num("parts" = "finish") = 0
      /\ Num("finish" = "finish") = 1
  BY DEF Num
<1>5. v.text + 0 = v.text /\ v.think + 0 = v.think /\ v.ends + 0 = v.ends /\ 0 \in Nat
  BY <1>3
<1>6. "parts" # "finish" /\ "error" # "finish" /\ "parts" # "error" /\ "finish" # "error"
  OBVIOUS
<1>7. l.type = "chunk" => l.think \in BOOLEAN
  BY DEF IsLine, IsChunk
<1>8. CASE l.type \in {"usage", "eof"}
  <2>1. t = s /\ q = r
    BY <1>8 DEF Gemini!Line, Carried
  <2>2. GeminiClient!Through(v, t.out) = v /\ Clear(t) = s
    BY <1>1, <1>2, <2>1, GeminiFew, Zenon
  <2>3. GeminiEnds(s, l, s)
    BY <1>8 DEF GeminiEnds
  <2> HIDE DEF t, q
  <2> QED
    BY <2>1, <2>2, <2>3, Zenon DEF t, q
<1>9. CASE l.type = "error"
  <2>1. Erring(r, q)
    BY <1>9, CarriedTyped
  <2>2. /\ q.text = r.text /\ q.think = r.think /\ q.calls = r.calls /\ q.finish = r.finish
        /\ q.error = TRUE
    BY <2>1, Zenon DEF Erring
  <2>3. Answered(t, s.tools, s.finished, <<Gemini!Event("error", 0, FALSE, <<>>)>>)
    BY <1>1, <1>2, <1>9, GeminiAnswers
  <2> HIDE DEF t, q
  <2>4. (v.error \/ "error" = "error") = q.error
    BY <2>2
  <2>5. s.finished => q.calls = v.tools
    BY <1>1, <2>2, Zenon
  <2>6. AnswersTo(q, v, s.tools, s.finished, "error", 0, FALSE, <<>>)
    BY <1>1, <1>4, <1>5, <1>6, <2>2, <2>4, <2>5, Zenon DEF AnswersTo
  <2>7. GeminiFit(q, Clear(t), GeminiClient!Through(v, t.out))
    BY <2>3, <2>6, GeminiFits, Zenon
  <2>8. Clear(t).finished = s.finished
    BY <2>3, ClearGemini, Zenon DEF Answered
  <2>9. GeminiEnds(s, l, Clear(t))
    BY <1>9, <2>8 DEF GeminiEnds
  <2> QED
    BY <2>7, <2>9, Zenon DEF t, q
<1>10. CASE l.type = "[DONE]"
  <2>1. q = r
    BY <1>10 DEF Carried
  <2>2. Answered(t, s.tools, TRUE,
                 IF s.finished THEN <<>> ELSE <<Gemini!Event("finish", 0, FALSE, s.tools)>>)
    BY <1>1, <1>2, <1>10, GeminiAnswers
  <2>3. GeminiEnds(s, l, Clear(t))
    BY <1>10 DEF GeminiEnds
  <2> HIDE DEF t, q
  <2>4. CASE s.finished
    <3>1. DOMAIN t = GeminiFields /\ t.tools = s.tools /\ t.finished = TRUE /\ t.out = <<>>
      BY <2>2, <2>4, Zenon DEF Answered
    <3>2. /\ DOMAIN Clear(t) = GeminiFields /\ Clear(t) = Clear(Clear(t))
          /\ Clear(t).finished = TRUE
      BY <3>1, ClearGemini, Zenon
    <3>3. GeminiClient!Through(v, t.out) = v
      BY <3>1, GeminiFew, Zenon
    <3>4. s.finished = TRUE
      BY <2>4
    <3>5. GeminiFit(r, Clear(t), v)
      BY <1>1, <3>2, <3>4, Zenon DEF GeminiFit
    <3> QED
      BY <2>1, <2>3, <3>3, <3>5, Zenon DEF t, q
  <2>5. CASE ~s.finished
    <3>1. Answered(t, s.tools, TRUE, <<Gemini!Event("finish", 0, FALSE, s.tools)>>)
      BY <2>2, <2>5, Zenon
    <3>2. v.ends = 0
      <4>1. s.finished = FALSE
        BY <1>1, <2>5, Zenon
      <4> QED
        BY <1>1, <1>4, <4>1, Zenon
    <3>3. v.ends + 1 = 1
      BY <3>2
    <3>4. (v.error \/ "finish" = "error") = r.error
      BY <1>1, <1>3
    <3>5. AnswersTo(r, v, s.tools, TRUE, "finish", 0, FALSE, s.tools)
      BY <1>1, <1>4, <1>5, <2>5, <3>3, <3>4, Zenon DEF AnswersTo
    <3>6. GeminiFit(r, Clear(t), GeminiClient!Through(v, t.out))
      BY <3>1, <3>5, GeminiFits, Zenon
    <3> QED
      BY <2>1, <2>3, <3>6, Zenon DEF t, q
  <2> QED
    BY <2>4, <2>5, Zenon
<1>11. CASE l.type = "chunk"
  <2>1. IsChunk(l) /\ r.finish = "none" /\ Adding(r, l, q)
    BY <1>11, CarriedTyped DEF IsLine
  <2> DEFINE n == Num(l.text # "")
             calls == Accumulate(s.tools, l.tools)
  <2>2. /\ q.text = r.text + n /\ q.think = r.think + Num(l.think)
        /\ q.calls = Accumulate(r.calls, l.tools) /\ q.error = r.error
        /\ q.finish = IF l.finish = "none" THEN r.finish ELSE l.finish
    BY <2>1, Zenon DEF Adding
  <2>3. n \in Nat
    BY NumIsNat
  <2>4. s.finished = FALSE
    BY <1>1, <1>11
  <2>5. /\ l.finish # "none" =>
             Answered(t, calls, TRUE, <<Gemini!Event("finish", n, l.think, calls)>>)
        /\ l.finish = "none" =>
             Answered(t, calls, FALSE,
                      IF n = 0 /\ ~l.think THEN <<>>
                      ELSE <<Gemini!Event("parts", n, l.think, <<>>)>>)
    BY <1>1, <1>2, <1>7, <1>11, GeminiAnswers
  <2> HIDE DEF t, q, n
  <2>6. v.text + n = q.text /\ v.think + Num(l.think) = q.think /\ v.ends = 0 /\ q.calls = calls
    BY <1>1, <1>4, <2>2, <2>4, Zenon
  <2>7. CASE l.finish # "none"
    <3>1. v.ends + 1 = 1
      BY <2>6
    <3>2. (v.error \/ "finish" = "error") = q.error
      BY <1>1, <1>3, <2>2
    <3>3. AnswersTo(q, v, calls, TRUE, "finish", n, l.think, calls)
      BY <1>1, <1>4, <2>3, <2>6, <3>1, <3>2, Zenon DEF AnswersTo
    <3>4. GeminiFit(q, Clear(t), GeminiClient!Through(v, t.out))
      BY <2>5, <2>7, <3>3, GeminiFits, Zenon
    <3>5. GeminiEnds(s, l, Clear(t))
      BY <1>11, <2>7 DEF GeminiEnds
    <3> QED
      BY <3>4, <3>5, Zenon DEF t, q
  <2>8. CASE l.finish = "none"
    <3>1. q.finish = "none"
      BY <2>1, <2>2, <2>8, Zenon
    <3>2. v.ends + 0 = Num(FALSE)
      BY <1>4, <1>5, <2>6, Zenon
    <3>3. DOMAIN t = GeminiFields /\ t.finished = FALSE /\ t.tools = calls
      BY <2>5, <2>8, Zenon DEF Answered
    <3>4. /\ DOMAIN Clear(t) = GeminiFields /\ Clear(t) = Clear(Clear(t))
          /\ Clear(t).finished = FALSE /\ Clear(t).tools = calls
      BY <3>3, ClearGemini, Zenon
    <3>5. GeminiEnds(s, l, Clear(t))
      BY <1>11, <3>4 DEF GeminiEnds
    <3>6. CASE n = 0 /\ ~l.think
      <4>1. t.out = <<>>
        BY <2>5, <2>8, <3>6, Zenon DEF Answered
      <4>2. GeminiClient!Through(v, t.out) = v
        BY <4>1, GeminiFew, Zenon
      <4>3. l.think = FALSE
        BY <1>7, <1>11, <3>6
      <4>4. v.text = q.text /\ v.think = q.think
        BY <1>4, <1>5, <2>6, <3>6, <4>3, Zenon
      <4>5. v.ends = Num(FALSE)
        BY <1>4, <2>6
      <4>6. v.error = q.error
        BY <1>1, <2>2, Zenon
      <4>7. GeminiFit(q, Clear(t), v)
        BY <1>1, <2>6, <3>1, <3>4, <4>4, <4>5, <4>6, Zenon DEF GeminiFit
      <4> QED
        BY <3>5, <4>2, <4>7, Zenon DEF t, q
    <3>7. CASE ~(n = 0 /\ ~l.think)
      <4>1. (v.error \/ "parts" = "error") = q.error
        BY <1>1, <1>3, <2>2
      <4>2. AnswersTo(q, v, calls, FALSE, "parts", n, l.think, <<>>)
        BY <1>1, <1>4, <2>3, <2>6, <3>1, <3>2, <4>1, Zenon DEF AnswersTo
      <4>3. Answered(t, calls, FALSE, <<Gemini!Event("parts", n, l.think, <<>>)>>)
        BY <2>5, <2>8, <3>7, Zenon
      <4>4. GeminiFit(q, Clear(t), GeminiClient!Through(v, t.out))
        BY <4>2, <4>3, GeminiFits, Zenon
      <4> QED
        BY <3>5, <4>4, Zenon DEF t, q
    <3> QED
      BY <3>6, <3>7, Zenon
  <2> QED
    BY <2>7, <2>8, Zenon
<1>12. l.type \in {"chunk", "usage", "error", "[DONE]", "eof"}
  BY DEF IsLine, IsChunk
<1> HIDE DEF t, q
<1> QED
  BY <1>8, <1>9, <1>10, <1>11, <1>12 DEF t, q

(***************************************************************************)
(* A line on every surface                                                 *)
(***************************************************************************)

Relays == INSTANCE FoldProofs WITH Op <- Relay

Converters == {"messages", "responses", "ollama", "gemini", "anthropic"}

Readers == {"messages", "responses", "ollama", "gemini"}

Reply == [sent |-> sent, conv |-> conv, seen |-> seen]

\* The clients and the converters follow the reply; Messages does of a
\* backend.
Relayed(x, backend) ==
  /\ DOMAIN x.conv = Converters /\ DOMAIN x.seen = Readers
  /\ IsReply(x.sent)
  /\ x.sent.finish # "none" => ~x.sent.error
  /\ backend => MessagesFit(x.sent, x.conv.messages, x.seen.messages)
  /\ ResponsesFit(x.sent, x.conv.responses, x.seen.responses)
  /\ OllamaFit(x.sent, x.conv.ollama, x.seen.ollama)
  /\ GeminiFit(x.sent, x.conv.gemini, x.seen.gemini)

\* The reply has not come to an end.
Ongoing(x, backend) ==
  /\ x.sent.finish = "none" /\ x.sent.error = FALSE
  /\ backend => ~x.conv.messages.done
  /\ ~x.conv.responses.done
  /\ ~x.conv.gemini.finished

\* The stream has.
AtRest(x, backend) ==
  /\ backend => x.conv.messages.done
  /\ x.conv.responses.done
  /\ x.conv.ollama.done = x.conv.ollama.finish

LEMMA RelayKeeps ==
  ASSUME NEW x, NEW backend \in BOOLEAN, Relayed(x, backend), NEW l, IsLine(x.sent, l),
         l.type \in {"chunk", "error"} => Ongoing(x, backend)
  PROVE  /\ Relayed(Relay(x, l), backend)
         /\ Relay(x, l).sent = Carried(x.sent, l)
         /\ l.type = "chunk" /\ l.finish = "none" => Ongoing(Relay(x, l), backend)
         /\ l.type = "eof" => AtRest(Relay(x, l), backend)
<1> DEFINE y == Relay(x, l)
           m == Messages!Line(x.conv.messages, l)
           r == Responses!Line(x.conv.responses, l)
           o == Ollama!Line(x.conv.ollama, l)
           g == Gemini!Line(x.conv.gemini, l)
           c == [x.conv EXCEPT !.messages = Clear(m), !.responses = Clear(r),
                               !.ollama = Clear(o), !.gemini = Clear(g)]
           v == [messages |-> MessagesClient!Through(x.seen.messages, m.out),
                 responses |-> ResponsesClient!Through(x.seen.responses, r.out),
                 ollama |-> OllamaClient!Through(x.seen.ollama, o.out),
                 gemini |-> GeminiClient!Through(x.seen.gemini, g.out)]
           q == Carried(x.sent, l)
<1>1. /\ DOMAIN x.conv = Converters /\ IsReply(x.sent)
      /\ (x.sent.finish # "none" => ~x.sent.error)
      /\ (backend => MessagesFit(x.sent, x.conv.messages, x.seen.messages))
      /\ ResponsesFit(x.sent, x.conv.responses, x.seen.responses)
      /\ OllamaFit(x.sent, x.conv.ollama, x.seen.ollama)
      /\ GeminiFit(x.sent, x.conv.gemini, x.seen.gemini)
  BY Zenon DEF Relayed
<1>2. y = [sent |-> q, conv |-> c, seen |-> v]
  BY Zenon DEF Relay
<1>3. y.sent = q /\ y.conv = c /\ y.seen = v
  BY <1>2
<1> DEFINE Still ==
             /\ x.sent.finish = "none" /\ x.sent.error = FALSE
             /\ backend => ~x.conv.messages.done
             /\ ~x.conv.responses.done /\ ~x.conv.gemini.finished
<1>4. l.type \in {"chunk", "error"} => Still
  BY Zenon DEF Ongoing
<1>5. /\ MessagesFit(x.sent, x.conv.messages, x.seen.messages) /\ backend =>
           /\ MessagesFit(q, Clear(m), MessagesClient!Through(x.seen.messages, m.out))
           /\ Ends(x.conv.messages, l, Clear(m))
  BY <1>1, <1>4, MessagesLine, Zenon
<1>6. /\ ResponsesFit(q, Clear(r), ResponsesClient!Through(x.seen.responses, r.out))
      /\ Ends(x.conv.responses, l, Clear(r))
  BY <1>1, <1>4, ResponsesLine, Zenon
<1>7. /\ OllamaFit(q, Clear(o), OllamaClient!Through(x.seen.ollama, o.out))
      /\ l.type = "eof" => Clear(o).done = Clear(o).finish
  BY <1>1, OllamaLine, Zenon
<1>8. l.type = "chunk" => ~x.conv.gemini.finished
  BY <1>4
<1>9. /\ GeminiFit(q, Clear(g), GeminiClient!Through(x.seen.gemini, g.out))
      /\ GeminiEnds(x.conv.gemini, l, Clear(g))
  BY <1>1, <1>8, GeminiLine, Zenon
<1>10. IsReply(q)
  BY <1>1, CarriedTyped, Zenon
<1>11. /\ l.type = "chunk" => /\ q.error = x.sent.error
                              /\ q.finish = IF l.finish = "none" THEN x.sent.finish ELSE l.finish
       /\ l.type = "error" => q.finish = x.sent.finish
       /\ l.type \in {"usage", "[DONE]", "eof"} => q = x.sent
  <2>1. /\ l.type = "chunk" => Adding(x.sent, l, q)
        /\ l.type = "error" => Erring(x.sent, q)
        /\ l.type \in {"usage", "[DONE]", "eof"} => q = x.sent
    BY <1>1, CarriedTyped, Zenon
  <2> HIDE DEF q
  <2>2. l.type = "chunk" => /\ q.error = x.sent.error
                            /\ q.finish = IF l.finish = "none" THEN x.sent.finish ELSE l.finish
    BY <2>1, Zenon DEF Adding
  <2>3. l.type = "error" => q.finish = x.sent.finish
    BY <2>1, Zenon DEF Erring
  <2> QED
    BY <2>1, <2>2, <2>3, Zenon
<1>12. l.type \in {"chunk", "usage", "error", "[DONE]", "eof"}
  BY DEF IsLine, IsChunk
<1>13. q.finish # "none" => ~q.error
  <2> HIDE DEF q
  <2>1. CASE l.type = "chunk"
    BY <1>4, <1>11, <2>1
  <2>2. CASE l.type = "error"
    BY <1>4, <1>11, <2>2
  <2>3. CASE l.type \in {"usage", "[DONE]", "eof"}
    BY <1>1, <1>11, <2>3, Zenon
  <2> QED
    BY <1>12, <2>1, <2>2, <2>3
<1> DEFINE cm == Clear(m)
           cr == Clear(r)
           co == Clear(o)
           cg == Clear(g)
<1>14. c = [x.conv EXCEPT !.messages = cm, !.responses = cr, !.ollama = co, !.gemini = cg]
  OBVIOUS
<1> HIDE DEF m, r, o, g, c, cm, cr, co, cg
<1>15. /\ DOMAIN c = Converters /\ c.messages = cm /\ c.responses = cr /\ c.ollama = co
       /\ c.gemini = cg
  BY <1>1, <1>14 DEF Converters
<1> DEFINE vm == MessagesClient!Through(x.seen.messages, m.out)
           vr == ResponsesClient!Through(x.seen.responses, r.out)
           vo == OllamaClient!Through(x.seen.ollama, o.out)
           vg == GeminiClient!Through(x.seen.gemini, g.out)
<1>16. v = [messages |-> vm, responses |-> vr, ollama |-> vo, gemini |-> vg]
  BY Zenon
<1> HIDE DEF v, vm, vr, vo, vg
<1>17. /\ DOMAIN v = Readers /\ v.messages = vm /\ v.responses = vr /\ v.ollama = vo
       /\ v.gemini = vg
  BY <1>16 DEF Readers
<1> HIDE DEF y, q
<1>18. Relayed(y, backend)
  <2>1. backend => MessagesFit(q, cm, vm)
    BY <1>1, <1>5, Zenon DEF cm, vm
  <2>2. ResponsesFit(q, cr, vr) /\ OllamaFit(q, co, vo) /\ GeminiFit(q, cg, vg)
    BY <1>6, <1>7, <1>9, Zenon DEF cr, vr, co, vo, cg, vg
  <2> QED
    BY <1>3, <1>10, <1>13, <1>15, <1>17, <2>1, <2>2, Zenon DEF Relayed
<1>19. ASSUME l.type = "chunk", l.finish = "none" PROVE Ongoing(y, backend)
  <2>1. q.finish = "none" /\ q.error = FALSE
    BY <1>4, <1>11, <1>19
  <2>2. backend => ~cm.done
    <3>1. backend => cm.done = x.conv.messages.done
      BY <1>1, <1>5, <1>19 DEF Ends, cm
    <3> QED
      BY <1>4, <1>19, <3>1
  <2>3. ~cr.done
    <3>1. cr.done = x.conv.responses.done
      BY <1>6, <1>19 DEF Ends, cr
    <3> QED
      BY <1>4, <1>19, <3>1
  <2>4. ~cg.finished
    BY <1>9, <1>19 DEF GeminiEnds, cg
  <2> QED
    BY <1>3, <1>15, <2>1, <2>2, <2>3, <2>4, Zenon DEF Ongoing
<1>20. ASSUME l.type = "eof" PROVE AtRest(y, backend)
  <2>1. backend => cm.done
    BY <1>1, <1>5, <1>20 DEF Ends, cm
  <2>2. cr.done
    BY <1>6, <1>20 DEF Ends, cr
  <2>3. co.done = co.finish
    BY <1>7, <1>20 DEF co
  <2> QED
    BY <1>3, <1>15, <2>1, <2>2, <2>3, Zenon DEF AtRest
<1> QED
  BY <1>3, <1>18, <1>19, <1>20, Zenon DEF y, q

\* What the fields say of a reply, whatever becomes of the others.
LEMMA RelayedAlike ==
  ASSUME NEW x, NEW y, NEW backend \in BOOLEAN,
         y.sent = x.sent, DOMAIN y.conv = Converters, DOMAIN y.seen = Readers,
         y.conv.responses = x.conv.responses, y.conv.ollama = x.conv.ollama,
         y.conv.gemini = x.conv.gemini,
         y.seen.responses = x.seen.responses, y.seen.ollama = x.seen.ollama,
         y.seen.gemini = x.seen.gemini,
         backend => y.conv.messages = x.conv.messages /\ y.seen.messages = x.seen.messages
  PROVE  /\ Relayed(x, backend) => Relayed(y, backend)
         /\ Ongoing(x, backend) => Ongoing(y, backend)
         /\ AtRest(x, backend) => AtRest(y, backend)
<1>1. Relayed(x, backend) => Relayed(y, backend)
  BY Zenon DEF Relayed
<1>2. Ongoing(x, backend) => Ongoing(y, backend)
  BY Zenon DEF Ongoing
<1>3. AtRest(x, backend) => AtRest(y, backend)
  BY Zenon DEF AtRest
<1> QED
  BY <1>1, <1>2, <1>3

FromBackend == up.source = "backend"

\* The state after a feed is where its lines lead, but for the converter of
\* the provider and what a provider's Messages client reads.
LEMMA Fed ==
  ASSUME NEW lines, NEW a, Feed(lines, a), up.source \in {"backend", "provider"},
         Relayed(Relays!Through(Reply, lines), FromBackend)
  PROVE  /\ Relayed(Reply', FromBackend)
         /\ sent' = Relays!Through(Reply, lines).sent
         /\ Ongoing(Relays!Through(Reply, lines), FromBackend) => Ongoing(Reply', FromBackend)
         /\ AtRest(Relays!Through(Reply, lines), FromBackend) => AtRest(Reply', FromBackend)
         /\ conv'.anthropic = Clear(a)
         /\ ~FromBackend => conv'.messages = conv.messages /\ seen'.messages = seen.messages
<1> DEFINE x == Relays!Through(Reply, lines)
           d == Clear(a)
           mc == IF up.source = "provider" THEN conv.messages ELSE x.conv.messages
           ms == IF up.source = "provider" THEN seen.messages ELSE x.seen.messages
<1>1. Relaying!Through([sent |-> sent, conv |-> conv, seen |-> seen], lines) = x
  BY Zenon DEF Relaying!Through, Relays!Through, Reply
<1>2. /\ sent' = x.sent
      /\ conv' = [x.conv EXCEPT !.anthropic = d, !.messages = mc]
      /\ seen' = [x.seen EXCEPT !.messages = ms]
  BY <1>1, Zenon DEF Feed
<1>3. DOMAIN x.conv = Converters /\ DOMAIN x.seen = Readers
  BY Zenon DEF Relayed
<1>4. /\ ~FromBackend => mc = conv.messages /\ ms = seen.messages
      /\ FromBackend => mc = x.conv.messages /\ ms = x.seen.messages
  BY DEF FromBackend
<1> HIDE DEF x, d, mc, ms
<1>5. /\ DOMAIN conv' = Converters /\ conv'.anthropic = d /\ conv'.messages = mc
      /\ conv'.responses = x.conv.responses /\ conv'.ollama = x.conv.ollama
      /\ conv'.gemini = x.conv.gemini
  BY <1>2, <1>3 DEF Converters
<1>6. /\ DOMAIN seen' = Readers /\ seen'.messages = ms
      /\ seen'.responses = x.seen.responses /\ seen'.ollama = x.seen.ollama
      /\ seen'.gemini = x.seen.gemini
  BY <1>2, <1>3 DEF Readers
<1>7. Reply'.sent = sent' /\ Reply'.conv = conv' /\ Reply'.seen = seen'
  BY DEF Reply
<1>8. FromBackend \in BOOLEAN
  BY DEF FromBackend
<1>9. /\ Relayed(x, FromBackend) => Relayed(Reply', FromBackend)
      /\ Ongoing(x, FromBackend) => Ongoing(Reply', FromBackend)
      /\ AtRest(x, FromBackend) => AtRest(Reply', FromBackend)
  <2> DEFINE y == Reply'
             b == FromBackend
  <2>1. /\ y.sent = x.sent /\ DOMAIN y.conv = Converters /\ DOMAIN y.seen = Readers
        /\ y.conv.responses = x.conv.responses /\ y.conv.ollama = x.conv.ollama
        /\ y.conv.gemini = x.conv.gemini
        /\ y.seen.responses = x.seen.responses /\ y.seen.ollama = x.seen.ollama
        /\ y.seen.gemini = x.seen.gemini
        /\ b => y.conv.messages = x.conv.messages /\ y.seen.messages = x.seen.messages
    BY <1>2, <1>4, <1>5, <1>6, <1>7, Zenon
  <2>2. b \in BOOLEAN
    BY <1>8
  <2> HIDE DEF y, b
  <2>3. /\ Relayed(x, b) => Relayed(y, b)
        /\ Ongoing(x, b) => Ongoing(y, b)
        /\ AtRest(x, b) => AtRest(y, b)
    BY <2>1, <2>2, RelayedAlike, Zenon
  <2> QED
    BY <2>3, Zenon DEF y, b
<1> QED
  BY <1>2, <1>4, <1>5, <1>6, <1>9, Zenon DEF x, d
=============================================================================
