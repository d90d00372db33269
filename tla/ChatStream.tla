----------------------------- MODULE ChatStream -----------------------------
(***************************************************************************)
(* The lines of a streamed chat completion, as the converters of the API   *)
(* surfaces read them.  Text is counted in fragments; the arguments of a   *)
(* tool call are a JSON object sent whole or in two halves.                *)
(***************************************************************************)
EXTENDS Naturals, Sequences, FiniteSets

Reasons == {"stop", "length", "tool_calls", "content_filter"}

\* index: the call's, or the position of the fragment in its line.
Fragment(index, id, name, args) ==
  [index |-> index, id |-> id, name |-> name, args |-> args]

\* text: "x", or "<", which may be the start of a tag.
Chunk == [type |-> "chunk", think |-> FALSE, tools |-> <<>>, text |-> "",
          refusal |-> FALSE, finish |-> "none"]

Sentinel(type) == [type |-> type]   \* "usage", "error", "[DONE]" or the end of the stream

Num(b) == IF b THEN 1 ELSE 0

\* A JSON object, or nothing at all.
Parses(args) == args \in {<<>>, <<"whole">>, <<"head", "tail">>}

AddArgs(args, a) == IF a = "" THEN args ELSE Append(args, a)

\* A call as far as it has arrived, and whether its block is open.
NoCall == [id |-> "none", name |-> 0, args |-> <<>>, open |-> FALSE, index |-> 0]

Call(calls, i) == IF i \in DOMAIN calls THEN calls[i] ELSE NoCall

Grow(call, f) ==
  [call EXCEPT !.id = IF @ = "none" /\ f.id THEN "given" ELSE @,
               !.name = @ + Num(f.name), !.args = AddArgs(@, f.args)]

Put(calls, i, call) ==
  [j \in DOMAIN calls \cup {i} |-> IF j = i THEN call ELSE calls[j]]

\* accumulate_tool_call_deltas: by index, fragment after fragment.
GrowCall(calls, f) == Put(calls, f.index, Grow(Call(calls, f.index), f))

Growing == INSTANCE Fold WITH Op <- GrowCall

Accumulate(calls, fragments) == Growing!Through(calls, fragments)

\* The indices of calls in their order, as a BTreeMap has them.
Indices(calls) ==
  [k \in 1 .. Cardinality(DOMAIN calls) |->
     CHOOSE i \in DOMAIN calls : Cardinality({j \in DOMAIN calls : j < i}) = k - 1]
=============================================================================
